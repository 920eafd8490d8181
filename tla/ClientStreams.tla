---------------------------- MODULE ClientStreams ----------------------------
(***************************************************************************)
(* HttpClientStream with its three users: an application that makes any     *)
(* call (Next), a proxy session (ProxyNext) and a subscription of an        *)
(* SseClient (Sse!ClientNext).  A stream has one user: the others then      *)
(* rest.                                                                    *)
(***************************************************************************)
EXTENDS HttpProxySession

CONSTANTS
  MaxEvents      \* of SseClient

VARIABLES
  connectStarted, terminal, sseAt, pending, held, handling, sseLast, parsed,
  emitted, app, abandoned, closeCalls, closeArg, lateEvents

Sse == INSTANCE SseClient WITH at <- sseAt, last <- sseLast

ASSUME SubscriptionAssumption == Sse!SseClientAssumption

sse == <<connectStarted, terminal, sseAt, pending, held, handling, sseLast,
         parsed, emitted, app, abandoned, closeCalls, closeArg, lateEvents>>
subscription == <<streamVars, sse>>

-----------------------------------------------------------------------------
(* The properties of SseClient, about its two handlers. *)
SubscriptionSound == Sse!SubscriptionSound
CloseReported == Sse!CloseReported
==============================================================================
