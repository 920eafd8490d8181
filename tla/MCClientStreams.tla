--------------------------- MODULE MCClientStreams ---------------------------
(***************************************************************************)
(* HttpClientStream on small instances, under each of its three users: an   *)
(* application that makes any call, a proxy session, and a subscription of  *)
(* an SseClient; and the parser that the subscription feeds.  A stream has  *)
(* one user and the parser works on what a read returned, so that each      *)
(* behaviour is about one part while the others rest.                       *)
(***************************************************************************)
EXTENDS ClientStreams

CONSTANTS
  MaxLen, Limits, CR, LF, B, D, E, I, None   \* of SseParser

VARIABLES
  part,
  limit, stream, source, fed, buffer, atStart, skipLf, fields, events, failed

Parser == INSTANCE SseParser

ASSUME Parser!ParserAssumption

parsing == <<limit, stream, source, fed, buffer, atStart, skipLf, fields,
             events, failed>>
all == <<vars, sse, parsing, part>>

(* What the parts that rest are like. *)
StreamRests == ~useTls /\ length = 0 /\ parts = 0
ProxyRests == named = {} /\ inTotal \in {0, length}
ParserRests ==
  /\ source = None /\ stream = <<>>
  /\ limit = CHOOSE n \in Limits : TRUE

MCInit ==
  /\ part \in {"application", "proxy", "subscription", "parser"}
  /\ ProxyInit /\ Sse!ClientNew
  /\ part # "proxy" => ProxyRests
  /\ part = "subscription" => length = Chunked
  /\ part = "parser" => StreamRests
  /\ IF part = "parser" THEN Parser!Init ELSE ParserRests /\ Parser!Init

MCNext ==
  \/ /\ part = "application" /\ Next
     /\ UNCHANGED <<proxyVars, sse, parsing, part>>
  \/ /\ part = "proxy" /\ ProxyNext
     /\ UNCHANGED <<sse, parsing, part>>
  \/ /\ part = "subscription" /\ Sse!ClientNext
     /\ UNCHANGED <<proxyVars, parsing, part>>
  \/ /\ part = "parser" /\ Parser!Next
     /\ UNCHANGED <<vars, sse, part>>

(* The fairness of the three users. *)
MCFairness ==
  /\ StreamFairness
  /\ WF_streamVars(part = "application" /\ ReturnWrite)
  /\ WF_streamVars(part = "application" /\ ReturnRead)
  /\ WF_vars(part = "proxy" /\ Pump)
  /\ WF_subscription(part = "subscription" /\ Sse!Callbacks)
  /\ WF_subscription(Sse!AppFinish \/ Sse!AppClose)

MCSpec == MCInit /\ [][MCNext]_all /\ MCFairness

-----------------------------------------------------------------------------
(* The property of SseParser, about every fragmentation of a stream. *)
ParserExact == Parser!ParserExact
==============================================================================
