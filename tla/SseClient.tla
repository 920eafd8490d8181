------------------------------ MODULE SseClient ------------------------------
(***************************************************************************)
(* SseClient: a subscription to an event stream over one HttpClientStream.  *)
(* The callbacks of the stream run on its strand; connect, cancel and the   *)
(* destructor run in the application's thread.  They share connect_started, *)
(* terminal and the handlers, under a mutex; handlers are called, and the   *)
(* stream is cancelled, after it was released.                              *)
(*                                                                         *)
(* A part of the response carries some events, or one that is too large.    *)
(***************************************************************************)
EXTENDS HttpClientStream

CONSTANTS
  MaxEvents       \* bound on the events of a part

SseClientAssumption == MaxEvents \in Nat

VARIABLES
  connectStarted, terminal,
  at,             \* the callback of the stream that is awaited, "new", "over"
  pending,        \* events of this part that are not emitted yet
  held,           \* emit copied the event handler and has not called it
  handling,       \* the strand is in the event handler
  last,           \* how the read ended: "more", "done" or "error"
  parsed, emitted,\* history: events parsed, and those handed to the handler
  app,            \* the application's thread in cancel()
  abandoned,      \* the destructor ran
  closeCalls, closeArg,  \* calls of on_close and its argument
  lateEvents      \* event handlers entered after on_close was called or the
                  \* destructor ran

clientVars == <<connectStarted, terminal, at, pending, held, handling, last,
                parsed, emitted, app, abandoned, closeCalls, closeArg, lateEvents>>
vars == <<streamVars, clientVars>>

(* The decisions of the code; a mutant of one stands before it.             *)
(* finish, under the mutex: this is the first end. *)
FirstEnd == ~terminal

EmitsAnyway == TRUE                                \* mutant
(* emit, under the mutex: the subscription has not ended. *)
MayEmit == ~terminal

(* finish cancels the stream. *)
CancelsStream(ec) == ec # "ok"

(* The events of a part that are emitted. *)
ToEmit(n) == n

-----------------------------------------------------------------------------
(* The application's side of the mutex does nothing here. *)
AppRest == UNCHANGED <<connectStarted, app, abandoned>>
StreamRest == UNCHANGED <<config, made, started, requestFinished, parser,
                          interim, wire, got>>

(* The stream has no call of the client in progress but this one. *)
Upstream(op) ==
  /\ w' = IF op \in {"start", "finish"} THEN Post(op, 0) ELSE Idle
  /\ r' = IF op \in {"readHead", "readSome"} THEN Post(op, 0) ELSE Idle
Goes(next, op) ==
  /\ at' = next /\ Upstream(op)
  /\ UNCHANGED <<terminal, closeCalls, closeArg, cancelled, link>>

(* finish(ec) on the strand; then no call of the stream is in progress.     *)
Finish(ec) ==
  /\ at' = "over" /\ w' = Idle /\ r' = Idle
  /\ IF FirstEnd
     THEN /\ terminal' = TRUE
          /\ closeCalls' = closeCalls + 1 /\ closeArg' = ec
          /\ cancelled' = (cancelled \/ CancelsStream(ec))
          /\ link' = IF made /\ CancelsStream(ec) THEN "closed" ELSE link
     ELSE UNCHANGED <<terminal, closeCalls, closeArg, cancelled, link>>

(* connect.  A second one is refused: its own on_close is called, and       *)
(* nothing else happens.                                                    *)
Connect ==
  /\ ~connectStarted /\ ~abandoned /\ app = "idle"
  /\ connectStarted' = TRUE
  /\ Goes("upStart", "start")
  /\ StreamRest
  /\ UNCHANGED <<app, abandoned, pending, held, handling, last, parsed, emitted,
                 lateEvents>>

(* The request was started, then finished. *)
Requested ==
  /\ at \in {"upStart", "upFinish"} /\ w.op = "answer"
  /\ CASE w.out # "ok" -> Finish("error")
       [] w.out = "ok" /\ at = "upStart" -> Goes("upFinish", "finish")
       [] w.out = "ok" /\ at = "upFinish" -> Goes("upHead", "readHead")
  /\ StreamRest /\ AppRest
  /\ UNCHANGED <<pending, held, handling, last, parsed, emitted, lateEvents>>

(* read_head: 200 and text/event-stream, or the end of the subscription. *)
HeadAnswered ==
  /\ at = "upHead" /\ r.op = "answer"
  /\ \/ r.out = "ok" /\ Goes("upRead", "readSome")
     \/ Finish("error")
  /\ StreamRest /\ AppRest
  /\ UNCHANGED <<pending, held, handling, last, parsed, emitted, lateEvents>>

(* read_next: what was read is parsed; too large an event ends it, and the  *)
(* events of this part with it.                                             *)
PartAnswered ==
  /\ at = "upRead" /\ r.op = "answer"
  /\ last' = CASE r.out = "ok" -> "more" [] OTHER -> r.out
  /\ \/ /\ r.arg > 0
        /\ Finish("message_size")
        /\ UNCHANGED <<pending, parsed>>
     \/ \E n \in 0..MaxEvents :
          /\ n > 0 => r.arg > 0
          /\ pending' = ToEmit(n)
          /\ parsed' = parsed + n
          /\ Goes("emit", "none")
  /\ StreamRest /\ AppRest
  /\ UNCHANGED <<held, handling, emitted, lateEvents>>

(* emit: the check under the mutex, and the copy of the handler... *)
CheckEvent ==
  /\ at = "emit" /\ pending > 0 /\ ~held /\ ~handling
  /\ pending' = pending - 1
  /\ held' = MayEmit
  /\ UNCHANGED <<streamVars, connectStarted, terminal, at, handling, last,
                 parsed, emitted, app, abandoned, closeCalls, closeArg,
                 lateEvents>>

(* ...which is called once the mutex was released, whatever ended in between *)
Emit ==
  /\ held
  /\ held' = FALSE /\ handling' = TRUE
  /\ emitted' = emitted + 1
  /\ lateEvents' = IF closeCalls > 0 \/ abandoned THEN lateEvents + 1
                   ELSE lateEvents
  /\ UNCHANGED <<streamVars, connectStarted, terminal, at, pending, last,
                 parsed, app, abandoned, closeCalls, closeArg>>

(* The handler returns, or throws, which ends the subscription. *)
Handled ==
  /\ handling
  /\ handling' = FALSE
  /\ \/ UNCHANGED <<streamVars, terminal, closeCalls, closeArg, at>>
     \/ /\ IF FirstEnd
           THEN /\ terminal' = TRUE
                /\ closeCalls' = closeCalls + 1 /\ closeArg' = "aborted"
                /\ Cancel
           ELSE UNCHANGED <<streamVars, terminal, closeCalls, closeArg>>
        /\ UNCHANGED at
  /\ AppRest /\ UNCHANGED <<pending, held, last, parsed, emitted, lateEvents>>

(* The end of the callback of a read. *)
Emitted ==
  /\ at = "emit" /\ pending = 0 /\ ~held /\ ~handling
  /\ IF terminal
     THEN /\ at' = "over"
          /\ UNCHANGED <<w, r, terminal, closeCalls, closeArg, cancelled, link>>
     ELSE CASE last = "done" -> Finish("ok")
            [] last = "error" -> \E ec \in {"ok", "error"} : Finish(ec)
            [] last = "more" -> Goes("upRead", "readSome")
  /\ StreamRest /\ AppRest
  /\ UNCHANGED <<pending, held, handling, last, parsed, emitted, lateEvents>>

-----------------------------------------------------------------------------
(* cancel(), in the application's thread: the stream is cancelled first... *)
AppCancel ==
  /\ app = "idle" /\ ~abandoned /\ ~cancelled
  /\ Cancel
  /\ app' = "cancelling"
  /\ UNCHANGED <<connectStarted, terminal, at, pending, held, handling, last,
                 parsed, emitted, abandoned, closeCalls, closeArg, lateEvents>>

(* ...then finish is called: the end is claimed under the mutex... *)
AppFinish ==
  /\ app = "cancelling"
  /\ app' = IF FirstEnd THEN "closing" ELSE "idle"
  /\ terminal' = TRUE
  /\ UNCHANGED <<streamVars, connectStarted, at, pending, held, handling, last,
                 parsed, emitted, abandoned, closeCalls, closeArg, lateEvents>>

(* ...and the stream is cancelled again and on_close called, if there is    *)
(* one: before connect there is none.                                       *)
AppClose ==
  /\ app = "closing"
  /\ app' = "idle"
  /\ Cancel
  /\ closeCalls' = IF connectStarted THEN closeCalls + 1 ELSE closeCalls
  /\ closeArg' = IF connectStarted THEN "aborted" ELSE closeArg
  /\ UNCHANGED <<connectStarted, terminal, at, pending, held, handling, last,
                 parsed, emitted, abandoned, lateEvents>>

(* ~SseClient: abandon *)
Abandon ==
  /\ ~abandoned /\ app = "idle"
  /\ abandoned' = TRUE /\ terminal' = TRUE
  /\ Cancel
  /\ UNCHANGED <<connectStarted, at, pending, held, handling, last, parsed,
                 emitted, app, closeCalls, closeArg, lateEvents>>

UpstreamSteps ==
  /\ StreamStrand \/ StreamNetwork
  /\ UNCHANGED clientVars

-----------------------------------------------------------------------------
ClientNew ==
  /\ connectStarted = FALSE /\ terminal = FALSE /\ at = "new"
  /\ pending = 0 /\ held = FALSE /\ handling = FALSE /\ last = "more"
  /\ parsed = 0 /\ emitted = 0 /\ app = "idle" /\ abandoned = FALSE
  /\ closeCalls = 0 /\ closeArg = "none" /\ lateEvents = 0

ClientInit == StreamInit /\ length = Chunked /\ ClientNew

Callbacks == Requested \/ HeadAnswered \/ PartAnswered \/ CheckEvent \/ Emit
             \/ Handled \/ Emitted

ClientNext ==
  \/ Connect \/ Callbacks \/ AppCancel \/ AppFinish \/ AppClose \/ Abandon
  \/ UpstreamSteps

ClientSpec == ClientInit /\ [][ClientNext]_vars

(* The strand and the application's thread run, and the network ends every  *)
(* operation.                                                               *)
ClientFairness ==
  /\ StreamFairness
  /\ WF_vars(Callbacks) /\ WF_vars(AppFinish \/ AppClose)
ClientFairSpec == ClientSpec /\ ClientFairness

-----------------------------------------------------------------------------
(* on_close is called at most once, although a failing read, a throwing     *)
(* handler, a too large event and cancel() may end the subscription at the  *)
(* same time.                                                               *)
CloseOnce == closeCalls <= 1

(* At most one event handler is entered after on_close was called, or the   *)
(* destructor ran: the one that was copied before cancel() or ~SseClient    *)
(* took the mutex, also when a read has several events.  A subscription     *)
(* that ended by itself has none.                                           *)
OneLateEvent ==
  lateEvents <= 1 /\ (lateEvents > 0 => closeArg = "aborted" \/ abandoned)

(* A subscription that ended by itself has emitted every event it parsed. *)
EventsDelivered == closeArg = "ok" => emitted = parsed

(* A subscription that ended with an error has its transport closed. *)
ErrorClosesTransport ==
  closeArg \in {"error", "message_size"} =>
    cancelled /\ (made => link = "closed")

(* A subscription has one end, emits every event before it unless cancel()  *)
(* ended it, and an error closes its connection.                            *)
SubscriptionSound ==
  /\ CloseOnce /\ OneLateEvent /\ EventsDelivered
  /\ ErrorClosesTransport

(* Every subscription is told its end, unless the client is destroyed: also *)
(* one that cancel() ends at any moment.  (Only a client that was cancelled *)
(* before connect(), and so is terminal from the start, reports nothing.)   *)
CloseReported == connectStarted /\ ~terminal ~> closeCalls = 1 \/ abandoned
=============================================================================
