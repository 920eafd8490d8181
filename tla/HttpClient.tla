------------------------------ MODULE HttpClient ------------------------------
(***************************************************************************)
(* One request of HttpClient, asynchronous (request) or blocking            *)
(* (request_sync), over http or https: the Session with its deadlines.      *)
(*                                                                         *)
(* All handlers of a Session run on one strand.  An operation that finished,*)
(* and a timer that expired, are queued there: cancelling them afterwards   *)
(* has no effect, their handlers still run, without an error.               *)
(***************************************************************************)
EXTENDS Integers

CONSTANTS
  MaxInterim        \* bound on the 1xx responses of the server

ASSUME HttpClientAssumption == MaxInterim \in Nat

(* client_timeout_error(1), (2), (3) and (4) *)
Total == "total timeout"
ConnectCode == "connect timeout"
ReadCode == "read timeout"
WriteCode == "write timeout"
Codes == {Total, ConnectCode, ReadCode, WriteCode}

VARIABLES
  secure,           \* https
  served,           \* a thread runs the io_context
  deadlines,        \* the codes whose ClientTimeouts field is not zero
  op,               \* the operation in progress on the session's stream
  outcome,          \* "pending", or how it finished: its handler is queued
  timer,            \* [Codes -> {"off", "armed", "expired"}]
  closed,           \* the socket was closed by cancel()
  cancels,          \* cancel() functions posted to the strand
  completed,        \* completed_
  callbacks, result,\* calls of the ResponseCallback, and its argument
  sync,             \* the caller of request_sync, "none" for request
  syncDone, promise,\* its completed flag and promise
  interim,          \* 1xx responses read
  final,            \* the final response was read
  expired           \* history: codes of the timers that expired

session ==
  <<op, outcome, closed, timer, cancels, completed, callbacks, result>>
caller == <<sync, syncDone, promise>>
config == <<secure, served, deadlines>>
vars == <<config, session, caller, interim, final, expired>>

(* The decisions of the code; a mutant of one stands before it.             *)
(* complete is the first one. *)
Completes == ~completed

IgnoresAbort(c) == timer[c] # "off"           \* mutant: runs when cancelled
(* The handler of wait c is queued without an error. *)
Fires(c) == timer[c] = "expired"

LeavesOpen(n) == n                            \* mutant
(* Posted cancels once a deadline completed the request. *)
CancelsAfterTimeout(n) == n + 1

(* arm: the timer of code c, after its earlier wait was cancelled. *)
Arm(t, c) ==
  IF completed \/ c \notin deadlines THEN t ELSE [t EXCEPT ![c] = "armed"]

(* The responses that on_read hands to the callback. *)
FinalKinds == {"final"}

(* request_sync waits with a limit. *)
WaitBounded == Total \in deadlines

-----------------------------------------------------------------------------
(* Cancelling a timer: a wait that expired stays queued. *)
Disarm(t, cs) == [c \in Codes |-> IF c \in cs /\ t[c] = "armed"
                                  THEN "off" ELSE t[c]]
Phases == {ConnectCode, ReadCode, WriteCode}   \* waits of phase_timer_
Phase(t, c) == Arm(Disarm(t, Phases), c)

(* complete: the callback is called with r, and that of request_sync sets   *)
(* the promise unless the caller gave up.                                   *)
Complete(r) ==
  IF Completes
  THEN /\ completed' = TRUE
       /\ timer' = Disarm(timer, Codes)
       /\ callbacks' = callbacks + 1
       /\ result' = r
       /\ IF sync # "none" /\ ~syncDone
          THEN syncDone' = TRUE /\ promise' = r
          ELSE UNCHANGED <<syncDone, promise>>
  ELSE UNCHANGED <<completed, timer, callbacks, result, syncDone, promise>>

(* An operation on a closed socket fails at once; connecting opens it.      *)
Begin(o) ==
  /\ op' = o
  /\ outcome' = IF closed /\ o \in {"tls", "write", "read", "shutdown"}
                THEN "error" ELSE "pending"
  /\ closed' = (closed /\ o # "connect")
Ends == op' = "none" /\ outcome' = "pending" /\ UNCHANGED closed

(* request: a URL or scheme that cannot be served is answered at once,      *)
(* otherwise run posts the start.                                           *)
Request ==
  /\ op = "idle"
  /\ \/ /\ Begin("start")
        /\ UNCHANGED <<callbacks, result, completed>>
     \/ /\ Ends
        /\ completed' = TRUE /\ result' = "error"
        /\ callbacks' = callbacks + 1
  /\ UNCHANGED <<config, timer, cancels, caller, interim, final, expired>>

(* request_sync: the same, but such a URL makes it throw. *)
RequestSync ==
  /\ op = "idle"
  /\ \/ /\ Begin("start") /\ sync' = "waiting"
        /\ UNCHANGED <<result, completed>>
     \/ /\ Ends /\ sync' = "threw"
        /\ completed' = TRUE /\ result' = "error"
  /\ UNCHANGED <<config, timer, cancels, callbacks, syncDone, promise, interim,
                 final, expired>>

(* HttpsSession::start: the host name is refused. *)
NameRefused == secure /\ Ends /\ Complete("error")

(* run on the strand: arm the total and the connect deadline, and resolve.  *)
Start ==
  /\ op = "start"
  /\ \/ /\ Begin("resolve")
        /\ timer' = Phase(Arm(timer, Total), ConnectCode)
        /\ UNCHANGED <<completed, callbacks, result, syncDone, promise>>
     \/ NameRefused
  /\ UNCHANGED <<config, cancels, sync, interim, final, expired>>

InFlight == op \in {"resolve", "connect", "tls", "write", "read", "shutdown"}

(* The network, or the peer, finishes the operation in progress. *)
Finish(how) ==
  /\ InFlight /\ outcome = "pending"
  /\ outcome' = how
  /\ interim' = IF how = "interim" THEN interim + 1 ELSE interim
  /\ how \in {"final", "interim", "truncated"} => op = "read"
  /\ how = "ok" => op # "read"
  /\ how = "truncated" => secure
  /\ how = "interim" => interim < MaxInterim
  /\ UNCHANGED <<config, op, closed, timer, cancels, completed, callbacks,
                 result, caller, final, expired>>

Expire(c) ==
  /\ timer[c] = "armed"
  /\ timer' = [timer EXCEPT ![c] = "expired"]
  /\ expired' = expired \cup {c}
  /\ UNCHANGED <<config, op, outcome, closed, cancels, completed, callbacks,
                 result, caller, interim, final>>

-----------------------------------------------------------------------------
Idle == UNCHANGED <<timer, completed, callbacks, result, syncDone, promise>>

(* The operation that each handler starts, in the two sessions... *)
HttpNext == [resolve |-> "connect", connect |-> "write", write |-> "read"]
HttpsNext == [resolve |-> "connect", connect |-> "tls", tls |-> "write",
              write |-> "read"]
(* ...and the deadline it arms. *)
PhaseOf(o, t) ==
  CASE o = "write" -> Phase(t, WriteCode)
    [] o = "read" -> Phase(t, ReadCode)
    [] OTHER -> t

(* The handlers up to on_write: return once completed, fail, or go on. *)
Advance ==
  LET next == IF secure THEN HttpsNext ELSE HttpNext IN
  /\ op \in DOMAIN next /\ outcome \in {"ok", "error"}
  /\ \/ completed /\ Ends /\ Idle
     \/ ~completed /\ outcome = "error" /\ Ends /\ Complete("error")
     \/ /\ ~completed /\ outcome = "ok"
        /\ Begin(next[op]) /\ timer' = PhaseOf(next[op], timer)
        /\ UNCHANGED <<completed, callbacks, result, syncDone, promise>>
  /\ UNCHANGED <<config, cancels, sync, interim, final, expired>>

(* on_read, which does not look at completed_.  A 1xx response is dropped   *)
(* and the next one read, unless the request completed.  A truncated        *)
(* https connection is fine if the response is whole.                       *)
OnRead ==
  /\ op = "read" /\ outcome # "pending"
  /\ final' = (final \/ outcome \in {"final", "truncated"})
  /\ \/ outcome = "error" /\ Ends /\ Complete("error")
     \/ outcome = "truncated" /\ Ends /\ Complete("response")
     \/ /\ outcome \in {"interim", "final"} \ FinalKinds
        /\ IF completed THEN Ends ELSE Begin("read")
        /\ Idle
     \/ /\ outcome \in FinalKinds
        /\ IF secure
           THEN Begin("shutdown") /\ Idle
           ELSE Ends /\ Complete("response")
  /\ UNCHANGED <<config, cancels, sync, interim, expired>>

(* on_shutdown: eof and truncation ("ok") are no error, others are. *)
OnShutdown ==
  /\ op = "shutdown" /\ outcome # "pending"
  /\ Ends
  /\ Complete(IF outcome = "ok" THEN "response" ELSE "error")
  /\ UNCHANGED <<config, cancels, sync, interim, final, expired>>

(* The handler of an expired wait. *)
OnTimer(c) ==
  /\ Fires(c)
  /\ IF completed
     THEN /\ timer' = [timer EXCEPT ![c] = "off"]
          /\ UNCHANGED <<cancels, completed, callbacks, result, syncDone,
                         promise>>
     ELSE /\ Complete(c)
          /\ cancels' = CancelsAfterTimeout(cancels)
  /\ UNCHANGED <<config, op, outcome, closed, sync, interim, final, expired>>

(* cancel on the strand: what is in progress is aborted, a completion that  *)
(* is queued is not.                                                        *)
Cancel ==
  /\ cancels > 0 /\ op # "start"
  /\ cancels' = cancels - 1
  /\ closed' = TRUE
  /\ outcome' = IF InFlight /\ outcome = "pending" THEN "error" ELSE outcome
  /\ UNCHANGED <<config, op, timer, completed, callbacks, result, caller,
                 interim, final, expired>>

(* request_sync: wait_for returns without a result... *)
WaitTimesOut ==
  /\ sync = "waiting" /\ WaitBounded
  /\ sync' = "late"
  /\ UNCHANGED <<config, session, syncDone, promise, interim, final, expired>>

(* ...and it gives up, while a result may just have been set. *)
GiveUp ==
  /\ sync = "late"
  /\ sync' = "threw"
  /\ syncDone' = TRUE
  /\ cancels' = cancels + 1
  /\ UNCHANGED <<config, op, outcome, closed, timer, completed, callbacks,
                 result, promise, interim, final, expired>>

SyncReturn ==
  /\ sync = "waiting" /\ promise # "none"
  /\ sync' = IF promise = "response" THEN "returned" ELSE "threw"
  /\ UNCHANGED <<config, session, syncDone, promise, interim, final, expired>>

-----------------------------------------------------------------------------
Init ==
  /\ secure \in BOOLEAN /\ served \in BOOLEAN /\ deadlines \in SUBSET Codes
  /\ op = "idle" /\ outcome = "pending"
  /\ timer = [c \in Codes |-> "off"]
  /\ closed = FALSE /\ cancels = 0 /\ completed = FALSE
  /\ callbacks = 0 /\ result = "none"
  /\ sync = "none" /\ syncDone = FALSE /\ promise = "none"
  /\ interim = 0 /\ final = FALSE /\ expired = {}

(* Handlers run on the threads of the io_context. *)
Handler == Start \/ Advance \/ OnRead \/ OnShutdown \/ Cancel
           \/ \E c \in Codes : OnTimer(c)
Strand == served /\ Handler

CallerSteps == WaitTimesOut \/ GiveUp \/ SyncReturn

Next ==
  \/ Request \/ RequestSync \/ Strand \/ CallerSteps
  \/ \E how \in {"ok", "error", "final", "interim", "truncated"} : Finish(how)
  \/ \E c \in Codes : Expire(c)

Spec == Init /\ [][Next]_vars

(* A thread that runs the io_context runs what is ready on the strand, and  *)
(* clocks go on.  Nothing is assumed of the network or the peer, that may   *)
(* stay silent for ever.                                                    *)
Fairness ==
  /\ WF_vars(CallerSteps) /\ WF_vars(Strand)
  /\ \A c \in Codes : WF_vars(Expire(c))

FairSpec == Spec /\ Fairness

-----------------------------------------------------------------------------
Results == {"none", "response", "error"} \cup Codes

TypeOK ==
  /\ secure \in BOOLEAN /\ served \in BOOLEAN /\ deadlines \subseteq Codes
  /\ op \in {"idle", "start", "none", "resolve", "connect", "tls", "write",
             "read", "shutdown"}
  /\ outcome \in {"pending", "ok", "error", "final", "interim", "truncated"}
  /\ timer \in [Codes -> {"off", "armed", "expired"}]
  /\ closed \in BOOLEAN /\ cancels \in 0..2
  /\ completed \in BOOLEAN /\ callbacks \in Nat
  /\ result \in Results /\ promise \in Results /\ syncDone \in BOOLEAN
  /\ sync \in {"none", "waiting", "late", "returned", "threw"}
  /\ interim \in 0..MaxInterim /\ final \in BOOLEAN /\ expired \subseteq Codes

(* The callback is called at most once, although a response, an abort, the  *)
(* phase deadline and the total deadline may all be queued at one time.     *)
CallbackOnce == callbacks <= 1

(* A timeout that is reported is one of a deadline that was set and that    *)
(* expired while it was armed: a cancelled wait never reports one.          *)
TimeoutIsReal == result \in Codes => result \in deadlines \cap expired

(* A response that is reported was read as a whole and is not a 1xx.        *)
ResponseIsFinal == result = "response" => final

(* What the caller is told is told once and is true: a response that was    *)
(* read, or a deadline that expired.                                        *)
ResultSound == TypeOK /\ CallbackOnce /\ TimeoutIsReal /\ ResponseIsFinal

(* Every request is answered, whatever the peer does, if the total deadline *)
(* is set, or else those of all phases.                                     *)
CallbackCalled ==
  op = "start" /\ served
               /\ (Total \in deadlines \/ Phases \subseteq deadlines)
    ~> callbacks = 1

(* A request that was answered by a deadline, or whose caller gave up,      *)
(* stops working: no operation and no timer stays behind.                   *)
Quiesces ==
  served /\ (\/ result \in Codes
             \/ sync = "threw" /\ callbacks = 0 /\ op # "none")
    ~> op = "none" /\ \A c \in Codes : timer[c] = "off"

(* request_sync with a total deadline returns, also when the io_context is  *)
(* not running.                                                             *)
SyncReturns ==
  sync = "waiting" /\ Total \in deadlines ~> sync \in {"returned", "threw"}

(* Deadlines end a request whatever the peer does: its caller is told, a    *)
(* waiting one returns, and nothing stays behind.                           *)
Answered == CallbackCalled /\ Quiesces /\ SyncReturns
===============================================================================
