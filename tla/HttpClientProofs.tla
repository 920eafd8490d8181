--------------------------- MODULE HttpClientProofs ---------------------------
(***************************************************************************)
(* ResultSound of HttpClient, for every number of 1xx responses: what the   *)
(* caller is told is told once and is true.                                 *)
(*                                                                         *)
(* ResultSound is not inductive.  A second callback is excluded by          *)
(* completed_, a false timeout by what the queued waits say of the          *)
(* deadlines, a response that was not read by what a handler of each        *)
(* operation can find, and the bound on the posted cancels by who posts     *)
(* them: the parts of Inv below.                                            *)
(***************************************************************************)
EXTENDS HttpClient, TLAPS

(* A wait is for a deadline that was set; one that expired was seen to.     *)
Waits(t) ==
  /\ t \in [Codes -> {"off", "armed", "expired"}]
  /\ \A c \in Codes : t[c] # "off" => c \in deadlines
  /\ \A c \in Codes : t[c] = "expired" => c \in expired

(* Until complete ran, nothing was reported. *)
Unreported == ~completed => callbacks = 0 /\ result = "none"

(* Before the request, nothing happened. *)
Fresh ==
  op = "idle" => /\ ~completed /\ cancels = 0 /\ sync = "none"
                 /\ \A c \in Codes : timer[c] = "off"

(* What the handler of an operation can find. *)
Outcomes ==
  /\ op \in {"idle", "start", "none"} => outcome = "pending"
  /\ outcome \in {"final", "interim", "truncated"} => op = "read"
  /\ outcome = "ok" => op # "read"
  /\ op = "shutdown" => final

(* cancel is posted by the deadline that completes the request, and by the  *)
(* caller of request_sync that gives up.                                    *)
Cancels ==
  cancels <= (IF completed THEN 1 ELSE 0) + (IF sync = "threw" THEN 1 ELSE 0)

Inv == ResultSound /\ Waits(timer) /\ Unreported /\ Fresh /\ Outcomes /\ Cancels

-----------------------------------------------------------------------------
(* arm and cancel of timers: a new wait is for a deadline that is set, and  *)
(* none is taken for expired.                                               *)
LEMMA ArmKeeps ==
  ASSUME NEW t, Waits(t), NEW c \in Codes
  PROVE  Waits(Arm(t, c))
  BY DEF Waits, Arm

(* Disarming a timer leaves no wait without its code. *)
LEMMA DisarmKeeps ==
  ASSUME NEW t, Waits(t), NEW cs
  PROVE  Waits(Disarm(t, cs))
  BY DEF Waits, Disarm

(* So does the start of the next phase of an attempt. *)
LEMMA PhaseKeeps ==
  ASSUME NEW t, Waits(t), NEW o
  PROVE  /\ \A c \in Codes : Waits(Phase(t, c))
         /\ Waits(PhaseOf(o, t))
<1>1. \A c \in Codes : Waits(Phase(t, c))
  BY ArmKeeps, DisarmKeeps DEF Phase
<1>2. ReadCode \in Codes /\ WriteCode \in Codes
  BY DEF Codes
<1> QED
  BY <1>1, <1>2 DEF PhaseOf

(* What complete may report. *)
Truthful(x) ==
  /\ x \in {"response", "error"} \cup Codes
  /\ x \in Codes => x \in deadlines' \cap expired'
  /\ x = "response" => final'

(* What the callbacks were told, of the types and of the waits, after a     *)
(* step of the session. *)
Reports ==
  /\ completed \in BOOLEAN /\ callbacks \in Nat
  /\ result \in Results /\ promise \in Results /\ syncDone \in BOOLEAN
  /\ Waits(timer) /\ Unreported /\ CallbackOnce /\ TimeoutIsReal
  /\ ResponseIsFinal

(* complete reports once, and only what is true. *)
LEMMA CompleteKeeps ==
  ASSUME Inv, NEW x, Truthful(x), Complete(x), UNCHANGED <<deadlines, expired>>,
         final => final'
  PROVE  Reports' /\ completed'
<1>1. Waits(timer)'
  BY DisarmKeeps DEF Inv, Complete, Waits, Disarm
<1>2. CASE completed
  BY <1>1, <1>2
  DEF Inv, Complete, Completes, Reports, Unreported, ResultSound, TypeOK,
     CallbackOnce, TimeoutIsReal, ResponseIsFinal
<1>3. CASE ~completed
  <2>1. callbacks' = 1 /\ result' = x /\ completed' = TRUE
    BY <1>3 DEF Inv, Complete, Completes, Unreported
  <2>2. promise' \in Results /\ syncDone' \in BOOLEAN /\ result' \in Results
    BY <1>3, <2>1 DEF Inv, Complete, Completes, Truthful, ResultSound, TypeOK,
       Results
  <2> QED
    BY <1>1, <2>1, <2>2 DEF Reports, Unreported, CallbackOnce, TimeoutIsReal,
       ResponseIsFinal, Truthful
<1> QED
  BY <1>2, <1>3 DEF Inv, ResultSound, TypeOK

(* A step that reports nothing keeps what was reported. *)
LEMMA SilentKeeps ==
  ASSUME Inv, UNCHANGED <<completed, callbacks, result, syncDone, promise>>,
         deadlines' = deadlines, expired \subseteq expired', final => final',
         Waits(timer)'
  PROVE  Reports'
  BY DEF Inv, Reports, ResultSound, TypeOK, Unreported, CallbackOnce,
     TimeoutIsReal, ResponseIsFinal

(* "error" is true of whatever failed. *)
LEMMA ErrorTruthful == Truthful("error")
  BY DEF Truthful, Codes, Total, ConnectCode, ReadCode, WriteCode

(* What the next operation of the session is, and how it stands. *)
Operates ==
  /\ op \in {"start", "none", "resolve", "connect", "tls", "write", "read",
             "shutdown"}
  /\ outcome \in {"pending", "ok", "error", "final", "interim", "truncated"}
  /\ closed \in BOOLEAN /\ Outcomes

(* An operation that begins is pending, or fails because the socket is      *)
(* closed: no handler finds more than Outcomes allows.                      *)
LEMMA BeginKeeps ==
  ASSUME NEW o \in {"start", "resolve", "connect", "tls", "write", "read",
                    "shutdown"},
         TypeOK, Begin(o), o = "shutdown" => final'
  PROVE  Operates'
  BY DEF TypeOK, Begin, Operates, Outcomes

(* The end of an attempt starts no operation. *)
LEMMA EndsKeeps ==
  ASSUME TypeOK, Ends
  PROVE  Operates'
  BY DEF TypeOK, Ends, Operates, Outcomes

(* A handler on the strand keeps Inv if it reports only the truth, starts   *)
(* a possible operation and posts no cancel.                                *)
LEMMA HandlerKeeps ==
  ASSUME Inv, Reports', Operates', final' \in BOOLEAN,
         completed => completed', op # "idle",
         UNCHANGED <<config, sync, interim, expired, cancels>>
  PROVE  Inv'
<1>1. TypeOK'
  BY DEF Inv, Reports, Operates, ResultSound, TypeOK, Waits, config
<1>2. Fresh' /\ Cancels'
  BY DEF Inv, Operates, Fresh, Cancels, ResultSound, TypeOK, Reports
<1> QED
  BY <1>1, <1>2 DEF Inv, Reports, Operates, ResultSound

-----------------------------------------------------------------------------
(* request and request_sync, from a state in which nothing happened. *)
LEMMA RequestKeeps ==
  ASSUME Inv, Request \/ RequestSync
  PROVE  Inv'
<1>1. /\ op = "idle" /\ ~completed /\ cancels = 0 /\ sync = "none"
      /\ callbacks = 0 /\ result = "none" /\ completed \in BOOLEAN
  BY DEF Inv, Request, RequestSync, Fresh, Unreported, ResultSound, TypeOK
<1>2. UNCHANGED <<config, timer, cancels, syncDone, promise, interim, final,
                  expired>>
  BY DEF Request, RequestSync, caller
<1>3. Operates'
  BY BeginKeeps, EndsKeeps DEF Inv, ResultSound, Request, RequestSync
<1>4. /\ completed' \in BOOLEAN /\ callbacks' \in {0, 1}
      /\ result' \in {"none", "error"} /\ sync' \in {"none", "waiting", "threw"}
      /\ ~completed' => callbacks' = 0 /\ result' = "none"
  <2>1. CASE Request
    <3>1. CASE Begin("start") /\ UNCHANGED <<callbacks, result, completed>>
      BY <1>1, <2>1, <3>1 DEF Request, caller
    <3>2. CASE completed' = TRUE /\ result' = "error" /\ callbacks' = callbacks + 1
      <4>1. sync' = "none"
        BY <1>1, <2>1 DEF Request, caller
      <4>2. callbacks' = 1
        BY <1>1, <3>2
      <4> QED
        BY <3>2, <4>1, <4>2
    <3> QED
      BY <2>1, <3>1, <3>2 DEF Request
  <2>2. CASE RequestSync
    BY <1>1, <2>2 DEF RequestSync
  <2> QED
    BY <2>1, <2>2
<1>5. TypeOK'
  BY <1>2, <1>3, <1>4 DEF Inv, ResultSound, TypeOK, Operates, Results, config
<1>6. TimeoutIsReal' /\ ResponseIsFinal'
  BY <1>4 DEF TimeoutIsReal, ResponseIsFinal, Codes, Total, ConnectCode,
     ReadCode, WriteCode
<1>8. CallbackOnce' /\ Unreported'
  BY <1>4 DEF CallbackOnce, Unreported
<1>7. Waits(timer)' /\ Cancels' /\ Fresh'
  BY <1>1, <1>2, <1>3 DEF Inv, Waits, Cancels, Fresh, Operates, config
<1> QED
  BY <1>3, <1>5, <1>6, <1>7, <1>8 DEF Inv, ResultSound, Operates

(* run on the strand. *)
LEMMA StartKeeps ==
  ASSUME Inv, Start
  PROVE  Inv'
<1>1. /\ UNCHANGED <<config, cancels, sync, interim, final, expired>>
      /\ op = "start" /\ TypeOK
  BY DEF Start, Inv, ResultSound
<1>2. CASE /\ Begin("resolve")
           /\ timer' = Phase(Arm(timer, Total), ConnectCode)
           /\ UNCHANGED <<completed, callbacks, result, syncDone, promise>>
  <2>1. Total \in Codes /\ ConnectCode \in Codes
    BY DEF Codes
  <2>2. Waits(timer')
    BY <1>2, <2>1, ArmKeeps, PhaseKeeps DEF Inv
  <2>3. Waits(timer)'
    BY <2>2, <1>1 DEF Waits, config
  <2>4. Reports'
    BY <1>1, <1>2, <2>3, SilentKeeps DEF config
  <2> QED
    BY <1>1, <1>2, <2>4, BeginKeeps, HandlerKeeps DEF TypeOK
<1>3. CASE NameRefused
  <2>1. Reports' /\ completed'
    BY <1>1, <1>3, CompleteKeeps, ErrorTruthful DEF NameRefused, config
  <2> QED
    BY <1>1, <1>3, <2>1, EndsKeeps, HandlerKeeps DEF NameRefused, TypeOK
<1> QED
  BY <1>2, <1>3 DEF Start

(* The network, or the peer, finishes an operation: what its handler will   *)
(* find fits the operation.                                                 *)
LEMMA FinishKeeps ==
  ASSUME Inv, NEW how \in {"ok", "error", "final", "interim", "truncated"},
         Finish(how)
  PROVE  Inv'
<1>1. UNCHANGED <<config, op, closed, timer, cancels, completed, callbacks,
                  result, caller, final, expired>>
  BY DEF Finish
<1>2. Outcomes'
  BY <1>1 DEF Inv, Finish, InFlight, Outcomes
<1>3. TypeOK'
  BY <1>1, HttpClientAssumption
  DEF Inv, ResultSound, TypeOK, Finish, config, caller
<1> QED
  BY <1>1, <1>2, <1>3 DEF Inv, ResultSound, CallbackOnce, TimeoutIsReal,
     ResponseIsFinal, Waits, Unreported, Fresh, Cancels, config, caller

(* A timer that expires keeps the invariant, whatever it races with. *)
LEMMA ExpireKeeps ==
  ASSUME Inv, NEW c \in Codes, Expire(c)
  PROVE  Inv'
<1>1. UNCHANGED <<config, op, outcome, closed, cancels, completed, callbacks,
                  result, caller, interim, final>>
      /\ expired' = expired \cup {c}
  BY DEF Expire
<1>2. Waits(timer)'
  BY <1>1 DEF Inv, Expire, Waits, config
<1>3. TypeOK'
  BY <1>1, <1>2 DEF Inv, ResultSound, TypeOK, Waits, config, caller
<1>4. Fresh'
  BY <1>1 DEF Inv, Fresh, Expire
<1> QED
  BY <1>1, <1>2, <1>3, <1>4 DEF Inv, ResultSound, CallbackOnce, TimeoutIsReal,
     ResponseIsFinal, Unreported, Outcomes, Cancels, config, caller

(* The handlers up to on_write. *)
LEMMA AdvanceKeeps ==
  ASSUME Inv, Advance
  PROVE  Inv'
<1> DEFINE next == IF secure THEN HttpsNext ELSE HttpNext
<1>1. /\ UNCHANGED <<config, cancels, sync, interim, final, expired>>
      /\ op \in DOMAIN next /\ TypeOK
  BY DEF Advance, Inv, ResultSound
<1>2. op # "idle" /\ next[op] \in {"connect", "tls", "write", "read"}
  BY <1>1 DEF HttpsNext, HttpNext
<1>3. CASE completed /\ Ends /\ Idle
  <2>1. Reports'
    BY <1>1, <1>3, SilentKeeps DEF Idle, config, Inv, Waits
  <2> QED
    BY <1>1, <1>2, <1>3, <2>1, EndsKeeps, HandlerKeeps DEF TypeOK, Idle
<1>4. CASE Ends /\ Complete("error")
  <2>1. Reports' /\ completed'
    BY <1>1, <1>4, CompleteKeeps, ErrorTruthful DEF config
  <2> QED
    BY <1>1, <1>2, <1>4, <2>1, EndsKeeps, HandlerKeeps DEF TypeOK
<1>5. CASE /\ Begin(next[op]) /\ timer' = PhaseOf(next[op], timer)
           /\ UNCHANGED <<completed, callbacks, result, syncDone, promise>>
  <2>1. Waits(timer')
    BY <1>5, PhaseKeeps, Zenon DEF Inv
  <2>2. Waits(timer)'
    BY <2>1, <1>1 DEF Waits, config
  <2>3. Reports'
    BY <1>1, <1>5, <2>2, SilentKeeps DEF config
  <2>4. Operates'
    BY <1>1, <1>2, <1>5, BeginKeeps
  <2> QED
    BY <1>1, <1>2, <1>5, <2>3, <2>4, HandlerKeeps DEF TypeOK
<1> QED
  BY <1>3, <1>4, <1>5 DEF Advance

(* on_read: only a final response is reported, as one that was read. *)
LEMMA OnReadKeeps ==
  ASSUME Inv, OnRead
  PROVE  Inv'
<1>1. /\ UNCHANGED <<config, cancels, sync, interim, expired>>
      /\ op = "read" /\ TypeOK /\ final' \in BOOLEAN
      /\ final' = (final \/ outcome \in {"final", "truncated"})
  BY DEF OnRead, Inv, ResultSound
<1>2. Waits(timer) /\ (Idle => Waits(timer)')
  BY <1>1 DEF Inv, Waits, Idle, config
<1>3. CASE Ends /\ Complete("error")
  <2>1. Reports' /\ completed'
    BY <1>1, <1>3, CompleteKeeps, ErrorTruthful DEF config
  <2> QED
    BY <1>1, <1>3, <2>1, EndsKeeps, HandlerKeeps
<1>4. CASE outcome \in {"final", "truncated"} /\ Ends /\ Complete("response")
  <2>1. Truthful("response")
    BY <1>1, <1>4 DEF Truthful, Codes, Total, ConnectCode, ReadCode, WriteCode
  <2>2. Reports' /\ completed'
    BY <1>1, <1>4, <2>1, CompleteKeeps DEF config
  <2> QED
    BY <1>1, <1>4, <2>2, EndsKeeps, HandlerKeeps
<1>5. CASE (Ends \/ Begin("read")) /\ Idle
  <2>1. Reports'
    BY <1>1, <1>2, <1>5, SilentKeeps DEF Idle, config
  <2> QED
    BY <1>1, <1>5, <2>1, BeginKeeps, EndsKeeps, HandlerKeeps DEF Idle
<1>6. CASE outcome = "final" /\ Begin("shutdown") /\ Idle
  <2>1. Reports'
    BY <1>1, <1>2, <1>6, SilentKeeps DEF Idle, config
  <2> QED
    BY <1>1, <1>6, <2>1, BeginKeeps, HandlerKeeps DEF Idle
<1> QED
  BY <1>3, <1>4, <1>5, <1>6 DEF OnRead, FinalKinds

(* The end of the TLS shutdown keeps the invariant. *)
LEMMA OnShutdownKeeps ==
  ASSUME Inv, OnShutdown
  PROVE  Inv'
<1>1. /\ UNCHANGED <<config, cancels, sync, interim, expired, final>>
      /\ op = "shutdown" /\ TypeOK /\ final
  BY DEF OnShutdown, Inv, ResultSound, Outcomes
<1>2. PICK x \in {"response", "error"} : Complete(x)
  BY DEF OnShutdown
<1>3. Truthful(x)
  BY <1>1 DEF Truthful, Codes, Total, ConnectCode, ReadCode, WriteCode
<1>4. Reports' /\ completed'
  BY <1>1, <1>2, <1>3, CompleteKeeps DEF config
<1> QED
  BY <1>1, <1>4, EndsKeeps, HandlerKeeps DEF OnShutdown

(* The handler of an expired wait reports it if it is the first to report,  *)
(* and only then posts a cancel.                                            *)
LEMMA OnTimerKeeps ==
  ASSUME Inv, NEW c \in Codes, OnTimer(c)
  PROVE  Inv'
<1>1. /\ UNCHANGED <<config, op, outcome, closed, sync, interim, final, expired>>
      /\ timer[c] = "expired" /\ TypeOK
  BY DEF OnTimer, Fires, Inv, ResultSound
<1>2. Outcomes'
  BY <1>1 DEF Inv, Outcomes
<1>3. CASE completed
  <2>1. UNCHANGED <<cancels, completed, callbacks, result, syncDone, promise>>
        /\ timer' = [timer EXCEPT ![c] = "off"]
    BY <1>3 DEF OnTimer
  <2>2. Waits(timer)'
    BY <1>1, <2>1 DEF Inv, Waits, config
  <2>3. Reports'
    BY <1>1, <2>1, <2>2, SilentKeeps DEF config
  <2> QED
    BY <1>1, <1>2, <2>1, <2>3
    DEF Inv, ResultSound, Reports, TypeOK, Fresh, Waits, Cancels, config
<1>4. CASE ~completed
  <2>1. Complete(c) /\ cancels' = cancels + 1
    BY <1>4 DEF OnTimer, CancelsAfterTimeout
  <2>2. Truthful(c)
    BY <1>1 DEF Inv, Waits, Truthful, Codes, Total, ConnectCode, ReadCode,
       WriteCode, config
  <2>3. Reports' /\ completed'
    BY <1>1, <2>1, <2>2, CompleteKeeps DEF config
  <2>4. op # "idle"
    BY <1>1 DEF Inv, Fresh
  <2>5. Cancels' /\ cancels' \in 0..2
    BY <1>1, <1>4, <2>1, <2>3 DEF Inv, Cancels, TypeOK
  <2> QED
    BY <1>1, <1>2, <2>3, <2>4, <2>5
    DEF Inv, ResultSound, Reports, TypeOK, Fresh, Waits, config
<1> QED
  BY <1>3, <1>4 DEF TypeOK

(* cancel, from any thread, keeps the invariant. *)
LEMMA CancelKeeps ==
  ASSUME Inv, Cancel
  PROVE  Inv'
<1>1. /\ UNCHANGED <<config, op, timer, completed, callbacks, result, caller,
                     interim, final, expired>>
      /\ cancels' = cancels - 1 /\ cancels > 0 /\ closed' = TRUE
      /\ outcome' = IF InFlight /\ outcome = "pending" THEN "error" ELSE outcome
  BY DEF Cancel
<1>2. Outcomes'
  BY <1>1 DEF Inv, Outcomes, InFlight
<1>3. TypeOK' /\ Cancels'
  BY <1>1 DEF Inv, ResultSound, TypeOK, Cancels, config, caller
<1>4. Fresh'
  BY <1>1 DEF Inv, Fresh, ResultSound, TypeOK
<1> QED
  BY <1>1, <1>2, <1>3, <1>4 DEF Inv, ResultSound, CallbackOnce, TimeoutIsReal,
     ResponseIsFinal, Waits, Unreported, config, caller

(* The caller of request_sync: it posts a cancel once. *)
LEMMA CallerKeeps ==
  ASSUME Inv, CallerSteps
  PROVE  Inv'
<1>1. /\ UNCHANGED <<config, op, outcome, closed, timer, completed, callbacks,
                     result, promise, interim, final, expired>>
      /\ syncDone' \in BOOLEAN /\ op # "idle"
      /\ \/ /\ sync \in {"waiting", "late"} /\ cancels' = cancels
            /\ sync' \in {"late", "returned", "threw"}
         \/ sync = "late" /\ sync' = "threw" /\ cancels' = cancels + 1
  BY DEF CallerSteps, WaitTimesOut, GiveUp, SyncReturn, session, Inv,
     ResultSound, TypeOK, Fresh
<1>2. Cancels' /\ TypeOK'
  BY <1>1 DEF Inv, Cancels, ResultSound, TypeOK, config
<1> QED
  BY <1>1, <1>2 DEF Inv, ResultSound, CallbackOnce, TimeoutIsReal,
     ResponseIsFinal, Waits, Unreported, Fresh, Outcomes, config

-----------------------------------------------------------------------------
(* The initial state satisfies the invariant. *)
LEMMA InitInv == Init => Inv
<1> SUFFICES ASSUME Init PROVE Inv
  OBVIOUS
<1>1. TypeOK
  <2>1. interim \in 0..MaxInterim /\ cancels \in 0..2 /\ callbacks \in Nat
    BY HttpClientAssumption DEF Init
  <2>2. timer \in [Codes -> {"off", "armed", "expired"}]
    BY DEF Init
  <2> QED
    BY <2>1, <2>2 DEF Init, TypeOK, Results
<1>2. Waits(timer) /\ Unreported /\ Fresh /\ Outcomes /\ Cancels
  BY DEF Init, Waits, Unreported, Fresh, Outcomes, Cancels
<1>3. TimeoutIsReal /\ ResponseIsFinal
  BY DEF Init, TimeoutIsReal, ResponseIsFinal, Codes, Total, ConnectCode,
     ReadCode, WriteCode
<1>4. CallbackOnce
  BY DEF Init, CallbackOnce
<1> QED
  BY <1>1, <1>2, <1>3, <1>4 DEF Inv, ResultSound

(* Every step keeps the invariant. *)
LEMMA StepInv == Inv /\ [Next]_vars => Inv'
<1> SUFFICES ASSUME Inv, [Next]_vars PROVE Inv'
  OBVIOUS
<1>1. CASE Request \/ RequestSync
  BY <1>1, RequestKeeps
<1>2. CASE Strand
  BY <1>2, StartKeeps, AdvanceKeeps, OnReadKeeps, OnShutdownKeeps, CancelKeeps,
     OnTimerKeeps DEF Strand, Handler
<1>3. CASE CallerSteps
  BY <1>3, CallerKeeps
<1>4. CASE \E how \in {"ok", "error", "final", "interim", "truncated"} : Finish(how)
  BY <1>4, FinishKeeps, Zenon
<1>5. CASE \E c \in Codes : Expire(c)
  BY <1>5, ExpireKeeps, Zenon
<1>6. CASE UNCHANGED vars
  BY <1>6 DEF vars, session, caller, config, Inv, ResultSound, TypeOK, Waits,
     Unreported, Fresh, Outcomes, Cancels, CallbackOnce, TimeoutIsReal,
     ResponseIsFinal
<1> QED
  BY <1>1, <1>2, <1>3, <1>4, <1>5, <1>6 DEF Next

(* The parts above hold throughout a request. *)
THEOREM Invariance == Spec => []Inv
  BY InitInv, StepInv, PTL DEF Spec

(* The caller of HttpClient is told of its request once, and the truth: a   *)
(* response that was read to its end, a deadline that was set and expired,  *)
(* or an error; whatever the order in which answers, deadlines and aborts   *)
(* reach the strand.                                                        *)
THEOREM ResultCorrect == Spec => []ResultSound
<1>1. Inv => ResultSound
  BY DEF Inv
<1> QED
  BY Invariance, <1>1, PTL

===============================================================================
