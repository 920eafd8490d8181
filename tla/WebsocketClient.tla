--------------------------- MODULE WebsocketClient ---------------------------
(***************************************************************************)
(* WebsocketClient: the object an application holds, the State it shares    *)
(* with its connections, and one WebsocketSessionImpl for each connect.     *)
(* connect replaces session_, but a replaced session lives on, as long as   *)
(* it has operations, and notifies through the same State.                  *)
(*                                                                         *)
(* The handlers of a session run on its strand.  A handler that notifies    *)
(* checks State under its mutex, unlocks it, and then calls the             *)
(* application: Check, Enter and Return are three steps, and other strands, *)
(* or the destructor, may run between them.                                 *)
(***************************************************************************)
EXTENDS Integers, Sequences

CONSTANTS
  Closing,      \* the write operation of async_close
  CloseCall,    \* a posted close()
  None,         \* no notification
  MaxConnects, MaxSends, MaxCloses,  \* bounds on the application's calls,
  MaxCalls                           \* and on all of them together

Sessions == 1..MaxConnects
Frames == 1..MaxSends   \* the frames the application sends, in order

ASSUME WebsocketClientAssumption ==
  /\ MaxConnects \in Nat /\ MaxSends \in Nat /\ MaxCloses \in Nat
  /\ MaxCalls \in Nat
  /\ Closing # CloseCall /\ Closing \notin Frames /\ CloseCall \notin Frames

VARIABLES
  alive, closeNotified,   \* State
  current,      \* session_, 0 before the first connect
  ses,          \* the sessions
  todo,         \* notifications that the running handler of a session makes
  checked,      \* the callback that passed the check and was not entered yet
  calling,      \* the callback that a session is in
  calls,        \* [connects, sends, closes] made so far
  sent, wire,   \* history: frames posted to a session, frames it wrote
  answered,     \* connect callbacks called
  closes,       \* notify_close that passed the check since the last connect
  errors,       \* sessions that called on_error
  late,         \* callbacks a session entered after the destructor
  undefined     \* pop_front was called on an empty write_queue_

app == <<alive, current, calls, sent>>
shared == <<closeNotified, checked, calling, answered, closes, errors, late>>
vars == <<app, shared, ses, todo, wire, undefined>>

Fresh ==
  [phase |-> "none", secure |-> FALSE, queue |-> <<>>, writing |-> FALSE,
   closing |-> FALSE, closeStarted |-> FALSE, connectNotified |-> FALSE,
   ops |-> <<>>, reading |-> FALSE, cut |-> FALSE, peer |-> "up",
   posted |-> <<>>]

(* The decisions of the code; a mutant of one stands before it.             *)
IgnoresClosing(s) == FALSE                        \* mutant
(* on_resolve, on_connect and the handshakes return once close() ran. *)
Abandons(s) == s.closing

ForgetsAlive(n) == n = "close" => ~closeNotified  \* mutant
(* notify_*, under the mutex: is the application called? *)
Notifies(n) == alive /\ (n = "close" => ~closeNotified)

(* write_queue_ after process_write_result saw an error. *)
QueueAfterError(s) == s.queue

(* What notify_connect does, on the handler's strand. *)
ConnectNotice(s) ==
  IF s.connectNotified \/ s.closing THEN <<>> ELSE <<"connect">>

EofIsSilent(aborted) == {<<>>}                    \* mutant
(* What process_read_result notifies: eof and the like, or the peer's close *)
(* frame, or another error; a cancelled read counts as a close.             *)
ReadNotices(aborted) ==
  {<<"close">>} \cup
    IF aborted THEN {} ELSE {<<"frame", "close">>, <<"error">>}

-----------------------------------------------------------------------------
(* The strand of session i is not inside a handler. *)
Free(i) == todo[i] = <<>> /\ checked[i] = None /\ calling[i] = None

Set(i, s, notices) ==
  /\ ses' = [ses EXCEPT ![i] = s]
  /\ todo' = [todo EXCEPT ![i] = notices]

(* The application may make one more call. *)
MayCall == alive /\ calls.connects + calls.sends + calls.closes < MaxCalls

(* connect: the URL is refused, or the TLS name is, or a session resolves.  *)
Connect(secure) ==
  LET i == calls.connects + 1 IN
  /\ MayCall /\ calls.connects < MaxConnects
  /\ calls' = [calls EXCEPT !.connects = i]
  /\ \/ /\ answered' = [answered EXCEPT ![i] = @ + 1]
        /\ UNCHANGED <<closeNotified, current, ses, todo, closes>>
     \/ /\ closeNotified' = FALSE
        /\ closes' = 0
        /\ current' = i
        /\ \/ Set(i, [Fresh EXCEPT !.phase = "resolving", !.secure = secure],
                  <<>>)
           \/ /\ secure
              /\ Set(i, [Fresh EXCEPT !.phase = "failed", !.secure = TRUE,
                                      !.connectNotified = TRUE],
                     ConnectNotice(Fresh))
        /\ UNCHANGED answered
  /\ UNCHANGED <<alive, sent, checked, calling, errors, late, wire, undefined>>

(* send, from any thread: the frame is posted to the strand of session_. *)
Send ==
  LET f == calls.sends + 1 IN
  /\ MayCall /\ current # 0 /\ calls.sends < MaxSends
  /\ calls' = [calls EXCEPT !.sends = f]
  /\ ses' = [ses EXCEPT ![current].posted = Append(@, f)]
  /\ sent' = [sent EXCEPT ![current] = Append(@, f)]
  /\ UNCHANGED <<alive, current, shared, todo, wire, undefined>>

PostClose ==
  ses' = IF current = 0 THEN ses
         ELSE [ses EXCEPT ![current].posted = Append(@, CloseCall)]

Close ==
  /\ MayCall /\ current # 0 /\ calls.closes < MaxCloses
  /\ calls' = [calls EXCEPT !.closes = @ + 1]
  /\ PostClose
  /\ UNCHANGED <<alive, current, sent, shared, todo, wire, undefined>>

(* ~WebsocketClient: callbacks are disabled, session_ is closed. *)
Destroy ==
  /\ alive /\ alive' = FALSE
  /\ PostClose
  /\ UNCHANGED <<current, calls, sent, shared, todo, wire, undefined>>

-----------------------------------------------------------------------------
StartWrite(s) ==
  [s EXCEPT !.writing = TRUE, !.ops = Append(@, Head(s.queue))]

(* on_queue_write *)
OnQueueWrite(s, f) ==
  LET q == [s EXCEPT !.queue = Append(@, f)] IN
  CASE s.closing -> s
    [] ~s.closing /\ s.writing -> q
    [] ~s.closing /\ ~s.writing -> StartWrite(q)

(* The function close() posts: drop the queue, cancel what is in progress,  *)
(* and close the stream, or only its socket if it is not open.              *)
OnClose(s) ==
  LET c == [s EXCEPT !.closing = TRUE, !.queue = <<>>, !.cut = TRUE] IN
  IF s.phase = "open" /\ ~s.closeStarted
  THEN [c EXCEPT !.closeStarted = TRUE, !.ops = Append(@, Closing)]
  ELSE c

RunPosted(i) ==
  LET s == ses[i]  p == Head(s.posted)
      t == [s EXCEPT !.posted = Tail(@)] IN
  /\ Free(i) /\ s.posted # <<>>
  /\ Set(i, IF p = CloseCall THEN OnClose(t) ELSE OnQueueWrite(t, p), <<>>)
  /\ UNCHANGED <<app, shared, wire, undefined>>

(* The phase after `phase` succeeded; only wss:// has a TLS handshake. *)
After(s) ==
  CASE s.phase = "resolving" -> "connecting"
    [] s.phase = "connecting" -> IF s.secure THEN "tls" ELSE "handshaking"
    [] s.phase = "tls" -> "handshaking"
    [] s.phase = "handshaking" -> "open"

(* on_resolve, on_connect, on_ssl_handshake, on_handshake.  The last one    *)
(* notifies the success and starts to read.                                 *)
Establish(i) ==
  LET s == ses[i]  failed == [s EXCEPT !.phase = "failed"]
      next == [s EXCEPT !.phase = After(s)] IN
  /\ Free(i) /\ s.phase \in {"resolving", "connecting", "tls", "handshaking"}
  /\ \/ Abandons(s) /\ Set(i, failed, <<>>)
     \/ /\ ~Abandons(s)
        /\ Set(i, [failed EXCEPT !.connectNotified = TRUE], ConnectNotice(s))
     \/ ~Abandons(s) /\ s.phase # "handshaking" /\ Set(i, next, <<>>)
     \/ /\ ~Abandons(s) /\ s.phase = "handshaking"
        /\ Set(i, [next EXCEPT !.connectNotified = TRUE, !.reading = TRUE],
               ConnectNotice(s))
  /\ UNCHANGED <<app, shared, wire, undefined>>

(* on_read with a message; the next read follows the callback. *)
ReadDone(i) ==
  /\ Free(i) /\ ses[i].reading /\ ses[i].phase = "open" /\ ses[i].peer = "up"
  /\ Set(i, ses[i], <<"frame">>)
  /\ UNCHANGED <<app, shared, wire, undefined>>

(* on_read with an error; Beast's stream is then no longer open. *)
ReadEnd(i) ==
  LET s == ses[i] IN
  /\ Free(i) /\ s.reading
  /\ s.peer = "gone" \/ s.cut \/ s.phase = "ended"
  /\ \E n \in ReadNotices(s.peer = "up") :
       Set(i, [s EXCEPT !.reading = FALSE, !.phase = "ended"], n)
  /\ UNCHANGED <<app, shared, wire, undefined>>

(* process_write_result with success: pop_front, then the next frame.  On   *)
(* an empty queue pop_front is undefined: the deque may then look empty, or *)
(* hold a frame that was never sent.                                        *)
WriteDone(i) ==
  LET s == ses[i]
      rest == IF s.queue # <<>> THEN {Tail(s.queue)}
              ELSE {<<>>, <<CloseCall>>}
      t == [s EXCEPT !.ops = Tail(@), !.writing = FALSE] IN
  /\ Free(i) /\ s.ops # <<>> /\ Head(s.ops) # Closing
  /\ s.phase \in {"handshaking", "open"}
  /\ undefined' = (undefined \/ s.queue = <<>>)
  /\ wire' = [wire EXCEPT ![i] = Append(@, Head(s.ops))]
  /\ \E q \in rest :
       LET u == [t EXCEPT !.queue = q] IN
       Set(i, IF q = <<>> THEN u ELSE StartWrite(u), <<>>)
  /\ UNCHANGED <<app, shared>>

(* process_write_result with an error.  Beast refuses to write before the   *)
(* handshake was started, and once the stream failed; it does not check     *)
(* during the handshake.                                                    *)
WriteError(i) ==
  LET s == ses[i]
      t == [s EXCEPT !.ops = Tail(@), !.writing = FALSE,
                     !.queue = QueueAfterError(s),
                     !.phase = IF @ = "open" THEN "ended" ELSE @] IN
  /\ Free(i) /\ s.ops # <<>> /\ Head(s.ops) # Closing
  /\ s.phase # "open" \/ s.peer = "gone" \/ s.cut
  /\ \E n \in {<<"close">>, <<"error">>} :
       /\ s.phase \notin {"open", "handshaking"} => n = <<"close">>
       /\ Set(i, t, n)
  /\ UNCHANGED <<app, shared, wire, undefined>>

(* async_close completes: the peer answered, left, or a timeout expired. *)
CloseDone(i) ==
  /\ Free(i) /\ ses[i].ops # <<>> /\ Head(ses[i].ops) = Closing
  /\ Set(i, [ses[i] EXCEPT !.ops = Tail(@), !.phase = "ended"], <<"close">>)
  /\ UNCHANGED <<app, shared, wire, undefined>>

(* The peer of an open connection closes it or goes away. *)
PeerEnds(i) ==
  /\ ses[i].phase = "open" /\ ses[i].peer = "up"
  /\ ses' = [ses EXCEPT ![i].peer = "gone"]
  /\ UNCHANGED <<app, shared, todo, wire, undefined>>

(* notify_connect, notify_frame, notify_error and notify_close: the check   *)
(* under the mutex, with what it records, and the copy of the handler...    *)
Check(i) ==
  /\ todo[i] # <<>> /\ checked[i] = None /\ calling[i] = None
  /\ todo' = [todo EXCEPT ![i] = Tail(@)]
  /\ LET n == Head(todo[i])  called == Notifies(n) IN
     /\ checked' = IF called THEN [checked EXCEPT ![i] = n] ELSE checked
     /\ closeNotified' = (closeNotified \/ (n = "close" /\ called))
     /\ closes' = IF n = "close" /\ called THEN closes + 1 ELSE closes
  /\ UNCHANGED <<app, calling, answered, errors, late, ses, wire, undefined>>

(* ...the call, with the mutex unlocked: nothing is asked again...          *)
Enter(i) ==
  LET n == checked[i] IN
  /\ n # None
  /\ checked' = [checked EXCEPT ![i] = None]
  /\ calling' = [calling EXCEPT ![i] = n]
  /\ answered' = IF n = "connect" THEN [answered EXCEPT ![i] = @ + 1]
                 ELSE answered
  /\ errors' = IF n = "error" THEN errors \cup {i} ELSE errors
  /\ late' = IF alive THEN late ELSE [late EXCEPT ![i] = @ + 1]
  /\ UNCHANGED <<app, closeNotified, closes, ses, todo, wire, undefined>>

(* ...and the end of the application's callback. *)
Return(i) ==
  /\ calling[i] # None
  /\ calling' = [calling EXCEPT ![i] = None]
  /\ UNCHANGED <<app, closeNotified, checked, answered, closes, errors, late, ses,
                 todo, wire, undefined>>

-----------------------------------------------------------------------------
Init ==
  /\ alive = TRUE /\ closeNotified = FALSE /\ current = 0
  /\ ses = [i \in Sessions |-> Fresh]
  /\ todo = [i \in Sessions |-> <<>>]
  /\ checked = [i \in Sessions |-> None] /\ calling = checked
  /\ calls = [connects |-> 0, sends |-> 0, closes |-> 0]
  /\ sent = [i \in Sessions |-> <<>>] /\ wire = sent
  /\ answered = [i \in Sessions |-> 0] /\ late = answered
  /\ closes = 0 /\ errors = {} /\ undefined = FALSE

Strand(i) ==
  \/ RunPosted(i) \/ Establish(i) \/ ReadEnd(i) \/ WriteDone(i)
  \/ WriteError(i) \/ CloseDone(i) \/ Check(i) \/ Enter(i) \/ Return(i)

Next ==
  \/ \E secure \in BOOLEAN : Connect(secure)
  \/ Send \/ Close \/ Destroy
  \/ \E i \in Sessions : Strand(i) \/ ReadDone(i) \/ PeerEnds(i)

Spec == Init /\ [][Next]_vars

(* A strand that has a handler ready runs one, and returns from the         *)
(* callbacks it is in.  Name resolution and connecting end by the system's  *)
(* timeouts and the handshakes by the peer's answer.                        *)
Fairness == \A i \in Sessions : WF_vars(Strand(i))

FairSpec == Spec /\ Fairness

-----------------------------------------------------------------------------
Phases == {"none", "resolving", "connecting", "tls", "handshaking", "open",
           "failed", "ended"}
Notices == {"connect", "frame", "error", "close"}
Posts == Frames \cup {CloseCall}

TypeOK ==
  /\ alive \in BOOLEAN /\ closeNotified \in BOOLEAN /\ undefined \in BOOLEAN
  /\ current \in 0..MaxConnects /\ closes \in Nat /\ errors \subseteq Sessions
  /\ calls \in [connects : 0..MaxConnects, sends : 0..MaxSends,
                closes : 0..MaxCloses]
  /\ answered \in [Sessions -> Nat] /\ late \in [Sessions -> Nat]
  /\ checked \in [Sessions -> Notices \cup {None}]
  /\ calling \in [Sessions -> Notices \cup {None}]
  /\ \A i \in Sessions :
       /\ ses[i].phase \in Phases
       /\ ses[i].queue \in Seq(Posts) /\ ses[i].posted \in Seq(Posts)
       /\ ses[i].ops \in Seq(Posts \cup {Closing})
       /\ todo[i] \in Seq(Notices)
       /\ sent[i] \in Seq(Frames) /\ wire[i] \in Seq(Posts)

(* The frames of a connection are written in the order in which they were   *)
(* sent and none is skipped, also when a write fails and a later send       *)
(* starts the queue again, as long as no pop_front was undefined.           *)
WrittenInOrder ==
  ~undefined =>
    \A i \in Sessions :
      /\ Len(wire[i]) <= Len(sent[i])
      /\ \A k \in 1..Len(wire[i]) : wire[i][k] = sent[i][k]

(* A connection that is open although close() ran on its strand has the     *)
(* closing handshake in progress: a close that comes while it is still      *)
(* being established does not leave it open.                                *)
ClosedIsClosing ==
  \A i \in Sessions :
    ses[i].closing /\ ses[i].phase = "open" => ses[i].ops # <<>>

(* Between two connects at most one notify_close passes its check, although *)
(* a failed read, a failed write and async_close each report one.           *)
OnCloseOnce == closes <= 1

(* Whatever threads send and close while a connection is established, works *)
(* and fails: frames in order, no close forgotten, one on_close.            *)
ConnectionSound == TypeOK /\ WrittenInOrder /\ ClosedIsClosing /\ OnCloseOnce

(* After the destructor a connection enters at most one more callback: the  *)
(* one that had passed its check before state_->alive was cleared and that  *)
(* was not called yet.  (A frame's check stands for on_frame and            *)
(* on_message.)  The destructor does not wait for it.                       *)
OneLateCallback == \A i \in Sessions : late[i] <= 1

(* Every connect is answered through its callback, unless the application   *)
(* closed or destroyed the client.                                          *)
ConnectAnswered ==
  \A i \in Sessions :
    calls.connects >= i ~>
      answered[i] = 1 \/ ses[i].closing \/ ~alive

(* The end of an open connection reaches the application, as a close or as  *)
(* an error.                                                                *)
CloseReported ==
  \A i \in Sessions :
    ses[i].phase = "open" /\ ses[i].peer = "gone" ~>
      closes > 0 \/ i \in errors \/ ~alive

(* The application learns how every connection began and that it ended. *)
EndsReported == ConnectAnswered /\ CloseReported
=============================================================================
