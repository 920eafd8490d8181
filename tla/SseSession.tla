----------------------------- MODULE SseSession -----------------------------
(***************************************************************************)
(* A server-sent events response: SseSession::Impl and the part of          *)
(* HttpSession it drives through HttpResponseStream.  Application threads   *)
(* and the session's strand call send, close, cancel and on_close; every    *)
(* call is a few critical sections of Impl::mutex with posts to the strand  *)
(* between them.  `todo` holds what an actor still has to do of the calls   *)
(* and callbacks it is in, one atomic step each; `posted` is the strand's   *)
(* queue of response-stream jobs, run one at a time.                        *)
(***************************************************************************)
EXTENDS Integers, Sequences, SequencesExt

CONSTANTS
  Threads, Strand,     \* application threads; the connection's strand
  Events, Size,        \* what may be sent, and the formatted size of each
  MaxPending,          \* max_pending_bytes
  Handlers, None,      \* on_close handlers; no handler, no event
  End,                 \* the last chunk
  Bodies,              \* whether the request may come with a body, unread
  KeepAlive,           \* the request asked for keep-alive
  MaxSends, MaxEnds,   \* bounds on calls of send, and of close and cancel
  MaxCalls             \* bound on all calls of the application

ASSUME SseAssumption ==
  /\ Strand \notin Threads /\ None \notin Handlers /\ End \notin Events
  /\ Size \in [Events -> Nat \ {0}]
  /\ MaxPending \in Nat /\ {MaxSends, MaxEnds, MaxCalls} \subseteq Nat
  /\ Bodies \subseteq BOOLEAN /\ KeepAlive \in BOOLEAN

VARIABLES
  queue, pending, startRequested, started, writing, closing, closed,
  closeHandler,                                            \* Impl
  body,      \* the request parser has not consumed the request's body
  bodyCancelled, persistent, serializer, waitCancelled,    \* HttpSession
  probe,     \* the disconnect wait: "none", "active", or "cancelled"
  ops,       \* response writes in progress on the socket
  shut,      \* cancel_session shut the socket down
  conn,      \* the connection after the response: "sse", "next", "closed"
  posted, todo,
  peer,      \* "open", "sent" (bytes while the response is open), "gone"
  sends, ends, aborted,   \* calls made; whether one of them was cancel
  accepted, wire,         \* history: events accepted, chunks written
  registered, calls       \* history: on_close handlers, their invocations

impl == <<queue, pending, startRequested, started, writing, closing, closed,
          closeHandler>>
http == <<body, bodyCancelled, persistent, serializer, waitCancelled, probe, ops,
          shut, conn>>
env == <<peer, sends, ends, aborted, accepted, wire, registered, calls>>
vars == <<impl, http, posted, todo, env>>

Actors == Threads \cup {Strand}
Step(do, arg) == [do |-> do, arg |-> arg]
Do(do) == Step(do, None)

-----------------------------------------------------------------------------
(* The decisions of the code; a mutant of one stands before it.             *)
AcceptsClosing(e) == ~closed /\ Size[e] <= MaxPending
                     /\ pending <= MaxPending - Size[e]      \* mutant
(* enqueue takes an event. *)
Accepts(e) ==
  /\ ~closing /\ ~closed
  /\ Size[e] <= MaxPending /\ pending <= MaxPending - Size[e]

(* write_next may start an operation. *)
WriterFree == started /\ ~writing /\ ~closed

(* pending_bytes once the event at the front was written. *)
PendingAfterWrite == pending - Size[Head(queue)]

(* write_next takes the event at the front. *)
FrontEvent == Head(queue)

(* The callback of async_write_some, when the write succeeded. *)
OnEventWritten == <<Do("written"), Do("next")>>

ReportsLostOnClose == FALSE                           \* mutant
(* on_close after the end invokes the handler at once. *)
ReportsAtOnce == closed

ProbeReportsAll(ec) == TRUE                           \* mutant
(* The disconnect callback acts on anything but its own cancellation. *)
ProbeReports(ec) == ec # "aborted"

(* The started response watches for a disconnect. *)
Watches == ~closing /\ ~closed

-----------------------------------------------------------------------------
(* The application's calls, from a thread or from the route's handler, that *)
(* runs on the strand before start.                                         *)
Calling(a) ==
  /\ sends + ends + Len(registered) < MaxCalls
  /\ IF a = Strand THEN todo[a] # <<>> /\ Head(todo[a]).do = "handler"
                   ELSE todo[a] = <<>>

(* What actor a does next, before the rest of what it was doing. *)
First(a, steps) == todo' = [todo EXCEPT ![a] = steps \o @]

(* send and send_comment: Impl::enqueue, then write_next. *)
Enqueue(a, e) ==
  /\ Calling(a) /\ sends < MaxSends
  /\ sends' = sends + 1
  /\ IF Accepts(e)
     THEN /\ pending' = pending + Size[e]
          /\ queue' = Append(queue, e)
          /\ accepted' = Append(accepted, e)
          /\ First(a, <<Do("next")>>)
     ELSE UNCHANGED <<pending, queue, accepted, todo>>
  /\ UNCHANGED <<startRequested, started, writing, closing, closed,
                 closeHandler, http, posted, peer, ends, aborted, wire,
                 registered, calls>>

Close(a) ==
  /\ Calling(a) /\ ends < MaxEnds
  /\ ends' = ends + 1
  /\ First(a, <<Do("cancelWait"), Do("setClosing"), Do("next")>>)
  /\ UNCHANGED <<impl, http, posted, peer, sends, aborted, accepted, wire,
                 registered, calls>>

Cancel(a) ==
  /\ Calling(a) /\ ends < MaxEnds
  /\ ends' = ends + 1
  /\ aborted' = TRUE
  /\ First(a, <<Step("post", Do("cancel")), Step("finish", "aborted")>>)
  /\ UNCHANGED <<impl, http, posted, peer, sends, accepted, wire, registered, calls>>

(* on_close replaces the handler, or invokes it if the session is closed. *)
OnClose(a, h) ==
  /\ Calling(a) /\ h \notin Range(registered)
  /\ registered' = Append(registered, h)
  /\ IF ReportsAtOnce
     THEN First(a, <<Step("invoke", h)>>) /\ UNCHANGED closeHandler
     ELSE closeHandler' = h /\ UNCHANGED todo
  /\ UNCHANGED <<queue, pending, startRequested, started, writing, closing,
                 closed, http, posted, peer, sends, ends, aborted, accepted,
                 wire, calls>>

(* The route's handler returns and HttpRouter::sse calls start. *)
HandlerReturns ==
  /\ todo[Strand] # <<>> /\ Head(todo[Strand]).do = "handler"
  /\ todo' = [todo EXCEPT ![Strand] = <<Do("start")>> \o Tail(@)]
  /\ UNCHANGED <<impl, http, posted, env>>

-----------------------------------------------------------------------------
(* The steps of calls and callbacks: actor a is at step s of kind `do` and  *)
(* goes on with `then` before the rest.                                     *)
At(a, do) == todo[a] # <<>> /\ Head(todo[a]).do = do
Arg(a) == Head(todo[a]).arg
Then(a, steps) == todo' = [todo EXCEPT ![a] = steps \o Tail(@)]

(* net::post of a job to the strand. *)
Post(a) ==
  /\ At(a, "post")
  /\ posted' = Append(posted, Arg(a))
  /\ Then(a, <<>>)
  /\ UNCHANGED <<impl, http, env>>

(* Impl::start. *)
Start(a) ==
  /\ At(a, "start")
  /\ IF startRequested \/ closed
     THEN Then(a, <<>>) /\ UNCHANGED startRequested
     ELSE Then(a, <<Step("post", Do("start"))>>) /\ startRequested' = TRUE
  /\ UNCHANGED <<queue, pending, started, writing, closing, closed,
                 closeHandler, http, posted, env>>

(* The callback of async_start: the header was written. *)
SetStarted(a) ==
  /\ At(a, "setStarted")
  /\ started' = TRUE
  /\ Then(a, IF Watches THEN <<Step("post", Do("wait"))>> ELSE <<>>)
  /\ UNCHANGED <<queue, pending, startRequested, writing, closing, closed,
                 closeHandler, http, posted, env>>

SetClosing(a) ==
  /\ At(a, "setClosing")
  /\ closing' = TRUE
  /\ Then(a, <<>>)
  /\ UNCHANGED <<queue, pending, startRequested, started, writing, closed,
                 closeHandler, http, posted, env>>

(* Impl::write_next: claim the writer for the front event, or, when a       *)
(* closing session has none left, for the end of the response.              *)
WriteNext(a) ==
  /\ At(a, "next")
  /\ LET claims == WriterFree /\ (queue # <<>> \/ closing)
         job == IF queue # <<>> THEN Step("write", FrontEvent) ELSE Do("finish")
     IN  /\ writing' = (writing \/ claims)
         /\ Then(a, IF claims THEN <<Step("post", job)>> ELSE <<>>)
  /\ UNCHANGED <<queue, pending, startRequested, started, closing, closed,
                 closeHandler, http, posted, env>>

(* The callback of async_write_some after a success, before its write_next. *)
Written(a) ==
  /\ At(a, "written")
  /\ IF queue = <<>>
     THEN UNCHANGED <<pending, queue>>
     ELSE pending' = PendingAfterWrite /\ queue' = Tail(queue)
  /\ writing' = FALSE
  /\ Then(a, <<>>)
  /\ UNCHANGED <<startRequested, started, closing, closed, closeHandler, http,
                 posted, env>>

(* Impl::finish(ec). *)
Finish(a) ==
  /\ At(a, "finish")
  /\ IF ~closed
     THEN /\ closed' = TRUE
          /\ writing' = FALSE
          /\ pending' = 0
          /\ queue' = <<>>
          /\ closeHandler' = None
          /\ Then(a, <<Do("cancelWait"), Step("invoke", closeHandler)>>)
     ELSE /\ Then(a, <<>>)
          /\ UNCHANGED <<closed, writing, pending, queue, closeHandler>>
  /\ UNCHANGED <<startRequested, started, closing, http, posted, env>>

(* invoke_close_handler. *)
Invoke(a) ==
  /\ At(a, "invoke")
  /\ calls' = [h \in Handlers |-> calls[h] + (IF h = Arg(a) THEN 1 ELSE 0)]
  /\ Then(a, <<>>)
  /\ UNCHANGED <<impl, http, posted, peer, sends, ends, aborted, accepted, wire,
                 registered>>

-----------------------------------------------------------------------------
(* HttpSession's side of HttpResponseStream.                                *)

(* The body of cancel_stream_disconnect_wait. *)
DisconnectWaitCancelled ==
  /\ waitCancelled' = TRUE
  /\ probe' = IF probe = "active" THEN "cancelled" ELSE probe

(* cancel_stream_disconnect_wait dispatches: at once on the strand, as a    *)
(* job from another thread.                                                 *)
CancelWait(a) ==
  /\ At(a, "cancelWait")
  /\ Then(a, <<>>)
  /\ IF a = Strand
     THEN DisconnectWaitCancelled /\ UNCHANGED posted
     ELSE posted' = Append(posted, Do("cancelWait"))
          /\ UNCHANGED <<waitCancelled, probe>>
  /\ UNCHANGED <<impl, body, bodyCancelled, persistent, serializer, ops, shut, conn,
                 env>>

(* The strand takes the next posted job. *)
Job(do) ==
  /\ todo[Strand] = <<>> /\ posted # <<>> /\ Head(posted).do = do
  /\ posted' = Tail(posted)

(* A write operation begins; one that begins on a shut socket will fail. *)
Begin(op) == ops' = Append(ops, [op |-> op, doomed |-> shut])

CancelStreamBody ==
  /\ Job("cancelBody")
  /\ bodyCancelled' = TRUE
  /\ UNCHANGED <<impl, body, persistent, serializer, waitCancelled, probe, ops,
                 shut, conn, todo, env>>

StartStreamResponse ==
  /\ Job("start")
  /\ waitCancelled' = FALSE
  /\ persistent' = (KeepAlive /\ ~bodyCancelled)
  /\ serializer' = TRUE
  /\ Begin(Head(posted))
  /\ UNCHANGED <<impl, body, bodyCancelled, probe, shut, conn, todo, env>>

(* write_stream_response and finish_stream_response. *)
WriteStreamResponse ==
  /\ Job("write") \/ Job("finish")
  /\ IF serializer
     THEN Begin(Head(posted)) /\ UNCHANGED todo
     ELSE First(Strand, <<Step("finish", "aborted")>>) /\ UNCHANGED ops
  /\ UNCHANGED <<impl, body, bodyCancelled, persistent, serializer, waitCancelled,
                 probe, shut, conn, env>>

(* wait_stream_disconnect: not while a request body is unread. *)
WaitStreamDisconnect ==
  /\ Job("wait")
  /\ probe' = IF waitCancelled \/ body \/ probe # "none" THEN probe
              ELSE "active"
  /\ UNCHANGED <<impl, body, bodyCancelled, persistent, serializer, waitCancelled,
                 ops, shut, conn, todo, env>>

RunCancelWait ==
  /\ Job("cancelWait")
  /\ DisconnectWaitCancelled
  /\ UNCHANGED <<impl, body, bodyCancelled, persistent, serializer, ops, shut, conn,
                 todo, env>>

(* cancel_session: pending operations are cancelled, the socket is shut. *)
CancelSession ==
  /\ Job("cancel")
  /\ shut' = TRUE
  /\ probe' = IF probe = "active" THEN "cancelled" ELSE probe
  /\ UNCHANGED <<impl, body, bodyCancelled, persistent, serializer, waitCancelled,
                 ops, conn, todo, env>>

-----------------------------------------------------------------------------
(* I/O completions, that the strand runs when it is idle.                   *)
Complete ==
  /\ todo[Strand] = <<>> /\ ops # <<>>
  /\ ops' = Tail(ops)
  /\ UNCHANGED <<impl, body, bodyCancelled, persistent, serializer, waitCancelled,
                 probe, shut, conn, posted, peer, sends, ends, aborted,
                 accepted, registered, calls>>

WriteDone ==
  /\ Complete /\ ~Head(ops).doomed
  /\ LET op == Head(ops).op
     IN  \/ /\ op.do = "start"
            /\ First(Strand, <<Do("setStarted"), Do("next")>>)
            /\ UNCHANGED wire
         \/ /\ op.do = "write"
            /\ First(Strand, OnEventWritten)
            /\ wire' = Append(wire, op.arg)
         \/ /\ op.do = "finish"
            /\ First(Strand, <<Step("finish", "ok"), Step("resume", TRUE)>>)
            /\ wire' = Append(wire, End)

WriteError ==
  /\ Complete /\ (shut \/ peer = "gone")
  /\ First(Strand, IF Head(ops).op.do = "finish"
                   THEN <<Step("finish", "error"), Step("resume", FALSE)>>
                   ELSE <<Step("finish", "error")>>)
  /\ UNCHANGED wire

(* The end of finish_stream_response: the next request, or do_close. *)
Resume(a) ==
  /\ At(a, "resume")
  /\ serializer' = FALSE
  /\ conn' = IF Arg(a) /\ persistent THEN "next" ELSE "closed"
  /\ Then(a, <<>>)
  /\ UNCHANGED <<impl, body, bodyCancelled, persistent, waitCancelled, probe, ops,
                 shut, posted, env>>

(* The disconnect probe completes: it was cancelled, or the peer closed or  *)
(* sent something.  Its callback aborts the session.                        *)
ProbeDone ==
  /\ todo[Strand] = <<>>
  /\ \E ec \in {"aborted", "eof"} :
       /\ ec = "aborted" => probe = "cancelled"
       /\ ec = "eof" => probe # "none" /\ (peer # "open" \/ shut)
       /\ First(Strand, IF ProbeReports(ec)
                        THEN <<Step("post", Do("cancel")), Step("finish", ec)>>
                        ELSE <<>>)
  /\ probe' = "none"
  /\ UNCHANGED <<impl, body, bodyCancelled, persistent, serializer, waitCancelled,
                 ops, shut, conn, posted, env>>

PeerSends ==
  /\ peer = "open" /\ peer' = "sent"
  /\ UNCHANGED <<impl, http, posted, todo, sends, ends, aborted, accepted,
                 wire, registered, calls>>

PeerGone ==
  /\ peer # "gone" /\ peer' = "gone"
  /\ UNCHANGED <<impl, http, posted, todo, sends, ends, aborted, accepted,
                 wire, registered, calls>>

-----------------------------------------------------------------------------
Init ==
  /\ queue = <<>> /\ pending = 0
  /\ startRequested = FALSE /\ started = FALSE /\ writing = FALSE
  /\ closing = FALSE /\ closed = FALSE /\ closeHandler = None
  /\ body \in Bodies
  /\ bodyCancelled = FALSE /\ persistent = FALSE /\ serializer = FALSE
  /\ waitCancelled = FALSE /\ probe = "none" /\ ops = <<>> /\ shut = FALSE
  /\ conn = "sse"
  /\ posted = IF body THEN <<Do("cancelBody")>> ELSE <<>>
  /\ todo = [a \in Actors |-> IF a = Strand THEN <<Do("handler")>> ELSE <<>>]
  /\ peer = "open" /\ sends = 0 /\ ends = 0 /\ aborted = FALSE
  /\ accepted = <<>> /\ wire = <<>>
  /\ registered = <<>> /\ calls = [h \in Handlers |-> 0]

(* Calls the application may make. *)
Application(a) ==
  \/ \E e \in Events : Enqueue(a, e)
  \/ Close(a)
  \/ Cancel(a)
  \/ \E h \in Handlers : OnClose(a, h)

(* What an actor has begun and goes on with. *)
Continue(a) ==
  \/ Post(a) \/ Start(a) \/ SetStarted(a) \/ SetClosing(a) \/ WriteNext(a)
  \/ Written(a) \/ Finish(a) \/ Invoke(a) \/ CancelWait(a) \/ Resume(a)

(* What the idle strand runs. *)
RunJob ==
  \/ CancelStreamBody \/ StartStreamResponse \/ WriteStreamResponse
  \/ WaitStreamDisconnect \/ RunCancelWait \/ CancelSession

Quiet ==
  /\ \A a \in Actors : todo[a] = <<>>
  /\ posted = <<>> /\ ops = <<>>
  /\ probe = "none" \/ (probe = "active" /\ peer = "open" /\ ~shut)

(* Everything asked for is done: the session waits for calls. *)
Idle == Quiet /\ UNCHANGED vars

Next ==
  \/ \E a \in Actors : Application(a) \/ Continue(a)
  \/ HandlerReturns
  \/ RunJob
  \/ WriteDone \/ WriteError \/ ProbeDone
  \/ PeerSends \/ PeerGone
  \/ Idle

Spec == Init /\ [][Next]_vars

(* Every thread runs, the route's handler returns, the io_context runs      *)
(* ready jobs and completions, and the peer reads or goes away, so that a   *)
(* write completes.  No call of the application is assumed.                 *)
FairSpec ==
  /\ Spec
  /\ \A a \in Actors : WF_vars(Continue(a))
  /\ WF_vars(HandlerReturns) /\ WF_vars(RunJob)
  /\ WF_vars(WriteDone \/ WriteError) /\ WF_vars(ProbeDone)

-----------------------------------------------------------------------------
Calls == {"handler", "start", "setStarted", "setClosing", "next", "written",
          "finish", "invoke", "cancelWait", "resume", "post"}
Jobs == {"cancelBody", "start", "write", "finish", "wait", "cancelWait",
         "cancel"}
Writes == {"start", "write", "finish"}

TypeOK ==
  /\ queue \in Seq(Events) /\ pending \in Nat
  /\ accepted \in Seq(Events) /\ wire \in Seq(Events \cup {End})
  /\ {startRequested, started, writing, closing, closed, body, bodyCancelled,
      persistent, serializer, waitCancelled, shut, aborted} \subseteq BOOLEAN
  /\ closeHandler \in Handlers \cup {None}
  /\ probe \in {"none", "active", "cancelled"}
  /\ conn \in {"sse", "next", "closed"}
  /\ peer \in {"open", "sent", "gone"}
  /\ \A i \in 1..Len(posted) : posted[i].do \in Jobs
  /\ \A i \in 1..Len(ops) : ops[i].op.do \in Writes
  /\ \A a \in Actors : \A i \in 1..Len(todo[a]) : todo[a][i].do \in Calls

(* Response writes begun, posted, or claimed by an actor that will post one: *)
(* where each of them is.                                                    *)
ClaimsWrite(s) == s.do = "post" /\ s.arg.do \in Writes
Claims ==
  {<<"begun", i>> : i \in 1..Len(ops)}
    \cup {<<"posted", i>> :
            i \in {j \in 1..Len(posted) : posted[j].do \in Writes}}
    \cup UNION {{<<"claimed", a, i>> :
                  i \in {j \in 1..Len(todo[a]) : ClaimsWrite(todo[a][j])}} :
                a \in Actors}

(* Beast allows one write operation on a stream at a time: whatever threads *)
(* send, close and cancel, there is at most one, begun or on its way, it    *)
(* finds the serializer, and an open session knows of it.                   *)
OneResponseWrite ==
  /\ \A c, d \in Claims : c = d
  /\ started /\ ~closed /\ Claims # {} => writing
  /\ \A i \in 1..Len(posted) : posted[i].do \in {"write", "finish"} => serializer

(* Events reach the connection in the order send accepted them.             *)
InOrder ==
  \A i \in 1..Len(wire) : wire[i] # End =>
    i <= Len(accepted) /\ wire[i] = accepted[i]

(* close sends every accepted event before the end chunk, and nothing       *)
(* follows that chunk.                                                      *)
CloseDrains ==
  \A i \in 1..Len(wire) : wire[i] = End =>
    /\ i = Len(wire)
    /\ SubSeq(wire, 1, i - 1) = accepted

(* The byte count that limits the queue is the size of the events in it, so *)
(* no slow client makes it exceed the limit and no send is refused for      *)
(* bytes that are no longer queued.  total[i] is the size of the first i.   *)
PendingExact ==
  \E total \in [0..Len(queue) -> 0..MaxPending] :
    /\ total[0] = 0
    /\ \A i \in 1..Len(queue) : total[i] = total[i - 1] + Size[queue[i]]
    /\ pending = total[Len(queue)]

(* No event is stranded in the queue of a started session: a writer is at   *)
(* work or an actor is about to look at the queue.                          *)
NotStranded ==
  started /\ ~closed /\ (queue # <<>> \/ closing) =>
    \/ writing
    \/ \E a \in Actors : \E i \in 1..Len(todo[a]) : todo[a][i].do = "next"

(* What send accepted is written, whoever sends, closes and cancels: by one *)
(* write at a time, in order, before the end chunk, with an exact account   *)
(* of the bytes, and without an event left behind.                          *)
EventsWritten ==
  /\ TypeOK /\ OneResponseWrite /\ InOrder /\ CloseDrains
  /\ PendingExact /\ NotStranded

(* on_close is reported at most once to a handler, and only after the end.  *)
ReportedOnce ==
  \A h \in Handlers : calls[h] <= 1 /\ (calls[h] = 1 => closed)

(* A session closed gracefully leaves its connection to the next request:   *)
(* its own disconnect wait, cancelled by then, does not shut the socket     *)
(* unless the peer sent something or left, or the application called cancel.*)
NextRequestSafe == conn = "next" /\ shut => aborted \/ peer # "open"

(* A session ends once, for its handlers and for its connection. *)
EndsOnce == ReportedOnce /\ NextRequestSafe

(* The handler registered last has been told that the session is closed.    *)
Reported ==
  closed /\ (registered # <<>> => calls[registered[Len(registered)]] = 1)

(* close and cancel lead to on_close, reported to the handler in place. *)
CloseReported == ends > 0 \/ closed ~> Reported

(* When the peer goes away, on_close follows without any further send, if   *)
(* the request had no body: wait_stream_disconnect does not watch a         *)
(* connection whose request body was not read to its end.                   *)
DisconnectReported == peer = "gone" /\ ~body ~> Reported

(* Every end of a session reaches its on_close handler. *)
EndReported == CloseReported /\ DisconnectReported
=============================================================================
