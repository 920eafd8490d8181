--------------------------- MODULE ChunkedWriter ---------------------------
(***************************************************************************)
(* A chunked response of HttpSession (HttpContext::chunked).  After the     *)
(* header is written, on_write_header starts a detached thread that runs    *)
(* the application's stream handler.  The handler hands buffers to          *)
(* write_chunk; the session's strand writes them with net::async_write, one *)
(* at a time, and at the end reports to on_write, which reads the next      *)
(* request or closes.  Thread and strand share a ChunkWriteState under its  *)
(* mutex; an action below is one critical section, or one strand handler.   *)
(*                                                                         *)
(* Chunks are abstract values.  Their encoding matters in one respect: the *)
(* chunk of an empty buffer, "0\r\n\r\n", is the last-chunk terminator.     *)
(***************************************************************************)
EXTENDS Integers, Sequences

CONSTANTS
  Buffers,    \* the non-empty buffers a stream handler may write
  Empty,      \* the empty buffer
  Final,      \* the terminator "0\r\n\r\n"
  MaxWrites   \* bound on the handler's calls of write_chunk

ASSUME ChunkAssumption ==
  /\ Empty \notin Buffers
  /\ Final \notin Buffers
  /\ MaxWrites \in Nat

VARIABLES
  queue, writing, finalQueued, completed, error, guard, \* ChunkWriteState
  pc,        \* where the response, then its stream handler thread, is
  writes,    \* calls of write_chunk made so far
  posted,    \* do_write_chunk handlers posted to the strand and not yet run
  inflight,  \* buffers of the net::async_write operations in progress
  broken,    \* the connection no longer takes data
  wire,      \* chunks written to the connection, in order
  pushed,    \* history: everything ever pushed on queue
  resumed,   \* calls on_write(keep_alive, {}): read the next request or close
  failures   \* calls on_write(keep_alive, ec) with an error

state == <<queue, writing, finalQueued, completed, error, guard>>
vars == <<state, pc, writes, posted, inflight, broken, wire, pushed, resumed,
          failures>>

(* The decisions of the code; a mutant of one stands before it.             *)
(* What write_chunk puts on the queue for a buffer. *)
Encode(b) == IF b = Empty THEN Final ELSE b

AcceptsAlways == TRUE                          \* mutant
(* write_chunk takes a buffer until a write has failed. *)
Accepts == ~error

WriterAlwaysFree == TRUE                       \* mutant: a second writer
(* schedule_write claims the writer role if no do_write_chunk has it. *)
WriterFree == ~writing

(* The queue once its front was taken to be written. *)
Dequeued == Tail(queue)

CompletesAgain == finalQueued                  \* mutant: reported twice
(* do_write_chunk reports the end of the response, once. *)
Completes == finalQueued /\ ~completed

GuardKept == guard                             \* mutant
(* state->guard.reset(). *)
GuardAfterReset == FALSE

Chunk == Buffers \cup {Final}
PC == {"header", "aborted", "handler", "schedule", "post", "done"}

Init ==
  /\ queue = <<>> /\ writing = FALSE /\ finalQueued = FALSE
  /\ completed = FALSE /\ error = FALSE /\ guard = FALSE
  /\ pc = "header" /\ writes = 0
  /\ posted = 0 /\ inflight = <<>> /\ broken = FALSE
  /\ wire = <<>> /\ pushed = <<>>
  /\ resumed = 0 /\ failures = 0

-----------------------------------------------------------------------------
(* The response header was written: start the stream handler's thread.  On  *)
(* an error the handler never runs and the session is dropped.              *)
OnWriteHeader ==
  /\ pc = "header"
  /\ \/ ~broken /\ pc' = "handler" /\ guard' = TRUE
     \/ broken /\ pc' = "aborted" /\ guard' = guard
  /\ UNCHANGED <<queue, writing, finalQueued, completed, error, writes, posted,
                 inflight, broken, wire, pushed, resumed, failures>>

(* write_chunk up to its call of schedule_write: false once a write failed. *)
WriteChunk(b) ==
  /\ pc = "handler" /\ writes < MaxWrites
  /\ writes' = writes + 1
  /\ IF Accepts
     THEN /\ queue' = Append(queue, Encode(b))
          /\ pushed' = Append(pushed, Encode(b))
          /\ pc' = "schedule"
     ELSE UNCHANGED <<queue, pushed, pc>>
  /\ UNCHANGED <<writing, finalQueued, completed, error, guard, posted,
                 inflight, broken, wire, resumed, failures>>

(* The stream handler returned: the thread queues the terminator, error or  *)
(* not, and calls schedule_write a last time.                               *)
HandlerReturn ==
  /\ pc = "handler"
  /\ queue' = Append(queue, Final)
  /\ pushed' = Append(pushed, Final)
  /\ finalQueued' = TRUE
  /\ pc' = "schedule"
  /\ UNCHANGED <<writing, completed, error, guard, writes, posted, inflight,
                 broken, wire, resumed, failures>>

(* Where the thread goes when schedule_write returns. *)
AfterSchedule == IF finalQueued THEN "done" ELSE "handler"

(* schedule_write's critical section: claim the writer role if it is free.  *)
ScheduleWrite ==
  /\ pc = "schedule"
  /\ writing' = (writing \/ WriterFree)
  /\ pc' = IF WriterFree THEN "post" ELSE AfterSchedule
  /\ UNCHANGED <<queue, finalQueued, completed, error, guard, writes, posted,
                 inflight, broken, wire, pushed, resumed, failures>>

(* schedule_write's net::post of do_write_chunk, after its unlock. *)
PostWrite ==
  /\ pc = "post"
  /\ posted' = posted + 1
  /\ pc' = AfterSchedule
  /\ UNCHANGED <<state, writes, inflight, broken, wire, pushed, resumed,
                 failures>>

-----------------------------------------------------------------------------
(* do_write_chunk, with `others` the writes that stay in progress.  The     *)
(* terminator's completion reports to on_write once.                        *)
DoWriteChunk(others) ==
  \/ /\ queue = <<>>
     /\ writing' = FALSE
     /\ inflight' = others
     /\ IF Completes
        THEN /\ completed' = TRUE
             /\ guard' = GuardAfterReset
             /\ resumed' = resumed + 1
        ELSE UNCHANGED <<completed, guard, resumed>>
     /\ UNCHANGED queue
  \/ /\ queue # <<>>
     /\ inflight' = Append(others, Head(queue))
     /\ queue' = Dequeued
     /\ UNCHANGED <<writing, completed, guard, resumed>>

(* The strand runs a posted do_write_chunk. *)
RunPosted ==
  /\ posted > 0
  /\ posted' = posted - 1
  /\ DoWriteChunk(inflight)
  /\ UNCHANGED <<finalQueued, error, pc, writes, broken, wire, pushed,
                 failures>>

(* A write completes and its handler goes on with do_write_chunk. *)
WriteDone ==
  /\ inflight # <<>> /\ ~broken
  /\ wire' = Append(wire, Head(inflight))
  /\ DoWriteChunk(Tail(inflight))
  /\ UNCHANGED <<finalQueued, error, pc, writes, posted, broken, pushed,
                 failures>>

(* A write fails: the error is recorded for write_chunk, the response is    *)
(* over, and on_write only logs.                                            *)
WriteError ==
  /\ inflight # <<>> /\ broken
  /\ inflight' = Tail(inflight)
  /\ error' = TRUE
  /\ writing' = FALSE
  /\ completed' = TRUE
  /\ guard' = GuardAfterReset
  /\ failures' = failures + 1
  /\ UNCHANGED <<queue, finalQueued, pc, writes, posted, broken, wire, pushed,
                 resumed>>

(* The peer goes away: every later write fails. *)
PeerDisconnect ==
  /\ ~broken
  /\ broken' = TRUE
  /\ UNCHANGED <<state, pc, writes, posted, inflight, wire, pushed, resumed,
                 failures>>

-----------------------------------------------------------------------------
Producer ==
  \/ \E b \in Buffers \cup {Empty} : WriteChunk(b)
  \/ HandlerReturn
  \/ ScheduleWrite
  \/ PostWrite

(* The handlers the io_context runs on the session's strand. *)
Strand == OnWriteHeader \/ RunPosted \/ WriteDone \/ WriteError

Over ==
  /\ pc \in {"aborted", "done"} /\ posted = 0 /\ inflight = <<>>

(* The response is over and nothing is pending: not a deadlock. *)
Terminated == Over /\ UNCHANGED vars

Next == Producer \/ Strand \/ PeerDisconnect \/ Terminated

Spec == Init /\ [][Next]_vars

(* The operating system runs the handler's thread, the handler returns      *)
(* (it has at most MaxWrites writes to make), and the io_context runs ready *)
(* handlers.                                                                *)
FairSpec == Spec /\ WF_vars(Producer) /\ WF_vars(Strand)

-----------------------------------------------------------------------------
TypeOK ==
  /\ queue \in Seq(Chunk) /\ inflight \in Seq(Chunk)
  /\ wire \in Seq(Chunk) /\ pushed \in Seq(Chunk)
  /\ writing \in BOOLEAN /\ finalQueued \in BOOLEAN /\ completed \in BOOLEAN
  /\ error \in BOOLEAN /\ guard \in BOOLEAN /\ broken \in BOOLEAN
  /\ pc \in PC
  /\ writes \in Nat /\ posted \in Nat /\ resumed \in Nat /\ failures \in Nat

(* Beast's contract for net::async_write: however thread and strand          *)
(* interleave, the strand never has two chunk writes in progress, nor one   *)
(* write in progress and another one posted or about to be.                 *)
SingleWriter ==
  LET claims == posted + Len(inflight) + (IF pc = "post" THEN 1 ELSE 0)
  IN  claims <= 1 /\ (writing <=> claims = 1)

(* Chunks reach the connection in the order the handler wrote them, none    *)
(* skipped and none repeated, also when the connection breaks.              *)
InOrder ==
  /\ Len(wire) <= Len(pushed)
  /\ \A i \in 1..Len(wire) : wire[i] = pushed[i]

(* No wake-up is lost between the push and schedule_write, which lock the    *)
(* mutex separately: while a chunk or the completion is outstanding, a      *)
(* do_write_chunk is on its way or the thread is about to schedule one, and *)
(* the work guard holds the io_context.                                     *)
NoLostWakeup ==
  /\ queue # <<>> /\ ~error => writing \/ pc = "schedule"
  /\ finalQueued /\ ~completed => writing \/ pc = "schedule"
  /\ pc \in PC \ {"header", "aborted"} /\ ~completed => guard

(* on_write reads the next request (or closes) once, and only after the     *)
(* whole body, terminator included, is on the connection; a failed response *)
(* never gets there.                                                        *)
ResumeOnce ==
  /\ resumed <= 1
  /\ resumed = 1 => /\ finalQueued /\ failures = 0
                    /\ wire = pushed
                    /\ wire[Len(wire)] = Final

(* The handler's thread and the strand hand the writer role to each other   *)
(* safely: one write at a time, the chunks in order, no chunk without a     *)
(* writer, and the session resumed once, after the whole body.              *)
WriterSound ==
  TypeOK /\ SingleWriter /\ InOrder /\ NoLostWakeup /\ ResumeOnce

(* Once the session went on to the next request, a do_write_chunk posted    *)
(* late by the handler's thread writes nothing more to the connection.      *)
QuietAfterResume ==
  [][resumed > 0 => UNCHANGED <<wire, inflight, resumed, failures>>]_vars

(* The response ends: on_write is called, with success or an error, or the  *)
(* header could not be written; and the work guard is released.             *)
ResponseEnds == <>[](~guard /\ (pc = "aborted" \/ resumed + failures > 0))

(***************************************************************************)
(* The strengthening that makes the properties above inductive.            *)
(***************************************************************************)
(* Nothing is lost or duplicated between the queue, the write in progress   *)
(* and the connection, until a write fails.                                 *)
Conservation == ~error => pushed = wire \o (inflight \o queue)

(* Where the handler's thread is, against what it queued. *)
ThreadPhase ==
  /\ pc \in {"header", "aborted"} =>
       /\ queue = <<>> /\ inflight = <<>> /\ wire = <<>> /\ pushed = <<>>
       /\ ~writing /\ ~finalQueued /\ ~completed /\ ~error /\ ~guard
  /\ pc = "handler" => ~finalQueued
  /\ pc = "done" => finalQueued
  /\ finalQueued => pushed # <<>> /\ pushed[Len(pushed)] = Final

(* How the response ended. *)
Outcome ==
  /\ ~completed => resumed = 0 /\ ~error
  /\ completed /\ ~error =>
       finalQueued /\ queue = <<>> /\ inflight = <<>> /\ resumed = 1
  /\ error => completed /\ broken /\ resumed = 0
  /\ error <=> failures > 0

IInv ==
  /\ TypeOK /\ SingleWriter /\ InOrder /\ NoLostWakeup
  /\ Conservation /\ ThreadPhase /\ Outcome

-----------------------------------------------------------------------------
(* What a client decodes from the connection: the chunks before the first   *)
(* terminator.                                                              *)
DecodedLen(w) ==
  IF \E i \in 1..Len(w) : w[i] = Final
  THEN CHOOSE n \in 0..Len(w) : w[n + 1] = Final /\ \A i \in 1..n : w[i] # Final
  ELSE Len(w)

(* Every buffer for which write_chunk returned true is in the body that the *)
(* client decodes from a response that completed without an error.          *)
AcceptedReachBody == resumed = 1 => DecodedLen(wire) = Len(pushed) - 1

-----------------------------------------------------------------------------
(* The detailed writer implements an ordered stream that ends once. *)
Status == IF pc = "aborted" \/ error THEN "failed"
          ELSE IF completed THEN "done" ELSE "open"

Stream == INSTANCE ChunkedStream
            WITH accepted <- pushed, delivered <- wire, ended <- finalQueued,
                 status <- Status

(* Every step of the writer is a step of ChunkedStream or changes nothing   *)
(* that it speaks of.                                                       *)
ImplementsStream == Stream!Spec
=============================================================================
