--------------------------- MODULE WebsocketSession ---------------------------
(***************************************************************************)
(* One server-side WebSocket connection, WebsocketSession, with its entry  *)
(* in the registry m_sessions_id_ that all sessions share.  Handlers run on *)
(* the connection's strand, one at a time; frames come from any thread,     *)
(* through send_frame (a post to the strand) or through the static          *)
(* send_message, that looks the session up under m_sessions_mutex and posts *)
(* after it released it.                                                    *)
(*                                                                         *)
(* Text, binary, ping and pong frames take the same path and are members of *)
(* Frames; CloseFrame is the application's close frame.                     *)
(***************************************************************************)
EXTENDS Integers, Sequences

CONSTANTS
  Frames,       \* what the application may send; may contain CloseFrame
  CloseFrame,
  Closing,      \* the write operation of close_stream, ws::close_code::normal
  Threads,      \* callers of the static send_message
  None,         \* no frame
  MaxSends      \* bound on sends and broadcasts

ASSUME WebsocketAssumption ==
  /\ None \notin Frames /\ Closing \notin Frames /\ Closing # CloseFrame
  /\ None # CloseFrame
  /\ MaxSends \in Nat

VARIABLES
  queue, writing, closed, closePending,   \* write_queue_ and the flags
  registered,   \* m_sessions_id_ has this session
  phase,        \* "accepting", "open", or "failed": the opening handshake
  isOpen,       \* ws_.is_open()
  reading,      \* an async_read is outstanding
  ops,          \* write operations in progress on ws_
  posted,       \* frames posted to the strand by send_frame
  held,         \* the frame a broadcasting thread is about to post
  peer,         \* "open", "closed" (its close frame arrived), "gone"
  sends,        \* calls made so far
  sent, wire,   \* history: frames in the order posted, frames written
  reports       \* on_close and on_error dispatches

flags == <<queue, writing, closed, closePending>>
history == <<sends, sent, wire>>
vars == <<flags, registered, phase, isOpen, reading, ops, posted, held, peer,
          history, reports>>

(* The decisions of the code; a mutant of one stands before it.             *)
(* send_frame starts the write loop. *)
WriterFree == ~writing

(* do_write_next takes the front of the queue. *)
NextFrame(q) == Head(q)

StaysOpen(f) == closed                         \* mutant
ClosedByAny(f) == TRUE                         \* mutant: its end is unreported
(* closed_ once frame f was taken to be written. *)
ClosedAfter(f) == closed \/ f = CloseFrame

ClosesAgain == TRUE                            \* mutant: reported twice
(* do_close has an effect. *)
Closes == ~closed

(* The registry entry after m_sessions_id_.erase. *)
Erased == FALSE

-----------------------------------------------------------------------------
(* close_stream, with `others` the operations that stay in progress; the    *)
(* operation that just completed decides whether the stream is still open.  *)
CloseStream(others) ==
  ops' = IF isOpen' THEN Append(others, Closing) ELSE others

(* do_write_next on queue q. *)
DoWriteNext(q, others) ==
  \/ /\ closed \/ q = <<>>
     /\ queue' = <<>>
     /\ writing' = FALSE
     /\ closePending' = FALSE
     /\ IF closePending THEN CloseStream(others) ELSE ops' = others
     /\ UNCHANGED closed
  \/ /\ ~closed /\ q # <<>>
     /\ queue' = Tail(q)
     /\ writing' = TRUE
     /\ closed' = ClosedAfter(NextFrame(q))
     /\ ops' = Append(others, NextFrame(q))
     /\ UNCHANGED closePending

(* do_close, called with writing_ = w; `report` is the dispatch it makes. *)
DoClose(report, w, others) ==
  /\ writing' = w
  /\ IF Closes
     THEN /\ closed' = TRUE
          /\ queue' = <<>>
          /\ registered' = Erased
          /\ reports' = Append(reports, report)
          /\ closePending' = (closePending \/ w)
          /\ IF w THEN ops' = others ELSE CloseStream(others)
     ELSE /\ ops' = others
          /\ UNCHANGED <<closed, queue, registered, reports, closePending>>

-----------------------------------------------------------------------------
(* on_handshake: register, dispatch_open and read; or close with the error. *)
OnHandshake ==
  /\ phase = "accepting"
  /\ \/ /\ phase' = "open"
        /\ isOpen' = TRUE
        /\ registered' = TRUE
        /\ reading' = TRUE
        /\ UNCHANGED <<flags, ops, reports>>
     \/ /\ phase' = "failed"
        /\ UNCHANGED <<isOpen, reading>>
        /\ DoClose("error", writing, ops)
  /\ UNCHANGED <<posted, held, peer, history>>

(* send_frame, and send_message of a session, from any thread that has the  *)
(* session's context: the frame is posted to the strand.                    *)
SendFrame(f) ==
  /\ phase = "open" /\ sends < MaxSends
  /\ sends' = sends + 1
  /\ posted' = Append(posted, f)
  /\ sent' = Append(sent, f)
  /\ UNCHANGED <<flags, registered, phase, isOpen, reading, ops, held, peer,
                 wire, reports>>

(* The static send_message finds the session under m_sessions_mutex... *)
FindSession(t, f) ==
  /\ held[t] = None /\ registered /\ sends < MaxSends /\ f # CloseFrame
  /\ sends' = sends + 1
  /\ held' = [held EXCEPT ![t] = f]
  /\ UNCHANGED <<flags, registered, phase, isOpen, reading, ops, posted, peer,
                 sent, wire, reports>>

(* ...and posts the frame after it unlocked it. *)
SendFound(t) ==
  /\ held[t] # None
  /\ held' = [held EXCEPT ![t] = None]
  /\ posted' = Append(posted, held[t])
  /\ sent' = Append(sent, held[t])
  /\ UNCHANGED <<flags, registered, phase, isOpen, reading, ops, peer, sends,
                 wire, reports>>

(* The strand runs a posted send_frame. *)
RunSend ==
  /\ posted # <<>>
  /\ posted' = Tail(posted)
  /\ UNCHANGED isOpen
  /\ LET q == Append(queue, Head(posted)) IN
     IF closed
     THEN UNCHANGED <<flags, ops>>
     ELSE IF WriterFree
          THEN DoWriteNext(q, ops)
          ELSE queue' = q /\ UNCHANGED <<writing, closed, closePending, ops>>
  /\ UNCHANGED <<registered, phase, reading, held, peer, history, reports>>

(* A frame was written; async_close waits for the peer's close frame. *)
WriteDone ==
  /\ ops # <<>> /\ Head(ops) # Closing
  /\ Head(ops) = CloseFrame => peer = "closed"
  /\ wire' = Append(wire, Head(ops))
  /\ isOpen' = (isOpen /\ Head(ops) # CloseFrame)
  /\ DoWriteNext(queue, Tail(ops))
  /\ UNCHANGED <<registered, phase, reading, posted, held, peer, sends, sent,
                 reports>>

(* A frame could not be written.  Whether the stream still counts as open   *)
(* is Beast's decision.                                                     *)
WriteError ==
  /\ ops # <<>> /\ Head(ops) # Closing /\ peer # "open"
  /\ isOpen' \in {FALSE, isOpen}
  /\ DoClose("error", FALSE, Tail(ops))
  /\ UNCHANGED <<phase, reading, posted, held, peer, history>>

(* close_stream's async_close completes; the result is only logged. *)
CloseDone ==
  /\ ops # <<>> /\ Head(ops) = Closing /\ peer # "open"
  /\ ops' = Tail(ops)
  /\ isOpen' = FALSE
  /\ UNCHANGED <<flags, registered, phase, reading, posted, held, peer,
                 history, reports>>

(* on_read with an error: the closing handshake ended, or the connection    *)
(* did, which counts as a close (eof) or as an error.                       *)
ReadError ==
  /\ reading /\ (peer # "open" \/ ~isOpen)
  /\ reading' = FALSE
  /\ isOpen' \in {FALSE, isOpen}
  /\ \E report \in {"close", "error"} :
       /\ peer = "closed" => report = "close"
       /\ DoClose(report, writing, ops)
  /\ UNCHANGED <<phase, posted, held, peer, history>>

PeerCloses ==
  /\ phase = "open" /\ peer = "open" /\ peer' = "closed"
  /\ UNCHANGED <<flags, registered, phase, isOpen, reading, ops, posted, held,
                 history, reports>>

PeerGone ==
  /\ phase = "open" /\ peer # "gone" /\ peer' = "gone"
  /\ UNCHANGED <<flags, registered, phase, isOpen, reading, ops, posted, held,
                 history, reports>>

-----------------------------------------------------------------------------
Init ==
  /\ queue = <<>> /\ writing = FALSE /\ closed = FALSE /\ closePending = FALSE
  /\ registered = FALSE /\ phase = "accepting" /\ isOpen = FALSE
  /\ reading = FALSE /\ ops = <<>> /\ posted = <<>>
  /\ held = [t \in Threads |-> None]
  /\ peer = "open" /\ sends = 0 /\ sent = <<>> /\ wire = <<>>
  /\ reports = <<>>

Broadcast(t) == (\E f \in Frames : FindSession(t, f)) \/ SendFound(t)

(* What the io_context runs on the strand. *)
Strand == OnHandshake \/ RunSend \/ WriteDone \/ WriteError \/ CloseDone
          \/ ReadError

(* Nothing is asked of the session: it waits for its peer. *)
Quiet ==
  /\ phase # "accepting" /\ posted = <<>>
  /\ \A t \in Threads : held[t] = None
  /\ ops # <<>> => Head(ops) \in {CloseFrame, Closing} /\ peer = "open"
  /\ reading => peer = "open" /\ isOpen

Waiting == Quiet /\ UNCHANGED vars

Next ==
  \/ \E f \in Frames : SendFrame(f)
  \/ \E t \in Threads : Broadcast(t)
  \/ Strand
  \/ PeerCloses \/ PeerGone
  \/ Waiting

Spec == Init /\ [][Next]_vars

(* The io_context runs ready handlers, broadcasting threads run, and a peer *)
(* that closes or leaves lets every operation on the socket complete.       *)
FairSpec ==
  /\ Spec
  /\ WF_vars(Strand)
  /\ WF_vars(ReadError)
  /\ \A t \in Threads : WF_vars(SendFound(t))

-----------------------------------------------------------------------------
Ops == Frames \cup {Closing}

TypeOK ==
  /\ queue \in Seq(Frames) /\ posted \in Seq(Frames)
  /\ sent \in Seq(Frames) /\ wire \in Seq(Frames) /\ ops \in Seq(Ops)
  /\ writing \in BOOLEAN /\ closed \in BOOLEAN /\ closePending \in BOOLEAN
  /\ registered \in BOOLEAN /\ isOpen \in BOOLEAN /\ reading \in BOOLEAN
  /\ phase \in {"accepting", "open", "failed"}
  /\ peer \in {"open", "closed", "gone"}
  /\ held \in [Threads -> Frames \cup {None}]
  /\ sends \in Nat
  /\ reports \in Seq({"close", "error"})

(* Frames are written through one queue: at most one operation is in        *)
(* progress, and close_stream's async_close never overlaps a frame.         *)
OneWriteAtATime ==
  /\ Len(ops) <= 1
  /\ ops # <<>> => (writing <=> ops[1] # Closing)

(* A frame left in the queue of an open session has a write in progress,    *)
(* whose completion takes it: a send that finds writing_ set relies on it.  *)
NothingStranded == queue # <<>> /\ ~closed => writing /\ ops # <<>>

(* Frames are written in the order in which they were posted, none skipped, *)
(* also when sends, completions and a close interleave.                     *)
InOrder ==
  /\ Len(wire) <= Len(sent)
  /\ \A i \in 1..Len(wire) : wire[i] = sent[i]

(* The close frame is the last frame written. *)
CloseIsLast ==
  \A i \in 1..Len(wire) : wire[i] = CloseFrame => i = Len(wire) /\ ops = <<>>

(* The frames of all threads reach the peer through one queue: one          *)
(* operation at a time, none left behind, in order, and the close frame     *)
(* last.                                                                    *)
FramesDelivered ==
  TypeOK /\ OneWriteAtATime /\ NothingStranded /\ InOrder /\ CloseIsLast

(* The end of a session is dispatched at most once, to on_close or on_error,*)
(* and the registry has the session exactly from its handshake until then.  *)
ReportedOnce ==
  /\ Len(reports) <= 1
  /\ registered <=> phase = "open" /\ reports = <<>>

-----------------------------------------------------------------------------
(* The inductive invariant behind these, proved in WebsocketSessionProofs.  *)

(* What is in progress on the stream, and who is allowed to start more:     *)
(* writing_ stands for a frame, and a close of the session for async_close. *)
Operations ==
  /\ Len(ops) <= 1
  /\ writing <=> ops # <<>> /\ ops[1] # Closing
  /\ ops # <<>> /\ ops[1] = Closing => closed
  /\ queue # <<>> /\ ~closed => writing
  /\ closePending => closed

(* From the handshake to the report of the end. *)
Lifecycle ==
  /\ phase = "accepting" =>
       /\ ~closed /\ ~reading /\ ~registered /\ reports = <<>> /\ ops = <<>>
       /\ posted = <<>> /\ \A t \in Threads : held[t] = None
  /\ phase = "failed" => reports # <<>>
  /\ reports # <<>> => closed

(* After the close frame nothing is started. *)
Finality ==
  /\ ops # <<>> /\ ops[1] = CloseFrame => closed /\ ~closePending
  /\ \A i \in 1..Len(wire) : wire[i] = CloseFrame => closed

(* Frames move from posted through queue and ops to wire; closing a session *)
(* drops those that were not taken.                                         *)
Flow ==
  /\ ~closed => sent = wire \o (ops \o (queue \o posted))
  /\ writing => Len(wire) < Len(sent) /\ ops[1] = sent[Len(wire) + 1]

IInv ==
  /\ TypeOK /\ Operations /\ Lifecycle /\ ReportedOnce /\ Finality
  /\ CloseIsLast /\ InOrder /\ Flow

-----------------------------------------------------------------------------
(* When the connection ends, on_close or on_error is dispatched and the     *)
(* registry entry is released.  The one exception is a session for which    *)
(* the application sent a close frame: taking it sets closed_, and do_close, *)
(* which reports and unregisters, returns at once from then on.             *)
EndReported ==
  phase = "open" /\ peer # "open" ~>
    \/ reports # <<>> /\ ~registered
    \/ \E i \in DOMAIN sent : sent[i] = CloseFrame
=============================================================================
