------------------------ MODULE ChunkedWriterProofs ------------------------
(***************************************************************************)
(* Proofs about ChunkedWriter, for every set of buffers and every number   *)
(* of writes.                                                              *)
(***************************************************************************)
EXTENDS ChunkedWriter, TLAPS

-----------------------------------------------------------------------------
(* Sequence facts the steps below use. *)

(* What Append does. *)
LEMMA AppendFacts ==
  ASSUME NEW s \in Seq(Chunk), NEW c \in Chunk
  PROVE  /\ Append(s, c) \in Seq(Chunk)
         /\ Append(s, c) # <<>>
         /\ Len(Append(s, c)) = Len(s) + 1
         /\ Append(s, c)[Len(Append(s, c))] = c
         /\ \A i \in 1..Len(s) : Append(s, c)[i] = s[i]
  OBVIOUS

(* A sequence is empty exactly when its length is 0. *)
LEMMA EmptyIffZero ==
  ASSUME NEW s \in Seq(Chunk)
  PROVE  Len(s) \in Nat /\ (s = <<>> <=> Len(s) = 0)
  OBVIOUS

(* Concatenation is associative. *)
LEMMA ConcatAssoc ==
  ASSUME NEW s \in Seq(Chunk), NEW t \in Seq(Chunk), NEW u \in Seq(Chunk)
  PROVE  (s \o t) \o u = s \o (t \o u)
  OBVIOUS

(* The queue grows at its end, so the whole does. *)
LEMMA AppendThrough ==
  ASSUME wire \in Seq(Chunk), inflight \in Seq(Chunk), queue \in Seq(Chunk),
         NEW c \in Chunk
  PROVE  Append(wire \o (inflight \o queue), c)
           = wire \o (inflight \o Append(queue, c))
<1>1. \A s \in Seq(Chunk) : Append(s, c) = s \o <<c>>
  OBVIOUS
<1>2. /\ inflight \o queue \in Seq(Chunk) /\ <<c>> \in Seq(Chunk)
      /\ wire \o (inflight \o queue) \in Seq(Chunk)
  OBVIOUS
<1>3. (wire \o (inflight \o queue)) \o <<c>>
        = wire \o ((inflight \o queue) \o <<c>>)
  BY <1>2, ConcatAssoc
<1>4. (inflight \o queue) \o <<c>> = inflight \o (queue \o <<c>>)
  BY <1>2, ConcatAssoc
<1> QED
  BY <1>1, <1>2, <1>3, <1>4

(* Moving the head of the queue into an empty slot keeps the whole. *)
LEMMA TakeHead ==
  ASSUME NEW q \in Seq(Chunk), q # <<>>
  PROVE  /\ Append(<<>>, Head(q)) \in Seq(Chunk)
         /\ Len(Append(<<>>, Head(q))) = 1
         /\ Tail(q) \in Seq(Chunk)
         /\ Append(<<>>, Head(q)) \o Tail(q) = <<>> \o q
<1>1. Head(q) \in Chunk /\ Tail(q) \in Seq(Chunk)
  OBVIOUS
<1>2. Append(<<>>, Head(q)) = <<Head(q)>>
  BY <1>1
<1>3. <<Head(q)>> \o Tail(q) = q
  OBVIOUS
<1>4. <<>> \o q = q
  OBVIOUS
<1> QED
  BY <1>1, <1>2, <1>3, <1>4

(* Completing the only write moves it to the end of the wire. *)
LEMMA WriteOne ==
  ASSUME wire \in Seq(Chunk), inflight \in Seq(Chunk), queue \in Seq(Chunk),
         Len(inflight) = 1
  PROVE  /\ Tail(inflight) = <<>>
         /\ Head(inflight) \in Chunk
         /\ Append(wire, Head(inflight)) \in Seq(Chunk)
         /\ wire \o (inflight \o queue)
              = Append(wire, Head(inflight)) \o (<<>> \o queue)
<1>1. Tail(inflight) = <<>> /\ Head(inflight) \in Chunk
  <2>1. inflight # <<>>
    <3> SUFFICES ASSUME inflight = <<>> PROVE FALSE
      OBVIOUS
    <3>1. Len(<<>>) = 0
      OBVIOUS
    <3> QED
      BY <3>1
  <2>2. /\ Tail(inflight) \in Seq(Chunk) /\ Len(Tail(inflight)) = 0
        /\ Head(inflight) \in Chunk
    BY <2>1
  <2> QED
    BY <2>2, EmptyIffZero
<1>2. inflight = <<inflight[1]>> /\ Head(inflight) = inflight[1]
  OBVIOUS
<1>3. /\ Append(wire, inflight[1]) = wire \o <<inflight[1]>>
      /\ Append(wire, inflight[1]) \in Seq(Chunk)
  BY <1>1, <1>2
<1>4. (wire \o inflight) \o queue = wire \o (inflight \o queue)
  BY ConcatAssoc
<1>5. <<>> \o queue = queue
  OBVIOUS
<1> QED
  BY <1>1, <1>2, <1>3, <1>4, <1>5

(* The first part of a concatenation is a prefix of it. *)
LEMMA PrefixOfConcat ==
  ASSUME NEW w \in Seq(Chunk), NEW f \in Seq(Chunk), NEW q \in Seq(Chunk),
         NEW p, p = w \o (f \o q)
  PROVE  /\ Len(w) <= Len(p)
         /\ \A i \in 1..Len(w) : w[i] = p[i]
<1>1. f \o q \in Seq(Chunk)
  OBVIOUS
<1> QED
  BY <1>1

-----------------------------------------------------------------------------
(* The strengthened invariant holds at the start of a chunked response. *)
LEMMA InitIInv == Init => IInv
<1> SUFFICES ASSUME Init PROVE IInv
  OBVIOUS
<1>1. TypeOK
  <2>1. <<>> \in Seq(Chunk)
    OBVIOUS
  <2>2. 0 \in Nat
    OBVIOUS
  <2> QED
    BY <2>1, <2>2 DEF Init, TypeOK, PC
<1>2. <<>> \o (<<>> \o <<>>) = <<>>
  OBVIOUS
<1>3. Conservation
  BY <1>2 DEF Init, Conservation
<1>4. SingleWriter /\ InOrder /\ NoLostWakeup /\ ThreadPhase /\ Outcome
  BY DEF Init, SingleWriter, InOrder, NoLostWakeup, ThreadPhase, Outcome, PC
<1> QED
  BY <1>1, <1>3, <1>4 DEF IInv

(* The handler's thread pushes c: only WriteChunk and HandlerReturn do. *)
LEMMA PushKeeps ==
  ASSUME IInv, NEW c \in Chunk,
         queue' = Append(queue, c), pushed' = Append(pushed, c),
         UNCHANGED <<inflight, wire>>, error' = error
  PROVE  /\ queue' \in Seq(Chunk) /\ pushed' \in Seq(Chunk)
         /\ queue' # <<>>
         /\ pushed' # <<>> /\ pushed'[Len(pushed')] = c
         /\ InOrder' /\ Conservation'
<1>1. /\ queue \in Seq(Chunk) /\ pushed \in Seq(Chunk)
      /\ wire \in Seq(Chunk) /\ inflight \in Seq(Chunk)
  BY DEF IInv, TypeOK
<1>2. /\ queue' \in Seq(Chunk) /\ pushed' \in Seq(Chunk)
      /\ queue' # <<>>
      /\ pushed' # <<>> /\ pushed'[Len(pushed')] = c
      /\ Len(pushed') = Len(pushed) + 1
      /\ \A i \in 1..Len(pushed) : pushed'[i] = pushed[i]
  BY <1>1, AppendFacts
<1>3. InOrder'
  <2>1. Len(wire) <= Len(pushed) /\ \A i \in 1..Len(wire) : wire[i] = pushed[i]
    BY DEF InOrder, IInv
  <2>2. Len(wire) \in Nat /\ Len(pushed) \in Nat
    BY <1>1
  <2>3. \A i \in 1..Len(wire) : i \in 1..Len(pushed)
    BY <2>1, <2>2
  <2>4. \A i \in 1..Len(wire) : wire[i] = pushed'[i]
    BY <1>2, <2>1, <2>3
  <2>5. Len(wire) <= Len(pushed')
    BY <1>2, <2>1, <2>2
  <2>6. wire' = wire
    OBVIOUS
  <2> QED
    BY <2>4, <2>5, <2>6 DEF InOrder
<1>4. Conservation'
  <2> SUFFICES ASSUME ~error PROVE pushed' = wire \o (inflight \o queue')
    BY DEF Conservation
  <2>1. pushed = wire \o (inflight \o queue)
    BY DEF Conservation, IInv
  <2>2. Append(wire \o (inflight \o queue), c)
          = wire \o (inflight \o Append(queue, c))
    BY <1>1, AppendThrough
  <2> QED
    BY <2>1, <2>2
<1> QED
  BY <1>2, <1>3, <1>4

(* The flags do_write_chunk leaves. *)
LEMMA DoWriteChunkFlags ==
  ASSUME NEW others, DoWriteChunk(others)
  PROVE  /\ queue # <<>> => UNCHANGED <<writing, completed, guard, resumed>>
         /\ queue = <<>> /\ finalQueued /\ ~completed =>
              completed' = TRUE /\ guard' = FALSE /\ resumed' = resumed + 1
         /\ queue = <<>> /\ ~(finalQueued /\ ~completed) =>
              UNCHANGED <<completed, guard, resumed>>
         /\ queue = <<>> => writing' = FALSE
  BY DEF DoWriteChunk, Dequeued, Completes, GuardAfterReset

(* The strand runs do_write_chunk with no other write in progress and the   *)
(* wire already holding everything but the queue.                           *)
LEMMA DoWriteChunkKeeps ==
  ASSUME TypeOK, ~error, wire' \in Seq(Chunk),
         pushed = wire' \o (<<>> \o queue), pushed' = pushed,
         error' = error, DoWriteChunk(<<>>)
  PROVE  /\ queue' \in Seq(Chunk) /\ inflight' \in Seq(Chunk)
         /\ queue = <<>> => queue' = <<>> /\ inflight' = <<>>
         /\ queue # <<>> => Len(inflight') = 1
         /\ InOrder' /\ Conservation'
<1>1. queue \in Seq(Chunk) /\ pushed \in Seq(Chunk)
  BY DEF TypeOK
<1>2. CASE queue = <<>>
  <2>1. queue' = <<>> /\ inflight' = <<>>
    BY <1>2 DEF DoWriteChunk, Dequeued, Completes, GuardAfterReset
  <2>2. <<>> \in Seq(Chunk)
    OBVIOUS
  <2>3. pushed' = wire' \o (inflight' \o queue')
    BY <1>2, <2>1
  <2> QED
    BY <1>1, <1>2, <2>1, <2>2, <2>3, PrefixOfConcat DEF Conservation, InOrder
<1>3. CASE queue # <<>>
  <2>1. inflight' = Append(<<>>, Head(queue)) /\ queue' = Tail(queue)
    BY <1>3 DEF DoWriteChunk, Dequeued, Completes, GuardAfterReset
  <2>2. /\ inflight' \in Seq(Chunk) /\ Len(inflight') = 1
        /\ queue' \in Seq(Chunk)
        /\ inflight' \o queue' = <<>> \o queue
    BY <1>1, <1>3, <2>1, TakeHead
  <2>3. pushed' = wire' \o (inflight' \o queue')
    BY <2>2
  <2> QED
    BY <1>3, <2>2, <2>3, PrefixOfConcat DEF Conservation, InOrder
<1> QED
  BY <1>2, <1>3

-----------------------------------------------------------------------------
(* One lemma per action: it preserves the strengthened invariant. *)

(* on_write_header. *)
LEMMA OnWriteHeaderInv == IInv /\ OnWriteHeader => IInv'
<1> SUFFICES ASSUME IInv, OnWriteHeader PROVE IInv'
  OBVIOUS
<1> USE DEF IInv, OnWriteHeader
<1>1. TypeOK'
  BY DEF TypeOK, PC
<1>2. SingleWriter' /\ InOrder' /\ Conservation' /\ Outcome'
  BY DEF SingleWriter, InOrder, Conservation, Outcome
<1>3. ThreadPhase'
  BY DEF ThreadPhase
<1>4. NoLostWakeup'
  BY DEF NoLostWakeup, ThreadPhase, PC
<1> QED
  BY <1>1, <1>2, <1>3, <1>4

(* write_chunk. *)
LEMMA WriteChunkInv ==
  ASSUME IInv, NEW b \in Buffers \cup {Empty}, WriteChunk(b)
  PROVE  IInv'
<1>1. CASE error
  <2> USE <1>1 DEF IInv, WriteChunk, Accepts
  <2>1. TypeOK'
    BY DEF TypeOK, PC
  <2>2. SingleWriter' /\ InOrder' /\ Conservation' /\ Outcome'
    BY DEF SingleWriter, InOrder, Conservation, Outcome
  <2>3. ThreadPhase' /\ NoLostWakeup'
    BY DEF ThreadPhase, NoLostWakeup, PC
  <2> QED
    BY <2>1, <2>2, <2>3
<1>2. CASE ~error
  <2>1. Encode(b) \in Chunk
    BY DEF Encode, Chunk
  <2>2. /\ queue' \in Seq(Chunk) /\ pushed' \in Seq(Chunk) /\ queue' # <<>>
        /\ InOrder' /\ Conservation'
    BY <1>2, <2>1, PushKeeps DEF WriteChunk, Accepts
  <2> USE <1>2 DEF IInv, WriteChunk, Accepts
  <2>3. TypeOK'
    BY <2>2 DEF TypeOK, PC
  <2>4. SingleWriter'
    BY DEF SingleWriter
  <2>5. ThreadPhase' /\ NoLostWakeup'
    BY DEF ThreadPhase, NoLostWakeup, PC
  <2>6. Outcome'
    BY DEF Outcome, ThreadPhase
  <2> QED
    BY <2>2, <2>3, <2>4, <2>5, <2>6
<1> QED
  BY <1>1, <1>2

(* The end of the stream handler's thread. *)
LEMMA HandlerReturnInv == IInv /\ HandlerReturn => IInv'
<1> SUFFICES ASSUME IInv, HandlerReturn PROVE IInv'
  OBVIOUS
<1>1. Final \in Chunk
  BY DEF Chunk
<1>2. /\ queue' \in Seq(Chunk) /\ pushed' \in Seq(Chunk) /\ queue' # <<>>
      /\ pushed' # <<>> /\ pushed'[Len(pushed')] = Final
      /\ InOrder' /\ Conservation'
  BY <1>1, PushKeeps DEF HandlerReturn
<1> USE DEF IInv, HandlerReturn
<1>3. TypeOK'
  BY <1>2 DEF TypeOK, PC
<1>4. SingleWriter'
  BY DEF SingleWriter
<1>5. ThreadPhase' /\ NoLostWakeup'
  BY <1>2 DEF ThreadPhase, NoLostWakeup, PC
<1>6. Outcome'
  BY DEF Outcome, ThreadPhase
<1> QED
  BY <1>2, <1>3, <1>4, <1>5, <1>6

(* schedule_write's critical section. *)
LEMMA ScheduleWriteInv == IInv /\ ScheduleWrite => IInv'
<1> SUFFICES ASSUME IInv, ScheduleWrite PROVE IInv'
  OBVIOUS
<1> USE DEF IInv, ScheduleWrite, WriterFree, AfterSchedule
<1>1. TypeOK'
  BY DEF TypeOK, PC
<1>2. SingleWriter'
  <2>1. posted \in Nat /\ Len(inflight) \in Nat
    BY EmptyIffZero DEF TypeOK
  <2>2. CASE writing
    <3>1. writing' = TRUE /\ pc' # "post" /\ pc # "post"
      BY <2>2
    <3> QED
      BY <2>1, <2>2, <3>1 DEF SingleWriter
  <2>3. CASE ~writing
    <3>1. writing' = TRUE /\ pc' = "post" /\ pc # "post"
      BY <2>3
    <3>2. posted = 0 /\ Len(inflight) = 0
      BY <2>1, <2>3 DEF SingleWriter
    <3> QED
      BY <3>1, <3>2 DEF SingleWriter
  <2> QED
    BY <2>2, <2>3
<1>3. InOrder' /\ Conservation' /\ Outcome'
  BY DEF InOrder, Conservation, Outcome
<1>4. ThreadPhase' /\ NoLostWakeup'
  BY DEF ThreadPhase, NoLostWakeup, PC
<1> QED
  BY <1>1, <1>2, <1>3, <1>4

(* schedule_write's post. *)
LEMMA PostWriteInv == IInv /\ PostWrite => IInv'
<1> SUFFICES ASSUME IInv, PostWrite PROVE IInv'
  OBVIOUS
<1> USE DEF IInv, PostWrite, AfterSchedule, state
<1>1. TypeOK'
  BY DEF TypeOK, PC
<1>2. SingleWriter'
  BY DEF SingleWriter, TypeOK
<1>3. InOrder' /\ Conservation' /\ Outcome'
  BY DEF InOrder, Conservation, Outcome
<1>4. ThreadPhase' /\ NoLostWakeup'
  BY DEF ThreadPhase, NoLostWakeup, PC, SingleWriter
<1> QED
  BY <1>1, <1>2, <1>3, <1>4

(* The peer disconnects. *)
LEMMA PeerDisconnectInv == IInv /\ PeerDisconnect => IInv'
<1> SUFFICES ASSUME IInv, PeerDisconnect PROVE IInv'
  OBVIOUS
<1> USE DEF IInv, PeerDisconnect, state
<1>1. TypeOK'
  BY DEF TypeOK
<1>2. SingleWriter' /\ InOrder' /\ Conservation' /\ Outcome'
  BY DEF SingleWriter, InOrder, Conservation, Outcome
<1>3. ThreadPhase' /\ NoLostWakeup'
  BY DEF ThreadPhase, NoLostWakeup
<1> QED
  BY <1>1, <1>2, <1>3

(* A write in progress is the only claim to the writer role. *)
LEMMA OnlyWrite ==
  TypeOK /\ SingleWriter /\ inflight # <<>> =>
    Len(inflight) = 1 /\ posted = 0 /\ pc # "post" /\ writing
<1>1. TypeOK /\ inflight # <<>> =>
        posted \in Nat /\ Len(inflight) \in Nat /\ Len(inflight) # 0
  BY EmptyIffZero DEF TypeOK
<1>2. ASSUME SingleWriter, posted \in Nat, Len(inflight) \in Nat,
             Len(inflight) # 0
      PROVE  Len(inflight) = 1 /\ posted = 0 /\ pc # "post" /\ writing
  BY <1>2 DEF SingleWriter
<1> QED
  BY <1>1, <1>2

(* So is a posted do_write_chunk. *)
LEMMA OnlyPosted ==
  ASSUME TypeOK, SingleWriter, posted > 0
  PROVE  posted = 1 /\ inflight = <<>> /\ pc # "post" /\ writing
<1>1. posted \in Nat /\ Len(inflight) \in Nat
  BY EmptyIffZero DEF TypeOK
<1>2. posted = 1 /\ Len(inflight) = 0 /\ pc # "post" /\ writing
  BY <1>1 DEF SingleWriter
<1> QED
  BY <1>2, EmptyIffZero DEF TypeOK

(* A posted do_write_chunk runs.  SingleWriter makes it the only claim, so  *)
(* no write is in progress; after a failure it may still start one.         *)
LEMMA RunPostedInv == IInv /\ RunPosted => IInv'
<1> SUFFICES ASSUME IInv, RunPosted PROVE IInv'
  OBVIOUS
<1>1. TypeOK /\ SingleWriter
  BY DEF IInv
<1>2. posted = 1 /\ pc # "post" /\ writing
  BY <1>1, OnlyPosted DEF RunPosted
<1>3. inflight = <<>>
  BY <1>1, OnlyPosted DEF RunPosted
<1>4. DoWriteChunk(<<>>)
  BY <1>3 DEF RunPosted
<1>5. queue' \in Seq(Chunk) /\ inflight' \in Seq(Chunk)
      /\ (queue = <<>> => queue' = <<>> /\ inflight' = <<>>)
      /\ (queue # <<>> => Len(inflight') = 1)
      /\ InOrder' /\ Conservation'
  <2>1. CASE ~error
    <3>1. pushed = wire \o (<<>> \o queue)
      BY <1>3, <2>1 DEF IInv, Conservation
    <3> QED
      BY <1>1, <1>4, <2>1, <3>1, DoWriteChunkKeeps DEF RunPosted, TypeOK
  <2>2. CASE error
    <3>1. InOrder' /\ Conservation'
      BY <2>2 DEF RunPosted, IInv, InOrder, Conservation
    <3>2. CASE queue = <<>>
      BY <1>1, <1>4, <3>1, <3>2
      DEF DoWriteChunk, Dequeued, Completes, GuardAfterReset, TypeOK
    <3>3. CASE queue # <<>>
      BY <1>1, <1>4, <3>1, <3>3, TakeHead
      DEF DoWriteChunk, Dequeued, Completes, GuardAfterReset, TypeOK
    <3> QED
      BY <3>2, <3>3
  <2> QED
    BY <1>1, <2>1, <2>2 DEF TypeOK
<1>6. Len(<<>>) = 0
  OBVIOUS
<1>7. /\ queue # <<>> => UNCHANGED <<writing, completed, guard, resumed>>
      /\ queue = <<>> => writing' = FALSE
      /\ queue = <<>> /\ finalQueued /\ ~completed =>
           completed' = TRUE /\ guard' = FALSE /\ resumed' = resumed + 1
      /\ queue = <<>> /\ ~(finalQueued /\ ~completed) =>
           UNCHANGED <<completed, guard, resumed>>
  BY <1>4, DoWriteChunkFlags
<1>8. /\ posted' = posted - 1
      /\ UNCHANGED <<finalQueued, error, pc, writes, broken, wire, pushed,
                     failures>>
  BY DEF RunPosted
<1>9. TypeOK'
  <2>1. posted' \in Nat /\ failures' \in Nat
    BY <1>1, <1>2, <1>8 DEF TypeOK
  <2>3. resumed' \in Nat
    BY <1>1, <1>7 DEF TypeOK
  <2>2. writing' \in BOOLEAN /\ completed' \in BOOLEAN /\ guard' \in BOOLEAN
    BY <1>1, <1>7, Zenon DEF TypeOK
  <2> QED
    BY <1>1, <1>5, <1>8, <2>1, <2>2, <2>3 DEF TypeOK
<1>10. SingleWriter'
  <2>1. posted' = 0 /\ pc' # "post"
    BY <1>2, <1>8
  <2>2. CASE queue = <<>>
    <3>1. Len(inflight') = 0 /\ ~writing'
      BY <1>5, <1>6, <1>7, <2>2
    <3> QED
      BY <2>1, <3>1 DEF SingleWriter
  <2>3. CASE queue # <<>>
    <3>1. Len(inflight') = 1 /\ writing'
      BY <1>2, <1>5, <1>7, <2>3
    <3> QED
      BY <2>1, <3>1 DEF SingleWriter
  <2> QED
    BY <2>2, <2>3
<1>11. ThreadPhase'
  BY <1>2, <1>8 DEF IInv, ThreadPhase
<1>12. Outcome'
  BY <1>1, <1>3, <1>5, <1>7, <1>8 DEF IInv, Outcome, TypeOK
<1>13. NoLostWakeup'
  <2>1. CASE queue = <<>>
    <3>1. queue' = <<>>
      BY <1>5, <2>1
    <3>2. CASE finalQueued /\ ~completed
      <4>1. completed' = TRUE
        BY <1>7, <2>1, <3>2
      <4> QED
        BY <3>1, <4>1 DEF NoLostWakeup
    <3>3. CASE ~(finalQueued /\ ~completed)
      <4>1. completed' = completed /\ guard' = guard
        BY <1>7, <2>1, <3>3
      <4> QED
        BY <1>8, <3>1, <3>3, <4>1 DEF IInv, NoLostWakeup
    <3> QED
      BY <3>2, <3>3
  <2>2. CASE queue # <<>>
    <3>1. writing' = TRUE /\ completed' = completed /\ guard' = guard
      BY <1>1, <1>2, <1>7, <2>2 DEF TypeOK
    <3> QED
      BY <1>8, <3>1 DEF IInv, NoLostWakeup
  <2> QED
    BY <2>1, <2>2
<1> QED
  BY <1>5, <1>9, <1>10, <1>11, <1>12, <1>13 DEF IInv

(* A write completes and do_write_chunk goes on.  It was the only claim. *)
LEMMA WriteDoneInv == IInv /\ WriteDone => IInv'
<1> SUFFICES ASSUME IInv, WriteDone PROVE IInv'
  OBVIOUS
<1>1. TypeOK /\ SingleWriter
  BY DEF IInv
<1>2. Len(inflight) = 1 /\ posted = 0 /\ pc # "post" /\ writing
  BY <1>1, OnlyWrite DEF WriteDone
<1>3. ~error
  BY DEF IInv, Outcome, WriteDone
<1>4. /\ Tail(inflight) = <<>>
      /\ wire' \in Seq(Chunk)
      /\ pushed = wire' \o (<<>> \o queue)
  <2>1. pushed = wire \o (inflight \o queue)
    BY <1>3 DEF IInv, Conservation
  <2>2. /\ wire \in Seq(Chunk) /\ inflight \in Seq(Chunk)
        /\ queue \in Seq(Chunk)
    BY <1>1 DEF TypeOK
  <2>3. /\ Tail(inflight) = <<>>
        /\ Append(wire, Head(inflight)) \in Seq(Chunk)
        /\ wire \o (inflight \o queue)
             = Append(wire, Head(inflight)) \o (<<>> \o queue)
    BY <1>2, <2>2, WriteOne
  <2>4. wire' = Append(wire, Head(inflight))
    BY DEF WriteDone
  <2> QED
    BY <2>1, <2>3, <2>4
<1>5. DoWriteChunk(<<>>)
  BY <1>4 DEF WriteDone
<1>6. queue' \in Seq(Chunk) /\ inflight' \in Seq(Chunk)
      /\ (queue = <<>> => queue' = <<>> /\ inflight' = <<>>)
      /\ (queue # <<>> => Len(inflight') = 1)
      /\ InOrder' /\ Conservation'
  BY <1>1, <1>3, <1>4, <1>5, DoWriteChunkKeeps DEF WriteDone
<1>7. Len(<<>>) = 0
  OBVIOUS
<1>8. /\ queue # <<>> => UNCHANGED <<writing, completed, guard, resumed>>
      /\ queue = <<>> => writing' = FALSE
      /\ queue = <<>> /\ finalQueued /\ ~completed =>
           completed' = TRUE /\ guard' = FALSE /\ resumed' = resumed + 1
      /\ queue = <<>> /\ ~(finalQueued /\ ~completed) =>
           UNCHANGED <<completed, guard, resumed>>
  BY <1>5, DoWriteChunkFlags
<1>9. UNCHANGED <<finalQueued, error, pc, writes, posted, broken, pushed,
                  failures>>
  BY DEF WriteDone
<1>10. TypeOK'
  <2>1. resumed' \in Nat
    BY <1>1, <1>8 DEF TypeOK
  <2>2. writing' \in BOOLEAN /\ completed' \in BOOLEAN /\ guard' \in BOOLEAN
    BY <1>1, <1>8, Zenon DEF TypeOK
  <2> QED
    BY <1>1, <1>4, <1>6, <1>9, <2>1, <2>2 DEF TypeOK
<1>11. SingleWriter'
  <2>1. posted' = 0 /\ pc' # "post"
    BY <1>2, <1>9
  <2>2. CASE queue = <<>>
    <3>1. Len(inflight') = 0 /\ ~writing'
      BY <1>6, <1>7, <1>8, <2>2
    <3> QED
      BY <2>1, <3>1 DEF SingleWriter
  <2>3. CASE queue # <<>>
    <3>1. Len(inflight') = 1 /\ writing'
      BY <1>2, <1>6, <1>8, <2>3
    <3> QED
      BY <2>1, <3>1 DEF SingleWriter
  <2> QED
    BY <2>2, <2>3
<1>12. pc \notin {"header", "aborted"}
  BY <1>2 DEF IInv, ThreadPhase
<1>13. ThreadPhase'
  BY <1>9, <1>12 DEF IInv, ThreadPhase
<1>14. ~completed
  BY <1>2, <1>3, <1>7 DEF IInv, Outcome
<1>15. Outcome'
  BY <1>1, <1>3, <1>6, <1>8, <1>9, <1>14 DEF IInv, Outcome, TypeOK
<1>16. NoLostWakeup'
  <2>1. CASE queue = <<>>
    <3>1. queue' = <<>>
      BY <1>6, <2>1
    <3>2. CASE finalQueued /\ ~completed
      <4>1. completed' = TRUE
        BY <1>8, <2>1, <3>2
      <4> QED
        BY <3>1, <4>1 DEF NoLostWakeup
    <3>3. CASE ~(finalQueued /\ ~completed)
      <4>1. completed' = completed /\ guard' = guard
        BY <1>8, <2>1, <3>3
      <4> QED
        BY <1>9, <3>1, <3>3, <4>1 DEF IInv, NoLostWakeup
    <3> QED
      BY <3>2, <3>3
  <2>2. CASE queue # <<>>
    <3>1. writing' = TRUE /\ completed' = completed /\ guard' = guard
      BY <1>1, <1>2, <1>8, <2>2 DEF TypeOK
    <3> QED
      BY <1>9, <3>1 DEF IInv, NoLostWakeup
  <2> QED
    BY <2>1, <2>2
<1> QED
  BY <1>6, <1>10, <1>11, <1>13, <1>15, <1>16 DEF IInv

(* A write fails. *)
LEMMA WriteErrorInv == IInv /\ WriteError => IInv'
<1> SUFFICES ASSUME IInv, WriteError PROVE IInv'
  OBVIOUS
<1>1. TypeOK /\ SingleWriter
  BY DEF IInv
<1>2. Len(inflight) = 1 /\ posted = 0 /\ pc # "post" /\ writing
  BY <1>1, OnlyWrite DEF WriteError
<1>3. inflight' = <<>>
  <2>1. /\ wire \in Seq(Chunk) /\ inflight \in Seq(Chunk)
        /\ queue \in Seq(Chunk)
    BY <1>1 DEF TypeOK
  <2>2. Tail(inflight) = <<>>
    BY <1>2, <2>1, WriteOne
  <2> QED
    BY <2>2 DEF WriteError
<1>4. Len(<<>>) = 0 /\ <<>> \in Seq(Chunk)
  OBVIOUS
<1>5. /\ error' = TRUE /\ writing' = FALSE /\ completed' = TRUE
      /\ guard' = FALSE /\ failures' = failures + 1
      /\ broken
      /\ UNCHANGED <<queue, finalQueued, pc, writes, posted, broken, wire,
                     pushed, resumed>>
  BY DEF WriteError, GuardAfterReset
<1>6. TypeOK'
  <2>1. failures' \in Nat
    BY <1>1, <1>5 DEF TypeOK
  <2> QED
    BY <1>1, <1>3, <1>4, <1>5, <2>1, Zenon DEF TypeOK
<1>7. SingleWriter'
  BY <1>2, <1>3, <1>4, <1>5 DEF SingleWriter
<1>8. InOrder' /\ Conservation'
  BY <1>5 DEF IInv, InOrder, Conservation
<1>9. pc \notin {"header", "aborted"}
  BY <1>2 DEF IInv, ThreadPhase
<1>10. ThreadPhase' /\ NoLostWakeup'
  BY <1>5, <1>9 DEF IInv, ThreadPhase, NoLostWakeup
<1>11. Outcome'
  <2>1. inflight # <<>>
    BY DEF WriteError
  <2>2. resumed = 0
    <3>1. CASE error
      BY <3>1 DEF IInv, Outcome
    <3>2. CASE ~error
      BY <2>1, <3>2 DEF IInv, Outcome
    <3> QED
      BY <3>1, <3>2
  <2>3. failures' > 0
    BY <1>1, <1>5 DEF TypeOK
  <2> QED
    BY <1>5, <2>2, <2>3 DEF Outcome
<1> QED
  BY <1>6, <1>7, <1>8, <1>10, <1>11 DEF IInv

-----------------------------------------------------------------------------
(* Every step of the response preserves the strengthened invariant. *)
LEMMA NextIInv == IInv /\ [Next]_vars => IInv'
<1> SUFFICES ASSUME IInv, [Next]_vars PROVE IInv'
  OBVIOUS
<1>1. CASE \E b \in Buffers \cup {Empty} : WriteChunk(b)
  BY <1>1, WriteChunkInv
<1>2. CASE HandlerReturn
  BY <1>2, HandlerReturnInv
<1>3. CASE ScheduleWrite
  BY <1>3, ScheduleWriteInv
<1>4. CASE PostWrite
  BY <1>4, PostWriteInv
<1>5. CASE OnWriteHeader
  BY <1>5, OnWriteHeaderInv
<1>6. CASE RunPosted
  BY <1>6, RunPostedInv
<1>7. CASE WriteDone
  BY <1>7, WriteDoneInv
<1>8. CASE WriteError
  BY <1>8, WriteErrorInv
<1>9. CASE PeerDisconnect
  BY <1>9, PeerDisconnectInv
<1>10. CASE UNCHANGED vars
  BY <1>10 DEF vars, state, IInv, TypeOK, SingleWriter, InOrder, NoLostWakeup,
               Conservation, ThreadPhase, Outcome
<1> QED
  BY <1>1, <1>2, <1>3, <1>4, <1>5, <1>6, <1>7, <1>8, <1>9, <1>10
     DEF Next, Producer, Strand, Terminated

(* The strengthened invariant holds throughout every chunked response. *)
THEOREM Invariance == Spec => []IInv
<1> QED
  BY InitIInv, NextIInv, PTL DEF Spec

(* A response that resumed wrote everything: the last part of IInv. *)
LEMMA IInvResumeOnce == IInv => ResumeOnce
<1> SUFFICES ASSUME IInv PROVE ResumeOnce
  OBVIOUS
<1>1. resumed \in Nat /\ wire \in Seq(Chunk)
  BY DEF IInv, TypeOK
<1>2. CASE ~completed \/ error
  BY <1>2 DEF IInv, Outcome, ResumeOnce
<1>3. CASE completed /\ ~error
  <2>1. finalQueued /\ queue = <<>> /\ inflight = <<>> /\ resumed = 1
    BY <1>3 DEF IInv, Outcome
  <2>2. pushed = wire \o (<<>> \o <<>>)
    BY <1>3, <2>1 DEF IInv, Conservation
  <2>3. wire \o (<<>> \o <<>>) = wire
    BY <1>1
  <2>4. ~(failures > 0) /\ failures \in Nat
    BY <1>3 DEF IInv, Outcome, TypeOK
  <2>5. pushed[Len(pushed)] = Final
    BY <2>1 DEF IInv, ThreadPhase
  <2> QED
    BY <2>1, <2>2, <2>3, <2>4, <2>5 DEF ResumeOnce
<1> QED
  BY <1>2, <1>3

(* Type correctness of the response's state. *)
THEOREM TypeCorrect == Spec => []TypeOK
<1>1. IInv => TypeOK
  BY DEF IInv
<1> QED
  BY <1>1, Invariance, PTL

(* The strand never has two chunk writes in progress. *)
THEOREM OneWriteAtATime == Spec => []SingleWriter
<1>1. IInv => SingleWriter
  BY DEF IInv
<1> QED
  BY <1>1, Invariance, PTL

(* Chunks reach the connection in the handler's order. *)
THEOREM OrderedDelivery == Spec => []InOrder
<1>1. IInv => InOrder
  BY DEF IInv
<1> QED
  BY <1>1, Invariance, PTL

(* No push is left without a do_write_chunk on its way. *)
THEOREM NothingStranded == Spec => []NoLostWakeup
<1>1. IInv => NoLostWakeup
  BY DEF IInv
<1> QED
  BY <1>1, Invariance, PTL

(* The session goes on once, after the complete body. *)
THEOREM ResumesOnceComplete == Spec => []ResumeOnce
<1> QED
  BY IInvResumeOnce, Invariance, PTL

(* The writer role passes between the handler's thread and the strand       *)
(* safely, for any set of buffers and any number of writes: the five        *)
(* properties above, together.                                              *)
THEOREM WriterCorrect == Spec => []WriterSound
<1>1. TypeOK /\ SingleWriter /\ InOrder /\ NoLostWakeup /\ ResumeOnce
        => WriterSound
  BY DEF WriterSound
<1> QED
  BY <1>1, TypeCorrect, OneWriteAtATime, OrderedDelivery, NothingStranded,
     ResumesOnceComplete, PTL

-----------------------------------------------------------------------------
(* What holds once the session resumed. *)
LEMMA AfterResume ==
  ASSUME IInv, resumed > 0
  PROVE  /\ completed /\ ~error /\ finalQueued
         /\ queue = <<>> /\ inflight = <<>>
         /\ pc \notin {"header", "handler"}
<1>1. completed /\ ~error
  BY DEF IInv, Outcome
<1> QED
  BY <1>1 DEF IInv, Outcome, ThreadPhase

(* A late do_write_chunk does nothing once the session resumed. *)
THEOREM QuietOnceResumed == Spec => QuietAfterResume
<1> DEFINE Quiet ==
      resumed > 0 => UNCHANGED <<wire, inflight, resumed, failures>>
<1>1. IInv /\ [Next]_vars => [Quiet]_vars
  <2> SUFFICES ASSUME IInv, Next, resumed > 0
               PROVE  UNCHANGED <<wire, inflight, resumed, failures>>
    OBVIOUS
  <2>1. /\ completed /\ ~error /\ finalQueued
        /\ queue = <<>> /\ inflight = <<>>
        /\ pc \notin {"header", "handler"}
    BY AfterResume
  <2>2. CASE RunPosted
    <3>1. DoWriteChunk(<<>>)
      BY <2>1, <2>2 DEF RunPosted
    <3>2. inflight' = <<>> /\ resumed' = resumed
      BY <2>1, <3>1 DEF DoWriteChunk, Dequeued, Completes, GuardAfterReset
    <3> QED
      BY <2>1, <2>2, <3>2 DEF RunPosted
  <2>3. ~WriteDone /\ ~WriteError
    BY <2>1 DEF WriteDone, WriteError
  <2>4. ~OnWriteHeader /\ ~HandlerReturn
        /\ \A b \in Buffers \cup {Empty} : ~WriteChunk(b)
    BY <2>1 DEF OnWriteHeader, HandlerReturn, WriteChunk
  <2>5. CASE ScheduleWrite \/ PostWrite \/ PeerDisconnect \/ Terminated
    BY <2>5 DEF ScheduleWrite, PostWrite, PeerDisconnect, Terminated, vars
  <2> QED
    BY <2>2, <2>3, <2>4, <2>5 DEF Next, Producer, Strand
<1> QED
  BY <1>1, Invariance, PTL DEF Spec, QuietAfterResume

-----------------------------------------------------------------------------
(* Refinement: what a completed write adds is the next accepted chunk. *)
LEMMA NextInOrder ==
  ASSUME TypeOK, Conservation, ~error, Len(inflight) = 1
  PROVE  /\ Len(wire) < Len(pushed)
         /\ pushed[Len(wire) + 1] = Head(inflight)
         /\ Len(wire) + 1 = Len(pushed) <=> queue = <<>>
<1> DEFINE a == Append(wire, Head(inflight))
<1>1. /\ wire \in Seq(Chunk) /\ inflight \in Seq(Chunk)
      /\ queue \in Seq(Chunk) /\ pushed = wire \o (inflight \o queue)
  BY DEF TypeOK, Conservation
<1>2. /\ Head(inflight) \in Chunk /\ a \in Seq(Chunk)
      /\ pushed = a \o (<<>> \o queue)
  BY <1>1, WriteOne
<1>3. /\ Len(a) = Len(wire) + 1 /\ a[Len(wire) + 1] = Head(inflight)
      /\ Len(wire) \in Nat
  BY <1>1, <1>2, AppendFacts, EmptyIffZero
<1> HIDE DEF a
<1>4. <<>> \o queue = queue /\ <<>> \in Seq(Chunk)
  BY <1>1
<1>5. Len(pushed) = Len(a) + Len(queue)
  BY <1>1, <1>2, <1>4
<1>6. \A i \in 1..Len(a) : a[i] = pushed[i]
  BY <1>1, <1>2, <1>4, PrefixOfConcat
<1>7. Len(queue) \in Nat /\ (queue = <<>> <=> Len(queue) = 0)
  BY <1>1, EmptyIffZero
<1>8. pushed[Len(wire) + 1] = Head(inflight)
  BY <1>3, <1>6
<1> QED
  BY <1>3, <1>5, <1>7, <1>8

(* The handler's thread: accepts a chunk, ends the stream, or is invisible. *)
LEMMA ProducerRefines ==
  ASSUME IInv, Producer
  PROVE  [Stream!Next]_(Stream!svars)
<1> USE DEF Stream!Next, Stream!svars, Status
<1>1. ASSUME NEW b \in Buffers \cup {Empty}, WriteChunk(b)
      PROVE  [Stream!Next]_(Stream!svars)
  <2>1. CASE error
    BY <1>1, <2>1 DEF WriteChunk, Accepts
  <2>2. CASE ~error
    <3>1. ~finalQueued /\ ~completed /\ pc = "handler"
      BY <1>1, <2>2 DEF WriteChunk, IInv, ThreadPhase, Outcome
    <3>2. Encode(b) \in Buffers \cup {Final}
      BY DEF Encode
    <3>3. Stream!Accept
      BY <1>1, <2>2, <3>1, <3>2 DEF WriteChunk, Accepts, Stream!Accept
    <3> QED
      BY <3>3
  <2> QED
    BY <2>1, <2>2
<1>2. ASSUME HandlerReturn
      PROVE  [Stream!Next]_(Stream!svars)
  <2>1. ~finalQueued /\ (completed => error) /\ pc = "handler"
    BY <1>2 DEF HandlerReturn, IInv, ThreadPhase, Outcome
  <2>2. Stream!End
    BY <1>2, <2>1 DEF HandlerReturn, Stream!End
  <2> QED
    BY <2>2
<1>3. ASSUME ScheduleWrite \/ PostWrite
      PROVE  [Stream!Next]_(Stream!svars)
  BY <1>3 DEF ScheduleWrite, PostWrite, WriterFree, AfterSchedule, state
<1> QED
  BY <1>1, <1>2, <1>3 DEF Producer

(* The strand: delivers, finishes or fails the stream, or is invisible. *)
LEMMA StrandRefines ==
  ASSUME IInv, Strand
  PROVE  [Stream!Next]_(Stream!svars)
<1> USE DEF Stream!Next, Stream!svars, Status
<1>1. ASSUME OnWriteHeader
      PROVE  [Stream!Next]_(Stream!svars)
  <2>1. ~completed /\ ~error /\ pc = "header"
    BY <1>1 DEF OnWriteHeader, IInv, ThreadPhase
  <2>2. CASE pc' = "handler"
    BY <1>1, <2>1, <2>2 DEF OnWriteHeader
  <2>3. CASE pc' = "aborted"
    <3>1. Stream!Fail
      BY <1>1, <2>1, <2>3 DEF OnWriteHeader, Stream!Fail
    <3> QED
      BY <3>1
  <2> QED
    BY <1>1, <2>2, <2>3 DEF OnWriteHeader
<1>2. ASSUME RunPosted
      PROVE  [Stream!Next]_(Stream!svars)
  <2>1. UNCHANGED <<finalQueued, error, pc, wire, pushed>>
    BY <1>2 DEF RunPosted
  <2>2. CASE UNCHANGED completed
    BY <2>1, <2>2
  <2>3. CASE completed' # completed
    <3>1. DoWriteChunk(inflight)
      BY <1>2 DEF RunPosted
    <3>2. queue = <<>> /\ finalQueued /\ ~completed /\ completed' = TRUE
      BY <2>3, <3>1, DoWriteChunkFlags
    <3>3. ~error
      BY <3>2 DEF IInv, Outcome
    <3>4. writing /\ inflight = <<>>
      BY <1>2, OnlyPosted DEF IInv, RunPosted
    <3>5. pc \notin {"header", "aborted"}
      BY <3>4 DEF IInv, ThreadPhase
    <3>6. pushed = wire \o (<<>> \o <<>>)
      BY <3>2, <3>3, <3>4 DEF IInv, Conservation
    <3>7. wire \o (<<>> \o <<>>) = wire
      BY DEF IInv, TypeOK
    <3>8. Stream!Finish
      BY <2>1, <3>2, <3>3, <3>5, <3>6, <3>7 DEF Stream!Finish
    <3> QED
      BY <3>8
  <2> QED
    BY <2>2, <2>3
<1>3. ASSUME WriteDone
      PROVE  [Stream!Next]_(Stream!svars)
  <2>1. /\ UNCHANGED <<finalQueued, error, pc, pushed>>
        /\ wire' = Append(wire, Head(inflight))
        /\ inflight # <<>> /\ ~broken
        /\ DoWriteChunk(Tail(inflight))
    BY <1>3 DEF WriteDone
  <2>2. ~error /\ ~completed
    BY <2>1 DEF IInv, Outcome
  <2>3. Len(inflight) = 1 /\ writing
    BY <2>1, OnlyWrite DEF IInv
  <2>4. pc \notin {"header", "aborted"}
    BY <2>3 DEF IInv, ThreadPhase
  <2>5. /\ Len(wire) < Len(pushed)
        /\ pushed[Len(wire) + 1] = Head(inflight)
        /\ Len(wire) + 1 = Len(pushed) <=> queue = <<>>
    BY <2>2, <2>3, NextInOrder DEF IInv
  <2>6. CASE completed' = completed
    <3>1. Status = "open" /\ Status' = "open"
      BY <2>1, <2>2, <2>4, <2>6
    <3>2. Stream!Deliver
      BY <2>1, <2>5, <3>1 DEF Stream!Deliver
    <3> QED
      BY <3>2
  <2>7. CASE completed' # completed
    <3>1. queue = <<>> /\ finalQueued /\ completed' = TRUE
      BY <2>1, <2>7, DoWriteChunkFlags
    <3>2. Status = "open" /\ Status' = "done"
      BY <2>1, <2>2, <2>4, <3>1
    <3>3. Stream!Deliver
      BY <2>1, <2>5, <3>1, <3>2 DEF Stream!Deliver
    <3> QED
      BY <3>3
  <2> QED
    BY <2>6, <2>7
<1>4. ASSUME WriteError
      PROVE  [Stream!Next]_(Stream!svars)
  <2>1. /\ error' = TRUE /\ inflight # <<>>
        /\ UNCHANGED <<finalQueued, pc, wire, pushed>>
    BY <1>4 DEF WriteError
  <2>2. CASE error \/ pc = "aborted"
    BY <2>1, <2>2
  <2>3. CASE ~error /\ pc # "aborted"
    <3>1. ~completed
      BY <2>1, <2>3 DEF IInv, Outcome
    <3>2. Stream!Fail
      BY <2>1, <2>3, <3>1 DEF Stream!Fail
    <3> QED
      BY <3>2
  <2> QED
    BY <2>2, <2>3
<1> QED
  BY <1>1, <1>2, <1>3, <1>4 DEF Strand

(* A chunked response implements the ordered stream that ends once. *)
THEOREM Refinement == Spec => ImplementsStream
<1>1. Init => Stream!Init
  BY DEF Init, Stream!Init, Status
<1>2. IInv /\ [Next]_vars => [Stream!Next]_(Stream!svars)
  <2> SUFFICES ASSUME IInv, [Next]_vars
               PROVE  [Stream!Next]_(Stream!svars)
    OBVIOUS
  <2>1. CASE Producer
    BY <2>1, ProducerRefines
  <2>2. CASE Strand
    BY <2>2, StrandRefines
  <2>3. CASE PeerDisconnect \/ UNCHANGED vars
    BY <2>3 DEF PeerDisconnect, vars, state, Stream!svars, Status
  <2> QED
    BY <2>1, <2>2, <2>3 DEF Next, Terminated
<1> QED
  BY <1>1, <1>2, Invariance, PTL DEF Spec, ImplementsStream, Stream!Spec
=============================================================================
