----------------------- MODULE WebsocketSessionProofs -----------------------
(***************************************************************************)
(* Proofs about WebsocketSession, for every set of frames and of threads    *)
(* and every number of sends, and about the WebsocketRouter that it         *)
(* dispatches its events to, for any routes, paths and threads.             *)
(***************************************************************************)
EXTENDS WebsocketSession, FiniteSetTheorems, WellFoundedInduction, TLAPS

-----------------------------------------------------------------------------
(* Sequence facts the steps below use. *)

(* Sequences of frames are sequences of operations. *)
LEMMA FramesAreOps ==
  ASSUME NEW s \in Seq(Frames)
  PROVE  s \in Seq(Ops)
<1>1. Frames \subseteq Ops
  BY DEF Ops
<1> QED
  BY <1>1

(* A sequence is empty exactly when its length is 0. *)
LEMMA EmptyIffZero ==
  ASSUME NEW s \in Seq(Ops)
  PROVE  Len(s) \in Nat /\ (s = <<>> <=> Len(s) = 0)
  OBVIOUS

(* What Append does. *)
LEMMA AppendFacts ==
  ASSUME NEW s \in Seq(Ops), NEW c \in Ops
  PROVE  /\ Append(s, c) \in Seq(Ops)
         /\ Append(s, c) # <<>>
         /\ Len(Append(s, c)) = Len(s) + 1
         /\ Append(s, c)[Len(s) + 1] = c
         /\ \A i \in 1..Len(s) : Append(s, c)[i] = s[i]
         /\ Append(s, c) = s \o <<c>>
         /\ <<c>> \in Seq(Ops)
  OBVIOUS

(* The only positive number up to 1. *)
LEMMA OneOnly ==
  ASSUME NEW n \in Nat, n # 0, n <= 1
  PROVE  n = 1
  OBVIOUS

(* A sequence of at most one element that is not empty. *)
LEMMA Single ==
  ASSUME NEW s \in Seq(Ops), s # <<>>, Len(s) <= 1
  PROVE  s = <<s[1]>> /\ Head(s) = s[1] /\ Tail(s) = <<>> /\ s[1] \in Ops
<1>1. Len(s) \in Nat /\ Len(s) # 0
  BY EmptyIffZero
<1>2. Len(s) = 1
  BY <1>1, OneOnly
<1>3. Tail(s) \in Seq(Ops) /\ Len(Tail(s)) = 0
  BY <1>2
<1>4. Tail(s) = <<>>
  BY <1>3, EmptyIffZero
<1>5. s = <<s[1]>> /\ Head(s) = s[1] /\ s[1] \in Ops
  BY <1>2
<1> QED
  BY <1>4, <1>5

(* Concatenation is associative. *)
LEMMA ConcatAssoc ==
  ASSUME NEW s \in Seq(Ops), NEW t \in Seq(Ops), NEW u \in Seq(Ops)
  PROVE  /\ s \o t \in Seq(Ops) /\ t \o u \in Seq(Ops)
         /\ (s \o t) \o u = s \o (t \o u)
  OBVIOUS

(* The empty sequence is neutral. *)
LEMMA EmptyFront ==
  ASSUME NEW s \in Seq(Ops)
  PROVE  <<>> \o s = s /\ <<>> \in Seq(Ops)
  OBVIOUS

(* A non-empty sequence is its head before its tail. *)
LEMMA HeadTail ==
  ASSUME NEW s \in Seq(Ops), s # <<>>
  PROVE  /\ Head(s) \in Ops /\ Tail(s) \in Seq(Ops)
         /\ <<Head(s)>> \in Seq(Ops)
         /\ s = <<Head(s)>> \o Tail(s)
  OBVIOUS

(* Appending to the end of a part appends to the whole. *)
LEMMA AppendConcat ==
  ASSUME NEW s \in Seq(Ops), NEW t \in Seq(Ops), NEW c \in Ops
  PROVE  /\ Append(s \o t, c) = s \o Append(t, c)
         /\ s \o t \in Seq(Ops) /\ Append(t, c) \in Seq(Ops)
<1>1. /\ s \o t \in Seq(Ops) /\ Append(t, c) \in Seq(Ops)
      /\ Append(t, c) = t \o <<c>> /\ <<c>> \in Seq(Ops)
      /\ Append(s \o t, c) = (s \o t) \o <<c>>
  OBVIOUS
<1>2. (s \o t) \o <<c>> = s \o (t \o <<c>>)
  BY <1>1, ConcatAssoc
<1> QED
  BY <1>1, <1>2

(* Sending appends to all there is. *)
LEMMA AppendThrough ==
  ASSUME wire \in Seq(Ops), ops \in Seq(Ops), queue \in Seq(Ops),
         posted \in Seq(Ops), NEW c \in Ops
  PROVE  Append(wire \o (ops \o (queue \o posted)), c)
           = wire \o (ops \o (queue \o Append(posted, c)))
<1> DEFINE r == queue \o posted
           o == ops \o r
<1>1. r \in Seq(Ops) /\ Append(r, c) = queue \o Append(posted, c)
  BY AppendConcat
<1>2. o \in Seq(Ops) /\ Append(o, c) = ops \o Append(r, c)
  <2> HIDE DEF r
  <2> QED
    BY <1>1, AppendConcat, Zenon
<1>3. Append(wire \o o, c) = wire \o Append(o, c)
  <2> HIDE DEF o
  <2> QED
    BY <1>2, AppendConcat, Zenon
<1> QED
  BY <1>1, <1>2, <1>3

(* The head of p moves to the end of q: the strand runs a posted send. *)
LEMMA MoveHead ==
  ASSUME NEW q \in Seq(Ops), NEW p \in Seq(Ops), p # <<>>
  PROVE  Append(q, Head(p)) \o Tail(p) = q \o p
<1>1. /\ Head(p) \in Ops /\ Tail(p) \in Seq(Ops) /\ <<Head(p)>> \in Seq(Ops)
      /\ p = <<Head(p)>> \o Tail(p)
  BY HeadTail
<1>2. Append(q, Head(p)) = q \o <<Head(p)>>
  BY <1>1, AppendFacts
<1>3. (q \o <<Head(p)>>) \o Tail(p) = q \o (<<Head(p)>> \o Tail(p))
  BY <1>1, ConcatAssoc
<1> QED
  BY <1>1, <1>2, <1>3

(* The front of the queue is taken to be written. *)
LEMMA TakeFront ==
  ASSUME NEW q \in Seq(Ops), NEW p \in Seq(Ops), q # <<>>
  PROVE  <<Head(q)>> \o (Tail(q) \o p) = q \o p
<1>1. /\ Tail(q) \in Seq(Ops) /\ <<Head(q)>> \in Seq(Ops)
      /\ q = <<Head(q)>> \o Tail(q)
  BY HeadTail
<1>2. (<<Head(q)>> \o Tail(q)) \o p = <<Head(q)>> \o (Tail(q) \o p)
  BY <1>1, ConcatAssoc
<1> QED
  BY <1>1, <1>2

(* A written frame moves to the end of the wire. *)
LEMMA Shift ==
  ASSUME NEW w \in Seq(Ops), NEW x \in Ops, NEW r \in Seq(Ops)
  PROVE  Append(w, x) \o r = w \o (<<x>> \o r)
<1>1. Append(w, x) = w \o <<x>> /\ <<x>> \in Seq(Ops)
  BY AppendFacts
<1>2. (w \o <<x>>) \o r = w \o (<<x>> \o r)
  BY <1>1, ConcatAssoc
<1> QED
  BY <1>1, <1>2

(* What comes after w in w \o (<<x>> \o r) is x. *)
LEMMA NextAfter ==
  ASSUME NEW w \in Seq(Ops), NEW x \in Ops, NEW r \in Seq(Ops),
         NEW s, s = w \o (<<x>> \o r)
  PROVE  Len(w) < Len(s) /\ s[Len(w) + 1] = x
<1>1. <<x>> \in Seq(Ops) /\ Len(<<x>>) = 1 /\ <<x>>[1] = x
  OBVIOUS
<1>2. /\ <<x>> \o r \in Seq(Ops) /\ Len(<<x>> \o r) = 1 + Len(r)
      /\ (<<x>> \o r)[1] = x
  BY <1>1
<1>3. Len(w) \in Nat /\ Len(r) \in Nat
  BY EmptyIffZero
<1>4. Len(s) = Len(w) + (1 + Len(r))
  BY <1>2
<1>5. s[Len(w) + 1] = (<<x>> \o r)[1]
  BY <1>2, <1>3
<1> QED
  BY <1>2, <1>3, <1>4, <1>5

(* Appending to nothing. *)
LEMMA AppendEmpty ==
  ASSUME NEW c
  PROVE  Append(<<>>, c) = <<c>> /\ <<c>> # <<>> /\ <<c>>[1] = c
         /\ Len(<<c>>) = 1
  OBVIOUS

-----------------------------------------------------------------------------
(* What the code's two shared routines leave behind. *)

(* do_write_next with no other operation in progress: the session is idle,  *)
(* or closes the stream it was waiting to close, or writes the front of q.  *)
LEMMA WriteNextOutcome ==
  ASSUME NEW q, DoWriteNext(q, <<>>)
  PROVE  \/ /\ closed \/ q = <<>>
            /\ queue' = <<>> /\ writing' = FALSE /\ closePending' = FALSE
            /\ closed' = closed
            /\ ops' = <<>> \/ (closePending /\ ops' = <<Closing>>)
         \/ /\ ~closed /\ q # <<>>
            /\ queue' = Tail(q) /\ writing' = TRUE
            /\ closePending' = closePending
            /\ closed' = (Head(q) = CloseFrame)
            /\ ops' = <<Head(q)>>
<1>1. Append(<<>>, Closing) = <<Closing>> /\ Append(<<>>, Head(q)) = <<Head(q)>>
  BY AppendEmpty
<1>2. CASE closed \/ q = <<>>
  BY <1>1, <1>2 DEF DoWriteNext, CloseStream
<1>3. CASE ~closed /\ q # <<>>
  <2>1. /\ queue' = Tail(q) /\ writing' = TRUE /\ closePending' = closePending
        /\ closed' = ClosedAfter(NextFrame(q))
        /\ ops' = Append(<<>>, NextFrame(q))
    BY <1>3 DEF DoWriteNext
  <2> QED
    BY <1>1, <1>3, <2>1 DEF ClosedAfter, NextFrame
<1> QED
  BY <1>2, <1>3

(* do_close on a session that is not closed reports once, drops the queue,  *)
(* leaves the registry and closes the stream now or after the current write.*)
LEMMA CloseOutcome ==
  ASSUME NEW r, NEW w \in BOOLEAN, NEW o, DoClose(r, w, o),
         closePending \in BOOLEAN,
         ~closed => reports = <<>> /\ ~closePending /\ (~w => o = <<>>)
  PROVE  /\ writing' = w
         /\ \/ /\ closed /\ ops' = o
               /\ closed' = closed /\ queue' = queue /\ reports' = reports
               /\ registered' = registered /\ closePending' = closePending
            \/ /\ ~closed
               /\ closed' = TRUE /\ queue' = <<>> /\ reports' = <<r>>
               /\ registered' = FALSE /\ closePending' = w
               /\ w => ops' = o
               /\ ~w => ops' = <<>> \/ ops' = <<Closing>>
<1>1. Append(<<>>, Closing) = <<Closing>> /\ Append(<<>>, r) = <<r>>
  BY AppendEmpty
<1>2. CASE closed
  BY <1>2 DEF DoClose, Closes
<1>3. CASE ~closed
  <2>1. /\ writing' = w /\ closed' = TRUE /\ queue' = <<>>
        /\ registered' = FALSE /\ reports' = Append(reports, r)
        /\ closePending' = (closePending \/ w)
        /\ IF w THEN ops' = o ELSE CloseStream(o)
    BY <1>3 DEF DoClose, Closes, Erased
  <2> QED
    BY <1>1, <1>3, <2>1 DEF CloseStream
<1> QED
  BY <1>2, <1>3

-----------------------------------------------------------------------------
(* What the invariant says in the forms the steps use. *)
LEMMA Facts ==
  ASSUME IInv
  PROVE  /\ wire \in Seq(Ops) /\ ops \in Seq(Ops) /\ queue \in Seq(Ops)
         /\ posted \in Seq(Ops) /\ sent \in Seq(Ops)
         /\ ~closed => ~closePending /\ reports = <<>>
         /\ ~closed /\ ~writing => ops = <<>> /\ queue = <<>>
         /\ ops # <<>> => /\ ops = <<ops[1]>> /\ Head(ops) = ops[1]
                          /\ Tail(ops) = <<>>
         /\ ops # <<>> /\ ops[1] # Closing => writing /\ ops[1] \in Frames
         /\ writing => ops # <<>> /\ ops[1] # Closing
<1>1. /\ wire \in Seq(Frames) /\ ops \in Seq(Ops) /\ queue \in Seq(Frames)
      /\ posted \in Seq(Frames) /\ sent \in Seq(Frames)
      /\ closed \in BOOLEAN /\ writing \in BOOLEAN /\ closePending \in BOOLEAN
  BY DEF IInv, TypeOK
<1>2. /\ wire \in Seq(Ops) /\ queue \in Seq(Ops) /\ posted \in Seq(Ops)
      /\ sent \in Seq(Ops)
  BY <1>1, FramesAreOps
<1>3. Operations /\ Lifecycle
  BY DEF IInv
<1>4. ops # <<>> => /\ ops = <<ops[1]>> /\ Head(ops) = ops[1]
                    /\ Tail(ops) = <<>> /\ ops[1] \in Ops
  <2>1. Len(ops) <= 1
    BY <1>3 DEF Operations
  <2> QED
    BY <1>1, <2>1, Single
<1>5. ~closed => ~closePending /\ reports = <<>>
  BY <1>3 DEF Operations, Lifecycle
<1>6. ~closed /\ ~writing => ops = <<>> /\ queue = <<>>
  BY <1>3 DEF Operations
<1>7. writing <=> ops # <<>> /\ ops[1] # Closing
  BY <1>3 DEF Operations
<1>8. ops # <<>> /\ ops[1] # Closing => ops[1] \in Frames
  BY <1>4 DEF Ops
<1> QED
  BY <1>1, <1>2, <1>4, <1>5, <1>6, <1>7, <1>8

(* The step of the strand that completes a write. *)
LEMMA WriteDoneKeeps ==
  ASSUME IInv, WriteDone
  PROVE  IInv'
<1> DEFINE x == ops[1]
<1>1. /\ wire \in Seq(Ops) /\ queue \in Seq(Ops) /\ posted \in Seq(Ops)
      /\ sent \in Seq(Ops)
      /\ ~closed => ~closePending /\ reports = <<>>
  BY Facts
<1>2. /\ writing /\ x \in Frames /\ ops = <<x>> /\ ops # <<>>
      /\ wire' = Append(wire, x) /\ DoWriteNext(queue, <<>>)
  <2>1. ops # <<>> /\ Head(ops) # Closing
    BY DEF WriteDone
  <2>2. /\ Head(ops) = x /\ Tail(ops) = <<>> /\ ops = <<x>>
        /\ writing /\ x \in Frames
    BY <2>1, Facts
  <2> QED
    BY <2>1, <2>2 DEF WriteDone
<1>3. /\ isOpen' = (isOpen /\ x # CloseFrame)
      /\ registered' = registered /\ phase' = phase /\ reading' = reading
      /\ posted' = posted /\ held' = held /\ peer' = peer /\ sends' = sends
      /\ sent' = sent /\ reports' = reports
  BY Facts DEF WriteDone
<1>4. x \in Ops /\ x # Closing /\ Closing \in Ops
  BY <1>2, WebsocketAssumption DEF Ops
<1>5. \/ /\ closed \/ queue = <<>>
         /\ queue' = <<>> /\ writing' = FALSE /\ closePending' = FALSE
         /\ closed' = closed
         /\ ops' = <<>> \/ (closePending /\ ops' = <<Closing>>)
      \/ /\ ~closed /\ queue # <<>>
         /\ queue' = Tail(queue) /\ writing' = TRUE
         /\ closePending' = closePending
         /\ closed' = (Head(queue) = CloseFrame)
         /\ ops' = <<Head(queue)>>
  BY <1>2, WriteNextOutcome
<1>6. queue # <<>> => /\ Head(queue) \in Frames /\ Head(queue) # Closing
                      /\ Head(queue) \in Ops
                      /\ Tail(queue) \in Seq(Frames)
  <2>1. queue \in Seq(Frames)
    BY DEF IInv, TypeOK
  <2>2. queue # <<>> => Head(queue) \in Frames /\ Tail(queue) \in Seq(Frames)
    BY <2>1
  <2> QED
    BY <2>2, WebsocketAssumption DEF Ops
<1>7. TypeOK'
  <2>1. wire' \in Seq(Frames)
    <3>1. wire \in Seq(Frames)
      BY DEF IInv, TypeOK
    <3> QED
      BY <3>1, <1>2
  <2>2. ops' \in Seq(Ops)
    <3>1. <<>> \in Seq(Ops) /\ <<Closing>> \in Seq(Ops)
      BY <1>4
    <3>2. queue # <<>> => <<Head(queue)>> \in Seq(Ops)
      BY <1>6
    <3> QED
      BY <3>1, <3>2, <1>5
  <2>3. queue' \in Seq(Frames)
    <3>1. <<>> \in Seq(Frames)
      OBVIOUS
    <3> QED
      BY <3>1, <1>5, <1>6
  <2> QED
    BY <2>1, <2>2, <2>3, <1>3, <1>5 DEF IInv, TypeOK
<1>8. Operations'
  <2>1. Len(<<>>) <= 1 /\ Len(<<Closing>>) <= 1 /\ Len(<<Head(queue)>>) <= 1
    OBVIOUS
  <2>2. Len(ops') <= 1
    BY <1>5, <2>1
  <2>3. CASE writing' = FALSE
    <3>1. ops' = <<>> \/ (closePending /\ ops' = <<Closing>>)
      BY <2>3, <1>5
    <3>2. closePending => closed' 
      BY <2>3, <1>5, <1>1
    <3>3. queue' = <<>> /\ closePending' = FALSE
      BY <2>3, <1>5
    <3>4. ops' # <<>> => ops'[1] = Closing
      BY <3>1, AppendEmpty
    <3> QED
      BY <2>2, <2>3, <3>1, <3>2, <3>3, <3>4 DEF Operations
  <2>4. CASE writing' = TRUE
    <3>1. ops' = <<Head(queue)>> /\ queue # <<>> /\ ~closed
          /\ closePending' = closePending
      BY <2>4, <1>5
    <3>2. ops' # <<>> /\ ops'[1] # Closing
      BY <3>1, <1>6, AppendEmpty
    <3>3. closePending' = FALSE
      BY <3>1, <1>1 DEF IInv, TypeOK
    <3> QED
      BY <2>2, <2>4, <3>2, <3>3 DEF Operations
  <2> QED
    BY <1>5, <2>3, <2>4
<1>9. Lifecycle' /\ ReportedOnce'
  <2>1. phase # "accepting"
    BY <1>2 DEF IInv, Lifecycle
  <2>2. reports # <<>> => closed'
    BY <1>1, <1>5
  <2> QED
    BY <1>3, <2>1, <2>2 DEF IInv, Lifecycle, ReportedOnce
<1>10. Len(wire') = Len(wire) + 1 /\ wire'[Len(wire) + 1] = x
       /\ (\A i \in 1..Len(wire) : wire'[i] = wire[i])
       /\ Len(wire) \in Nat
  BY <1>1, <1>2, <1>4, AppendFacts, EmptyIffZero
<1>11. /\ \A i \in 1..Len(wire) : wire[i] # CloseFrame
       /\ \A i \in 1..Len(wire') : wire'[i] = CloseFrame =>
            i = Len(wire') /\ x = CloseFrame
  <2>1. \A i \in 1..Len(wire) : wire[i] # CloseFrame
    BY <1>2 DEF IInv, CloseIsLast
  <2>2. \A i \in 1..Len(wire') : i \in 1..Len(wire) \/ i = Len(wire) + 1
    BY <1>10
  <2> QED
    BY <1>10, <2>1, <2>2
<1>12. x = CloseFrame => closed' /\ ops' = <<>>
  <2>1. x = CloseFrame => closed /\ ~closePending
    BY <1>2 DEF IInv, Finality
  <2> QED
    BY <1>5, <2>1
<1>13. Finality' /\ CloseIsLast'
  <2>1. ops' # <<>> /\ ops'[1] = CloseFrame => closed' /\ ~closePending'
    <3>1. CASE ops' = <<Closing>>
      BY <3>1, AppendEmpty, WebsocketAssumption
    <3>2. CASE /\ ~closed /\ ops' = <<Head(queue)>>
               /\ closed' = (Head(queue) = CloseFrame)
               /\ closePending' = closePending
      <4>1. ops'[1] = Head(queue)
        BY <3>2, AppendEmpty
      <4> QED
        BY <3>2, <4>1, <1>1
    <3> QED
      BY <1>5, <3>1, <3>2
  <2> QED
    BY <1>11, <1>12, <2>1 DEF Finality, CloseIsLast
<1>14. InOrder'
  <2>1. Len(wire) < Len(sent) /\ x = sent[Len(wire) + 1]
    BY <1>2 DEF IInv, Flow
  <2>2. Len(sent) \in Nat
    BY <1>1, EmptyIffZero
  <2>3. \A i \in 1..Len(wire) : wire[i] = sent[i]
    BY DEF IInv, InOrder
  <2>4. \A i \in 1..Len(wire') : i \in 1..Len(wire) \/ i = Len(wire) + 1
    BY <1>10
  <2>5. \A i \in 1..Len(wire') : wire'[i] = sent[i]
    BY <1>10, <2>1, <2>3, <2>4
  <2>6. Len(wire') <= Len(sent)
    BY <1>10, <2>1, <2>2
  <2> QED
    BY <1>3, <2>5, <2>6 DEF InOrder
<1>15. Flow'
  <2>1. queue \o posted \in Seq(Ops) /\ wire' \in Seq(Ops)
    BY <1>1, <1>2, <1>4, ConcatAssoc, AppendFacts
  <2>2. ~closed => sent = wire' \o (queue \o posted)
    <3>1. ~closed => sent = wire \o (<<x>> \o (queue \o posted))
      BY <1>2 DEF IInv, Flow
    <3>2. wire' \o (queue \o posted) = wire \o (<<x>> \o (queue \o posted))
      BY <1>1, <1>2, <1>4, <2>1, Shift
    <3> QED
      BY <3>1, <3>2
  <2>3. CASE writing' = FALSE
    <3>1. ~closed' => ~closed /\ queue = <<>> /\ ops' = <<>> /\ queue' = <<>>
      BY <2>3, <1>1, <1>5
    <3>2. <<>> \o posted = posted /\ <<>> \o (<<>> \o posted) = posted
      BY <1>1, EmptyFront
    <3>3. ~closed' => sent' = wire' \o (ops' \o (queue' \o posted'))
      BY <1>3, <2>2, <3>1, <3>2
    <3> QED
      BY <2>3, <3>3 DEF Flow
  <2>4. CASE writing' = TRUE
    <3> DEFINE h == Head(queue)
    <3>1. /\ ~closed /\ queue # <<>> /\ queue' = Tail(queue) /\ ops' = <<h>>
          /\ h \in Ops
      BY <2>4, <1>5, <1>6
    <3>2. Tail(queue) \in Seq(Ops)
      BY <1>1, <3>1, HeadTail
    <3>3. queue \o posted = <<h>> \o (Tail(queue) \o posted)
      BY <1>1, <3>1, TakeFront
    <3>4. sent = wire' \o (<<h>> \o (Tail(queue) \o posted))
      BY <2>2, <3>1, <3>3
    <3>5. sent' = wire' \o (ops' \o (queue' \o posted'))
      BY <1>3, <3>1, <3>4
    <3>6. Tail(queue) \o posted \in Seq(Ops)
      BY <1>1, <3>2, ConcatAssoc
    <3>7. Len(wire') < Len(sent) /\ sent[Len(wire') + 1] = h
      BY <2>1, <3>1, <3>4, <3>6, NextAfter
    <3>8. ops'[1] = h
      BY <3>1, AppendEmpty
    <3> QED
      BY <1>3, <3>5, <3>7, <3>8 DEF Flow
  <2> QED
    BY <1>5, <2>3, <2>4
<1> QED
  BY <1>7, <1>8, <1>9, <1>13, <1>14, <1>15 DEF IInv

(* The strand runs a posted send. *)
LEMMA RunSendKeeps ==
  ASSUME IInv, RunSend
  PROVE  IInv'
<1> DEFINE x == Head(posted)
<1>1. /\ wire \in Seq(Ops) /\ queue \in Seq(Ops) /\ posted \in Seq(Ops)
      /\ sent \in Seq(Ops) /\ ops \in Seq(Ops)
      /\ ~closed => ~closePending /\ reports = <<>>
      /\ ~closed /\ ~writing => ops = <<>> /\ queue = <<>>
  BY Facts
<1>2. /\ posted # <<>> /\ posted' = Tail(posted)
      /\ isOpen' = isOpen /\ registered' = registered /\ phase' = phase
      /\ reading' = reading /\ held' = held /\ peer' = peer
      /\ sends' = sends /\ sent' = sent /\ wire' = wire /\ reports' = reports
  BY DEF RunSend, history
<1>3. /\ closed => /\ queue' = queue /\ writing' = writing /\ ops' = ops
                   /\ closed' = closed /\ closePending' = closePending
      /\ ~closed /\ writing =>
           /\ queue' = Append(queue, x) /\ writing' = writing /\ ops' = ops
           /\ closed' = closed /\ closePending' = closePending
      /\ ~closed /\ ~writing => DoWriteNext(Append(queue, x), ops)
  BY DEF RunSend, WriterFree, flags
<1>4. x \in Frames /\ x \in Ops /\ x # Closing /\ Tail(posted) \in Seq(Frames)
  <2>1. posted \in Seq(Frames)
    BY DEF IInv, TypeOK
  <2>2. x \in Frames /\ Tail(posted) \in Seq(Frames)
    BY <1>2, <2>1
  <2> QED
    BY <2>2, WebsocketAssumption DEF Ops
<1>5. ~closed /\ ~writing =>
        /\ queue' = <<>> /\ writing' = TRUE /\ closePending' = closePending
        /\ closed' = (x = CloseFrame) /\ ops' = <<x>>
  <2> SUFFICES ASSUME ~closed, ~writing
               PROVE  /\ queue' = <<>> /\ writing' = TRUE
                      /\ closePending' = closePending
                      /\ closed' = (x = CloseFrame) /\ ops' = <<x>>
    OBVIOUS
  <2>1. Append(queue, x) = <<x>> /\ <<x>> # <<>> /\ ops = <<>>
    BY <1>1, AppendEmpty
  <2>2. Head(<<x>>) = x /\ Tail(<<x>>) = <<>>
    OBVIOUS
  <2>3. DoWriteNext(<<x>>, <<>>)
    BY <1>3, <2>1
  <2> QED
    BY <2>1, <2>2, <2>3, WriteNextOutcome
<1>6. TypeOK'
  <2>1. queue' \in Seq(Frames)
    <3>1. queue \in Seq(Frames)
      BY DEF IInv, TypeOK
    <3>2. <<>> \in Seq(Frames) /\ Append(queue, x) \in Seq(Frames)
      BY <3>1, <1>4
    <3> QED
      BY <3>1, <3>2, <1>3, <1>5 DEF IInv, TypeOK
  <2>2. ops' \in Seq(Ops)
    <3>1. <<x>> \in Seq(Ops)
      BY <1>4
    <3> QED
      BY <3>1, <1>1, <1>3, <1>5
  <2>3. /\ writing' \in BOOLEAN /\ closed' \in BOOLEAN
        /\ closePending' \in BOOLEAN
    BY <1>3, <1>5 DEF IInv, TypeOK
  <2> QED
    BY <1>2, <1>4, <2>1, <2>2, <2>3 DEF IInv, TypeOK
<1>7. Operations' /\ Finality'
  <2>1. CASE ~closed /\ ~writing
    <3>1. Len(ops') = 1 /\ ops' # <<>> /\ ops'[1] = x
      BY <2>1, <1>5, AppendEmpty
    <3>2. ~closePending'
      BY <2>1, <1>1, <1>5
    <3>3. \A i \in 1..Len(wire) : wire[i] # CloseFrame
      BY <2>1 DEF IInv, Finality
    <3>4. 1 <= 1
      OBVIOUS
    <3> QED
      BY <2>1, <1>2, <1>4, <1>5, <3>1, <3>2, <3>3, <3>4
      DEF Operations, Finality
  <2>2. CASE closed \/ writing
    BY <2>2, <1>2, <1>3 DEF IInv, Operations, Finality
  <2> QED
    BY <2>1, <2>2
<1>8. Lifecycle' /\ ReportedOnce'
  <2>1. phase # "accepting"
    BY <1>2 DEF IInv, Lifecycle
  <2>2. reports # <<>> => closed'
    BY <1>1, <1>3
  <2> QED
    BY <1>2, <2>1, <2>2 DEF IInv, Lifecycle, ReportedOnce
<1>9. CloseIsLast'
  <2>1. CASE ~closed /\ ~writing
    <3>1. \A i \in 1..Len(wire) : wire[i] # CloseFrame
      BY <2>1 DEF IInv, Finality
    <3> QED
      BY <1>2, <3>1 DEF CloseIsLast
  <2>2. CASE closed \/ writing
    BY <2>2, <1>2, <1>3 DEF IInv, CloseIsLast
  <2> QED
    BY <2>1, <2>2
<1>10. InOrder'
  BY <1>2 DEF IInv, InOrder
<1>11. Flow'
  <2>1. ~closed => sent = wire \o (ops \o (queue \o posted))
    BY DEF IInv, Flow
  <2>2. queue \o posted = Append(queue, x) \o Tail(posted)
    BY <1>1, <1>2, MoveHead
  <2>3. CASE closed
    BY <2>3, <1>2, <1>3 DEF IInv, Flow
  <2>4. CASE ~closed /\ writing
    <3>1. sent' = wire' \o (ops' \o (queue' \o posted'))
      BY <1>2, <1>3, <2>1, <2>2, <2>4
    <3>2. Len(wire') < Len(sent') /\ ops'[1] = sent'[Len(wire') + 1]
      BY <1>2, <1>3, <2>4 DEF IInv, Flow
    <3> QED
      BY <3>1, <3>2 DEF Flow
  <2>5. CASE ~closed /\ ~writing
    <3>1. /\ queue = <<>> /\ ops = <<>> /\ queue' = <<>> /\ ops' = <<x>>
          /\ posted' = Tail(posted) /\ Tail(posted) \in Seq(Ops)
      BY <1>1, <1>2, <1>4, <1>5, <2>5, FramesAreOps
    <3>2. Append(queue, x) = <<x>> /\ ops'[1] = x
      BY <3>1, AppendEmpty
    <3>3. <<>> \o (<<x>> \o Tail(posted)) = <<x>> \o Tail(posted)
          /\ <<>> \o Tail(posted) = Tail(posted)
          /\ <<x>> \o Tail(posted) \in Seq(Ops)
      <4>1. <<x>> \in Seq(Ops)
        BY <1>4
      <4>2. <<x>> \o Tail(posted) \in Seq(Ops)
        BY <3>1, <4>1, ConcatAssoc
      <4> QED
        BY <3>1, <4>2, EmptyFront
    <3>4. sent = wire \o (<<x>> \o Tail(posted))
      BY <2>1, <2>2, <2>5, <3>1, <3>2, <3>3
    <3>5. sent' = wire' \o (ops' \o (queue' \o posted'))
      BY <1>2, <3>1, <3>3, <3>4
    <3>6. Len(wire) < Len(sent) /\ sent[Len(wire) + 1] = x
      BY <1>1, <1>4, <3>1, <3>4, NextAfter
    <3> QED
      BY <1>2, <3>2, <3>5, <3>6 DEF Flow
  <2> QED
    BY <2>3, <2>4, <2>5
<1> QED
  BY <1>6, <1>7, <1>8, <1>9, <1>10, <1>11 DEF IInv

(* The handlers that call do_close: after an error of the write in progress *)
(* (that is over), or with the operations left as they are.                 *)
LEMMA CloseKeeps ==
  ASSUME IInv, NEW r \in {"close", "error"}, NEW w \in BOOLEAN, NEW o,
         DoClose(r, w, o),
         (w = writing /\ o = ops) \/ (w = FALSE /\ o = <<>> /\ writing),
         isOpen' \in BOOLEAN, reading' \in BOOLEAN,
         phase' \in {"accepting", "open", "failed"},
         phase' = phase \/ (~closed /\ phase' = "failed"),
         phase = "accepting" => phase' # "accepting",
         posted' = posted, held' = held, peer' = peer, sends' = sends,
         sent' = sent, wire' = wire
  PROVE  IInv'
<1>1. /\ ops \in Seq(Ops)
      /\ ~closed => ~closePending /\ reports = <<>>
      /\ ~closed /\ ~writing => ops = <<>> /\ queue = <<>>
      /\ writing => ops # <<>> /\ ops[1] # Closing
      /\ closePending \in BOOLEAN /\ closed \in BOOLEAN /\ writing \in BOOLEAN
  BY Facts DEF IInv, TypeOK
<1>2. /\ writing' = w
      /\ \/ /\ closed /\ ops' = o
            /\ closed' = closed /\ queue' = queue /\ reports' = reports
            /\ registered' = registered /\ closePending' = closePending
         \/ /\ ~closed
            /\ closed' = TRUE /\ queue' = <<>> /\ reports' = <<r>>
            /\ registered' = FALSE /\ closePending' = w
            /\ w => ops' = o
            /\ ~w => ops' = <<>> \/ ops' = <<Closing>>
  <2>1. ~closed => reports = <<>> /\ ~closePending /\ (~w => o = <<>>)
    BY <1>1
  <2> QED
    BY <1>1, <2>1, CloseOutcome
<1>3. closed' = TRUE /\ (w => ops' = ops /\ writing)
  BY <1>1, <1>2
<1>4. ops' = ops \/ ops' = <<>> \/ (~closed /\ ops' = <<Closing>>)
  BY <1>1, <1>2
<1>5. ~w => ops' = <<>> \/ ops'[1] = Closing
  <2>1. <<Closing>>[1] = Closing
    BY AppendEmpty
  <2>2. ops # <<>> /\ ~writing => ops[1] = Closing
    BY DEF IInv, Operations
  <2> QED
    BY <1>1, <1>2, <2>1, <2>2
<1>6. <<r>> \in Seq({"close", "error"}) /\ Len(<<r>>) = 1 /\ <<r>> # <<>>
  OBVIOUS
<1>7. TypeOK'
  <2>1. ops' \in Seq(Ops)
    <3>1. Closing \in Ops
      BY DEF Ops
    <3>2. <<>> \in Seq(Ops) /\ <<Closing>> \in Seq(Ops)
      BY <3>1
    <3> QED
      BY <1>1, <1>4, <3>2
  <2>2. queue' \in Seq(Frames)
    <3>1. <<>> \in Seq(Frames)
      OBVIOUS
    <3> QED
      BY <1>2, <3>1 DEF IInv, TypeOK
  <2>3. reports' \in Seq({"close", "error"})
    BY <1>2, <1>6 DEF IInv, TypeOK
  <2>4. /\ writing' \in BOOLEAN /\ closed' \in BOOLEAN
        /\ closePending' \in BOOLEAN /\ registered' \in BOOLEAN
    BY <1>1, <1>2 DEF IInv, TypeOK
  <2> QED
    BY <2>1, <2>2, <2>3, <2>4 DEF IInv, TypeOK
<1>8. Operations'
  <2>1. Len(ops') <= 1
    <3>1. Len(<<>>) = 0 /\ Len(<<Closing>>) = 1
      OBVIOUS
    <3>2. Len(ops) <= 1
      BY DEF IInv, Operations
    <3> QED
      BY <1>4, <3>1, <3>2
  <2>2. w => ops' # <<>> /\ ops'[1] # Closing
    BY <1>1, <1>3
  <2>3. writing' <=> ops' # <<>> /\ ops'[1] # Closing
    BY <1>2, <1>5, <2>2
  <2> QED
    BY <1>3, <2>1, <2>3 DEF Operations
<1>9. Lifecycle' /\ ReportedOnce'
  <2>1. phase' # "accepting"
    OBVIOUS
  <2>2. phase' = "failed" => reports' # <<>>
    BY <1>2, <1>6 DEF IInv, Lifecycle
  <2>3. Lifecycle'
    BY <1>3, <2>1, <2>2 DEF Lifecycle
  <2>4. ReportedOnce'
    <3>1. CASE closed
      BY <1>2, <3>1 DEF IInv, ReportedOnce
    <3>2. CASE ~closed
      <4>1. reports' = <<r>> /\ registered' = FALSE
        BY <1>2, <3>2
      <4> QED
        BY <1>6, <4>1 DEF ReportedOnce
    <3> QED
      BY <3>1, <3>2
  <2> QED
    BY <2>3, <2>4
<1>10. Finality' /\ CloseIsLast'
  <2>1. \A i \in 1..Len(wire) : wire[i] = CloseFrame =>
          closed /\ i = Len(wire) /\ ops = <<>>
    BY DEF IInv, Finality, CloseIsLast
  <2>2. ops # <<>> /\ ops[1] = CloseFrame => closed /\ ~closePending
    BY DEF IInv, Finality
  <2>3. <<Closing>>[1] = Closing /\ Closing # CloseFrame
    BY AppendEmpty, WebsocketAssumption
  <2>4. ops' # <<>> /\ ops'[1] = CloseFrame => ~closePending'
    BY <1>2, <1>4, <2>2, <2>3
  <2>5. closed => ops' = ops \/ ops' = <<>>
    BY <1>4
  <2> QED
    BY <1>3, <2>1, <2>4, <2>5 DEF Finality, CloseIsLast
<1>11. InOrder'
  BY DEF IInv, InOrder
<1>12. Flow'
  BY <1>2, <1>3 DEF IInv, Flow
<1> QED
  BY <1>7, <1>8, <1>9, <1>10, <1>11, <1>12 DEF IInv

(* The opening handshake, or its failure. *)
LEMMA OnHandshakeKeeps ==
  ASSUME IInv, OnHandshake
  PROVE  IInv'
<1>1. /\ phase = "accepting"
      /\ ~closed /\ ~reading /\ ~registered /\ reports = <<>> /\ ops = <<>>
      /\ posted = <<>> /\ \A t \in Threads : held[t] = None
  BY DEF OnHandshake, IInv, Lifecycle
<1>2. /\ posted' = posted /\ held' = held /\ peer' = peer /\ sends' = sends
      /\ sent' = sent /\ wire' = wire
  BY DEF OnHandshake, history
<1>3. CASE /\ phase' = "open" /\ isOpen' = TRUE /\ registered' = TRUE
           /\ reading' = TRUE /\ UNCHANGED <<flags, ops, reports>>
  <2>1. /\ queue' = queue /\ writing' = writing /\ closed' = closed
        /\ closePending' = closePending /\ ops' = ops /\ reports' = reports
    BY <1>3 DEF flags
  <2>2. TypeOK'
    BY <1>2, <1>3, <2>1 DEF IInv, TypeOK
  <2>3. Lifecycle' /\ ReportedOnce'
    BY <1>1, <1>3, <2>1 DEF IInv, Lifecycle, ReportedOnce
  <2>4. Operations' /\ Finality' /\ CloseIsLast' /\ InOrder' /\ Flow'
    BY <1>2, <2>1 DEF IInv, Operations, Finality, CloseIsLast, InOrder, Flow
  <2> QED
    BY <2>2, <2>3, <2>4 DEF IInv
<1>4. CASE /\ phase' = "failed" /\ UNCHANGED <<isOpen, reading>>
           /\ DoClose("error", writing, ops)
  <2>1. /\ writing \in BOOLEAN /\ isOpen' \in BOOLEAN /\ reading' \in BOOLEAN
    BY <1>4 DEF IInv, TypeOK
  <2> QED
    BY <1>1, <1>2, <1>4, <2>1, CloseKeeps
<1> QED
  BY <1>3, <1>4 DEF OnHandshake

(* A write fails. *)
LEMMA WriteErrorKeeps ==
  ASSUME IInv, WriteError
  PROVE  IInv'
<1>1. writing /\ Tail(ops) = <<>>
  BY Facts DEF WriteError
<1>2. phase # "accepting" /\ isOpen' \in BOOLEAN
      /\ reading \in BOOLEAN /\ phase \in {"accepting", "open", "failed"}
  BY DEF WriteError, IInv, Lifecycle, TypeOK
<1>3. /\ DoClose("error", FALSE, Tail(ops))
      /\ phase' = phase /\ reading' = reading /\ posted' = posted
      /\ held' = held /\ peer' = peer /\ sends' = sends /\ sent' = sent
      /\ wire' = wire
  BY DEF WriteError, history
<1> QED
  BY <1>1, <1>2, <1>3, CloseKeeps

(* The outstanding read fails. *)
LEMMA ReadErrorKeeps ==
  ASSUME IInv, ReadError
  PROVE  IInv'
<1>1. phase # "accepting" /\ isOpen' \in BOOLEAN /\ writing \in BOOLEAN
      /\ phase \in {"accepting", "open", "failed"}
  BY DEF ReadError, IInv, Lifecycle, TypeOK
<1>2. PICK report \in {"close", "error"} : DoClose(report, writing, ops)
  BY DEF ReadError
<1>3. /\ phase' = phase /\ reading' = FALSE /\ posted' = posted
      /\ held' = held /\ peer' = peer /\ sends' = sends /\ sent' = sent
      /\ wire' = wire
  BY DEF ReadError, history
<1> QED
  BY <1>1, <1>2, <1>3, CloseKeeps

(* async_close completes. *)
LEMMA CloseDoneKeeps ==
  ASSUME IInv, CloseDone
  PROVE  IInv'
<1>1. /\ ops # <<>> /\ ops[1] = Closing /\ ops' = <<>> /\ isOpen' = FALSE
      /\ ~writing
  <2>1. ops # <<>> /\ Head(ops) = Closing /\ ops' = Tail(ops) /\ isOpen' = FALSE
    BY DEF CloseDone
  <2> QED
    BY <2>1, Facts
<1>2. /\ queue' = queue /\ writing' = writing /\ closed' = closed
      /\ closePending' = closePending /\ registered' = registered
      /\ phase' = phase /\ reading' = reading /\ posted' = posted
      /\ held' = held /\ peer' = peer /\ sends' = sends /\ sent' = sent
      /\ wire' = wire /\ reports' = reports
  BY DEF CloseDone, flags, history
<1>3. TypeOK'
  <2>1. <<>> \in Seq(Ops)
    OBVIOUS
  <2> QED
    BY <1>1, <1>2, <2>1 DEF IInv, TypeOK
<1>4. Operations'
  <2>1. Len(<<>>) = 0 /\ 0 <= 1
    OBVIOUS
  <2>2. Len(ops') <= 1
    BY <1>1, <2>1
  <2> QED
    BY <1>1, <1>2, <2>2 DEF IInv, Operations
<1>5. Lifecycle' /\ ReportedOnce'
  BY <1>1, <1>2 DEF IInv, Lifecycle, ReportedOnce
<1>6. Finality' /\ CloseIsLast' /\ InOrder'
  BY <1>1, <1>2 DEF IInv, Finality, CloseIsLast, InOrder
<1>7. Flow'
  <2>1. closed
    BY <1>1 DEF IInv, Operations
  <2> QED
    BY <1>1, <1>2, <2>1 DEF Flow
<1> QED
  BY <1>3, <1>4, <1>5, <1>6, <1>7 DEF IInv

(* A frame is posted to the strand, by whoever holds the session. *)
LEMMA PostKeeps ==
  ASSUME IInv, NEW f \in Frames, phase # "accepting",
         posted' = Append(posted, f), sent' = Append(sent, f),
         sends' \in Nat, held' \in [Threads -> Frames \cup {None}],
         UNCHANGED <<flags, registered, phase, isOpen, reading, ops, peer,
                     wire, reports>>
  PROVE  IInv'
<1>1. /\ wire \in Seq(Ops) /\ queue \in Seq(Ops) /\ posted \in Seq(Ops)
      /\ sent \in Seq(Ops) /\ ops \in Seq(Ops) /\ f \in Ops
  BY Facts DEF Ops
<1>2. /\ queue' = queue /\ writing' = writing /\ closed' = closed
      /\ closePending' = closePending /\ registered' = registered
      /\ phase' = phase /\ isOpen' = isOpen /\ reading' = reading
      /\ ops' = ops /\ peer' = peer /\ wire' = wire /\ reports' = reports
  BY DEF flags
<1>3. TypeOK'
  <2>1. posted' \in Seq(Frames) /\ sent' \in Seq(Frames)
    <3>1. posted \in Seq(Frames) /\ sent \in Seq(Frames)
      BY DEF IInv, TypeOK
    <3> QED
      BY <3>1
  <2> QED
    BY <1>2, <2>1 DEF IInv, TypeOK
<1>4. Operations' /\ Lifecycle' /\ ReportedOnce' /\ Finality' /\ CloseIsLast'
  BY <1>2 DEF IInv, Operations, Lifecycle, ReportedOnce, Finality, CloseIsLast
<1>5. /\ Len(sent') = Len(sent) + 1 /\ Len(sent) \in Nat /\ Len(wire) \in Nat
      /\ \A i \in 1..Len(sent) : sent'[i] = sent[i]
  BY <1>1, AppendFacts, EmptyIffZero
<1>6. InOrder'
  <2>1. Len(wire) <= Len(sent) /\ \A i \in 1..Len(wire) : wire[i] = sent[i]
    BY DEF IInv, InOrder
  <2>2. \A i \in 1..Len(wire) : i \in 1..Len(sent)
    BY <1>5, <2>1
  <2>3. \A i \in 1..Len(wire) : wire[i] = sent'[i]
    BY <1>5, <2>1, <2>2
  <2>4. Len(wire) <= Len(sent')
    BY <1>5, <2>1
  <2> QED
    BY <1>2, <2>3, <2>4 DEF InOrder
<1>7. Flow'
  <2>1. ~closed => sent' = wire \o (ops \o (queue \o Append(posted, f)))
    <3>1. ~closed => sent = wire \o (ops \o (queue \o posted))
      BY DEF IInv, Flow
    <3>2. Append(wire \o (ops \o (queue \o posted)), f)
            = wire \o (ops \o (queue \o Append(posted, f)))
      BY <1>1, AppendThrough
    <3> QED
      BY <3>1, <3>2
  <2>2. writing => Len(wire) < Len(sent) /\ ops[1] = sent[Len(wire) + 1]
    BY DEF IInv, Flow
  <2>3. writing => Len(wire) + 1 \in 1..Len(sent)
    BY <1>5, <2>2
  <2>4. writing => Len(wire) < Len(sent') /\ ops[1] = sent'[Len(wire) + 1]
    BY <1>5, <2>2, <2>3
  <2> QED
    BY <1>2, <2>1, <2>4 DEF Flow
<1> QED
  BY <1>3, <1>4, <1>6, <1>7 DEF IInv

(* Calls of send_frame and of the static send_message. *)
LEMMA SendsKeep ==
  ASSUME IInv,
         \/ \E f \in Frames : SendFrame(f)
         \/ \E t \in Threads : Broadcast(t)
  PROVE  IInv'
<1>1. /\ sends \in Nat /\ held \in [Threads -> Frames \cup {None}]
      /\ phase = "accepting" => ~registered
      /\ phase = "accepting" => \A t \in Threads : held[t] = None
  BY DEF IInv, TypeOK, Lifecycle
<1>2. ASSUME NEW f \in Frames, SendFrame(f) PROVE IInv'
  <2>1. /\ phase # "accepting" /\ sends' = sends + 1 /\ held' = held
        /\ posted' = Append(posted, f) /\ sent' = Append(sent, f)
        /\ UNCHANGED <<flags, registered, phase, isOpen, reading, ops, peer,
                       wire, reports>>
    BY <1>2 DEF SendFrame
  <2>2. sends' \in Nat /\ held' \in [Threads -> Frames \cup {None}]
    BY <1>1, <2>1
  <2> QED
    BY <2>1, <2>2, PostKeeps
<1>3. ASSUME NEW t \in Threads, NEW f \in Frames, FindSession(t, f) PROVE IInv'
  <2>1. /\ queue' = queue /\ writing' = writing /\ closed' = closed
        /\ closePending' = closePending /\ registered' = registered
        /\ phase' = phase /\ isOpen' = isOpen /\ reading' = reading
        /\ ops' = ops /\ posted' = posted /\ peer' = peer /\ sent' = sent
        /\ wire' = wire /\ reports' = reports
        /\ registered /\ sends' = sends + 1
        /\ held' = [held EXCEPT ![t] = f]
    BY <1>3 DEF FindSession, flags
  <2>2. phase # "accepting"
    BY <1>1, <2>1
  <2>3. sends' \in Nat /\ held' \in [Threads -> Frames \cup {None}]
    BY <1>1, <2>1
  <2>4. TypeOK'
    BY <2>1, <2>3 DEF IInv, TypeOK
  <2>5. Operations' /\ Lifecycle' /\ ReportedOnce'
    BY <2>1, <2>2 DEF IInv, Operations, Lifecycle, ReportedOnce
  <2>6. Finality' /\ CloseIsLast' /\ InOrder' /\ Flow'
    BY <2>1 DEF IInv, Finality, CloseIsLast, InOrder, Flow
  <2> QED
    BY <2>4, <2>5, <2>6 DEF IInv
<1>4. ASSUME NEW t \in Threads, SendFound(t) PROVE IInv'
  <2> DEFINE f == held[t]
  <2>1. /\ f # None /\ sends' = sends
        /\ held' = [held EXCEPT ![t] = None]
        /\ posted' = Append(posted, f) /\ sent' = Append(sent, f)
        /\ UNCHANGED <<flags, registered, phase, isOpen, reading, ops, peer,
                       wire, reports>>
    BY <1>4 DEF SendFound
  <2>2. f \in Frames /\ phase # "accepting"
    BY <1>1, <2>1
  <2>3. sends' \in Nat /\ held' \in [Threads -> Frames \cup {None}]
    BY <1>1, <2>1
  <2> QED
    BY <2>1, <2>2, <2>3, PostKeeps
<1> QED
  BY <1>2, <1>3, <1>4 DEF Broadcast

(* The peer closes or leaves, or nothing happens. *)
LEMMA PeerKeeps ==
  ASSUME IInv, PeerCloses \/ PeerGone \/ UNCHANGED vars
  PROVE  IInv'
<1>1. /\ queue' = queue /\ writing' = writing /\ closed' = closed
      /\ closePending' = closePending /\ registered' = registered
      /\ phase' = phase /\ isOpen' = isOpen /\ reading' = reading
      /\ ops' = ops /\ posted' = posted /\ held' = held /\ sends' = sends
      /\ sent' = sent /\ wire' = wire /\ reports' = reports
  BY DEF PeerCloses, PeerGone, vars, flags, history
<1>2. peer' \in {"open", "closed", "gone"}
  BY DEF PeerCloses, PeerGone, vars, IInv, TypeOK
<1>3. TypeOK'
  BY <1>1, <1>2 DEF IInv, TypeOK
<1>4. Operations' /\ Lifecycle' /\ ReportedOnce'
  BY <1>1 DEF IInv, Operations, Lifecycle, ReportedOnce
<1>5. Finality' /\ CloseIsLast' /\ InOrder' /\ Flow'
  BY <1>1 DEF IInv, Finality, CloseIsLast, InOrder, Flow
<1> QED
  BY <1>3, <1>4, <1>5 DEF IInv

(* A session starts with nothing sent, queued, written or reported. *)
LEMMA InitIInv == Init => IInv
<1> SUFFICES ASSUME Init PROVE IInv
  OBVIOUS
<1>1. Len(<<>>) = 0 /\ 0 \in Nat /\ 1..0 = {} /\ 0 <= 1 /\ 0 <= 0
  OBVIOUS
<1>2. TypeOK
  <2>1. /\ <<>> \in Seq(Frames) /\ <<>> \in Seq(Ops)
        /\ <<>> \in Seq({"close", "error"})
    OBVIOUS
  <2>2. held \in [Threads -> Frames \cup {None}]
    BY DEF Init
  <2> QED
    BY <1>1, <2>1, <2>2 DEF Init, TypeOK
<1>3. Operations
  BY <1>1 DEF Init, Operations
<1>4. Lifecycle /\ ReportedOnce
  BY <1>1 DEF Init, Lifecycle, ReportedOnce
<1>5. Finality /\ CloseIsLast /\ InOrder
  BY <1>1 DEF Init, Finality, CloseIsLast, InOrder
<1>6. Flow
  <2>1. <<>> \o (<<>> \o (<<>> \o <<>>)) = <<>>
    OBVIOUS
  <2> QED
    BY <2>1 DEF Init, Flow
<1> QED
  BY <1>2, <1>3, <1>4, <1>5, <1>6 DEF IInv

(* Every step keeps it. *)
LEMMA NextIInv == IInv /\ [Next]_vars => IInv'
<1> SUFFICES ASSUME IInv, [Next]_vars PROVE IInv'
  OBVIOUS
<1>1. CASE \E f \in Frames : SendFrame(f)
  BY <1>1, SendsKeep
<1>2. CASE \E t \in Threads : Broadcast(t)
  BY <1>2, SendsKeep
<1>3. CASE Strand
  <2>1. OnHandshake \/ RunSend \/ WriteDone \/ WriteError \/ CloseDone
        \/ ReadError
    BY <1>3 DEF Strand
  <2> QED
    BY <2>1, OnHandshakeKeeps, RunSendKeeps, WriteDoneKeeps, WriteErrorKeeps,
       CloseDoneKeeps, ReadErrorKeeps
<1>4. CASE PeerCloses \/ PeerGone
  BY <1>4, PeerKeeps
<1>5. CASE Waiting \/ UNCHANGED vars
  BY <1>5, PeerKeeps DEF Waiting
<1> QED
  BY <1>1, <1>2, <1>3, <1>4, <1>5 DEF Next

(* The invariant gives the two properties it does not contain. *)
LEMMA IInvImplies == IInv => OneWriteAtATime /\ NothingStranded
  BY DEF IInv, Operations, OneWriteAtATime, NothingStranded

(* The inductive invariant holds throughout every session. *)
THEOREM Invariance == Spec => []IInv
<1>1. Init => IInv
  BY InitIInv
<1>2. IInv /\ [Next]_vars => IInv'
  BY NextIInv
<1> QED
  BY <1>1, <1>2, PTL DEF Spec

-----------------------------------------------------------------------------
(* ws_ never has two operations in progress, however sends from any number  *)
(* of threads interleave with completions, errors and a close.              *)
THEOREM OneWriter == Spec => []OneWriteAtATime
  BY Invariance, IInvImplies, PTL

(* No queued frame of an open session is left without a write in progress.  *)
THEOREM NoneStranded == Spec => []NothingStranded
  BY Invariance, IInvImplies, PTL

(* write_queue_ keeps the order of send_frame: what is written is a prefix  *)
(* of what was posted.                                                      *)
THEOREM Ordered == Spec => []InOrder
<1>1. IInv => InOrder
  BY DEF IInv
<1> QED
  BY Invariance, <1>1, PTL

(* Nothing is written after the close frame, and nothing is in progress.    *)
THEOREM CloseEndsWriting == Spec => []CloseIsLast
<1>1. IInv => CloseIsLast
  BY DEF IInv
<1> QED
  BY Invariance, <1>1, PTL

(* The frames of any number of threads reach the peer through one queue:    *)
(* the four properties above, together with the types of the state.         *)
THEOREM DeliveryCorrect == Spec => []FramesDelivered
<1>1. IInv => TypeOK
  BY DEF IInv
<1>2. TypeOK /\ OneWriteAtATime /\ NothingStranded /\ InOrder /\ CloseIsLast
        => FramesDelivered
  BY DEF FramesDelivered
<1> QED
  BY <1>1, <1>2, Invariance, OneWriter, NoneStranded, Ordered,
     CloseEndsWriting, PTL

(* do_close dispatches the end once, however many of its callers find the   *)
(* session broken, and releases the registry entry with it.                 *)
THEOREM EndsOnce == Spec => []ReportedOnce
<1>1. IInv => ReportedOnce
  BY DEF IInv
<1> QED
  BY Invariance, <1>1, PTL

-----------------------------------------------------------------------------
(* The router: any patterns, paths and threads that dispatch or register.   *)
CONSTANTS Params, Dispatchers, Patterns, Paths, Base, NoPath, MaxAdds
VARIABLES routes, adds, readers, path, running, called, adding, latest, looked

Router == INSTANCE WebsocketRouter WITH Threads <- Dispatchers

(* The instance's copies of the library's operators are the library's. *)
LEMMA SameCardinality ==
  ASSUME NEW S
  PROVE  Router!Cardinality(S) = Cardinality(S)
  BY Zenon DEF Router!Cardinality, Cardinality

LEMMA SameFinite ==
  ASSUME NEW S
  PROVE  Router!IsFiniteSet(S) = IsFiniteSet(S)
  BY Zenon DEF Router!IsFiniteSet, IsFiniteSet

(* The smallest of a set of positions. *)
LEMMA FirstIsLeast ==
  ASSUME NEW S \in SUBSET Nat, S # {}
  PROVE  Router!FirstOf(S) \in S /\ \A j \in S : Router!FirstOf(S) <= j
<1>1. PICK R : R = OpToRel(<, Nat)
  OBVIOUS
<1>2. IsWellFoundedOn(R, Nat)
  BY <1>1, NatLessThanWellFounded
<1>3. PICK x \in S : \A y \in S : <<y, x>> \notin R
  BY <1>2, WFMin
<1>4. \A y \in S : <<y, x>> \in Nat \X Nat
  OBVIOUS
<1>5. \A y \in S : ~(y < x)
  BY <1>1, <1>3, <1>4 DEF OpToRel
<1>6. \A y \in S : x <= y
  BY <1>5
<1> QED
  BY <1>6 DEF Router!FirstOf

(* The number of parameters of a pattern. *)
LEMMA ParamCount ==
  ASSUME NEW p \in Seq(STRING)
  PROVE  /\ Cardinality(Router!ParamAt(p)) \in Nat
         /\ Cardinality(Router!ParamAt(p)) = 0 <=> Router!ParamAt(p) = {}
<1>1. DOMAIN p = 1..Len(p) /\ Len(p) \in Nat
  OBVIOUS
<1>2. Router!ParamAt(p) \in SUBSET (1..Len(p))
  BY <1>1 DEF Router!ParamAt
<1>3. IsFiniteSet(1..Len(p))
  BY <1>1, FS_Interval
<1>4. IsFiniteSet(Router!ParamAt(p))
  BY <1>2, <1>3, FS_Subset
<1> QED
  BY <1>4, FS_CardinalityType, FS_EmptySet

(* compare_specificity puts a path before every other pattern that it       *)
(* matches, and a path without parameters matches itself.                   *)
LEMMA StaticBefore ==
  ASSUME NEW s \in Seq(STRING), NEW q \in Seq(STRING), q # s,
         Router!ParamAt(s) = {}, Router!Matches(q, s)
  PROVE  Router!Before(s, q)
<1>1. Router!ParamAt(q) # {}
  BY DEF Router!Matches
<1>2. Len(s) \in Nat /\ Len(q) \in Nat
  OBVIOUS
<1>3. Router!Extra(q, s) >= 0
  BY <1>1 DEF Router!Matches
<1>4. Len(s) >= Len(q)
  BY <1>2, <1>3 DEF Router!Extra
<1>5. PICK m : m = Cardinality(Router!ParamAt(s))
  OBVIOUS
<1>6. PICK n : n = Cardinality(Router!ParamAt(q))
  OBVIOUS
<1>7. m = 0 /\ n \in Nat /\ n # 0
  BY <1>1, <1>5, <1>6, ParamCount
<1>8. Cardinality(Router!ParamAt(s)) < Cardinality(Router!ParamAt(q))
  BY <1>5, <1>6, <1>7
<1>9. CASE Len(s) # Len(q)
  <2>1. Len(s) > Len(q)
    BY <1>2, <1>4, <1>9
  <2> QED
    BY <1>9, <2>1, Zenon DEF Router!Before
<1>10. CASE Len(s) = Len(q)
  <2>1. ~(Len(s) # Len(q))
    BY <1>10
  <2> QED
    BY <1>8, <2>1, SameCardinality, Zenon DEF Router!Before
<1> QED
  BY <1>9, <1>10

(* Concatenation keeps different patterns apart. *)
LEMMA BaseApart ==
  ASSUME NEW b \in Seq(STRING), NEW p \in Seq(STRING), NEW q \in Seq(STRING),
         b \o p = b \o q
  PROVE  p = q
<1>1. /\ Len(b) \in Nat /\ Len(p) \in Nat /\ Len(q) \in Nat
      /\ Len(b \o p) = Len(b) + Len(p) /\ Len(b \o q) = Len(b) + Len(q)
  OBVIOUS
<1>2. Len(p) = Len(q)
  BY <1>1
<1>3. \A i \in 1..Len(p) : p[i] = (b \o p)[Len(b) + i]
  BY <1>1
<1>4. \A i \in 1..Len(q) : q[i] = (b \o q)[Len(b) + i]
  BY <1>1
<1>5. \A i \in 1..Len(p) : p[i] = q[i]
  BY <1>2, <1>3, <1>4
<1> QED
  BY <1>2, <1>5

(* What the sort of add_handler returns: the old routes and the new one, in *)
(* some order, none of them twice.                                          *)
LEMMA SortedIn ==
  ASSUME NEW R, NEW old \in Seq(R), NEW r \in R, NEW s,
         s \in Router!SetToSeqs(Router!ToSet(old) \cup {r})
  PROVE  /\ s \in Seq(R)
         /\ \A i \in DOMAIN s : s[i] = r \/ \E j \in DOMAIN old : s[i] = old[j]
         /\ \A i, j \in DOMAIN s : s[i] = s[j] => i = j
<1>1. PICK S : S = Router!ToSet(old) \cup {r}
  OBVIOUS
<1>2. S = {old[j] : j \in DOMAIN old} \cup {r}
  BY <1>1 DEF Router!ToSet
<1>3. IsFiniteSet(Router!ToSet(old))
  <2>1. old \in Seq(Router!ToSet(old)) /\ DOMAIN old = 1..Len(old)
    BY DEF Router!ToSet
  <2> QED
    BY <2>1 DEF IsFiniteSet, Router!ToSet
<1>4. Cardinality(S) \in Nat
  BY <1>1, <1>3, FS_AddElement, FS_CardinalityType
<1>5. PICK n : n = Router!Cardinality(S)
  OBVIOUS
<1>6. n \in Nat
  BY <1>4, <1>5, SameCardinality
<1>7. s \in [1..n -> S] /\ \A i, j \in 1..n : i # j => s[i] # s[j]
  BY <1>1, <1>5 DEF Router!SetToSeqs
<1>8. S \subseteq R
  BY <1>2
<1> QED
  BY <1>2, <1>6, <1>7, <1>8

-----------------------------------------------------------------------------
(* The inductive invariant of the router. *)

WsRoutes == [path : Seq(STRING), handler : Nat]

(* The routes are sorted and no path has two; handlers are registrations. *)
RoutesInv ==
  /\ adds \in Nat /\ routes \in Seq(WsRoutes)
  /\ \A i \in DOMAIN routes :
       1 <= routes[i].handler /\ routes[i].handler <= adds
  /\ Router!Sorted(routes)
  /\ \A i, j \in DOMAIN routes : routes[i].path = routes[j].path => i = j

(* A thread that looks up or runs a handler has a path; what runs was       *)
(* registered.                                                              *)
ThreadsInv ==
  /\ path \in [Dispatchers -> Paths \cup {NoPath}]
  /\ running \in [Dispatchers -> WsRoutes \cup {Router!NoRoute}]
  /\ adding \in [Dispatchers -> Patterns \cup {NoPath}]
  /\ \A t \in Dispatchers :
       running[t] # Router!NoRoute \/ t \in readers => path[t] \in Paths
  /\ \A t \in Dispatchers :
       running[t] # Router!NoRoute => running[t].handler <= adds

(* A route has the handlers that were registered last for its path. *)
LatestInv ==
  /\ latest \in [Patterns -> Nat]
  /\ \A i \in DOMAIN routes, p \in Patterns :
       routes[i].path = Base \o p => routes[i].handler = latest[p]

WsInv == RoutesInv /\ ThreadsInv /\ LatestInv /\ Router!StaticFirst

(* A thread that runs nothing runs no route of a pattern. *)
LEMMA NoRouteHasNoPath ==
  ASSUME Router!WsRouterAssumption, NEW p \in Patterns
  PROVE  Router!NoRoute.path # Base \o p
  BY DEF Router!WsRouterAssumption, Router!NoRoute

(* No handler is registered at first. *)
LEMMA WsInit ==
  ASSUME Router!WsRouterAssumption, Router!Init
  PROVE  WsInv
<1>1. RoutesInv
  BY DEF Router!Init, RoutesInv, Router!Sorted
<1>2. ThreadsInv
  BY DEF Router!Init, ThreadsInv
<1>3. LatestInv
  BY DEF Router!Init, LatestInv
<1>4. Router!StaticFirst
  BY DEF Router!Init, Router!StaticFirst
<1> QED
  BY <1>1, <1>2, <1>3, <1>4 DEF WsInv

(* The first route that matches a path is, if the path has a route of its   *)
(* own, this route.                                                         *)
LEMMA OwnRouteFirst ==
  ASSUME RoutesInv, NEW s \in Seq(STRING), Router!ParamAt(s) = {},
         NEW i \in DOMAIN routes, routes[i].path = s,
         NEW k, k = Router!FirstOf({h \in DOMAIN routes :
                                      Router!Matches(routes[h].path, s)})
  PROVE  k \in DOMAIN routes /\ routes[k].path = s
<1>1. PICK hits : hits = {h \in DOMAIN routes :
                            Router!Matches(routes[h].path, s)}
  OBVIOUS
<1>2. DOMAIN routes \subseteq Nat
  BY DEF RoutesInv
<1>3. Router!Matches(s, s)
  BY DEF Router!Matches
<1>4. i \in hits
  BY <1>1, <1>3
<1>5. hits \in SUBSET Nat /\ hits # {}
  BY <1>1, <1>2, <1>4
<1>6. k \in hits /\ k <= i
  BY <1>1, <1>4, <1>5, FirstIsLeast
<1>7. k \in DOMAIN routes /\ Router!Matches(routes[k].path, s)
  BY <1>1, <1>6
<1>8. ASSUME routes[k].path # s
      PROVE  FALSE
  <2>1. routes[k] \in WsRoutes
    BY <1>7 DEF RoutesInv
  <2>2. routes[k].path \in Seq(STRING)
    BY <2>1 DEF WsRoutes
  <2>3. Router!Before(s, routes[k].path)
    BY <1>7, <1>8, <2>2, StaticBefore
  <2>4. k # i
    BY <1>8
  <2>5. k < i
    BY <1>2, <1>6, <1>7, <2>4
  <2>6. ~Router!Before(routes[i].path, routes[k].path)
    BY <1>7, <2>5 DEF RoutesInv, Router!Sorted
  <2> QED
    BY <2>3, <2>6
<1> QED
  BY <1>7, <1>8

-----------------------------------------------------------------------------
(* Every step keeps the invariant. *)

LEMMA WsBegin ==
  ASSUME Router!WsRouterAssumption, WsInv,
         NEW t \in Dispatchers, NEW s \in Paths, Router!BeginDispatch(t, s)
  PROVE  WsInv'
<1> USE DEF WsInv
<1>1. RoutesInv' /\ LatestInv'
  BY DEF Router!BeginDispatch, RoutesInv, LatestInv, Router!Sorted
<1>2. running[t] = Router!NoRoute
  BY DEF Router!BeginDispatch, ThreadsInv, Router!WsRouterAssumption
<1>3. ThreadsInv'
  BY DEF Router!BeginDispatch, ThreadsInv
<1>4. Router!StaticFirst'
  BY <1>2 DEF Router!BeginDispatch, Router!StaticFirst, ThreadsInv
<1> QED
  BY <1>1, <1>3, <1>4

LEMMA WsFound ==
  ASSUME Router!WsRouterAssumption, WsInv,
         NEW t \in Dispatchers, Router!Found(t)
  PROVE  WsInv'
<1> USE DEF WsInv
<1>1. PICK hits : hits = {h \in DOMAIN routes :
                            Router!Matches(routes[h].path, path[t])}
  OBVIOUS
<1>2. hits \in SUBSET Nat /\ hits # {}
  BY <1>1 DEF Router!Found, RoutesInv
<1>3. PICK k : k = Router!FirstOf(hits)
  OBVIOUS
<1>4. k \in DOMAIN routes
  BY <1>1, <1>2, <1>3, FirstIsLeast
<1>5. /\ running' = [running EXCEPT ![t] = routes[k]]
      /\ t \in readers /\ running[t] = Router!NoRoute
      /\ readers' = readers \ {t}
      /\ UNCHANGED <<routes, adds, path, adding, latest>>
  BY <1>1, <1>3 DEF Router!Found, Router!AfterCopy
<1>6. routes[k] \in WsRoutes /\ routes[k].handler <= adds
  BY <1>4 DEF RoutesInv
<1>7. path[t] \in Paths
  BY <1>5 DEF ThreadsInv
<1>8. running'[t] = routes[k] /\ \A u \in Dispatchers \ {t} : running'[u] = running[u]
  BY <1>5 DEF ThreadsInv
<1>9. RoutesInv' /\ LatestInv'
  BY <1>5 DEF RoutesInv, LatestInv, Router!Sorted
<1>10. ThreadsInv'
  <2>1. running' \in [Dispatchers -> WsRoutes \cup {Router!NoRoute}]
    BY <1>5, <1>6 DEF ThreadsInv
  <2> QED
    BY <1>5, <1>6, <1>7, <1>8, <2>1 DEF ThreadsInv
<1>11. Router!StaticFirst'
  <2>1. SUFFICES ASSUME NEW u \in Dispatchers,
                        running'[u] # Router!NoRoute,
                        running'[u].path # path[u], Router!ParamAt(path[u]) = {},
                        NEW i \in DOMAIN routes, routes[i].path = path[u]
                 PROVE  routes[i].handler > running'[u].handler
    BY <1>5 DEF Router!StaticFirst
  <2>2. CASE u = t
    <3>1. path[t] \in Seq(STRING)
      BY <1>7 DEF Router!WsRouterAssumption
    <3>2. routes[k].path = path[t]
      BY <1>1, <1>3, <2>1, <2>2, <3>1, OwnRouteFirst
    <3> QED
      BY <1>8, <2>1, <2>2, <3>2
  <2>3. CASE u # t
    BY <1>8, <2>1, <2>3 DEF Router!StaticFirst
  <2> QED
    BY <2>2, <2>3
<1> QED
  BY <1>9, <1>10, <1>11

LEMMA WsInvokes ==
  ASSUME Router!WsRouterAssumption, WsInv,
         NEW t \in Dispatchers, Router!Invoke(t)
  PROVE  WsInv'
<1> USE DEF WsInv
<1>1. RoutesInv' /\ LatestInv'
  BY DEF Router!Invoke, RoutesInv, LatestInv, Router!Sorted
<1>2. ThreadsInv'
  BY DEF Router!Invoke, ThreadsInv
<1>3. Router!StaticFirst'
  BY DEF Router!Invoke, Router!StaticFirst, ThreadsInv
<1> QED
  BY <1>1, <1>2, <1>3

LEMMA WsNotFound ==
  ASSUME Router!WsRouterAssumption, WsInv,
         NEW t \in Dispatchers, Router!NoHandlerFound(t)
  PROVE  WsInv'
<1> USE DEF WsInv
<1>1. RoutesInv' /\ LatestInv'
  BY DEF Router!NoHandlerFound, RoutesInv, LatestInv, Router!Sorted
<1>2. ThreadsInv'
  BY DEF Router!NoHandlerFound, ThreadsInv
<1>3. Router!StaticFirst'
  BY DEF Router!NoHandlerFound, Router!StaticFirst, ThreadsInv
<1> QED
  BY <1>1, <1>2, <1>3

LEMMA WsReturns ==
  ASSUME Router!WsRouterAssumption, WsInv,
         NEW t \in Dispatchers, Router!HandlerReturns(t)
  PROVE  WsInv'
<1> USE DEF WsInv
<1>1. RoutesInv' /\ LatestInv'
  BY DEF Router!HandlerReturns, RoutesInv, LatestInv, Router!Sorted
<1>2. ThreadsInv'
  BY DEF Router!HandlerReturns, ThreadsInv
<1>3. Router!StaticFirst'
  BY DEF Router!HandlerReturns, Router!StaticFirst, ThreadsInv
<1> QED
  BY <1>1, <1>2, <1>3

LEMMA WsWants ==
  ASSUME Router!WsRouterAssumption, WsInv,
         NEW t \in Dispatchers, NEW p \in Patterns, Router!WantAdd(t, p)
  PROVE  WsInv'
<1> USE DEF WsInv
<1>1. RoutesInv' /\ LatestInv'
  BY DEF Router!WantAdd, RoutesInv, LatestInv, Router!Sorted
<1>2. ThreadsInv'
  BY DEF Router!WantAdd, ThreadsInv
<1>3. Router!StaticFirst'
  BY DEF Router!WantAdd, Router!StaticFirst, ThreadsInv
<1> QED
  BY <1>1, <1>2, <1>3

(* What add_handler does to the routes: every route that is there after it  *)
(* was there before, with another path, or is the new one.                  *)
AddedOnly(p) ==
  /\ routes' \in Seq(WsRoutes) /\ Router!Sorted(routes')
  /\ \A i, j \in DOMAIN routes' :
       routes'[i].path = routes'[j].path => i = j
  /\ \A i \in DOMAIN routes' :
       \/ routes'[i] = [path |-> p, handler |-> adds + 1]
       \/ /\ routes'[i].path # p
          /\ \E j \in DOMAIN routes : routes'[i] = routes[j]

LEMMA WsReplaced ==
  ASSUME RoutesInv, NEW p \in Seq(STRING), Router!RouteOf(p) # {},
         routes' = [routes EXCEPT ![Router!FirstOf(Router!RouteOf(p))] =
                      [path |-> p, handler |-> adds + 1]]
  PROVE  AddedOnly(p)
<1>1. PICK k : k = Router!FirstOf(Router!RouteOf(p))
  OBVIOUS
<1>2. Router!RouteOf(p) \in SUBSET Nat
  BY DEF Router!RouteOf, RoutesInv
<1>3. k \in DOMAIN routes /\ routes[k].path = p
  BY <1>1, <1>2, FirstIsLeast DEF Router!RouteOf
<1>4. PICK r : r = [path |-> p, handler |-> adds + 1]
  OBVIOUS
<1>5. r \in WsRoutes /\ r.path = p
  BY <1>4 DEF WsRoutes, RoutesInv
<1>6. routes' = [routes EXCEPT ![k] = r]
  BY <1>1, <1>4
<1>7. routes' \in Seq(WsRoutes) /\ DOMAIN routes' = DOMAIN routes
  <2>1. /\ routes \in [1..Len(routes) -> WsRoutes] /\ Len(routes) \in Nat
        /\ DOMAIN routes = 1..Len(routes)
    BY DEF RoutesInv
  <2>2. PICK n \in Nat : n = Len(routes)
    BY <2>1
  <2>3. routes' \in [1..n -> WsRoutes]
    BY <1>5, <1>6, <2>1, <2>2
  <2>4. PICK f : f = routes'
    OBVIOUS
  <2>5. f \in [1..n -> WsRoutes]
    BY <2>3, <2>4
  <2>6. f \in Seq(WsRoutes)
    BY <2>5
  <2> QED
    BY <2>1, <2>2, <2>3, <2>4, <2>6
<1>8. \A i \in DOMAIN routes : routes'[i] = IF i = k THEN r ELSE routes[i]
  BY <1>6 DEF RoutesInv
<1>9. \A i \in DOMAIN routes : routes'[i].path = routes[i].path
  BY <1>3, <1>5, <1>8
<1>10. Router!Sorted(routes')
  BY <1>7, <1>9 DEF RoutesInv, Router!Sorted
<1>11. \A i, j \in DOMAIN routes' :
         routes'[i].path = routes'[j].path => i = j
  BY <1>7, <1>9 DEF RoutesInv
<1>12. \A i \in DOMAIN routes : i # k => routes[i].path # p
  BY <1>3 DEF RoutesInv
<1>13. \A i \in DOMAIN routes' :
         routes'[i] = r \/ (routes'[i].path # p /\ routes'[i] = routes[i])
  BY <1>7, <1>8, <1>12
<1> QED
  BY <1>4, <1>7, <1>10, <1>11, <1>13 DEF AddedOnly

LEMMA WsInserted ==
  ASSUME RoutesInv, NEW p \in Seq(STRING), Router!RouteOf(p) = {},
         routes' \in Router!SetToSeqs(Router!ToSet(routes)
                       \cup {[path |-> p, handler |-> adds + 1]}),
         Router!Sorted(routes')
  PROVE  AddedOnly(p)
<1>1. PICK r : r = [path |-> p, handler |-> adds + 1]
  OBVIOUS
<1>2. r \in WsRoutes /\ r.path = p
  BY <1>1 DEF WsRoutes, RoutesInv
<1>3. routes' \in Router!SetToSeqs(Router!ToSet(routes) \cup {r})
  BY <1>1
<1>4. routes \in Seq(WsRoutes)
  BY DEF RoutesInv
<1>5. /\ routes' \in Seq(WsRoutes)
      /\ \A i \in DOMAIN routes' :
           routes'[i] = r \/ \E j \in DOMAIN routes : routes'[i] = routes[j]
      /\ \A i, j \in DOMAIN routes' : routes'[i] = routes'[j] => i = j
  BY <1>2, <1>3, <1>4, SortedIn
<1>6. \A j \in DOMAIN routes : routes[j].path # p
  BY DEF Router!RouteOf
<1>7. ASSUME NEW i \in DOMAIN routes', NEW j \in DOMAIN routes',
             routes'[i].path = routes'[j].path
      PROVE  routes'[i] = routes'[j]
  <2>1. CASE routes'[i] = r \/ routes'[j] = r
    BY <1>2, <1>5, <1>6, <1>7, <2>1
  <2>2. CASE routes'[i] # r /\ routes'[j] # r
    <3>1. PICK a \in DOMAIN routes : routes'[i] = routes[a]
      BY <1>5, <2>2
    <3>2. PICK b \in DOMAIN routes : routes'[j] = routes[b]
      BY <1>5, <2>2
    <3>3. a = b
      BY <1>7, <3>1, <3>2 DEF RoutesInv
    <3> QED
      BY <3>1, <3>2, <3>3
  <2> QED
    BY <2>1, <2>2
<1>8. \A i, j \in DOMAIN routes' :
        routes'[i].path = routes'[j].path => i = j
  BY <1>5, <1>7
<1>9. \A i \in DOMAIN routes' :
        \/ routes'[i] = r
        \/ routes'[i].path # p /\ \E j \in DOMAIN routes : routes'[i] = routes[j]
  BY <1>5, <1>6
<1> QED
  BY <1>1, <1>5, <1>8, <1>9 DEF AddedOnly

LEMMA WsAdds ==
  ASSUME Router!WsRouterAssumption, WsInv,
         NEW t \in Dispatchers, Router!AddHandler(t)
  PROVE  WsInv'
<1> USE DEF WsInv
<1>1. PICK p : p = Base \o adding[t]
  OBVIOUS
<1>2. adding[t] \in Patterns
  BY DEF Router!AddHandler, ThreadsInv
<1>3. p \in Seq(STRING)
  BY <1>1, <1>2 DEF Router!WsRouterAssumption
<1>4. AddedOnly(p)
  <2>1. CASE Router!RouteOf(p) # {}
    <3>1. routes' = [routes EXCEPT ![Router!FirstOf(Router!RouteOf(p))] =
                       [path |-> p, handler |-> adds + 1]]
      BY <1>1, <2>1 DEF Router!AddHandler
    <3> QED
      BY <1>3, <2>1, <3>1, WsReplaced
  <2>2. CASE Router!RouteOf(p) = {}
    <3>1. /\ routes' \in Router!SetToSeqs(Router!ToSet(routes)
                          \cup {[path |-> p, handler |-> adds + 1]})
          /\ Router!Sorted(routes')
      BY <1>1, <2>2 DEF Router!AddHandler
    <3> QED
      BY <1>3, <2>2, <3>1, WsInserted
  <2> QED
    BY <2>1, <2>2
<1>5. /\ adds' = adds + 1 /\ adds \in Nat
      /\ latest' = [latest EXCEPT ![adding[t]] = adds + 1]
      /\ adding' = [adding EXCEPT ![t] = NoPath]
      /\ UNCHANGED <<readers, path, running>>
  BY DEF Router!AddHandler, RoutesInv
<1>6. \A i \in DOMAIN routes' :
        \/ routes'[i].path = p /\ routes'[i].handler = adds + 1
        \/ /\ routes'[i].path # p
           /\ \E j \in DOMAIN routes : routes'[i] = routes[j]
  BY <1>4 DEF AddedOnly
<1>7. RoutesInv'
  <2>1. \A j \in DOMAIN routes : /\ routes[j].handler \in Nat
                                 /\ 1 <= routes[j].handler
                                 /\ routes[j].handler <= adds
    <3>1. \A j \in DOMAIN routes : routes[j] \in WsRoutes
      BY DEF RoutesInv
    <3>2. \A r \in WsRoutes : r.handler \in Nat
      BY DEF WsRoutes
    <3> QED
      BY <3>1, <3>2 DEF RoutesInv
  <2>2. \A i \in DOMAIN routes' :
          1 <= routes'[i].handler /\ routes'[i].handler <= adds'
    BY <1>5, <1>6, <2>1
  <2> QED
    BY <1>4, <1>5, <2>2 DEF RoutesInv, AddedOnly
<1>8. \A u \in Dispatchers : running[u] # Router!NoRoute =>
        running[u].handler \in Nat /\ running[u].handler <= adds
  BY DEF ThreadsInv, WsRoutes
<1>9. ThreadsInv'
  <2>1. \A u \in Dispatchers :
          running[u] # Router!NoRoute => running[u].handler <= adds + 1
    BY <1>5, <1>8
  <2> QED
    BY <1>5, <2>1 DEF ThreadsInv
<1>10. LatestInv'
  <2>1. latest' \in [Patterns -> Nat]
    <3>1. PICK n \in Nat : n = adds + 1
      BY <1>5
    <3>2. latest' = [latest EXCEPT ![adding[t]] = n]
      BY <1>5, <3>1
    <3> QED
      BY <3>2 DEF LatestInv
  <2>2. ASSUME NEW i \in DOMAIN routes', NEW q \in Patterns,
               routes'[i].path = Base \o q
        PROVE  routes'[i].handler = latest'[q]
    <3>1. CASE q = adding[t]
      <4>1. latest'[q] = adds + 1
        BY <1>2, <1>5, <3>1 DEF LatestInv
      <4> QED
        BY <1>1, <1>6, <2>2, <3>1, <4>1
    <3>2. CASE q # adding[t]
      <4>1. p # Base \o q
        BY <1>1, <1>2, <3>2, BaseApart DEF Router!WsRouterAssumption
      <4>2. PICK j \in DOMAIN routes : routes'[i] = routes[j]
        BY <1>6, <2>2, <4>1
      <4>3. latest'[q] = latest[q]
        BY <1>5, <3>2 DEF LatestInv
      <4> QED
        BY <2>2, <4>2, <4>3 DEF LatestInv
    <3> QED
      BY <3>1, <3>2
  <2> QED
    BY <2>1, <2>2 DEF LatestInv
<1>11. Router!StaticFirst'
  <2>1. SUFFICES ASSUME NEW u \in Dispatchers,
                        running[u] # Router!NoRoute,
                        running[u].path # path[u], Router!ParamAt(path[u]) = {},
                        NEW i \in DOMAIN routes', routes'[i].path = path[u]
                 PROVE  routes'[i].handler > running[u].handler
    BY <1>5 DEF Router!StaticFirst
  <2>2. CASE routes'[i].handler = adds + 1
    BY <1>5, <1>8, <2>1, <2>2
  <2>3. CASE \E j \in DOMAIN routes : routes'[i] = routes[j]
    BY <2>1, <2>3 DEF Router!StaticFirst
  <2> QED
    BY <1>6, <2>2, <2>3
<1> QED
  BY <1>7, <1>9, <1>10, <1>11

(* Every step keeps the invariant, whatever thread takes it. *)
LEMMA WsStep ==
  ASSUME Router!WsRouterAssumption, WsInv, [Router!Next]_(Router!vars)
  PROVE  WsInv'
<1>1. CASE UNCHANGED Router!vars
  BY <1>1 DEF Router!vars, WsInv, RoutesInv, ThreadsInv, LatestInv,
       Router!StaticFirst, Router!Sorted
<1>2. ASSUME NEW t \in Dispatchers, Router!Step(t)
      PROVE  WsInv'
  BY <1>2, WsFound, WsNotFound, WsInvokes, WsReturns DEF Router!Step
<1>3. ASSUME NEW t \in Dispatchers, Router!AddHandler(t)
      PROVE  WsInv'
  BY <1>3, WsAdds
<1>4. ASSUME NEW t \in Dispatchers, NEW s \in Paths, Router!BeginDispatch(t, s)
      PROVE  WsInv'
  BY <1>4, WsBegin
<1>5. ASSUME NEW t \in Dispatchers, NEW p \in Patterns, Router!WantAdd(t, p)
      PROVE  WsInv'
  BY <1>5, WsWants
<1> QED
  BY <1>1, <1>2, <1>3, <1>4, <1>5 DEF Router!Next

-----------------------------------------------------------------------------
(* What a thread found was registered last at the time, so a handler that   *)
(* is not the last one any more was replaced since then.                    *)
LookedInv ==
  /\ looked \in [Dispatchers -> Nat]
  /\ \A t \in Dispatchers : looked[t] <= adds
  /\ \A t \in Dispatchers, p \in Patterns :
       running[t].path = Base \o p
         => running[t].handler = latest[p] \/ latest[p] > looked[t]

(* A lookup copies the last registration of its path. *)
LEMMA LookedFound ==
  ASSUME Router!WsRouterAssumption, WsInv, LookedInv,
         NEW t \in Dispatchers, Router!Found(t)
  PROVE  LookedInv'
<1>1. PICK hits : hits = {h \in DOMAIN routes :
                            Router!Matches(routes[h].path, path[t])}
  OBVIOUS
<1>2. hits \in SUBSET Nat /\ hits # {}
  BY <1>1 DEF Router!Found, RoutesInv, WsInv
<1>3. PICK k : k = Router!FirstOf(hits)
  OBVIOUS
<1>4. k \in DOMAIN routes
  BY <1>1, <1>2, <1>3, FirstIsLeast
<1>5. /\ running' = [running EXCEPT ![t] = routes[k]]
      /\ looked' = [looked EXCEPT ![t] = adds]
      /\ UNCHANGED <<adds, latest>>
  BY <1>1, <1>3 DEF Router!Found
<1>6. running'[t] = routes[k]
      /\ \A u \in Dispatchers \ {t} : running'[u] = running[u]
  BY <1>5 DEF ThreadsInv, WsInv
<1>7. /\ looked' \in [Dispatchers -> Nat] /\ looked'[t] = adds
      /\ \A u \in Dispatchers \ {t} : looked'[u] = looked[u]
  BY <1>5 DEF LookedInv, WsInv, RoutesInv
<1>8. \A u \in Dispatchers : looked'[u] <= adds'
  BY <1>5, <1>7 DEF LookedInv, WsInv, RoutesInv
<1>9. ASSUME NEW u \in Dispatchers, NEW p \in Patterns,
             running'[u].path = Base \o p
      PROVE  running'[u].handler = latest[p] \/ latest[p] > looked'[u]
  <2>1. CASE u = t
    BY <1>4, <1>6, <1>9, <2>1 DEF LatestInv, WsInv
  <2>2. CASE u # t
    BY <1>6, <1>7, <1>9, <2>2 DEF LookedInv
  <2> QED
    BY <2>1, <2>2
<1> QED
  BY <1>5, <1>7, <1>8, <1>9 DEF LookedInv

(* A thread whose handler returned has no route. *)
LEMMA LookedReturns ==
  ASSUME Router!WsRouterAssumption, WsInv, LookedInv,
         NEW t \in Dispatchers, Router!HandlerReturns(t)
  PROVE  LookedInv'
<1>1. /\ running' = [running EXCEPT ![t] = Router!NoRoute]
      /\ looked' = [looked EXCEPT ![t] = 0]
      /\ UNCHANGED <<adds, latest>>
  BY DEF Router!HandlerReturns
<1>2. running'[t] = Router!NoRoute
      /\ \A u \in Dispatchers \ {t} : running'[u] = running[u]
  BY <1>1 DEF ThreadsInv, WsInv
<1>3. /\ looked' \in [Dispatchers -> Nat] /\ looked'[t] = 0
      /\ \A u \in Dispatchers \ {t} : looked'[u] = looked[u]
  BY <1>1 DEF LookedInv
<1>4. \A u \in Dispatchers : looked'[u] <= adds'
  BY <1>1, <1>3 DEF LookedInv, WsInv, RoutesInv
<1>5. ASSUME NEW u \in Dispatchers, NEW p \in Patterns,
             running'[u].path = Base \o p
      PROVE  running'[u].handler = latest[p] \/ latest[p] > looked'[u]
  <2>1. u # t
    BY <1>2, <1>5, NoRouteHasNoPath
  <2> QED
    BY <1>2, <1>3, <1>5, <2>1 DEF LookedInv
<1> QED
  BY <1>1, <1>3, <1>4, <1>5 DEF LookedInv

(* A registration is later than every lookup so far. *)
LEMMA LookedAdds ==
  ASSUME Router!WsRouterAssumption, WsInv, LookedInv,
         NEW t \in Dispatchers, Router!AddHandler(t)
  PROVE  LookedInv'
<1>1. /\ adds \in Nat /\ adds' = adds + 1
      /\ latest' = [latest EXCEPT ![adding[t]] = adds + 1]
      /\ UNCHANGED <<running, looked>>
  BY DEF Router!AddHandler, RoutesInv, WsInv
<1>2. \A u \in Dispatchers : looked[u] \in Nat /\ looked[u] <= adds
  BY DEF LookedInv
<1>3. \A u \in Dispatchers : looked[u] <= adds + 1 /\ looked[u] < adds + 1
  BY <1>1, <1>2
<1>4. ASSUME NEW u \in Dispatchers, NEW p \in Patterns,
             running[u].path = Base \o p
      PROVE  running[u].handler = latest'[p] \/ latest'[p] > looked[u]
  <2>1. CASE p = adding[t]
    <3>1. latest'[p] = adds + 1
      BY <1>1, <2>1 DEF LatestInv, WsInv
    <3> QED
      BY <1>1, <1>2, <1>3, <3>1
  <2>2. CASE p # adding[t]
    <3>1. latest'[p] = latest[p]
      BY <1>1, <2>2 DEF LatestInv, WsInv
    <3> QED
      BY <1>4, <3>1 DEF LookedInv
  <2> QED
    BY <2>1, <2>2
<1> QED
  BY <1>1, <1>3, <1>4 DEF LookedInv

(* The other steps change neither routes nor what was found. *)
LEMMA LookedStep ==
  ASSUME Router!WsRouterAssumption, WsInv, LookedInv,
         [Router!Next]_(Router!vars)
  PROVE  LookedInv'
<1>1. ASSUME UNCHANGED <<running, looked, adds, latest>>
      PROVE  LookedInv'
  BY <1>1 DEF LookedInv
<1>2. CASE UNCHANGED Router!vars
  BY <1>1, <1>2 DEF Router!vars
<1>3. ASSUME NEW t \in Dispatchers, Router!Step(t)
      PROVE  LookedInv'
  <2>1. CASE Router!Found(t)
    BY <2>1, LookedFound
  <2>2. CASE Router!NoHandlerFound(t)
    BY <1>1, <2>2 DEF Router!NoHandlerFound
  <2>3. CASE Router!Invoke(t)
    BY <1>1, <2>3 DEF Router!Invoke
  <2>4. CASE Router!HandlerReturns(t)
    BY <2>4, LookedReturns
  <2> QED
    BY <1>3, <2>1, <2>2, <2>3, <2>4 DEF Router!Step
<1>4. ASSUME NEW t \in Dispatchers, Router!AddHandler(t)
      PROVE  LookedInv'
  BY <1>4, LookedAdds
<1>5. ASSUME NEW t \in Dispatchers, NEW s \in Paths, Router!BeginDispatch(t, s)
      PROVE  LookedInv'
  BY <1>1, <1>5 DEF Router!BeginDispatch
<1>6. ASSUME NEW t \in Dispatchers, NEW p \in Patterns, Router!WantAdd(t, p)
      PROVE  LookedInv'
  BY <1>1, <1>6 DEF Router!WantAdd
<1> QED
  BY <1>2, <1>3, <1>4, <1>5, <1>6 DEF Router!Next

(* Only Invoke calls a handler. *)
LEMMA InvokeCalls ==
  ASSUME LookedInv, [Router!Next]_(Router!vars), called \subseteq Dispatchers
  PROVE  /\ called' \subseteq Dispatchers
         /\ Router!OnlyFoundReplaced
<1>1. called' \subseteq Dispatchers
  BY DEF Router!Next, Router!Step, Router!Found, Router!NoHandlerFound,
         Router!Invoke, Router!HandlerReturns, Router!AddHandler,
         Router!BeginDispatch, Router!WantAdd, Router!vars
<1> QED
  BY <1>1 DEF Router!OnlyFoundReplaced, LookedInv

-----------------------------------------------------------------------------
(* doc/advanced.md's static route before a dynamic one, for any routes and  *)
(* paths: an event of a path that has a route without parameters goes to    *)
(* this route, unless it was registered only after the lookup.              *)
THEOREM StaticCorrect ==
  ASSUME Router!WsRouterAssumption
  PROVE  Router!Spec => []Router!StaticFirst
<1>1. Router!Init => WsInv
  BY WsInit
<1>2. WsInv /\ [Router!Next]_(Router!vars) => WsInv'
  BY WsStep
<1>3. WsInv => Router!StaticFirst
  BY DEF WsInv
<1> QED
  BY <1>1, <1>2, <1>3, PTL DEF Router!Spec

(* The handlers that dispatch calls are the last ones of their path, unless *)
(* add_handler replaced them between the copy under the lock and the call:  *)
(* for any routes, paths, threads and number of registrations.              *)
THEOREM LookupCorrect ==
  ASSUME Router!WsRouterAssumption
  PROVE  Router!Spec => [][Router!OnlyFoundReplaced]_(Router!vars)
<1> DEFINE Inv == WsInv /\ LookedInv /\ called \subseteq Dispatchers
<1>1. Router!Init => Inv
  <2>1. Router!Init => LookedInv
    <3>1. SUFFICES ASSUME Router!Init
                   PROVE  LookedInv
      OBVIOUS
    <3>2. \A t \in Dispatchers : running[t] = Router!NoRoute /\ looked[t] = 0
      BY <3>1 DEF Router!Init
    <3>3. looked \in [Dispatchers -> Nat] /\ adds = 0
      BY <3>1 DEF Router!Init
    <3> QED
      BY <3>2, <3>3, NoRouteHasNoPath DEF LookedInv
  <2> QED
    BY <2>1, WsInit DEF Router!Init
<1>2. Inv /\ [Router!Next]_(Router!vars) => Inv'
  BY WsStep, LookedStep, InvokeCalls
<1>3. Inv /\ [Router!Next]_(Router!vars)
        => [Router!OnlyFoundReplaced]_(Router!vars)
  BY InvokeCalls
<1> QED
  BY <1>1, <1>2, <1>3, PTL DEF Router!Spec

=============================================================================
