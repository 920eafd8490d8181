-------------------------- MODULE SseSessionProofs --------------------------
(***************************************************************************)
(* Proofs that EventsWritten and EndsOnce hold of SseSession for any        *)
(* threads, events, sizes, limits and numbers of calls.                     *)
(*                                                                          *)
(* The write of a response is one token.  Impl::start and write_next make   *)
(* it, as a job an actor is about to post; it is then posted, begun on the  *)
(* socket, and at last a step of the strand: setStarted, written or resume. *)
(* The invariant is that there is one token at most, and what it says of    *)
(* the session while it is on its way.                                      *)
(***************************************************************************)
EXTENDS SseSession, SequenceTheorems, TLAPS

-----------------------------------------------------------------------------
(* Types: the steps of actors, the jobs of the strand, the operations.      *)
JobSet == [do : Jobs, arg : Events \cup {None}]
Args == {None} \cup Handlers \cup BOOLEAN \cup JobSet
          \cup {"aborted", "eof", "ok", "error"}
StepSet == [do : Calls, arg : Args]
OpSet == [op : JobSet, doomed : BOOLEAN]

Types ==
  /\ queue \in Seq(Events) /\ accepted \in Seq(Events)
  /\ wire \in Seq(Events \cup {End})
  /\ pending \in Nat
  /\ closeHandler \in Handlers \cup {None}
  /\ posted \in Seq(JobSet)
  /\ ops \in Seq(OpSet)
  /\ todo \in [Actors -> Seq(StepSet)]
  /\ registered \in Seq(Handlers)
  /\ calls \in [Handlers -> Nat]

Flags ==
  /\ startRequested \in BOOLEAN /\ started \in BOOLEAN /\ writing \in BOOLEAN
  /\ closing \in BOOLEAN /\ closed \in BOOLEAN
  /\ body \in BOOLEAN /\ bodyCancelled \in BOOLEAN /\ persistent \in BOOLEAN
  /\ serializer \in BOOLEAN /\ waitCancelled \in BOOLEAN /\ shut \in BOOLEAN
  /\ aborted \in BOOLEAN
  /\ probe \in {"none", "active", "cancelled"}
  /\ conn \in {"sse", "next", "closed"}
  /\ peer \in {"open", "sent", "gone"}

-----------------------------------------------------------------------------
(* Some actor is to do a step of T; one step at most is of T.               *)
Has(T) == \E a \in Actors : \E i \in 1..Len(todo[a]) : todo[a][i] \in T
Single(T) ==
  \A a, b \in Actors : \A i \in 1..Len(todo[a]), j \in 1..Len(todo[b]) :
    todo[a][i] \in T /\ todo[b][j] \in T => a = b /\ i = j

Doing(do) == {s \in StepSet : s.do = do}

(* What is posted is a job. *)
BadPosts == {s \in StepSet : s.do = "post" /\ s.arg \notin JobSet}
PostsJobs == ~Has(BadPosts)

(* The jobs that write, and the steps that are the token: the claims of a   *)
(* write, that post one, and those at its end.                              *)
WriteJobs == {j \in JobSet : j.do \in Writes}
Claim(j) == Step("post", j)
Tokens == {Claim(j) : j \in WriteJobs}
            \cup Doing("setStarted") \cup Doing("written") \cup Doing("resume")

(* The same of posted jobs. *)
PostedHas(T) == \E i \in 1..Len(posted) : posted[i] \in T
PostedSingle(T) ==
  \A i, j \in 1..Len(posted) : posted[i] \in T /\ posted[j] \in T => i = j

OneToken ==
  /\ Single(Tokens) /\ PostedSingle(WriteJobs) /\ Len(ops) <= 1
  /\ ~(Has(Tokens) /\ PostedHas(WriteJobs))
  /\ ~(Has(Tokens) /\ ops # <<>>)
  /\ ~(PostedHas(WriteJobs) /\ ops # <<>>)

(* Job j is on its way. *)
Carried(j) ==
  Has({Claim(j)}) \/ PostedHas({j}) \/ \E i \in 1..Len(ops) : ops[i].op = j

NoEnd == \A i \in 1..Len(wire) : wire[i] # End

(* What a write says of the session while it is on its way: the event it    *)
(* carries is the next one that was accepted, and the end of the response   *)
(* is written when no event is left and none can come.                      *)
JobOk(j) ==
  /\ j.do = "start" => ~started
  /\ j.do # "start" => started /\ serializer /\ NoEnd
  /\ j.do = "write" => /\ Len(wire) < Len(accepted)
                       /\ j.arg = accepted[Len(wire) + 1]
  /\ j.do = "finish" => closing /\ Len(wire) = Len(accepted)

TokenOk ==
  /\ \A j \in WriteJobs : Carried(j) => JobOk(j)
  /\ \A i \in 1..Len(ops) : ops[i].op \in WriteJobs /\ serializer
  /\ Has(Doing("setStarted")) => ~started /\ serializer
  /\ Has(Doing("written")) => started /\ NoEnd /\ wire # <<>>
  /\ Has(Doing("resume")) => started

HasToken == Has(Tokens) \/ PostedHas(WriteJobs) \/ ops # <<>>

(* The session while a token is there, and once it was. *)
Session ==
  /\ HasToken => startRequested /\ (started /\ ~closed => writing)
  /\ started => startRequested
  /\ started /\ ~closed => serializer

(* After the end chunk there is nothing more. *)
Ended ==
  ~NoEnd => /\ started /\ closing
            /\ Len(wire) = Len(accepted) + 1
            /\ wire[Len(wire)] = End
            /\ closed \/ Has(Doing("resume"))

(* The accepted events: those written, and those of the queue, whose first  *)
(* one is written too until its completion has been handled.                *)
Queued ==
  ~closed /\ NoEnd =>
    /\ Len(queue) <= Len(accepted)
    /\ \A i \in 1..Len(queue) :
         queue[i] = accepted[Len(accepted) - Len(queue) + i]
    /\ Len(wire) = Len(accepted) - Len(queue)
                     + (IF Has(Doing("written")) THEN 1 ELSE 0)

Wire == InOrder /\ (\A i \in 1..Len(wire) : wire[i] = End => i = Len(wire))

(* Writes and the wire, as far as they depend on each other. *)
Core == OneToken /\ TokenOk /\ Session /\ Ended /\ Queued /\ Wire

(* write_next follows what may free the writer or give it work; finish      *)
(* precedes the end of the response.                                        *)
Waking == Doing("setStarted") \cup Doing("written") \cup Doing("setClosing")
Followed ==
  \A a \in Actors : \A i \in 1..Len(todo[a]) : todo[a][i] \in Waking =>
    \E j \in 1..Len(todo[a]) : j > i /\ todo[a][j].do = "next"
Preceded ==
  \A a \in Actors : \A i \in 1..Len(todo[a]) : todo[a][i].do = "resume" =>
    closed \/ \E j \in 1..Len(todo[a]) : j < i /\ todo[a][j].do = "finish"

(* NotStranded, of sets of steps. *)
Woken ==
  started /\ ~closed /\ (queue # <<>> \/ closing) =>
    writing \/ Has(Doing("next"))

WriteInv == Core /\ Followed /\ Preceded /\ Woken

-----------------------------------------------------------------------------
(* A handler is registered once; then it is in place, dropped, about to be  *)
(* invoked, or invoked, and these only of a closed session.                 *)
Invoking(h) == {s \in StepSet : s.do = "invoke" /\ s.arg = h}
ReportInv ==
  /\ closed => closeHandler = None
  /\ closeHandler # None => closeHandler \in Range(registered)
  /\ \A h \in Handlers :
       /\ Single(Invoking(h))
       /\ Has(Invoking(h)) => /\ closed /\ calls[h] = 0
                              /\ h \in Range(registered)
       /\ calls[h] \in {0, 1}
       /\ calls[h] = 1 => closed /\ h \in Range(registered)

(* Nothing shuts the socket of a peer that is there, unless the application *)
(* cancelled.                                                               *)
CancelJobs == {j \in JobSet : j.do = "cancel"}
Cancelling == {s \in StepSet : s.do = "post" /\ s.arg.do = "cancel"}
ShutInv ==
  shut \/ Has(Cancelling) \/ PostedHas(CancelJobs)
    => aborted \/ peer # "open"

(* PendingExact, and that the running totals grow. *)
PendingInv ==
  \E total \in [0..Len(queue) -> 0..MaxPending] :
    /\ total[0] = 0
    /\ \A i \in 1..Len(queue) : total[i] = total[i - 1] + Size[queue[i]]
    /\ \A i, j \in 0..Len(queue) : i <= j => total[i] <= total[j]
    /\ pending = total[Len(queue)]

Inv ==
  /\ Types /\ Flags /\ PostsJobs /\ WriteInv /\ PendingInv /\ ReportInv
  /\ ShutInv

-----------------------------------------------------------------------------
(* How a step changes what actors have to do: a drops the first d of its    *)
(* steps and puts others in front.                                          *)
Moves(a, steps, d) ==
  /\ a \in Actors /\ steps \in Seq(StepSet)
  /\ d \in {0, 1} /\ d <= Len(todo[a])
  /\ todo' \in [Actors -> Seq(StepSet)]
  /\ \A b \in Actors : b # a => todo'[b] = todo[b]
  /\ Len(todo'[a]) = Len(steps) + Len(todo[a]) - d
  /\ \A i \in 1..Len(steps) : todo'[a][i] = steps[i]
  /\ \A i \in 1..Len(todo'[a]) :
       i > Len(steps) => todo'[a][i] = todo[a][i - Len(steps) + d]
  /\ \A i \in 1..Len(todo[a]) :
       i > d => todo'[a][i + Len(steps) - d] = todo[a][i]

(* Replacing the first step of an actor. *)
LEMMA ThenMoves ==
  ASSUME todo \in [Actors -> Seq(StepSet)], NEW a \in Actors,
         todo[a] # <<>>, NEW steps \in Seq(StepSet), Then(a, steps)
  PROVE  Moves(a, steps, 1)
<1> DEFINE rest == Tail(todo[a])
<1>1. todo[a] \in Seq(StepSet) /\ Len(todo[a]) \in Nat \ {0}
  BY EmptySeq
<1>2. /\ rest \in Seq(StepSet) /\ Len(rest) = Len(todo[a]) - 1
      /\ \A i \in 1..Len(rest) : rest[i] = todo[a][i + 1]
  BY <1>1
<1>3. Len(steps) \in Nat
  OBVIOUS
<1>4. /\ steps \o rest \in Seq(StepSet)
      /\ Len(steps \o rest) = Len(steps) + Len(rest)
      /\ \A i \in 1..Len(steps) + Len(rest) : (steps \o rest)[i] =
           IF i <= Len(steps) THEN steps[i] ELSE rest[i - Len(steps)]
  <2> HIDE DEF rest
  <2> QED
    BY <1>2, ConcatProperties
<1>5. todo' = [todo EXCEPT ![a] = steps \o rest]
  BY DEF Then
<1>6. /\ todo' \in [Actors -> Seq(StepSet)]
      /\ todo'[a] = steps \o rest
      /\ \A b \in Actors : b # a => todo'[b] = todo[b]
  <2> HIDE DEF rest
  <2> QED
    BY <1>4, <1>5
<1> HIDE DEF rest
<1>7. \A i \in 1..Len(steps) : todo'[a][i] = steps[i]
  BY <1>2, <1>3, <1>4, <1>6
<1>8. \A i \in 1..Len(todo'[a]) :
        i > Len(steps) => todo'[a][i] = todo[a][i - Len(steps) + 1]
  <2> SUFFICES ASSUME NEW i \in 1..Len(todo'[a]), i > Len(steps)
               PROVE  todo'[a][i] = todo[a][i - Len(steps) + 1]
    OBVIOUS
  <2>1. i \in 1..Len(steps) + Len(rest) /\ i - Len(steps) \in 1..Len(rest)
    BY <1>2, <1>3, <1>4, <1>6
  <2>2. todo'[a][i] = rest[i - Len(steps)]
    BY <1>3, <1>4, <1>6, <2>1
  <2> QED
    BY <1>2, <2>1, <2>2
<1>9. \A i \in 1..Len(todo[a]) :
        i > 1 => todo'[a][i + Len(steps) - 1] = todo[a][i]
  BY <1>1, <1>2, <1>3, <1>4, <1>6
<1> QED
  BY <1>1, <1>2, <1>3, <1>4, <1>6, <1>7, <1>8, <1>9 DEF Moves

(* Putting steps before the ones an actor has. *)
LEMMA FirstMoves ==
  ASSUME todo \in [Actors -> Seq(StepSet)], NEW a \in Actors,
         NEW steps \in Seq(StepSet), First(a, steps)
  PROVE  Moves(a, steps, 0)
<1>1. todo[a] \in Seq(StepSet) /\ Len(todo[a]) \in Nat /\ Len(steps) \in Nat
  OBVIOUS
<1>2. /\ steps \o todo[a] \in Seq(StepSet)
      /\ Len(steps \o todo[a]) = Len(steps) + Len(todo[a])
      /\ \A i \in 1..Len(steps) + Len(todo[a]) : (steps \o todo[a])[i] =
           IF i <= Len(steps) THEN steps[i] ELSE todo[a][i - Len(steps)]
  BY <1>1, ConcatProperties
<1>3. /\ todo' \in [Actors -> Seq(StepSet)]
      /\ todo'[a] = steps \o todo[a]
      /\ \A b \in Actors : b # a => todo'[b] = todo[b]
  BY <1>2 DEF First
<1> QED
  BY <1>1, <1>2, <1>3 DEF Moves

-----------------------------------------------------------------------------
(* What such a change leaves of the steps of a set T.                       *)

(* Nothing of T is put in front: what is of T was there.                    *)
LEMMA NoneAdded ==
  ASSUME todo \in [Actors -> Seq(StepSet)], NEW T,
         NEW a, NEW steps, NEW d, Moves(a, steps, d),
         \A i \in 1..Len(steps) : steps[i] \notin T
  PROVE  /\ Has(T)' => Has(T)
         /\ Single(T) => Single(T)'
<1>1. /\ a \in Actors /\ Len(steps) \in Nat /\ Len(todo[a]) \in Nat
      /\ Len(todo'[a]) \in Nat /\ d \in {0, 1} /\ d <= Len(todo[a])
      /\ Len(todo'[a]) = Len(steps) + Len(todo[a]) - d
  BY DEF Moves
<1>2. ASSUME NEW b \in Actors, NEW i \in 1..Len(todo'[b]), todo'[b][i] \in T
      PROVE  LET j == IF b = a THEN i - Len(steps) + d ELSE i IN
             /\ j \in 1..Len(todo[b]) /\ todo[b][j] = todo'[b][i]
             /\ b = a => i > Len(steps)
  <2>1. CASE b # a
    BY <1>2, <2>1 DEF Moves
  <2>2. CASE b = a
    <3>1. i > Len(steps)
      <4>1. i <= Len(steps) => i \in 1..Len(steps)
        BY <1>1, <2>2
      <4>2. \A k \in 1..Len(steps) : todo'[a][k] \notin T
        BY DEF Moves
      <4> QED
        BY <1>1, <1>2, <2>2, <4>1, <4>2
    <3>2. todo'[a][i] = todo[a][i - Len(steps) + d]
      BY <1>2, <2>2, <3>1 DEF Moves
    <3> QED
      BY <1>1, <1>2, <2>2, <3>1, <3>2
  <2> QED
    BY <2>1, <2>2
<1>3. Has(T)' => Has(T)
  BY <1>2 DEF Has
<1>4. ASSUME Single(T) PROVE Single(T)'
  <2> SUFFICES ASSUME NEW b \in Actors, NEW c \in Actors,
                      NEW i \in 1..Len(todo'[b]), NEW j \in 1..Len(todo'[c]),
                      todo'[b][i] \in T, todo'[c][j] \in T
               PROVE  b = c /\ i = j
    BY DEF Single
  <2> DEFINE x == IF b = a THEN i - Len(steps) + d ELSE i
             y == IF c = a THEN j - Len(steps) + d ELSE j
  <2>1. x \in 1..Len(todo[b]) /\ todo[b][x] \in T
    BY <1>2
  <2>2. y \in 1..Len(todo[c]) /\ todo[c][y] \in T
    BY <1>2
  <2>3. b = c /\ x = y
    <3> HIDE DEF x, y
    <3> QED
      BY <1>4, <2>1, <2>2 DEF Single
  <2> QED
    BY <1>1, <2>3
<1> QED
  BY <1>3, <1>4

(* Nothing of T is dropped: what was of T is there.                         *)
LEMMA NoneDropped ==
  ASSUME todo \in [Actors -> Seq(StepSet)], NEW T,
         NEW a, NEW steps, NEW d, Moves(a, steps, d),
         d = 1 => todo[a][1] \notin T,
         Has(T)
  PROVE  Has(T)'
<1>0. PICK b \in Actors : \E i \in 1..Len(todo[b]) : todo[b][i] \in T
  BY DEF Has
<1>1. PICK i \in 1..Len(todo[b]) : todo[b][i] \in T
  BY <1>0
<1>2. CASE b # a
  BY <1>1, <1>2 DEF Has, Moves
<1>3. CASE b = a
  <2>1. /\ a \in Actors /\ Len(steps) \in Nat /\ Len(todo[a]) \in Nat
        /\ Len(todo'[a]) \in Nat /\ d \in {0, 1} /\ d <= Len(todo[a])
        /\ Len(todo'[a]) = Len(steps) + Len(todo[a]) - d
    BY DEF Moves
  <2>2. i > d
    BY <1>1, <1>3, <2>1
  <2>3. todo'[a][i + Len(steps) - d] = todo[a][i]
    BY <1>3, <2>2 DEF Moves
  <2>4. i + Len(steps) - d \in 1..Len(todo'[a])
    BY <1>3, <2>1, <2>2
  <2> QED
    BY <1>1, <1>3, <2>3, <2>4 DEF Has
<1> QED
  BY <1>2, <1>3

(* The single step of T is done, and no other takes its place.              *)
LEMMA OneDone ==
  ASSUME todo \in [Actors -> Seq(StepSet)], NEW T,
         NEW a, NEW steps, Moves(a, steps, 1),
         todo[a][1] \in T, Single(T),
         \A i \in 1..Len(steps) : steps[i] \notin T
  PROVE  ~Has(T)'
<1> SUFFICES ASSUME NEW b \in Actors, NEW i \in 1..Len(todo'[b]),
                    todo'[b][i] \in T
             PROVE  FALSE
  BY DEF Has
<1>1. /\ a \in Actors /\ Len(steps) \in Nat /\ Len(todo[a]) \in Nat
      /\ Len(todo'[a]) \in Nat /\ 1 <= Len(todo[a])
      /\ Len(todo'[a]) = Len(steps) + Len(todo[a]) - 1
  BY DEF Moves
<1>2. b = a
  <2>1. b # a => todo'[b] = todo[b]
    BY DEF Moves
  <2> QED
    BY <1>1, <2>1 DEF Single
<1>3. i > Len(steps)
  BY <1>1, <1>2 DEF Moves
<1>4. todo'[a][i] = todo[a][i - Len(steps) + 1]
  BY <1>2, <1>3 DEF Moves
<1>5. i - Len(steps) + 1 \in 1..Len(todo[a]) /\ i - Len(steps) + 1 # 1
  BY <1>1, <1>2, <1>3
<1> QED
  BY <1>1, <1>2, <1>4, <1>5 DEF Single

(* The first step put in front is the single one of T. *)
LEMMA OneAdded ==
  ASSUME todo \in [Actors -> Seq(StepSet)], NEW T,
         NEW a, NEW steps, NEW d, Moves(a, steps, d), ~Has(T),
         NEW k \in 1..Len(steps),
         \A i \in 1..Len(steps) : steps[i] \in T => i = k
  PROVE  /\ Single(T)'
         /\ \A b \in Actors : \A i \in 1..Len(todo'[b]) :
              todo'[b][i] \in T => todo'[b][i] = steps[k]
<1>1. /\ a \in Actors /\ Len(steps) \in Nat /\ Len(todo[a]) \in Nat
      /\ Len(todo'[a]) \in Nat /\ d \in {0, 1} /\ d <= Len(todo[a])
      /\ Len(todo'[a]) = Len(steps) + Len(todo[a]) - d
  BY DEF Moves
<1>2. ASSUME NEW b \in Actors, NEW i \in 1..Len(todo'[b]), todo'[b][i] \in T
      PROVE  b = a /\ i = k
  <2>1. b = a
    <3>1. b # a => todo'[b] = todo[b]
      BY DEF Moves
    <3> QED
      BY <1>2, <3>1 DEF Has
  <2>2. i <= Len(steps)
    <3> SUFFICES ASSUME i > Len(steps) PROVE FALSE
      BY <1>1, <2>1
    <3>1. todo'[a][i] = todo[a][i - Len(steps) + d]
      BY <2>1 DEF Moves
    <3>2. i - Len(steps) + d \in 1..Len(todo[a])
      BY <1>1, <2>1
    <3> QED
      BY <1>1, <1>2, <2>1, <3>1, <3>2 DEF Has
  <2> QED
    BY <1>1, <1>2, <2>1, <2>2 DEF Moves
<1>3. todo'[a][k] = steps[k]
  BY DEF Moves
<1> QED
  BY <1>2, <1>3 DEF Single

(* write_next still follows: steps in front that need it bring it along.    *)
LEMMA FollowedMoves ==
  ASSUME todo \in [Actors -> Seq(StepSet)], Followed,
         NEW a, NEW steps, NEW d, Moves(a, steps, d),
         \A i \in 1..Len(steps) : steps[i] \in Waking =>
           \E j \in 1..Len(steps) : j > i /\ steps[j].do = "next"
  PROVE  Followed'
<1> SUFFICES ASSUME NEW b \in Actors, NEW i \in 1..Len(todo'[b]),
                    todo'[b][i] \in Waking
             PROVE  \E j \in 1..Len(todo'[b]) : j > i /\ todo'[b][j].do = "next"
  BY DEF Followed
<1>1. /\ a \in Actors /\ Len(steps) \in Nat /\ Len(todo[a]) \in Nat
      /\ Len(todo'[a]) \in Nat /\ d \in {0, 1} /\ d <= Len(todo[a])
      /\ Len(todo'[a]) = Len(steps) + Len(todo[a]) - d
  BY DEF Moves
<1>2. CASE b # a
  <2>1. todo'[b] = todo[b]
    BY <1>2 DEF Moves
  <2> QED
    BY <2>1 DEF Followed
<1>3. CASE b = a /\ i <= Len(steps)
  <2>1. i \in 1..Len(steps) /\ steps[i] \in Waking
    BY <1>1, <1>3 DEF Moves
  <2>2. PICK j \in 1..Len(steps) : j > i /\ steps[j].do = "next"
    BY <2>1
  <2>3. j \in 1..Len(todo'[a]) /\ todo'[a][j] = steps[j]
    BY <1>1, <2>2 DEF Moves
  <2> QED
    BY <1>3, <2>2, <2>3
<1>4. CASE b = a /\ i > Len(steps)
  <2> DEFINE k == i - Len(steps) + d
  <2>1. k \in 1..Len(todo[a]) /\ todo[a][k] = todo'[a][i]
    BY <1>1, <1>4 DEF Moves
  <2>2. PICK j \in 1..Len(todo[a]) : j > k /\ todo[a][j].do = "next"
    <3> HIDE DEF k
    <3> QED
      BY <1>1, <1>4, <2>1 DEF Followed
  <2>3. j > d /\ j + Len(steps) - d \in 1..Len(todo'[a])
        /\ j + Len(steps) - d > i
    BY <1>1, <1>4, <2>2
  <2>4. todo'[a][j + Len(steps) - d] = todo[a][j]
    BY <2>3 DEF Moves
  <2> QED
    BY <1>4, <2>2, <2>3, <2>4
<1>5. i <= Len(steps) \/ i > Len(steps)
  BY <1>1
<1> QED
  BY <1>2, <1>3, <1>4, <1>5

(* finish still precedes, or is done. *)
LEMMA PrecededMoves ==
  ASSUME todo \in [Actors -> Seq(StepSet)], Preceded, closed => closed',
         NEW a, NEW steps, NEW d, Moves(a, steps, d),
         d = 1 => todo[a][1].do # "finish" \/ closed',
         \A i \in 1..Len(steps) : steps[i].do = "resume" =>
           \E j \in 1..Len(steps) : j < i /\ steps[j].do = "finish"
  PROVE  Preceded'
<1> SUFFICES ASSUME NEW b \in Actors, NEW i \in 1..Len(todo'[b]),
                    todo'[b][i].do = "resume", ~closed'
             PROVE  \E j \in 1..Len(todo'[b]) : j < i /\ todo'[b][j].do = "finish"
  BY DEF Preceded
<1>1. /\ a \in Actors /\ Len(steps) \in Nat /\ Len(todo[a]) \in Nat
      /\ Len(todo'[a]) \in Nat /\ d \in {0, 1} /\ d <= Len(todo[a])
      /\ Len(todo'[a]) = Len(steps) + Len(todo[a]) - d
  BY DEF Moves
<1>2. CASE b # a
  <2>1. todo'[b] = todo[b]
    BY <1>2 DEF Moves
  <2> QED
    BY <2>1 DEF Preceded
<1>3. CASE b = a /\ i <= Len(steps)
  <2>1. i \in 1..Len(steps) /\ steps[i].do = "resume"
    BY <1>1, <1>3 DEF Moves
  <2>2. PICK j \in 1..Len(steps) : j < i /\ steps[j].do = "finish"
    BY <2>1
  <2>3. j \in 1..Len(todo'[a]) /\ todo'[a][j] = steps[j]
    BY <1>1, <2>2 DEF Moves
  <2> QED
    BY <1>3, <2>2, <2>3
<1>4. CASE b = a /\ i > Len(steps)
  <2> DEFINE k == i - Len(steps) + d
  <2>1. k \in 1..Len(todo[a]) /\ todo[a][k] = todo'[a][i]
    BY <1>1, <1>4 DEF Moves
  <2>2. PICK j \in 1..Len(todo[a]) : j < k /\ todo[a][j].do = "finish"
    <3> HIDE DEF k
    <3> QED
      BY <1>1, <1>4, <2>1 DEF Preceded
  <2>3. j > d
    BY <1>1, <2>2
  <2>4. j + Len(steps) - d \in 1..Len(todo'[a]) /\ j + Len(steps) - d < i
    BY <1>1, <1>4, <2>2, <2>3
  <2>5. todo'[a][j + Len(steps) - d] = todo[a][j]
    BY <2>3 DEF Moves
  <2> QED
    BY <1>4, <2>2, <2>4, <2>5
<1>5. i <= Len(steps) \/ i > Len(steps)
  BY <1>1
<1> QED
  BY <1>2, <1>3, <1>4, <1>5

-----------------------------------------------------------------------------
(* The same for the posted jobs. *)
LEMMA PostedAppend ==
  ASSUME posted \in Seq(JobSet), NEW x \in JobSet, posted' = Append(posted, x),
         NEW T
  PROVE  /\ posted' \in Seq(JobSet)
         /\ PostedHas(T) => PostedHas(T)'
         /\ PostedHas(T)' => PostedHas(T) \/ x \in T
         /\ x \in T => PostedHas(T)'
         /\ PostedSingle(T) /\ (x \in T => ~PostedHas(T)) => PostedSingle(T)'
<1>1. /\ posted' \in Seq(JobSet) /\ Len(posted) \in Nat
      /\ Len(posted') = Len(posted) + 1
      /\ \A i \in 1..Len(posted) : posted'[i] = posted[i]
      /\ posted'[Len(posted) + 1] = x
  OBVIOUS
<1>2. \A i \in 1..Len(posted') : i \in 1..Len(posted) \/ i = Len(posted) + 1
  BY <1>1
<1>3. \A i \in 1..Len(posted) : i \in 1..Len(posted')
  BY <1>1
<1>4. Len(posted) + 1 \in 1..Len(posted')
  BY <1>1
<1>5. PostedHas(T) => PostedHas(T)'
  BY <1>1, <1>3 DEF PostedHas
<1>6. PostedHas(T)' => PostedHas(T) \/ x \in T
  BY <1>1, <1>2 DEF PostedHas
<1>7. x \in T => PostedHas(T)'
  BY <1>1, <1>4 DEF PostedHas
<1>8. PostedSingle(T) /\ (x \in T => ~PostedHas(T)) => PostedSingle(T)'
  BY <1>1, <1>2 DEF PostedHas, PostedSingle
<1> QED
  BY <1>1, <1>5, <1>6, <1>7, <1>8

LEMMA PostedTail ==
  ASSUME posted \in Seq(JobSet), posted # <<>>, posted' = Tail(posted), NEW T
  PROVE  /\ posted' \in Seq(JobSet) /\ Head(posted) \in JobSet
         /\ PostedHas(T)' => PostedHas(T)
         /\ PostedHas(T) /\ Head(posted) \notin T => PostedHas(T)'
         /\ Head(posted) \in T => PostedHas(T)
         /\ PostedSingle(T) => PostedSingle(T)'
         /\ PostedSingle(T) /\ Head(posted) \in T => ~PostedHas(T)'
<1>1. /\ posted' \in Seq(JobSet) /\ Len(posted) \in Nat \ {0}
      /\ Len(posted') = Len(posted) - 1
      /\ \A i \in 1..Len(posted') : posted'[i] = posted[i + 1]
      /\ Head(posted) = posted[1] /\ Head(posted) \in JobSet
  OBVIOUS
<1>2. \A i \in 1..Len(posted') : i + 1 \in 1..Len(posted)
  BY <1>1
<1>3. \A i \in 1..Len(posted) : i = 1 \/ (i - 1 \in 1..Len(posted')
                                          /\ posted'[i - 1] = posted[i])
  BY <1>1
<1>4. 1 \in 1..Len(posted)
  BY <1>1
<1>5. PostedHas(T)' => PostedHas(T)
  BY <1>1, <1>2 DEF PostedHas
<1>6. PostedHas(T) /\ Head(posted) \notin T => PostedHas(T)'
  BY <1>1, <1>3 DEF PostedHas
<1>7. Head(posted) \in T => PostedHas(T)
  BY <1>1, <1>4 DEF PostedHas
<1>8. ASSUME PostedSingle(T) PROVE PostedSingle(T)'
  <2> SUFFICES ASSUME NEW i \in 1..Len(posted'), NEW j \in 1..Len(posted'),
                      posted'[i] \in T, posted'[j] \in T
               PROVE  i = j
    BY DEF PostedSingle
  <2>1. i + 1 = j + 1
    BY <1>1, <1>2, <1>8 DEF PostedSingle
  <2> QED
    BY <1>1, <2>1
<1>9. ASSUME PostedSingle(T), Head(posted) \in T PROVE ~PostedHas(T)'
  <2> SUFFICES ASSUME NEW i \in 1..Len(posted'), posted'[i] \in T
               PROVE  FALSE
    BY DEF PostedHas
  <2>1. i + 1 = 1
    BY <1>1, <1>2, <1>4, <1>9 DEF PostedSingle
  <2> QED
    BY <1>1, <2>1
<1> QED
  BY <1>1, <1>5, <1>6, <1>7, <1>8, <1>9

-----------------------------------------------------------------------------
(* The steps and jobs that the code makes are steps and jobs. *)
LEMMA Typed ==
  /\ \A x \in Calls : Do(x) \in StepSet
  /\ \A x \in Jobs : Do(x) \in JobSet
  /\ \A e \in Events : Step("write", e) \in JobSet
  /\ \A j \in JobSet : Step("post", j) \in StepSet
  /\ \A h \in Handlers \cup {None} : Step("invoke", h) \in StepSet
  /\ \A c \in {"aborted", "eof", "ok", "error"} : Step("finish", c) \in StepSet
  /\ \A b \in BOOLEAN : Step("resume", b) \in StepSet
<1>1. \A x \in Jobs : Do(x) \in JobSet
  BY DEF Do, Step, JobSet
<1>2. \A e \in Events : Step("write", e) \in JobSet
  BY DEF Step, JobSet, Jobs
<1>3. \A x \in Calls : \A y \in Args : Step(x, y) \in StepSet
  BY DEF Step, StepSet
<1>4. /\ None \in Args /\ Handlers \subseteq Args /\ BOOLEAN \subseteq Args
      /\ JobSet \subseteq Args /\ {"aborted", "eof", "ok", "error"} \subseteq Args
  BY DEF Args
<1>5. {"post", "invoke", "finish", "resume"} \subseteq Calls
  BY DEF Calls
<1>6. \A x \in Calls : Do(x) \in StepSet
  BY <1>3, <1>4 DEF Do
<1>7. \A j \in JobSet : Step("post", j) \in StepSet
  BY <1>3, <1>4, <1>5
<1>8. \A h \in Handlers \cup {None} : Step("invoke", h) \in StepSet
  BY <1>3, <1>4, <1>5
<1>9. \A c \in {"aborted", "eof", "ok", "error"} : Step("finish", c) \in StepSet
  BY <1>3, <1>4, <1>5
<1>10. \A b \in BOOLEAN : Step("resume", b) \in StepSet
  BY <1>3, <1>4, <1>5
<1> QED
  BY <1>1, <1>2, <1>6, <1>7, <1>8, <1>9, <1>10

(* Which steps are the token. *)
LEMMA TokenSteps ==
  /\ \A s \in Tokens : s.do \in {"post", "setStarted", "written", "resume"}
  /\ \A j \in JobSet : Claim(j) \in Tokens => j.do \in Writes
  /\ \A j \in WriteJobs : Claim(j) \in Tokens /\ {Claim(j)} \in SUBSET Tokens
  /\ Doing("setStarted") \in SUBSET Tokens
  /\ Doing("written") \in SUBSET Tokens
  /\ Doing("resume") \in SUBSET Tokens
  /\ Tokens \in SUBSET Tokens
<1>1. \A j : Claim(j).do = "post" /\ Claim(j).arg = j
  BY DEF Claim, Step
<1>2. \A s \in Tokens : s.do \in {"post", "setStarted", "written", "resume"}
  BY <1>1 DEF Tokens, Doing
<1>3. ASSUME NEW j \in JobSet, Claim(j) \in Tokens PROVE j.do \in Writes
  <2>1. Claim(j).do = "post"
    BY <1>1
  <2>2. PICK k \in WriteJobs : Claim(j) = Claim(k)
    BY <1>3, <2>1 DEF Tokens, Doing
  <2>3. j = k
    BY <1>1, <2>2
  <2> QED
    BY <2>3 DEF WriteJobs
<1>4. \A j \in WriteJobs : Claim(j) \in Tokens
  BY DEF Tokens
<1>5. /\ Doing("setStarted") \subseteq Tokens /\ Doing("written") \subseteq Tokens
      /\ Doing("resume") \subseteq Tokens
  BY DEF Tokens
<1> QED
  BY <1>2, <1>3, <1>4, <1>5

-----------------------------------------------------------------------------
(* The token among the steps, or among the posted jobs, stays what it is.   *)
SameTodo ==
  /\ Single(Tokens)'
  /\ \A T \in SUBSET Tokens : Has(T)' <=> Has(T)
SamePosted ==
  /\ PostedSingle(WriteJobs)'
  /\ \A T \in SUBSET WriteJobs : PostedHas(T)' <=> PostedHas(T)

LEMMA TodoUnchanged ==
  ASSUME Single(Tokens), todo' = todo
  PROVE  SameTodo
  BY DEF SameTodo, Single, Has

LEMMA TodoNeutral ==
  ASSUME todo \in [Actors -> Seq(StepSet)], Single(Tokens),
         NEW a, NEW steps, NEW d, Moves(a, steps, d),
         d = 1 => todo[a][1] \notin Tokens,
         \A i \in 1..Len(steps) : steps[i] \notin Tokens
  PROVE  SameTodo
<1>1. Single(Tokens)'
  BY NoneAdded
<1>2. ASSUME NEW T \in SUBSET Tokens PROVE Has(T)' <=> Has(T)
  <2>1. \A i \in 1..Len(steps) : steps[i] \notin T
    OBVIOUS
  <2>2. d = 1 => todo[a][1] \notin T
    OBVIOUS
  <2>3. Has(T)' => Has(T)
    BY <2>1, NoneAdded
  <2>4. Has(T) => Has(T)'
    BY <2>2, NoneDropped
  <2> QED
    BY <2>3, <2>4
<1> QED
  BY <1>1, <1>2 DEF SameTodo

LEMMA PostedUnchanged ==
  ASSUME PostedSingle(WriteJobs), posted' = posted
  PROVE  SamePosted
  BY DEF SamePosted, PostedSingle, PostedHas

LEMMA PostedOther ==
  ASSUME posted \in Seq(JobSet), PostedSingle(WriteJobs), NEW x \in JobSet,
         posted' = Append(posted, x), x.do \notin Writes
  PROVE  SamePosted
<1>1. x \notin WriteJobs
  BY DEF WriteJobs
<1>2. PostedSingle(WriteJobs)'
  BY <1>1, PostedAppend
<1>3. ASSUME NEW T \in SUBSET WriteJobs PROVE PostedHas(T)' <=> PostedHas(T)
  BY <1>1, PostedAppend
<1> QED
  BY <1>2, <1>3 DEF SamePosted

LEMMA TakenOther ==
  ASSUME posted \in Seq(JobSet), PostedSingle(WriteJobs),
         posted # <<>>, posted' = Tail(posted), Head(posted).do \notin Writes
  PROVE  SamePosted
<1>1. Head(posted) \notin WriteJobs
  BY DEF WriteJobs
<1>2. PostedSingle(WriteJobs)'
  BY PostedTail
<1>3. ASSUME NEW T \in SUBSET WriteJobs PROVE PostedHas(T)' <=> PostedHas(T)
  BY <1>1, PostedTail
<1> QED
  BY <1>2, <1>3 DEF SamePosted

-----------------------------------------------------------------------------
(* Core through a step that leaves the token where it is.                   *)
LEMMA SameFacts ==
  ASSUME OneToken, SameTodo, SamePosted, ops' = ops
  PROVE  /\ OneToken'
         /\ HasToken' <=> HasToken
         /\ \A j \in WriteJobs : Carried(j)' <=> Carried(j)
         /\ \A x \in {"setStarted", "written", "resume"} :
              Has(Doing(x))' <=> Has(Doing(x))
<1>1. Has(Tokens)' <=> Has(Tokens)
  BY TokenSteps DEF SameTodo
<1>2. PostedHas(WriteJobs)' <=> PostedHas(WriteJobs)
  BY DEF SamePosted
<1>3. OneToken'
  BY <1>1, <1>2 DEF OneToken, SameTodo, SamePosted
<1>4. HasToken' <=> HasToken
  BY <1>1, <1>2 DEF HasToken
<1>5. ASSUME NEW j \in WriteJobs PROVE Carried(j)' <=> Carried(j)
  <2>1. Has({Claim(j)})' <=> Has({Claim(j)})
    BY TokenSteps DEF SameTodo
  <2>2. PostedHas({j})' <=> PostedHas({j})
    BY DEF SamePosted
  <2> QED
    BY <2>1, <2>2 DEF Carried
<1>6. /\ Has(Doing("setStarted"))' <=> Has(Doing("setStarted"))
      /\ Has(Doing("written"))' <=> Has(Doing("written"))
      /\ Has(Doing("resume"))' <=> Has(Doing("resume"))
  BY TokenSteps DEF SameTodo
<1> QED
  BY <1>3, <1>4, <1>5, <1>6

data == <<queue, startRequested, started, writing, closing, closed, serializer,
          wire, accepted>>

(* JobOk depends on these variables only. *)
LEMMA JobOkSame ==
  ASSUME NEW j, started' = started, serializer' = serializer,
         wire' = wire, accepted' = accepted, closing' = closing
  PROVE  JobOk(j)' <=> JobOk(j)
  BY DEF JobOk, NoEnd

LEMMA CoreSame ==
  ASSUME Core, SameTodo, SamePosted, ops' = ops, UNCHANGED data
  PROVE  Core'
<1>1. /\ OneToken'
      /\ HasToken' <=> HasToken
      /\ \A j \in WriteJobs : Carried(j)' <=> Carried(j)
      /\ Has(Doing("setStarted"))' <=> Has(Doing("setStarted"))
      /\ Has(Doing("written"))' <=> Has(Doing("written"))
      /\ Has(Doing("resume"))' <=> Has(Doing("resume"))
  BY SameFacts DEF Core
<1>2. /\ queue' = queue /\ startRequested' = startRequested
      /\ started' = started /\ writing' = writing /\ closing' = closing
      /\ closed' = closed /\ serializer' = serializer
      /\ wire' = wire /\ accepted' = accepted
  BY DEF data
<1>3. TokenOk'
  <2>1. \A j \in WriteJobs : JobOk(j)' <=> JobOk(j)
    BY <1>2, JobOkSame
  <2>2. NoEnd' <=> NoEnd
    BY <1>2 DEF NoEnd
  <2> QED
    BY <1>1, <1>2, <2>1, <2>2 DEF Core, TokenOk
<1>4. Session'
  BY <1>1, <1>2 DEF Core, Session
<1>5. Ended'
  BY <1>1, <1>2 DEF Core, Ended, NoEnd
<1>6. Queued'
  BY <1>1, <1>2 DEF Core, Queued, NoEnd
<1>7. Wire'
  BY <1>2 DEF Core, Wire, InOrder
<1> QED
  BY <1>1, <1>3, <1>4, <1>5, <1>6, <1>7 DEF Core

(* enqueue accepts an event: the session is not closing. *)
LEMMA CoreEnqueue ==
  ASSUME Types, Core, SameTodo, SamePosted, ops' = ops, NEW e \in Events,
         ~closing, ~closed,
         queue' = Append(queue, e), accepted' = Append(accepted, e),
         UNCHANGED <<startRequested, started, writing, closing, closed,
                     serializer, wire>>
  PROVE  Core'
<1>1. /\ OneToken'
      /\ HasToken' <=> HasToken
      /\ \A j \in WriteJobs : Carried(j)' <=> Carried(j)
      /\ Has(Doing("setStarted"))' <=> Has(Doing("setStarted"))
      /\ Has(Doing("written"))' <=> Has(Doing("written"))
      /\ Has(Doing("resume"))' <=> Has(Doing("resume"))
  BY SameFacts DEF Core
<1>2. NoEnd /\ NoEnd'
  BY DEF Core, Ended, NoEnd
<1>3. /\ Len(accepted') = Len(accepted) + 1 /\ Len(accepted) \in Nat
      /\ Len(queue') = Len(queue) + 1 /\ Len(queue) \in Nat
      /\ Len(wire) \in Nat
      /\ \A i \in 1..Len(accepted) : accepted'[i] = accepted[i]
      /\ accepted'[Len(accepted) + 1] = e
      /\ \A i \in 1..Len(queue) : queue'[i] = queue[i]
      /\ queue'[Len(queue) + 1] = e
  BY DEF Types
<1>4. TokenOk'
  <2>1. ASSUME NEW j \in WriteJobs, JobOk(j) PROVE JobOk(j)'
    <3>1. j.do = "write" => /\ Len(wire) < Len(accepted')
                            /\ j.arg = accepted'[Len(wire) + 1]
      BY <1>3, <2>1 DEF JobOk
    <3>2. j.do # "finish"
      BY <2>1 DEF JobOk
    <3> QED
      BY <1>2, <2>1, <3>1, <3>2 DEF JobOk
  <2> QED
    BY <1>1, <1>2, <2>1 DEF Core, TokenOk
<1>5. Session'
  BY <1>1 DEF Core, Session
<1>6. Ended'
  BY <1>2 DEF Ended
<1>7. Queued'
  <2>1. /\ Len(queue) <= Len(accepted)
        /\ \A i \in 1..Len(queue) :
             queue[i] = accepted[Len(accepted) - Len(queue) + i]
        /\ Len(wire) = Len(accepted) - Len(queue)
                         + (IF Has(Doing("written")) THEN 1 ELSE 0)
    BY <1>2 DEF Core, Queued
  <2>2. Len(wire') = Len(accepted') - Len(queue')
                       + (IF Has(Doing("written"))' THEN 1 ELSE 0)
    BY <1>1, <1>3, <2>1
  <2>3. ASSUME NEW i \in 1..Len(queue')
        PROVE  queue'[i] = accepted'[Len(accepted') - Len(queue') + i]
    <3>1. CASE i = Len(queue) + 1
      BY <1>3, <2>1, <3>1
    <3>2. CASE i # Len(queue) + 1
      <4>1. i \in 1..Len(queue)
        BY <1>3, <3>2
      <4>2. Len(accepted) - Len(queue) + i \in 1..Len(accepted)
        BY <1>3, <2>1, <4>1
      <4>3. Len(accepted') - Len(queue') + i = Len(accepted) - Len(queue) + i
        BY <1>3, <4>1
      <4> QED
        BY <1>3, <2>1, <4>1, <4>2, <4>3
    <3> QED
      BY <3>1, <3>2
  <2>4. Len(queue') <= Len(accepted')
    BY <1>3, <2>1
  <2> QED
    BY <2>2, <2>3, <2>4 DEF Queued
<1>8. Wire'
  BY <1>3 DEF Core, Wire, InOrder
<1> QED
  BY <1>1, <1>4, <1>5, <1>6, <1>7, <1>8 DEF Core

(* close has its second critical section. *)
LEMMA CoreClosing ==
  ASSUME Core, SameTodo, SamePosted, ops' = ops, closing' = TRUE,
         UNCHANGED <<queue, startRequested, started, writing, closed,
                     serializer, wire, accepted>>
  PROVE  Core'
<1>1. /\ OneToken'
      /\ HasToken' <=> HasToken
      /\ \A j \in WriteJobs : Carried(j)' <=> Carried(j)
      /\ Has(Doing("setStarted"))' <=> Has(Doing("setStarted"))
      /\ Has(Doing("written"))' <=> Has(Doing("written"))
      /\ Has(Doing("resume"))' <=> Has(Doing("resume"))
  BY SameFacts DEF Core
<1>2. TokenOk'
  <2>1. \A j \in WriteJobs : JobOk(j) => JobOk(j)'
    BY DEF JobOk, NoEnd
  <2>2. NoEnd' <=> NoEnd
    BY DEF NoEnd
  <2> QED
    BY <1>1, <2>1, <2>2 DEF Core, TokenOk
<1>3. Session'
  BY <1>1 DEF Core, Session
<1>4. Ended'
  BY <1>1 DEF Core, Ended, NoEnd
<1>5. Queued'
  BY <1>1 DEF Core, Queued, NoEnd
<1>6. Wire'
  BY DEF Core, Wire, InOrder
<1> QED
  BY <1>1, <1>2, <1>3, <1>4, <1>5, <1>6 DEF Core

(* finish ends the session: its queue is dropped. *)
LEMMA CoreFinish ==
  ASSUME Core, SameTodo, SamePosted, ops' = ops, closed' = TRUE,
         UNCHANGED <<startRequested, started, closing, serializer, wire,
                     accepted>>
  PROVE  Core'
<1>1. /\ OneToken'
      /\ HasToken' <=> HasToken
      /\ \A j \in WriteJobs : Carried(j)' <=> Carried(j)
      /\ Has(Doing("setStarted"))' <=> Has(Doing("setStarted"))
      /\ Has(Doing("written"))' <=> Has(Doing("written"))
      /\ Has(Doing("resume"))' <=> Has(Doing("resume"))
  BY SameFacts DEF Core
<1>2. TokenOk'
  <2>1. \A j \in WriteJobs : JobOk(j)' <=> JobOk(j)
    BY JobOkSame
  <2>2. NoEnd' <=> NoEnd
    BY DEF NoEnd
  <2> QED
    BY <1>1, <2>1, <2>2 DEF Core, TokenOk
<1>3. Session'
  BY <1>1 DEF Core, Session
<1>4. Ended'
  BY <1>1 DEF Core, Ended, NoEnd
<1>5. Queued'
  BY DEF Queued
<1>6. Wire'
  BY DEF Core, Wire, InOrder
<1> QED
  BY <1>1, <1>2, <1>3, <1>4, <1>5, <1>6 DEF Core

-----------------------------------------------------------------------------
(* Core through the steps that move the token.                              *)
LEMMA HasMore ==
  ASSUME NEW T, NEW U, T \subseteq U
  PROVE  /\ Has(T) => Has(U)
         /\ Has(T)' => Has(U)'
         /\ PostedHas(T) => PostedHas(U)
         /\ PostedHas(T)' => PostedHas(U)'
  BY DEF Has, PostedHas

(* No token among the steps: none of the particular ones. *)
LEMMA NoStepLeft ==
  ASSUME ~Has(Tokens)'
  PROVE  /\ Single(Tokens)'
         /\ \A j \in WriteJobs : ~Has({Claim(j)})'
         /\ ~Has(Doing("setStarted"))' /\ ~Has(Doing("written"))'
         /\ ~Has(Doing("resume"))'
<1>1. Single(Tokens)'
  BY DEF Has, Single
<1>2. \A j \in WriteJobs : ~Has({Claim(j)})'
  BY HasMore, TokenSteps
<1>3. /\ ~Has(Doing("setStarted"))' /\ ~Has(Doing("written"))'
      /\ ~Has(Doing("resume"))'
  BY HasMore, TokenSteps
<1> QED
  BY <1>1, <1>2, <1>3

LEMMA NotPosted ==
  ASSUME ~PostedHas(WriteJobs)'
  PROVE  /\ PostedSingle(WriteJobs)'
         /\ \A j \in WriteJobs : ~PostedHas({j})'
<1>1. PostedSingle(WriteJobs)'
  BY DEF PostedHas, PostedSingle
<1>2. \A j \in WriteJobs : ~PostedHas({j})'
  BY HasMore
<1> QED
  BY <1>1, <1>2

(* The token is gone. *)
LEMMA NoTokenLeft ==
  ASSUME ~HasToken'
  PROVE  OneToken' /\ TokenOk'
<1>1. ~Has(Tokens)' /\ ~PostedHas(WriteJobs)' /\ ops' = <<>>
  BY DEF HasToken
<1>2. Len(ops') = 0
  BY <1>1
<1>3. \A j \in WriteJobs : ~Carried(j)'
  BY <1>1, <1>2, NoStepLeft, NotPosted DEF Carried
<1>4. OneToken'
  BY <1>1, <1>2, NoStepLeft, NotPosted DEF OneToken
<1>5. TokenOk'
  BY <1>1, <1>2, <1>3, NoStepLeft DEF TokenOk
<1> QED
  BY <1>4, <1>5

(* The only token is a step; the completion of a write.                     *)
LEMMA StepIsToken ==
  ASSUME Core, NEW a \in Actors, Len(todo[a]) \in Nat \ {0},
         todo[a][1] \in Tokens
  PROVE  /\ HasToken /\ Single(Tokens) /\ ~PostedHas(WriteJobs) /\ ops = <<>>
         /\ startRequested /\ (started /\ ~closed => writing)
<1>1. Has(Tokens)
  BY DEF Has
<1> QED
  BY <1>1 DEF Core, OneToken, Session, HasToken

LEMMA StepDone ==
  ASSUME Types, Core, NEW a, NEW steps, Moves(a, steps, 1),
         todo[a][1] \in Tokens,
         \A i \in 1..Len(steps) : steps[i] \notin Tokens,
         posted' = posted, ops' = ops
  PROVE  ~HasToken'
<1>1. a \in Actors /\ Len(todo[a]) \in Nat \ {0}
  BY DEF Moves, Types
<1>2. Single(Tokens) /\ ~PostedHas(WriteJobs) /\ ops = <<>>
  BY <1>1, StepIsToken
<1>3. ~Has(Tokens)'
  BY <1>2, OneDone DEF Types
<1>4. ~PostedHas(WriteJobs)'
  BY <1>2 DEF PostedHas
<1> QED
  BY <1>2, <1>3, <1>4 DEF HasToken

(* A claimed write is posted to the strand. *)
LEMMA CorePost ==
  ASSUME Types, Core, NEW a, Moves(a, <<>>, 1), NEW j \in WriteJobs,
         todo[a][1] = Claim(j), posted' = Append(posted, j), ops' = ops,
         UNCHANGED data
  PROVE  Core'
<1>1. a \in Actors /\ Len(todo[a]) \in Nat \ {0}
  BY DEF Moves, Types
<1>2. Claim(j) \in Tokens
  BY TokenSteps
<1>3. /\ HasToken /\ Single(Tokens) /\ ~PostedHas(WriteJobs) /\ ops = <<>>
      /\ startRequested /\ (started /\ ~closed => writing)
  BY <1>1, <1>2, StepIsToken
<1>4. ~Has(Tokens)'
  <2>1. \A i \in 1..Len(<<>>) : <<>>[i] \notin Tokens
    OBVIOUS
  <2> QED
    BY <1>2, <1>3, <2>1, OneDone DEF Types
<1>5. j \in JobSet /\ posted \in Seq(JobSet)
  BY DEF WriteJobs, Types
<1>6. PostedSingle(WriteJobs)' /\ PostedHas(WriteJobs)'
  <2>1. PostedSingle(WriteJobs)
    BY DEF Core, OneToken
  <2> QED
    BY <1>3, <1>5, <2>1, PostedAppend
<1>7. ASSUME NEW k \in WriteJobs, Carried(k)' PROVE k = j
  <2>1. ~Has({Claim(k)})'
    BY <1>4, NoStepLeft
  <2>2. Len(ops') = 0
    BY <1>3
  <2>3. PostedHas({k})'
    BY <1>7, <2>1, <2>2 DEF Carried
  <2>4. PostedHas({k}) => PostedHas(WriteJobs)
    BY HasMore
  <2>5. j \in {k}
    BY <1>3, <1>5, <2>3, <2>4, PostedAppend
  <2> QED
    BY <2>5
<1>8. /\ queue' = queue /\ startRequested' = startRequested
      /\ started' = started /\ writing' = writing /\ closing' = closing
      /\ closed' = closed /\ serializer' = serializer
      /\ wire' = wire /\ accepted' = accepted
  BY DEF data
<1>9. JobOk(j)'
  <2>1. Has({Claim(j)})
    BY <1>1 DEF Has
  <2>2. JobOk(j)
    BY <2>1 DEF Core, TokenOk, Carried
  <2> QED
    BY <1>8, <2>2, JobOkSame
<1>10. OneToken'
  <2>1. Len(ops') = 0
    BY <1>3
  <2> QED
    BY <1>3, <1>4, <1>6, <2>1, NoStepLeft DEF OneToken
<1>11. TokenOk'
  <2>1. Len(ops') = 0
    BY <1>3
  <2> QED
    BY <1>4, <1>7, <1>9, <2>1, NoStepLeft DEF TokenOk
<1>12. Session'
  BY <1>3, <1>8 DEF Core, Session
<1>13. ~Has(Doing("written")) /\ ~Has(Doing("resume"))
  <2>1. Claim(j).do = "post"
    BY DEF Claim, Step
  <2>2. Claim(j) \notin Doing("written") /\ Claim(j) \notin Doing("resume")
    BY <2>1 DEF Doing
  <2>3. \A b \in Actors : \A i \in 1..Len(todo[b]) :
          todo[b][i] \in Tokens => todo[b][i] = Claim(j)
    BY <1>1, <1>2, <1>3 DEF Single
  <2> QED
    BY <2>2, <2>3, TokenSteps DEF Has
<1>14. Ended'
  BY <1>8, <1>13 DEF Core, Ended, NoEnd
<1>15. Queued'
  BY <1>4, <1>8, <1>13, NoStepLeft DEF Core, Queued, NoEnd
<1>16. Wire'
  BY <1>8 DEF Core, Wire, InOrder
<1> QED
  BY <1>10, <1>11, <1>12, <1>14, <1>15, <1>16 DEF Core

(* A posted write begins on the socket. *)
LEMMA CoreBegin ==
  ASSUME Types, Core, posted # <<>>, posted' = Tail(posted),
         Head(posted).do \in Writes, todo' = todo,
         NEW b, ops' = Append(ops, [op |-> Head(posted), doomed |-> b]),
         serializer' = TRUE,
         UNCHANGED <<queue, startRequested, started, writing, closing, closed,
                     wire, accepted>>
  PROVE  Core'
<1>0. PICK j : j = Head(posted)
  OBVIOUS
<1>1. posted \in Seq(JobSet) /\ j \in WriteJobs
  BY <1>0 DEF Types, WriteJobs
<1>2. PostedHas(WriteJobs) /\ PostedSingle(WriteJobs)
  <2>1. PostedSingle(WriteJobs)
    BY DEF Core, OneToken
  <2> QED
    BY <1>0, <1>1, <2>1, PostedTail
<1>3. ~Has(Tokens) /\ ops = <<>>
  BY <1>2 DEF Core, OneToken
<1>4. ~Has(Tokens)'
  BY <1>3 DEF Has
<1>5. ~PostedHas(WriteJobs)'
  BY <1>0, <1>1, <1>2, PostedTail
<1>6. Len(ops') = 1 /\ ops'[1].op = j
  BY <1>0, <1>3
<1>7. HasToken
  BY <1>2 DEF HasToken
<1>8. JobOk(j)'
  <2>1. PostedHas({j})
    BY <1>0, <1>1, PostedTail
  <2>2. JobOk(j)
    BY <1>1, <2>1 DEF Core, TokenOk, Carried
  <2> QED
    BY <2>2 DEF JobOk, NoEnd
<1>9. ASSUME NEW k \in WriteJobs, Carried(k)' PROVE k = j
  BY <1>4, <1>5, <1>6, <1>9, NoStepLeft, NotPosted DEF Carried
<1>10. OneToken'
  BY <1>4, <1>5, <1>6, NoStepLeft, NotPosted DEF OneToken
<1>11. TokenOk'
  BY <1>1, <1>4, <1>6, <1>8, <1>9, NoStepLeft DEF TokenOk
<1>12. Session'
  BY <1>7 DEF Core, Session
<1>13. ~Has(Doing("written")) /\ ~Has(Doing("resume"))
  BY <1>3, HasMore, TokenSteps
<1>14. Ended'
  BY <1>13 DEF Core, Ended, NoEnd
<1>15. Queued'
  BY <1>4, <1>13, NoStepLeft DEF Core, Queued, NoEnd
<1>16. Wire'
  BY DEF Core, Wire, InOrder
<1> QED
  BY <1>10, <1>11, <1>12, <1>14, <1>15, <1>16 DEF Core

(* The write in progress is the only token. *)
LEMMA OpIsToken ==
  ASSUME Types, Core, ops # <<>>
  PROVE  /\ Tail(ops) = <<>>
         /\ Head(ops) \in OpSet /\ Head(ops).op \in WriteJobs
         /\ JobOk(Head(ops).op) /\ serializer
         /\ ~Has(Tokens) /\ ~PostedHas(WriteJobs)
         /\ startRequested /\ (started /\ ~closed => writing)
         /\ ~Has(Doing("written")) /\ ~Has(Doing("resume"))
<1>1. /\ Len(ops) = 1 /\ Head(ops) = ops[1] /\ ops[1] \in OpSet
      /\ Tail(ops) = <<>> /\ Len(Tail(ops)) = 0
  <2>1. Len(ops) <= 1 /\ ops \in Seq(OpSet)
    BY DEF Core, OneToken, Types
  <2>2. Len(ops) = 1
    <3>1. Len(ops) \in Nat \ {0}
      BY <2>1, EmptySeq
    <3>2. \A n \in Nat \ {0} : n <= 1 => n = 1
      OBVIOUS
    <3> QED
      BY <2>1, <3>1, <3>2, Zenon
  <2>3. Head(ops) = ops[1] /\ ops[1] \in OpSet
    BY <2>1, <2>2
  <2>4. Tail(ops) \in Seq(OpSet) /\ Len(Tail(ops)) = 0
    BY <2>1, <2>2
  <2>5. Tail(ops) = <<>>
    BY <2>4, EmptySeq
  <2> QED
    BY <2>2, <2>3, <2>4, <2>5
<1>2. ops[1].op \in WriteJobs /\ serializer
  BY <1>1 DEF Core, TokenOk
<1>3. JobOk(ops[1].op)
  <2>1. Carried(ops[1].op)
    BY <1>1 DEF Carried
  <2> QED
    BY <1>2, <2>1 DEF Core, TokenOk
<1>4. ~Has(Tokens) /\ ~PostedHas(WriteJobs)
  BY DEF Core, OneToken
<1>5. startRequested /\ (started /\ ~closed => writing)
  BY DEF Core, Session, HasToken
<1>6. ~Has(Doing("written")) /\ ~Has(Doing("resume"))
  BY <1>4, HasMore, TokenSteps
<1> QED
  BY <1>1, <1>2, <1>3, <1>4, <1>5, <1>6

(* It completes, and the token is the step steps[k] of the strand.          *)
LEMMA Completed ==
  ASSUME Types, Core, ops # <<>>, ops' = <<>>, posted' = posted,
         NEW a, NEW steps, Moves(a, steps, 0), NEW k \in 1..Len(steps),
         steps[k].do # "post",
         \A i \in 1..Len(steps) : steps[i] \in Tokens => i = k
  PROVE  /\ OneToken'
         /\ \A j \in WriteJobs : ~Carried(j)'
         /\ \A x \in {"setStarted", "written", "resume"} :
              Has(Doing(x))' => steps[k].do = x
         /\ Len(ops') = 0
<1>1. ~Has(Tokens) /\ ~PostedHas(WriteJobs)
  BY OpIsToken
<1>2. /\ Single(Tokens)'
      /\ \A b \in Actors : \A i \in 1..Len(todo'[b]) :
           todo'[b][i] \in Tokens => todo'[b][i] = steps[k]
  BY <1>1, OneAdded DEF Types
<1>3. ~PostedHas(WriteJobs)'
  BY <1>1 DEF PostedHas
<1>4. Len(ops') = 0
  BY <1>1
<1>5. OneToken'
  BY <1>1, <1>2, <1>3, <1>4, NotPosted DEF OneToken
<1>6. ASSUME NEW j \in WriteJobs PROVE ~Carried(j)'
  <2>1. Claim(j).do = "post" /\ Claim(j) \in Tokens
    BY TokenSteps DEF Claim, Step
  <2>2. ~Has({Claim(j)})'
    BY <1>2, <2>1 DEF Has
  <2> QED
    BY <1>3, <1>4, <2>2, NotPosted DEF Carried
<1>7. \A x \in {"setStarted", "written", "resume"} :
        Has(Doing(x))' => steps[k].do = x
  <2>1. \A x \in {"setStarted", "written", "resume"} : \A s \in Doing(x) :
          s \in Tokens /\ s.do = x
    BY TokenSteps DEF Doing
  <2> QED
    BY <1>2, <2>1 DEF Has
<1> QED
  BY <1>4, <1>5, <1>6, <1>7

(* The header was written. *)
LEMMA CoreStartDone ==
  ASSUME Types, Core, ops # <<>>, ops' = <<>>, posted' = posted,
         Head(ops).op.do = "start", UNCHANGED data,
         NEW a, Moves(a, <<Do("setStarted"), Do("next")>>, 0)
  PROVE  Core'
<1> DEFINE steps == <<Do("setStarted"), Do("next")>>
<1>1. /\ Len(steps) = 2 /\ steps[1] = Do("setStarted") /\ steps[2] = Do("next")
      /\ Do("setStarted").do = "setStarted" /\ Do("next").do = "next"
  BY DEF Do, Step
<1>2. /\ 1 \in 1..Len(steps) /\ steps[1].do = "setStarted"
      /\ \A i \in 1..Len(steps) : steps[i] \in Tokens => i = 1
  <2>1. steps[2] \notin Tokens
    BY <1>1, TokenSteps
  <2> HIDE DEF steps
  <2> QED
    BY <1>1, <2>1
<1>3. /\ OneToken' /\ Len(ops') = 0
      /\ \A j \in WriteJobs : ~Carried(j)'
      /\ ~Has(Doing("written"))' /\ ~Has(Doing("resume"))'
  <2> HIDE DEF steps
  <2>1. Moves(a, steps, 0)
    BY DEF steps
  <2>2. steps[1].do # "post"
    BY <1>1
  <2> QED
    BY <1>2, <2>1, <2>2, Completed
<1>4. /\ JobOk(Head(ops).op) /\ serializer
      /\ startRequested /\ (started /\ ~closed => writing)
      /\ ~Has(Doing("written")) /\ ~Has(Doing("resume"))
  BY OpIsToken
<1>5. ~started
  BY <1>4 DEF JobOk
<1>6. /\ queue' = queue /\ startRequested' = startRequested
      /\ started' = started /\ writing' = writing /\ closing' = closing
      /\ closed' = closed /\ serializer' = serializer
      /\ wire' = wire /\ accepted' = accepted
  BY DEF data
<1>7. TokenOk'
  BY <1>3, <1>4, <1>5, <1>6 DEF TokenOk
<1>8. Session'
  BY <1>4, <1>6 DEF Core, Session
<1>9. Ended'
  BY <1>4, <1>6 DEF Core, Ended, NoEnd
<1>10. Queued'
  BY <1>3, <1>4, <1>6 DEF Core, Queued, NoEnd
<1>11. Wire'
  BY <1>6 DEF Core, Wire, InOrder
<1> QED
  BY <1>3, <1>7, <1>8, <1>9, <1>10, <1>11 DEF Core

(* A chunk was written: the event, then it is the last one of the wire.     *)
LEMMA CoreWriteDone ==
  ASSUME Types, Core, ops # <<>>, ops' = <<>>, posted' = posted,
         Head(ops).op.do = "write", wire' = Append(wire, Head(ops).op.arg),
         UNCHANGED <<queue, startRequested, started, writing, closing, closed,
                     serializer, accepted>>,
         NEW a, Moves(a, <<Do("written"), Do("next")>>, 0)
  PROVE  /\ Core'
         /\ wire' \in Seq(Events \cup {End})
<1> DEFINE steps == <<Do("written"), Do("next")>>
<1>1. /\ Len(steps) = 2 /\ steps[1] = Do("written") /\ steps[2] = Do("next")
      /\ Do("written").do = "written" /\ Do("next").do = "next"
      /\ Do("written") \in StepSet
  BY Typed DEF Do, Step, Calls
<1>2. /\ 1 \in 1..Len(steps) /\ steps[1].do = "written"
      /\ \A i \in 1..Len(steps) : steps[i] \in Tokens => i = 1
  <2>1. steps[2] \notin Tokens
    BY <1>1, TokenSteps
  <2> HIDE DEF steps
  <2> QED
    BY <1>1, <2>1
<1>3. /\ OneToken' /\ Len(ops') = 0
      /\ \A j \in WriteJobs : ~Carried(j)'
      /\ ~Has(Doing("setStarted"))' /\ ~Has(Doing("resume"))'
  <2> HIDE DEF steps
  <2>1. Moves(a, steps, 0)
    BY DEF steps
  <2>2. steps[1].do # "post"
    BY <1>1
  <2> QED
    BY <1>2, <2>1, <2>2, Completed
<1>4. Has(Doing("written"))'
  <2>1. /\ a \in Actors /\ 1 \in 1..Len(todo'[a]) /\ todo'[a][1] = Do("written")
    <3> HIDE DEF steps
    <3>1. Moves(a, steps, 0)
      BY DEF steps
    <3> QED
      BY <1>1, <1>2, <3>1 DEF Moves, Types
  <2> QED
    BY <1>1, <2>1 DEF Has, Doing
<1>5. /\ JobOk(Head(ops).op) /\ serializer
      /\ startRequested /\ (started /\ ~closed => writing)
      /\ ~Has(Doing("written")) /\ ~Has(Doing("resume"))
  BY OpIsToken
<1>6. PICK e : e = Head(ops).op.arg
  OBVIOUS
<1>7. /\ started /\ NoEnd /\ Len(wire) < Len(accepted)
      /\ e = accepted[Len(wire) + 1]
  BY <1>5, <1>6 DEF JobOk
<1>8. /\ Len(wire) \in Nat /\ Len(accepted) \in Nat /\ e \in Events /\ e # End
  BY <1>7, SseAssumption DEF Types
<1>9. /\ wire' \in Seq(Events \cup {End}) /\ Len(wire') = Len(wire) + 1
      /\ \A i \in 1..Len(wire) : wire'[i] = wire[i]
      /\ wire'[Len(wire) + 1] = e
  BY <1>6, <1>8 DEF Types
<1>10. NoEnd'
  BY <1>7, <1>8, <1>9 DEF NoEnd
<1>11. TokenOk'
  <2>1. wire' # <<>>
    BY <1>8, <1>9
  <2> QED
    BY <1>3, <1>7, <1>10, <2>1 DEF TokenOk
<1>12. Session'
  BY <1>5 DEF Core, Session
<1>13. Ended'
  BY <1>10 DEF Ended
<1>14. Queued'
  <2>1. ~closed =>
          /\ Len(queue) <= Len(accepted)
          /\ \A i \in 1..Len(queue) :
               queue[i] = accepted[Len(accepted) - Len(queue) + i]
          /\ Len(wire) = Len(accepted) - Len(queue)
    <3>1. Len(queue) \in Nat
      BY DEF Types
    <3> QED
      BY <1>5, <1>7, <1>8, <3>1 DEF Core, Queued
  <2>2. Len(queue) \in Nat
    BY DEF Types
  <2> QED
    BY <1>4, <1>8, <1>9, <2>1, <2>2 DEF Queued
<1>15. Wire'
  <2>1. ASSUME NEW i \in 1..Len(wire') PROVE i <= Len(accepted) /\ wire'[i] = accepted[i]
    <3>1. CASE i = Len(wire) + 1
      BY <1>7, <1>8, <1>9, <3>1
    <3>2. CASE i # Len(wire) + 1
      <4>1. i \in 1..Len(wire)
        BY <1>8, <1>9, <3>2
      <4>2. wire[i] # End
        BY <1>7, <4>1 DEF NoEnd
      <4> QED
        BY <1>9, <4>1, <4>2 DEF Core, Wire, InOrder
    <3> QED
      BY <3>1, <3>2
  <2> QED
    BY <1>10, <2>1 DEF Wire, InOrder, NoEnd
<1> QED
  BY <1>3, <1>9, <1>11, <1>12, <1>13, <1>14, <1>15 DEF Core

(* The end chunk was written: every accepted event was before it.           *)
LEMMA CoreEndDone ==
  ASSUME Types, Core, ops # <<>>, ops' = <<>>, posted' = posted,
         Head(ops).op.do = "finish", wire' = Append(wire, End),
         UNCHANGED <<queue, startRequested, started, writing, closing, closed,
                     serializer, accepted>>,
         NEW a, Moves(a, <<Step("finish", "ok"), Step("resume", TRUE)>>, 0)
  PROVE  /\ Core'
         /\ wire' \in Seq(Events \cup {End})
<1> DEFINE steps == <<Step("finish", "ok"), Step("resume", TRUE)>>
<1>1. /\ Len(steps) = 2 /\ steps[1] = Step("finish", "ok")
      /\ steps[2] = Step("resume", TRUE)
      /\ Step("finish", "ok").do = "finish" /\ Step("resume", TRUE).do = "resume"
      /\ Step("resume", TRUE) \in StepSet
  BY Typed DEF Step
<1>2. /\ 2 \in 1..Len(steps) /\ steps[2].do = "resume"
      /\ \A i \in 1..Len(steps) : steps[i] \in Tokens => i = 2
  <2>1. steps[1] \notin Tokens
    BY <1>1, TokenSteps
  <2>2. steps[2].do = "resume"
    BY <1>1
  <2>3. 2 \in 1..Len(steps) /\ \A i \in 1..Len(steps) : i = 1 \/ i = 2
    BY <1>1
  <2> HIDE DEF steps
  <2> QED
    BY <2>1, <2>2, <2>3
<1>3. /\ OneToken' /\ Len(ops') = 0
      /\ \A j \in WriteJobs : ~Carried(j)'
      /\ ~Has(Doing("setStarted"))' /\ ~Has(Doing("written"))'
  <2> HIDE DEF steps
  <2>1. Moves(a, steps, 0)
    BY DEF steps
  <2>2. steps[2].do # "post"
    BY <1>1
  <2> QED
    BY <1>2, <2>1, <2>2, Completed
<1>4. Has(Doing("resume"))'
  <2>1. /\ a \in Actors /\ 2 \in 1..Len(todo'[a])
        /\ todo'[a][2] = Step("resume", TRUE)
    <3>0. steps[2] = Step("resume", TRUE) /\ Len(steps) = 2
      BY <1>1
    <3> HIDE DEF steps
    <3>1. Moves(a, steps, 0)
      BY DEF steps
    <3>2. a \in Actors /\ Len(todo[a]) \in Nat
      BY <3>1 DEF Moves, Types
    <3>3. Len(todo'[a]) = 2 + Len(todo[a]) - 0
      BY <3>0, <3>1 DEF Moves
    <3>4. todo'[a][2] = steps[2]
      BY <1>2, <3>1 DEF Moves
    <3> QED
      BY <3>0, <3>2, <3>3, <3>4
  <2> QED
    BY <1>1, <2>1 DEF Has, Doing
<1>5. /\ JobOk(Head(ops).op) /\ serializer
      /\ startRequested /\ (started /\ ~closed => writing)
  BY OpIsToken
<1>6. started /\ NoEnd /\ closing /\ Len(wire) = Len(accepted)
  BY <1>5 DEF JobOk
<1>7. /\ Len(wire) \in Nat
      /\ wire' \in Seq(Events \cup {End}) /\ Len(wire') = Len(wire) + 1
      /\ \A i \in 1..Len(wire) : wire'[i] = wire[i]
      /\ wire'[Len(wire) + 1] = End
  BY DEF Types
<1>8. ~NoEnd'
  BY <1>7 DEF NoEnd
<1>9. TokenOk'
  BY <1>3, <1>6 DEF TokenOk
<1>10. Session'
  BY <1>5 DEF Core, Session
<1>11. Ended'
  BY <1>4, <1>6, <1>7 DEF Ended
<1>12. Queued'
  BY <1>8 DEF Queued
<1>13. Wire'
  <2>1. ASSUME NEW i \in 1..Len(wire'), i # Len(wire) + 1
        PROVE  wire'[i] # End /\ i <= Len(accepted) /\ wire'[i] = accepted[i]
    <3>1. i \in 1..Len(wire)
      BY <1>7, <2>1
    <3>2. wire[i] # End
      BY <1>6, <3>1 DEF NoEnd
    <3> QED
      BY <1>7, <3>1, <3>2 DEF Core, Wire, InOrder
  <2> QED
    BY <1>7, <2>1 DEF Wire, InOrder
<1> QED
  BY <1>3, <1>7, <1>9, <1>10, <1>11, <1>12, <1>13 DEF Core

(* A write failed: finish follows, and the end of the response if it was    *)
(* the end chunk.                                                           *)
LEMMA CoreWriteError ==
  ASSUME Types, Core, ops # <<>>, ops' = <<>>, posted' = posted,
         UNCHANGED data, NEW a, NEW steps, Moves(a, steps, 0),
         \/ steps = <<Step("finish", "error")>>
         \/ /\ Head(ops).op.do = "finish"
            /\ steps = <<Step("finish", "error"), Step("resume", FALSE)>>
  PROVE  Core'
<1>1. /\ Step("finish", "error").do = "finish"
      /\ Step("resume", FALSE).do = "resume"
  BY DEF Step
<1>2. Step("finish", "error") \notin Tokens
  BY <1>1, TokenSteps
<1>3. /\ \E k \in 1..Len(steps) : /\ steps[k].do # "post"
                                  /\ \A i \in 1..Len(steps) :
                                       steps[i] \in Tokens => i = k
                                  /\ steps[k].do # "setStarted"
                                  /\ steps[k].do # "written"
                                  /\ steps[k].do = "resume" =>
                                       Head(ops).op.do = "finish"
  <2>1. CASE steps = <<Step("finish", "error")>>
    <3>1. Len(steps) = 1 /\ steps[1] = Step("finish", "error")
      BY <2>1
    <3> QED
      BY <1>1, <3>1
  <2>2. CASE /\ Head(ops).op.do = "finish"
             /\ steps = <<Step("finish", "error"), Step("resume", FALSE)>>
    <3>1. /\ Len(steps) = 2 /\ steps[1] = Step("finish", "error")
          /\ steps[2] = Step("resume", FALSE)
      BY <2>2
    <3>2. 2 \in 1..Len(steps) /\ \A i \in 1..Len(steps) : i = 1 \/ i = 2
      BY <3>1
    <3>3. \A i \in 1..Len(steps) : steps[i] \in Tokens => i = 2
      BY <1>2, <3>1, <3>2
    <3>4. steps[2].do = "resume"
      BY <1>1, <3>1
    <3> QED
      BY <2>2, <3>2, <3>3, <3>4
  <2> QED
    BY <2>1, <2>2
<1>4. /\ OneToken' /\ Len(ops') = 0
      /\ \A j \in WriteJobs : ~Carried(j)'
      /\ ~Has(Doing("setStarted"))' /\ ~Has(Doing("written"))'
      /\ Has(Doing("resume"))' => Head(ops).op.do = "finish"
  BY <1>3, Completed
<1>5. /\ JobOk(Head(ops).op) /\ serializer
      /\ startRequested /\ (started /\ ~closed => writing)
      /\ ~Has(Doing("written")) /\ ~Has(Doing("resume"))
  BY OpIsToken
<1>6. Has(Doing("resume"))' => started
  BY <1>4, <1>5 DEF JobOk
<1>7. /\ queue' = queue /\ startRequested' = startRequested
      /\ started' = started /\ writing' = writing /\ closing' = closing
      /\ closed' = closed /\ serializer' = serializer
      /\ wire' = wire /\ accepted' = accepted
  BY DEF data
<1>8. TokenOk'
  BY <1>4, <1>6, <1>7 DEF TokenOk
<1>9. Session'
  BY <1>5, <1>7 DEF Core, Session
<1>10. Ended'
  BY <1>5, <1>7 DEF Core, Ended, NoEnd
<1>11. Queued'
  BY <1>4, <1>5, <1>7 DEF Core, Queued, NoEnd
<1>12. Wire'
  BY <1>7 DEF Core, Wire, InOrder
<1> QED
  BY <1>4, <1>8, <1>9, <1>10, <1>11, <1>12 DEF Core

-----------------------------------------------------------------------------
(* Core through the steps that end a write, and those that claim one.       *)
LEMMA OnlyStep ==
  ASSUME Single(Tokens), NEW a \in Actors, Len(todo[a]) \in Nat \ {0},
         NEW x \in {"setStarted", "written", "resume"},
         todo[a][1] \in Doing(x),
         NEW y \in {"setStarted", "written", "resume"}, y # x
  PROVE  ~Has(Doing(y)) /\ Has(Doing(x))
<1>1. todo[a][1] \in Tokens /\ 1 \in 1..Len(todo[a]) /\ todo[a][1].do = x
  BY TokenSteps DEF Doing
<1>2. \A s \in Doing(y) : s \in Tokens /\ s.do = y
  BY TokenSteps DEF Doing
<1>3. \A b \in Actors : \A i \in 1..Len(todo[b]) :
        todo[b][i] \in Tokens => todo[b][i] = todo[a][1]
  BY <1>1 DEF Single
<1> QED
  BY <1>1, <1>2, <1>3 DEF Has

(* setStarted. *)
LEMMA CoreStarted ==
  ASSUME Types, Core, NEW a, NEW steps, Moves(a, steps, 1),
         todo[a][1] \in Doing("setStarted"),
         \A i \in 1..Len(steps) : steps[i] \notin Tokens,
         posted' = posted, ops' = ops, started' = TRUE,
         UNCHANGED <<queue, startRequested, writing, closing, closed,
                     serializer, wire, accepted>>
  PROVE  Core'
<1>1. /\ a \in Actors /\ Len(todo[a]) \in Nat \ {0} /\ todo[a][1] \in Tokens
  BY TokenSteps DEF Moves, Types
<1>2. ~HasToken'
  BY <1>1, StepDone
<1>3. startRequested /\ Single(Tokens)
  BY <1>1, StepIsToken
<1>4. /\ ~Has(Doing("written")) /\ ~Has(Doing("resume"))
      /\ Has(Doing("setStarted"))
  BY <1>1, <1>3, OnlyStep
<1>5. ~started /\ serializer
  BY <1>4 DEF Core, TokenOk
<1>6. NoEnd /\ NoEnd'
  BY <1>5 DEF Core, Ended, NoEnd
<1>7. OneToken' /\ TokenOk'
  BY <1>2, NoTokenLeft
<1>8. Session'
  BY <1>2, <1>3, <1>5 DEF Session
<1>9. Ended'
  BY <1>6 DEF Ended
<1>10. ~Has(Doing("written"))'
  BY <1>2, NoStepLeft DEF HasToken
<1>11. Queued'
  BY <1>4, <1>6, <1>10 DEF Core, Queued
<1>12. Wire'
  BY DEF Core, Wire, InOrder
<1> QED
  BY <1>7, <1>8, <1>9, <1>11, <1>12 DEF Core

(* written: the event leaves the queue. *)
LEMMA CoreWritten ==
  ASSUME Types, Core, NEW a, NEW steps, Moves(a, steps, 1),
         todo[a][1] \in Doing("written"),
         \A i \in 1..Len(steps) : steps[i] \notin Tokens,
         posted' = posted, ops' = ops,
         queue # <<>> => queue' = Tail(queue),
         UNCHANGED <<startRequested, started, closing, closed, serializer,
                     wire, accepted>>
  PROVE  Core'
<1>1. /\ a \in Actors /\ Len(todo[a]) \in Nat \ {0} /\ todo[a][1] \in Tokens
  BY TokenSteps DEF Moves, Types
<1>2. ~HasToken'
  BY <1>1, StepDone
<1>3. startRequested /\ Single(Tokens)
  BY <1>1, StepIsToken
<1>4. Has(Doing("written"))
  BY <1>1, <1>3, OnlyStep
<1>5. started /\ NoEnd /\ NoEnd'
  BY <1>4 DEF Core, TokenOk, NoEnd
<1>6. OneToken' /\ TokenOk'
  BY <1>2, NoTokenLeft
<1>7. Session'
  BY <1>2, <1>3 DEF Core, Session
<1>8. Ended'
  BY <1>5 DEF Ended
<1>9. ~Has(Doing("written"))'
  BY <1>2, NoStepLeft DEF HasToken
<1>10. Queued'
  <2> SUFFICES ASSUME ~closed
               PROVE  /\ Len(queue') <= Len(accepted)
                      /\ \A i \in 1..Len(queue') :
                           queue'[i] = accepted[Len(accepted) - Len(queue') + i]
                      /\ Len(wire) = Len(accepted) - Len(queue') + 0
    BY <1>9 DEF Queued
  <2>1. /\ Len(queue) <= Len(accepted)
        /\ \A i \in 1..Len(queue) :
             queue[i] = accepted[Len(accepted) - Len(queue) + i]
        /\ Len(wire) = Len(accepted) - Len(queue) + 1
    BY <1>4, <1>5 DEF Core, Queued
  <2>2. Len(queue) \in Nat /\ Len(accepted) \in Nat /\ Len(wire) \in Nat
    BY DEF Types
  <2>3. Len(wire) <= Len(accepted)
    <3>1. Len(wire) \in 1..Len(wire) \/ Len(wire) = 0
      BY <2>2
    <3>2. Len(wire) \in 1..Len(wire) => Len(wire) <= Len(accepted)
      BY <1>5 DEF Core, Wire, InOrder, NoEnd
    <3> QED
      BY <2>2, <3>1, <3>2
  <2>4. queue # <<>> /\ Len(queue) >= 1
    <3>1. Len(queue) >= 1
      BY <2>1, <2>2, <2>3
    <3> QED
      BY <3>1
  <2>5. /\ Len(queue') = Len(queue) - 1
        /\ \A i \in 1..Len(queue') : queue'[i] = queue[i + 1]
    <3>1. queue' = Tail(queue) /\ queue \in Seq(Events)
      BY <2>4 DEF Types
    <3>2. /\ Len(Tail(queue)) = Len(queue) - 1
          /\ \A i \in 1..Len(Tail(queue)) : Tail(queue)[i] = queue[i + 1]
      BY <2>4, <3>1
    <3> QED
      BY <3>1, <3>2, Zenon
  <2>6. ASSUME NEW i \in 1..Len(queue')
        PROVE  queue'[i] = accepted[Len(accepted) - Len(queue') + i]
    <3>1. i + 1 \in 1..Len(queue)
      BY <2>2, <2>5
    <3>2. Len(accepted) - Len(queue') + i = Len(accepted) - Len(queue) + (i + 1)
      BY <2>2, <2>5
    <3> QED
      BY <2>1, <2>5, <3>1, <3>2
  <2>7. /\ Len(queue') <= Len(accepted)
        /\ Len(wire) = Len(accepted) - Len(queue') + 0
    BY <2>1, <2>2, <2>5
  <2> QED
    BY <2>6, <2>7
<1>11. Wire'
  BY DEF Core, Wire, InOrder
<1> QED
  BY <1>6, <1>7, <1>8, <1>10, <1>11 DEF Core

(* resume: the session was closed before. *)
LEMMA CoreResume ==
  ASSUME Types, Core, NEW a, NEW steps, Moves(a, steps, 1),
         todo[a][1] \in Doing("resume"), closed,
         \A i \in 1..Len(steps) : steps[i] \notin Tokens,
         posted' = posted, ops' = ops,
         UNCHANGED <<queue, startRequested, started, writing, closing, closed,
                     wire, accepted>>
  PROVE  Core'
<1>1. /\ a \in Actors /\ Len(todo[a]) \in Nat \ {0} /\ todo[a][1] \in Tokens
  BY TokenSteps DEF Moves, Types
<1>2. ~HasToken'
  BY <1>1, StepDone
<1>3. OneToken' /\ TokenOk'
  BY <1>2, NoTokenLeft
<1>4. Session'
  BY <1>2 DEF Core, Session
<1>5. Ended'
  BY DEF Core, Ended, NoEnd
<1>6. Queued'
  BY DEF Queued
<1>7. Wire'
  BY DEF Core, Wire, InOrder
<1> QED
  BY <1>3, <1>4, <1>5, <1>6, <1>7 DEF Core

(* start and write_next claim the token when there is none. *)
LEMMA CoreClaim ==
  ASSUME Types, Core, ~HasToken, NEW a, NEW j \in WriteJobs,
         Moves(a, <<Step("post", j)>>, 1),
         posted' = posted, ops' = ops,
         startRequested', started /\ ~closed => writing', JobOk(j),
         UNCHANGED <<queue, started, closing, closed, serializer, wire,
                     accepted>>
  PROVE  Core'
<1>0. PICK steps : steps = <<Step("post", j)>>
  OBVIOUS
<1>1. /\ Len(steps) = 1 /\ steps[1] = Claim(j) /\ 1 \in 1..Len(steps)
      /\ \A i \in 1..Len(steps) : i = 1
  BY <1>0 DEF Claim
<1>2. ~Has(Tokens) /\ ~PostedHas(WriteJobs) /\ ops = <<>>
  BY DEF HasToken
<1>3. Moves(a, steps, 1)
  BY <1>0
<1>4. /\ Single(Tokens)'
      /\ \A b \in Actors : \A i \in 1..Len(todo'[b]) :
           todo'[b][i] \in Tokens => todo'[b][i] = Claim(j)
  <2>0. PICK k \in 1..Len(steps) : k = 1
    BY <1>1
  <2>1. \A i \in 1..Len(steps) : steps[i] \in Tokens => i = k
    BY <1>1, <2>0
  <2> QED
    <3>1. todo \in [Actors -> Seq(StepSet)]
      BY DEF Types
    <3>2. /\ Single(Tokens)'
          /\ \A b \in Actors : \A i \in 1..Len(todo'[b]) :
               todo'[b][i] \in Tokens => todo'[b][i] = steps[k]
      BY <1>2, <1>3, <2>1, <3>1, OneAdded
    <3> QED
      BY <1>1, <2>0, <3>2, Zenon
<1>5. ~PostedHas(WriteJobs)' /\ Len(ops') = 0 /\ ops' = <<>>
  BY <1>2 DEF PostedHas
<1>6. OneToken'
  BY <1>4, <1>5, NotPosted DEF OneToken
<1>7. ASSUME NEW k \in WriteJobs, Carried(k)' PROVE k = j
  <2>1. Has({Claim(k)})'
    BY <1>5, <1>7, NotPosted DEF Carried
  <2>2. Claim(k) = Claim(j)
    BY <1>4, <2>1, TokenSteps DEF Has
  <2> QED
    BY <2>2 DEF Claim, Step
<1>8. /\ ~Has(Doing("setStarted"))' /\ ~Has(Doing("written"))'
      /\ ~Has(Doing("resume"))'
  <2>1. Claim(j).do = "post"
    BY DEF Claim, Step
  <2>2. \A x \in {"setStarted", "written", "resume"} : Claim(j) \notin Doing(x)
    BY <2>1 DEF Doing
  <2> QED
    BY <1>4, <2>2, TokenSteps DEF Has
<1>9. JobOk(j)'
  BY JobOkSame
<1>10. TokenOk'
  BY <1>5, <1>7, <1>8, <1>9 DEF TokenOk
<1>11. Session'
  BY DEF Core, Session
<1>12. ~Has(Doing("written")) /\ ~Has(Doing("resume"))
  BY <1>2, HasMore, TokenSteps
<1>13. Ended'
  BY <1>12 DEF Core, Ended, NoEnd
<1>14. Queued'
  BY <1>8, <1>12 DEF Core, Queued, NoEnd
<1>15. Wire'
  BY DEF Core, Wire, InOrder
<1> QED
  BY <1>6, <1>10, <1>11, <1>13, <1>14, <1>15 DEF Core

-----------------------------------------------------------------------------
(* Byte counts. *)
LEMMA PendingSame ==
  ASSUME PendingInv, queue' = queue, pending' = pending
  PROVE  PendingInv'
  BY DEF PendingInv

(* An event comes to the end of the queue. *)
LEMMA PendingMore ==
  ASSUME PendingInv, queue \in Seq(Events), NEW e \in Events, Accepts(e),
         queue' = Append(queue, e), pending' = pending + Size[e]
  PROVE  PendingInv' /\ pending' \in Nat
<1> DEFINE n == Len(queue)
<1>1. PICK total \in [0..n -> 0..MaxPending] :
        /\ total[0] = 0
        /\ \A i \in 1..n : total[i] = total[i - 1] + Size[queue[i]]
        /\ \A i, j \in 0..n : i <= j => total[i] <= total[j]
        /\ pending = total[n]
  BY DEF PendingInv
<1>2. n \in Nat /\ MaxPending \in Nat /\ Size[e] \in Nat /\ Size[e] # 0
  BY SseAssumption
<1>3. pending \in Nat /\ pending + Size[e] \in 0..MaxPending
  <2>1. pending \in 0..MaxPending
    BY <1>1, <1>2
  <2> QED
    BY <1>2, <2>1 DEF Accepts
<1>4. /\ Len(queue') = n + 1
      /\ \A i \in 1..n : queue'[i] = queue[i]
      /\ queue'[n + 1] = e
  OBVIOUS
<1> HIDE DEF n
<1> DEFINE more == [i \in 0..(n + 1) |-> IF i <= n THEN total[i] ELSE pending + Size[e]]
<1>5. more \in [0..(n + 1) -> 0..MaxPending]
  <2>1. \A i \in 0..(n + 1) : i <= n => i \in 0..n
    BY <1>2
  <2> QED
    BY <1>1, <1>3, <2>1
<1>6. more[0] = 0
  BY <1>1, <1>2
<1>7. ASSUME NEW i \in 1..(n + 1)
      PROVE  more[i] = more[i - 1] + Size[queue'[i]]
  <2>1. CASE i = n + 1
    <3>1. more[i] = pending + Size[e] /\ more[i - 1] = total[n]
      BY <1>2, <2>1
    <3> QED
      BY <1>1, <1>4, <2>1, <3>1
  <2>2. CASE i # n + 1
    <3>1. i \in 1..n
      BY <1>2, <2>2
    <3>2. more[i] = total[i] /\ more[i - 1] = total[i - 1]
      BY <1>2, <3>1
    <3> QED
      BY <1>1, <1>4, <3>1, <3>2
  <2> QED
    BY <2>1, <2>2
<1>8. more[n + 1] = pending'
  BY <1>2
<1>9. ASSUME NEW i \in 0..(n + 1), NEW j \in 0..(n + 1), i <= j
      PROVE  more[i] <= more[j]
  <2>1. \A k \in 0..n : total[k] \in Nat /\ total[k] <= pending
    <3>1. \A k \in 0..n : n \in 0..n /\ k <= n
      BY <1>2
    <3> QED
      BY <1>1, <1>2, <3>1
  <2>2. CASE j = n + 1
    <3>1. more[j] = pending + Size[e]
      BY <1>2, <2>2
    <3>2. more[i] = IF i <= n THEN total[i] ELSE pending + Size[e]
      OBVIOUS
    <3>3. i <= n => i \in 0..n
      BY <1>2
    <3> HIDE DEF more
    <3> QED
      BY <1>2, <1>3, <2>1, <3>1, <3>2, <3>3
  <2>3. CASE j # n + 1
    <3>1. i \in 0..n /\ j \in 0..n
      BY <1>2, <1>9, <2>3
    <3>2. more[i] = total[i] /\ more[j] = total[j]
      BY <1>2, <3>1
    <3> QED
      BY <1>1, <1>9, <3>1, <3>2
  <2> QED
    BY <2>2, <2>3
<1> HIDE DEF more
<1>10. PendingInv'
  BY <1>4, <1>5, <1>6, <1>7, <1>8, <1>9 DEF PendingInv
<1> QED
  BY <1>2, <1>3, <1>10

(* The event at the front leaves. *)
LEMMA PendingLess ==
  ASSUME PendingInv, queue \in Seq(Events), queue # <<>>,
         queue' = Tail(queue), pending' = PendingAfterWrite
  PROVE  PendingInv' /\ pending' \in Nat
<1> DEFINE n == Len(queue)
           s == Size[Head(queue)]
<1>1. PICK total \in [0..n -> 0..MaxPending] :
        /\ total[0] = 0
        /\ \A i \in 1..n : total[i] = total[i - 1] + Size[queue[i]]
        /\ \A i, j \in 0..n : i <= j => total[i] <= total[j]
        /\ pending = total[n]
  BY DEF PendingInv
<1>2. /\ n \in Nat /\ n >= 1 /\ Head(queue) = queue[1]
      /\ \A i \in 1..n : queue[i] \in Events
      /\ Len(queue') = n - 1
      /\ \A i \in 1..(n - 1) : queue'[i] = queue[i + 1]
  OBVIOUS
<1>3. MaxPending \in Nat /\ \A e \in Events : Size[e] \in Nat
  BY SseAssumption
<1>4. s \in Nat /\ pending' = pending - s /\ s = Size[queue[1]]
  <2>1. queue[1] \in Events
    BY <1>2
  <2> QED
    BY <1>2, <1>3, <2>1 DEF PendingAfterWrite
<1> HIDE DEF n, s
<1>5. \A i \in 0..n : total[i] \in Nat /\ total[i] <= MaxPending
  BY <1>1, <1>3
<1>6. total[1] = s
  <2>1. 1 \in 1..n /\ 1 \in 0..n /\ 1 - 1 = 0
    BY <1>2
  <2> QED
    BY <1>1, <1>4, <2>1
<1>7. \A i \in 1..n : total[i] >= s /\ i \in 0..n
  <2>1. \A i \in 1..n : 1 \in 0..n /\ i \in 0..n /\ 1 <= i
    BY <1>2
  <2> QED
    BY <1>1, <1>5, <1>6, <2>1
<1> DEFINE less == [i \in 0..(n - 1) |-> total[i + 1] - s]
<1>8. \A i \in 0..(n - 1) : i + 1 \in 1..n /\ less[i] = total[i + 1] - s
  BY <1>2
<1>9. less \in [0..(n - 1) -> 0..MaxPending]
  <2>1. \A i \in 0..(n - 1) : total[i + 1] - s \in 0..MaxPending
    BY <1>3, <1>4, <1>5, <1>7, <1>8
  <2> QED
    BY <2>1
<1>10. less[0] = 0
  BY <1>2, <1>4, <1>6, <1>8
<1>11. ASSUME NEW i \in 1..(n - 1)
       PROVE  less[i] = less[i - 1] + Size[queue'[i]]
  <2>1. /\ i \in 0..(n - 1) /\ i - 1 \in 0..(n - 1) /\ i + 1 \in 1..n
        /\ i \in 0..n /\ (i - 1) + 1 = i /\ (i + 1) - 1 = i
    BY <1>2
  <2>2. total[i + 1] = total[i] + Size[queue[i + 1]]
    BY <1>1, <2>1
  <2>3. less[i] = total[i + 1] - s /\ less[i - 1] = total[i] - s
    BY <1>8, <2>1
  <2>4. Size[queue[i + 1]] \in Nat
    BY <1>2, <1>3, <2>1
  <2>5. queue'[i] = queue[i + 1]
    BY <1>2
  <2>6. total[i] \in Nat
    BY <1>5, <2>1
  <2>7. \A x, z, w \in Nat : (x + z) - w = (x - w) + z
    OBVIOUS
  <2> HIDE DEF less
  <2>8. less[i] = less[i - 1] + Size[queue[i + 1]]
    BY <1>4, <2>2, <2>3, <2>4, <2>6, <2>7
  <2> QED
    BY <2>5, <2>8, Zenon
<1>12. ASSUME NEW i \in 0..(n - 1), NEW j \in 0..(n - 1), i <= j
       PROVE  less[i] <= less[j]
  <2>1. i + 1 \in 0..n /\ j + 1 \in 0..n /\ i + 1 <= j + 1
    BY <1>2, <1>12
  <2>2. total[i + 1] <= total[j + 1]
    BY <1>1, <2>1
  <2>3. less[i] = total[i + 1] - s /\ less[j] = total[j + 1] - s
    BY <1>8
  <2> HIDE DEF less
  <2> QED
    BY <1>4, <1>5, <2>1, <2>2, <2>3
<1>13. less[n - 1] = pending'
  <2>1. n - 1 \in 0..(n - 1) /\ (n - 1) + 1 = n
    BY <1>2
  <2> QED
    BY <1>1, <1>4, <1>8, <2>1
<1> HIDE DEF less
<1>14. PendingInv'
  BY <1>2, <1>9, <1>10, <1>11, <1>12, <1>13 DEF PendingInv
<1>15. pending' \in Nat
  <2>1. n - 1 \in 0..(n - 1)
    BY <1>2
  <2> QED
    BY <1>3, <1>9, <1>13, <2>1
<1> QED
  BY <1>14, <1>15

(* The queue is dropped. *)
LEMMA PendingNone ==
  ASSUME queue' = <<>>, pending' = 0
  PROVE  PendingInv'
<1> DEFINE none == [i \in 0..0 |-> 0]
<1>1. none \in [0..0 -> 0..MaxPending] /\ none[0] = 0
  BY SseAssumption
<1> HIDE DEF none
<1>2. Len(queue') = 0
  OBVIOUS
<1>3. \A i, j \in 0..0 : none[i] <= none[j]
  BY <1>1
<1> QED
  BY <1>1, <1>2, <1>3 DEF PendingInv

-----------------------------------------------------------------------------
(* Lists of steps of a set.                                                 *)
Only(steps, S) ==
  steps \in Seq(StepSet) /\ \A i \in 1..Len(steps) : steps[i] \in S

LEMMA Lists ==
  ASSUME NEW S \in SUBSET StepSet
  PROVE  /\ Only(<<>>, S)
         /\ \A x \in S : Only(<<x>>, S)
         /\ \A x, y \in S : Only(<<x, y>>, S)
         /\ \A x, y, z \in S : Only(<<x, y, z>>, S)
<1>1. Only(<<>>, S)
  BY DEF Only
<1>2. ASSUME NEW x \in S PROVE Only(<<x>>, S)
  <2>1. <<x>> \in Seq(StepSet) /\ Len(<<x>>) = 1 /\ <<x>>[1] = x
    OBVIOUS
  <2> QED
    BY <2>1 DEF Only
<1>3. ASSUME NEW x \in S, NEW y \in S PROVE Only(<<x, y>>, S)
  <2>1. /\ <<x, y>> \in Seq(StepSet) /\ Len(<<x, y>>) = 2
        /\ <<x, y>>[1] = x /\ <<x, y>>[2] = y
    OBVIOUS
  <2> QED
    BY <2>1 DEF Only
<1>4. ASSUME NEW x \in S, NEW y \in S, NEW z \in S PROVE Only(<<x, y, z>>, S)
  <2>1. /\ <<x, y, z>> \in Seq(StepSet) /\ Len(<<x, y, z>>) = 3
        /\ <<x, y, z>>[1] = x /\ <<x, y, z>>[2] = y /\ <<x, y, z>>[3] = z
    OBVIOUS
  <2> QED
    BY <2>1 DEF Only
<1> QED
  BY <1>1, <1>2, <1>3, <1>4

(* The step an actor is at. *)
LEMMA Here ==
  ASSUME Types, NEW a \in Actors, NEW do, At(a, do)
  PROVE  /\ todo[a] # <<>> /\ Len(todo[a]) \in Nat \ {0}
         /\ todo[a][1] \in StepSet /\ todo[a][1].do = do
         /\ todo[a][1].arg = Arg(a)
         /\ todo[a][1] \in Doing(do)
         /\ \A x : x # do => todo[a][1] \notin Doing(x)
         /\ do \notin {"post", "setStarted", "written", "resume"}
              => todo[a][1] \notin Tokens
         /\ do # "invoke" => \A h : todo[a][1] \notin Invoking(h)
         /\ do # "post" => todo[a][1] \notin Cancelling
<1>1. todo[a] \in Seq(StepSet) /\ todo[a] # <<>> /\ Head(todo[a]).do = do
  BY DEF Types, At
<1>2. Len(todo[a]) \in Nat \ {0} /\ Head(todo[a]) = todo[a][1]
  BY <1>1, EmptySeq
<1>3. todo[a][1] \in StepSet
  BY <1>1, <1>2
<1>4. do # "post" => todo[a][1] \notin Cancelling
  BY <1>1, <1>2 DEF Cancelling
<1>5. do \notin {"post", "setStarted", "written", "resume"}
        => todo[a][1] \notin Tokens
  BY <1>1, <1>2, TokenSteps
<1> QED
  BY <1>1, <1>2, <1>3, <1>4, <1>5 DEF Doing, Arg, Invoking

(* Steps that are no token, need none after them and post no write.         *)
Plain ==
  {s \in StepSet :
     \/ s.do \in {"next", "start", "finish", "cancelWait", "invoke"}
     \/ s.do = "post" /\ s.arg \in JobSet /\ s.arg.do \notin Writes}

LEMMA PlainSteps ==
  /\ Do("next") \in Plain /\ Do("start") \in Plain /\ Do("cancelWait") \in Plain
  /\ \A c \in {"aborted", "eof", "ok", "error"} : Step("finish", c) \in Plain
  /\ \A h \in Handlers \cup {None} : Step("invoke", h) \in Plain
  /\ \A x \in {"cancel", "wait"} : Step("post", Do(x)) \in Plain
<1>1. \A x \in {"cancel", "wait"} : Do(x) \in JobSet /\ Do(x).do = x
  BY Typed DEF Jobs, Do, Step
<1>2. \A x \in {"next", "start", "cancelWait"} : Do(x) \in StepSet /\ Do(x).do = x
  BY Typed DEF Calls, Do, Step
<1>3. \A x, y : Step(x, y).do = x /\ Step(x, y).arg = y
  BY DEF Step
<1>4. \A x \in {"cancel", "wait"} : Step("post", Do(x)) \in StepSet
  BY <1>1, Typed
<1>5. \A x \in {"cancel", "wait"} : Step("post", Do(x)) \in Plain
  BY <1>1, <1>3, <1>4 DEF Plain, Writes
<1>6. \A x \in {"next", "start", "cancelWait"} : Do(x) \in Plain
  BY <1>2 DEF Plain
<1> QED
  BY <1>3, <1>5, <1>6, Typed DEF Plain

LEMMA PlainToken ==
  /\ \A s \in Plain : s \notin Tokens
  /\ \A s \in Plain : s \notin BadPosts
  /\ \A s \in Plain : s \notin Waking
  /\ \A s \in Plain : s.do # "resume"
<1>1. ASSUME NEW s \in Plain, s \in Tokens PROVE FALSE
  <2>1. s.do = "post"
    BY <1>1, TokenSteps DEF Plain
  <2>2. s.arg \in JobSet /\ s.arg.do \notin Writes
    BY <2>1 DEF Plain
  <2>3. s = Claim(s.arg)
    BY <2>1 DEF Plain, StepSet, Claim, Step
  <2> QED
    BY <1>1, <2>2, <2>3, TokenSteps
<1> QED
  BY <1>1 DEF Plain, BadPosts, Waking, Doing

LEMMA PlainMoves ==
  ASSUME Types, PostsJobs, WriteInv, closed => closed',
         NEW a, NEW steps, NEW d, Moves(a, steps, d), Only(steps, Plain),
         d = 1 => todo[a][1] \notin Tokens
                  /\ (todo[a][1].do # "finish" \/ closed')
  PROVE  SameTodo /\ PostsJobs' /\ Followed' /\ Preceded'
<1>1. todo \in [Actors -> Seq(StepSet)]
  BY DEF Types
<1>2. /\ \A i \in 1..Len(steps) : steps[i] \notin Tokens
      /\ \A i \in 1..Len(steps) : steps[i] \notin BadPosts
      /\ \A i \in 1..Len(steps) : steps[i] \notin Waking
      /\ \A i \in 1..Len(steps) : steps[i].do # "resume"
  BY PlainToken DEF Only
<1>3. SameTodo
  BY <1>1, <1>2, TodoNeutral DEF WriteInv, Core, OneToken
<1>4. PostsJobs'
  BY <1>1, <1>2, NoneAdded DEF PostsJobs
<1>5. Followed'
  BY <1>1, <1>2, FollowedMoves DEF WriteInv
<1>6. Preceded'
  BY <1>1, <1>2, PrecededMoves DEF WriteInv
<1> QED
  BY <1>3, <1>4, <1>5, <1>6

(* Of steps without tokens, what the other sets keep. *)
LEMMA NoInvoke ==
  ASSUME Types, ReportInv, closed => closed', closed' => closeHandler' = None,
         closeHandler' \in {None, closeHandler}, UNCHANGED <<registered, calls>>,
         NEW a, NEW steps, NEW d, Moves(a, steps, d),
         \A i \in 1..Len(steps) : steps[i].do # "invoke"
  PROVE  ReportInv'
<1>1. todo \in [Actors -> Seq(StepSet)]
  BY DEF Types
<1>2. ASSUME NEW h \in Handlers
      PROVE  /\ Has(Invoking(h))' => Has(Invoking(h))
             /\ Single(Invoking(h)) => Single(Invoking(h))'
  <2>1. \A i \in 1..Len(steps) : steps[i] \notin Invoking(h)
    BY DEF Invoking
  <2>2. Invoking(h)' = Invoking(h)
    BY DEF Invoking
  <2> QED
    BY <1>1, <2>1, <2>2, NoneAdded
<1> QED
  BY <1>2 DEF ReportInv

LEMMA ReportSame ==
  ASSUME ReportInv, UNCHANGED <<closed, closeHandler, registered, calls, todo>>
  PROVE  ReportInv'
  BY DEF ReportInv, Single, Has, Invoking

(* A step that neither is nor brings a cancel, and takes none up.           *)
LEMMA NoCancel ==
  ASSUME Types, ShutInv, NEW a, NEW steps, NEW d, Moves(a, steps, d),
         \A i \in 1..Len(steps) : steps[i] \notin Cancelling,
         UNCHANGED <<shut, peer>>, aborted => aborted',
         PostedHas(CancelJobs)' => PostedHas(CancelJobs)
  PROVE  ShutInv'
<1>1. Has(Cancelling)' => Has(Cancelling)
  BY NoneAdded DEF Types
<1> QED
  BY <1>1 DEF ShutInv

(* write_next is still to come when it was, and not done now.               *)
LEMMA NextStays ==
  ASSUME Types, Woken, NEW a, NEW steps, NEW d, Moves(a, steps, d),
         d = 1 => todo[a][1] \notin Doing("next"),
         UNCHANGED <<started, closed, queue, closing, writing>>
  PROVE  Woken'
<1>1. Has(Doing("next")) => Has(Doing("next"))'
  BY NoneDropped DEF Types
<1> QED
  BY <1>1 DEF Woken

(* write_next is the last of the steps put in front.                        *)
LEMMA NextComes ==
  ASSUME NEW a, NEW steps, NEW d, Moves(a, steps, d),
         NEW k \in 1..Len(steps), steps[k] \in Doing("next")
  PROVE  Has(Doing("next"))'
<1>1. a \in Actors /\ k \in 1..Len(todo'[a]) /\ todo'[a][k] = steps[k]
  BY DEF Moves
<1> QED
  BY <1>1 DEF Has

(* What actors have to do stays as it is. *)
LEMMA TodoSame ==
  ASSUME Inv, UNCHANGED <<todo, closed>>
  PROVE  SameTodo /\ PostsJobs' /\ Followed' /\ Preceded'
<1>1. SameTodo
  BY TodoUnchanged DEF Inv, WriteInv, Core, OneToken
<1>2. PostsJobs'
  BY DEF Inv, PostsJobs, Has
<1>3. Followed' /\ Preceded'
  BY DEF Inv, WriteInv, Followed, Preceded
<1> QED
  BY <1>1, <1>2, <1>3

LEMMA WokenSame ==
  ASSUME Woken, UNCHANGED <<todo, started, closed, queue, closing, writing>>
  PROVE  Woken'
  BY DEF Woken, Has

LEMMA ShutSame ==
  ASSUME ShutInv, UNCHANGED <<todo, shut>>, aborted => aborted',
         peer # "open" => peer' # "open",
         PostedHas(CancelJobs)' => PostedHas(CancelJobs)
  PROVE  ShutInv'
  BY DEF ShutInv, Has

(* The variables that the invariant is about, and their parts. *)
LEMMA Parts ==
  ASSUME Inv
  PROVE  /\ Types /\ Flags /\ PostsJobs /\ WriteInv /\ PendingInv /\ ReportInv
         /\ ShutInv /\ Core /\ OneToken /\ TokenOk /\ Session /\ Woken
         /\ Followed /\ Preceded
         /\ Single(Tokens) /\ PostedSingle(WriteJobs)
         /\ todo \in [Actors -> Seq(StepSet)] /\ posted \in Seq(JobSet)
         /\ queue \in Seq(Events)
  BY DEF Inv, WriteInv, Core, OneToken, Types

LEMMA Stutters ==
  ASSUME Inv, UNCHANGED <<impl, http, posted, todo, aborted, accepted, wire,
                          registered, calls>>,
         Flags', peer # "open" => peer' # "open"
  PROVE  Inv'
<1> USE Parts
<1>1. Types'
  BY DEF Types, impl, http
<1>2. SameTodo /\ PostsJobs' /\ Followed' /\ Preceded'
  BY TodoSame DEF impl
<1>3. SamePosted
  BY PostedUnchanged
<1>4. Core'
  BY <1>2, <1>3, CoreSame DEF impl, http, data
<1>5. Woken'
  BY WokenSame DEF impl
<1>6. PendingInv'
  BY PendingSame DEF impl
<1>7. ReportInv'
  BY ReportSame DEF impl
<1>8. ShutInv'
  BY ShutSame DEF PostedHas, http
<1> QED
  BY <1>1, <1>2, <1>4, <1>5, <1>6, <1>7, <1>8 DEF Inv, WriteInv

-----------------------------------------------------------------------------
(* The application's calls. *)
LEMMA EnqueueKeeps ==
  ASSUME Inv, NEW a \in Actors, NEW e \in Events, Enqueue(a, e)
  PROVE  Inv'
<1> USE Parts
<1>0. Flags'
  BY DEF Enqueue, Flags, http
<1>1. CASE Accepts(e)
  <2>1. First(a, <<Do("next")>>)
    BY <1>1 DEF Enqueue
  <2>2. /\ queue' = Append(queue, e) /\ accepted' = Append(accepted, e)
        /\ pending' = pending + Size[e] /\ ~closing /\ ~closed
    BY <1>1 DEF Enqueue, Accepts
  <2>3. UNCHANGED <<startRequested, started, writing, closing, closed,
                    closeHandler, http, posted, peer, aborted, wire,
                    registered, calls>>
    BY DEF Enqueue
  <2>4. UNCHANGED <<serializer, ops, shut>>
    BY <2>3 DEF http
  <2>5. Do("next") \in Plain /\ Do("next") \in StepSet /\ Do("next").do = "next"
    BY PlainSteps DEF Plain, Do, Step
  <2>6. PICK steps : steps = <<Do("next")>>
    OBVIOUS
  <2>7. Only(steps, Plain) /\ Only(steps, {Do("next")}) /\ Len(steps) = 1
    <3>1. Plain \in SUBSET StepSet /\ {Do("next")} \in SUBSET StepSet
      BY <2>5 DEF Plain
    <3> QED
      BY <2>5, <2>6, <3>1, Lists
  <2>8. Moves(a, steps, 0)
    BY <2>1, <2>6, <2>7, FirstMoves DEF Only
  <2>9. \A i \in 1..Len(steps) : steps[i] = Do("next")
    BY <2>7 DEF Only
  <2> HIDE <2>6
  <2>10. SameTodo /\ PostsJobs' /\ Followed' /\ Preceded'
    BY <2>3, <2>7, <2>8, PlainMoves
  <2>11. SamePosted
    BY <2>3, PostedUnchanged
  <2>12. Core'
    BY <2>2, <2>3, <2>4, <2>10, <2>11, CoreEnqueue
  <2>13. Woken'
    <3>1. PICK k \in 1..Len(steps) : k = 1
      BY <2>7
    <3>2. steps[k] \in Doing("next")
      BY <2>5, <2>9 DEF Doing
    <3> QED
      BY <2>8, <3>2, NextComes DEF Woken
  <2>14. PendingInv' /\ pending' \in Nat
    BY <1>1, <2>2, PendingMore
  <2>15. ReportInv'
    BY <2>3, <2>5, <2>8, <2>9, NoInvoke DEF ReportInv
  <2>16. ShutInv'
    <3>1. \A i \in 1..Len(steps) : steps[i] \notin Cancelling
      BY <2>9 DEF Cancelling, Do, Step
    <3> QED
      BY <2>3, <2>4, <2>8, <3>1, NoCancel DEF PostedHas
  <2>17. Types'
    <3>1. queue' \in Seq(Events) /\ accepted' \in Seq(Events)
      BY <2>2 DEF Types
    <3>2. todo' \in [Actors -> Seq(StepSet)]
      BY <2>8 DEF Moves
    <3> QED
      BY <2>3, <2>4, <2>14, <3>1, <3>2 DEF Types
  <2> QED
    BY <1>0, <2>10, <2>12, <2>13, <2>14, <2>15, <2>16, <2>17 DEF Inv, WriteInv
<1>2. CASE ~Accepts(e)
  <2>1. UNCHANGED <<impl, http, posted, todo, aborted, accepted, wire,
                    registered, calls, peer>>
    BY <1>2 DEF Enqueue, impl
  <2> QED
    BY <1>0, <2>1, Stutters
<1> QED
  BY <1>1, <1>2

(* Steps without a token, that leave the session as it is. *)
LEMMA PlainKeeps ==
  ASSUME Inv, NEW a, NEW steps, NEW d, Moves(a, steps, d), Only(steps, Plain),
         d = 1 => todo[a][1] \notin Tokens
                  /\ (todo[a][1].do # "finish" \/ closed),
         SamePosted, ops' = ops, pending' = pending, UNCHANGED data
  PROVE  /\ PostsJobs' /\ Core' /\ Followed' /\ Preceded' /\ PendingInv'
         /\ (d = 1 => todo[a][1] \notin Doing("next")) => Woken'
<1> USE Parts
<1>0. UNCHANGED <<queue, startRequested, started, writing, closing, closed,
                  serializer, wire, accepted>>
  BY DEF data
<1>1. SameTodo /\ PostsJobs' /\ Followed' /\ Preceded'
  BY <1>0, PlainMoves
<1>2. Core'
  BY <1>1, CoreSame
<1>3. PendingInv'
  BY <1>0, PendingSame
<1>4. ASSUME d = 1 => todo[a][1] \notin Doing("next") PROVE Woken'
  BY <1>0, <1>4, NextStays
<1> QED
  BY <1>1, <1>2, <1>3, <1>4

LEMMA CancelKeeps ==
  ASSUME Inv, NEW a \in Actors, Cancel(a)
  PROVE  Inv'
<1> USE Parts
<1>0. Flags'
  BY DEF Cancel, Flags, http, impl
<1>1. First(a, <<Step("post", Do("cancel")), Step("finish", "aborted")>>)
  BY DEF Cancel
<1>2. /\ UNCHANGED <<impl, http, posted, peer, accepted, wire, registered, calls>>
      /\ aborted' = TRUE
  BY DEF Cancel
<1>3. UNCHANGED <<closed, closeHandler, pending, queue, ops, shut>> /\ UNCHANGED data
  BY <1>2 DEF impl, http, data
<1> DEFINE S == {Step("post", Do("cancel")), Step("finish", "aborted")}
<1>4. S \in SUBSET Plain /\ Plain \in SUBSET StepSet
  BY PlainSteps DEF Plain
<1>5. PICK steps : steps = <<Step("post", Do("cancel")), Step("finish", "aborted")>>
  OBVIOUS
<1>6. Only(steps, S) /\ Only(steps, Plain)
  BY <1>4, <1>5, Lists
<1>7. Moves(a, steps, 0)
  BY <1>1, <1>5, <1>6, FirstMoves DEF Only
<1>8. \A i \in 1..Len(steps) : steps[i].do # "invoke"
  <2>1. \A s \in S : s.do # "invoke"
    BY DEF Step
  <2> QED
    BY <1>6, <2>1 DEF Only
<1> HIDE <1>5 DEF S
<1>9. SamePosted
  BY <1>2, PostedUnchanged
<1>10. PostsJobs' /\ Core' /\ Followed' /\ Preceded' /\ PendingInv' /\ Woken'
  BY <1>3, <1>6, <1>7, <1>9, PlainKeeps
<1>11. ReportInv'
  BY <1>2, <1>3, <1>7, <1>8, NoInvoke DEF ReportInv
<1>12. ShutInv'
  BY <1>2 DEF ShutInv
<1>13. Types'
  <2>1. todo' \in [Actors -> Seq(StepSet)]
    BY <1>7 DEF Moves
  <2> QED
    BY <1>2, <1>3, <2>1 DEF Types, data
<1> QED
  BY <1>0, <1>10, <1>11, <1>12, <1>13 DEF Inv, WriteInv

LEMMA HandlerReturnsKeeps ==
  ASSUME Inv, HandlerReturns
  PROVE  Inv'
<1> USE Parts
<1>0. Flags'
  BY DEF HandlerReturns, Flags, http, impl, env
<1>1. /\ At(Strand, "handler") /\ Then(Strand, <<Do("start")>>)
      /\ UNCHANGED <<impl, http, posted, env>> /\ Strand \in Actors
  BY DEF HandlerReturns, At, Then, Actors
<1>2. /\ UNCHANGED <<closed, closeHandler, pending, ops, shut, registered, calls,
                     peer, aborted>>
      /\ UNCHANGED data
  BY <1>1 DEF impl, http, data, env
<1>3. /\ Do("start") \in Plain /\ {Do("start")} \in SUBSET StepSet
      /\ Plain \in SUBSET StepSet
  BY PlainSteps DEF Plain
<1>4. PICK steps : steps = <<Do("start")>>
  OBVIOUS
<1>5. Only(steps, {Do("start")}) /\ Only(steps, Plain)
  BY <1>3, <1>4, Lists
<1>6. Moves(Strand, steps, 1)
  BY <1>1, <1>4, <1>5, ThenMoves DEF Only, At
<1>7. \A i \in 1..Len(steps) : steps[i].do = "start"
  BY <1>5 DEF Only, Do, Step
<1> HIDE <1>4
<1>8. SamePosted
  BY <1>1, PostedUnchanged
<1>9. PostsJobs' /\ Core' /\ Followed' /\ Preceded' /\ PendingInv' /\ Woken'
  BY <1>1, <1>2, <1>5, <1>6, <1>8, PlainKeeps, Here
<1>10. ReportInv'
  BY <1>2, <1>6, <1>7, NoInvoke DEF ReportInv
<1>11. ShutInv'
  <2>1. \A i \in 1..Len(steps) : steps[i] \notin Cancelling
    BY <1>7 DEF Cancelling, Do, Step
  <2> QED
    BY <1>1, <1>2, <1>6, <2>1, NoCancel DEF PostedHas
<1>12. Types'
  <2>1. todo' \in [Actors -> Seq(StepSet)]
    BY <1>6 DEF Moves
  <2> QED
    BY <1>1, <1>2, <2>1 DEF Types, data
<1> QED
  BY <1>0, <1>9, <1>10, <1>11, <1>12 DEF Inv, WriteInv

(* The handlers registered, and one more. *)
LEMMA Registers ==
  ASSUME registered \in Seq(Handlers), NEW h \in Handlers,
         registered' = Append(registered, h)
  PROVE  /\ registered' \in Seq(Handlers)
         /\ h \in Range(registered)'
         /\ \A g \in Range(registered) : g \in Range(registered)'
<1>1. /\ registered' \in Seq(Handlers) /\ Len(registered) \in Nat
      /\ Len(registered') = Len(registered) + 1
      /\ registered'[Len(registered) + 1] = h
      /\ \A i \in 1..Len(registered) : registered'[i] = registered[i]
  OBVIOUS
<1>2. /\ DOMAIN registered = 1..Len(registered)
      /\ DOMAIN registered' = 1..(Len(registered) + 1)
  BY <1>1
<1>3. Len(registered) + 1 \in DOMAIN registered'
  BY <1>1, <1>2
<1>4. \A i \in DOMAIN registered :
        i \in DOMAIN registered' /\ registered'[i] = registered[i]
  BY <1>1, <1>2
<1> QED
  BY <1>1, <1>3, <1>4, Zenon DEF Range

LEMMA OnCloseKeeps ==
  ASSUME Inv, NEW a \in Actors, NEW h \in Handlers, OnClose(a, h)
  PROVE  Inv'
<1> USE Parts
<1>0. Flags'
  BY DEF OnClose, Flags, http
<1>1. /\ UNCHANGED <<queue, pending, startRequested, started, writing, closing,
                     closed, http, posted, peer, aborted, accepted, wire, calls>>
      /\ registered' = Append(registered, h) /\ h \notin Range(registered)
  BY DEF OnClose
<1>2. UNCHANGED <<pending, ops, shut>> /\ UNCHANGED data
  BY <1>1 DEF http, data
<1>3. /\ registered' \in Seq(Handlers) /\ h \in Range(registered)'
      /\ \A g \in Range(registered) : g \in Range(registered)'
  BY <1>1, Registers DEF Types
<1>4. ~Has(Invoking(h)) /\ calls[h] = 0
  BY <1>1 DEF ReportInv
<1>5. SamePosted
  BY <1>1, PostedUnchanged
<1>6. CASE closed
  <2>1. First(a, <<Step("invoke", h)>>) /\ closeHandler' = closeHandler
    BY <1>6 DEF OnClose, ReportsAtOnce
  <2>2. /\ Step("invoke", h) \in Plain /\ {Step("invoke", h)} \in SUBSET StepSet
        /\ Plain \in SUBSET StepSet
    BY PlainSteps DEF Plain
  <2>3. PICK steps : steps = <<Step("invoke", h)>>
    OBVIOUS
  <2>4. /\ Only(steps, {Step("invoke", h)}) /\ Only(steps, Plain)
        /\ Len(steps) = 1
    BY <2>2, <2>3, Lists
  <2>5. Moves(a, steps, 0)
    BY <2>1, <2>3, <2>4, FirstMoves DEF Only
  <2>6. \A i \in 1..Len(steps) : steps[i].do = "invoke" /\ steps[i].arg = h
    BY <2>4 DEF Only, Step
  <2> HIDE <2>3
  <2>7. PostsJobs' /\ Core' /\ Followed' /\ Preceded' /\ PendingInv' /\ Woken'
    BY <1>2, <1>5, <2>4, <2>5, PlainKeeps
  <2>8. Single(Invoking(h))'
    <3>1. PICK k \in 1..Len(steps) : k = 1
      BY <2>4
    <3>2. \A i \in 1..Len(steps) : i = k
      BY <2>4, <3>1
    <3>3. PICK T : T = Invoking(h)
      OBVIOUS
    <3>4. Single(T)'
      BY <1>4, <2>5, <3>2, <3>3, OneAdded
    <3> QED
      BY <3>3, <3>4 DEF Single, Invoking
  <2>9. ASSUME NEW g \in Handlers, g # h
        PROVE  /\ Has(Invoking(g))' => Has(Invoking(g))
               /\ Single(Invoking(g)) => Single(Invoking(g))'
    <3>1. \A i \in 1..Len(steps) : steps[i] \notin Invoking(g)
      BY <2>6, <2>9 DEF Invoking
    <3>2. PICK T : T = Invoking(g)
      OBVIOUS
    <3>3. /\ Has(T)' => Has(T)
          /\ Single(T) => Single(T)'
      BY <2>5, <3>1, <3>2, NoneAdded
    <3> QED
      BY <3>2, <3>3 DEF Single, Has, Invoking
  <2>10. ReportInv'
    <3>1. closeHandler' = None /\ closed'
      BY <1>1, <1>6, <2>1 DEF ReportInv
    <3>2. ASSUME NEW g \in Handlers
          PROVE  /\ Single(Invoking(g))'
                 /\ Has(Invoking(g))' => calls'[g] = 0 /\ g \in Range(registered)'
                 /\ calls'[g] \in {0, 1}
                 /\ calls'[g] = 1 => g \in Range(registered)'
      <4>1. CASE g = h
        BY <1>1, <1>3, <1>4, <2>8, <4>1
      <4>2. CASE g # h
        BY <1>1, <1>3, <2>9, <4>2 DEF ReportInv
      <4> QED
        BY <4>1, <4>2
    <3> QED
      BY <3>1, <3>2 DEF ReportInv
  <2>11. ShutInv'
    <3>1. \A i \in 1..Len(steps) : steps[i] \notin Cancelling
      BY <2>6 DEF Cancelling, Do, Step
    <3> QED
      BY <1>1, <1>2, <2>5, <3>1, NoCancel DEF PostedHas
  <2>12. Types'
    <3>1. todo' \in [Actors -> Seq(StepSet)]
      BY <2>5 DEF Moves
    <3> QED
      BY <1>1, <1>2, <1>3, <2>1, <3>1 DEF Types
  <2> QED
    BY <1>0, <2>7, <2>10, <2>11, <2>12 DEF Inv, WriteInv
<1>7. CASE ~closed
  <2>1. closeHandler' = h /\ UNCHANGED <<todo, closed>>
    BY <1>7 DEF OnClose, ReportsAtOnce
  <2>2. SameTodo /\ PostsJobs' /\ Followed' /\ Preceded'
    BY <2>1, TodoSame
  <2>3. Core'
    BY <1>2, <1>5, <2>2, CoreSame
  <2>4. PendingInv'
    BY <1>1, PendingSame
  <2>5. Woken'
    BY <1>1, <2>1, WokenSame
  <2>6. ReportInv'
    <3>1. ASSUME NEW g \in Handlers
          PROVE  /\ Single(Invoking(g))'
                 /\ ~Has(Invoking(g))' /\ calls'[g] = 0
      <4>1. ~Has(Invoking(g)) /\ calls[g] = 0
        BY <1>7 DEF ReportInv
      <4> QED
        BY <1>1, <2>1, <4>1 DEF Has, Single, Invoking
    <3> QED
      BY <1>1, <1>3, <1>7, <2>1, <3>1 DEF ReportInv
  <2>7. ShutInv'
    BY <1>1, <1>2, <2>1, ShutSame DEF PostedHas
  <2>8. Types'
    BY <1>1, <1>2, <1>3, <2>1 DEF Types
  <2> QED
    BY <1>0, <2>2, <2>3, <2>4, <2>5, <2>6, <2>7, <2>8 DEF Inv, WriteInv
<1> QED
  BY <1>6, <1>7

LEMMA CloseKeeps ==
  ASSUME Inv, NEW a \in Actors, Close(a)
  PROVE  Inv'
<1> USE Parts
<1>0. Flags'
  BY DEF Close, Flags, http, impl
<1>1. /\ First(a, <<Do("cancelWait"), Do("setClosing"), Do("next")>>)
      /\ UNCHANGED <<impl, http, posted, peer, aborted, accepted, wire,
                     registered, calls>>
  BY DEF Close
<1>2. /\ UNCHANGED <<closed, closeHandler, pending, ops, shut, queue, started,
                     closing, writing>>
      /\ UNCHANGED data
  BY <1>1 DEF impl, http, data
<1> DEFINE S == {Do("cancelWait"), Do("setClosing"), Do("next")}
<1>3. S \in SUBSET StepSet
  BY Typed DEF Calls
<1>4. \A s \in S : s.do \in {"cancelWait", "setClosing", "next"}
  BY DEF Do, Step
<1>5. PICK steps : steps = <<Do("cancelWait"), Do("setClosing"), Do("next")>>
  OBVIOUS
<1>6. /\ Only(steps, S) /\ Len(steps) = 3 /\ steps[1] = Do("cancelWait")
      /\ steps[3] = Do("next")
  BY <1>3, <1>5, Lists
<1>7. Moves(a, steps, 0)
  BY <1>1, <1>5, <1>6, FirstMoves DEF Only
<1> HIDE <1>5 DEF S
<1>8. /\ \A i \in 1..Len(steps) : steps[i].do \in {"cancelWait", "setClosing", "next"}
      /\ \A i \in 1..Len(steps) : i = 1 \/ i = 2 \/ i = 3
      /\ steps[1].do = "cancelWait" /\ steps[3].do = "next"
  <2>1. \A i \in 1..Len(steps) : i = 1 \/ i = 2 \/ i = 3
    BY <1>6
  <2> QED
    BY <1>4, <1>6, <2>1 DEF Only, Do, Step
<1>9. SameTodo
  <2>1. \A i \in 1..Len(steps) : steps[i] \notin Tokens
    BY <1>8, TokenSteps
  <2>2. PICK d : d = 0
    OBVIOUS
  <2>3. Moves(a, steps, d) /\ d # 1
    BY <1>7, <2>2
  <2> QED
    BY <2>1, <2>3, TodoNeutral
<1>10. PostsJobs'
  <2>1. \A i \in 1..Len(steps) : steps[i] \notin BadPosts
    BY <1>8 DEF BadPosts
  <2> QED
    BY <1>7, <2>1, NoneAdded DEF PostsJobs
<1>11. Followed'
  <2>1. ASSUME NEW i \in 1..Len(steps), steps[i] \in Waking
        PROVE  \E j \in 1..Len(steps) : j > i /\ steps[j].do = "next"
    <3>1. i # 3 /\ steps[3].do = "next"
      BY <1>8, <2>1 DEF Waking, Doing
    <3> QED
      BY <1>6, <1>8, <3>1
  <2> QED
    BY <1>7, <2>1, FollowedMoves
<1>12. Preceded'
  BY <1>2, <1>7, <1>8, PrecededMoves
<1>13. SamePosted
  BY <1>1, PostedUnchanged
<1>14. Core'
  BY <1>2, <1>9, <1>13, CoreSame
<1>15. Woken'
  BY <1>2, <1>7, NextStays
<1>16. PendingInv'
  BY <1>2, PendingSame
<1>17. ReportInv'
  BY <1>1, <1>2, <1>7, <1>8, NoInvoke DEF ReportInv
<1>18. ShutInv'
  <2>1. \A i \in 1..Len(steps) : steps[i] \notin Cancelling
    BY <1>8 DEF Cancelling, Do, Step
  <2> QED
    BY <1>1, <1>2, <1>7, <2>1, NoCancel DEF PostedHas
<1>19. Types'
  <2>1. todo' \in [Actors -> Seq(StepSet)]
    BY <1>7 DEF Moves
  <2> QED
    BY <1>1, <1>2, <2>1 DEF Types
<1> QED
  BY <1>0, <1>10, <1>11, <1>12, <1>14, <1>15, <1>16, <1>17, <1>18, <1>19
  DEF Inv, WriteInv

-----------------------------------------------------------------------------
(* What an actor goes on with. *)

(* Steps that may claim a write, too. *)
Harmless ==
  {s \in StepSet : s.do \in {"next", "start", "finish", "cancelWait", "invoke"}
                   \/ (s.do = "post" /\ s.arg \in JobSet)}

LEMMA HarmlessMoves ==
  ASSUME Types, PostsJobs, WriteInv, closed => closed',
         NEW a, NEW steps, NEW d, Moves(a, steps, d), Only(steps, Harmless),
         d = 1 => todo[a][1].do # "finish" \/ closed'
  PROVE  PostsJobs' /\ Followed' /\ Preceded'
<1>1. todo \in [Actors -> Seq(StepSet)]
  BY DEF Types
<1>2. /\ \A i \in 1..Len(steps) : steps[i] \notin BadPosts
      /\ \A i \in 1..Len(steps) : steps[i] \notin Waking
      /\ \A i \in 1..Len(steps) : steps[i].do # "resume"
  BY DEF Only, Harmless, BadPosts, Waking, Doing
<1>3. PostsJobs'
  BY <1>1, <1>2, NoneAdded DEF PostsJobs
<1>4. Followed'
  BY <1>1, <1>2, FollowedMoves DEF WriteInv
<1>5. Preceded'
  BY <1>1, <1>2, PrecededMoves DEF WriteInv
<1> QED
  BY <1>3, <1>4, <1>5

(* Nothing follows the step. *)
LEMMA NothingMoves ==
  ASSUME Types, NEW a \in Actors, todo[a] # <<>>, Then(a, <<>>)
  PROVE  /\ Moves(a, <<>>, 1) /\ Only(<<>>, Plain) /\ Only(<<>>, Harmless)
         /\ \A i \in 1..Len(<<>>) : FALSE
         /\ todo' \in [Actors -> Seq(StepSet)]
<1>1. <<>> \in Seq(StepSet) /\ \A i \in 1..Len(<<>>) : FALSE
  OBVIOUS
<1>2. Moves(a, <<>>, 1)
  BY <1>1, ThenMoves DEF Types
<1> QED
  BY <1>1, <1>2 DEF Only, Moves

LEMMA PostKeeps ==
  ASSUME Inv, NEW a \in Actors, Post(a)
  PROVE  Inv'
<1> USE Parts
<1>0. Flags'
  BY DEF Post, Flags, http, impl, env
<1>1. /\ At(a, "post") /\ Then(a, <<>>) /\ posted' = Append(posted, Arg(a))
      /\ UNCHANGED <<impl, http, env>>
  BY DEF Post
<1>2. /\ UNCHANGED <<closed, closeHandler, pending, ops, shut, queue, started,
                     closing, writing, peer, aborted, registered, calls>>
      /\ UNCHANGED data
  BY <1>1 DEF impl, http, env, data
<1>3. /\ todo[a] # <<>> /\ Len(todo[a]) \in Nat \ {0}
      /\ todo[a][1] \in StepSet /\ todo[a][1].do = "post"
      /\ todo[a][1].arg = Arg(a) /\ todo[a][1] \notin Doing("next")
  BY <1>1, Here
<1>4. PICK j : j = Arg(a)
  OBVIOUS
<1>5. j \in JobSet
  <2>1. todo[a][1] \notin BadPosts
    <3>1. 1 \in 1..Len(todo[a])
      BY <1>3
    <3> QED
      BY <3>1 DEF PostsJobs, Has
  <2> QED
    BY <1>3, <1>4, <2>1 DEF BadPosts
<1>6. todo[a][1] = Claim(j)
  BY <1>3, <1>4 DEF StepSet, Claim, Step
<1>7. posted' = Append(posted, j)
  BY <1>1, <1>4
<1> HIDE <1>4
<1>8. PICK steps : steps = <<>>
  OBVIOUS
<1>9. /\ Moves(a, steps, 1) /\ Only(steps, Plain) /\ Only(steps, Harmless)
      /\ \A i \in 1..Len(steps) : FALSE
      /\ todo' \in [Actors -> Seq(StepSet)]
  BY <1>1, <1>3, <1>8, NothingMoves
<1>10. PostsJobs' /\ Followed' /\ Preceded'
  BY <1>2, <1>3, <1>9, HarmlessMoves
<1>11. Core'
  <2>1. CASE j.do \in Writes
    <3>1. j \in WriteJobs
      BY <1>5, <2>1 DEF WriteJobs
    <3> QED
      BY <1>2, <1>6, <1>7, <1>8, <1>9, <3>1, CorePost
  <2>2. CASE j.do \notin Writes
    <3>1. SamePosted
      BY <1>5, <1>7, <2>2, PostedOther
    <3>2. todo[a][1] \notin Tokens
      BY <1>5, <1>6, <2>2, TokenSteps
    <3> QED
      BY <1>2, <1>3, <1>9, <3>1, <3>2, PlainKeeps
  <2> QED
    BY <2>1, <2>2
<1>12. Woken'
  BY <1>2, <1>3, <1>9, NextStays
<1>13. PendingInv'
  BY <1>2, PendingSame
<1>14. ReportInv'
  BY <1>2, <1>9, NoInvoke DEF ReportInv
<1>15. ShutInv'
  <2>1. Has(Cancelling)' => Has(Cancelling)
    BY <1>9, NoneAdded
  <2>2. PostedHas(CancelJobs)' => PostedHas(CancelJobs) \/ j \in CancelJobs
    BY <1>5, <1>7, PostedAppend
  <2>3. j \in CancelJobs => Has(Cancelling)
    <3>1. 1 \in 1..Len(todo[a])
      BY <1>3
    <3>2. todo[a][1].arg = j
      BY <1>6 DEF Claim, Step
    <3>3. j \in CancelJobs => todo[a][1] \in Cancelling
      BY <1>3, <3>2 DEF Cancelling, CancelJobs
    <3> QED
      BY <3>1, <3>3 DEF Has
  <2> QED
    BY <1>2, <2>1, <2>2, <2>3 DEF ShutInv
<1>16. Types'
  <2>1. posted' \in Seq(JobSet)
    BY <1>5, <1>7
  <2> QED
    BY <1>2, <1>9, <2>1 DEF Types, data
<1> QED
  BY <1>0, <1>10, <1>11, <1>12, <1>13, <1>14, <1>15, <1>16 DEF Inv, WriteInv

(* A claim is the only step that follows. *)
LEMMA ClaimMoves ==
  ASSUME Types, NEW a \in Actors, todo[a] # <<>>, NEW j \in WriteJobs,
         Then(a, <<Step("post", j)>>)
  PROVE  /\ Moves(a, <<Step("post", j)>>, 1)
         /\ Only(<<Step("post", j)>>, Harmless)
         /\ \A i \in 1..Len(<<Step("post", j)>>) :
              <<Step("post", j)>>[i] = Step("post", j)
         /\ Step("post", j).do = "post" /\ Step("post", j) \notin Cancelling
         /\ todo' \in [Actors -> Seq(StepSet)]
<1>1. j \in JobSet /\ j.do \in Writes
  BY DEF WriteJobs
<1>2. PICK s : s = Step("post", j)
  OBVIOUS
<1>3. s \in StepSet
  BY <1>1, <1>2, Typed
<1>4. s.do = "post" /\ s.arg = j
  BY <1>2 DEF Step
<1>5. s \in Harmless /\ Harmless \in SUBSET StepSet /\ {s} \in SUBSET StepSet
  BY <1>1, <1>3, <1>4 DEF Harmless
<1>6. s \notin Cancelling
  BY <1>1, <1>4 DEF Cancelling, Writes
<1>7. Only(<<s>>, Harmless) /\ Only(<<s>>, {s})
  BY <1>5, Lists
<1>8. Moves(a, <<s>>, 1)
  BY <1>2, <1>7, ThenMoves DEF Types, Only
<1>9. \A i \in 1..Len(<<s>>) : <<s>>[i] = s
  BY <1>7 DEF Only
<1>10. todo' \in [Actors -> Seq(StepSet)]
  BY <1>8 DEF Moves
<1> QED
  BY <1>2, <1>4, <1>6, <1>7, <1>8, <1>9, <1>10

LEMMA StartKeeps ==
  ASSUME Inv, NEW a \in Actors, Start(a)
  PROVE  Inv'
<1> USE Parts
<1>0. Flags'
  <2>1. startRequested' \in BOOLEAN
    <3>1. CASE startRequested \/ closed
      BY <3>1 DEF Start, Flags
    <3>2. CASE ~(startRequested \/ closed)
      BY <3>2 DEF Start
    <3> QED
      BY <3>1, <3>2
  <2>2. UNCHANGED <<started, writing, closing, closed, http, env>>
    BY DEF Start
  <2> QED
    BY <2>1, <2>2 DEF Flags, http, env
<1>1. /\ At(a, "start")
      /\ UNCHANGED <<queue, pending, started, writing, closing, closed,
                     closeHandler, http, posted, env>>
  BY DEF Start
<1>2. UNCHANGED <<ops, shut, serializer, peer, aborted, registered, calls,
                  accepted, wire>>
  BY <1>1 DEF http, env
<1>3. /\ todo[a] # <<>> /\ Len(todo[a]) \in Nat \ {0}
      /\ todo[a][1].do = "start" /\ todo[a][1] \notin Doing("next")
      /\ todo[a][1] \notin Tokens
  BY <1>1, Here
<1>4. SamePosted
  BY <1>1, PostedUnchanged
<1>5. CASE startRequested \/ closed
  <2>1. Then(a, <<>>) /\ UNCHANGED startRequested
    BY <1>5 DEF Start
  <2>2. UNCHANGED data
    BY <1>1, <1>2, <2>1 DEF data
  <2>3. PICK steps : steps = <<>>
    OBVIOUS
  <2>4. /\ Moves(a, steps, 1) /\ Only(steps, Plain)
        /\ \A i \in 1..Len(steps) : FALSE
        /\ todo' \in [Actors -> Seq(StepSet)]
    BY <1>3, <2>1, <2>3, NothingMoves
  <2> HIDE <2>3
  <2>5. PostsJobs' /\ Core' /\ Followed' /\ Preceded' /\ PendingInv' /\ Woken'
    BY <1>1, <1>2, <1>3, <1>4, <2>2, <2>4, PlainKeeps
  <2>6. ReportInv'
    BY <1>1, <1>2, <2>4, NoInvoke DEF ReportInv
  <2>7. ShutInv'
    BY <1>1, <1>2, <2>4, NoCancel DEF PostedHas
  <2>8. Types'
    BY <1>1, <1>2, <2>4 DEF Types
  <2> QED
    BY <1>0, <2>5, <2>6, <2>7, <2>8 DEF Inv, WriteInv
<1>6. CASE ~(startRequested \/ closed)
  <2>1. Then(a, <<Step("post", Do("start"))>>) /\ startRequested' = TRUE
    BY <1>6 DEF Start
  <2>2. PICK j \in WriteJobs : j = Do("start")
    <3>1. Do("start") \in JobSet /\ Do("start").do = "start"
      BY Typed DEF Do, Step, Jobs
    <3> QED
      BY <3>1 DEF WriteJobs, Writes
  <2>3. ~HasToken /\ ~started
    BY <1>6 DEF Session
  <2>4. JobOk(j)
    BY <2>2, <2>3 DEF JobOk, Do, Step
  <2>5. PICK steps : steps = <<Step("post", j)>>
    OBVIOUS
  <2>6. /\ Moves(a, steps, 1) /\ Only(steps, Harmless)
        /\ \A i \in 1..Len(steps) : steps[i] = Step("post", j)
        /\ Step("post", j).do = "post" /\ Step("post", j) \notin Cancelling
        /\ todo' \in [Actors -> Seq(StepSet)]
    BY <1>3, <2>1, <2>2, <2>5, ClaimMoves
  <2>7. Core'
    BY <1>1, <1>2, <2>1, <2>3, <2>4, <2>5, <2>6, CoreClaim
  <2> HIDE <2>5
  <2>8. PostsJobs' /\ Followed' /\ Preceded'
    BY <1>1, <1>3, <2>6, HarmlessMoves
  <2>9. Woken'
    BY <1>1, <1>3, <2>6, NextStays
  <2>10. PendingInv'
    BY <1>1, PendingSame
  <2>11. ReportInv'
    BY <1>1, <1>2, <2>6, NoInvoke DEF ReportInv
  <2>12. ShutInv'
    BY <1>1, <1>2, <2>6, NoCancel DEF PostedHas
  <2>13. Types'
    BY <1>1, <1>2, <2>6 DEF Types
  <2> QED
    BY <1>0, <2>7, <2>8, <2>9, <2>10, <2>11, <2>12, <2>13 DEF Inv, WriteInv
<1> QED
  BY <1>5, <1>6

(* After a step that write_next follows, it is still to come. *)
LEMMA FollowedNext ==
  ASSUME Types, Followed, NEW a \in Actors, Len(todo[a]) \in Nat \ {0},
         todo[a][1] \in Waking, NEW steps, Moves(a, steps, 1)
  PROVE  Has(Doing("next"))'
<1>1. 1 \in 1..Len(todo[a])
  OBVIOUS
<1>2. PICK j \in 1..Len(todo[a]) : todo[a][j].do = "next"
  BY <1>1 DEF Followed
<1>3. todo[a][j] \in StepSet
  BY DEF Types
<1>4. Has(Doing("next"))
  BY <1>2, <1>3 DEF Has, Doing
<1>5. todo[a][1] \notin Doing("next")
  BY DEF Waking, Doing
<1> QED
  BY <1>4, <1>5, NoneDropped DEF Types

LEMMA SetStartedKeeps ==
  ASSUME Inv, NEW a \in Actors, SetStarted(a)
  PROVE  Inv'
<1> USE Parts
<1>0. Flags'
  BY DEF SetStarted, Flags, http, env
<1>1. /\ At(a, "setStarted") /\ started' = TRUE
      /\ Then(a, IF Watches THEN <<Step("post", Do("wait"))>> ELSE <<>>)
      /\ UNCHANGED <<queue, pending, startRequested, writing, closing, closed,
                     closeHandler, http, posted, env>>
  BY DEF SetStarted
<1>2. UNCHANGED <<ops, shut, serializer, peer, aborted, registered, calls,
                  accepted, wire>>
  BY <1>1 DEF http, env
<1>3. /\ todo[a] # <<>> /\ Len(todo[a]) \in Nat \ {0}
      /\ todo[a][1].do = "setStarted" /\ todo[a][1] \in Doing("setStarted")
  BY <1>1, Here
<1>4. PICK steps : steps = IF Watches THEN <<Step("post", Do("wait"))>> ELSE <<>>
  OBVIOUS
<1>5. /\ Only(steps, Plain)
      /\ \A i \in 1..Len(steps) : steps[i] = Step("post", Do("wait"))
  <2> DEFINE s == Step("post", Do("wait"))
  <2>1. Plain \in SUBSET StepSet /\ s \in Plain /\ {s} \in SUBSET StepSet
    BY PlainSteps DEF Plain
  <2> HIDE DEF s
  <2>2. /\ Only(<<>>, Plain) /\ Only(<<>>, {s})
        /\ Only(<<s>>, Plain) /\ Only(<<s>>, {s})
    BY <2>1, Lists
  <2>3. steps = <<>> \/ steps = <<s>>
    BY <1>4 DEF s
  <2>4. Only(steps, Plain) /\ Only(steps, {s})
    BY <2>2, <2>3
  <2> QED
    BY <2>4 DEF Only, s
<1>6. Moves(a, steps, 1)
  BY <1>1, <1>3, <1>4, <1>5, ThenMoves DEF Only
<1> HIDE <1>4
<1>7. \A i \in 1..Len(steps) : steps[i] \in Plain /\ steps[i] \notin Tokens
  BY <1>5, PlainToken DEF Only
<1>8. /\ Only(steps, Harmless)
      /\ \A i \in 1..Len(steps) : steps[i].do = "post"
  <2>1. \A s \in Plain : s \in Harmless
    BY DEF Plain, Harmless
  <2>2. Step("post", Do("wait")).do = "post"
    BY DEF Step
  <2>3. \A i \in 1..Len(steps) : steps[i].do = "post"
    BY <1>5, <2>2
  <2> QED
    BY <1>5, <2>1, <2>3 DEF Only
<1>9. PostsJobs' /\ Followed' /\ Preceded'
  BY <1>1, <1>3, <1>6, <1>8, HarmlessMoves
<1>10. Core'
  BY <1>1, <1>2, <1>3, <1>6, <1>7, CoreStarted
<1>11. Woken'
  BY <1>3, <1>6, FollowedNext DEF Waking, Woken
<1>12. PendingInv'
  BY <1>1, PendingSame
<1>13. ReportInv'
  BY <1>1, <1>2, <1>6, <1>8, NoInvoke DEF ReportInv
<1>14. ShutInv'
  <2>1. \A i \in 1..Len(steps) : steps[i] \notin Cancelling
    <3>1. Step("post", Do("wait")).arg.do = "wait"
      BY DEF Step, Do
    <3> QED
      BY <1>5, <3>1 DEF Cancelling
  <2> QED
    BY <1>1, <1>2, <1>6, <2>1, NoCancel DEF PostedHas
<1>15. Types'
  <2>1. todo' \in [Actors -> Seq(StepSet)]
    BY <1>6 DEF Moves
  <2> QED
    BY <1>1, <1>2, <2>1 DEF Types
<1> QED
  BY <1>0, <1>9, <1>10, <1>11, <1>12, <1>13, <1>14, <1>15 DEF Inv, WriteInv

LEMMA SetClosingKeeps ==
  ASSUME Inv, NEW a \in Actors, SetClosing(a)
  PROVE  Inv'
<1> USE Parts
<1>0. Flags'
  BY DEF SetClosing, Flags, http, env
<1>1. /\ At(a, "setClosing") /\ closing' = TRUE /\ Then(a, <<>>)
      /\ UNCHANGED <<queue, pending, startRequested, started, writing, closed,
                     closeHandler, http, posted, env>>
  BY DEF SetClosing
<1>2. UNCHANGED <<ops, shut, serializer, peer, aborted, registered, calls,
                  accepted, wire>>
  BY <1>1 DEF http, env
<1>3. /\ todo[a] # <<>> /\ Len(todo[a]) \in Nat \ {0}
      /\ todo[a][1].do = "setClosing" /\ todo[a][1] \in Doing("setClosing")
      /\ todo[a][1] \notin Tokens
  BY <1>1, Here
<1>4. PICK steps : steps = <<>>
  OBVIOUS
<1>5. /\ Moves(a, steps, 1) /\ Only(steps, Plain)
      /\ \A i \in 1..Len(steps) : FALSE
      /\ todo' \in [Actors -> Seq(StepSet)]
  BY <1>1, <1>3, <1>4, NothingMoves
<1> HIDE <1>4
<1>6. SameTodo /\ PostsJobs' /\ Followed' /\ Preceded'
  BY <1>1, <1>3, <1>5, PlainMoves
<1>7. SamePosted
  BY <1>1, PostedUnchanged
<1>8. Core'
  BY <1>1, <1>2, <1>6, <1>7, CoreClosing
<1>9. Woken'
  BY <1>3, <1>5, FollowedNext DEF Waking, Woken
<1>10. PendingInv'
  BY <1>1, PendingSame
<1>11. ReportInv'
  BY <1>1, <1>2, <1>5, NoInvoke DEF ReportInv
<1>12. ShutInv'
  BY <1>1, <1>2, <1>5, NoCancel DEF PostedHas
<1>13. Types'
  BY <1>1, <1>2, <1>5 DEF Types
<1> QED
  BY <1>0, <1>6, <1>8, <1>9, <1>10, <1>11, <1>12, <1>13 DEF Inv, WriteInv

(* What write_next claims of an open session: the next event that was       *)
(* accepted, or the end when none is left.                                  *)
LEMMA ClaimedJob ==
  ASSUME Inv, WriterFree, queue # <<>> \/ closing
  PROVE  /\ ~HasToken
         /\ queue # <<>> => Step("write", FrontEvent) \in WriteJobs
                            /\ JobOk(Step("write", FrontEvent))
         /\ queue = <<>> => Do("finish") \in WriteJobs /\ JobOk(Do("finish"))
<1> USE Parts
<1>1. started /\ ~writing /\ ~closed
  BY DEF WriterFree
<1>2. ~HasToken /\ serializer
  BY <1>1 DEF Session
<1>3. ~Has(Doing("written")) /\ ~Has(Doing("resume"))
  BY <1>2, HasMore, TokenSteps DEF HasToken
<1>4. NoEnd
  BY <1>1, <1>3 DEF Inv, WriteInv, Core, Ended
<1>5. /\ Len(queue) <= Len(accepted)
      /\ \A i \in 1..Len(queue) :
           queue[i] = accepted[Len(accepted) - Len(queue) + i]
      /\ Len(wire) = Len(accepted) - Len(queue)
      /\ Len(queue) \in Nat /\ Len(accepted) \in Nat
  <2>1. Queued
    BY DEF Inv, WriteInv, Core
  <2>2. Len(queue) \in Nat /\ Len(accepted) \in Nat
    BY DEF Types
  <2>3. Len(wire) = Len(accepted) - Len(queue) + 0
    BY <1>1, <1>3, <1>4, <2>1 DEF Queued
  <2> QED
    BY <1>1, <1>4, <2>1, <2>2, <2>3 DEF Queued
<1>6. ASSUME queue # <<>>
      PROVE  Step("write", FrontEvent) \in WriteJobs
             /\ JobOk(Step("write", FrontEvent))
  <2>1. /\ FrontEvent \in Events /\ FrontEvent = queue[1] /\ Len(queue) # 0
    BY <1>6 DEF FrontEvent
  <2>2. PICK j : j = Step("write", FrontEvent)
    OBVIOUS
  <2>3. j.do = "write" /\ j.arg = FrontEvent /\ j \in JobSet
    BY <2>1, <2>2, Typed DEF Step
  <2>4. Len(wire) < Len(accepted) /\ 1 \in 1..Len(queue)
    BY <1>5, <2>1
  <2>5. queue[1] = accepted[Len(wire) + 1]
    BY <1>5, <2>4
  <2>6. JobOk(j)
    BY <1>1, <1>2, <1>4, <2>1, <2>3, <2>4, <2>5 DEF JobOk
  <2> QED
    BY <2>2, <2>3, <2>6 DEF WriteJobs, Writes
<1>7. ASSUME queue = <<>>
      PROVE  Do("finish") \in WriteJobs /\ JobOk(Do("finish"))
  <2>1. PICK j : j = Do("finish")
    OBVIOUS
  <2>2. j.do = "finish" /\ j \in JobSet
    BY <2>1, Typed DEF Do, Step, Jobs
  <2>3. Len(queue) = 0
    BY <1>7
  <2>4. Len(wire) = Len(accepted) /\ closing
    BY <1>5, <1>7, <2>3
  <2>5. JobOk(j)
    BY <1>1, <1>2, <1>4, <2>2, <2>4 DEF JobOk
  <2> QED
    BY <2>1, <2>2, <2>5 DEF WriteJobs, Writes
<1> QED
  BY <1>2, <1>6, <1>7

LEMMA WriteNextKeeps ==
  ASSUME Inv, NEW a \in Actors, WriteNext(a)
  PROVE  Inv'
<1> USE Parts
<1> DEFINE claims == WriterFree /\ (queue # <<>> \/ closing)
           job == IF queue # <<>> THEN Step("write", FrontEvent) ELSE Do("finish")
<1>1. /\ At(a, "next") /\ writing' = (writing \/ claims)
      /\ Then(a, IF claims THEN <<Step("post", job)>> ELSE <<>>)
      /\ UNCHANGED <<queue, pending, startRequested, started, closing, closed,
                     closeHandler, http, posted, env>>
  BY DEF WriteNext
<1>2. UNCHANGED <<ops, shut, serializer, peer, aborted, registered, calls,
                  accepted, wire>>
  BY <1>1 DEF http, env
<1>3. /\ todo[a] # <<>> /\ Len(todo[a]) \in Nat \ {0}
      /\ todo[a][1].do = "next" /\ todo[a][1] \notin Tokens
  BY <1>1, Here
<1>0. Flags'
  <2>1. writing' \in BOOLEAN
    BY <1>1
  <2> QED
    BY <1>1, <2>1 DEF Flags, http, env
<1>4. SamePosted
  BY <1>1, PostedUnchanged
<1>5. CASE ~claims
  <2>1. Then(a, <<>>) /\ writing' = writing
    BY <1>1, <1>5 DEF Flags
  <2>2. UNCHANGED data
    BY <1>1, <1>2, <2>1 DEF data
  <2>3. PICK steps : steps = <<>>
    OBVIOUS
  <2>4. /\ Moves(a, steps, 1) /\ Only(steps, Plain)
        /\ \A i \in 1..Len(steps) : FALSE
        /\ todo' \in [Actors -> Seq(StepSet)]
    BY <1>3, <2>1, <2>3, NothingMoves
  <2> HIDE <2>3
  <2>5. PostsJobs' /\ Core' /\ Followed' /\ Preceded' /\ PendingInv'
    BY <1>1, <1>2, <1>3, <1>4, <2>2, <2>4, PlainKeeps
  <2>6. Woken'
    BY <1>1, <1>5, <2>1 DEF Woken, WriterFree
  <2>7. ReportInv'
    BY <1>1, <1>2, <2>4, NoInvoke DEF ReportInv
  <2>8. ShutInv'
    BY <1>1, <1>2, <2>4, NoCancel DEF PostedHas
  <2>9. Types'
    BY <1>1, <1>2, <2>4 DEF Types
  <2> QED
    BY <1>0, <2>5, <2>6, <2>7, <2>8, <2>9 DEF Inv, WriteInv
<1>6. CASE claims
  <2>1. Then(a, <<Step("post", job)>>) /\ writing' = TRUE
    BY <1>1, <1>6
  <2>2. ~HasToken /\ job \in WriteJobs /\ JobOk(job) /\ started
    BY <1>6, ClaimedJob DEF WriterFree
  <2> HIDE DEF job, claims
  <2>3. PICK j \in WriteJobs : j = job
    BY <2>2
  <2>4. PICK steps : steps = <<Step("post", j)>>
    OBVIOUS
  <2>5. /\ Moves(a, steps, 1) /\ Only(steps, Harmless)
        /\ \A i \in 1..Len(steps) : steps[i] = Step("post", j)
        /\ Step("post", j).do = "post" /\ Step("post", j) \notin Cancelling
        /\ todo' \in [Actors -> Seq(StepSet)]
    BY <1>3, <2>1, <2>3, <2>4, ClaimMoves
  <2>6. startRequested' /\ JobOk(j)
    BY <1>1, <2>2, <2>3 DEF Session
  <2>7. Core'
    BY <1>1, <1>2, <2>1, <2>2, <2>4, <2>5, <2>6, CoreClaim
  <2> HIDE <2>4
  <2>8. PostsJobs' /\ Followed' /\ Preceded'
    BY <1>1, <1>3, <2>5, HarmlessMoves
  <2>9. Woken'
    BY <2>1 DEF Woken
  <2>10. PendingInv'
    BY <1>1, PendingSame
  <2>11. ReportInv'
    BY <1>1, <1>2, <2>5, NoInvoke DEF ReportInv
  <2>12. ShutInv'
    BY <1>1, <1>2, <2>5, NoCancel DEF PostedHas
  <2>13. Types'
    BY <1>1, <1>2, <2>5 DEF Types
  <2> QED
    BY <1>0, <2>7, <2>8, <2>9, <2>10, <2>11, <2>12, <2>13 DEF Inv, WriteInv
<1> QED
  BY <1>5, <1>6

LEMMA WrittenKeeps ==
  ASSUME Inv, NEW a \in Actors, Written(a)
  PROVE  Inv'
<1> USE Parts
<1>0. Flags'
  <2>1. writing' \in BOOLEAN
    BY DEF Written
  <2>2. UNCHANGED <<startRequested, started, closing, closed, http, env>>
    BY DEF Written
  <2> QED
    BY <2>1, <2>2 DEF Flags, http, env
<1>1. /\ At(a, "written") /\ writing' = FALSE /\ Then(a, <<>>)
      /\ UNCHANGED <<startRequested, started, closing, closed, closeHandler,
                     http, posted, env>>
      /\ queue = <<>> => queue' = queue /\ pending' = pending
      /\ queue # <<>> => queue' = Tail(queue) /\ pending' = PendingAfterWrite
  BY DEF Written
<1>2. UNCHANGED <<ops, shut, serializer, peer, aborted, registered, calls,
                  accepted, wire>>
  BY <1>1 DEF http, env
<1>3. /\ todo[a] # <<>> /\ Len(todo[a]) \in Nat \ {0}
      /\ todo[a][1].do = "written" /\ todo[a][1] \in Doing("written")
  BY <1>1, Here
<1>4. PICK steps : steps = <<>>
  OBVIOUS
<1>5. /\ Moves(a, steps, 1) /\ Only(steps, Harmless)
      /\ \A i \in 1..Len(steps) : FALSE
      /\ todo' \in [Actors -> Seq(StepSet)]
  BY <1>1, <1>3, <1>4, NothingMoves
<1> HIDE <1>4
<1>6. PostsJobs' /\ Followed' /\ Preceded'
  BY <1>1, <1>3, <1>5, HarmlessMoves
<1>7. Core'
  BY <1>1, <1>2, <1>3, <1>5, CoreWritten
<1>8. Woken'
  BY <1>3, <1>5, FollowedNext DEF Waking, Woken
<1>9. PendingInv' /\ pending' \in Nat /\ queue' \in Seq(Events)
  <2>1. CASE queue = <<>>
    BY <1>1, <2>1, PendingSame DEF Types
  <2>2. CASE queue # <<>>
    <3>1. queue' = Tail(queue) /\ pending' = PendingAfterWrite
      BY <1>1, <2>2
    <3>2. queue' \in Seq(Events)
      BY <2>2, <3>1
    <3> QED
      BY <2>2, <3>1, <3>2, PendingLess
  <2> QED
    BY <2>1, <2>2
<1>10. ReportInv'
  BY <1>1, <1>2, <1>5, NoInvoke DEF ReportInv
<1>11. ShutInv'
  BY <1>1, <1>2, <1>5, NoCancel DEF PostedHas
<1>12. Types'
  BY <1>1, <1>2, <1>5, <1>9 DEF Types
<1> QED
  BY <1>0, <1>6, <1>7, <1>8, <1>9, <1>10, <1>11, <1>12 DEF Inv, WriteInv

LEMMA FinishKeeps ==
  ASSUME Inv, NEW a \in Actors, Finish(a)
  PROVE  Inv'
<1> USE Parts
<1>1. /\ At(a, "finish")
      /\ UNCHANGED <<startRequested, started, closing, http, posted, env>>
  BY DEF Finish
<1>2. UNCHANGED <<ops, shut, serializer, peer, aborted, registered, calls,
                  accepted, wire>>
  BY <1>1 DEF http, env
<1>3. /\ todo[a] # <<>> /\ Len(todo[a]) \in Nat \ {0}
      /\ todo[a][1].do = "finish" /\ todo[a][1] \notin Tokens
      /\ todo[a][1] \notin Doing("next")
  BY <1>1, Here
<1>4. SamePosted
  BY <1>1, PostedUnchanged
<1>5. CASE closed
  <2>1. Then(a, <<>>) /\ UNCHANGED <<closed, writing, pending, queue, closeHandler>>
    BY <1>5 DEF Finish
  <2>2. UNCHANGED data
    BY <1>1, <1>2, <2>1 DEF data
  <2>3. PICK steps : steps = <<>>
    OBVIOUS
  <2>4. /\ Moves(a, steps, 1) /\ Only(steps, Plain)
        /\ \A i \in 1..Len(steps) : FALSE
        /\ todo' \in [Actors -> Seq(StepSet)]
    BY <1>3, <2>1, <2>3, NothingMoves
  <2> HIDE <2>3
  <2>5. PostsJobs' /\ Core' /\ Followed' /\ Preceded' /\ PendingInv' /\ Woken'
    BY <1>1, <1>2, <1>3, <1>4, <1>5, <2>1, <2>2, <2>4, PlainKeeps
  <2>6. ReportInv'
    BY <1>1, <1>2, <2>1, <2>4, NoInvoke DEF ReportInv
  <2>7. ShutInv'
    BY <1>1, <1>2, <2>4, NoCancel DEF PostedHas
  <2>8. Types'
    BY <1>1, <1>2, <2>1, <2>4 DEF Types
  <2>9. Flags'
    BY <1>1, <2>1 DEF Flags, http, env
  <2> QED
    BY <2>5, <2>6, <2>7, <2>8, <2>9 DEF Inv, WriteInv
<1>6. CASE ~closed
  <2>1. /\ closed' = TRUE /\ writing' = FALSE /\ pending' = 0 /\ queue' = <<>>
        /\ closeHandler' = None
        /\ Then(a, <<Do("cancelWait"), Step("invoke", closeHandler)>>)
    BY <1>6 DEF Finish
  <2>2. PICK h \in Handlers \cup {None} : h = closeHandler
    BY DEF Types
  <2> DEFINE S == {Do("cancelWait"), Step("invoke", h)}
  <2>3. S \in SUBSET Plain /\ Plain \in SUBSET StepSet
    BY PlainSteps DEF Plain
  <2>4. PICK steps : steps = <<Do("cancelWait"), Step("invoke", h)>>
    OBVIOUS
  <2>5. /\ Only(steps, Plain) /\ Len(steps) = 2
        /\ steps[1] = Do("cancelWait") /\ steps[2] = Step("invoke", h)
        /\ \A i \in 1..Len(steps) : i = 1 \/ i = 2
    <3>1. Only(steps, Plain)
      BY <2>3, <2>4, Lists
    <3>2. /\ Len(steps) = 2 /\ steps[1] = Do("cancelWait")
          /\ steps[2] = Step("invoke", h)
      BY <2>4
    <3> QED
      BY <3>1, <3>2
  <2>6. Moves(a, steps, 1)
    BY <1>3, <2>1, <2>2, <2>4, <2>5, ThenMoves DEF Only
  <2>7. /\ \A i \in 1..Len(steps) : steps[i].do = "invoke" => i = 2
        /\ steps[1].do = "cancelWait"
        /\ steps[2].do = "invoke" /\ steps[2].arg = h
    BY <2>5 DEF Do, Step
  <2> HIDE <2>4 DEF S
  <2>8. SameTodo /\ PostsJobs' /\ Followed' /\ Preceded'
    BY <1>3, <2>1, <2>5, <2>6, PlainMoves
  <2>9. Core'
    BY <1>1, <1>2, <1>4, <2>1, <2>8, CoreFinish
  <2>10. Woken'
    BY <2>1 DEF Woken
  <2>11. PendingInv'
    BY <2>1, PendingNone
  <2>12. ReportInv'
    <3>1. ASSUME NEW g \in Handlers
          PROVE  ~Has(Invoking(g)) /\ calls'[g] = 0
                 /\ (g = h => g \in Range(registered)')
      <4>1. g = h => closeHandler # None
        BY <2>2, SseAssumption
      <4> QED
        BY <1>2, <1>6, <2>2, <4>1 DEF ReportInv
    <3>2. ASSUME NEW g \in Handlers
          PROVE  /\ Single(Invoking(g))'
                 /\ Has(Invoking(g))' => g = h
      <4>1. PICK T : T = Invoking(g)
        OBVIOUS
      <4>2. \A i \in 1..Len(steps) : steps[i] \in T => i = 2
        BY <2>7, <4>1 DEF Invoking
      <4>3. PICK k \in 1..Len(steps) : k = 2
        BY <2>5
      <4>4. ~Has(T)
        BY <3>1, <4>1
      <4>5. Single(T)'
        BY <2>6, <4>2, <4>3, <4>4, OneAdded
      <4>6. Has(T)' => g = h
        <5>1. g # h => \A i \in 1..Len(steps) : steps[i] \notin T
          BY <2>5, <2>7, <4>1 DEF Invoking
        <5> QED
          BY <2>6, <4>4, <5>1, NoneAdded
      <4> QED
        BY <4>1, <4>5, <4>6 DEF Single, Has, Invoking
    <3> QED
      BY <2>1, <3>1, <3>2 DEF ReportInv
  <2>13. ShutInv'
    <3>1. \A i \in 1..Len(steps) : steps[i] \notin Cancelling
      BY <2>5, <2>7 DEF Cancelling, Do, Step
    <3> QED
      BY <1>1, <1>2, <2>6, <3>1, NoCancel DEF PostedHas
  <2>14. Types'
    <3>1. todo' \in [Actors -> Seq(StepSet)]
      BY <2>6 DEF Moves
    <3>2. queue' \in Seq(Events)
      BY <2>1
    <3> QED
      BY <1>1, <1>2, <2>1, <3>1, <3>2 DEF Types
  <2>15. Flags'
    <3>1. closed' \in BOOLEAN /\ writing' \in BOOLEAN
      BY <2>1
    <3> QED
      BY <1>1, <3>1 DEF Flags, http, env
  <2> QED
    BY <2>8, <2>9, <2>10, <2>11, <2>12, <2>13, <2>14, <2>15 DEF Inv, WriteInv
<1> QED
  BY <1>5, <1>6

LEMMA InvokeKeeps ==
  ASSUME Inv, NEW a \in Actors, Invoke(a)
  PROVE  Inv'
<1> USE Parts
<1>0. Flags'
  BY DEF Invoke, Flags, http, impl
<1>1. /\ At(a, "invoke") /\ Then(a, <<>>)
      /\ calls' = [h \in Handlers |-> calls[h] + (IF h = Arg(a) THEN 1 ELSE 0)]
      /\ UNCHANGED <<impl, http, posted, peer, aborted, accepted, wire,
                     registered>>
  BY DEF Invoke
<1>2. UNCHANGED <<ops, shut, pending, closed, closeHandler>> /\ UNCHANGED data
  BY <1>1 DEF http, impl, data
<1>3. /\ todo[a] # <<>> /\ Len(todo[a]) \in Nat \ {0}
      /\ todo[a][1].do = "invoke" /\ todo[a][1] \notin Tokens
      /\ todo[a][1] \notin Doing("next") /\ todo[a][1] \in StepSet
      /\ todo[a][1].arg = Arg(a)
  BY <1>1, Here
<1>4. PICK steps : steps = <<>>
  OBVIOUS
<1>5. /\ Moves(a, steps, 1) /\ Only(steps, Plain)
      /\ \A i \in 1..Len(steps) : FALSE
      /\ todo' \in [Actors -> Seq(StepSet)]
  BY <1>1, <1>3, <1>4, NothingMoves
<1> HIDE <1>4
<1>6. SamePosted
  BY <1>1, PostedUnchanged
<1>7. PostsJobs' /\ Core' /\ Followed' /\ Preceded' /\ PendingInv' /\ Woken'
  BY <1>1, <1>2, <1>3, <1>5, <1>6, PlainKeeps
<1>8. ASSUME NEW h \in Handlers
      PROVE  /\ Single(Invoking(h))'
             /\ Has(Invoking(h))' => /\ closed' /\ calls'[h] = 0
                                     /\ h \in Range(registered)'
             /\ calls'[h] \in {0, 1}
             /\ calls'[h] = 1 => closed' /\ h \in Range(registered)'
  <2>1. /\ Single(Invoking(h))
        /\ Has(Invoking(h)) => /\ closed /\ calls[h] = 0
                               /\ h \in Range(registered)
        /\ calls[h] \in {0, 1}
        /\ calls[h] = 1 => closed /\ h \in Range(registered)
    BY DEF ReportInv
  <2>2. PICK T : T = Invoking(h)
    OBVIOUS
  <2>3. CASE h = Arg(a)
    <3>1. todo[a][1] \in T
      BY <1>3, <2>2, <2>3 DEF Invoking
    <3>2. Has(T)
      <4>1. 1 \in 1..Len(todo[a])
        BY <1>3
      <4> QED
        BY <3>1, <4>1 DEF Has
    <3>3. ~Has(T)'
      BY <1>5, <2>1, <2>2, <3>1, OneDone
    <3>4. Single(T)'
      BY <3>3 DEF Single, Has
    <3>5. closed /\ calls[h] = 0 /\ h \in Range(registered)
      BY <2>1, <2>2, <3>2
    <3>6. calls'[h] = 1
      BY <1>1, <2>3, <3>5
    <3>7. ~Has(Invoking(h))' /\ Single(Invoking(h))'
      BY <2>2, <3>3, <3>4 DEF Has, Single, Invoking
    <3> QED
      BY <1>1, <1>2, <3>5, <3>6, <3>7
  <2>4. CASE h # Arg(a)
    <3>1. calls'[h] = calls[h]
      BY <1>1, <2>1, <2>4
    <3>2. (Has(T)' => Has(T)) /\ (Single(T) => Single(T)')
      BY <1>5, NoneAdded
    <3>3. (Has(Invoking(h))' => Has(Invoking(h))) /\ Single(Invoking(h))'
      BY <2>1, <2>2, <3>2 DEF Has, Single, Invoking
    <3> QED
      BY <1>1, <1>2, <2>1, <3>1, <3>3
  <2> QED
    BY <2>3, <2>4
<1>9. ReportInv'
  BY <1>1, <1>2, <1>8 DEF ReportInv
<1>10. ShutInv'
  BY <1>1, <1>2, <1>5, NoCancel DEF PostedHas
<1>11. Types'
  <2>1. calls' \in [Handlers -> Nat]
    <3>1. \A h \in Handlers : calls[h] + (IF h = Arg(a) THEN 1 ELSE 0) \in Nat
      BY DEF Types
    <3> QED
      BY <1>1, <3>1
  <2> QED
    BY <1>1, <1>2, <1>5, <2>1 DEF Types, data
<1> QED
  BY <1>0, <1>7, <1>9, <1>10, <1>11 DEF Inv, WriteInv

LEMMA CancelWaitKeeps ==
  ASSUME Inv, NEW a \in Actors, CancelWait(a)
  PROVE  Inv'
<1> USE Parts
<1>1. /\ At(a, "cancelWait") /\ Then(a, <<>>)
      /\ UNCHANGED <<impl, body, bodyCancelled, persistent, serializer, ops,
                     shut, conn, env>>
  BY DEF CancelWait
<1>2. /\ UNCHANGED <<ops, shut, pending, closed, closeHandler, peer, aborted,
                     registered, calls>>
      /\ UNCHANGED data
  BY <1>1 DEF impl, env, data
<1>3. /\ todo[a] # <<>> /\ Len(todo[a]) \in Nat \ {0}
      /\ todo[a][1].do = "cancelWait" /\ todo[a][1] \notin Tokens
      /\ todo[a][1] \notin Doing("next")
  BY <1>1, Here
<1>4. PICK steps : steps = <<>>
  OBVIOUS
<1>5. /\ Moves(a, steps, 1) /\ Only(steps, Plain)
      /\ \A i \in 1..Len(steps) : FALSE
      /\ todo' \in [Actors -> Seq(StepSet)]
  BY <1>1, <1>3, <1>4, NothingMoves
<1> HIDE <1>4
<1>6. /\ SamePosted /\ posted' \in Seq(JobSet)
      /\ PostedHas(CancelJobs)' => PostedHas(CancelJobs)
  <2>1. CASE posted' = posted
    BY <2>1, PostedUnchanged DEF PostedHas
  <2>2. CASE posted' = Append(posted, Do("cancelWait"))
    <3>1. PICK x : x = Do("cancelWait")
      OBVIOUS
    <3>2. x \in JobSet /\ x.do = "cancelWait" /\ x.do \notin Writes
      BY <3>1, Typed DEF Do, Step, Jobs, Writes
    <3>3. x \notin CancelJobs
      BY <3>2 DEF CancelJobs
    <3>4. posted' = Append(posted, x)
      BY <2>2, <3>1
    <3> HIDE <3>1
    <3> QED
      BY <3>2, <3>3, <3>4, PostedOther, PostedAppend
  <2> QED
    BY <2>1, <2>2 DEF CancelWait
<1>7. PostsJobs' /\ Core' /\ Followed' /\ Preceded' /\ PendingInv' /\ Woken'
  BY <1>2, <1>3, <1>5, <1>6, PlainKeeps
<1>8. ReportInv'
  BY <1>2, <1>5, NoInvoke DEF ReportInv
<1>9. ShutInv'
  BY <1>2, <1>5, <1>6, NoCancel
<1>10. Types'
  BY <1>1, <1>2, <1>5, <1>6 DEF Types, data
<1>11. Flags'
  <2>1. waitCancelled' \in BOOLEAN /\ probe' \in {"none", "active", "cancelled"}
    BY DEF CancelWait, DisconnectWaitCancelled, Flags
  <2> QED
    BY <1>1, <2>1 DEF Flags, impl, env
<1> QED
  BY <1>7, <1>8, <1>9, <1>10, <1>11 DEF Inv, WriteInv

LEMMA ResumeKeeps ==
  ASSUME Inv, NEW a \in Actors, Resume(a)
  PROVE  Inv'
<1> USE Parts
<1>0. Flags'
  <2>1. /\ serializer' \in BOOLEAN /\ conn' \in {"sse", "next", "closed"}
        /\ UNCHANGED <<impl, body, bodyCancelled, persistent, waitCancelled,
                       probe, shut, env>>
    BY DEF Resume
  <2> QED
    BY <2>1 DEF Flags, impl, env
<1>1. /\ At(a, "resume") /\ Then(a, <<>>)
      /\ UNCHANGED <<impl, ops, shut, posted, env>>
  BY DEF Resume
<1>2. UNCHANGED <<queue, startRequested, started, writing, closing, closed,
                  wire, accepted, pending, closeHandler, peer, aborted,
                  registered, calls>>
  BY <1>1 DEF impl, env
<1>3. /\ todo[a] # <<>> /\ Len(todo[a]) \in Nat \ {0}
      /\ todo[a][1].do = "resume" /\ todo[a][1] \in Doing("resume")
      /\ todo[a][1] \notin Doing("next")
  BY <1>1, Here
<1>4. closed
  <2>1. 1 \in 1..Len(todo[a]) /\ \A j \in 1..Len(todo[a]) : ~(j < 1)
    BY <1>3
  <2> QED
    BY <1>3, <2>1 DEF Preceded
<1>5. PICK steps : steps = <<>>
  OBVIOUS
<1>6. /\ Moves(a, steps, 1) /\ Only(steps, Harmless)
      /\ \A i \in 1..Len(steps) : FALSE
      /\ todo' \in [Actors -> Seq(StepSet)]
  BY <1>1, <1>3, <1>5, NothingMoves
<1> HIDE <1>5
<1>7. PostsJobs' /\ Followed' /\ Preceded'
  BY <1>2, <1>3, <1>6, HarmlessMoves
<1>8. Core'
  BY <1>1, <1>2, <1>3, <1>4, <1>6, CoreResume
<1>9. Woken'
  BY <1>2, <1>3, <1>6, NextStays
<1>10. PendingInv'
  BY <1>2, PendingSame
<1>11. ReportInv'
  BY <1>2, <1>6, NoInvoke DEF ReportInv
<1>12. ShutInv'
  BY <1>1, <1>2, <1>6, NoCancel DEF PostedHas
<1>13. Types'
  BY <1>1, <1>2, <1>6 DEF Types
<1> QED
  BY <1>0, <1>7, <1>8, <1>9, <1>10, <1>11, <1>12, <1>13 DEF Inv, WriteInv

-----------------------------------------------------------------------------
(* The strand: jobs and completions. *)

(* A job that is no write: it changes the connection only. *)
LEMMA OtherJob ==
  ASSUME Inv, NEW do, Job(do), do \notin Writes, Flags',
         UNCHANGED <<impl, serializer, ops, todo, env>>,
         shut' => shut \/ do = "cancel"
  PROVE  Inv'
<1> USE Parts
<1>1. posted # <<>> /\ Head(posted).do = do /\ posted' = Tail(posted)
  BY DEF Job
<1>2. /\ UNCHANGED <<queue, pending, closed, closeHandler, started, closing,
                     writing, peer, aborted, registered, calls>>
      /\ UNCHANGED data
  BY DEF impl, env, data
<1>3. SamePosted
  BY <1>1, TakenOther
<1>4. SameTodo /\ PostsJobs' /\ Followed' /\ Preceded'
  BY <1>2, TodoSame
<1>5. Core'
  BY <1>2, <1>3, <1>4, CoreSame
<1>6. Woken'
  BY <1>2, WokenSame
<1>7. PendingInv'
  BY <1>2, PendingSame
<1>8. ReportInv'
  BY <1>2, ReportSame
<1>9. /\ posted' \in Seq(JobSet) /\ Head(posted) \in JobSet
      /\ PostedHas(CancelJobs)' => PostedHas(CancelJobs)
      /\ Head(posted) \in CancelJobs => PostedHas(CancelJobs)
  BY <1>1, PostedTail
<1>10. ShutInv'
  <2>1. shut' => shut \/ PostedHas(CancelJobs)
    BY <1>1, <1>9 DEF CancelJobs
  <2>2. Has(Cancelling)' => Has(Cancelling)
    BY DEF Has
  <2> QED
    BY <1>2, <1>9, <2>1, <2>2 DEF ShutInv
<1>11. Types'
  BY <1>2, <1>9 DEF Types, data
<1> QED
  BY <1>4, <1>5, <1>6, <1>7, <1>8, <1>10, <1>11 DEF Inv, WriteInv

(* A write begins. *)
LEMMA BeginKeeps ==
  ASSUME Inv, NEW do \in Writes, Job(do), Begin(Head(posted)),
         serializer' = TRUE, Flags', UNCHANGED <<impl, shut, todo, env>>
  PROVE  Inv'
<1> USE Parts
<1>1. /\ posted # <<>> /\ Head(posted).do = do /\ posted' = Tail(posted)
      /\ ops' = Append(ops, [op |-> Head(posted), doomed |-> shut])
  BY DEF Job, Begin
<1>2. UNCHANGED <<queue, startRequested, pending, closed, closeHandler, started,
                  closing, writing, peer, aborted, registered, calls, wire,
                  accepted>>
  BY DEF impl, env
<1>3. SameTodo /\ PostsJobs' /\ Followed' /\ Preceded'
  BY <1>2, TodoSame
<1>4. Core'
  BY <1>1, <1>2, CoreBegin
<1>5. Woken'
  BY <1>2, WokenSame
<1>6. PendingInv'
  BY <1>2, PendingSame
<1>7. ReportInv'
  BY <1>2, ReportSame
<1>8. /\ posted' \in Seq(JobSet) /\ Head(posted) \in JobSet
      /\ PostedHas(CancelJobs)' => PostedHas(CancelJobs)
  BY <1>1, PostedTail
<1>9. ShutInv'
  BY <1>2, <1>8, ShutSame
<1>10. ops' \in Seq(OpSet)
  <2>1. PICK x : x = [op |-> Head(posted), doomed |-> shut]
    OBVIOUS
  <2>2. x \in OpSet
    BY <1>8, <2>1 DEF OpSet, Flags
  <2>3. ops' = Append(ops, x)
    BY <1>1, <2>1
  <2> HIDE <2>1
  <2> QED
    BY <2>2, <2>3 DEF Types
<1>11. Types'
  BY <1>2, <1>8, <1>10 DEF Types
<1> QED
  BY <1>3, <1>4, <1>5, <1>6, <1>7, <1>9, <1>11 DEF Inv, WriteInv

LEMMA RunJobKeeps ==
  ASSUME Inv, RunJob
  PROVE  Inv'
<1> USE Parts
<1>1. CASE CancelStreamBody
  <2>1. Flags'
    BY <1>1 DEF CancelStreamBody, Flags, impl, env
  <2> QED
    BY <1>1, <2>1, OtherJob DEF CancelStreamBody, Writes
<1>2. CASE StartStreamResponse
  <2>1. Flags'
    <3>1. /\ waitCancelled' \in BOOLEAN /\ persistent' \in BOOLEAN
          /\ serializer' \in BOOLEAN
          /\ UNCHANGED <<impl, body, bodyCancelled, probe, shut, conn, env>>
      BY <1>2 DEF StartStreamResponse
    <3> QED
      BY <3>1 DEF Flags, impl, env
  <2> QED
    BY <1>2, <2>1, BeginKeeps DEF StartStreamResponse, Writes
<1>3. CASE WriteStreamResponse
  <2>1. PICK do \in {"write", "finish"} : Job(do)
    BY <1>3 DEF WriteStreamResponse
  <2>2. serializer
    <3>1. posted # <<>> /\ Head(posted).do = do /\ posted' = Tail(posted)
      BY <2>1 DEF Job
    <3>2. PICK j : j = Head(posted)
      OBVIOUS
    <3>3. j \in JobSet /\ j.do = do /\ PostedHas({j})
      BY <3>1, <3>2, PostedTail
    <3>4. j \in WriteJobs /\ Carried(j)
      BY <3>3 DEF WriteJobs, Writes, Carried
    <3> QED
      BY <3>3, <3>4 DEF TokenOk, JobOk
  <2>3. /\ Begin(Head(posted)) /\ UNCHANGED todo /\ serializer' = serializer
        /\ UNCHANGED <<impl, body, bodyCancelled, persistent, serializer,
                       waitCancelled, probe, shut, conn, env>>
    BY <1>3, <2>2 DEF WriteStreamResponse
  <2>4. Flags'
    BY <2>3 DEF Flags, impl, env
  <2>5. serializer' = TRUE /\ do \in Writes
    BY <2>2, <2>3 DEF Flags, Writes
  <2> QED
    BY <2>1, <2>3, <2>4, <2>5, BeginKeeps
<1>4. CASE WaitStreamDisconnect
  <2>1. Flags'
    BY <1>4 DEF WaitStreamDisconnect, Flags, impl, env
  <2> QED
    BY <1>4, <2>1, OtherJob DEF WaitStreamDisconnect, Writes
<1>5. CASE RunCancelWait
  <2>1. Flags'
    <3>1. waitCancelled' \in BOOLEAN /\ probe' \in {"none", "active", "cancelled"}
      BY <1>5 DEF RunCancelWait, DisconnectWaitCancelled, Flags
    <3> QED
      BY <1>5, <3>1 DEF RunCancelWait, Flags, impl, env
  <2> QED
    BY <1>5, <2>1, OtherJob DEF RunCancelWait, Writes
<1>6. CASE CancelSession
  <2>1. Flags'
    <3>1. shut' \in BOOLEAN /\ probe' \in {"none", "active", "cancelled"}
      BY <1>6 DEF CancelSession, Flags
    <3> QED
      BY <1>6, <3>1 DEF CancelSession, Flags, impl, env
  <2>2. PICK do : do = "cancel"
    OBVIOUS
  <2>3. Job(do) /\ do \notin Writes
    BY <1>6, <2>2 DEF CancelSession, Writes
  <2> QED
    BY <1>6, <2>1, <2>2, <2>3, OtherJob DEF CancelSession
<1> QED
  BY <1>1, <1>2, <1>3, <1>4, <1>5, <1>6 DEF RunJob

(* A completion brings steps of the strand that post and report nothing.    *)
Callback(steps) ==
  /\ steps \in Seq(StepSet)
  /\ \A i \in 1..Len(steps) : steps[i].do \notin {"post", "invoke"}
  /\ \A i \in 1..Len(steps) : steps[i] \in Waking =>
       \E j \in 1..Len(steps) : j > i /\ steps[j].do = "next"
  /\ \A i \in 1..Len(steps) : steps[i].do = "resume" =>
       \E j \in 1..Len(steps) : j < i /\ steps[j].do = "finish"

LEMMA CompletionKeeps ==
  ASSUME Inv, Complete, Core', wire' \in Seq(Events \cup {End}),
         NEW steps, Callback(steps), First(Strand, steps)
  PROVE  Inv'
<1> USE Parts
<1>1. /\ UNCHANGED <<impl, body, bodyCancelled, persistent, serializer,
                     waitCancelled, probe, shut, conn, posted, peer, aborted,
                     accepted, registered, calls>>
      /\ ops # <<>> /\ ops' = Tail(ops) /\ Strand \in Actors
  BY DEF Complete, Actors
<1>2. UNCHANGED <<queue, pending, closed, closeHandler, started, closing,
                  writing, startRequested>>
  BY <1>1 DEF impl
<1>3. PICK d : d = 0
  OBVIOUS
<1>4. Moves(Strand, steps, d) /\ d # 1
  BY <1>1, <1>3, FirstMoves DEF Callback
<1>5. PostsJobs'
  <2>1. \A i \in 1..Len(steps) : steps[i] \notin BadPosts
    BY DEF Callback, BadPosts
  <2> QED
    BY <1>4, <2>1, NoneAdded DEF PostsJobs
<1>6. Followed'
  BY <1>4, FollowedMoves DEF Callback
<1>7. Preceded'
  BY <1>2, <1>4, PrecededMoves DEF Callback
<1>8. Woken'
  BY <1>2, <1>4, NextStays
<1>9. PendingInv'
  BY <1>2, PendingSame
<1>10. ReportInv'
  BY <1>1, <1>2, <1>4, NoInvoke DEF ReportInv, Callback
<1>11. ShutInv'
  <2>1. \A i \in 1..Len(steps) : steps[i] \notin Cancelling
    BY DEF Callback, Cancelling
  <2> QED
    BY <1>1, <1>4, <2>1, NoCancel DEF PostedHas
<1>12. Types'
  <2>1. todo' \in [Actors -> Seq(StepSet)]
    BY <1>4 DEF Moves
  <2>2. ops' \in Seq(OpSet)
    BY <1>1 DEF Types
  <2> QED
    BY <1>1, <1>2, <2>1, <2>2 DEF Types
<1>13. Flags'
  BY <1>1, <1>2 DEF Flags
<1> QED
  BY <1>5, <1>6, <1>7, <1>8, <1>9, <1>10, <1>11, <1>12, <1>13 DEF Inv, WriteInv

LEMMA Callbacks ==
  /\ Callback(<<Do("setStarted"), Do("next")>>)
  /\ Callback(<<Do("written"), Do("next")>>)
  /\ Callback(<<Step("finish", "ok"), Step("resume", TRUE)>>)
  /\ Callback(<<Step("finish", "error"), Step("resume", FALSE)>>)
  /\ Callback(<<Step("finish", "error")>>)
<1>1. ASSUME NEW x \in StepSet, NEW y \in StepSet,
             \/ x.do \in {"setStarted", "written"} /\ y.do = "next"
             \/ x.do = "finish" /\ y.do = "resume"
      PROVE  Callback(<<x, y>>)
  <2>1. PICK steps : steps = <<x, y>>
    OBVIOUS
  <2>2. /\ steps \in Seq(StepSet) /\ Len(steps) = 2
        /\ steps[1] = x /\ steps[2] = y
    BY <2>1
  <2> HIDE <2>1
  <2>3. \A i \in 1..Len(steps) : i = 1 \/ i = 2
    BY <2>2
  <2>4. \A i \in 1..Len(steps) : steps[i].do \notin {"post", "invoke"}
    BY <1>1, <2>2, <2>3
  <2>5. ASSUME NEW i \in 1..Len(steps), steps[i] \in Waking
        PROVE  \E j \in 1..Len(steps) : j > i /\ steps[j].do = "next"
    <3>1. i = 1 /\ y.do = "next"
      BY <1>1, <2>2, <2>3, <2>5 DEF Waking, Doing
    <3> QED
      BY <2>2, <3>1
  <2>6. ASSUME NEW i \in 1..Len(steps), steps[i].do = "resume"
        PROVE  \E j \in 1..Len(steps) : j < i /\ steps[j].do = "finish"
    <3>1. i = 2 /\ x.do = "finish"
      BY <1>1, <2>2, <2>3, <2>6
    <3> QED
      BY <2>2, <3>1
  <2>7. Callback(steps)
    BY <2>2, <2>4, <2>5, <2>6 DEF Callback
  <2> QED
    BY <2>1, <2>7
<1>2. ASSUME NEW x \in StepSet, x.do = "finish"
      PROVE  Callback(<<x>>)
  <2>1. {x} \in SUBSET StepSet
    OBVIOUS
  <2>2. Only(<<x>>, {x})
    BY <2>1, Lists
  <2> QED
    BY <1>2, <2>2 DEF Only, Callback, Waking, Doing
<1>3. /\ \A s \in {"setStarted", "written", "next"} :
           Do(s) \in StepSet /\ Do(s).do = s
      /\ \A s \in {"ok", "error"} :
           Step("finish", s) \in StepSet /\ Step("finish", s).do = "finish"
      /\ \A b \in BOOLEAN :
           Step("resume", b) \in StepSet /\ Step("resume", b).do = "resume"
  BY Typed DEF Calls, Do, Step
<1> HIDE DEF Do, Step
<1>4. /\ Callback(<<Do("setStarted"), Do("next")>>)
      /\ Callback(<<Do("written"), Do("next")>>)
  BY <1>1, <1>3
<1>5. Callback(<<Step("finish", "ok"), Step("resume", TRUE)>>)
  BY <1>1, <1>3
<1>6. /\ Callback(<<Step("finish", "error"), Step("resume", FALSE)>>)
      /\ Callback(<<Step("finish", "error")>>)
  BY <1>1, <1>2, <1>3
<1> QED
  BY <1>4, <1>5, <1>6

LEMMA WriteDoneKeeps ==
  ASSUME Inv, WriteDone
  PROVE  Inv'
<1> USE Parts
<1> DEFINE op == Head(ops).op
<1>1. Complete
  BY DEF WriteDone
<1>2. /\ ops # <<>> /\ Strand \in Actors /\ posted' = posted
      /\ UNCHANGED <<queue, startRequested, started, writing, closing, closed,
                     serializer, accepted>>
  BY <1>1 DEF Complete, Actors, impl
<1>3. /\ Tail(ops) = <<>> /\ Head(ops).op \in WriteJobs
  BY <1>2, OpIsToken
<1>4. ops' = <<>>
  BY <1>1, <1>3 DEF Complete
<1>5. op.do \in Writes
  BY <1>3 DEF WriteJobs
<1>6. CASE op.do = "start"
  <2>1. wire' = wire
    BY <1>6 DEF WriteDone
  <2>2. First(Strand, <<Do("setStarted"), Do("next")>>)
    BY <1>6 DEF WriteDone
  <2> HIDE DEF op
  <2>3. Moves(Strand, <<Do("setStarted"), Do("next")>>, 0)
    BY <1>2, <2>2, FirstMoves, Callbacks DEF Callback
  <2>4. UNCHANGED data
    BY <1>2, <2>1 DEF data
  <2>5. Core'
    BY <1>2, <1>4, <1>6, <2>3, <2>4, CoreStartDone DEF op
  <2> QED
    BY <1>1, <2>1, <2>2, <2>5, Callbacks, CompletionKeeps DEF Types
<1>7. CASE op.do = "write"
  <2>1. wire' = Append(wire, op.arg)
    BY <1>7 DEF WriteDone
  <2>2. First(Strand, <<Do("written"), Do("next")>>)
    BY <1>7 DEF WriteDone, OnEventWritten
  <2> HIDE DEF op
  <2>3. Moves(Strand, <<Do("written"), Do("next")>>, 0)
    BY <1>2, <2>2, FirstMoves, Callbacks DEF Callback
  <2>4. Core' /\ wire' \in Seq(Events \cup {End})
    BY <1>2, <1>4, <1>7, <2>1, <2>3, CoreWriteDone DEF op
  <2> QED
    BY <1>1, <2>2, <2>4, Callbacks, CompletionKeeps
<1>8. CASE op.do = "finish"
  <2>1. wire' = Append(wire, End)
    BY <1>8 DEF WriteDone
  <2>2. First(Strand, <<Step("finish", "ok"), Step("resume", TRUE)>>)
    BY <1>8 DEF WriteDone
  <2> HIDE DEF op
  <2>3. Moves(Strand, <<Step("finish", "ok"), Step("resume", TRUE)>>, 0)
    BY <1>2, <2>2, FirstMoves, Callbacks DEF Callback
  <2>4. Core' /\ wire' \in Seq(Events \cup {End})
    BY <1>2, <1>4, <1>8, <2>1, <2>3, CoreEndDone DEF op
  <2> QED
    BY <1>1, <2>2, <2>4, Callbacks, CompletionKeeps
<1> QED
  BY <1>5, <1>6, <1>7, <1>8 DEF Writes

LEMMA WriteErrorKeeps ==
  ASSUME Inv, WriteError
  PROVE  Inv'
<1> USE Parts
<1>1. /\ Complete /\ wire' = wire
      /\ First(Strand, IF Head(ops).op.do = "finish"
                       THEN <<Step("finish", "error"), Step("resume", FALSE)>>
                       ELSE <<Step("finish", "error")>>)
  BY DEF WriteError
<1>2. /\ ops # <<>> /\ Strand \in Actors /\ posted' = posted
      /\ UNCHANGED <<queue, startRequested, started, writing, closing, closed,
                     serializer, accepted>>
  BY <1>1 DEF Complete, Actors, impl
<1>3. Tail(ops) = <<>>
  BY <1>2, OpIsToken
<1>4. ops' = <<>> /\ UNCHANGED data
  BY <1>1, <1>2, <1>3 DEF Complete, data
<1>5. PICK steps :
        /\ \/ steps = <<Step("finish", "error")>>
           \/ /\ Head(ops).op.do = "finish"
              /\ steps = <<Step("finish", "error"), Step("resume", FALSE)>>
        /\ First(Strand, steps)
  <2>1. CASE Head(ops).op.do = "finish"
    BY <1>1, <2>1
  <2>2. CASE Head(ops).op.do # "finish"
    BY <1>1, <2>2
  <2> QED
    BY <2>1, <2>2
<1>6. Callback(steps)
  BY <1>5, Callbacks
<1>7. Moves(Strand, steps, 0)
  BY <1>2, <1>5, <1>6, FirstMoves DEF Callback
<1>8. Core'
  BY <1>2, <1>4, <1>5, <1>7, CoreWriteError
<1> QED
  BY <1>1, <1>5, <1>6, <1>8, CompletionKeeps DEF Types

LEMMA ProbeDoneKeeps ==
  ASSUME Inv, ProbeDone
  PROVE  Inv'
<1> USE Parts
<1>1. PICK ec \in {"aborted", "eof"} :
        /\ ec = "eof" => peer # "open" \/ shut
        /\ First(Strand, IF ProbeReports(ec)
                         THEN <<Step("post", Do("cancel")), Step("finish", ec)>>
                         ELSE <<>>)
  BY DEF ProbeDone
<1>2. /\ UNCHANGED <<impl, body, bodyCancelled, persistent, serializer,
                     waitCancelled, ops, shut, conn, posted, env>>
      /\ probe' = "none" /\ Strand \in Actors
  BY DEF ProbeDone, Actors
<1>0. Flags'
  BY <1>2 DEF Flags, impl, env
<1>3. /\ UNCHANGED <<closed, closeHandler, pending, peer, aborted, registered,
                     calls>>
      /\ UNCHANGED data
  BY <1>2 DEF impl, env, data
<1>4. PICK steps : steps = IF ProbeReports(ec)
                           THEN <<Step("post", Do("cancel")), Step("finish", ec)>>
                           ELSE <<>>
  OBVIOUS
<1>5. /\ Only(steps, Plain)
      /\ \A i \in 1..Len(steps) : steps[i].do # "invoke"
      /\ ec # "eof" => \A i \in 1..Len(steps) : FALSE
  <2> DEFINE c == Step("post", Do("cancel"))
             f == Step("finish", ec)
  <2>1. c \in Plain /\ f \in Plain /\ Plain \in SUBSET StepSet
    BY PlainSteps DEF Plain
  <2>2. {c, f} \in SUBSET StepSet /\ \A s \in {c, f} : s.do # "invoke"
    BY <2>1 DEF Step
  <2> HIDE DEF c, f
  <2>3. CASE ec = "eof"
    <3>1. steps = <<c, f>>
      BY <1>4, <2>3 DEF ProbeReports, c, f
    <3>2. Only(steps, Plain) /\ Only(steps, {c, f})
      BY <2>1, <2>2, <3>1, Lists
    <3> QED
      BY <2>2, <2>3, <3>2 DEF Only
  <2>4. CASE ec # "eof"
    <3>1. steps = <<>>
      BY <1>4, <2>4 DEF ProbeReports
    <3> QED
      BY <2>4, <3>1 DEF Only
  <2> QED
    BY <2>3, <2>4
<1>6. PICK d : d = 0
  OBVIOUS
<1>7. Moves(Strand, steps, d) /\ d # 1
  <2>1. First(Strand, steps)
    BY <1>1, <1>4
  <2>2. Moves(Strand, steps, 0)
    BY <1>2, <1>5, <2>1, FirstMoves DEF Only
  <2> QED
    BY <1>6, <2>2
<1> HIDE <1>4, <1>6
<1>8. SamePosted
  BY <1>2, PostedUnchanged
<1>9. PostsJobs' /\ Core' /\ Followed' /\ Preceded' /\ PendingInv' /\ Woken'
  BY <1>2, <1>3, <1>5, <1>7, <1>8, PlainKeeps
<1>10. ReportInv'
  BY <1>3, <1>5, <1>7, NoInvoke DEF ReportInv
<1>11. ShutInv'
  <2>1. CASE ec = "eof"
    BY <1>1, <1>2, <1>3, <2>1 DEF ShutInv
  <2>2. CASE ec # "eof"
    BY <1>2, <1>3, <1>5, <1>7, <2>2, NoCancel DEF PostedHas
  <2> QED
    BY <2>1, <2>2
<1>12. Types'
  <2>1. todo' \in [Actors -> Seq(StepSet)]
    BY <1>7 DEF Moves
  <2> QED
    BY <1>2, <1>3, <2>1 DEF Types, data
<1> QED
  BY <1>0, <1>9, <1>10, <1>11, <1>12 DEF Inv, WriteInv

-----------------------------------------------------------------------------
(* The invariant holds of every state. *)
LEMMA InvInit ==
  ASSUME Init
  PROVE  Inv
<1>1. /\ Do("handler") \in StepSet /\ Do("cancelBody") \in JobSet
      /\ Do("handler").do = "handler" /\ Do("cancelBody").do = "cancelBody"
  BY Typed DEF Calls, Jobs, Do, Step
<1>2. PICK x \in StepSet : x = Do("handler") /\ x.do = "handler"
  BY <1>1
<1>3. PICK y \in JobSet : y = Do("cancelBody") /\ y.do = "cancelBody"
  BY <1>1
<1>4. todo = [a \in Actors |-> IF a = Strand THEN <<x>> ELSE <<>>]
  BY <1>2 DEF Init
<1>5. posted = <<>> \/ posted = <<y>>
  BY <1>3 DEF Init
<1> HIDE <1>2, <1>3
<1>6. x.do = "handler" /\ y.do = "cancelBody"
  BY <1>2, <1>3
<1>7. /\ todo \in [Actors -> Seq(StepSet)]
      /\ \A a \in Actors : \A i \in 1..Len(todo[a]) : todo[a][i] = x
  BY <1>4
<1>8. /\ posted \in Seq(JobSet)
      /\ \A i \in 1..Len(posted) : posted[i] = y
  <2>1. CASE posted = <<>>
    BY <2>1
  <2>2. CASE posted = <<y>>
    <3>1. <<y>> \in Seq(JobSet) /\ Len(<<y>>) = 1 /\ <<y>>[1] = y
      OBVIOUS
    <3> QED
      BY <2>2, <3>1
  <2> QED
    BY <1>5, <2>1, <2>2
<1>9. \A T : x \notin T => ~Has(T) /\ Single(T)
  BY <1>7 DEF Has, Single
<1>10. \A T : y \notin T => ~PostedHas(T) /\ PostedSingle(T)
  BY <1>8 DEF PostedHas, PostedSingle
<1>11. /\ queue = <<>> /\ wire = <<>> /\ accepted = <<>> /\ ops = <<>>
       /\ registered = <<>> /\ calls = [h \in Handlers |-> 0]
       /\ pending = 0 /\ closeHandler = None
       /\ startRequested = FALSE /\ started = FALSE /\ writing = FALSE
       /\ closing = FALSE /\ closed = FALSE /\ shut = FALSE
  BY DEF Init
<1>12. Types
  BY <1>7, <1>8, <1>11 DEF Types
<1>13. Flags
  BY SseAssumption DEF Init, Flags
<1>14. ~Has(Tokens) /\ Single(Tokens)
  BY <1>6, <1>9, TokenSteps
<1>15. ~PostedHas(WriteJobs) /\ PostedSingle(WriteJobs)
  BY <1>6, <1>10 DEF WriteJobs, Writes
<1>16. PostsJobs
  BY <1>6, <1>9 DEF PostsJobs, BadPosts
<1>17. NoEnd /\ Len(wire) = 0 /\ Len(ops) = 0 /\ Len(queue) = 0 /\ Len(accepted) = 0
  BY <1>11 DEF NoEnd
<1>18. Core
  <2>1. ~HasToken
    BY <1>11, <1>14, <1>15 DEF HasToken
  <2>2. OneToken
    BY <1>14, <1>15, <1>17 DEF OneToken
  <2>3. \A j \in WriteJobs : ~Carried(j)
    <3> SUFFICES ASSUME NEW j \in WriteJobs PROVE ~Carried(j)
      OBVIOUS
    <3>1. ~Has({Claim(j)})
      BY <1>14, HasMore, TokenSteps
    <3>2. ~PostedHas({j})
      BY <1>15, HasMore
    <3> QED
      BY <1>17, <3>1, <3>2 DEF Carried
  <2>4. /\ ~Has(Doing("setStarted")) /\ ~Has(Doing("written"))
        /\ ~Has(Doing("resume"))
    BY <1>14, HasMore, TokenSteps
  <2>5. TokenOk
    BY <1>17, <2>3, <2>4 DEF TokenOk
  <2>6. Session
    BY <1>11, <2>1 DEF Session
  <2>7. Queued
    BY <1>17, <2>4 DEF Queued
  <2>8. Ended /\ Wire
    BY <1>17 DEF Ended, Wire, InOrder
  <2> QED
    BY <2>2, <2>5, <2>6, <2>7, <2>8 DEF Core
<1>19. Followed /\ Preceded /\ Woken
  BY <1>6, <1>7, <1>11 DEF Followed, Preceded, Woken, Waking, Doing
<1>20. PendingInv
  <2> DEFINE none == [i \in 0..0 |-> 0]
  <2>1. none \in [0..0 -> 0..MaxPending] /\ none[0] = 0
    BY SseAssumption
  <2> HIDE DEF none
  <2>2. \A i, j \in 0..0 : none[i] <= none[j]
    BY <2>1
  <2> QED
    BY <1>11, <1>17, <2>1, <2>2 DEF PendingInv
<1>21. ReportInv
  <2>1. \A h \in Handlers : ~Has(Invoking(h)) /\ Single(Invoking(h))
    BY <1>6, <1>9 DEF Invoking
  <2> QED
    BY <1>11, <2>1 DEF ReportInv
<1>22. ShutInv
  BY <1>6, <1>9, <1>10, <1>11 DEF ShutInv, Cancelling, CancelJobs
<1> QED
  BY <1>12, <1>13, <1>16, <1>18, <1>19, <1>20, <1>21, <1>22 DEF Inv, WriteInv

LEMMA InvNext ==
  ASSUME Inv, [Next]_vars
  PROVE  Inv'
<1>1. CASE \E a \in Actors : Application(a) \/ Continue(a)
  <2>1. PICK a \in Actors : Application(a) \/ Continue(a)
    BY <1>1
  <2>2. CASE Application(a)
    BY <2>2, EnqueueKeeps, CloseKeeps, CancelKeeps, OnCloseKeeps DEF Application
  <2>3. CASE Continue(a)
    BY <2>3, PostKeeps, StartKeeps, SetStartedKeeps, SetClosingKeeps,
       WriteNextKeeps, WrittenKeeps, FinishKeeps, InvokeKeeps, CancelWaitKeeps,
       ResumeKeeps DEF Continue
  <2> QED
    BY <2>1, <2>2, <2>3
<1>2. CASE HandlerReturns
  BY <1>2, HandlerReturnsKeeps
<1>3. CASE RunJob
  BY <1>3, RunJobKeeps
<1>4. CASE WriteDone \/ WriteError \/ ProbeDone
  BY <1>4, WriteDoneKeeps, WriteErrorKeeps, ProbeDoneKeeps
<1>5. CASE PeerSends \/ PeerGone
  <2>1. /\ UNCHANGED <<impl, http, posted, todo, aborted, accepted, wire,
                       registered, calls>>
        /\ peer' \in {"sent", "gone"}
    BY <1>5 DEF PeerSends, PeerGone
  <2>2. Flags'
    BY <2>1, Parts DEF Flags, impl, http
  <2> QED
    BY <2>1, <2>2, Stutters
<1>6. CASE UNCHANGED vars
  <2>1. UNCHANGED <<impl, http, posted, todo, aborted, accepted, wire,
                    registered, calls, peer>>
    BY <1>6 DEF vars, env
  <2>2. Flags'
    BY <2>1, Parts DEF Flags, impl, http
  <2> QED
    BY <2>1, <2>2, Stutters
<1> QED
  BY <1>1, <1>2, <1>3, <1>4, <1>5, <1>6 DEF Next, Idle

LEMMA InvTypes ==
  ASSUME Inv
  PROVE  TypeOK
<1> USE Parts
<1>1. \A i \in 1..Len(posted) : posted[i].do \in Jobs
  <2>1. \A i \in 1..Len(posted) : posted[i] \in JobSet
    OBVIOUS
  <2> QED
    BY <2>1 DEF JobSet
<1>2. \A i \in 1..Len(ops) : ops[i].op.do \in Writes
  BY DEF TokenOk, WriteJobs
<1>3. \A a \in Actors : \A i \in 1..Len(todo[a]) : todo[a][i].do \in Calls
  <2>1. \A a \in Actors : \A i \in 1..Len(todo[a]) : todo[a][i] \in StepSet
    OBVIOUS
  <2> QED
    BY <2>1 DEF StepSet
<1> QED
  BY <1>1, <1>2, <1>3 DEF TypeOK, Types, Flags

(* Every claim is the token, at its place. *)
LEMMA InvOneWrite ==
  ASSUME Inv
  PROVE  OneResponseWrite
<1> USE Parts
<1>1. ASSUME NEW i \in 1..Len(ops)
      PROVE  i = 1 /\ ops # <<>>
  <2>1. Len(ops) \in Nat /\ Len(ops) <= 1 /\ Len(ops) # 0
    BY DEF Types, OneToken
  <2> QED
    BY <2>1
<1>2. ASSUME NEW i \in 1..Len(posted), posted[i].do \in Writes
      PROVE  posted[i] \in WriteJobs /\ PostedHas(WriteJobs)
  BY <1>2 DEF WriteJobs, PostedHas
<1>3. ASSUME NEW a \in Actors, NEW i \in 1..Len(todo[a]), ClaimsWrite(todo[a][i])
      PROVE  todo[a][i] \in Tokens /\ Has(Tokens)
  <2>1. PICK s \in StepSet : s = todo[a][i]
    OBVIOUS
  <2>2. s.do = "post" /\ s.arg.do \in Writes
    BY <1>3, <2>1 DEF ClaimsWrite
  <2>3. s.arg \in JobSet
    BY <2>1, <2>2 DEF PostsJobs, Has, BadPosts
  <2>4. s = Claim(s.arg)
    BY <2>2 DEF StepSet, Claim, Step
  <2>5. s.arg \in WriteJobs
    BY <2>2, <2>3 DEF WriteJobs
  <2>6. s \in Tokens
    BY <2>4, <2>5, TokenSteps
  <2> QED
    BY <2>1, <2>6 DEF Has
<1>4. ASSUME NEW c \in Claims
      PROVE  \/ c = <<"begun", 1>> /\ ops # <<>>
             \/ /\ PostedHas(WriteJobs)
                /\ \E i \in 1..Len(posted) :
                     c = <<"posted", i>> /\ posted[i] \in WriteJobs
             \/ /\ Has(Tokens)
                /\ \E a \in Actors : \E i \in 1..Len(todo[a]) :
                     c = <<"claimed", a, i>> /\ todo[a][i] \in Tokens
  BY <1>1, <1>2, <1>3 DEF Claims
<1>5. ASSUME NEW c \in Claims, NEW d \in Claims
      PROVE  c = d
  <2>1. CASE ops # <<>>
    BY <1>4, <2>1 DEF OneToken
  <2>2. CASE PostedHas(WriteJobs)
    <3>1. PICK i \in 1..Len(posted) :
            c = <<"posted", i>> /\ posted[i] \in WriteJobs
      BY <1>4, <2>2 DEF OneToken
    <3>2. PICK j \in 1..Len(posted) :
            d = <<"posted", j>> /\ posted[j] \in WriteJobs
      BY <1>4, <2>2 DEF OneToken
    <3>3. i = j
      BY <3>1, <3>2 DEF PostedSingle
    <3> QED
      BY <3>1, <3>2, <3>3
  <2>3. CASE Has(Tokens)
    <3>1. PICK a \in Actors : \E i \in 1..Len(todo[a]) :
            c = <<"claimed", a, i>> /\ todo[a][i] \in Tokens
      BY <1>4, <2>3 DEF OneToken
    <3>2. PICK b \in Actors : \E i \in 1..Len(todo[b]) :
            d = <<"claimed", b, i>> /\ todo[b][i] \in Tokens
      BY <1>4, <2>3 DEF OneToken
    <3>3. PICK i \in 1..Len(todo[a]) :
            c = <<"claimed", a, i>> /\ todo[a][i] \in Tokens
      BY <3>1
    <3>4. PICK j \in 1..Len(todo[b]) :
            d = <<"claimed", b, j>> /\ todo[b][j] \in Tokens
      BY <3>2
    <3>5. a = b /\ i = j
      BY <3>3, <3>4 DEF Single
    <3> QED
      BY <3>3, <3>4, <3>5
  <2> QED
    BY <1>4, <2>1, <2>2, <2>3
<1>6. started /\ ~closed /\ Claims # {} => writing
  <2>1. Claims # {} => HasToken
    BY <1>4 DEF HasToken
  <2> QED
    BY <2>1 DEF Session
<1>7. ASSUME NEW i \in 1..Len(posted), posted[i].do \in {"write", "finish"}
      PROVE  serializer
  <2>1. PICK j : j = posted[i]
    OBVIOUS
  <2>2. j \in WriteJobs /\ PostedHas({j})
    BY <1>2, <1>7, <2>1 DEF Writes, PostedHas
  <2> QED
    BY <1>7, <2>1, <2>2 DEF TokenOk, Carried, JobOk
<1> QED
  BY <1>5, <1>6, <1>7 DEF OneResponseWrite

LEMMA InvDrains ==
  ASSUME Inv
  PROVE  InOrder /\ CloseDrains
<1>1. Types /\ Wire /\ Ended
  BY Parts DEF Core
<1>2. ASSUME NEW i \in 1..Len(wire), wire[i] = End
      PROVE  i = Len(wire) /\ SubSeq(wire, 1, i - 1) = accepted
  <2>1. i = Len(wire) /\ \A k \in 1..Len(wire) : wire[k] = End => k = Len(wire)
    BY <1>1, <1>2 DEF Wire
  <2>2. Len(wire) = Len(accepted) + 1
    BY <1>1, <1>2 DEF Ended, NoEnd
  <2>3. /\ wire \in Seq(Events \cup {End}) /\ accepted \in Seq(Events)
        /\ Len(accepted) \in Nat /\ Len(wire) \in Nat
    BY <1>1 DEF Types
  <2>4. \A k \in 1..Len(accepted) : wire[k] = accepted[k] /\ k \in 1..Len(wire)
    <3>1. \A k \in 1..Len(accepted) : k \in 1..Len(wire) /\ k # Len(wire)
      BY <2>2, <2>3
    <3> QED
      BY <1>1, <2>1, <3>1 DEF Wire, InOrder
  <2>5. i - 1 = Len(accepted)
    BY <2>1, <2>2, <2>3
  <2>6. PICK n \in Nat : n = Len(accepted) /\ n + 1 = Len(wire)
    BY <2>2, <2>3
  <2>7. SubSeq(wire, 1, n) = [k \in 1..n |-> wire[k]]
    BY <2>3, <2>6
  <2>8. accepted = [k \in 1..n |-> accepted[k]]
    BY <2>3, <2>6
  <2>9. SubSeq(wire, 1, n) = accepted
    BY <2>4, <2>6, <2>7, <2>8
  <2> QED
    BY <2>1, <2>5, <2>6, <2>9
<1> QED
  BY <1>1, <1>2 DEF Wire, CloseDrains

LEMMA InvEvents ==
  ASSUME Inv
  PROVE  EventsWritten
<1> USE Parts
<1>1. PendingExact
  BY DEF PendingInv, PendingExact
<1>2. NotStranded
  BY DEF Woken, NotStranded, Has, Doing
<1> QED
  BY <1>1, <1>2, InvTypes, InvOneWrite, InvDrains DEF EventsWritten

LEMMA InvEnds ==
  ASSUME Inv
  PROVE  EndsOnce
<1> USE Parts
<1>1. ReportedOnce
  BY DEF ReportInv, ReportedOnce
<1>2. NextRequestSafe
  BY DEF ShutInv, NextRequestSafe
<1> QED
  BY <1>1, <1>2 DEF EndsOnce

(* What send accepted is written: whatever threads send, close and cancel,  *)
(* write_next and start keep one response write at a time, events reach the *)
(* connection in the order of send and all of them before the end chunk,    *)
(* pending_bytes is the size of the queue and within max_pending_bytes, and *)
(* no event is left in a started session without a writer.                  *)
THEOREM EventsCorrect == Spec => []EventsWritten
<1>1. Init => Inv
  BY InvInit
<1>2. Inv /\ [Next]_vars => Inv'
  BY InvNext
<1>3. Inv => EventsWritten
  BY InvEvents
<1> QED
  BY <1>1, <1>2, <1>3, PTL DEF Spec

(* A session ends once: finish and on_close report to a handler at most     *)
(* once and only after the end, and a connection that goes on with the next *)
(* request was shut down only after a cancel or by the peer.                *)
THEOREM EndsCorrect == Spec => []EndsOnce
<1>1. Init => Inv
  BY InvInit
<1>2. Inv /\ [Next]_vars => Inv'
  BY InvNext
<1>3. Inv => EndsOnce
  BY InvEnds
<1> QED
  BY <1>1, <1>2, <1>3, PTL DEF Spec

=============================================================================
