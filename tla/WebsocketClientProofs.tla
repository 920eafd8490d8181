------------------------ MODULE WebsocketClientProofs ------------------------
(***************************************************************************)
(* Proofs about WebsocketClient: ConnectionSound and OneLateCallback hold   *)
(* for any number of connects, sends and closes.                            *)
(*                                                                         *)
(* What matters of a session is where its frames are: those written, those  *)
(* in write_queue_, and those posted to the strand are, in this order, what *)
(* was sent to it, until close() runs; from then on nothing is written      *)
(* without popping an empty queue.  A close() that finds the stream open    *)
(* starts the closing handshake, and no stream opens after one.             *)
(***************************************************************************)
EXTENDS WebsocketClient, TLAPS

Records ==
  [phase : Phases, secure : BOOLEAN, queue : Seq(Posts), writing : BOOLEAN,
   closing : BOOLEAN, closeStarted : BOOLEAN, connectNotified : BOOLEAN,
   ops : Seq(Posts \cup {Closing}), reading : BOOLEAN, cut : BOOLEAN,
   peer : {"up", "gone"}, posted : Seq(Posts)]

Types ==
  /\ alive \in BOOLEAN /\ closeNotified \in BOOLEAN /\ undefined \in BOOLEAN
  /\ current \in 0..MaxConnects /\ closes \in Nat /\ errors \in SUBSET Sessions
  /\ calls \in [connects : 0..MaxConnects, sends : 0..MaxSends,
                closes : 0..MaxCloses]
  /\ answered \in [Sessions -> Nat] /\ late \in [Sessions -> Nat]
  /\ calling \in [Sessions -> Notices \cup {None}]
  /\ checked \in [Sessions -> Notices \cup {None}]
  /\ ses \in [Sessions -> Records]
  /\ todo \in [Sessions -> Seq(Notices)]
  /\ sent \in [Sessions -> Seq(Frames)] /\ wire \in [Sessions -> Seq(Posts)]

(* on_close was called since the last connect only if State knows it. *)
Notified == closes <= 1 /\ (~closeNotified => closes = 0)

(* A stream that is open after close() has async_close among its writes. *)
Ends(s) ==
  /\ s.closeStarted => s.closing
  /\ s.closing /\ s.phase = "open" => s.closeStarted
  /\ s.closeStarted /\ s.phase = "open" =>
       \E k \in DOMAIN s.ops : s.ops[k] = Closing

(* Where the frames `out` that were sent to a session are: `on` were        *)
(* written, q is write_queue_, p is posted to its strand.  What is posted   *)
(* after a close() is dropped.                                              *)
Calm(p, n) == \A m \in 1..n : p[m] # CloseCall

Line(q, p, out, on) ==
  /\ Len(on) + Len(q) <= Len(out)
  /\ \A k \in 1..Len(q) : q[k] = out[Len(on) + k]
  /\ \A k \in 1..Len(p) :
       Calm(p, k) => /\ Len(on) + Len(q) + k <= Len(out)
                     /\ p[k] = out[Len(on) + Len(q) + k]
  /\ Calm(p, Len(p)) => Len(out) = Len(on) + Len(q) + Len(p)

Flow(s, out, on) ==
  /\ Len(on) <= Len(out)
  /\ \A k \in 1..Len(on) : on[k] = out[k]
  /\ s.closing => s.queue = <<>>
  /\ ~s.closing =>
       /\ Line(s.queue, s.posted, out, on)
       /\ s.writing => s.queue # <<>> /\ s.ops = <<s.queue[1]>>
       /\ ~s.writing => s.ops = <<>>

(* A session that no connect made yet. *)
Unmade(i) == ses[i] = Fresh /\ sent[i] = <<>> /\ wire[i] = <<>>

Inv ==
  /\ Types /\ Notified
  /\ current <= calls.connects
  /\ \A i \in Sessions : i > calls.connects => Unmade(i)
  /\ \A i \in Sessions : Ends(ses[i])
  /\ ~undefined => \A i \in Sessions : Flow(ses[i], sent[i], wire[i])


-----------------------------------------------------------------------------
(* Frames and the close() calls are different things. *)
LEMMA Names ==
  /\ MaxConnects \in Nat /\ MaxSends \in Nat /\ MaxCloses \in Nat
  /\ Closing \notin Posts /\ CloseCall \in Posts /\ CloseCall \notin Frames
  /\ Frames \subseteq Posts
BY WebsocketClientAssumption DEF Posts

(* A new session satisfies what is said of sessions. *)
LEMMA FreshFacts ==
  /\ Fresh \in Records /\ Ends(Fresh)
  /\ Flow(Fresh, <<>>, <<>>)
<1>1. Fresh \in Records
  BY DEF Fresh, Records, Phases
<1>2. Ends(Fresh)
  BY DEF Fresh, Ends
<1>3. Flow(Fresh, <<>>, <<>>)
  BY DEF Fresh, Flow, Line, Calm
<1> QED  BY <1>1, <1>2, <1>3

(* The initial state satisfies the invariant. *)
LEMMA InitInv ==
  Init => Inv
<1> SUFFICES ASSUME Init PROVE Inv
  OBVIOUS
<1>1. Types
  <2>1. calls \in [connects : 0..MaxConnects, sends : 0..MaxSends,
                  closes : 0..MaxCloses]
    BY Names DEF Init
  <2>2. current \in 0..MaxConnects /\ closes \in Nat /\ errors \in SUBSET Sessions
        /\ answered \in [Sessions -> Nat] /\ late \in [Sessions -> Nat]
    BY Names DEF Init
  <2>3. /\ alive \in BOOLEAN /\ closeNotified \in BOOLEAN
        /\ undefined \in BOOLEAN
        /\ calling \in [Sessions -> Notices \cup {None}]
        /\ checked \in [Sessions -> Notices \cup {None}]
        /\ ses \in [Sessions -> Records]
    BY FreshFacts DEF Init
  <2>4. /\ todo \in [Sessions -> Seq(Notices)]
        /\ sent \in [Sessions -> Seq(Frames)]
        /\ wire \in [Sessions -> Seq(Posts)]
    BY DEF Init
  <2> QED  BY <2>1, <2>2, <2>3, <2>4 DEF Types
<1>2. Notified /\ current <= calls.connects
  BY DEF Init, Notified
<1>3. \A i \in Sessions : Unmade(i)
  BY DEF Init, Unmade
<1>4. \A i \in Sessions : Ends(ses[i]) /\ Flow(ses[i], sent[i], wire[i])
  BY FreshFacts DEF Init
<1> QED  BY <1>1, <1>2, <1>3, <1>4 DEF Inv

(* Flow is about the frames only. *)
LEMMA SameFlow ==
  ASSUME NEW s, NEW t, NEW out, NEW on, Flow(s, out, on),
         t.queue = s.queue, t.writing = s.writing, t.closing = s.closing,
         t.ops = s.ops, t.posted = s.posted
  PROVE  Flow(t, out, on)
BY DEF Flow

(* A handler on the strand of one session changes this session and what it  *)
(* will notify, and perhaps writes.                                         *)
LEMMA SessionKeeps ==
  ASSUME Inv, NEW i \in Sessions, i <= calls.connects,
         NEW s \in Records, NEW n \in Seq(Notices),
         ses' = [ses EXCEPT ![i] = s], todo' = [todo EXCEPT ![i] = n],
         wire' \in [Sessions -> Seq(Posts)],
         \A j \in Sessions \ {i} : wire'[j] = wire[j],
         undefined' \in BOOLEAN, undefined => undefined',
         UNCHANGED <<app, shared>>,
         Ends(s), ~undefined' => Flow(s, sent[i], wire'[i])
  PROVE  Inv'
<1> USE DEF Inv
<1>1. Types'
  BY DEF Types, app, shared
<1>2. Notified' /\ (current <= calls.connects)'
  BY DEF Notified, app, shared
<1>3. ses'[i] = s /\ \A j \in Sessions \ {i} : ses'[j] = ses[j]
  BY DEF Types
<1>4. UNCHANGED <<sent, calls>>
  BY DEF app
<1>5. ASSUME NEW j \in Sessions, j > calls.connects  PROVE Unmade(j)'
  <2>1. j # i
    BY <1>5, Names DEF Types, Sessions
  <2> QED  BY <2>1, <1>3, <1>4, <1>5 DEF Unmade
<1>6. \A j \in Sessions : Ends(ses'[j])
  BY <1>3
<1>7. ~undefined' => \A j \in Sessions : Flow(ses'[j], sent'[j], wire'[j])
  BY <1>3, <1>4
<1> QED  BY <1>1, <1>2, <1>4, <1>5, <1>6, <1>7

(* A session with anything to do was made by a connect. *)
LEMMA MadeFacts ==
  ASSUME Inv, NEW i \in Sessions, ses[i] # Fresh
  PROVE  i <= calls.connects
BY Names DEF Inv, Types, Unmade, Sessions


-----------------------------------------------------------------------------
(* The lengths of the parts of a line, as numbers. *)
LEMMA LineNumbers ==
  ASSUME NEW q \in Seq(Posts), NEW p \in Seq(Posts), NEW out \in Seq(Frames),
         NEW on \in Seq(Posts)
  PROVE  /\ Len(on) \in Nat /\ Len(q) \in Nat /\ Len(p) \in Nat /\ Len(out) \in Nat
OBVIOUS

(* What the operations do to a line.  A frame is posted to the strand...     *)
LEMMA LinePosts ==
  ASSUME NEW q \in Seq(Posts), NEW p \in Seq(Posts), NEW out \in Seq(Frames),
         NEW on \in Seq(Posts), NEW f \in Frames, Line(q, p, out, on)
  PROVE  Line(q, Append(p, f), Append(out, f), on)
<1>4. PICK out2, p2 : out2 = Append(out, f) /\ p2 = Append(p, f)
  OBVIOUS
<1>5. /\ Len(out2) = Len(out) + 1 /\ out2[Len(out) + 1] = f
      /\ \A k \in 1..Len(out) : out2[k] = out[k]
  BY <1>4
<1>6. /\ Len(p2) = Len(p) + 1 /\ p2[Len(p) + 1] = f
      /\ \A k \in 1..Len(p) : p2[k] = p[k]
  BY <1>4, Names
<1>n. PICK a \in Nat, b \in Nat, c \in Nat, d \in Nat :
        /\ a = Len(on) /\ b = Len(q) /\ c = Len(p) /\ d = Len(out)
        /\ Len(out2) = d + 1 /\ Len(p2) = c + 1
  BY <1>5, <1>6, LineNumbers
<1>p. a \in Nat /\ b \in Nat /\ c \in Nat /\ d \in Nat
  OBVIOUS
<1>1. /\ a + b <= d
      /\ \A k \in 1..b : q[k] = out[a + k]
      /\ \A k \in 1..c : Calm(p, k) => a + b + k <= d /\ p[k] = out[a + b + k]
      /\ Calm(p, c) => d = a + b + c
  BY <1>n DEF Line
<1>2. \A k \in 1..c : Calm(p2, k) <=> Calm(p, k)
  <2>1. \A k \in 1..c : \A m \in 1..k : m \in 1..c
    BY <1>p
  <2> QED  BY <2>1, <1>6, <1>n DEF Calm
<1>3. Calm(p2, c + 1) => Calm(p, c)
  <2>1. \A m \in 1..c : m \in 1..(c + 1)
    BY <1>p
  <2> QED  BY <2>1, <1>6, <1>n DEF Calm
<1>9. a + b <= d + 1 /\ \A k \in 1..b : q[k] = out2[a + k]
  <2>2. \A k \in 1..b : a + k \in 1..d
    BY <1>1, <1>p
  <2>3. a + b <= d + 1
    BY <1>1, <1>p
  <2> QED  BY <1>1, <2>2, <2>3, <1>5, <1>n
<1>10. ASSUME NEW k \in 1..(c + 1), Calm(p2, k)
       PROVE  a + b + k <= d + 1 /\ p2[k] = out2[a + b + k]
  <2>1. CASE k \in 1..c
    <3>1. a + b + k <= d /\ p[k] = out[a + b + k]
      BY <1>1, <1>2, <1>10, <2>1
    <3>2. a + b + k \in 1..d /\ a + b + k <= d + 1
      BY <3>1, <2>1, <1>p
    <3> QED  BY <1>5, <1>6, <1>n, <2>1, <3>1, <3>2
  <2>2. CASE k = c + 1
    <3>1. d = a + b + c
      BY <1>1, <1>3, <1>10, <2>2
    <3>2. a + b + k = d + 1 /\ a + b + k <= d + 1
      BY <3>1, <2>2, <1>p
    <3>3. p2[c + 1] = f /\ out2[d + 1] = f
      BY <1>5, <1>6, <1>n
    <3> QED  BY <3>2, <3>3, <2>2
  <2>3. k \in 1..c \/ k = c + 1
    BY <1>p
  <2> QED  BY <2>1, <2>2, <2>3
<1>11. Calm(p2, c + 1) => d + 1 = a + b + (c + 1)
  BY <1>1, <1>3, <1>p
<1>12. Line(q, p2, out2, on)
  BY <1>n, <1>9, <1>10, <1>11 DEF Line
<1> QED  BY <1>4, <1>12

(* ... which says the same of the session...                                *)
LEMMA FlowPosts ==
  ASSUME NEW s, NEW t, NEW out \in Seq(Frames), NEW on \in Seq(Posts),
         NEW f \in Frames, s.queue \in Seq(Posts), s.posted \in Seq(Posts),
         Flow(s, out, on), t.queue = s.queue, t.writing = s.writing,
         t.closing = s.closing, t.ops = s.ops, t.posted = Append(s.posted, f)
  PROVE  Flow(t, Append(out, f), on)
<1>1. ~s.closing => Line(t.queue, t.posted, Append(out, f), on)
  BY LinePosts DEF Flow
<1>2. /\ Len(on) \in Nat /\ Len(out) \in Nat
      /\ Len(Append(out, f)) = Len(out) + 1
      /\ \A k \in 1..Len(out) : Append(out, f)[k] = out[k]
  OBVIOUS
<1>3. Len(on) <= Len(out) /\ \A k \in 1..Len(on) : on[k] = out[k]
  BY DEF Flow
<1>4. /\ Len(on) <= Len(Append(out, f))
      /\ \A k \in 1..Len(on) : on[k] = Append(out, f)[k]
  <2>1. \A k \in 1..Len(on) : k \in 1..Len(out)
    BY <1>2, <1>3
  <2> QED  BY <2>1, <1>2, <1>3
<1> QED  BY <1>1, <1>4 DEF Flow

(* ... or a close()...                                                      *)
LEMMA LineCloses ==
  ASSUME NEW q \in Seq(Posts), NEW p \in Seq(Posts), NEW out \in Seq(Frames),
         NEW on \in Seq(Posts), Line(q, p, out, on)
  PROVE  Line(q, Append(p, CloseCall), out, on)
<1>4. PICK p2 : p2 = Append(p, CloseCall)
  OBVIOUS
<1>6. /\ Len(p2) = Len(p) + 1 /\ p2[Len(p) + 1] = CloseCall
      /\ \A k \in 1..Len(p) : p2[k] = p[k]
  BY <1>4, Names
<1>n. PICK a \in Nat, b \in Nat, c \in Nat, d \in Nat :
        /\ a = Len(on) /\ b = Len(q) /\ c = Len(p) /\ d = Len(out)
        /\ Len(p2) = c + 1
  BY <1>6, LineNumbers
<1>p. a \in Nat /\ b \in Nat /\ c \in Nat /\ d \in Nat
  OBVIOUS
<1>1. /\ a + b <= d
      /\ \A k \in 1..b : q[k] = out[a + k]
      /\ \A k \in 1..c : Calm(p, k) => a + b + k <= d /\ p[k] = out[a + b + k]
  BY <1>n DEF Line
<1>2. \A k \in 1..c : Calm(p2, k) => Calm(p, k)
  <2>1. \A k \in 1..c : \A m \in 1..k : m \in 1..c
    BY <1>p
  <2> QED  BY <2>1, <1>6, <1>n DEF Calm
<1>3. ~Calm(p2, c + 1)
  <2>1. c + 1 \in 1..(c + 1)
    BY <1>p
  <2> QED  BY <2>1, <1>6, <1>n DEF Calm
<1>5. ASSUME NEW k \in 1..(c + 1), Calm(p2, k)
      PROVE  a + b + k <= d /\ p2[k] = out[a + b + k]
  <2>1. k \in 1..c
    BY <1>3, <1>5, <1>p
  <2> QED  BY <2>1, <1>1, <1>2, <1>5, <1>6, <1>n
<1>7. Line(q, p2, out, on)
  BY <1>n, <1>1, <1>3, <1>5 DEF Line
<1> QED  BY <1>4, <1>7

(* ... a posted frame goes to the queue...                                  *)
LEMMA LineQueues ==
  ASSUME NEW q \in Seq(Posts), NEW p \in Seq(Posts), NEW out \in Seq(Frames),
         NEW on \in Seq(Posts), Line(q, p, out, on), p # <<>>, Head(p) # CloseCall
  PROVE  Line(Append(q, Head(p)), Tail(p), out, on)
<1>4. PICK q2, p2, f : q2 = Append(q, Head(p)) /\ p2 = Tail(p) /\ f = p[1]
  OBVIOUS
<1>5. /\ Len(p) \in Nat /\ Len(p) >= 1 /\ Head(p) = f /\ f \in Posts
  BY <1>4
<1>6. /\ Len(p2) = Len(p) - 1
      /\ \A k \in 1..(Len(p) - 1) : p2[k] = p[k + 1]
  BY <1>4
<1>7. /\ Len(q2) = Len(q) + 1 /\ q2[Len(q) + 1] = f
      /\ \A k \in 1..Len(q) : q2[k] = q[k]
  BY <1>4, <1>5
<1>n. PICK a \in Nat, b \in Nat, c \in Nat, d \in Nat :
        /\ a = Len(on) /\ b = Len(q) /\ c + 1 = Len(p) /\ d = Len(out)
        /\ Len(p2) = c /\ Len(q2) = b + 1
  <2>1. Len(p) - 1 \in Nat /\ (Len(p) - 1) + 1 = Len(p)
    BY <1>5
  <2> QED  BY <2>1, <1>6, <1>7, LineNumbers
<1>p. a \in Nat /\ b \in Nat /\ c \in Nat /\ d \in Nat
  OBVIOUS
<1>1. /\ a + b <= d
      /\ \A k \in 1..b : q[k] = out[a + k]
      /\ \A k \in 1..(c + 1) : Calm(p, k) => a + b + k <= d /\ p[k] = out[a + b + k]
      /\ Calm(p, c + 1) => d = a + b + (c + 1)
  BY <1>n DEF Line
<1>2. \A k \in 1..c : k + 1 \in 1..(c + 1) /\ p2[k] = p[k + 1]
  <2>1. \A k \in 1..c : k + 1 \in 1..(c + 1) /\ k \in 1..((c + 1) - 1)
    BY <1>p
  <2> QED  BY <2>1, <1>6, <1>n
<1>3. ASSUME NEW k \in 0..c, Calm(p2, k)  PROVE Calm(p, k + 1)
  <2>1. \A m \in 1..(k + 1) : m = 1 \/ (m - 1 \in 1..k /\ (m - 1) + 1 = m /\ m - 1 \in 1..c)
    BY <1>p
  <2> QED  BY <2>1, <1>2, <1>3, <1>4, <1>5 DEF Calm
<1>8. a + b + 1 <= d /\ f = out[a + b + 1]
  <2>1. 1 \in 1..(c + 1) /\ \A m \in 1..1 : m = 1
    BY <1>p
  <2>2. Calm(p, 1)
    BY <2>1, <1>4, <1>5 DEF Calm
  <2> QED  BY <2>1, <2>2, <1>1, <1>4
<1>9. a + (b + 1) <= d /\ \A k \in 1..(b + 1) : q2[k] = out[a + k]
  <2>1. a + (b + 1) = a + b + 1 /\ \A k \in 1..(b + 1) : k = b + 1 \/ k \in 1..b
    BY <1>p
  <2>2. q2[b + 1] = f /\ \A k \in 1..b : q2[k] = q[k]
    BY <1>7, <1>n
  <2> QED  BY <2>1, <2>2, <1>1, <1>8
<1>10. ASSUME NEW k \in 1..c, Calm(p2, k)
       PROVE  a + (b + 1) + k <= d /\ p2[k] = out[a + (b + 1) + k]
  <2>1. a + (b + 1) + k = a + b + (k + 1) /\ k \in 0..c
    BY <1>p
  <2>2. Calm(p, k + 1)
    BY <2>1, <1>3, <1>10
  <2> QED  BY <2>1, <2>2, <1>1, <1>2
<1>11. Calm(p2, c) => d = a + (b + 1) + c
  <2>1. c \in 0..c /\ a + (b + 1) + c = a + b + (c + 1)
    BY <1>p
  <2> QED  BY <2>1, <1>1, <1>3
<1>12. Line(q2, p2, out, on)
  BY <1>n, <1>9, <1>10, <1>11 DEF Line
<1> QED  BY <1>4, <1>12

(* ... and the first frame of the queue is written.                         *)
LEMMA LineWrites ==
  ASSUME NEW q \in Seq(Posts), NEW p \in Seq(Posts), NEW out \in Seq(Frames),
         NEW on \in Seq(Posts), Line(q, p, out, on), q # <<>>,
         \A k \in 1..Len(on) : on[k] = out[k]
  PROVE  /\ Line(Tail(q), p, out, Append(on, Head(q)))
         /\ Len(Append(on, Head(q))) <= Len(out)
         /\ \A k \in 1..Len(Append(on, Head(q))) : Append(on, Head(q))[k] = out[k]
<1>4. PICK q2, on2, f : q2 = Tail(q) /\ on2 = Append(on, Head(q)) /\ f = q[1]
  OBVIOUS
<1>5. /\ Len(q) \in Nat /\ Len(q) >= 1 /\ Head(q) = f /\ f \in Posts
  BY <1>4
<1>6. /\ Len(q2) = Len(q) - 1
      /\ \A k \in 1..(Len(q) - 1) : q2[k] = q[k + 1]
  BY <1>4
<1>7. /\ Len(on2) = Len(on) + 1 /\ on2[Len(on) + 1] = f
      /\ \A k \in 1..Len(on) : on2[k] = on[k]
  BY <1>4, <1>5
<1>n. PICK a \in Nat, b \in Nat, c \in Nat, d \in Nat :
        /\ a = Len(on) /\ b + 1 = Len(q) /\ c = Len(p) /\ d = Len(out)
        /\ Len(q2) = b /\ Len(on2) = a + 1
  <2>1. Len(q) - 1 \in Nat /\ (Len(q) - 1) + 1 = Len(q)
    BY <1>5
  <2> QED  BY <2>1, <1>6, <1>7, LineNumbers
<1>p. a \in Nat /\ b \in Nat /\ c \in Nat /\ d \in Nat
  OBVIOUS
<1>1. /\ a + (b + 1) <= d
      /\ \A k \in 1..(b + 1) : q[k] = out[a + k]
      /\ \A k \in 1..c :
           Calm(p, k) => a + (b + 1) + k <= d /\ p[k] = out[a + (b + 1) + k]
      /\ Calm(p, c) => d = a + (b + 1) + c
  BY <1>n DEF Line
<1>2. \A k \in 1..b : /\ q2[k] = q[k + 1] /\ k + 1 \in 1..(b + 1)
                      /\ (a + 1) + k = a + (k + 1)
  <2>1. \A k \in 1..b : /\ k \in 1..((b + 1) - 1) /\ k + 1 \in 1..(b + 1)
                        /\ (a + 1) + k = a + (k + 1)
    BY <1>p
  <2> QED  BY <2>1, <1>6, <1>n
<1>3. /\ (a + 1) + b = a + (b + 1) /\ a + 1 <= d /\ 1 \in 1..(b + 1)
      /\ \A k \in 1..c : (a + 1) + b + k = a + (b + 1) + k
      /\ (a + 1) + b + c = a + (b + 1) + c
  BY <1>1, <1>p
<1>8. (a + 1) + b <= d /\ \A k \in 1..b : q2[k] = out[(a + 1) + k]
  BY <1>1, <1>2, <1>3
<1>9. \A k \in 1..c :
        Calm(p, k) => (a + 1) + b + k <= d /\ p[k] = out[(a + 1) + b + k]
  BY <1>1, <1>3
<1>10. Calm(p, c) => d = (a + 1) + b + c
  BY <1>1, <1>3
<1>11. Line(q2, p, out, on2)
  BY <1>n, <1>8, <1>9, <1>10 DEF Line
<1>12. \A k \in 1..(a + 1) : on2[k] = out[k]
  <2>1. \A k \in 1..(a + 1) : k = a + 1 \/ k \in 1..a
    BY <1>p
  <2>2. on2[a + 1] = out[a + 1]
    BY <1>1, <1>3, <1>4, <1>7, <1>n
  <2>3. \A k \in 1..a : on2[k] = out[k]
    BY <1>7, <1>n
  <2> QED  BY <2>1, <2>2, <2>3
<1> QED  BY <1>3, <1>4, <1>11, <1>12, <1>n


-----------------------------------------------------------------------------
(* What a handler notifies is a short sequence of notices. *)
LEMMA NoticeFacts ==
  /\ <<>> \in Seq(Notices)
  /\ \A n \in Notices : <<n>> \in Seq(Notices)
  /\ \A n, m \in Notices : <<n, m>> \in Seq(Notices)
  /\ \A s : ConnectNotice(s) \in Seq(Notices)
<1>1. <<>> \in Seq(Notices)
  OBVIOUS
<1>2. \A n \in Notices : <<n>> \in Seq(Notices)
  OBVIOUS
<1>3. \A n, m \in Notices : <<n, m>> \in Seq(Notices)
  OBVIOUS
<1>4. "connect" \in Notices
  BY DEF Notices
<1>5. \A s : ConnectNotice(s) \in {<<>>, <<"connect">>}
  BY DEF ConnectNotice
<1> QED  BY <1>1, <1>2, <1>3, <1>4, <1>5

(* connect makes a session of its own, or none. *)
LEMMA ConnectKeeps ==
  ASSUME Inv, NEW secure \in BOOLEAN, Connect(secure)
  PROVE  Inv'
<1>0. PICK i : i = calls.connects + 1
  OBVIOUS
<1>1. /\ i \in Sessions /\ i \in 0..MaxConnects /\ calls.connects \in Nat
      /\ calls' = [calls EXCEPT !.connects = i]
      /\ i > calls.connects
  BY <1>0, Names DEF Connect, Inv, Types, Sessions
<1>2. /\ calls' \in [connects : 0..MaxConnects, sends : 0..MaxSends,
                     closes : 0..MaxCloses]
      /\ calls'.connects = i
  BY <1>1 DEF Inv, Types
<1>3. UNCHANGED <<alive, sent, checked, calling, errors, late, wire, undefined>>
  BY DEF Connect
<1>4. Unmade(i)
  BY <1>1 DEF Inv
<1>5. \A j \in Sessions : j > i => j > calls.connects
  BY <1>0, <1>1 DEF Sessions
<1>6. CASE /\ answered' = [answered EXCEPT ![i] = @ + 1]
           /\ UNCHANGED <<closeNotified, current, ses, todo, closes>>
  <2>1. Types'
    BY <1>1, <1>2, <1>3, <1>6 DEF Inv, Types
  <2>2. Notified'
    BY <1>6 DEF Inv, Notified
  <2>3. current' <= calls'.connects
    BY <1>0, <1>1, <1>2, <1>6, Names DEF Inv, Types
  <2>4. \A j \in Sessions : j > calls'.connects => Unmade(j)'
    BY <1>2, <1>3, <1>5, <1>6 DEF Inv, Unmade
  <2>5. /\ \A j \in Sessions : Ends(ses'[j])
        /\ ~undefined' => \A j \in Sessions : Flow(ses'[j], sent'[j], wire'[j])
    BY <1>3, <1>6 DEF Inv
  <2> QED  BY <2>1, <2>2, <2>3, <2>4, <2>5 DEF Inv
<1>7. ASSUME NEW s \in Records, NEW n \in Seq(Notices),
             closeNotified' = FALSE, closes' = 0, current' = i,
             ses' = [ses EXCEPT ![i] = s], todo' = [todo EXCEPT ![i] = n],
             Ends(s), Flow(s, <<>>, <<>>), UNCHANGED answered
      PROVE  Inv'
  <2>1. Types'
    BY <1>1, <1>2, <1>3, <1>7 DEF Inv, Types
  <2>2. Notified'
    BY <1>7 DEF Notified
  <2>3. current' <= calls'.connects
    BY <1>1, <1>2, <1>7
  <2>4. ses'[i] = s /\ \A j \in Sessions \ {i} : ses'[j] = ses[j]
    BY <1>1, <1>7 DEF Inv, Types
  <2>5. ASSUME NEW j \in Sessions, j > i  PROVE Unmade(j)'
    <3>1. j # i
      BY <1>1, <2>5 DEF Sessions
    <3> QED  BY <3>1, <1>3, <1>5, <2>4, <2>5 DEF Inv, Unmade
  <2>6. \A j \in Sessions : Ends(ses'[j])
    BY <1>7, <2>4 DEF Inv
  <2>7. ~undefined' => \A j \in Sessions : Flow(ses'[j], sent'[j], wire'[j])
    BY <1>3, <1>4, <1>7, <2>4 DEF Inv, Unmade
  <2> QED  BY <1>2, <2>1, <2>2, <2>3, <2>5, <2>6, <2>7 DEF Inv
<1>8. ASSUME NEW s, \/ s = [Fresh EXCEPT !.phase = "resolving", !.secure = secure]
                    \/ s = [Fresh EXCEPT !.phase = "failed", !.secure = TRUE,
                                         !.connectNotified = TRUE]
      PROVE  s \in Records /\ Ends(s) /\ Flow(s, <<>>, <<>>)
  <2>0. s \in Records
    BY <1>8, FreshFacts DEF Records, Phases
  <2>1. Ends(s)
    BY <1>8 DEF Fresh, Ends
  <2>2. /\ s.queue = Fresh.queue /\ s.writing = Fresh.writing
        /\ s.closing = Fresh.closing /\ s.ops = Fresh.ops
        /\ s.posted = Fresh.posted
    BY <1>8 DEF Fresh
  <2> QED  BY <2>0, <2>1, <2>2, FreshFacts, SameFlow
<1>9. <<>> \in Seq(Notices) /\ ConnectNotice(Fresh) \in Seq(Notices)
  BY NoticeFacts
<1> QED
  BY <1>0, <1>6, <1>7, <1>8, <1>9 DEF Connect, Set

(* send, close and the destructor post to the strand of session_. *)
LEMMA PostKeeps ==
  ASSUME Inv, Send \/ Close \/ Destroy
  PROVE  Inv'
<1>0. /\ ses \in [Sessions -> Records] /\ sent \in [Sessions -> Seq(Frames)]
      /\ wire \in [Sessions -> Seq(Posts)]
  BY DEF Inv, Types
<1>1. CASE Send
  <2>1. PICK f : f = calls.sends + 1
    OBVIOUS
  <2>2. /\ current \in Sessions /\ f \in Frames /\ f \in 0..MaxSends
        /\ calls' = [calls EXCEPT !.sends = f]
        /\ ses' = [ses EXCEPT ![current].posted = Append(@, f)]
        /\ sent' = [sent EXCEPT ![current] = Append(@, f)]
        /\ UNCHANGED <<alive, current, shared, todo, wire, undefined>>
    BY <1>1, <2>1, Names DEF Send, Inv, Types, Sessions, Frames
  <2>3. PICK i \in Sessions : i = current
    BY <2>2
  <2>4. PICK s : s = [ses[i] EXCEPT !.posted = Append(@, f)]
    OBVIOUS
  <2>5. ses[i] \in Records
    BY <1>0
  <2>6. /\ s.queue = ses[i].queue /\ s.writing = ses[i].writing
        /\ s.closing = ses[i].closing /\ s.ops = ses[i].ops
        /\ s.posted = Append(ses[i].posted, f)
        /\ s.phase = ses[i].phase /\ s.closeStarted = ses[i].closeStarted
    BY <2>4, <2>5 DEF Records
  <2>7. s \in Records
    <3>1. Append(ses[i].posted, f) \in Seq(Posts)
      BY <2>2, <2>5, Names DEF Records
    <3> QED  BY <2>4, <2>5, <3>1 DEF Records
  <2>8. ses' = [ses EXCEPT ![i] = s]
    BY <2>2, <2>3, <2>4
  <2>9. /\ ses'[i] = s /\ \A j \in Sessions \ {i} : ses'[j] = ses[j]
        /\ sent'[i] = Append(sent[i], f)
        /\ \A j \in Sessions \ {i} : sent'[j] = sent[j]
    BY <2>2, <2>3, <2>8, <1>0
  <2>10. /\ calls' \in [connects : 0..MaxConnects, sends : 0..MaxSends,
                        closes : 0..MaxCloses]
         /\ calls'.connects = calls.connects
    BY <2>2 DEF Inv, Types
  <2>11. Types'
    <3>1. ses' \in [Sessions -> Records]
      BY <2>7, <2>8, <1>0
    <3>2. Append(sent[i], f) \in Seq(Frames)
      BY <2>2, <1>0
    <3>3. sent' = [sent EXCEPT ![i] = Append(sent[i], f)]
      BY <2>2, <2>3
    <3>4. sent' \in [Sessions -> Seq(Frames)]
      BY <3>2, <3>3, <1>0
    <3> QED  BY <3>1, <3>4, <2>2, <2>10 DEF Inv, Types, shared
  <2>12. Notified' /\ current' <= calls'.connects
    BY <2>2, <2>10 DEF Inv, Notified, shared
  <2>13. ASSUME NEW j \in Sessions, j > calls.connects  PROVE Unmade(j)'
    <3>1. j # i
      BY <2>3, <2>13, Names DEF Inv, Types, Sessions
    <3> QED  BY <3>1, <2>2, <2>9, <2>13 DEF Inv, Unmade
  <2>14. \A j \in Sessions : Ends(ses'[j])
    BY <2>6, <2>9 DEF Inv, Ends
  <2>15. ASSUME ~undefined  PROVE Flow(s, Append(sent[i], f), wire[i])
    <3>1. Flow(ses[i], sent[i], wire[i])
      BY <2>15 DEF Inv
    <3>2. /\ ses[i].queue \in Seq(Posts) /\ ses[i].posted \in Seq(Posts)
          /\ sent[i] \in Seq(Frames) /\ wire[i] \in Seq(Posts)
      BY <2>5, <1>0 DEF Records
    <3> QED  BY <3>1, <3>2, <2>2, <2>6, FlowPosts
  <2>16. ~undefined' => \A j \in Sessions : Flow(ses'[j], sent'[j], wire'[j])
    BY <2>2, <2>9, <2>15 DEF Inv
  <2> QED  BY <2>10, <2>11, <2>12, <2>13, <2>14, <2>16 DEF Inv
<1>2. CASE Close \/ Destroy
  <2>1. /\ PostClose
        /\ UNCHANGED <<current, sent, shared, todo, wire, undefined>>
        /\ calls' \in [connects : 0..MaxConnects, sends : 0..MaxSends,
                       closes : 0..MaxCloses]
        /\ calls'.connects = calls.connects /\ alive' \in BOOLEAN
    <3>0. /\ calls \in [connects : 0..MaxConnects, sends : 0..MaxSends,
                       closes : 0..MaxCloses]
          /\ alive \in BOOLEAN
      BY DEF Inv, Types
    <3>1. CASE Close
      <4>1. calls.closes + 1 \in 0..MaxCloses
        BY <3>0, <3>1, Names DEF Close
      <4>2. calls' = [calls EXCEPT !.closes = calls.closes + 1]
        BY <3>1 DEF Close
      <4>3. /\ calls' \in [connects : 0..MaxConnects, sends : 0..MaxSends,
                            closes : 0..MaxCloses]
            /\ calls'.connects = calls.connects
        BY <3>0, <4>1, <4>2
      <4>4. /\ PostClose /\ alive' = alive
            /\ UNCHANGED <<current, sent, shared, todo, wire, undefined>>
        BY <3>1 DEF Close
      <4> QED  BY <3>0, <4>3, <4>4
    <3>2. CASE Destroy
      BY <3>0, <3>2 DEF Destroy
    <3> QED  BY <1>2, <3>1, <3>2
  <2>2. CASE current = 0
    <3>1. UNCHANGED ses
      BY <2>1, <2>2 DEF PostClose
    <3>2. Types' /\ Notified' /\ current' <= calls'.connects
      BY <3>1, <2>1 DEF Inv, Types, Notified, shared
    <3> QED  BY <3>1, <3>2, <2>1 DEF Inv, Unmade
  <2>3. CASE current # 0
    <3>1. PICK i \in Sessions : i = current
      BY <2>3 DEF Inv, Types, Sessions
    <3>2. PICK s : s = [ses[i] EXCEPT !.posted = Append(@, CloseCall)]
      OBVIOUS
    <3>3. ses[i] \in Records
      BY <1>0
    <3>4. /\ s.queue = ses[i].queue /\ s.writing = ses[i].writing
          /\ s.closing = ses[i].closing /\ s.ops = ses[i].ops
          /\ s.posted = Append(ses[i].posted, CloseCall)
          /\ s.phase = ses[i].phase /\ s.closeStarted = ses[i].closeStarted
      BY <3>2, <3>3 DEF Records
    <3>5. s \in Records
      <4>1. Append(ses[i].posted, CloseCall) \in Seq(Posts)
        BY <3>3, Names DEF Records
      <4> QED  BY <3>2, <3>3, <4>1 DEF Records
    <3>6. ses' = [ses EXCEPT ![i] = s]
      BY <2>1, <2>3, <3>1, <3>2 DEF PostClose
    <3>7. ses'[i] = s /\ \A j \in Sessions \ {i} : ses'[j] = ses[j]
      BY <3>6, <1>0
    <3>8. Types' /\ Notified' /\ current' <= calls'.connects
      BY <3>5, <3>6, <2>1 DEF Inv, Types, Notified, shared
    <3>9. ASSUME NEW j \in Sessions, j > calls.connects  PROVE Unmade(j)'
      <4>1. j # i
        BY <3>1, <3>9, Names DEF Inv, Types, Sessions
      <4> QED  BY <4>1, <2>1, <3>7, <3>9 DEF Inv, Unmade
    <3>10. \A j \in Sessions : Ends(ses'[j])
      BY <3>4, <3>7 DEF Inv, Ends
    <3>11. ASSUME ~undefined  PROVE Flow(s, sent[i], wire[i])
      <4>1. Flow(ses[i], sent[i], wire[i])
        BY <3>11 DEF Inv
      <4>2. /\ ses[i].queue \in Seq(Posts) /\ ses[i].posted \in Seq(Posts)
            /\ sent[i] \in Seq(Frames) /\ wire[i] \in Seq(Posts)
        BY <3>3, <1>0 DEF Records
      <4> QED  BY <4>1, <4>2, <3>4, LineCloses DEF Flow
    <3>12. ~undefined' => \A j \in Sessions : Flow(ses'[j], sent'[j], wire'[j])
      BY <2>1, <3>7, <3>11 DEF Inv
    <3> QED  BY <2>1, <3>8, <3>9, <3>10, <3>12 DEF Inv
  <2> QED  BY <2>2, <2>3
<1> QED  BY <1>1, <1>2



-----------------------------------------------------------------------------
(* A handler that writes nothing keeps the invariant if it keeps what is    *)
(* said of its session.                                                     *)
LEMMA QuietKeeps ==
  ASSUME Inv, NEW i \in Sessions, NEW s \in Records, NEW n \in Seq(Notices),
         Set(i, s, n), UNCHANGED <<app, shared, wire, undefined>>,
         ses[i] # Fresh, Ends(s),
         Flow(ses[i], sent[i], wire[i]) => Flow(s, sent[i], wire[i])
  PROVE  Inv'
<1>1. i <= calls.connects
  BY MadeFacts
<1>2. /\ wire' \in [Sessions -> Seq(Posts)] /\ undefined' \in BOOLEAN
      /\ wire' = wire /\ undefined' = undefined
  BY DEF Inv, Types
<1>3. ~undefined' => Flow(s, sent[i], wire'[i])
  BY <1>2 DEF Inv
<1>4. /\ UNCHANGED <<app, shared>> /\ (undefined => undefined')
      /\ \A j \in Sessions \ {i} : wire'[j] = wire[j]
      /\ ses' = [ses EXCEPT ![i] = s] /\ todo' = [todo EXCEPT ![i] = n]
  BY <1>2 DEF Set
<1> QED  BY <1>1, <1>2, <1>3, <1>4, SessionKeeps

(* A close() on the strand drops the queue and closes an open stream. *)
LEMMA OnCloseFacts ==
  ASSUME NEW t \in Records, Ends(t)
  PROVE  /\ OnClose(t) \in Records /\ Ends(OnClose(t))
         /\ OnClose(t).closing /\ OnClose(t).queue = <<>>
<1>1. PICK c : c = [t EXCEPT !.closing = TRUE, !.queue = <<>>, !.cut = TRUE]
  OBVIOUS
<1>2. c \in Records
  <2>1. <<>> \in Seq(Posts) /\ TRUE \in BOOLEAN
    OBVIOUS
  <2> QED  BY <1>1, <2>1 DEF Records
<1>3. /\ c.closing /\ c.queue = <<>> /\ c.phase = t.phase /\ c.ops = t.ops
      /\ c.closeStarted = t.closeStarted
  BY <1>1 DEF Records
<1>4. CASE t.phase = "open" /\ ~t.closeStarted
  <2>1. PICK u : u = [c EXCEPT !.closeStarted = TRUE, !.ops = Append(@, Closing)]
    OBVIOUS
  <2>2. c.ops \in Seq(Posts \cup {Closing})
    BY <1>2 DEF Records
  <2>3. /\ Append(c.ops, Closing) \in Seq(Posts \cup {Closing})
        /\ Len(c.ops) + 1 \in DOMAIN Append(c.ops, Closing)
        /\ Append(c.ops, Closing)[Len(c.ops) + 1] = Closing
    BY <2>2
  <2>4. u \in Records
    BY <1>2, <2>1, <2>3 DEF Records
  <2>5. /\ u.closing /\ u.queue = <<>> /\ u.closeStarted
        /\ u.ops = Append(c.ops, Closing)
    BY <1>2, <1>3, <2>1 DEF Records
  <2>6. Ends(u)
    BY <2>3, <2>5 DEF Ends
  <2>7. OnClose(t) = u
    BY <1>1, <1>4, <2>1 DEF OnClose
  <2> QED  BY <2>4, <2>5, <2>6, <2>7
<1>5. CASE ~(t.phase = "open" /\ ~t.closeStarted)
  <2>1. OnClose(t) = c
    BY <1>1, <1>5 DEF OnClose
  <2>2. Ends(c)
    BY <1>3, <1>5 DEF Ends
  <2> QED  BY <1>2, <1>3, <2>1, <2>2
<1> QED  BY <1>4, <1>5

(* A frame that reaches the strand goes to the queue, unless close() ran;   *)
(* it is written at once if nothing is being written.                       *)
LEMMA OnQueueWriteFacts ==
  ASSUME NEW t \in Records, Ends(t), NEW f \in Posts
  PROVE  /\ OnQueueWrite(t, f) \in Records /\ Ends(OnQueueWrite(t, f))
         /\ OnQueueWrite(t, f).closing = t.closing
         /\ OnQueueWrite(t, f).posted = t.posted
         /\ t.closing => OnQueueWrite(t, f).queue = t.queue
         /\ ~t.closing => /\ OnQueueWrite(t, f).queue = Append(t.queue, f)
                          /\ OnQueueWrite(t, f).writing
         /\ ~t.closing /\ t.writing => OnQueueWrite(t, f).ops = t.ops
         /\ ~t.closing /\ ~t.writing =>
              OnQueueWrite(t, f).ops = Append(t.ops, Head(Append(t.queue, f)))
<1>1. PICK q : q = [t EXCEPT !.queue = Append(@, f)]
  OBVIOUS
<1>2. t.queue \in Seq(Posts) /\ t.ops \in Seq(Posts \cup {Closing})
  BY DEF Records
<1>3. /\ Append(t.queue, f) \in Seq(Posts) /\ Append(t.queue, f) # <<>>
      /\ Head(Append(t.queue, f)) \in Posts
  <2>1. PICK r : r = Append(t.queue, f)
    OBVIOUS
  <2>2. r \in Seq(Posts) /\ r # <<>>
    BY <2>1, <1>2
  <2>3. Head(r) \in Posts
    BY <2>2
  <2> QED  BY <2>1, <2>2, <2>3
<1>4. q \in Records
  BY <1>1, <1>3 DEF Records
<1>5. /\ q.queue = Append(t.queue, f) /\ q.closing = t.closing
      /\ q.posted = t.posted /\ q.ops = t.ops /\ q.phase = t.phase
      /\ q.closeStarted = t.closeStarted /\ q.writing = t.writing
  BY <1>1 DEF Records
<1>6. CASE t.closing
  <2>1. OnQueueWrite(t, f) = t
    BY <1>6 DEF OnQueueWrite
  <2> QED  BY <1>6, <2>1
<1>7. CASE ~t.closing /\ t.writing
  <2>1. OnQueueWrite(t, f) = q
    BY <1>1, <1>7 DEF OnQueueWrite
  <2>2. Ends(q)
    BY <1>5 DEF Ends
  <2> QED  BY <1>4, <1>5, <1>7, <2>1, <2>2
<1>8. CASE ~t.closing /\ ~t.writing
  <2>1. PICK u : u = [q EXCEPT !.writing = TRUE, !.ops = Append(@, Head(q.queue))]
    OBVIOUS
  <2>2. OnQueueWrite(t, f) = u
    BY <1>1, <1>8, <2>1 DEF OnQueueWrite, StartWrite
  <2>3. Append(q.ops, Head(q.queue)) \in Seq(Posts \cup {Closing})
    BY <1>2, <1>3, <1>5
  <2>4. u \in Records
    BY <1>4, <2>1, <2>3 DEF Records
  <2>5. /\ u.queue = Append(t.queue, f) /\ u.closing = t.closing
        /\ u.posted = t.posted /\ u.phase = t.phase
        /\ u.closeStarted = t.closeStarted /\ u.writing
        /\ u.ops = Append(t.ops, Head(Append(t.queue, f)))
    BY <1>4, <1>5, <2>1 DEF Records
  <2>6. Ends(u)
    BY <1>8, <2>5 DEF Ends
  <2> QED  BY <1>8, <2>2, <2>4, <2>5, <2>6
<1> QED  BY <1>6, <1>7, <1>8

(* The functions that send and close posted keep the invariant. *)
LEMMA RunPostedKeeps ==
  ASSUME Inv, NEW i \in Sessions, RunPosted(i)
  PROVE  Inv'
<1>1. PICK s, out, on : s = ses[i] /\ out = sent[i] /\ on = wire[i]
  OBVIOUS
<1>2. /\ s \in Records /\ Ends(s) /\ out \in Seq(Frames) /\ on \in Seq(Posts)
  BY <1>1 DEF Inv, Types
<1>3. PICK p, t : p = Head(s.posted) /\ t = [s EXCEPT !.posted = Tail(@)]
  OBVIOUS
<1>4. /\ s.posted # <<>>
      /\ Set(i, IF p = CloseCall THEN OnClose(t) ELSE OnQueueWrite(t, p), <<>>)
      /\ UNCHANGED <<app, shared, wire, undefined>>
  BY <1>1, <1>3 DEF RunPosted
<1>5. s # Fresh
  BY <1>4 DEF Fresh
<1>6. /\ s.posted \in Seq(Posts) /\ s.queue \in Seq(Posts)
      /\ s.ops \in Seq(Posts \cup {Closing})
  BY <1>2 DEF Records
<1>7. p \in Posts /\ Tail(s.posted) \in Seq(Posts)
  BY <1>3, <1>4, <1>6
<1>8. t \in Records
  BY <1>2, <1>3, <1>7 DEF Records
<1>9. /\ t.queue = s.queue /\ t.writing = s.writing /\ t.closing = s.closing
      /\ t.ops = s.ops /\ t.posted = Tail(s.posted) /\ t.phase = s.phase
      /\ t.closeStarted = s.closeStarted
  BY <1>2, <1>3 DEF Records
<1>10. Ends(t)
  BY <1>2, <1>9 DEF Ends
<1>11. <<>> \in Seq(Notices)
  BY NoticeFacts
<1>12. CASE p = CloseCall
  <2>1. PICK u : u = OnClose(t)
    OBVIOUS
  <2>2. u \in Records /\ Ends(u) /\ u.closing /\ u.queue = <<>>
    BY <2>1, <1>8, <1>10, OnCloseFacts
  <2>3. Flow(s, out, on) => Flow(u, out, on)
    BY <2>2 DEF Flow
  <2>4. Set(i, u, <<>>)
    BY <1>4, <1>12, <2>1
  <2> QED  BY <1>1, <1>4, <1>5, <1>11, <2>2, <2>3, <2>4, QuietKeeps
<1>13. CASE p # CloseCall
  <2>1. PICK u : u = OnQueueWrite(t, p)
    OBVIOUS
  <2>2. /\ u \in Records /\ Ends(u)
        /\ u.closing = s.closing /\ u.posted = Tail(s.posted)
        /\ s.closing => u.queue = s.queue
        /\ ~s.closing => u.queue = Append(s.queue, p) /\ u.writing
        /\ ~s.closing /\ s.writing => u.ops = s.ops
        /\ ~s.closing /\ ~s.writing =>
              u.ops = Append(s.ops, Head(Append(s.queue, p)))
    <3>1. /\ u \in Records /\ Ends(u)
          /\ u.closing = t.closing /\ u.posted = t.posted
          /\ t.closing => u.queue = t.queue
          /\ ~t.closing => u.queue = Append(t.queue, p) /\ u.writing
          /\ ~t.closing /\ t.writing => u.ops = t.ops
          /\ ~t.closing /\ ~t.writing =>
               u.ops = Append(t.ops, Head(Append(t.queue, p)))
      BY <2>1, <1>7, <1>8, <1>10, OnQueueWriteFacts, Zenon
    <3> QED  BY <3>1, <1>9
  <2>3. ASSUME Flow(s, out, on)  PROVE Flow(u, out, on)
    <3>1. CASE s.closing
      BY <2>2, <2>3, <3>1 DEF Flow
    <3>2. CASE ~s.closing
      <4>1. Line(u.queue, u.posted, out, on)
        BY <2>2, <2>3, <3>2, <1>2, <1>3, <1>4, <1>6, <1>13, LineQueues DEF Flow
      <4>2. u.queue # <<>> /\ Head(u.queue) = u.queue[1]
        BY <2>2, <3>2, <1>6, <1>7
      <4>3. u.ops = <<u.queue[1]>>
        <5>1. CASE s.writing
          <6>1. s.queue # <<>> /\ s.ops = <<s.queue[1]>>
            BY <2>3, <3>2, <5>1 DEF Flow
          <6>2. Append(s.queue, p)[1] = s.queue[1]
            BY <6>1, <1>6, <1>7
          <6> QED  BY <2>2, <3>2, <5>1, <6>1, <6>2
        <5>2. CASE ~s.writing
          <6>1. s.ops = <<>>
            BY <2>3, <3>2, <5>2 DEF Flow
          <6>2. u.ops = Append(<<>>, u.queue[1])
            BY <2>2, <3>2, <5>2, <6>1, <4>2
          <6> QED  BY <6>2
        <5> QED  BY <5>1, <5>2
      <4> QED  BY <2>2, <2>3, <3>2, <4>1, <4>2, <4>3 DEF Flow
    <3> QED  BY <3>1, <3>2
  <2>4. Set(i, u, <<>>)
    BY <1>4, <1>13, <2>1
  <2> QED  BY <1>1, <1>4, <1>5, <1>11, <2>2, <2>3, <2>4, QuietKeeps
<1> QED  BY <1>12, <1>13


(* Resolving, connecting and the handshakes keep the invariant: a stream    *)
(* opens only if no close() ran before.                                     *)
LEMMA EstablishKeeps ==
  ASSUME Inv, NEW i \in Sessions, Establish(i)
  PROVE  Inv'
<1>1. PICK s : s = ses[i]
  OBVIOUS
<1>2. s \in Records /\ Ends(s)
  BY <1>1 DEF Inv, Types
<1>3. /\ s.phase \in {"resolving", "connecting", "tls", "handshaking"}
      /\ UNCHANGED <<app, shared, wire, undefined>>
  BY <1>1 DEF Establish
<1>4. s # Fresh
  BY <1>3 DEF Fresh
<1>5. After(s) \in Phases /\ (After(s) = "open" => s.phase = "handshaking")
  BY <1>3 DEF After, Phases
<1>6. /\ "failed" \in Phases
      /\ <<>> \in Seq(Notices) /\ ConnectNotice(s) \in Seq(Notices)
  BY NoticeFacts DEF Phases
<1>7. ASSUME NEW u \in Records, NEW n \in Seq(Notices), Set(i, u, n),
             u.phase = "open" => ~s.closing,
             u.queue = s.queue, u.writing = s.writing, u.closing = s.closing,
             u.ops = s.ops, u.posted = s.posted,
             u.closeStarted = s.closeStarted
      PROVE  Inv'
  <2>1. Ends(u)
    BY <1>2, <1>7 DEF Ends
  <2>2. Flow(ses[i], sent[i], wire[i]) => Flow(u, sent[i], wire[i])
    BY <1>1, <1>7, SameFlow
  <2> QED  BY <1>1, <1>3, <1>4, <1>7, <2>1, <2>2, QuietKeeps
<1>8. CASE Set(i, [s EXCEPT !.phase = "failed"], <<>>)
  <2>1. PICK u : u = [s EXCEPT !.phase = "failed"]
    OBVIOUS
  <2>2. u \in Records
    BY <1>2, <1>6, <2>1 DEF Records
  <2>3. /\ u.phase = "failed" /\ u.queue = s.queue /\ u.writing = s.writing
        /\ u.closing = s.closing /\ u.ops = s.ops /\ u.posted = s.posted
        /\ u.closeStarted = s.closeStarted
    BY <1>2, <2>1 DEF Records
  <2>4. u.phase # "open"
    BY <2>3
  <2> QED  BY <1>6, <1>7, <1>8, <2>1, <2>2, <2>3, <2>4
<1>9. CASE Set(i, [[s EXCEPT !.phase = "failed"] EXCEPT !.connectNotified = TRUE],
               ConnectNotice(s))
  <2>1. PICK u : u = [[s EXCEPT !.phase = "failed"] EXCEPT !.connectNotified = TRUE]
    OBVIOUS
  <2>2. u \in Records
    BY <1>2, <1>6, <2>1 DEF Records
  <2>3. /\ u.phase = "failed" /\ u.queue = s.queue /\ u.writing = s.writing
        /\ u.closing = s.closing /\ u.ops = s.ops /\ u.posted = s.posted
        /\ u.closeStarted = s.closeStarted
    BY <1>2, <2>1 DEF Records
  <2>4. u.phase # "open"
    BY <2>3
  <2> QED  BY <1>6, <1>7, <1>9, <2>1, <2>2, <2>3, <2>4
<1>10. CASE /\ s.phase # "handshaking"
            /\ Set(i, [s EXCEPT !.phase = After(s)], <<>>)
  <2>1. PICK u : u = [s EXCEPT !.phase = After(s)]
    OBVIOUS
  <2>2. u \in Records
    BY <1>2, <1>5, <2>1 DEF Records
  <2>3. /\ u.phase = After(s) /\ u.queue = s.queue /\ u.writing = s.writing
        /\ u.closing = s.closing /\ u.ops = s.ops /\ u.posted = s.posted
        /\ u.closeStarted = s.closeStarted
    BY <1>2, <2>1 DEF Records
  <2>4. u.phase # "open"
    BY <1>5, <1>10, <2>3
  <2> QED  BY <1>6, <1>7, <1>10, <2>1, <2>2, <2>3, <2>4
<1>11. CASE /\ ~s.closing
            /\ Set(i, [[s EXCEPT !.phase = After(s)]
                         EXCEPT !.connectNotified = TRUE, !.reading = TRUE],
                   ConnectNotice(s))
  <2>1. PICK u : u = [[s EXCEPT !.phase = After(s)]
                        EXCEPT !.connectNotified = TRUE, !.reading = TRUE]
    OBVIOUS
  <2>2. u \in Records
    BY <1>2, <1>5, <2>1 DEF Records
  <2>3. /\ u.queue = s.queue /\ u.writing = s.writing
        /\ u.closing = s.closing /\ u.ops = s.ops /\ u.posted = s.posted
        /\ u.closeStarted = s.closeStarted
    BY <1>2, <2>1 DEF Records
  <2> QED  BY <1>6, <1>7, <1>11, <2>1, <2>2, <2>3
<1> QED
  BY <1>1, <1>8, <1>9, <1>10, <1>11 DEF Establish, Abandons

(* Reading, and the end of the peer, do not touch the frames to write; what *)
(* ended is not open.                                                       *)
LEMMA ReadKeeps ==
  ASSUME Inv, NEW i \in Sessions, ReadDone(i) \/ ReadEnd(i) \/ PeerEnds(i)
  PROVE  Inv'
<1>1. PICK s : s = ses[i]
  OBVIOUS
<1>2. /\ s \in Records /\ Ends(s) /\ todo[i] \in Seq(Notices)
      /\ todo \in [Sessions -> Seq(Notices)]
  BY <1>1 DEF Inv, Types
<1>3. ASSUME NEW u \in Records, NEW n \in Seq(Notices), Set(i, u, n), s # Fresh,
             u.phase \in {s.phase, "ended"},
             u.queue = s.queue, u.writing = s.writing, u.closing = s.closing,
             u.ops = s.ops, u.posted = s.posted,
             u.closeStarted = s.closeStarted,
             UNCHANGED <<app, shared, wire, undefined>>
      PROVE  Inv'
  <2>1. Ends(u)
    BY <1>2, <1>3 DEF Ends
  <2>2. Flow(ses[i], sent[i], wire[i]) => Flow(u, sent[i], wire[i])
    BY <1>1, <1>3, SameFlow
  <2> QED  BY <1>1, <1>3, <2>1, <2>2, QuietKeeps
<1>4. CASE ReadDone(i)
  <2>1. /\ s.phase = "open" /\ Set(i, s, <<"frame">>)
        /\ UNCHANGED <<app, shared, wire, undefined>>
    BY <1>1, <1>4 DEF ReadDone
  <2>2. <<"frame">> \in Seq(Notices) /\ s # Fresh
    BY <2>1, NoticeFacts DEF Notices, Fresh
  <2> QED  BY <1>2, <1>3, <2>1, <2>2
<1>5. CASE ReadEnd(i)
  <2>1. PICK n \in ReadNotices(s.peer = "up") :
          /\ Set(i, [s EXCEPT !.reading = FALSE, !.phase = "ended"], n)
          /\ s.reading /\ UNCHANGED <<app, shared, wire, undefined>>
    BY <1>1, <1>5 DEF ReadEnd
  <2>2. s # Fresh
    BY <2>1 DEF Fresh
  <2>3. n \in {<<"close">>, <<"frame", "close">>, <<"error">>}
    BY <2>1 DEF ReadNotices
  <2>4. n \in Seq(Notices)
    BY <2>3, NoticeFacts DEF Notices
  <2>5. PICK u : u = [s EXCEPT !.reading = FALSE, !.phase = "ended"]
    OBVIOUS
  <2>6. u \in Records
    BY <1>2, <2>5 DEF Records, Phases
  <2>7. /\ u.phase = "ended" /\ u.queue = s.queue /\ u.writing = s.writing
        /\ u.closing = s.closing /\ u.ops = s.ops /\ u.posted = s.posted
        /\ u.closeStarted = s.closeStarted
    BY <1>2, <2>5 DEF Records
  <2> QED  BY <1>3, <2>1, <2>2, <2>4, <2>5, <2>6, <2>7
<1>6. CASE PeerEnds(i)
  <2>1. /\ ses' = [ses EXCEPT ![i] = [s EXCEPT !.peer = "gone"]]
        /\ s.phase = "open" /\ todo' = todo
        /\ UNCHANGED <<app, shared, wire, undefined>>
    BY <1>1, <1>6 DEF PeerEnds
  <2>2. s # Fresh
    BY <2>1 DEF Fresh
  <2>3. PICK u : u = [s EXCEPT !.peer = "gone"]
    OBVIOUS
  <2>4. u \in Records
    BY <1>2, <2>3 DEF Records
  <2>5. /\ u.phase = s.phase /\ u.queue = s.queue /\ u.writing = s.writing
        /\ u.closing = s.closing /\ u.ops = s.ops /\ u.posted = s.posted
        /\ u.closeStarted = s.closeStarted
    BY <1>2, <2>3 DEF Records
  <2>6. Set(i, u, todo[i])
    BY <1>2, <2>1, <2>3 DEF Set
  <2> QED  BY <1>2, <1>3, <2>1, <2>2, <2>4, <2>5, <2>6
<1> QED  BY <1>4, <1>5, <1>6

(* The first of several writes ends. *)
LEMMA OpsFacts ==
  ASSUME NEW s \in Records, s.ops # <<>>
  PROVE  /\ s # Fresh /\ Tail(s.ops) \in Seq(Posts \cup {Closing})
         /\ Head(s.ops) \in Posts \cup {Closing}
         /\ \A x : s.ops = <<x>> => Tail(s.ops) = <<>> /\ Head(s.ops) = x
<1>1. s # Fresh
  BY DEF Fresh
<1>2. s.ops \in Seq(Posts \cup {Closing})
  BY DEF Records
<1>3. /\ Tail(s.ops) \in Seq(Posts \cup {Closing})
      /\ Head(s.ops) \in Posts \cup {Closing}
  BY <1>2
<1>4. \A x : Tail(<<x>>) = <<>> /\ Head(<<x>>) = x
  OBVIOUS
<1> QED  BY <1>1, <1>3, <1>4

(* A failed write, and the end of async_close, keep the invariant. *)
LEMMA FailKeeps ==
  ASSUME Inv, NEW i \in Sessions, WriteError(i) \/ CloseDone(i)
  PROVE  Inv'
<1>1. PICK s, out, on : s = ses[i] /\ out = sent[i] /\ on = wire[i]
  OBVIOUS
<1>2. s \in Records /\ Ends(s) /\ s.queue \in Seq(Posts)
  BY <1>1 DEF Inv, Types, Records
<1>3. s.ops # <<>> /\ UNCHANGED <<app, shared, wire, undefined>>
  BY <1>1 DEF WriteError, CloseDone
<1>4. /\ s # Fresh /\ Tail(s.ops) \in Seq(Posts \cup {Closing})
      /\ \A x : s.ops = <<x>> => Tail(s.ops) = <<>> /\ Head(s.ops) = x
  BY <1>2, <1>3, OpsFacts
<1>5. <<"close">> \in Seq(Notices) /\ <<"error">> \in Seq(Notices)
  BY NoticeFacts DEF Notices
<1>6. CASE WriteError(i)
  <2>1. PICK u : u = [s EXCEPT !.ops = Tail(@), !.writing = FALSE,
                               !.queue = s.queue,
                               !.phase = IF @ = "open" THEN "ended" ELSE @]
    OBVIOUS
  <2>2. PICK n \in {<<"close">>, <<"error">>} : Set(i, u, n)
    BY <1>1, <1>6, <2>1 DEF WriteError, QueueAfterError
  <2>3. u \in Records
    BY <1>2, <1>4, <2>1 DEF Records, Phases
  <2>4. /\ u.phase # "open" /\ u.queue = s.queue /\ u.writing = FALSE
        /\ u.closing = s.closing /\ u.ops = Tail(s.ops) /\ u.posted = s.posted
        /\ u.closeStarted = s.closeStarted
    BY <1>2, <2>1 DEF Records
  <2>5. Ends(u)
    BY <1>2, <2>4 DEF Ends
  <2>6. ASSUME Flow(s, out, on)  PROVE Flow(u, out, on)
    <3>1. ~s.closing => s.writing /\ s.ops = <<s.queue[1]>>
      BY <1>3, <2>6 DEF Flow
    <3>2. ~s.closing => u.ops = <<>>
      BY <1>4, <2>4, <3>1
    <3> QED  BY <2>4, <2>6, <3>2 DEF Flow
  <2> QED  BY <1>1, <1>3, <1>4, <1>5, <2>2, <2>3, <2>5, <2>6, QuietKeeps
<1>7. CASE CloseDone(i)
  <2>1. PICK u : u = [s EXCEPT !.ops = Tail(@), !.phase = "ended"]
    OBVIOUS
  <2>2. Set(i, u, <<"close">>) /\ Head(s.ops) = Closing
    BY <1>1, <1>7, <2>1 DEF CloseDone
  <2>3. u \in Records
    BY <1>2, <1>4, <2>1 DEF Records, Phases
  <2>4. /\ u.phase # "open" /\ u.queue = s.queue /\ u.writing = s.writing
        /\ u.closing = s.closing /\ u.closeStarted = s.closeStarted
    BY <1>2, <2>1 DEF Records
  <2>5. Ends(u)
    BY <1>2, <2>4 DEF Ends
  <2>6. ASSUME Flow(s, out, on)  PROVE Flow(u, out, on)
    <3>1. ASSUME ~s.closing  PROVE FALSE
      <4>1. s.queue # <<>> /\ s.ops = <<s.queue[1]>>
        BY <1>3, <2>6, <3>1 DEF Flow
      <4>2. s.queue[1] \in Posts
        BY <1>2, <4>1
      <4> QED  BY <1>4, <2>2, <4>1, <4>2, Names
    <3> QED  BY <2>4, <2>6, <3>1 DEF Flow
  <2> QED  BY <1>1, <1>3, <1>4, <1>5, <2>2, <2>3, <2>5, <2>6, QuietKeeps
<1> QED  BY <1>6, <1>7


(* A write that ends leaves async_close among the writes that wait. *)
LEMMA ClosingStays ==
  ASSUME NEW o \in Seq(Posts \cup {Closing}), NEW x \in Posts \cup {Closing},
         o # <<>>, Head(o) # Closing, \E k \in DOMAIN o : o[k] = Closing
  PROVE  /\ \E k \in DOMAIN Tail(o) : Tail(o)[k] = Closing
         /\ \E k \in DOMAIN Append(Tail(o), x) : Append(Tail(o), x)[k] = Closing
<1>1. PICK k \in 1..Len(o) : o[k] = Closing
  OBVIOUS
<1>2. Len(o) \in Nat /\ Head(o) = o[1] /\ Tail(o) \in Seq(Posts \cup {Closing})
      /\ Len(Tail(o)) = Len(o) - 1 /\ \A m \in 1..(Len(o) - 1) : Tail(o)[m] = o[m + 1]
  OBVIOUS
<1>3. k # 1
  BY <1>1, <1>2
<1>4. k - 1 \in 1..(Len(o) - 1) /\ (k - 1) + 1 = k
  BY <1>1, <1>2, <1>3
<1>5. PICK r : r = Tail(o)
  OBVIOUS
<1>6. r \in Seq(Posts \cup {Closing}) /\ k - 1 \in 1..Len(r) /\ r[k - 1] = Closing
  BY <1>1, <1>2, <1>4, <1>5
<1>7. \E m \in DOMAIN r : r[m] = Closing
  BY <1>6
<1>8. k - 1 \in DOMAIN Append(r, x) /\ Append(r, x)[k - 1] = Closing
  BY <1>6
<1> QED  BY <1>5, <1>7, <1>8

(* A write that succeeds keeps the invariant: what it pops from the queue   *)
(* is what was written, unless the queue was dropped by a close().          *)
LEMMA WriteDoneKeeps ==
  ASSUME Inv, NEW i \in Sessions, WriteDone(i)
  PROVE  Inv'
<1>1. PICK s, out, on : s = ses[i] /\ out = sent[i] /\ on = wire[i]
  OBVIOUS
<1>2. /\ s \in Records /\ Ends(s) /\ s.queue \in Seq(Posts)
      /\ s.posted \in Seq(Posts) /\ s.ops \in Seq(Posts \cup {Closing})
      /\ out \in Seq(Frames) /\ on \in Seq(Posts) /\ undefined \in BOOLEAN
      /\ wire \in [Sessions -> Seq(Posts)]
  BY <1>1 DEF Inv, Types, Records
<1>3. PICK t : t = [s EXCEPT !.ops = Tail(@), !.writing = FALSE]
  OBVIOUS
<1>4. PICK q \in IF s.queue # <<>> THEN {Tail(s.queue)}
                 ELSE {<<>>, <<CloseCall>>} :
        Set(i, IF q = <<>> THEN [t EXCEPT !.queue = q]
               ELSE StartWrite([t EXCEPT !.queue = q]), <<>>)
  BY <1>1, <1>3 DEF WriteDone
<1>5. /\ s.ops # <<>> /\ Head(s.ops) # Closing
      /\ undefined' = (undefined \/ s.queue = <<>>)
      /\ wire' = [wire EXCEPT ![i] = Append(on, Head(s.ops))]
      /\ UNCHANGED <<app, shared>>
  BY <1>1 DEF WriteDone
<1>6. /\ s # Fresh /\ Tail(s.ops) \in Seq(Posts \cup {Closing})
      /\ Head(s.ops) \in Posts
      /\ \A x : s.ops = <<x>> => Tail(s.ops) = <<>> /\ Head(s.ops) = x
  BY <1>2, <1>5, OpsFacts
<1>7. q \in Seq(Posts) /\ (s.queue # <<>> => q = Tail(s.queue))
  <2>1. <<>> \in Seq(Posts) /\ <<CloseCall>> \in Seq(Posts)
    BY Names
  <2>2. s.queue # <<>> => Tail(s.queue) \in Seq(Posts)
    BY <1>2
  <2> QED  BY <1>4, <2>1, <2>2
<1>8. t \in Records
  BY <1>2, <1>3, <1>6 DEF Records
<1>9. PICK v : v = [t EXCEPT !.queue = q]
  OBVIOUS
<1>10. v \in Records
  BY <1>7, <1>8, <1>9 DEF Records
<1>11. /\ v.queue = q /\ v.writing = FALSE /\ v.closing = s.closing
       /\ v.ops = Tail(s.ops) /\ v.posted = s.posted /\ v.phase = s.phase
       /\ v.closeStarted = s.closeStarted
  <2>1. /\ t.writing = FALSE /\ t.closing = s.closing /\ t.ops = Tail(s.ops)
        /\ t.posted = s.posted /\ t.phase = s.phase
        /\ t.closeStarted = s.closeStarted
    BY <1>2, <1>3 DEF Records
  <2> QED  BY <1>8, <1>9, <2>1 DEF Records
<1>12. PICK u : u = IF q = <<>> THEN v ELSE StartWrite(v)
  OBVIOUS
<1>13. q # <<>> => Head(q) \in Posts /\ Head(q) = q[1]
  BY <1>7
<1>14. /\ u \in Records /\ u.queue = q /\ u.closing = s.closing
       /\ u.posted = s.posted /\ u.phase = s.phase
       /\ u.closeStarted = s.closeStarted
       /\ q = <<>> => u.writing = FALSE /\ u.ops = Tail(s.ops)
       /\ q # <<>> => u.writing = TRUE /\ u.ops = Append(Tail(s.ops), q[1])
  <2>1. CASE q = <<>>
    BY <1>10, <1>11, <1>12, <2>1
  <2>2. CASE q # <<>>
    <3>1. PICK w : w = [v EXCEPT !.writing = TRUE, !.ops = Append(@, Head(v.queue))]
      OBVIOUS
    <3>2. Append(v.ops, Head(v.queue)) \in Seq(Posts \cup {Closing})
      BY <1>6, <1>11, <1>13, <2>2
    <3>3. w \in Records
      BY <1>10, <3>1, <3>2 DEF Records
    <3>4. /\ w.queue = v.queue /\ w.closing = v.closing
          /\ w.posted = v.posted /\ w.phase = v.phase
          /\ w.closeStarted = v.closeStarted /\ w.writing = TRUE
          /\ w.ops = Append(v.ops, Head(v.queue))
      BY <1>10, <3>1 DEF Records
    <3>5. u = w
      BY <1>12, <2>2, <3>1 DEF StartWrite
    <3> QED  BY <1>11, <1>13, <2>2, <3>3, <3>4, <3>5
  <2> QED  BY <2>1, <2>2
<1>15. Set(i, u, <<>>)
  BY <1>4, <1>9, <1>12
<1>16. Ends(u)
  <2>1. ASSUME u.closeStarted, u.phase = "open"
        PROVE  \E k \in DOMAIN u.ops : u.ops[k] = Closing
    <3>1. \E k \in DOMAIN s.ops : s.ops[k] = Closing
      BY <1>2, <1>14, <2>1 DEF Ends
    <3>2. CASE q = <<>>
      <4>1. \E k \in DOMAIN Tail(s.ops) : Tail(s.ops)[k] = Closing
        BY <1>2, <1>5, <1>6, <3>1, ClosingStays
      <4> QED  BY <1>14, <3>2, <4>1
    <3>3. CASE q # <<>>
      <4>1. q[1] \in Posts \cup {Closing}
        BY <1>13, <3>3
      <4>2. \E k \in DOMAIN Append(Tail(s.ops), q[1]) :
              Append(Tail(s.ops), q[1])[k] = Closing
        BY <1>2, <1>5, <3>1, <4>1, ClosingStays
      <4> QED  BY <1>14, <3>3, <4>2
    <3> QED  BY <3>2, <3>3
  <2> QED  BY <1>2, <1>14, <2>1 DEF Ends
<1>17. ASSUME ~undefined'  PROVE Flow(u, out, wire'[i])
  <2>1. Flow(s, out, on) /\ s.queue # <<>>
    BY <1>1, <1>5, <1>17 DEF Inv
  <2>2. ~s.closing
    BY <2>1 DEF Flow
  <2>3. /\ Line(s.queue, s.posted, out, on) /\ s.ops = <<s.queue[1]>>
        /\ \A k \in 1..Len(on) : on[k] = out[k]
    BY <1>5, <2>1, <2>2 DEF Flow
  <2>4. /\ Tail(s.ops) = <<>> /\ Head(s.ops) = Head(s.queue)
        /\ q = Tail(s.queue)
    BY <1>2, <1>6, <1>7, <2>1, <2>3
  <2>5. wire'[i] = Append(on, Head(s.queue))
    BY <1>2, <1>5, <2>4
  <2>6. /\ Line(q, s.posted, out, wire'[i])
        /\ Len(wire'[i]) <= Len(out)
        /\ \A k \in 1..Len(wire'[i]) : wire'[i][k] = out[k]
    <3>1. /\ Line(Tail(s.queue), s.posted, out, Append(on, Head(s.queue)))
          /\ Len(Append(on, Head(s.queue))) <= Len(out)
          /\ \A k \in 1..Len(Append(on, Head(s.queue))) :
               Append(on, Head(s.queue))[k] = out[k]
      BY <1>2, <2>1, <2>3, LineWrites
    <3> QED  BY <2>4, <2>5, <3>1
  <2>7. q # <<>> => u.ops = <<q[1]>>
    <3>1. Append(<<>>, q[1]) = <<q[1]>>
      OBVIOUS
    <3> QED  BY <1>14, <2>4, <3>1
  <2> QED  BY <1>14, <2>2, <2>4, <2>6, <2>7 DEF Flow
<1>18. Append(on, Head(s.ops)) \in Seq(Posts)
  BY <1>2, <1>6
<1>19. /\ wire' \in [Sessions -> Seq(Posts)]
       /\ \A j \in Sessions \ {i} : wire'[j] = wire[j]
  BY <1>2, <1>5, <1>18
<1>20. undefined' \in BOOLEAN /\ (undefined => undefined')
  BY <1>5
<1>21. ses' = [ses EXCEPT ![i] = u] /\ todo' = [todo EXCEPT ![i] = <<>>]
  BY <1>15 DEF Set
<1>22. i <= calls.connects
  BY <1>1, <1>6, MadeFacts
<1>23. <<>> \in Seq(Notices)
  BY NoticeFacts
<1> QED
  BY <1>1, <1>5, <1>14, <1>16, <1>17, <1>19, <1>20, <1>21, <1>22, <1>23,
     SessionKeeps

(* The check of a notification: at most one notify_close passes it, because *)
(* the check and the mark are made together under the mutex.                *)
LEMMA CheckKeeps ==
  ASSUME Inv, NEW i \in Sessions, Check(i)
  PROVE  Inv'
<1>1. /\ UNCHANGED <<app, calling, answered, errors, late, ses, wire, undefined>>
      /\ Types
  BY DEF Check, Inv
<1>2. UNCHANGED <<alive, current, calls, sent, calling, answered, errors, late,
                  ses, wire, undefined>>
  BY <1>1 DEF app
<1>3. PICK n, called : n = Head(todo[i]) /\ called = Notifies(n)
  OBVIOUS
<1>4. /\ todo[i] # <<>> /\ todo' = [todo EXCEPT ![i] = Tail(@)]
      /\ checked' = IF called THEN [checked EXCEPT ![i] = n] ELSE checked
      /\ closeNotified' = (closeNotified \/ (n = "close" /\ called))
      /\ closes' = IF n = "close" /\ called THEN closes + 1 ELSE closes
  BY <1>3 DEF Check
<1>5. n \in Notices /\ Tail(todo[i]) \in Seq(Notices)
  <2>1. todo[i] \in Seq(Notices)
    BY <1>1 DEF Types
  <2> QED  BY <1>3, <1>4, <2>1
<1>6. Types'
  <2>1. todo' \in [Sessions -> Seq(Notices)]
    BY <1>1, <1>4, <1>5 DEF Types
  <2>2. checked' \in [Sessions -> Notices \cup {None}]
    BY <1>1, <1>4, <1>5 DEF Types
  <2>3. closeNotified' \in BOOLEAN
    BY <1>4
  <2>4. closes' \in Nat
    BY <1>1, <1>4 DEF Types
  <2> QED  BY <1>1, <1>2, <2>1, <2>2, <2>3, <2>4 DEF Types
<1>7. Notified'
  <2>1. CASE n = "close" /\ called
    <3>1. ~closeNotified
      BY <1>3, <2>1 DEF Notifies
    <3>2. closes = 0
      BY <3>1 DEF Inv, Notified
    <3>3. closes' = closes + 1 /\ closeNotified'
      BY <1>4, <2>1
    <3>4. closes' <= 1
      BY <3>2, <3>3
    <3> QED  BY <3>3, <3>4 DEF Notified
  <2>2. CASE ~(n = "close" /\ called)
    BY <1>1, <1>4, <2>2 DEF Inv, Types, Notified
  <2> QED  BY <2>1, <2>2
<1>8. \A j \in Sessions : Unmade(j)' <=> Unmade(j)
  BY <1>2 DEF Unmade
<1> QED  BY <1>2, <1>6, <1>7, <1>8 DEF Inv

(* The call itself only counts. *)
LEMMA EnterKeeps ==
  ASSUME Inv, NEW i \in Sessions, Enter(i)
  PROVE  Inv'
<1>1. /\ UNCHANGED <<alive, current, calls, sent, closeNotified, closes, ses>>
      /\ UNCHANGED <<todo, wire, undefined>>
  BY DEF Enter, app
<1>2. PICK n : n = checked[i]
  OBVIOUS
<1>3. /\ n # None /\ n \in Notices \cup {None}
      /\ checked' = [checked EXCEPT ![i] = None]
      /\ calling' = [calling EXCEPT ![i] = n]
      /\ answered' = IF n = "connect" THEN [answered EXCEPT ![i] = @ + 1]
                     ELSE answered
      /\ errors' = IF n = "error" THEN errors \cup {i} ELSE errors
      /\ late' = IF alive THEN late ELSE [late EXCEPT ![i] = @ + 1]
  BY <1>2 DEF Enter, Inv, Types
<1>4. /\ checked' \in [Sessions -> Notices \cup {None}]
      /\ calling' \in [Sessions -> Notices \cup {None}]
  BY <1>3 DEF Inv, Types
<1>5. answered' \in [Sessions -> Nat] /\ late' \in [Sessions -> Nat]
  BY <1>3 DEF Inv, Types
<1>6. errors' \in SUBSET Sessions
  BY <1>3 DEF Inv, Types
<1>7. Types'
  BY <1>1, <1>4, <1>5, <1>6 DEF Inv, Types
<1> QED  BY <1>1, <1>7 DEF Inv, Notified, Unmade

(* A callback that returns changes nothing else. *)
LEMMA ReturnKeeps ==
  ASSUME Inv, NEW i \in Sessions, Return(i)
  PROVE  Inv'
<1>1. /\ UNCHANGED <<alive, current, calls, sent, closeNotified, answered, closes>>
      /\ UNCHANGED <<checked, late, errors, ses, todo, wire, undefined>>
      /\ calling' = [calling EXCEPT ![i] = None]
  BY DEF Return, app
<1>2. Types'
  BY <1>1 DEF Inv, Types
<1> QED  BY <1>1, <1>2 DEF Inv, Notified, Unmade


-----------------------------------------------------------------------------
(* Every step keeps the invariant. *)
LEMMA StepInv ==
  Inv /\ [Next]_vars => Inv'
<1> SUFFICES ASSUME Inv, [Next]_vars PROVE Inv'
  OBVIOUS
<1>1. ASSUME NEW secure \in BOOLEAN, Connect(secure)  PROVE Inv'
  BY <1>1, ConnectKeeps
<1>2. CASE Send \/ Close \/ Destroy
  BY <1>2, PostKeeps
<1>3. ASSUME NEW i \in Sessions, Strand(i)  PROVE Inv'
  BY <1>3, RunPostedKeeps, EstablishKeeps, ReadKeeps, WriteDoneKeeps, FailKeeps,
     CheckKeeps, EnterKeeps, ReturnKeeps DEF Strand
<1>4. ASSUME NEW i \in Sessions, ReadDone(i) \/ PeerEnds(i)  PROVE Inv'
  BY <1>4, ReadKeeps
<1>5. CASE UNCHANGED vars
  BY <1>5 DEF vars, app, shared, Inv, Types, Notified, Unmade
<1> QED  BY <1>1, <1>2, <1>3, <1>4, <1>5 DEF Next

(* The invariant implies what the run checks. *)
LEMMA InvSound ==
  Inv => ConnectionSound
<1> SUFFICES ASSUME Inv PROVE ConnectionSound
  OBVIOUS
<1>1. TypeOK
  BY DEF Inv, Types, TypeOK, Records
<1>2. WrittenInOrder
  BY DEF Inv, WrittenInOrder, Flow
<1>3. ASSUME NEW i \in Sessions, ses[i].closing, ses[i].phase = "open"
      PROVE  ses[i].ops # <<>>
  <2>1. \E k \in DOMAIN ses[i].ops : ses[i].ops[k] = Closing
    BY <1>3 DEF Inv, Ends
  <2>2. DOMAIN <<>> = {}
    OBVIOUS
  <2> QED  BY <2>1, <2>2
<1>4. ClosedIsClosing
  BY <1>3 DEF ClosedIsClosing
<1>5. OnCloseOnce
  BY DEF Inv, Notified, OnCloseOnce
<1> QED  BY <1>1, <1>2, <1>4, <1>5 DEF ConnectionSound

(* Inv holds in every state of the client. *)
THEOREM Invariance == Spec => []Inv
BY InitInv, StepInv, PTL DEF Spec

(* The frames of every connection are written in the order they were sent   *)
(* and none is skipped while no empty queue was popped, no close() leaves a *)
(* stream open without closing it, and one connect leads to at most one     *)
(* on_close, for any number of connects, sends and closes.                  *)
THEOREM ConnectionCorrect == Spec => []ConnectionSound
<1>1. Inv => ConnectionSound
  BY InvSound
<1> QED  BY <1>1, Invariance, PTL

-----------------------------------------------------------------------------
(* No callback is late before the destructor, and a connection that still   *)
(* has a checked callback to call has not called a late one.                *)
Lateness ==
  \A i \in Sessions :
    /\ late[i] <= 1
    /\ alive \/ checked[i] # None => late[i] = 0

(* Every step keeps it: a check passes only while the client is alive, and  *)
(* only a check leaves a callback to call.                                  *)
LEMMA LatenessKeeps ==
  Inv /\ Lateness /\ [Next]_vars => Lateness'
<1> SUFFICES ASSUME Inv, Lateness, [Next]_vars PROVE Lateness'
  OBVIOUS
<1>1. /\ checked \in [Sessions -> Notices \cup {None}]
      /\ late \in [Sessions -> Nat]
  BY DEF Inv, Types
<1>2. ASSUME NEW i \in Sessions, Check(i)  PROVE Lateness'
  <2>1. UNCHANGED <<alive, late>>
    BY <1>2 DEF Check, app
  <2>2. CASE ~alive
    <3>1. checked' = checked
      BY <1>2, <2>2 DEF Check, Notifies
    <3> QED  BY <2>1, <3>1 DEF Lateness
  <2>3. CASE alive
    BY <2>1, <2>3 DEF Lateness
  <2> QED  BY <2>2, <2>3
<1>3. ASSUME NEW i \in Sessions, Enter(i)  PROVE Lateness'
  <2>1. /\ alive' = alive /\ checked[i] # None
        /\ checked' = [checked EXCEPT ![i] = None]
        /\ late' = IF alive THEN late ELSE [late EXCEPT ![i] = @ + 1]
    BY <1>3 DEF Enter, app
  <2>2. late[i] = 0
    BY <2>1 DEF Lateness
  <2>3. ASSUME NEW j \in Sessions
        PROVE  late'[j] <= 1 /\ (alive' \/ checked'[j] # None => late'[j] = 0)
    <3>1. CASE j # i
      <4>1. late'[j] = late[j] /\ checked'[j] = checked[j]
        BY <1>1, <2>1, <3>1
      <4> QED  BY <2>1, <4>1 DEF Lateness
    <3>2. CASE j = i
      <4>1. checked'[j] = None /\ (alive => late'[j] = 0)
        BY <1>1, <2>1, <2>2, <3>2
      <4>2. ~alive => late'[j] = 1
        BY <1>1, <2>1, <2>2, <3>2
      <4>3. late'[j] <= 1
        BY <4>1, <4>2
      <4> QED  BY <2>1, <4>1, <4>3
    <3> QED  BY <3>1, <3>2
  <2> QED  BY <2>3 DEF Lateness
<1>4. CASE Destroy
  <2>1. alive' = FALSE /\ UNCHANGED <<checked, late>>
    BY <1>4 DEF Destroy, shared
  <2> QED  BY <2>1 DEF Lateness
<1>5. CASE UNCHANGED <<alive, checked, late>>
  BY <1>5 DEF Lateness
<1>6. \/ UNCHANGED <<alive, checked, late>> \/ Destroy
      \/ \E i \in Sessions : Check(i) \/ Enter(i)
  BY DEF Next, Strand, Connect, Send, Close, RunPosted, Establish, ReadEnd,
         ReadDone, WriteDone, WriteError, CloseDone, Return, PeerEnds, app,
         shared, vars
<1> QED  BY <1>2, <1>3, <1>4, <1>5, <1>6

(* After ~WebsocketClient a connection enters at most one more callback,    *)
(* the one whose check had passed when the destructor took the mutex,       *)
(* however many frames, errors and closes its strand still meets.           *)
THEOREM LateCorrect == Spec => []OneLateCallback
<1>1. Init => Lateness
  BY DEF Init, Lateness
<1>2. Lateness => OneLateCallback
  BY DEF Lateness, OneLateCallback
<1> QED  BY <1>1, <1>2, LatenessKeeps, Invariance, PTL DEF Spec
==============================================================================
