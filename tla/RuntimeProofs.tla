---------------------------- MODULE RuntimeProofs ----------------------------
(***************************************************************************)
(* Proofs about the runtime: that ServerSound, ChainSound and ResolveSound  *)
(* hold of any number of servers, workers, jobs, component types and        *)
(* threads.  A behaviour of MCSpec is about one of the three components, so *)
(* that a step of it is a step of that one and changes nothing of the       *)
(* others; each component has an inductive invariant of its own.            *)
(***************************************************************************)
EXTENDS MCRuntime, Sequences, FiniteSetTheorems, TLAPS

-----------------------------------------------------------------------------
(* The server.  The accept operation of a server is one token: it is        *)
(* pending, or its handler is ready, or a thread holds it.                  *)
Loop(s) == {Accepted(s), Failed(s), On("accept_again", s)}
Results(s) == {Accepted(s), Failed(s)}

ServerTypes ==
  /\ place \in [Threads -> {"out", "run", "join", "end", "threw"}]
  /\ exec \in [Threads -> Handlers \cup {Idle}]
  /\ ready \in SUBSET Handlers /\ waiting \in SUBSET Servers
  /\ joining \in [Servers -> Workers \cup {Idle}]
  /\ joined \in SUBSET Workers

(* A worker that ended is in no handler; only such workers are joined, and  *)
(* run() returns when all are.                                              *)
Joined ==
  /\ \A w \in Workers : place[w] \in {"run", "end"}
  /\ \A w \in Workers : place[w] = "end" => exec[w] = Idle
  /\ \A w \in joined : place[w] = "end"
  /\ \A s \in Servers : place[s] = "end" => joined = Workers

Unused(s) ==
  /\ s \notin accepting
  /\ ready \cap Results(s) = {}
  /\ \A th \in Threads : exec[th] \notin Loop(s)

Token(s) ==
  /\ place[s] = "out" => Unused(s)
  /\ \A th, u \in Threads : exec[th] \in Loop(s) /\ exec[u] \in Loop(s) => th = u
  /\ ~(Accepted(s) \in ready /\ Failed(s) \in ready)
  /\ On("accept_again", s) \notin ready
  /\ ready \cap Results(s) # {} => \A th \in Threads : exec[th] \notin Loop(s)
  /\ s \in accepting => /\ ready \cap Results(s) = {}
                        /\ \A th \in Threads : exec[th] \notin Loop(s)

(* What Accepting says of one server. *)
GoesOn(s) ==
  place[s] = "run" /\ s \in open =>
    \/ s \in accepting \/ ready \cap Results(s) # {}
    \/ \E th \in Threads : exec[th] \in Loop(s)

Loops == \A s \in Servers : Token(s) /\ GoesOn(s)

ServerInv == ServerTypes /\ Joined /\ Loops

-----------------------------------------------------------------------------
(* Init satisfies the invariant of the server. *)
LEMMA ServerInit ==
  Init => ServerInv
<1> SUFFICES ASSUME Init PROVE ServerInv
  OBVIOUS
<1>0. \A s \in Servers : Idle \notin Loop(s)
  BY ServerAssumption DEF Loop, Accepted, Failed, On, Handlers
<1>1. ServerTypes
  BY DEF Init, ServerTypes, Threads
<1>2. Joined
  BY ServerAssumption DEF Init, Joined, Threads
<1>3. Loops
  BY <1>0, ServerAssumption DEF Init, Loops, Token, GoesOn, Unused, Threads,
     Results
<1> QED  BY <1>1, <1>2, <1>3 DEF ServerInv

(* Every step of the server preserves the types of its state. *)
LEMMA TypesKept ==
  ASSUME ServerTypes, Next
  PROVE  ServerTypes'
<1>0. \A s \in Servers : \A k \in {"accepted", "failed", "accept_again",
           "signal", "close", "stop_pool"} : On(k, s) \in Handlers
  BY DEF Handlers, On
<1>a. \A c \in Conns : On("session", c) \in Handlers
  BY DEF Handlers, On
<1> USE DEF ServerTypes
<1>1. ASSUME NEW s \in Servers, RunServer(s)  PROVE ServerTypes'
  BY <1>0, <1>1 DEF RunServer, DoAccept, Failed
<1>2. ASSUME NEW s \in Servers, ClientConnects(s) \/ AcceptFails(s)
      PROVE ServerTypes'
  BY <1>0, <1>2 DEF ClientConnects, AcceptFails, Failed, Accepted
<1>3. CASE Signal
  BY <1>0, <1>3 DEF Signal
<1>4. ASSUME NEW s \in Servers, CallStop(s)  PROVE ServerTypes'
  BY <1>0, <1>4 DEF CallStop, Threads
<1>5. ASSUME NEW s \in Servers, Return(s)  PROVE ServerTypes'
  BY <1>5 DEF Return, BeginJoin, EndJoin, RunReturns, Joins, Threads
<1>6. ASSUME NEW th \in Threads, Take(th) \/ LeaveRun(th)  PROVE ServerTypes'
  BY <1>6 DEF Take, LeaveRun
<1>7. ASSUME NEW th \in Threads, NEW s \in Servers, OnAccept(th, s)
      PROVE ServerTypes'
  BY <1>0, <1>a, <1>7 DEF OnAccept
<1>8. ASSUME NEW th \in Threads, NEW s \in Servers, AcceptAgain(th, s)
      PROVE ServerTypes'
  BY <1>0, <1>8 DEF AcceptAgain, DoAccept, Failed
<1>9. ASSUME NEW th \in Threads, NEW s \in Servers,
             HandleSignal(th, s) \/ StopPool(th, s)
      PROVE ServerTypes'
  BY <1>0, <1>9 DEF HandleSignal, StopPool
<1>10. ASSUME NEW th \in Threads, NEW s \in Servers, CloseAcceptor(th, s)
      PROVE ServerTypes'
  BY <1>0, <1>10 DEF CloseAcceptor, AfterClose, Failed
<1>11. ASSUME NEW th \in Threads, NEW c \in Conns, SessionStep(th, c)
      PROVE ServerTypes'
  BY <1>a, <1>11 DEF SessionStep
<1> QED
  BY <1>1, <1>2, <1>3, <1>4, <1>5, <1>6, <1>7, <1>8, <1>9, <1>10, <1>11
     DEF Next, Handle


(* Every step preserves what is known of ended and joined workers. *)
LEMMA JoinedKept ==
  ASSUME ServerTypes, Joined, Next
  PROVE  Joined'
<1>0. Servers \cap Workers = {} /\ App \notin Workers /\ Idle \notin Workers
  BY ServerAssumption
<1> USE DEF ServerTypes, Joined, Threads
<1>1. ASSUME NEW s \in Servers, RunServer(s)  PROVE Joined'
  BY <1>0, <1>1 DEF RunServer, DoAccept
<1>2. ASSUME NEW s \in Servers, ClientConnects(s) \/ AcceptFails(s)
      PROVE Joined'
  BY <1>2 DEF ClientConnects, AcceptFails
<1>3. CASE Signal
  BY <1>3 DEF Signal
<1>4. ASSUME NEW s \in Servers, CallStop(s)  PROVE Joined'
  BY <1>0, <1>4 DEF CallStop
<1>5. ASSUME NEW s \in Servers, Return(s)  PROVE Joined'
  BY <1>0, <1>5 DEF Return, BeginJoin, EndJoin, RunReturns, Joins
<1>6. ASSUME NEW th \in Threads, Take(th)  PROVE Joined'
  BY <1>0, <1>6 DEF Take
<1>7. ASSUME NEW th \in Threads, LeaveRun(th)  PROVE Joined'
  BY <1>0, <1>7 DEF LeaveRun
<1>8. ASSUME NEW th \in Threads, Handle(th)  PROVE Joined'
  <2>0. \A k \in {"accepted", "failed", "accept_again", "session", "signal",
                  "close", "stop_pool"} :
          \A x \in Servers \cup Conns : On(k, x) # Idle
    BY ServerAssumption DEF On, Handlers
  <2>1. exec[th] # Idle
    BY <1>8, <2>0
       DEF Handle, OnAccept, AcceptAgain, HandleSignal, CloseAcceptor,
           StopPool, SessionStep, Accepted, Failed
  <2>2. UNCHANGED <<place, joined>>
    BY <1>8 DEF Handle, OnAccept, AcceptAgain, HandleSignal, CloseAcceptor,
                StopPool, SessionStep
  <2>3. \A u \in Threads \ {th} : exec'[u] = exec[u]
    BY <1>8 DEF Handle, OnAccept, AcceptAgain, HandleSignal, CloseAcceptor,
                StopPool, SessionStep
  <2> QED  BY <2>1, <2>2, <2>3
<1> QED
  BY <1>1, <1>2, <1>3, <1>4, <1>5, <1>6, <1>7, <1>8 DEF Next

(* The handlers that are no part of the accept loop of a server. *)
LEMMA Others ==
  ASSUME NEW s \in Servers
  PROVE  /\ Idle \notin Loop(s)
         /\ \A k \in {"session", "signal", "close", "stop_pool"} :
              \A x : On(k, x) \notin Loop(s)
         /\ \A r \in Servers \ {s} : Loop(r) \cap Loop(s) = {}
         /\ Results(s) \subseteq Loop(s)
         /\ Accepted(s) # Failed(s)
         /\ \A k \in {"accept_again", "session", "signal", "close", "stop_pool"} :
              \A x : On(k, x) # Accepted(s) /\ On(k, x) # Failed(s)
         /\ \A x : On("session", x) # On("accept_again", s)
BY ServerAssumption DEF Loop, Results, Accepted, Failed, On, Handlers

(* What a step does not change of the accept loop of a server. *)
Untouched(s) ==
  /\ place'[s] = "out" => place[s] = "out"
  /\ place'[s] = "run" => place[s] = "run"
  /\ s \in open' => s \in open
  /\ s \in accepting' <=> s \in accepting
  /\ \A h \in Loop(s) : h \in ready' <=> h \in ready
  /\ \A th \in Threads : exec'[th] \in Loop(s) <=> exec[th] \in Loop(s)

(* A step that leaves the loop of a server alone keeps its token. *)
LEMMA UntouchedKeeps ==
  ASSUME NEW s \in Servers, Token(s), GoesOn(s), Untouched(s)
  PROVE  Token(s)' /\ GoesOn(s)'
<1>0. Loop(s)' = Loop(s) /\ Results(s)' = Results(s)
      /\ Accepted(s)' = Accepted(s) /\ Failed(s)' = Failed(s)
      /\ On("accept_again", s)' = On("accept_again", s)
  BY DEF Loop, Results, Accepted, Failed, On
<1>1. /\ Accepted(s) \in Loop(s) /\ Failed(s) \in Loop(s)
      /\ On("accept_again", s) \in Loop(s) /\ Results(s) \subseteq Loop(s)
  BY DEF Loop, Results
<1>2. Unused(s) => Unused(s)'
  BY <1>0, <1>1 DEF Untouched, Unused
<1>3. Token(s)'
  BY <1>0, <1>1, <1>2 DEF Token, Untouched
<1>4. GoesOn(s)'
  BY <1>0, <1>1 DEF GoesOn, Untouched
<1> QED  BY <1>3, <1>4

(* The token of a server goes from pending to ready when a client connects  *)
(* or accept fails, and becomes pending when run() begins.                  *)
LEMMA LoopBegins ==
  ASSUME ServerTypes, NEW s \in Servers, Token(s), GoesOn(s),
         RunServer(s) \/ ClientConnects(s) \/ AcceptFails(s)
  PROVE  Token(s)' /\ GoesOn(s)'
<1>0. s \in Threads /\ place \in [Threads -> {"out", "run", "join", "end", "threw"}]
  BY DEF Threads, ServerTypes
<1>1. /\ Accepted(s) # Failed(s) /\ On("accept_again", s) # Accepted(s)
      /\ On("accept_again", s) # Failed(s)
  BY Others
<1>2. CASE RunServer(s)
  BY <1>0, <1>1, <1>2 DEF RunServer, DoAccept, Token, GoesOn, Unused, Results
<1>3. CASE ClientConnects(s)
  BY <1>0, <1>1, <1>3 DEF ClientConnects, Token, GoesOn, Unused, Results
<1>4. CASE AcceptFails(s)
  BY <1>0, <1>1, <1>4 DEF AcceptFails, Token, GoesOn, Unused, Results
<1> QED  BY <1>2, <1>3, <1>4

(* ... from ready to a thread, which accepts again or drops it because the  *)
(* acceptor is closed.                                                      *)
LEMMA LoopGoesOn ==
  ASSUME ServerTypes, NEW s \in Servers, Token(s), GoesOn(s), NEW th \in Threads,
         OnAccept(th, s) \/ AcceptAgain(th, s) \/ CloseAcceptor(th, s)
  PROVE  Token(s)' /\ GoesOn(s)'
<1>0. s \in Threads /\ exec \in [Threads -> Handlers \cup {Idle}]
  BY DEF Threads, ServerTypes
<1>1. Accepted(s) # Failed(s) /\ Idle \notin Loop(s)
      /\ \A c : /\ On("session", c) # Accepted(s)
                /\ On("session", c) # Failed(s)
                /\ On("session", c) # On("accept_again", s)
      /\ On("accept_again", s) # Accepted(s)
      /\ On("accept_again", s) # Failed(s)
      /\ On("close", s) \notin Loop(s) /\ On("stop_pool", s) \notin Loop(s)
      /\ Accepted(s) \in Loop(s) /\ Failed(s) \in Loop(s)
      /\ On("accept_again", s) \in Loop(s)
  BY Others DEF Loop
<1>2. CASE OnAccept(th, s)
  BY <1>0, <1>1, <1>2 DEF OnAccept, AcceptsAgain, Token, GoesOn, Unused, Results
<1>3. CASE AcceptAgain(th, s)
  BY <1>0, <1>1, <1>3 DEF AcceptAgain, DoAccept, Token, GoesOn, Unused, Results
<1>4. CASE CloseAcceptor(th, s)
  BY <1>0, <1>1, <1>4
     DEF CloseAcceptor, AcceptingClosed, AfterClose, Token, GoesOn, Unused,
     Results
<1> QED  BY <1>2, <1>3, <1>4


(* Every step keeps the loops of all servers. *)
LEMMA LoopsKept ==
  ASSUME ServerTypes, Loops, Next
  PROVE  Loops'
<1> SUFFICES ASSUME NEW r \in Servers
             PROVE  Token(r)' /\ GoesOn(r)'
  BY DEF Loops
<1>0. Token(r) /\ GoesOn(r) /\ r \in Threads
  BY DEF Loops, Threads
<1> SUFFICES ASSUME ~Untouched(r)
             PROVE  Token(r)' /\ GoesOn(r)'
  BY <1>0, UntouchedKeeps
<1>t. /\ place \in [Threads -> {"out", "run", "join", "end", "threw"}]
      /\ exec \in [Threads -> Handlers \cup {Idle}]
  BY DEF ServerTypes
<1>o. /\ Idle \notin Loop(r)
      /\ \A k \in {"session", "signal", "close", "stop_pool"} :
           \A x : On(k, x) \notin Loop(r) /\ On(k, x) \notin Results(r)
  BY Others
<1>p. ASSUME NEW s \in Servers, s # r
      PROVE  /\ Accepted(s) \notin Loop(r) /\ Failed(s) \notin Loop(r)
             /\ On("accept_again", s) \notin Loop(r)
             /\ Accepted(s) \notin Results(r) /\ Failed(s) \notin Results(r)
  BY <1>p DEF Loop, Results, Accepted, Failed, On
<1>1. ASSUME NEW s \in Servers, RunServer(s) \/ ClientConnects(s) \/ AcceptFails(s)
      PROVE  s = r
  <2> SUFFICES ASSUME s # r  PROVE FALSE
    OBVIOUS
  <2>0. Accepted(s) \notin Loop(r) /\ Failed(s) \notin Loop(r)
    BY <1>p
  <2>1. CASE RunServer(s)
    BY <2>0, <2>1, <1>0, <1>t DEF RunServer, DoAccept, Untouched
  <2>2. CASE ClientConnects(s) \/ AcceptFails(s)
    BY <2>0, <2>2, <1>t DEF ClientConnects, AcceptFails, Untouched
  <2> QED  BY <1>1, <2>1, <2>2
<1>2. ASSUME NEW s \in Servers, CallStop(s) \/ Return(s)  PROVE FALSE
  <2>1. CASE CallStop(s)
    <3>1. App \in Threads /\ On("close", s) \notin Loop(r)
      BY <1>o DEF Threads
    <3> QED  BY <2>1, <3>1, <1>t, <1>o DEF CallStop, Untouched
  <2>2. CASE Return(s)
    BY <2>2, <1>0, <1>t DEF Return, BeginJoin, EndJoin, RunReturns, Untouched
  <2> QED  BY <1>2, <2>1, <2>2
<1>3. ~Signal
  BY <1>o DEF Signal, Untouched
<1>4. ASSUME NEW th \in Threads, LeaveRun(th)  PROVE FALSE
  BY <1>4, <1>t DEF LeaveRun, Untouched
<1>5. ASSUME NEW th \in Threads, Take(th)  PROVE Token(r)' /\ GoesOn(r)'
  <2>1. PICK h \in ready : /\ exec' = [exec EXCEPT ![th] = h]
                           /\ ready' = ready \ {h}
    BY <1>5 DEF Take
  <2>2. exec[th] = Idle /\ UNCHANGED <<place, open, accepting>>
    BY <1>5 DEF Take
  <2>3. h \in Loop(r)
    BY <2>1, <2>2, <1>t, <1>o, Others DEF Untouched
  <2>4. h \in Loop(r) => h \in Results(r) \/ h = On("accept_again", r)
    BY DEF Loop, Results
  <2>5. Accepted(r) # Failed(r)
    BY Others
  <2> QED
    BY <2>1, <2>2, <2>3, <2>4, <2>5, <1>0, <1>t, <1>o
       DEF Token, GoesOn, Unused, Results
<1>6. ASSUME NEW th \in Threads, NEW s \in Servers,
             OnAccept(th, s) \/ AcceptAgain(th, s) \/ CloseAcceptor(th, s)
      PROVE  s = r
  <2>1. CASE OnAccept(th, s)
    BY <2>1, <1>t, <1>p, <1>o DEF OnAccept, Untouched
  <2>2. CASE AcceptAgain(th, s)
    BY <2>2, <1>t, <1>p, <1>o DEF AcceptAgain, DoAccept, Untouched
  <2>3. CASE CloseAcceptor(th, s)
    BY <2>3, <1>t, <1>p, <1>o
       DEF CloseAcceptor, AcceptingClosed, AfterClose, Untouched
  <2> QED  BY <1>6, <2>1, <2>2, <2>3
<1>7. ASSUME NEW th \in Threads, NEW s \in Servers,
             HandleSignal(th, s) \/ StopPool(th, s)
      PROVE  FALSE
  BY <1>7, <1>t, <1>o DEF HandleSignal, StopPool, Untouched
<1>8. ASSUME NEW th \in Threads, NEW c \in Conns, SessionStep(th, c)
      PROVE  FALSE
  BY <1>8, <1>t, <1>o DEF SessionStep, Untouched
<1> QED
  BY <1>0, <1>1, <1>2, <1>3, <1>4, <1>5, <1>6, <1>7, <1>8, LoopBegins,
     LoopGoesOn
     DEF Next, Handle


(* The invariant of the server is inductive. *)
LEMMA ServerStep ==
  ASSUME ServerInv, [Next]_vars
  PROVE  ServerInv'
<1>1. CASE Next
  BY <1>1, TypesKept, JoinedKept, LoopsKept DEF ServerInv
<1>2. CASE UNCHANGED vars
  <2> USE <1>2 DEF vars
  <2>1. ServerTypes' /\ Joined'
    BY DEF ServerInv, ServerTypes, Joined
  <2>2. \A s \in Servers : Untouched(s)
    BY DEF Untouched
  <2>3. Loops'
    BY <2>2, UntouchedKeeps DEF ServerInv, Loops
  <2> QED  BY <2>1, <2>3 DEF ServerInv
<1> QED  BY <1>1, <1>2

(* A set without two elements has at most one. *)
LEMMA AtMostOne ==
  ASSUME NEW S, \A x, y \in S : x = y
  PROVE  /\ Cardinality(S) \in Nat /\ Cardinality(S) <= 1
         /\ S = {} <=> Cardinality(S) = 0
<1>1. CASE S = {}
  BY <1>1, FS_EmptySet
<1>2. CASE S # {}
  <2>1. PICK x : S = {x}
    BY <1>2
  <2>2. Cardinality(S) = 1
    BY <2>1, FS_Singleton
  <2> QED  BY <1>2, <2>2
<1> QED  BY <1>1, <1>2

(* What the invariant says of the server: one accept at a time. *)
LEMMA ServerInvSound ==
  ServerInv => ServerSound
<1> SUFFICES ASSUME ServerInv PROVE ServerSound
  OBVIOUS
<1>1. NoHandlerAfterRun
  BY DEF ServerInv, Joined, NoHandlerAfterRun
<1>2. Accepting
  BY DEF ServerInv, Loops, GoesOn, Accepting, Loop, Results
<1>3. ASSUME NEW s \in Servers
      PROVE  Cardinality({th \in Threads : exec[th] \in Loop(s)})
             + Cardinality(ready \cap Results(s))
             + (IF s \in accepting THEN 1 ELSE 0) <= 1
  <2> DEFINE H == {th \in Threads : exec[th] \in Loop(s)}
             R == ready \cap Results(s)
  <2>0. Token(s)
    BY DEF ServerInv, Loops
  <2>1. \A x, y \in H : x = y
    BY <2>0 DEF Token
  <2>2. \A x, y \in R : x = y
    BY <2>0 DEF Token, Results
  <2>3. /\ R # {} => H = {}
        /\ s \in accepting => H = {} /\ R = {}
    BY <2>0 DEF Token
  <2>4. /\ Cardinality(H) \in Nat /\ Cardinality(H) <= 1
        /\ H = {} => Cardinality(H) = 0
    BY <2>1, AtMostOne
  <2>5. /\ Cardinality(R) \in Nat /\ Cardinality(R) <= 1
        /\ R = {} => Cardinality(R) = 0
    BY <2>2, AtMostOne
  <2> HIDE DEF H, R
  <2>6. Cardinality(H) + Cardinality(R)
          + (IF s \in accepting THEN 1 ELSE 0) <= 1
    BY <2>3, <2>4, <2>5
  <2> QED  BY <2>6 DEF H, R
<1>4. OneAccept
  BY <1>3 DEF OneAccept, Loop, Results
<1> QED  BY <1>1, <1>2, <1>4 DEF ServerSound

(* ServerSound for any number of servers, workers and connections: when    *)
(* run() returns no worker is in a handler or will enter one, a server that *)
(* runs goes on accepting, and it has one accept operation at a time.       *)
THEOREM ServerCorrect == Spec => []ServerSound
<1>1. Spec => []ServerInv
  BY ServerInit, ServerStep, PTL DEF Spec
<1> QED  BY <1>1, ServerInvSound, PTL


-----------------------------------------------------------------------------
(* The cron jobs.  The chain of a job is a start() that has yet to arm the  *)
(* timer, its pending wait, a queued handler or a worker in its handler:    *)
(* one of them at most, unless the job was started hastily.                 *)
Starts(j) == starting[j] # "no"
Waits(j) == wait[j] # "none"
InQueue(j) == \E i \in DOMAIN queued : queued[i].job = j
InWorker(j) == \E w \in Workers : pc[w].job = j

CronTypes ==
  /\ created \in SUBSET Jobs /\ jobs \in SUBSET created
  /\ pushing \in SUBSET created /\ erasing \in SUBSET created
  /\ pruning \in SUBSET created
  /\ orphans \in SUBSET created /\ failed \in SUBSET created
  /\ starting \in [Jobs -> {"no", "check", "arm", "delay"}]
  /\ stoppedJobs \in SUBSET created /\ hasty \in SUBSET created
  /\ running \in [Jobs -> BOOLEAN]
  /\ wait \in [Jobs -> {"none", "delay", "cron"}]
  /\ stopping \in [Jobs -> {"no", "flag", "cancel"}]
  /\ queued \in Seq([job : Jobs, at : {"delay", "cron"}])
  /\ pc \in [Workers -> [job : Jobs \cup {NoJob},
                         at : {"idle", "call", "run", "next", "arm"}]]
  /\ \A w \in Workers : pc[w].at = "idle" <=> pc[w].job = NoJob
  /\ lateRuns \in [Jobs -> Nat]

(* Nothing is under way for a job that does not exist yet. *)
Unmade ==
  \A j \in Jobs \ created :
    /\ ~running[j] /\ stopping[j] = "no" /\ ~Starts(j)
    /\ ~Waits(j) /\ ~InQueue(j) /\ ~InWorker(j)

Chain(j) ==
  /\ \A i, k \in DOMAIN queued : queued[i].job = j /\ queued[k].job = j => i = k
  /\ \A v, w \in Workers : pc[v].job = j /\ pc[w].job = j => v = w
  /\ InQueue(j) => ~InWorker(j)
  /\ Waits(j) => ~InQueue(j) /\ ~InWorker(j)
  /\ Starts(j) => ~InQueue(j) /\ ~InWorker(j) /\ ~Waits(j)
  /\ running[j] => \/ Waits(j) \/ InQueue(j) \/ InWorker(j) \/ Starts(j)
                   \/ j \in failed

(* A stop() clears the flag before it cancels, and unschedule() before it   *)
(* takes the job out, as prune_stopped() does only after it saw it clear: a *)
(* job that runs is known, or about to be stopped, or was started after     *)
(* that.                                                                    *)
Known(j) ==
  /\ stopping[j] = "cancel" => ~running[j]
  /\ j \in erasing /\ stopping[j] # "flag" => ~running[j] \/ j \in orphans
  /\ j \in pruning => ~running[j] \/ j \in orphans
  /\ running[j] => j \in jobs \cup pushing \cup orphans \/ stopping[j] # "no"

(* Only the handler that looked at is_running_ before the stop() can still  *)
(* begin a run.                                                             *)
Late(j) ==
  /\ lateRuns[j] <= 1
  /\ \A w \in Workers : pc[w].job = j /\ pc[w].at = "call" => lateRuns[j] = 0

(* stopped and lateRuns say what they should, of hasty jobs too. *)
Histories ==
  \A j \in Jobs : /\ j \in stoppedJobs => ~running[j]
                  /\ j \notin stoppedJobs => lateRuns[j] = 0

CronInv ==
  /\ CronTypes /\ Unmade /\ Histories
  /\ \A j \in Jobs \ hasty : Chain(j) /\ Known(j) /\ Late(j)


USE DEF Scheduler!calls, Scheduler!past

-----------------------------------------------------------------------------
(* The initial state of the scheduler satisfies its invariant. *)
LEMMA CronInit ==
  Scheduler!Init => CronInv
<1> SUFFICES ASSUME Scheduler!Init PROVE CronInv
  OBVIOUS
<1>0. NoJob \notin Jobs
  BY RuntimeAssumption DEF Scheduler!CronAssumption
<1>1. CronTypes
  BY DEF CronTypes, Scheduler!Init, Scheduler!Free
<1>2. \A j \in Jobs : ~Waits(j) /\ ~InQueue(j) /\ ~InWorker(j) /\ ~Starts(j)
  BY <1>0
  DEF Scheduler!Init, Scheduler!Free, Waits, InQueue, InWorker, Starts
<1>3. Unmade /\ Histories
  BY <1>2 DEF Unmade, Histories, Scheduler!Init
<1>4. \A j \in Jobs : Chain(j) /\ Known(j)
  BY <1>0, <1>2 DEF Scheduler!Init, Scheduler!Free, Chain, Known
<1>5. \A j \in Jobs : Late(j)
  BY DEF Scheduler!Init, Late
<1> QED  BY <1>1, <1>3, <1>4, <1>5 DEF CronInv

(* A job that rests without running has no chain and no stop under way. *)
LEMMA RestFacts ==
  ASSUME CronTypes, NEW j \in Jobs, Scheduler!Rests(j), ~running[j]
  PROVE  /\ ~Waits(j) /\ ~InQueue(j) /\ ~InWorker(j) /\ ~Starts(j)
         /\ stopping[j] = "no"
<1> DEFINE Q == Scheduler!Queued(j)
           A == Scheduler!Active(j)
<1>1. IsFiniteSet(Q) /\ IsFiniteSet(A)
  <2>1. queued \in Seq([job : Jobs, at : {"delay", "cron"}])
    BY DEF CronTypes
  <2>2. Len(queued) \in Nat /\ DOMAIN queued = 1..Len(queued)
    BY <2>1
  <2>3. IsFiniteSet(DOMAIN queued)
    BY <2>2, FS_Interval
  <2>4. Q \subseteq DOMAIN queued /\ A \subseteq Workers
    BY DEF Scheduler!Queued, Scheduler!Active
  <2>5. IsFiniteSet(Workers)
    BY RuntimeAssumption
    DEF Scheduler!CronAssumption, Scheduler!IsFiniteSet, IsFiniteSet
  <2> HIDE DEF Q, A
  <2>6. IsFiniteSet(Q)
    BY <2>3, <2>4, FS_Subset
  <2>7. IsFiniteSet(A)
    BY <2>5, <2>4, FS_Subset
  <2> QED  BY <2>6, <2>7
<1>2. Cardinality(Q) \in Nat /\ Cardinality(A) \in Nat
  BY <1>1, FS_CardinalityType
<1>3. Cardinality(Q) + Cardinality(A) + (IF wait[j] = "none" THEN 0 ELSE 1)
        + (IF starting[j] = "no" THEN 0 ELSE 1) = 0
  <2>1. Scheduler!Chains(j) = 0
    BY Zenon DEF Scheduler!Rests
  <2> QED  BY <2>1, Zenon
           DEF Scheduler!Chains, Scheduler!Cardinality, Cardinality
<1>4. /\ Cardinality(Q) = 0 /\ Cardinality(A) = 0
      /\ wait[j] = "none" /\ starting[j] = "no"
  <2> HIDE DEF Q, A
  <2> QED  BY <1>2, <1>3
<1>5. Q = {} /\ A = {}
  BY <1>1, <1>4, FS_EmptySet
<1> QED
  BY <1>4, <1>5 DEF Scheduler!Rests, Waits, InQueue, InWorker, Starts,
                    Scheduler!Queued, Scheduler!Active


(* The calls of the application on a job: schedule() begins its chain, and  *)
(* start() begins one only where there is none.                             *)
LEMMA StartsKeep ==
  ASSUME CronInv, NEW j \in Jobs, NEW first \in {"delay", "cron"},
         Scheduler!Schedule(j, first) \/ Scheduler!Start(j, first)
  PROVE  CronInv'
<1>0. /\ UNCHANGED <<queued, pc, wait>>
      /\ \A i \in Jobs : /\ InQueue(i)' <=> InQueue(i)
                         /\ InWorker(i)' <=> InWorker(i)
                         /\ Waits(i)' <=> Waits(i)
  BY DEF Scheduler!Schedule, Scheduler!Start, InQueue, InWorker, Waits
<1>s. PICK s0 \in {"check", "delay"} : starting' = [starting EXCEPT ![j] = s0]
  BY DEF Scheduler!Schedule, Scheduler!Start, Scheduler!Started
<1>t. /\ starting' \in [Jobs -> {"no", "check", "arm", "delay"}]
      /\ Starts(j)' /\ \A i \in Jobs \ {j} : Starts(i)' <=> Starts(i)
  BY <1>s DEF CronInv, CronTypes, Starts
<1>1. CASE Scheduler!Schedule(j, first)
  <2>2. /\ ~running[j] /\ stopping[j] = "no" /\ j \notin hasty
        /\ j \notin created
        /\ ~Waits(j) /\ ~InQueue(j) /\ ~InWorker(j)
    BY <1>1 DEF Scheduler!Schedule, CronInv, Unmade
  <2>3. CronTypes'
    BY <1>1, <1>t DEF Scheduler!Schedule, CronInv, CronTypes
  <2>4. Unmade' /\ Histories'
    BY <1>1, <2>2, <1>0, <1>t
       DEF Scheduler!Schedule, CronInv, CronTypes, Unmade, Histories
  <2>5. \A i \in Jobs \ hasty' : Chain(i)' /\ Known(i)'
    BY <1>1, <2>2, <1>0, <1>t
       DEF Scheduler!Schedule, CronInv, CronTypes, Chain, Known,
       InQueue, InWorker
  <2>6. \A i \in Jobs \ hasty' : Late(i)'
    BY <1>1, <1>0 DEF Scheduler!Schedule, CronInv, Late
  <2> QED  BY <2>3, <2>4, <2>5, <2>6 DEF CronInv
<1>2. CASE Scheduler!Start(j, first)
  <2>2. ~running[j]
    BY <1>2 DEF Scheduler!Start, Scheduler!MayStart
  <2>3. j \notin hasty' => /\ ~Waits(j) /\ ~InQueue(j) /\ ~InWorker(j)
                           /\ stopping[j] = "no"
    BY <1>2, <2>2, RestFacts DEF Scheduler!Start, CronInv
  <2>4. CronTypes'
    BY <1>2, <1>t DEF Scheduler!Start, CronInv, CronTypes
  <2>5. Unmade' /\ Histories'
    BY <1>2, <1>0, <1>t
       DEF Scheduler!Start, CronInv, CronTypes, Unmade, Histories
  <2>6. ASSUME NEW i \in Jobs \ hasty'  PROVE Chain(i)' /\ Known(i)'
    <3>1. /\ running \in [Jobs -> BOOLEAN]
          /\ running' = [running EXCEPT ![j] = TRUE]
          /\ UNCHANGED <<queued, pc, jobs, pushing, stopping, erasing, pruning,
                         failed>>
          /\ j \in orphans' \/ j \in jobs \ (erasing \cup pruning)
          /\ i # j => (i \in orphans' <=> i \in orphans)
      BY <1>2 DEF Scheduler!Start, Scheduler!Held, CronInv, CronTypes
    <3>2. CASE i = j
      BY <3>1, <3>2, <2>3, <1>0, <1>t DEF Chain, Known, InQueue, InWorker
    <3>3. CASE i # j
      <4>1. i \notin hasty
        BY <1>2, <3>3 DEF Scheduler!Start
      <4> QED  BY <3>1, <3>3, <4>1, <1>0, <1>t DEF CronInv, Chain, Known
    <3> QED  BY <3>2, <3>3
  <2>7. \A i \in Jobs \ hasty' : Late(i)'
    BY <1>2, <1>0 DEF Scheduler!Start, CronInv, CronTypes, Late
  <2> QED  BY <2>4, <2>5, <2>6, <2>7 DEF CronInv
<1> QED  BY <1>1, <1>2

(* The rest of start() hands the chain to the timer, or ends it when the    *)
(* job was stopped meanwhile.                                               *)
LEMMA EndStartKeeps ==
  ASSUME CronInv, NEW j \in Jobs,
         Scheduler!StartCheck(j) \/ Scheduler!StartArm(j)
  PROVE  CronInv'
<1>0. /\ UNCHANGED <<created, jobs, pushing, running, queued, pc, stopping,
                     erasing, pruning, hasty, orphans, failed, stoppedJobs,
                     lateRuns>>
      /\ \A i \in Jobs : /\ InQueue(i)' <=> InQueue(i)
                         /\ InWorker(i)' <=> InWorker(i)
  BY DEF Scheduler!StartCheck, Scheduler!StartArm, InQueue, InWorker
<1>1. /\ Starts(j)
      /\ starting' \in [Jobs -> {"no", "check", "arm", "delay"}]
      /\ wait' \in [Jobs -> {"none", "delay", "cron"}]
      /\ \A i \in Jobs \ {j} : (Starts(i)' <=> Starts(i)) /\ (Waits(i)' <=> Waits(i))
      /\ \/ Starts(j)' /\ UNCHANGED wait
         \/ ~Starts(j)' /\ ~running[j] /\ UNCHANGED wait
         \/ ~Starts(j)' /\ Waits(j)'
  BY DEF Scheduler!StartCheck, Scheduler!StartArm, Scheduler!GoesOn, Starts,
     Waits, CronInv, CronTypes
<1>2. CronTypes'
  BY <1>0, <1>1 DEF CronInv, CronTypes
<1>3. Unmade' /\ Histories'
  BY <1>0, <1>1 DEF CronInv, Unmade, Histories
<1>4. ASSUME NEW i \in Jobs \ hasty'  PROVE Chain(i)'
  <2>0. Chain(i)
    BY <1>0 DEF CronInv
  <2>1. CASE i = j
    BY <2>0, <2>1, <1>0, <1>1 DEF Chain, Waits
  <2>2. CASE i # j
    BY <2>0, <2>2, <1>0, <1>1 DEF Chain
  <2> QED  BY <2>1, <2>2
<1>5. \A i \in Jobs \ hasty' : Known(i)' /\ Late(i)'
  BY <1>0 DEF CronInv, Known, Late
<1> QED  BY <1>2, <1>3, <1>4, <1>5 DEF CronInv

(* stop(), unschedule(), stop_all() and prune_stopped(), in their parts.    *)
LEMMA StopsKeep ==
  ASSUME CronInv, NEW j,
         \/ j \in Jobs /\ (\/ Scheduler!CallStop(j) \/ Scheduler!Unschedule(j)
                           \/ Scheduler!Push(j) \/ Scheduler!EndStop(j))
         \/ Scheduler!StopAll \/ Scheduler!PruneStopped \/ Scheduler!PruneErase
  PROVE  CronInv'
<1>0. UNCHANGED <<queued, pc, created, starting, hasty, lateRuns>>
      /\ \A i \in Jobs : (InQueue(i)' <=> InQueue(i)) /\ (InWorker(i)' <=> InWorker(i))
  BY DEF Scheduler!CallStop, Scheduler!Unschedule, Scheduler!EndStop,
         Scheduler!Push, Scheduler!StopFlag, Scheduler!StopCancel,
         Scheduler!Erase, Scheduler!StopAll, Scheduler!PruneStopped,
         Scheduler!PruneErase, InQueue, InWorker
<1>1. \A i \in Jobs \ hasty' : Late(i)'
  BY <1>0 DEF CronInv, Late
<1>c. UNCHANGED <<running, wait, failed>> => \A i \in Jobs \ hasty' : Chain(i)'
  BY <1>0 DEF CronInv, Chain, Waits, Starts
<1>u. UNCHANGED <<running, wait, stoppedJobs>>
      /\ (\A i \in Jobs \ created : stopping'[i] = stopping[i]) => Unmade' /\ Histories'
  BY <1>0 DEF CronInv, Unmade, Histories, Waits, Starts
<1> SUFFICES CronTypes' /\ Unmade' /\ Histories'
             /\ \A i \in Jobs \ hasty' : Chain(i)' /\ Known(i)'
  BY <1>1 DEF CronInv
<1>2. CASE j \in Jobs /\ Scheduler!CallStop(j)
  <2>1. CronTypes'
    BY <1>2 DEF Scheduler!CallStop, CronInv, CronTypes
  <2>2. Unmade' /\ Histories'
    BY <1>2, <1>u DEF Scheduler!CallStop, CronInv, CronTypes
  <2>3. \A i \in Jobs \ hasty' : Known(i)'
    BY <1>2 DEF Scheduler!CallStop, CronInv, CronTypes, Known
  <2> QED  BY <2>1, <2>2, <2>3, <1>2, <1>c DEF Scheduler!CallStop
<1>3. CASE j \in Jobs /\ Scheduler!Unschedule(j)
  <2>1. CronTypes'
    BY <1>3 DEF Scheduler!Unschedule, CronInv, CronTypes
  <2>2. Unmade' /\ Histories'
    BY <1>3, <1>u DEF Scheduler!Unschedule, CronInv, CronTypes
  <2>3. \A i \in Jobs \ hasty' : Known(i)'
    BY <1>3 DEF Scheduler!Unschedule, CronInv, CronTypes, Known
  <2> QED  BY <2>1, <2>2, <2>3, <1>3, <1>c DEF Scheduler!Unschedule
<1>4. CASE j \in Jobs /\ Scheduler!Push(j)
  <2>1. CronTypes'
    BY <1>4 DEF Scheduler!Push, CronInv, CronTypes
  <2>2. Unmade' /\ Histories'
    BY <1>4, <1>u DEF Scheduler!Push
  <2>3. \A i \in Jobs \ hasty' : Known(i)'
    BY <1>4 DEF Scheduler!Push, CronInv, Known
  <2> QED  BY <2>1, <2>2, <2>3, <1>4, <1>c DEF Scheduler!Push
<1>8. CASE Scheduler!StopAll
  <2>1. CronTypes'
    BY <1>8 DEF Scheduler!StopAll, CronInv, CronTypes
  <2>2. Unmade' /\ Histories'
    BY <1>8, <1>u DEF Scheduler!StopAll, CronInv, CronTypes
  <2>3. \A i \in Jobs \ hasty' : Known(i)'
    BY <1>8 DEF Scheduler!StopAll, CronInv, CronTypes, Known
  <2> QED  BY <2>1, <2>2, <2>3, <1>8, <1>c DEF Scheduler!StopAll
<1> USE DEF CronInv, CronTypes, Unmade, Histories, Chain, Known, Waits, Starts,
            InQueue, InWorker
<1>5. CASE j \in Jobs /\ Scheduler!StopFlag(j)
  BY <1>0, <1>5 DEF Scheduler!StopFlag
<1>6. CASE j \in Jobs /\ Scheduler!StopCancel(j)
  <2>1. CronTypes'
    BY <1>0, <1>6 DEF Scheduler!StopCancel
  <2>2. Unmade' /\ Histories'
    BY <1>0, <1>6 DEF Scheduler!StopCancel
  <2>3. \A i \in Jobs \ hasty' : Known(i)'
    BY <1>0, <1>6 DEF Scheduler!StopCancel
  <2>4. ASSUME NEW i \in Jobs \ hasty'  PROVE Chain(i)'
    <3>1. Chain(i) /\ (i = j => ~running[i])
      BY <1>0, <1>6 DEF Scheduler!StopCancel
    <3>2. /\ Waits(i)' => Waits(i)
          /\ i # j => (Waits(i)' <=> Waits(i))
          /\ Starts(i)' <=> Starts(i)
          /\ UNCHANGED <<running, failed>>
      BY <1>0, <1>6 DEF Scheduler!StopCancel
    <3> HIDE DEF Waits, Starts, InQueue, InWorker, CronInv, CronTypes, Unmade,
                 Histories, Known
    <3> QED  BY <3>1, <3>2, <1>0
  <2> QED  BY <2>1, <2>2, <2>3, <2>4
<1>7. CASE j \in Jobs /\ Scheduler!Erase(j)
  BY <1>0, <1>7 DEF Scheduler!Erase
<1>9. CASE Scheduler!PruneStopped
  <2>1. CronTypes'
    BY <1>9 DEF Scheduler!PruneStopped
  <2>2. Unmade' /\ Histories'
    BY <1>9, <1>u DEF Scheduler!PruneStopped
  <2>3. \A i \in Jobs \ hasty' : Known(i)'
    BY <1>9 DEF Scheduler!PruneStopped, Scheduler!Kept
  <2> QED  BY <2>1, <2>2, <2>3, <1>9, <1>c DEF Scheduler!PruneStopped
<1>a. CASE Scheduler!PruneErase
  <2>1. CronTypes'
    BY <1>a DEF Scheduler!PruneErase
  <2>2. Unmade' /\ Histories'
    BY <1>a, <1>u DEF Scheduler!PruneErase
  <2>3. \A i \in Jobs \ hasty' : Known(i)'
    BY <1>a DEF Scheduler!PruneErase
  <2> QED  BY <2>1, <2>2, <2>3, <1>a, <1>c DEF Scheduler!PruneErase
<1> QED
  BY <1>2, <1>3, <1>4, <1>5, <1>6, <1>7, <1>8, <1>9, <1>a DEF Scheduler!EndStop


(* A wait that ends hands its chain to the queue. *)
LEMMA ExpireKeeps ==
  ASSUME CronInv, NEW j \in Jobs, Scheduler!Expire(j)
  PROVE  CronInv'
<1> DEFINE h == [job |-> j, at |-> wait[j]]
           H == [job : Jobs, at : {"delay", "cron"}]
<1>0. /\ queued \in Seq(H) /\ wait \in [Jobs -> {"none", "delay", "cron"}]
      /\ queued' = Append(queued, h) /\ wait' = [wait EXCEPT ![j] = "none"]
      /\ Waits(j) /\ UNCHANGED <<created, hasty, running, pc, jobs, pushing,
                                 starting, stopping, erasing, pruning, orphans,
                                 failed, stoppedJobs, lateRuns>>
  BY DEF Scheduler!Expire, Scheduler!At, CronInv, CronTypes, Waits
<1>1. h \in H
  BY <1>0 DEF Waits
<1>2. queued' \in Seq(H)
  BY <1>0, <1>1
<1>3. /\ DOMAIN queued = 1..Len(queued) /\ Len(queued) \in Nat
      /\ DOMAIN queued' = 1..(Len(queued) + 1)
      /\ \A i \in DOMAIN queued : queued'[i] = queued[i]
      /\ queued'[Len(queued) + 1] = h
  BY <1>0, <1>1
<1>4. /\ InQueue(j)' /\ \A i \in Jobs \ {j} : InQueue(i)' <=> InQueue(i)
      /\ \A i \in Jobs : InWorker(i)' <=> InWorker(i)
      /\ ~Waits(j)' /\ \A i \in Jobs \ {j} : Waits(i)' <=> Waits(i)
      /\ \A i \in Jobs : Starts(i)' <=> Starts(i)
  BY <1>0, <1>3 DEF InQueue, InWorker, Waits, Starts
<1>5. CronTypes'
  BY <1>0, <1>2 DEF CronInv, CronTypes
<1>6. Unmade' /\ Histories'
  BY <1>0, <1>4 DEF CronInv, Unmade, Histories
<1>7. ASSUME NEW i \in Jobs \ hasty'  PROVE Chain(i)'
  <2>0. Chain(i)
    BY <1>0 DEF CronInv
  <2>1. CASE i = j
    <3>1. ~InQueue(j) /\ ~InWorker(j)
      BY <2>0, <2>1, <1>0 DEF Chain
    <3>2. \A a, b \in DOMAIN queued' :
            queued'[a].job = j /\ queued'[b].job = j => a = b
      BY <3>1, <1>3 DEF InQueue
    <3> QED  BY <2>0, <2>1, <3>1, <3>2, <1>0, <1>4 DEF Chain
  <2>2. CASE i # j
    <3>1. \A a, b \in DOMAIN queued' :
            queued'[a].job = i /\ queued'[b].job = i => a = b
      BY <2>0, <2>2, <1>3 DEF Chain
    <3> QED  BY <2>0, <2>2, <3>1, <1>0, <1>4 DEF Chain
  <2> QED  BY <2>1, <2>2
<1>8. \A i \in Jobs \ hasty' : Known(i)' /\ Late(i)'
  BY <1>0 DEF CronInv, Known, Late
<1> QED  BY <1>5, <1>6, <1>7, <1>8 DEF CronInv

(* The head of a sequence is its first element. *)
LEMMA HeadFacts ==
  ASSUME NEW S, NEW q \in Seq(S), q # <<>>
  PROVE  q[1] \in S /\ Head(q) = q[1]
OBVIOUS

(* A worker takes the first handler, and drops it when the job is stopped.  *)
LEMMA BeginKeeps ==
  ASSUME CronInv, NEW w \in Workers, Scheduler!Begin(w)
  PROVE  CronInv'
<1> DEFINE H == [job : Jobs, at : {"delay", "cron"}]
           R == [job : Jobs \cup {NoJob}, at : {"idle", "call", "run", "next", "arm"}]
           Idles == [job |-> NoJob, at |-> "idle"]
<1>0. /\ queued \in Seq(H) /\ queued # <<>> /\ queued' = Tail(queued)
      /\ pc \in [Workers -> R] /\ pc[w] = Idles
      /\ UNCHANGED <<created, hasty, running, wait, jobs, pushing, starting,
                     stopping, erasing, pruning, orphans, stoppedJobs, lateRuns>>
  BY DEF Scheduler!Begin, Scheduler!Free, CronInv, CronTypes
<1>1. PICK j \in Jobs, at \in {"delay", "cron"} :
         queued[1] = [job |-> j, at |-> at] /\ Head(queued) = queued[1]
  <2>1. queued[1] \in H /\ Head(queued) = queued[1]
    BY <1>0, HeadFacts
  <2>2. queued[1] = [job |-> queued[1].job, at |-> queued[1].at]
        /\ queued[1].job \in Jobs /\ queued[1].at \in {"delay", "cron"}
    BY <2>1
  <2> QED  BY <2>1, <2>2
<1>j. NoJob \notin Jobs
  BY RuntimeAssumption DEF Scheduler!CronAssumption
<1>2. PICK a \in {"next", "call"}, ends \in BOOLEAN :
         /\ pc' = [pc EXCEPT ![w] = IF ends THEN Idles
                                    ELSE [job |-> j, at |-> a]]
         /\ ~running[j] => ends
         /\ failed' = IF ends /\ running[j] THEN failed \cup {j} ELSE failed
  <2>1. PICK ec \in BOOLEAN :
          /\ pc' = [pc EXCEPT ![w] =
                      IF ec \/ ~running[Head(queued).job] THEN Idles
                      ELSE [job |-> Head(queued).job,
                            at |-> Scheduler!Resumes(Head(queued).at)]]
          /\ failed' = IF ec /\ running[Head(queued).job]
                       THEN failed \cup {Head(queued).job} ELSE failed
    BY DEF Scheduler!Begin, Scheduler!Free, Scheduler!At, Scheduler!GoesOn
  <2>2. Head(queued).job = j /\ Head(queued).at = at
    BY <1>1
  <2>3. Scheduler!Resumes(at) \in {"next", "call"}
    BY DEF Scheduler!Resumes
  <2>4. CASE ec \/ ~running[j]
    <3> WITNESS "next" \in {"next", "call"}, TRUE \in BOOLEAN
    <3> QED  BY <2>1, <2>2, <2>4
  <2>5. CASE ~ec /\ running[j]
    <3> WITNESS Scheduler!Resumes(at) \in {"next", "call"}, FALSE \in BOOLEAN
    <3> QED  BY <2>1, <2>2, <2>5
  <2> QED  BY <2>4, <2>5
<1>3. /\ DOMAIN queued = 1..Len(queued) /\ Len(queued) \in Nat
      /\ Len(queued) >= 1
      /\ DOMAIN queued' = 1..(Len(queued) - 1) /\ queued' \in Seq(H)
      /\ \A i \in 1..(Len(queued) - 1) : queued'[i] = queued[i + 1]
  BY <1>0
<1>4. ASSUME NEW i \in Jobs
      PROVE  /\ (\A x, y \in DOMAIN queued : queued[x].job = i /\ queued[y].job = i => x = y)
                => (\A x, y \in DOMAIN queued' :
                       queued'[x].job = i /\ queued'[y].job = i => x = y)
             /\ InQueue(i)' => InQueue(i)
             /\ i # j /\ InQueue(i) => InQueue(i)'
  <2>1. \A x \in DOMAIN queued' : x + 1 \in DOMAIN queued
                                  /\ queued'[x] = queued[x + 1]
    BY <1>3
  <2>2. \A x, y \in DOMAIN queued' : x + 1 = y + 1 => x = y
    BY <1>3
  <2>3. \A x \in DOMAIN queued : x # 1 => /\ x - 1 \in DOMAIN queued'
                                          /\ queued'[x - 1] = queued[x]
    BY <1>3
  <2>4. i # j => queued[1].job # i
    BY <1>1
  <2> QED  BY <2>1, <2>2, <2>3, <2>4 DEF InQueue
<1>5. InQueue(j)
  BY <1>1, <1>3 DEF InQueue
<1>6. (\A x, y \in DOMAIN queued : queued[x].job = j /\ queued[y].job = j => x = y)
      => ~InQueue(j)'
  <2>1. \A x \in DOMAIN queued' : x + 1 \in DOMAIN queued /\ x + 1 # 1
                                  /\ queued'[x] = queued[x + 1]
    BY <1>3
  <2>2. 1 \in DOMAIN queued /\ queued[1].job = j
    BY <1>1, <1>3
  <2> QED  BY <2>1, <2>2 DEF InQueue
<1>s. \A i \in Jobs : Starts(i)' <=> Starts(i)
  BY <1>0 DEF Starts
<1>7. /\ ~ends => InWorker(j)' /\ pc'[w] = [job |-> j, at |-> a]
      /\ ends => pc' = pc
      /\ \A i \in Jobs \ {j} : InWorker(i)' <=> InWorker(i)
      /\ \A v \in Workers \ {w} : pc'[v] = pc[v]
  BY <1>0, <1>1, <1>2, <1>j DEF InWorker
<1>8. CronTypes'
  <2>1. j \in created
    BY <1>5 DEF CronInv, Unmade
  <2> QED  BY <2>1, <1>0, <1>2, <1>3, <1>j DEF CronInv, CronTypes
<1>9. Unmade' /\ Histories'
  <2>1. j \in created
    BY <1>5 DEF CronInv, Unmade
  <2> QED  BY <1>0, <1>s, <1>4, <1>7, <2>1 DEF CronInv, Unmade, Histories, Waits
<1>a. ASSUME NEW i \in Jobs \ hasty'  PROVE Chain(i)'
  <2>0. Chain(i)
    BY <1>0 DEF CronInv
  <2>1. CASE i = j
    <3>1. ~InQueue(j)' /\ ~InWorker(j) /\ ~Waits(j) /\ ~Starts(j)
      BY <2>0, <2>1, <1>5, <1>6 DEF Chain
    <3>2. \A v \in Workers : pc'[v].job = j => v = w
      BY <3>1, <1>7 DEF InWorker
    <3>3. running[j] => InWorker(j)' \/ j \in failed'
      BY <3>1, <1>2, <1>7
    <3>4. ~Starts(j)' /\ ~Waits(j)' /\ running' = running
      BY <3>1, <1>0, <1>s DEF Waits
    <3> QED  BY <2>1, <3>1, <3>2, <3>3, <3>4 DEF Chain, InQueue
  <2>2. CASE i # j
    <3>1. \A v \in Workers : pc'[v].job = i => pc[v].job = i
      BY <1>0, <1>2, <1>j, <2>2
    <3>2. (Waits(i)' <=> Waits(i)) /\ (InQueue(i)' <=> InQueue(i))
          /\ (InWorker(i)' <=> InWorker(i)) /\ running' = running
          /\ (Starts(i)' <=> Starts(i)) /\ (i \in failed' <=> i \in failed)
      BY <1>0, <1>2, <1>s, <1>4, <1>7, <2>2 DEF Waits
    <3>3. \A x, y \in DOMAIN queued' : queued'[x].job = i /\ queued'[y].job = i => x = y
      BY <2>0, <1>4 DEF Chain
    <3> QED  BY <2>0, <3>1, <3>2, <3>3 DEF Chain
  <2> QED  BY <2>1, <2>2
<1>b. \A i \in Jobs \ hasty' : Known(i)'
  BY <1>0 DEF CronInv, Known
<1>d. ASSUME NEW i \in Jobs \ hasty'  PROVE Late(i)'
  <2>0. Late(i) /\ (running[i] => lateRuns[i] = 0)
    BY <1>0 DEF CronInv, Histories
  <2>1. ASSUME NEW v \in Workers, pc'[v].job = i, pc'[v] # pc[v]
        PROVE  running[i]
    BY <2>1, <1>0, <1>2, <1>7, <1>j
  <2> QED  BY <2>0, <2>1, <1>0 DEF Late
<1> QED  BY <1>8, <1>9, <1>a, <1>b, <1>d DEF CronInv


(* The steps of a worker in the handler of a job: the chain stays with it   *)
(* until it arms the timer again or ends because the job was stopped.       *)
LEMMA HandlerKeeps ==
  ASSUME CronInv, NEW w \in Workers,
         \/ Scheduler!Run(w) \/ Scheduler!RunEnds(w)
         \/ Scheduler!Next1(w) \/ Scheduler!Arm(w)
  PROVE  CronInv'
<1> DEFINE R == [job : Jobs \cup {NoJob}, at : {"idle", "call", "run", "next", "arm"}]
           Idles == [job |-> NoJob, at |-> "idle"]
<1>0. /\ pc \in [Workers -> R] /\ wait \in [Jobs -> {"none", "delay", "cron"}]
      /\ lateRuns \in [Jobs -> Nat] /\ running \in [Jobs -> BOOLEAN]
      /\ UNCHANGED <<created, hasty, running, jobs, pushing, queued, starting,
                     stopping, erasing, pruning, orphans, failed, stoppedJobs>>
  BY DEF Scheduler!Run, Scheduler!RunEnds, Scheduler!Next1, Scheduler!Arm,
         CronInv, CronTypes
<1>n. NoJob \notin Jobs
  BY RuntimeAssumption DEF Scheduler!CronAssumption
<1>1. PICK j \in Jobs : pc[w].job = j
  BY <1>0 DEF CronInv, CronTypes, Scheduler!Run, Scheduler!RunEnds,
     Scheduler!Next1, Scheduler!Arm
<1>2. PICK r : /\ pc' = [pc EXCEPT ![w] = r]
               /\ \/ r = Idles /\ ~running[j] /\ UNCHANGED <<wait, lateRuns>>
                  \/ r = Idles /\ wait' = [wait EXCEPT ![j] = "cron"]
                     /\ UNCHANGED lateRuns
                  \/ \E at \in {"next", "arm"} : r = [job |-> j, at |-> at]
                     /\ UNCHANGED <<wait, lateRuns>>
                  \/ /\ r = [job |-> j, at |-> "run"] /\ pc[w].at = "call"
                     /\ UNCHANGED wait
                     /\ lateRuns' = [lateRuns EXCEPT ![j] =
                          IF j \in stoppedJobs /\ @ < 2 THEN @ + 1 ELSE @]
  <2>1. CASE Scheduler!Run(w)
    BY <2>1, <1>1 DEF Scheduler!Run, Scheduler!At, Scheduler!MaxLate
  <2>2. CASE Scheduler!RunEnds(w)
    BY <2>2, <1>1 DEF Scheduler!RunEnds, Scheduler!At, Scheduler!Continues
  <2>3. CASE Scheduler!Next1(w)
    BY <2>3, <1>1
    DEF Scheduler!Next1, Scheduler!At, Scheduler!Free, Scheduler!GoesOn
  <2>4. CASE Scheduler!Arm(w)
    BY <2>4, <1>1 DEF Scheduler!Arm, Scheduler!Free
  <2> QED  BY <2>1, <2>2, <2>3, <2>4
<1>3. r = Idles \/ \E at \in {"next", "arm", "run"} : r = [job |-> j, at |-> at]
  BY <1>2
<1>4. /\ pc' \in [Workers -> R] /\ pc'[w] = r
      /\ \A v \in Workers \ {w} : pc'[v] = pc[v]
      /\ \A v \in Workers : pc'[v].at = "idle" <=> pc'[v].job = NoJob
  BY <1>0, <1>1, <1>2, <1>3, <1>n DEF CronInv, CronTypes
<1>5. /\ wait' \in [Jobs -> {"none", "delay", "cron"}]
      /\ \A i \in Jobs \ {j} : Waits(i)' <=> Waits(i)
  BY <1>0, <1>1, <1>2 DEF Waits
<1>6. /\ lateRuns' \in [Jobs -> Nat]
      /\ \A i \in Jobs \ {j} : lateRuns'[i] = lateRuns[i]
  BY <1>0, <1>1, <1>2
<1>7. /\ InWorker(j)
      /\ \A i \in Jobs \ {j} : InWorker(i)' <=> InWorker(i)
      /\ \A i \in Jobs : InQueue(i)' <=> InQueue(i)
      /\ \A i \in Jobs : Starts(i)' <=> Starts(i)
      /\ \A i \in Jobs \ {j} : \A v \in Workers : pc'[v].job = i => pc[v] = pc'[v]
  BY <1>0, <1>1, <1>3, <1>4, <1>n DEF InWorker, InQueue, Starts
<1>8. CronTypes'
  BY <1>0, <1>4, <1>5, <1>6 DEF CronInv, CronTypes
<1>9. Unmade'
  BY <1>0, <1>5, <1>7 DEF CronInv, Unmade
<1>a. Histories'
  BY <1>0, <1>2, <1>6 DEF CronInv, Histories
<1>b. ASSUME NEW i \in Jobs \ hasty'  PROVE Chain(i)'
  <2>0. Chain(i)
    BY <1>0 DEF CronInv
  <2>1. CASE i = j
    <3>1. ~InQueue(j)' /\ ~Waits(j) /\ ~Starts(j)'
      BY <2>0, <2>1, <1>7 DEF Chain
    <3>2. \A v \in Workers : pc'[v].job = j => v = w
      BY <2>0, <2>1, <1>1, <1>4 DEF Chain
    <3>3. CASE r = Idles
      <4>1. ~InWorker(j)'
        BY <3>2, <3>3, <1>1, <1>4, <1>n DEF InWorker
      <4>2. running[j] => Waits(j)'
        BY <3>3, <1>0, <1>1, <1>2, <1>n DEF Waits
      <4> QED  BY <2>1, <3>1, <3>2, <4>1, <4>2, <1>0 DEF Chain, InQueue
    <3>4. CASE r # Idles
      <4>1. InWorker(j)' /\ ~Waits(j)'
        BY <3>1, <3>4, <1>2, <1>3, <1>4 DEF InWorker, Waits
      <4> QED  BY <2>1, <3>1, <3>2, <4>1, <1>0 DEF Chain, InQueue
    <3> QED  BY <3>3, <3>4
  <2>2. CASE i # j
    BY <2>0, <2>2, <1>0, <1>5, <1>7 DEF Chain
  <2> QED  BY <2>1, <2>2
<1>c. \A i \in Jobs \ hasty' : Known(i)'
  BY <1>0 DEF CronInv, Known
<1>d. ASSUME NEW i \in Jobs \ hasty'  PROVE Late(i)'
  <2>0. Late(i) /\ Chain(i)
    BY <1>0 DEF CronInv
  <2>1. CASE i = j
    <3>1. \A v \in Workers : pc'[v].job = j => v = w
      BY <2>0, <2>1, <1>1, <1>4 DEF Chain
    <3>2. pc'[w].at # "call"
      BY <1>3, <1>4
    <3>3. lateRuns'[j] <= 1
      <4>1. CASE lateRuns' = lateRuns
        BY <2>0, <2>1, <4>1 DEF Late
      <4>2. CASE lateRuns' # lateRuns
        <5>1. pc[w].at = "call"
              /\ lateRuns'[j] = IF j \in stoppedJobs /\ lateRuns[j] < 2
                                THEN lateRuns[j] + 1 ELSE lateRuns[j]
          BY <4>2, <1>0, <1>1, <1>2
        <5>2. lateRuns[j] = 0
          BY <2>0, <2>1, <5>1, <1>1 DEF Late
        <5> QED  BY <5>1, <5>2
      <4> QED  BY <4>1, <4>2
    <3> QED  BY <2>1, <3>1, <3>2, <3>3 DEF Late
  <2>2. CASE i # j
    BY <2>0, <2>2, <1>6, <1>7 DEF Late
  <2> QED  BY <2>1, <2>2
<1> QED  BY <1>8, <1>9, <1>a, <1>b, <1>c, <1>d DEF CronInv

(* The invariant of the scheduler is inductive. *)
LEMMA CronStep ==
  ASSUME CronInv, [Scheduler!Next]_cron
  PROVE  CronInv'
<1>1. CASE Scheduler!Next
  <2>1. CASE \E j \in Jobs, first \in {"delay", "cron"} :
               Scheduler!Schedule(j, first) \/ Scheduler!Start(j, first)
    BY <2>1, StartsKeep
  <2>2. CASE \E j \in Jobs : \/ Scheduler!CallStop(j) \/ Scheduler!Unschedule(j)
                             \/ Scheduler!EndStart(j) \/ Scheduler!EndStop(j)
    BY <2>2, StopsKeep, EndStartKeeps DEF Scheduler!EndStart
  <2>3. CASE Scheduler!StopAll \/ Scheduler!PruneStopped \/ Scheduler!PruneErase
    BY <2>3, StopsKeep
  <2>4. CASE \E j \in Jobs : Scheduler!Expire(j)
    BY <2>4, ExpireKeeps
  <2>5. CASE \E w \in Workers : Scheduler!Work(w)
    BY <2>5, BeginKeeps, HandlerKeeps DEF Scheduler!Work
  <2> QED  BY <1>1, <2>1, <2>2, <2>3, <2>4, <2>5 DEF Scheduler!Next
<1>2. CASE UNCHANGED cron
  BY <1>2 DEF cron, CronInv, CronTypes, Unmade, Histories, Chain, Known, Late,
     Waits, InQueue, InWorker, Starts
<1> QED  BY <1>1, <1>2


(* What the invariant says of the chain of each job. *)
LEMMA CronInvSound ==
  CronInv => ChainSound
<1> SUFFICES ASSUME CronInv PROVE ChainSound
  OBVIOUS
<1>1. ASSUME NEW j \in Jobs \ hasty
      PROVE  /\ Scheduler!Chains(j) <= 1
             /\ running[j] /\ j \notin failed => Scheduler!Chains(j) >= 1
  <2> DEFINE Q == Scheduler!Queued(j)
             A == Scheduler!Active(j)
  <2>0. Chain(j)
    BY DEF CronInv
  <2>1. \A x, y \in Q : x = y
    BY <2>0 DEF Chain, Scheduler!Queued
  <2>2. \A x, y \in A : x = y
    BY <2>0 DEF Chain, Scheduler!Active
  <2>3. /\ Q # {} <=> InQueue(j)
        /\ A # {} <=> InWorker(j)
    BY DEF Scheduler!Queued, Scheduler!Active, InQueue, InWorker
  <2>4. /\ Q # {} => A = {}
        /\ wait[j] # "none" => Q = {} /\ A = {}
        /\ starting[j] # "no" => Q = {} /\ A = {} /\ wait[j] = "none"
        /\ running[j] => \/ wait[j] # "none" \/ Q # {} \/ A # {}
                         \/ starting[j] # "no" \/ j \in failed
    BY <2>0, <2>3 DEF Chain, Waits, Starts
  <2>5. Scheduler!Chains(j) = Cardinality(Q) + Cardinality(A)
                                + (IF wait[j] = "none" THEN 0 ELSE 1)
                                + (IF starting[j] = "no" THEN 0 ELSE 1)
    BY Zenon DEF Scheduler!Chains, Scheduler!Cardinality, Cardinality
  <2> HIDE DEF Q, A
  <2>6. /\ Cardinality(Q) \in Nat /\ Cardinality(Q) <= 1
        /\ Q = {} <=> Cardinality(Q) = 0
    BY <2>1, AtMostOne
  <2>7. /\ Cardinality(A) \in Nat /\ Cardinality(A) <= 1
        /\ A = {} <=> Cardinality(A) = 0
    BY <2>2, AtMostOne
  <2>8. Scheduler!Chains(j) <= 1
    BY <2>4, <2>5, <2>6, <2>7
  <2>9. CASE running[j] /\ j \notin failed
    BY <2>9, <2>4, <2>5, <2>6, <2>7
  <2> QED  BY <2>8, <2>9
<1>2. Scheduler!OneChain /\ Scheduler!RunningIsScheduled
  BY <1>1 DEF Scheduler!OneChain, Scheduler!RunningIsScheduled
<1>3. Scheduler!OneLateRun
  BY DEF CronInv, Late, Scheduler!OneLateRun
<1>4. Scheduler!NoneLost
  BY DEF CronInv, Known, Scheduler!NoneLost
<1> QED  BY <1>2, <1>3, <1>4 DEF ChainSound, Scheduler!ChainSound

(* ChainSound for any number of jobs, workers and concurrent calls: a job   *)
(* has one chain of handlers, a job that runs has one unless its timer      *)
(* failed, it is known to the scheduler unless start() was called after it   *)
(* was taken out, and at most one run begins after its stop(); all this for *)
(* a job whose start() did not overlap what was left of an earlier stop().  *)
THEOREM ChainCorrect == Scheduler!Spec => []ChainSound
<1>1. ASSUME CronInv, [Scheduler!Next]_Scheduler!vars  PROVE CronInv'
  BY <1>1, CronStep DEF Scheduler!vars, cron
<1>2. Scheduler!Spec => []CronInv
  BY CronInit, <1>1, PTL DEF Scheduler!Spec
<1> QED  BY <1>2, CronInvSound, PTL


-----------------------------------------------------------------------------
(* The container.  The frames of a resolve() that are past their first      *)
(* locked part mark their types; only the innermost frame may be elsewhere  *)
(* than in its factory.                                                     *)
Frames == [type : Types, at : Container!Places, todo : SUBSET Types]
Marked(s, T) == \E i \in DOMAIN s : s[i].type = T /\ s[i].at # "enter"
Leaves(s, T) == s # <<>> /\ s[1].type = T /\ s[1].at = "leave"

Stacked(s) ==
  /\ s \in Seq(Frames)
  /\ \A i \in DOMAIN s : i # 1 => s[i].at = "factory"
  /\ \A i, k \in DOMAIN s : /\ s[i].at # "enter" /\ s[k].at # "enter"
                            /\ s[i].type = s[k].type
                            => i = k

ContainerTypes ==
  /\ factories \in [Types -> (SUBSET Types) \cup {Nobody}]
  /\ singletons \in SUBSET Types /\ resolving \in SUBSET Types /\ mtx = Nobody
  /\ DOMAIN stack = Resolvers /\ stack = [t \in Resolvers |-> stack[t]]
  /\ \A t \in Resolvers : Stacked(stack[t])
  /\ built \in [Types -> Nat]

(* A type is marked by one thread at a time, and while it is in resolving_. *)
Marks ==
  /\ \A T \in Types :
       T \in resolving <=> \E t \in Resolvers : Marked(stack[t], T)
  /\ \A T \in Types : \A t, u \in Resolvers :
       Marked(stack[t], T) /\ Marked(stack[u], T) => t = u

(* An instance is made once: it is cached, or about to be.                  *)
Instances ==
  /\ resolving \cap singletons = {}
  /\ \A T \in Types :
       /\ built[T] <= 1
       /\ built[T] # 0 => T \in singletons
                          \/ \E t \in Resolvers : Leaves(stack[t], T)

ContainerInv == ContainerTypes /\ Marks /\ Instances


-----------------------------------------------------------------------------
(* A sequence without its head, and with one or two elements before it. *)
LEMMA TailFacts ==
  ASSUME NEW S, NEW q \in Seq(S), q # <<>>
  PROVE  /\ Tail(q) \in Seq(S) /\ Len(q) \in Nat /\ Len(q) >= 1
         /\ DOMAIN q = 1..Len(q) /\ DOMAIN Tail(q) = 1..(Len(q) - 1)
         /\ \A i \in 1..(Len(q) - 1) : Tail(q)[i] = q[i + 1]
OBVIOUS

(* A frame on top of a stack... *)
LEMMA ConsFacts ==
  ASSUME NEW S, NEW q \in Seq(S), NEW f \in S
  PROVE  /\ <<f>> \o q \in Seq(S) /\ Len(q) \in Nat
         /\ DOMAIN q = 1..Len(q) /\ DOMAIN (<<f>> \o q) = 1..(Len(q) + 1)
         /\ (<<f>> \o q)[1] = f
         /\ \A i \in 1..Len(q) : (<<f>> \o q)[i + 1] = q[i]
OBVIOUS

(* ... and two frames. *)
LEMMA ConsTwoFacts ==
  ASSUME NEW S, NEW q \in Seq(S), NEW f \in S, NEW g \in S
  PROVE  /\ <<f, g>> \o q \in Seq(S) /\ Len(q) \in Nat
         /\ DOMAIN q = 1..Len(q) /\ DOMAIN (<<f, g>> \o q) = 1..(Len(q) + 2)
         /\ (<<f, g>> \o q)[1] = f /\ (<<f, g>> \o q)[2] = g
         /\ \A i \in 1..Len(q) : (<<f, g>> \o q)[i + 2] = q[i]
OBVIOUS

(* What the operations on a stack do to the marks.  A frame that is         *)
(* replaced by one past the first locked part marks its type...             *)
LEMMA SetTopMarks ==
  ASSUME NEW s, Stacked(s), s # <<>>, NEW f \in Frames, f.type = s[1].type,
         f.at # "enter", s[1].at = "enter" => ~Marked(s, f.type)
  PROVE  /\ Stacked(<<f>> \o Tail(s))
         /\ \A T \in Types : Marked(<<f>> \o Tail(s), T) <=> Marked(s, T) \/ T = f.type
         /\ \A T \in Types : Leaves(<<f>> \o Tail(s), T) <=> T = f.type /\ f.at = "leave"
<1> DEFINE q == <<f>> \o Tail(s)
<1>1. s \in Seq(Frames)
  BY DEF Stacked
<1>2. /\ Tail(s) \in Seq(Frames) /\ Len(s) \in Nat /\ Len(s) >= 1
      /\ DOMAIN s = 1..Len(s) /\ DOMAIN Tail(s) = 1..(Len(s) - 1)
      /\ \A i \in 1..(Len(s) - 1) : Tail(s)[i] = s[i + 1]
  BY <1>1, TailFacts
<1>3. /\ q \in Seq(Frames) /\ Len(Tail(s)) = Len(s) - 1
      /\ DOMAIN q = 1..(Len(Tail(s)) + 1) /\ q[1] = f
      /\ \A i \in 1..Len(Tail(s)) : q[i + 1] = Tail(s)[i]
  BY <1>2, ConsFacts
<1> HIDE DEF q
<1>4. DOMAIN q = DOMAIN s /\ q[1] = f /\ \A i \in DOMAIN s : i # 1 => q[i] = s[i]
  <2>1. ASSUME NEW i \in DOMAIN s, i # 1  PROVE q[i] = s[i]
    <3>1. i - 1 \in 1..(Len(s) - 1) /\ (i - 1) + 1 = i
      BY <2>1, <1>2
    <3> QED  BY <3>1, <1>2, <1>3
  <2> QED  BY <2>1, <1>2, <1>3
<1>5. 1 \in DOMAIN s
  BY <1>2
<1>6. s[1].at # "enter" => Marked(s, f.type)
  BY <1>5 DEF Marked
<1>7. Stacked(q)
  BY <1>3, <1>4, <1>5 DEF Stacked, Marked
<1>8. \A T \in Types : Marked(q, T) <=> Marked(s, T) \/ T = f.type
  BY <1>4, <1>5, <1>6 DEF Marked
<1>9. q # <<>>
  BY <1>2, <1>3
<1>10. \A T \in Types : Leaves(q, T) <=> T = f.type /\ f.at = "leave"
  BY <1>4, <1>9 DEF Leaves
<1> QED  BY <1>7, <1>8, <1>10 DEF q

(* ... a frame that returns takes its mark away, if it had one...           *)
LEMMA ReturnMarks ==
  ASSUME NEW s, Stacked(s), s # <<>>
  PROVE  /\ Stacked(Tail(s))
         /\ \A T \in Types :
              Marked(Tail(s), T)
                <=> Marked(s, T) /\ ~(T = s[1].type /\ s[1].at # "enter")
         /\ \A T \in Types : ~Leaves(Tail(s), T)
<1> DEFINE q == Tail(s)
<1>1. s \in Seq(Frames)
  BY DEF Stacked
<1>2. /\ q \in Seq(Frames) /\ Len(s) \in Nat /\ Len(s) >= 1
      /\ DOMAIN s = 1..Len(s) /\ DOMAIN q = 1..(Len(s) - 1)
      /\ \A i \in 1..(Len(s) - 1) : q[i] = s[i + 1]
  BY <1>1, TailFacts
<1> HIDE DEF q
<1>3. \A i \in DOMAIN q : i + 1 \in DOMAIN s /\ i + 1 # 1 /\ q[i] = s[i + 1]
  BY <1>2
<1>4. \A i \in DOMAIN s : i # 1 => /\ i - 1 \in DOMAIN q
                                   /\ q[i - 1] = s[i]
  BY <1>2
<1>5. \A i, k \in DOMAIN q : i + 1 = k + 1 => i = k
  BY <1>2
<1>6. 1 \in DOMAIN s
  BY <1>2
<1>7. Stacked(q)
  BY <1>2, <1>3, <1>5 DEF Stacked
<1>8. ASSUME NEW T \in Types
      PROVE  Marked(q, T) <=> Marked(s, T) /\ ~(T = s[1].type /\ s[1].at # "enter")
  BY <1>3, <1>4, <1>6 DEF Marked, Stacked
<1>9. \A T \in Types : ~Leaves(q, T)
  <2>1. q # <<>> => 1 \in DOMAIN q
    BY <1>2
  <2> QED  BY <2>1, <1>3 DEF Leaves, Stacked
<1> QED  BY <1>7, <1>8, <1>9 DEF q


(* ... one that ends in an exception too, and the frame below it goes on to *)
(* throw...                                                                 *)
LEMMA ThrownMarks ==
  ASSUME NEW s, Stacked(s), s # <<>>, NEW r,
         r = IF Len(s) = 1 THEN <<>>
             ELSE <<[s[2] EXCEPT !.at = "throw"]>> \o Tail(Tail(s))
  PROVE  /\ Stacked(r)
         /\ \A T \in Types :
              Marked(r, T) <=> Marked(s, T) /\ ~(T = s[1].type /\ s[1].at # "enter")
         /\ \A T \in Types : ~Leaves(r, T)
<1> DEFINE q == Tail(s)
<1>1. s \in Seq(Frames)
  BY DEF Stacked
<1>2. /\ q \in Seq(Frames) /\ Len(s) \in Nat /\ Len(s) >= 1
      /\ DOMAIN s = 1..Len(s) /\ DOMAIN q = 1..(Len(s) - 1)
      /\ \A i \in 1..(Len(s) - 1) : q[i] = s[i + 1]
  BY <1>1, TailFacts
<1>3. /\ Stacked(q) /\ \A T \in Types : ~Leaves(q, T)
      /\ \A T \in Types :
           Marked(q, T) <=> Marked(s, T) /\ ~(T = s[1].type /\ s[1].at # "enter")
  BY ReturnMarks
<1>4. CASE Len(s) = 1
  <2>1. q = <<>>
    BY <1>2, <1>4
  <2> QED  BY <1>3, <1>4, <2>1
<1>5. CASE Len(s) # 1
  <2> HIDE DEF q
  <2>1. 1 \in 1..(Len(s) - 1) /\ 2 \in DOMAIN s /\ 1 + 1 = 2
    BY <1>2, <1>5
  <2>2. q # <<>> /\ q[1] = s[2] /\ s[2].at = "factory" /\ 1 \in DOMAIN q
    BY <1>2, <2>1 DEF Stacked
  <2>3. q[1] \in Frames
    BY <1>2, <2>2
  <2>4. PICK f : f = [s[2] EXCEPT !.at = "throw"]
    OBVIOUS
  <2>5. f \in Frames /\ f.type = q[1].type /\ f.at = "throw"
    BY <2>2, <2>3, <2>4 DEF Frames, Container!Places
  <2>6. r = <<f>> \o Tail(q)
    BY <1>5, <2>4 DEF q
  <2>7. Marked(q, f.type)
    BY <2>2, <2>5 DEF Marked
  <2>8. /\ Stacked(r)
        /\ \A T \in Types : Marked(r, T) <=> Marked(q, T) \/ T = f.type
        /\ \A T \in Types : Leaves(r, T) <=> T = f.type /\ f.at = "leave"
    <3>1. f.at # "enter" /\ (q[1].at = "enter" => ~Marked(q, f.type))
      BY <2>2, <2>5
    <3>2. /\ Stacked(<<f>> \o Tail(q))
          /\ \A T \in Types :
               Marked(<<f>> \o Tail(q), T) <=> Marked(q, T) \/ T = f.type
          /\ \A T \in Types :
               Leaves(<<f>> \o Tail(q), T) <=> T = f.type /\ f.at = "leave"
      BY <1>3, <2>2, <2>5, <3>1, SetTopMarks
    <3> QED  BY <2>6, <3>2
  <2> QED  BY <1>3, <2>5, <2>7, <2>8
<1> QED  BY <1>4, <1>5

(* ... and an argument adds a frame without a mark.                         *)
LEMMA ArgumentMarks ==
  ASSUME NEW s, Stacked(s), s # <<>>, s[1].at = "factory",
         NEW e \in Frames, e.at = "enter",
         NEW g \in Frames, g.at = "factory", g.type = s[1].type
  PROVE  /\ Stacked(<<e, g>> \o Tail(s))
         /\ \A T \in Types : Marked(<<e, g>> \o Tail(s), T) <=> Marked(s, T)
<1> DEFINE q == <<e, g>> \o Tail(s)
<1>1. s \in Seq(Frames)
  BY DEF Stacked
<1>2. /\ Tail(s) \in Seq(Frames) /\ Len(s) \in Nat /\ Len(s) >= 1
      /\ DOMAIN s = 1..Len(s) /\ DOMAIN Tail(s) = 1..(Len(s) - 1)
      /\ \A i \in 1..(Len(s) - 1) : Tail(s)[i] = s[i + 1]
  BY <1>1, TailFacts
<1>3. /\ q \in Seq(Frames) /\ Len(Tail(s)) = Len(s) - 1
      /\ DOMAIN q = 1..(Len(Tail(s)) + 2) /\ q[1] = e /\ q[2] = g
      /\ \A i \in 1..Len(Tail(s)) : q[i + 2] = Tail(s)[i]
  BY <1>2, ConsTwoFacts
<1> HIDE DEF q
<1>4. ASSUME NEW i \in DOMAIN q, i # 1
      PROVE  /\ i - 1 \in DOMAIN s /\ q[i].at = s[i - 1].at
             /\ q[i].type = s[i - 1].type
             /\ i # 2 => i - 1 # 1
  <2>1. CASE i = 2
    BY <2>1, <1>2, <1>3
  <2>2. CASE i # 2
    <3>1. /\ i - 2 \in 1..(Len(s) - 1) /\ (i - 2) + 2 = i /\ (i - 2) + 1 = i - 1
          /\ i - 1 \in DOMAIN s /\ i - 1 # 1
      BY <1>2, <1>3, <1>4, <2>2
    <3> QED  BY <3>1, <1>2, <1>3
  <2> QED  BY <2>1, <2>2
<1>5. ASSUME NEW i \in DOMAIN s
      PROVE  /\ i + 1 \in DOMAIN q /\ i + 1 # 1 /\ (i + 1) - 1 = i
  BY <1>2, <1>3
<1>6. \A i, k \in DOMAIN q : i - 1 = k - 1 => i = k
  BY <1>3
<1>7. \A i \in DOMAIN q : i # 1 => q[i].at = "factory"
  BY <1>4, <1>3 DEF Stacked
<1>8. Stacked(q)
  BY <1>3, <1>4, <1>6, <1>7 DEF Stacked
<1>9. ASSUME NEW T \in Types  PROVE Marked(q, T) <=> Marked(s, T)
  <2>1. ASSUME Marked(q, T)  PROVE Marked(s, T)
    <3>1. PICK i \in DOMAIN q : q[i].type = T /\ q[i].at # "enter"
      BY <2>1 DEF Marked
    <3>2. i # 1
      BY <1>3, <3>1
    <3> QED  BY <1>4, <3>1, <3>2 DEF Marked
  <2>2. ASSUME Marked(s, T)  PROVE Marked(q, T)
    <3>1. PICK k \in DOMAIN s : s[k].type = T /\ s[k].at # "enter"
      BY <2>2 DEF Marked
    <3>2. PICK i \in DOMAIN q : i # 1 /\ i - 1 = k
      BY <1>5
    <3> QED  BY <1>4, <3>1, <3>2 DEF Marked
  <2> QED  BY <2>1, <2>2
<1> QED  BY <1>8, <1>9 DEF q


-----------------------------------------------------------------------------
(* The initial state of the container satisfies its invariant. *)
LEMMA ContainerInit ==
  Container!Init => ContainerInv
<1> SUFFICES ASSUME Container!Init PROVE ContainerInv
  OBVIOUS
<1>1. Stacked(<<>>) /\ \A T \in Types : ~Marked(<<>>, T)
  BY DEF Stacked, Marked
<1>2. ContainerTypes
  BY <1>1 DEF Container!Init, ContainerTypes
<1>3. Marks
  BY <1>1 DEF Container!Init, Marks
<1>4. Instances
  BY DEF Container!Init, Instances
<1> QED  BY <1>2, <1>3, <1>4 DEF ContainerInv

(* A step of a thread that changes its stack but no mark. *)
LEMMA SameMarks ==
  ASSUME ContainerInv, NEW t \in Resolvers, NEW s, Stacked(s),
         stack' = [stack EXCEPT ![t] = s],
         \A T \in Types : Marked(s, T) <=> Marked(stack[t], T),
         \A T \in Types : ~Leaves(stack[t], T),
         UNCHANGED <<factories, singletons, resolving, mtx, built>>
  PROVE  ContainerInv'
<1>0. stack'[t] = s /\ \A u \in Resolvers \ {t} : stack'[u] = stack[u]
  BY DEF ContainerInv, ContainerTypes
<1>1. ContainerTypes'
  BY <1>0 DEF ContainerInv, ContainerTypes, Stacked
<1>2. \A u \in Resolvers : \A T \in Types :
        Marked(stack'[u], T) <=> Marked(stack[u], T)
  BY <1>0
<1>3. Marks'
  BY <1>2 DEF ContainerInv, Marks
<1>4. Instances'
  BY <1>0 DEF ContainerInv, Instances, Leaves
<1> QED  BY <1>1, <1>3, <1>4 DEF ContainerInv


(* resolve() is called, or resolves an argument; it finds the instance, a   *)
(* cycle or no factory; the constructor throws: no mark changes.            *)
LEMMA QuietKeeps ==
  ASSUME ContainerInv, NEW t \in Resolvers,
         \/ \E T \in Types : Container!Resolve(t, T)
         \/ Container!Argument(t)
  PROVE  ContainerInv'
<1>0. stack[t] \in Seq(Frames) /\ Stacked(stack[t])
  BY DEF ContainerInv, ContainerTypes, Stacked
<1>1. \A T \in Types : [type |-> T, at |-> "enter", todo |-> {}] \in Frames
  BY DEF Frames, Container!Places
<1>2. ASSUME NEW T \in Types, Container!Resolve(t, T)  PROVE ContainerInv'
  <2>1. PICK f \in Frames : f = [type |-> T, at |-> "enter", todo |-> {}]
    BY <1>1
  <2>2. Stacked(<<f>>) /\ \A S \in Types : ~Marked(<<f>>, S)
    BY <2>1 DEF Stacked, Marked
  <2>3. stack[t] = <<>> /\ stack' = [stack EXCEPT ![t] = <<f>>]
        /\ UNCHANGED <<factories, singletons, resolving, mtx, built>>
    BY <1>2, <2>1 DEF Container!Resolve, Container!Frame
  <2>4. \A S \in Types : ~Marked(stack[t], S) /\ ~Leaves(stack[t], S)
    BY <2>3 DEF Marked, Leaves
  <2> QED  BY <2>2, <2>3, <2>4, SameMarks
<1>3. CASE Container!Argument(t)
  <2>1. /\ stack[t] # <<>> /\ Head(stack[t]).at = "factory"
        /\ UNCHANGED <<factories, singletons, resolving, mtx, built>>
    BY <1>3 DEF Container!Argument, Container!Top
  <2>2. Head(stack[t]) = stack[t][1] /\ stack[t][1] \in Frames
    BY <1>0, <2>1, HeadFacts
  <2>3. PICK A \in Head(stack[t]).todo :
          stack' = [stack EXCEPT ![t] =
                      <<[type |-> A, at |-> "enter", todo |-> {}],
                        [type |-> Head(stack[t]).type, at |-> "factory",
                         todo |-> Head(stack[t]).todo \ {A}]>> \o Tail(@)]
    BY <1>3, Zenon DEF Container!Argument, Container!Top, Container!Frame
  <2>4. PICK e, g : /\ e = [type |-> A, at |-> "enter", todo |-> {}]
                    /\ g = [type |-> Head(stack[t]).type, at |-> "factory",
                            todo |-> Head(stack[t]).todo \ {A}]
    OBVIOUS
  <2>5. A \in Types
    BY <2>2 DEF Frames
  <2>6. e \in Frames /\ e.at = "enter"
    BY <1>1, <2>4, <2>5
  <2>7. g \in Frames /\ g.at = "factory" /\ g.type = stack[t][1].type
    BY <2>1, <2>2, <2>4 DEF Frames, Container!Places
  <2>8. stack' = [stack EXCEPT ![t] = <<e, g>> \o Tail(stack[t])]
    BY <2>3, <2>4
  <2>9. /\ Stacked(<<e, g>> \o Tail(stack[t]))
        /\ \A T \in Types : Marked(<<e, g>> \o Tail(stack[t]), T) <=> Marked(stack[t], T)
    BY <1>0, <2>1, <2>2, <2>6, <2>7, ArgumentMarks
  <2>10. \A T \in Types : ~Leaves(stack[t], T)
    BY <2>1, <2>2 DEF Leaves
  <2> QED  BY <2>1, <2>8, <2>9, <2>10, SameMarks
<1> QED  BY <1>2, <1>3

(* The first locked part of resolve(). *)
LEMMA EnterKeeps ==
  ASSUME ContainerInv, NEW t \in Resolvers, Container!Enter(t)
  PROVE  ContainerInv'
<1>0. stack[t] \in Seq(Frames) /\ Stacked(stack[t])
  BY DEF ContainerInv, ContainerTypes, Stacked
<1>1. stack[t] # <<>> /\ Head(stack[t]) = stack[t][1] /\ stack[t][1] \in Frames
      /\ stack[t][1].at = "enter"
  BY <1>0, HeadFacts DEF Container!Enter, Container!Top
<1>2. \A T \in Types : ~Leaves(stack[t], T)
  BY <1>1 DEF Leaves
<1>3. PICK T \in Types : Head(stack[t]).type = T
  BY <1>1 DEF Frames
<1>4. UNCHANGED <<factories, singletons, built>> /\ mtx = Nobody
  BY DEF Container!Enter, ContainerInv, ContainerTypes
<1>5. CASE stack' = Container!Returned(t) /\ UNCHANGED <<resolving, mtx>>
  <2>1. stack' = [stack EXCEPT ![t] = Tail(stack[t])]
    BY <1>5 DEF Container!Returned
  <2> QED  BY <2>1, <1>0, <1>1, <1>2, <1>4, <1>5, ReturnMarks, SameMarks
<1>6. CASE stack' = Container!Thrown(t) /\ UNCHANGED <<resolving, mtx>>
  <2>1. PICK r : r = IF Len(stack[t]) = 1 THEN <<>>
                     ELSE <<[stack[t][2] EXCEPT !.at = "throw"]>>
                            \o Tail(Tail(stack[t]))
    OBVIOUS
  <2>2. stack' = [stack EXCEPT ![t] = r]
    BY <1>6, <2>1 DEF Container!Thrown
  <2>3. Stacked(r) /\ \A S \in Types : Marked(r, S) <=> Marked(stack[t], S)
    <3>1. /\ Stacked(r)
          /\ \A S \in Types :
               Marked(r, S) <=> /\ Marked(stack[t], S)
                                /\ ~(/\ S = stack[t][1].type
                                     /\ stack[t][1].at # "enter")
      BY <2>1, <1>0, <1>1, ThrownMarks
    <3> QED  BY <3>1, <1>1
  <2> QED  BY <2>2, <2>3, <1>2, <1>4, <1>6, SameMarks
<1>7. CASE /\ T \notin singletons /\ T \notin resolving /\ factories[T] # Nobody
           /\ resolving' = resolving \cup {T} /\ mtx' = Nobody
           /\ stack' = [stack EXCEPT ![t] =
                <<[type |-> T, at |-> "factory", todo |-> factories[T]]>> \o Tail(@)]
  <2>1. PICK f : f = [type |-> T, at |-> "factory", todo |-> factories[T]]
    OBVIOUS
  <2>2. f \in Frames /\ f.type = T /\ f.at = "factory"
    BY <2>1, <1>7 DEF Frames, Container!Places, ContainerInv, ContainerTypes
  <2>3. PICK s : s = <<f>> \o Tail(stack[t])
    OBVIOUS
  <2>4. ~Marked(stack[t], T)
    BY <1>7 DEF ContainerInv, Marks
  <2>5. /\ Stacked(s)
        /\ \A S \in Types : Marked(s, S) <=> Marked(stack[t], S) \/ S = T
    <3>1. f.type = stack[t][1].type /\ f.at # "enter"
      BY <2>2, <1>1, <1>3
    <3>2. /\ Stacked(<<f>> \o Tail(stack[t]))
          /\ \A S \in Types : Marked(<<f>> \o Tail(stack[t]), S)
                                <=> Marked(stack[t], S) \/ S = f.type
      BY <3>1, <2>2, <2>4, <1>0, <1>1, SetTopMarks
    <3> QED  BY <3>2, <2>2, <2>3
  <2>f. stack' = [stack EXCEPT ![t] = s]
    BY <1>7, <2>1, <2>3
  <2>6. stack'[t] = s /\ \A u \in Resolvers \ {t} : stack'[u] = stack[u]
    BY <2>f DEF ContainerInv, ContainerTypes
  <2>7. ContainerTypes'
    <3>1. \A u \in Resolvers : Stacked(stack'[u])
      BY <2>5, <2>6 DEF ContainerInv, ContainerTypes
    <3>2. DOMAIN stack' = Resolvers /\ stack' = [u \in Resolvers |-> stack'[u]]
      BY <2>f DEF ContainerInv, ContainerTypes
    <3>3. resolving' \in SUBSET Types /\ mtx' = Nobody
      BY <1>7 DEF ContainerInv, ContainerTypes
    <3> QED  BY <3>1, <3>2, <3>3, <1>4 DEF ContainerInv, ContainerTypes
  <2>8. Marks'
    <3>1. \A u \in Resolvers : ~Marked(stack[u], T)
      BY <1>7 DEF ContainerInv, Marks
    <3>2. \A u \in Resolvers : \A S \in Types :
            Marked(stack'[u], S) <=> Marked(stack[u], S) \/ (u = t /\ S = T)
      BY <2>5, <2>6
    <3> QED  BY <3>1, <3>2, <1>7 DEF ContainerInv, Marks
  <2>9. Instances'
    BY <1>2, <1>4, <1>7, <2>6 DEF ContainerInv, Instances, Leaves
  <2> QED  BY <2>7, <2>8, <2>9 DEF ContainerInv
<1> QED
  BY <1>3, <1>5, <1>6, <1>7
     DEF Container!Enter, Container!Top, Container!Cached, Container!Circular,
         Container!HasFactory, Container!OwnerInFactory, Container!SetTop,
         Container!Frame


(* The factory makes the component, or its constructor throws. *)
LEMMA ConstructKeeps ==
  ASSUME ContainerInv, NEW t \in Resolvers, Container!Construct(t)
  PROVE  ContainerInv'
<1>0. stack[t] \in Seq(Frames) /\ Stacked(stack[t])
  BY DEF ContainerInv, ContainerTypes, Stacked
<1>1. stack[t] # <<>> /\ Head(stack[t]) = stack[t][1] /\ stack[t][1] \in Frames
      /\ stack[t][1].at = "factory"
  BY <1>0, HeadFacts DEF Container!Construct, Container!Top
<1>2. \A S \in Types : ~Leaves(stack[t], S)
  BY <1>1 DEF Leaves
<1>3. PICK T \in Types : Head(stack[t]).type = T
  BY <1>1 DEF Frames
<1>m. Marked(stack[t], T)
  <2>1. 1 \in DOMAIN stack[t]
    BY <1>0, <1>1, TailFacts
  <2> QED  BY <2>1, <1>1, <1>3 DEF Marked
<1>4. UNCHANGED <<factories, singletons, resolving, mtx>>
  BY DEF Container!Construct
<1>5. ASSUME NEW place1 \in {"leave", "throw"}
      PROVE  LET s == <<[type |-> T, at |-> place1, todo |-> {}]>> \o Tail(stack[t])
             IN  /\ Stacked(s)
                 /\ \A S \in Types : Marked(s, S) <=> Marked(stack[t], S)
                 /\ \A S \in Types : Leaves(s, S) <=> S = T /\ place1 = "leave"
  <2>1. PICK f : f = [type |-> T, at |-> place1, todo |-> {}]
    OBVIOUS
  <2>2. f \in Frames /\ f.type = T /\ f.at = place1 /\ f.at # "enter"
        /\ f.type = stack[t][1].type /\ stack[t][1].at # "enter"
    BY <2>1, <1>1, <1>3 DEF Frames, Container!Places
  <2>3. /\ Stacked(<<f>> \o Tail(stack[t]))
        /\ \A S \in Types : Marked(<<f>> \o Tail(stack[t]), S)
                              <=> Marked(stack[t], S) \/ S = f.type
        /\ \A S \in Types : Leaves(<<f>> \o Tail(stack[t]), S)
                              <=> S = f.type /\ f.at = "leave"
    BY <2>2, <1>0, <1>1, SetTopMarks
  <2> QED  BY <2>1, <2>2, <2>3, <1>m
<1>6. CASE /\ stack' = Container!SetTop(t, Container!Frame(T, "throw", {}))
           /\ UNCHANGED built
  <2>1. PICK s : s = <<[type |-> T, at |-> "throw", todo |-> {}]>> \o Tail(stack[t])
    OBVIOUS
  <2>2. stack' = [stack EXCEPT ![t] = s]
    BY <1>6, <2>1 DEF Container!SetTop, Container!Frame
  <2>3. Stacked(s) /\ \A S \in Types : Marked(s, S) <=> Marked(stack[t], S)
    BY <2>1, <1>5
  <2> QED  BY <2>2, <2>3, <1>2, <1>4, <1>6, SameMarks
<1>7. CASE /\ stack' = Container!SetTop(t, Container!Frame(T, "leave", {}))
           /\ built' = [built EXCEPT ![T] = @ + 1]
  <2>1. PICK s : s = <<[type |-> T, at |-> "leave", todo |-> {}]>> \o Tail(stack[t])
    OBVIOUS
  <2>2. stack' = [stack EXCEPT ![t] = s]
    BY <1>7, <2>1 DEF Container!SetTop, Container!Frame
  <2>3. /\ Stacked(s) /\ \A S \in Types : Marked(s, S) <=> Marked(stack[t], S)
        /\ Leaves(s, T)
    BY <2>1, <1>5
  <2>4. stack'[t] = s /\ \A u \in Resolvers \ {t} : stack'[u] = stack[u]
    BY <2>2 DEF ContainerInv, ContainerTypes
  <2>5. ContainerTypes'
    <3>1. \A u \in Resolvers : Stacked(stack'[u])
      BY <2>3, <2>4 DEF ContainerInv, ContainerTypes
    <3>2. DOMAIN stack' = Resolvers /\ stack' = [u \in Resolvers |-> stack'[u]]
      BY <2>2 DEF ContainerInv, ContainerTypes
    <3>3. built' \in [Types -> Nat]
      BY <1>7 DEF ContainerInv, ContainerTypes
    <3> QED  BY <3>1, <3>2, <3>3, <1>4 DEF ContainerInv, ContainerTypes
  <2>6. Marks'
    <3>1. \A u \in Resolvers : \A S \in Types :
            Marked(stack'[u], S) <=> Marked(stack[u], S)
      BY <2>3, <2>4
    <3> QED  BY <3>1, <1>4 DEF ContainerInv, Marks
  <2>7. built[T] = 0
    <3>1. T \in resolving /\ T \notin singletons
      BY <1>m DEF ContainerInv, Marks, Instances
    <3>2. ASSUME NEW u \in Resolvers, Leaves(stack[u], T)  PROVE FALSE
      <4>0. stack[u] # <<>> /\ stack[u] \in Seq(Frames)
        BY <3>2 DEF Leaves, ContainerInv, ContainerTypes, Stacked
      <4>1. 1 \in DOMAIN stack[u]
        BY <4>0, TailFacts
      <4>2. Marked(stack[u], T)
        BY <3>2, <4>1 DEF Leaves, Marked
      <4>3. u = t
        BY <4>2, <1>m DEF ContainerInv, Marks
      <4> QED  BY <4>3, <3>2, <1>2
    <3> QED  BY <3>1, <3>2 DEF ContainerInv, Instances
  <2>8. Instances'
    <3>1. built'[T] = 1 /\ \A S \in Types \ {T} : built'[S] = built[S]
      BY <2>7, <1>7 DEF ContainerInv, ContainerTypes
    <3>2. Leaves(stack'[t], T)
          /\ \A S \in Types : \A u \in Resolvers :
               Leaves(stack[u], S) => Leaves(stack'[u], S)
      BY <2>3, <2>4, <1>2
    <3>3. ASSUME NEW S \in Types
          PROVE  /\ built'[S] <= 1
                 /\ built'[S] # 0 => S \in singletons'
                                     \/ \E u \in Resolvers : Leaves(stack'[u], S)
      <4>1. CASE S = T
        BY <4>1, <3>1, <3>2
      <4>2. CASE S # T
        BY <4>2, <3>1, <3>2, <1>4 DEF ContainerInv, Instances
      <4> QED  BY <4>1, <4>2
    <3> QED  BY <3>3, <1>4 DEF ContainerInv, Instances
  <2> QED  BY <2>5, <2>6, <2>8 DEF ContainerInv
<1> QED
  BY <1>3, <1>6, <1>7 DEF Container!Construct, Container!Top

(* The second locked part: the instance is cached, or the exception goes    *)
(* on; either way the mark goes with the frame.                             *)
LEMMA EndsKeep ==
  ASSUME ContainerInv, NEW t \in Resolvers, Container!Leave(t) \/ Container!Throw(t)
  PROVE  ContainerInv'
<1>0. stack[t] \in Seq(Frames) /\ Stacked(stack[t])
  BY DEF ContainerInv, ContainerTypes, Stacked
<1>1. stack[t] # <<>> /\ Head(stack[t]) = stack[t][1] /\ stack[t][1] \in Frames
      /\ stack[t][1].at \in {"leave", "throw"}
  BY <1>0, HeadFacts DEF Container!Leave, Container!Throw, Container!Top
<1>2. PICK T \in Types : stack[t][1].type = T
  BY <1>1 DEF Frames
<1>3. UNCHANGED <<factories, built>> /\ mtx' = Nobody /\ resolving' = resolving \ {T}
  BY <1>1, <1>2 DEF Container!Leave, Container!Throw, Container!Top,
     Container!ResolvingAfterThrow
<1>4. /\ singletons' \in {singletons, singletons \cup {T}}
      /\ stack[t][1].at = "leave" => singletons' = singletons \cup {T}
  BY <1>1, <1>2 DEF Container!Leave, Container!Throw, Container!Top
<1>5. PICK s : /\ stack' = [stack EXCEPT ![t] = s] /\ Stacked(s)
               /\ \A S \in Types : Marked(s, S) <=> Marked(stack[t], S) /\ S # T
  <2>1. CASE Container!Leave(t)
    <3>1. stack' = [stack EXCEPT ![t] = Tail(stack[t])]
      BY <2>1 DEF Container!Leave, Container!Returned
    <3>2. /\ Stacked(Tail(stack[t]))
          /\ \A S \in Types :
               Marked(Tail(stack[t]), S)
                 <=> Marked(stack[t], S) /\ ~(S = stack[t][1].type
                                              /\ stack[t][1].at # "enter")
      BY <1>0, <1>1, ReturnMarks
    <3> QED  BY <3>1, <3>2, <1>1, <1>2
  <2>2. CASE Container!Throw(t)
    <3>1. PICK r : r = IF Len(stack[t]) = 1 THEN <<>>
                       ELSE <<[stack[t][2] EXCEPT !.at = "throw"]>>
                              \o Tail(Tail(stack[t]))
      OBVIOUS
    <3>2. stack' = [stack EXCEPT ![t] = r]
      BY <2>2, <3>1 DEF Container!Throw, Container!Thrown
    <3>3. /\ Stacked(r)
          /\ \A S \in Types :
               Marked(r, S) <=> /\ Marked(stack[t], S)
                                /\ ~(/\ S = stack[t][1].type
                                     /\ stack[t][1].at # "enter")
      BY <3>1, <1>0, <1>1, ThrownMarks
    <3> QED  BY <3>2, <3>3, <1>1, <1>2
  <2> QED  BY <2>1, <2>2
<1>6. stack'[t] = s /\ \A u \in Resolvers \ {t} : stack'[u] = stack[u]
  BY <1>5 DEF ContainerInv, ContainerTypes
<1>7. ContainerTypes'
  <2>1. \A u \in Resolvers : Stacked(stack'[u])
    BY <1>5, <1>6 DEF ContainerInv, ContainerTypes
  <2>2. DOMAIN stack' = Resolvers /\ stack' = [u \in Resolvers |-> stack'[u]]
    BY <1>5 DEF ContainerInv, ContainerTypes
  <2>3. resolving' \in SUBSET Types /\ singletons' \in SUBSET Types
    BY <1>3, <1>4 DEF ContainerInv, ContainerTypes
  <2> QED  BY <2>1, <2>2, <2>3, <1>3 DEF ContainerInv, ContainerTypes
<1>m. Marked(stack[t], T)
  <2>1. 1 \in DOMAIN stack[t]
    BY <1>0, <1>1, TailFacts
  <2> QED  BY <2>1, <1>1, <1>2 DEF Marked
<1>8. Marks'
  <2>1. \A u \in Resolvers : Marked(stack[u], T) => u = t
    BY <1>m DEF ContainerInv, Marks
  <2>2. \A u \in Resolvers : \A S \in Types :
          Marked(stack'[u], S) <=> Marked(stack[u], S) /\ S # T
    BY <2>1, <1>5, <1>6
  <2> QED  BY <2>2, <1>3 DEF ContainerInv, Marks
<1>9. Instances'
  <2>1. \A S \in Types : Leaves(stack[t], S) => S \in singletons'
    BY <1>2, <1>4 DEF Leaves
  <2>2. resolving' \cap singletons' = {}
    BY <1>3, <1>4 DEF ContainerInv, Instances
  <2>3. \A S \in Types :
          built[S] # 0 => S \in singletons' \/ \E u \in Resolvers : Leaves(stack'[u], S)
    BY <2>1, <1>4, <1>6 DEF ContainerInv, Instances
  <2> QED  BY <2>2, <2>3, <1>3 DEF ContainerInv, Instances
<1> QED  BY <1>7, <1>8, <1>9 DEF ContainerInv

(* Registration leaves instances and frames alone, and clear() comes when   *)
(* there are no frames.                                                     *)
LEMMA RegistryKeeps ==
  ASSUME ContainerInv,
         \/ \E T \in Types : \E args \in SUBSET Types : Container!Register(T, args)
         \/ Container!Clear
  PROVE  ContainerInv'
<1>1. ASSUME NEW T \in Types, NEW args \in SUBSET Types, Container!Register(T, args)
      PROVE  ContainerInv'
  <2>1. /\ factories' = [factories EXCEPT ![T] = args]
        /\ UNCHANGED <<singletons, resolving, mtx, stack, built>>
    BY <1>1 DEF Container!Register
  <2>2. ContainerTypes'
    BY <2>1 DEF ContainerInv, ContainerTypes
  <2>3. Marks' /\ Instances'
    BY <2>1 DEF ContainerInv, Marks, Instances
  <2> QED  BY <2>2, <2>3 DEF ContainerInv
<1>2. CASE Container!Clear
  <2>1. \A t \in Resolvers : stack[t] = <<>>
    BY <1>2 DEF Container!Clear
  <2>2. \A T \in Types : ~Marked(<<>>, T)
    BY DEF Marked
  <2>3. ContainerTypes'
    BY <1>2 DEF Container!Clear, ContainerInv, ContainerTypes
  <2>4. Marks'
    BY <1>2, <2>1, <2>2 DEF Container!Clear, Marks
  <2>5. Instances'
    BY <1>2 DEF Container!Clear, Instances
  <2> QED  BY <2>3, <2>4, <2>5 DEF ContainerInv
<1> QED  BY <1>1, <1>2

(* The invariant of the container is inductive. *)
LEMMA ContainerStep ==
  ASSUME ContainerInv, [Container!Next]_container
  PROVE  ContainerInv'
<1>1. CASE Container!Next
  BY <1>1, QuietKeeps, EnterKeeps, ConstructKeeps, EndsKeep, RegistryKeeps
     DEF Container!Next, Container!Work
<1>2. CASE UNCHANGED container
  BY <1>2 DEF container, ContainerInv, ContainerTypes, Marks, Instances
<1> QED  BY <1>1, <1>2


(* What the invariant says of resolve(). *)
LEMMA ContainerInvSound ==
  ContainerInv => ResolveSound
<1> SUFFICES ASSUME ContainerInv PROVE ResolveSound
  OBVIOUS
<1>1. Container!TypeOK
  <2>1. ASSUME NEW t \in Resolvers, NEW i \in DOMAIN stack[t]
        PROVE  /\ stack[t][i].type \in Types /\ stack[t][i].at \in Container!Places
               /\ stack[t][i].todo # Nobody /\ stack[t][i].todo \subseteq Types
    <3>1. stack[t] \in Seq(Frames)
      BY DEF ContainerInv, ContainerTypes, Stacked
    <3>2. stack[t][i] \in Frames
      BY <3>1
    <3>3. \A args \in SUBSET Types : args # Nobody
      BY RuntimeAssumption DEF Container!DIAssumption
    <3> QED  BY <3>2, <3>3 DEF Frames
  <2> QED  BY <2>1 DEF Container!TypeOK, ContainerInv, ContainerTypes
<1>2. Container!SingleInstance
  BY DEF Container!SingleInstance, ContainerInv, Instances
<1>3. Container!ResolvingExact
  BY DEF Container!ResolvingExact, ContainerInv, ContainerTypes, Marks, Marked
<1>4. Container!NoRecursion
  <2> SUFFICES ASSUME NEW t \in Resolvers, NEW i \in DOMAIN stack[t],
                      NEW k \in DOMAIN stack[t], i < k,
                      stack[t][i].at # "enter", stack[t][i].type = stack[t][k].type
               PROVE  FALSE
    BY DEF Container!NoRecursion
  <2>0. Stacked(stack[t])
    BY DEF ContainerInv, ContainerTypes
  <2>1. DOMAIN stack[t] = 1..Len(stack[t]) /\ Len(stack[t]) \in Nat
    BY <2>0 DEF Stacked
  <2>2. k # 1 /\ i # k
    BY <2>1
  <2>3. stack[t][k].at # "enter"
    BY <2>0, <2>2 DEF Stacked
  <2> QED  BY <2>0, <2>2, <2>3 DEF Stacked
<1> QED  BY <1>1, <1>2, <1>3, <1>4 DEF ResolveSound, Container!ResolveSound

(* ResolveSound for any component types, threads and registrations: one     *)
(* instance of a component between two clear()s, resolving_ holds exactly   *)
(* the types whose factory a thread is in, and no factory runs inside       *)
(* itself.                                                                  *)
THEOREM ResolveCorrect == Container!Spec => []ResolveSound
<1>1. ASSUME ContainerInv, [Container!Next]_Container!vars  PROVE ContainerInv'
  BY <1>1, ContainerStep DEF Container!vars, container
<1>2. Container!Spec => []ContainerInv
  BY ContainerInit, <1>1, PTL DEF Container!Spec
<1> QED  BY <1>2, ContainerInvSound, PTL
==============================================================================
