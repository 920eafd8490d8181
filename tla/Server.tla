------------------------------- MODULE Server -------------------------------
(***************************************************************************)
(* Servers on the shared IoContextPool: the accept loop, the signal, stop  *)
(* and the end of run().  The workers of the pool and the callers of run() *)
(* take handlers from one io_context; stop() may be called by a handler or *)
(* by another thread of the application, and its parts interleave with     *)
(* them.                                                                   *)
(***************************************************************************)
EXTENDS Integers, FiniteSets

CONSTANTS
  Servers,        \* Server objects; each is named by the thread that run()s it
  Workers,        \* threads of the pool
  App,            \* another thread of the application
  Conns,          \* connections that clients make
  Idle            \* a thread without a handler

(* The handlers of the io_context and the calls, of a server or a connection. *)
Handlers ==
  {"accepted", "failed", "accept_again", "session", "signal", "close",
   "stop_pool"} \X (Servers \cup Conns)

ASSUME ServerAssumption ==
  /\ Servers \cap Workers = {} /\ App \notin Servers \cup Workers
  /\ Servers # {} /\ Workers # {}
  /\ Idle \notin Handlers \cup Workers

VARIABLES
  place,          \* of each thread: out, run (in ioc_.run()), join, end, threw
  exec,           \* of each thread: the handler or call it is in
  ready,          \* handlers that the io_context has to run
  open,           \* servers whose acceptor is open
  accepting,      \* servers with an async_accept pending
  waiting,        \* servers that wait for a signal
  stopped,        \* stopped_: the io_context is stopped
  joined,         \* workers that were joined
  joining,        \* of each server, the worker that its run() is joining
  served          \* of each connection: no, made, open (served), done

vars == <<place, exec, ready, open, accepting, waiting, stopped, joined,
          joining, served>>

Threads == Servers \cup Workers \cup {App}
On(what, x) == <<what, x>>
Accepted(s) == On("accepted", s)
Failed(s) == On("failed", s)

(* The decisions of the code; a mutant of one stands before it.             *)
(* on_accept: the loop goes on while the acceptor is open, also after an    *)
(* error.                                                                   *)
AcceptsAgain(s, ok) == s \in open

JoinsNobody == {}                                              \* mutant
(* shutdown() joins the joinable workers, also when stop() came before.     *)
Joins == Workers \ joined

(* Closing the acceptor takes the pending accept off. *)
AcceptingClosed(s) == accepting \ {s}

ClosesOnly(s) == Idle                                          \* mutant
(* stop(): after the acceptor, the pool. *)
AfterClose(s) == On("stop_pool", s)

-----------------------------------------------------------------------------
(* async_accept on an acceptor that another thread has closed fails. *)
DoAccept(s) ==
  /\ accepting' = IF s \in open THEN accepting \cup {s} ELSE accepting
  /\ ready' = IF s \in open THEN ready ELSE ready \cup {Failed(s)}

(* run(): local_endpoint() throws when stop() came first. *)
RunServer(s) ==
  /\ place[s] = "out"
  /\ \/ /\ s \in open
        /\ waiting' = waiting \cup {s}
        /\ DoAccept(s)
        /\ place' = [place EXCEPT ![s] = "run"]
     \/ /\ s \notin open
        /\ place' = [place EXCEPT ![s] = "threw"]
        /\ UNCHANGED <<waiting, accepting, ready>>
  /\ UNCHANGED <<exec, open, stopped, joined, joining, served>>

(* What happens outside: a client connects, accept fails while the acceptor *)
(* is open, a signal arrives.                                               *)
ClientConnects(s) ==
  /\ s \in accepting
  /\ \E c \in Conns : /\ served[c] = "no"
                      /\ served' = [served EXCEPT ![c] = "made"]
  /\ accepting' = accepting \ {s}
  /\ ready' = ready \cup {Accepted(s)}
  /\ UNCHANGED <<place, exec, open, waiting, stopped, joined, joining>>

AcceptFails(s) ==
  /\ s \in accepting
  /\ accepting' = accepting \ {s}
  /\ ready' = ready \cup {Failed(s)}
  /\ UNCHANGED <<place, exec, open, waiting, stopped, joined, joining, served>>

Signal ==
  /\ waiting # {}
  /\ ready' = ready \cup {On("signal", s) : s \in waiting}
  /\ waiting' = {}
  /\ UNCHANGED <<place, exec, open, accepting, stopped, joined, joining,
                 served>>

-----------------------------------------------------------------------------
(* ioc_.run(): take a handler, or return when the io_context is stopped. *)
Take(th) ==
  /\ place[th] = "run" /\ exec[th] = Idle /\ ~stopped
  /\ \E h \in ready : /\ exec' = [exec EXCEPT ![th] = h]
                      /\ ready' = ready \ {h}
  /\ UNCHANGED <<place, open, accepting, waiting, stopped, joined, joining,
                 served>>

LeaveRun(th) ==
  /\ place[th] = "run" /\ exec[th] = Idle /\ stopped
  /\ place' = [place EXCEPT ![th] = IF th \in Workers THEN "end" ELSE "join"]
  /\ UNCHANGED <<exec, ready, open, accepting, waiting, stopped, joined,
                 joining, served>>

(* on_accept: a new session, and is_open()... *)
OnAccept(th, s) ==
  /\ exec[th] \in {Accepted(s), Failed(s)}
  /\ LET ok == exec[th] = Accepted(s) IN
     /\ \/ ok /\ \E c \in Conns : /\ served[c] = "made"
                                  /\ served' = [served EXCEPT ![c] = "open"]
                                  /\ ready' = ready \cup {On("session", c)}
        \/ ~ok /\ UNCHANGED <<served, ready>>
     /\ exec' = [exec EXCEPT ![th] =
                   IF AcceptsAgain(s, ok) THEN On("accept_again", s) ELSE Idle]
  /\ UNCHANGED <<place, open, accepting, waiting, stopped, joined, joining>>

(* ... then do_accept, on an acceptor that may be closed by now. *)
AcceptAgain(th, s) ==
  /\ exec[th] = On("accept_again", s)
  /\ DoAccept(s)
  /\ exec' = [exec EXCEPT ![th] = Idle]
  /\ UNCHANGED <<place, open, waiting, stopped, joined, joining, served>>

(* A handler of a session: it is served, or goes on with another operation. *)
SessionStep(th, c) ==
  /\ exec[th] = On("session", c)
  /\ exec' = [exec EXCEPT ![th] = Idle]
  /\ \/ served' = [served EXCEPT ![c] = "done"] /\ UNCHANGED ready
     \/ ready' = ready \cup {On("session", c)} /\ UNCHANGED served
  /\ UNCHANGED <<place, open, accepting, waiting, stopped, joined, joining>>

(* handle_signal calls stop(); so may the application. *)
HandleSignal(th, s) ==
  /\ exec[th] = On("signal", s)
  /\ exec' = [exec EXCEPT ![th] = On("close", s)]
  /\ UNCHANGED <<place, ready, open, accepting, waiting, stopped, joined,
                 joining, served>>

CallStop(s) ==
  /\ exec[App] = Idle /\ s \in open
  /\ exec' = [exec EXCEPT ![App] = On("close", s)]
  /\ UNCHANGED <<place, ready, open, accepting, waiting, stopped, joined,
                 joining, served>>

(* stop(): acceptor_.close() fails the pending accept... *)
CloseAcceptor(th, s) ==
  /\ exec[th] = On("close", s)
  /\ open' = open \ {s}
  /\ accepting' = AcceptingClosed(s)
  /\ ready' = IF s \in accepting THEN ready \cup {Failed(s)} ELSE ready
  /\ exec' = [exec EXCEPT ![th] = AfterClose(s)]
  /\ UNCHANGED <<place, waiting, stopped, joined, joining, served>>

(* ... and IoContextPool::stop() makes every run() return. *)
StopPool(th, s) ==
  /\ exec[th] = On("stop_pool", s)
  /\ stopped' = TRUE
  /\ exec' = [exec EXCEPT ![th] = Idle]
  /\ UNCHANGED <<place, ready, open, accepting, waiting, joined, joining,
                 served>>

(* IoContextPool::shutdown(): join one worker after the other. *)
BeginJoin(s) ==
  /\ place[s] = "join" /\ joining[s] = Idle
  /\ \E w \in Joins : joining' = [joining EXCEPT ![s] = w]
  /\ UNCHANGED <<place, exec, ready, open, accepting, waiting, stopped, joined,
                 served>>

EndJoin(s) ==
  /\ joining[s] # Idle /\ place[joining[s]] = "end"
  /\ joined' = joined \cup {joining[s]}
  /\ joining' = [joining EXCEPT ![s] = Idle]
  /\ UNCHANGED <<place, exec, ready, open, accepting, waiting, stopped,
                 served>>

RunReturns(s) ==
  /\ place[s] = "join" /\ joining[s] = Idle /\ Joins = {}
  /\ place' = [place EXCEPT ![s] = "end"]
  /\ UNCHANGED <<exec, ready, open, accepting, waiting, stopped, joined,
                 joining, served>>

-----------------------------------------------------------------------------
Init ==
  /\ place = [th \in Threads |-> IF th \in Workers THEN "run" ELSE "out"]
  /\ exec = [th \in Threads |-> Idle]
  /\ ready = {} /\ accepting = {} /\ waiting = {} /\ joined = {}
  /\ open = Servers
  /\ stopped = FALSE
  /\ joining = [s \in Servers |-> Idle]
  /\ served = [c \in Conns |-> "no"]

Handle(th) ==
  \/ \E s \in Servers : \/ OnAccept(th, s) \/ AcceptAgain(th, s)
                        \/ HandleSignal(th, s) \/ CloseAcceptor(th, s)
                        \/ StopPool(th, s)
  \/ \E c \in Conns : SessionStep(th, c)

Return(s) == BeginJoin(s) \/ EndJoin(s) \/ RunReturns(s)

Next ==
  \/ \E s \in Servers : \/ RunServer(s) \/ ClientConnects(s) \/ AcceptFails(s)
                        \/ CallStop(s) \/ Return(s)
  \/ Signal
  \/ \E th \in Threads : Take(th) \/ LeaveRun(th) \/ Handle(th)

Spec == Init /\ [][Next]_vars

(* Handlers return, and run() goes on; nothing is assumed of clients. *)
Thread(th) ==
  Take(th) \/ LeaveRun(th) \/ Handle(th) \/ (th \in Servers /\ Return(th))

Fairness == \A th \in Threads : WF_vars(Thread(th))
FairSpec == Spec /\ Fairness

-----------------------------------------------------------------------------
(* When run() returns, no worker is in a handler any more or will enter     *)
(* one: the routers, handlers and acceptor it guards may be destroyed.      *)
NoHandlerAfterRun ==
  \A s \in Servers : place[s] = "end" =>
    \A w \in Workers : place[w] = "end" /\ exec[w] = Idle

(* A server that runs goes on accepting, whatever accept returned before:   *)
(* an operation is pending, or its handler or the next call on its way.     *)
Accepting ==
  \A s \in Servers : place[s] = "run" /\ s \in open =>
    \/ s \in accepting \/ ready \cap {Accepted(s), Failed(s)} # {}
    \/ \E th \in Threads :
         exec[th] \in {Accepted(s), Failed(s), On("accept_again", s)}

(* One accept at a time: the acceptor is used by no two handlers at once.   *)
OneAccept ==
  \A s \in Servers :
    Cardinality({th \in Threads : exec[th] \in
                   {Accepted(s), Failed(s), On("accept_again", s)}})
    + Cardinality(ready \cap {Accepted(s), Failed(s)})
    + (IF s \in accepting THEN 1 ELSE 0) <= 1

(* A server that runs has one accept operation, and once run() returned no  *)
(* handler is left that could use it.                                       *)
ServerSound == NoHandlerAfterRun /\ Accepting /\ OneAccept

(* After a signal, or stop() by any thread, run() returns, wherever the     *)
(* stop() was called: no thread joins itself.                               *)
StopEndsRun ==
  \A s \in Servers : s \notin open /\ place[s] = "run" ~> place[s] = "end"
=============================================================================
