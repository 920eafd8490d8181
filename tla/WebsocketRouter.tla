--------------------------- MODULE WebsocketRouter ---------------------------
(***************************************************************************)
(* WebsocketRouter: sessions look up their handlers for every event while   *)
(* the application, or a handler itself, registers others.  The routes are  *)
(* under a shared mutex; a handler is called through a copy of its entry    *)
(* once the lock is released, so a registration may replace it in between.  *)
(* A handler is the number of its registration.                             *)
(***************************************************************************)
EXTENDS RoutePatterns, SequencesExt

CONSTANTS
  Threads,        \* threads that dispatch events or register
  Patterns,       \* patterns that are registered
  Paths,          \* paths of the sessions
  Base,           \* base_path_
  NoPath,         \* no path
  MaxAdds         \* bound on registrations

WsRouterAssumption ==
  /\ Base \in Seq(STRING)
  /\ Patterns \subseteq Seq(STRING) /\ Paths \subseteq Seq(STRING)
  /\ NoPath \notin Patterns \cup Paths \cup {Base \o p : p \in Patterns}
  /\ MaxAdds \in Nat

VARIABLES
  routes,         \* handlers_: [path, handler] in the order of the sort
  adds,           \* registrations so far
  readers,        \* threads that hold handlers_mutex_ shared
  path,           \* of each thread, the path it dispatches an event of
  running,        \* of each thread, the copy of the route that it found
  called,         \* threads that are inside the handler of that copy
  adding,         \* of each thread, the pattern it is about to register
  latest,         \* history: of each pattern, its last registration
  looked          \* history: of each thread, adds when it found its route

vars == <<routes, adds, readers, path, running, called, adding, latest,
          looked>>

NoRoute == [path |-> NoPath, handler |-> 0]

(* The decisions of the code; a mutant of one stands before it.             *)
MoreParamsFirst(a, b) ==                                       \* mutant
  IF Len(a) # Len(b) THEN Len(a) > Len(b)
  ELSE Cardinality(ParamAt(a)) > Cardinality(ParamAt(b))
(* compare_specificity over the counts of parse_path_pattern, which counts  *)
(* the slashes of the literal parts: every segment brings one.              *)
Before(a, b) ==
  IF Len(a) # Len(b) THEN Len(a) > Len(b)
  ELSE Cardinality(ParamAt(a)) < Cardinality(ParamAt(b))

HoldsLock(t) == readers                                        \* mutant
(* The readers once dispatch has copied the handlers of its route. *)
AfterCopy(t) == readers \ {t}

(* The route that already has the path. *)
RouteOf(p) == {i \in DOMAIN routes : routes[i].path = p}

-----------------------------------------------------------------------------
(* dispatch, for dispatch_open, _message, _close and _error: take the lock. *)
BeginDispatch(t, s) ==
  /\ path[t] = NoPath /\ adding[t] = NoPath
  /\ path' = [path EXCEPT ![t] = s]
  /\ readers' = readers \cup {t}
  /\ UNCHANGED <<routes, adds, running, called, adding, latest, looked>>

(* Find the first route that matches, copy its handlers and unlock. *)
Found(t) ==
  LET hits == {i \in DOMAIN routes : Matches(routes[i].path, path[t])} IN
  /\ t \in readers /\ running[t] = NoRoute
  /\ hits # {}
  /\ running' = [running EXCEPT ![t] = routes[FirstOf(hits)]]
  /\ readers' = AfterCopy(t)
  /\ looked' = [looked EXCEPT ![t] = adds]
  /\ UNCHANGED <<routes, adds, path, called, adding, latest>>

(* Call the handler of the copy, whatever was registered meanwhile. *)
Invoke(t) ==
  /\ running[t] # NoRoute /\ t \notin called
  /\ called' = called \cup {t}
  /\ UNCHANGED <<routes, adds, readers, path, running, adding, latest, looked>>

NoHandlerFound(t) ==
  /\ t \in readers /\ running[t] = NoRoute
  /\ \A i \in DOMAIN routes : ~Matches(routes[i].path, path[t])
  /\ path' = [path EXCEPT ![t] = NoPath]
  /\ readers' = readers \ {t}
  /\ UNCHANGED <<routes, adds, running, called, adding, latest, looked>>

HandlerReturns(t) ==
  /\ t \in called /\ adding[t] = NoPath
  /\ called' = called \ {t}
  /\ running' = [running EXCEPT ![t] = NoRoute]
  /\ looked' = [looked EXCEPT ![t] = 0]
  /\ path' = [path EXCEPT ![t] = NoPath]
  /\ readers' = readers \ {t}
  /\ UNCHANGED <<routes, adds, adding, latest>>

-----------------------------------------------------------------------------
(* A thread calls add_handler, from a handler it runs or from elsewhere. *)
WantAdd(t, p) ==
  /\ adding[t] = NoPath
  /\ t \in called \/ path[t] = NoPath
  /\ adds + Cardinality({u \in Threads : adding[u] # NoPath}) < MaxAdds
  /\ adding' = [adding EXCEPT ![t] = p]
  /\ UNCHANGED <<routes, adds, readers, path, running, called, latest, looked>>

Sorted(s) ==
  \A i, j \in DOMAIN s : i < j => ~Before(s[j].path, s[i].path)

(* The rest of add_handler, once nobody reads: a known path gets the new    *)
(* handlers, a new one is sorted in.                                        *)
AddHandler(t) ==
  LET p == Base \o adding[t]
      r == [path |-> p, handler |-> adds + 1] IN
  /\ adding[t] # NoPath /\ readers = {}
  /\ IF RouteOf(p) # {}
     THEN routes' = [routes EXCEPT ![FirstOf(RouteOf(p))] = r]
     ELSE routes' \in {s \in SetToSeqs(ToSet(routes) \cup {r}) : Sorted(s)}
  /\ adds' = adds + 1
  /\ latest' = [latest EXCEPT ![adding[t]] = adds + 1]
  /\ adding' = [adding EXCEPT ![t] = NoPath]
  /\ UNCHANGED <<readers, path, running, called, looked>>

-----------------------------------------------------------------------------
Init ==
  /\ routes = <<>> /\ adds = 0 /\ readers = {}
  /\ path = [t \in Threads |-> NoPath]
  /\ running = [t \in Threads |-> NoRoute]
  /\ adding = [t \in Threads |-> NoPath]
  /\ called = {}
  /\ latest = [p \in Patterns |-> 0]
  /\ looked = [t \in Threads |-> 0]

Step(t) == Found(t) \/ NoHandlerFound(t) \/ Invoke(t) \/ HandlerReturns(t)

Next == \E t \in Threads :
  \/ Step(t) \/ AddHandler(t)
  \/ \E s \in Paths : BeginDispatch(t, s)
  \/ \E p \in Patterns : WantAdd(t, p)

Spec == Init /\ [][Next]_vars

(* A thread runs on and handlers return; a writer gets a lock that is free  *)
(* again and again.  Whether it is, depends on the sessions: AddCompletes.  *)
Fairness == \A t \in Threads : WF_vars(Step(t)) /\ SF_vars(AddHandler(t))
FairSpec == Spec /\ Fairness

-----------------------------------------------------------------------------
(* doc/advanced.md: a static route always comes before a dynamic one.  An   *)
(* event of a path that was registered as a route without parameters goes   *)
(* to that route, also while routes are replaced and sorted.                *)
StaticFirst ==
  \A t \in Threads :
    /\ running[t] # NoRoute
    /\ running[t].path # path[t] /\ ParamAt(path[t]) = {}
    => \A i \in DOMAIN routes :
         routes[i].path = path[t] => routes[i].handler > running[t].handler

(* The handlers that dispatch calls are the last ones registered for their  *)
(* path, or they were replaced after it had found them: add_handler may run *)
(* between the unlock and the call, and is the only thing that may.         *)
OnlyFoundReplaced ==
  \A t \in called' \ called, p \in Patterns :
    running[t].path = Base \o p
      => running[t].handler = latest[p] \/ latest[p] > looked[t]

(* A registration ends although sessions dispatch all the time and although *)
(* a handler may replace itself while it runs, if only there is again and   *)
(* again a moment without a lookup: shared_mutex may let readers that       *)
(* follow each other closely starve the writer, handlers cannot.            *)
AddCompletes ==
  []<>(\A u \in readers : running[u] # NoRoute) =>
    \A t \in Threads : adding[t] # NoPath ~> adding[t] = NoPath
=============================================================================
