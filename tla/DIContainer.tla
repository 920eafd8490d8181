----------------------------- MODULE DIContainer -----------------------------
(***************************************************************************)
(* DI_Container: resolve<T>() builds a component from its factory, which   *)
(* resolves the arguments of its constructor, and caches it.  The mutex is *)
(* released while the factory runs, so that a resolve is a stack of        *)
(* frames and the threads interleave between their locked parts.           *)
(***************************************************************************)
EXTENDS Integers, Sequences, FiniteSets

CONSTANTS
  Types,          \* the component types
  Threads,        \* threads that resolve
  MaxEdges,       \* bound on the arguments of all factories together
  Nobody          \* the mutex is free, a type has no factory

DIAssumption ==
  /\ IsFiniteSet(Types) /\ MaxEdges \in Nat
  /\ Nobody \notin Threads /\ \A args \in SUBSET Types : args # Nobody

VARIABLES
  factories,      \* component_factories_: of a type, the types of Args...
  singletons,     \* singletons_: the types with a cached instance
  resolving,      \* resolving_
  mtx,            \* owner of mtx_
  stack,          \* frames of the resolve() in each thread, innermost first
  built           \* history: instances made of each type since a clear()

vars == <<factories, singletons, resolving, mtx, stack, built>>

(* A frame: its type, where it is, and the arguments yet to be resolved.    *)
Frame(T, at, todo) == [type |-> T, at |-> at, todo |-> todo]
Places == {"enter", "factory", "leave", "throw"}
MaxDepth == Cardinality(Types) + 1   \* the stack never grows past this

Top(t) == Head(stack[t])
SetTop(t, frame) == [stack EXCEPT ![t] = <<frame>> \o Tail(@)]
(* A resolve() ends: its caller, a factory, goes on or sees the exception.  *)
Returned(t) == [stack EXCEPT ![t] = Tail(@)]
Thrown(t) ==
  [stack EXCEPT ![t] = IF Len(@) = 1 THEN <<>>
                       ELSE <<[@[2] EXCEPT !.at = "throw"]>> \o Tail(Tail(@))]

(* The decisions of the code; a mutant of one stands before it.             *)
(* A type that is being resolved is a circular dependency. *)
Circular(T) == T \in resolving

(* A cached instance is returned. *)
Cached(T) == T \in singletons

(* it_factory is not end(). *)
HasFactory(T) == factories[T] # Nobody

HoldsLock(t) == t                                              \* mutant
(* The mutex is released while the factory runs. *)
OwnerInFactory(t) == Nobody

StaysMarked(T) == resolving                                    \* mutant
(* On an exception the type is taken out of the resolving set. *)
ResolvingAfterThrow(T) == resolving \ {T}

-----------------------------------------------------------------------------
(* register_component<T, Args...>, again or for the first time, of a type   *)
(* whose factory no thread is calling.                                      *)
Register(T, args) ==
  /\ mtx = Nobody /\ T \notin resolving
  /\ factories' = [factories EXCEPT ![T] = args]
  /\ Cardinality({e \in Types \X Types :
         factories'[e[1]] # Nobody /\ e[2] \in factories'[e[1]]}) <= MaxEdges
  /\ UNCHANGED <<singletons, resolving, mtx, stack, built>>

(* clear(), as the tests use it: between resolves. *)
Clear ==
  /\ mtx = Nobody /\ \A t \in Threads : stack[t] = <<>>
  /\ factories' = [T \in Types |-> Nobody]
  /\ singletons' = {} /\ resolving' = {}
  /\ built' = [T \in Types |-> 0]
  /\ UNCHANGED <<mtx, stack>>

Resolve(t, T) ==
  /\ stack[t] = <<>>
  /\ stack' = [stack EXCEPT ![t] = <<Frame(T, "enter", {})>>]
  /\ UNCHANGED <<factories, singletons, resolving, mtx, built>>

(* The first locked part of resolve(): the cache, the resolving set, the    *)
(* factory.                                                                 *)
Enter(t) ==
  LET T == Top(t).type IN
  /\ stack[t] # <<>> /\ Top(t).at = "enter" /\ mtx = Nobody
  /\ UNCHANGED <<factories, singletons, built>>
  /\ \/ /\ Cached(T)
        /\ stack' = Returned(t)
        /\ UNCHANGED <<resolving, mtx>>
     \/ /\ ~Cached(T) /\ Circular(T)
        /\ stack' = Thrown(t)
        /\ UNCHANGED <<resolving, mtx>>
     \/ /\ ~Cached(T) /\ ~Circular(T) /\ ~HasFactory(T)
        /\ stack' = Thrown(t)
        /\ UNCHANGED <<resolving, mtx>>
     \/ /\ ~Cached(T) /\ ~Circular(T) /\ HasFactory(T)
        /\ resolving' = resolving \cup {T}
        /\ mtx' = OwnerInFactory(t)
        /\ stack' = SetTop(t, Frame(T, "factory", factories[T]))

(* The factory resolves its arguments, in any order, and makes the          *)
(* component, whose constructor may throw.                                  *)
Argument(t) ==
  /\ stack[t] # <<>> /\ Top(t).at = "factory" /\ Len(stack[t]) < MaxDepth
  /\ \E A \in Top(t).todo :
       stack' = [stack EXCEPT ![t] =
                   <<Frame(A, "enter", {}),
                     Frame(Top(t).type, "factory", Top(t).todo \ {A})>>
                   \o Tail(@)]
  /\ UNCHANGED <<factories, singletons, resolving, mtx, built>>

Construct(t) ==
  /\ stack[t] # <<>> /\ Top(t).at = "factory" /\ Top(t).todo = {}
  /\ UNCHANGED <<factories, singletons, resolving, mtx>>
  /\ \/ /\ stack' = SetTop(t, Frame(Top(t).type, "leave", {}))
        /\ built' = [built EXCEPT ![Top(t).type] = @ + 1]
     \/ /\ stack' = SetTop(t, Frame(Top(t).type, "throw", {}))
        /\ UNCHANGED built

(* The second locked part: the instance is cached... *)
Leave(t) ==
  /\ stack[t] # <<>> /\ Top(t).at = "leave" /\ mtx \in {Nobody, t}
  /\ resolving' = resolving \ {Top(t).type}
  /\ singletons' = singletons \cup {Top(t).type}
  /\ mtx' = Nobody
  /\ stack' = Returned(t)
  /\ UNCHANGED <<factories, built>>

(* ... or, after an exception, the type is released and it goes on.         *)
Throw(t) ==
  /\ stack[t] # <<>> /\ Top(t).at = "throw" /\ mtx \in {Nobody, t}
  /\ resolving' = ResolvingAfterThrow(Top(t).type)
  /\ mtx' = Nobody
  /\ stack' = Thrown(t)
  /\ UNCHANGED <<factories, singletons, built>>

-----------------------------------------------------------------------------
Init ==
  /\ factories = [T \in Types |-> Nobody]
  /\ singletons = {} /\ resolving = {} /\ mtx = Nobody
  /\ stack = [t \in Threads |-> <<>>]
  /\ built = [T \in Types |-> 0]

Work(t) == Enter(t) \/ Argument(t) \/ Construct(t) \/ Leave(t) \/ Throw(t)

Next ==
  \/ \E T \in Types : \/ \E args \in SUBSET Types : Register(T, args)
                      \/ \E t \in Threads : Resolve(t, T)
  \/ Clear
  \/ \E t \in Threads : Work(t)

Spec == Init /\ [][Next]_vars

(* Threads that resolve go on; a mutex that is free is acquired. *)
Fairness == \A t \in Threads : WF_vars(Work(t))
FairSpec == Spec /\ Fairness

-----------------------------------------------------------------------------
TypeOK ==
  /\ factories \in [Types -> (SUBSET Types) \cup {Nobody}]
  /\ singletons \subseteq Types /\ resolving \subseteq Types
  /\ mtx \in Threads \cup {Nobody}
  /\ \A t \in Threads : \A i \in DOMAIN stack[t] :
       /\ stack[t][i].type \in Types /\ stack[t][i].at \in Places
       /\ stack[t][i].todo # Nobody   \* the arguments of a factory
       /\ stack[t][i].todo \subseteq Types
  /\ built \in [Types -> Nat]

(* A component is a singleton: between two clear()s one instance of it is   *)
(* made, however many threads resolve it, alone or as an argument, and      *)
(* whatever fails on the way.                                               *)
SingleInstance == \A T \in Types : built[T] <= 1

(* The resolving set holds the types whose factory a thread is in, and no   *)
(* other: an exception anywhere in a chain of factories leaves no type      *)
(* behind that could never be resolved again.                               *)
ResolvingExact ==
  resolving = {T \in Types : \E t \in Threads : \E i \in DOMAIN stack[t] :
                 stack[t][i].type = T /\ stack[t][i].at # "enter"}

(* No factory runs inside itself: a cycle of registrations ends in an       *)
(* exception before the stack repeats.                                      *)
NoRecursion ==
  \A t \in Threads : \A i, k \in DOMAIN stack[t] :
    /\ i < k
    /\ stack[t][i].at # "enter"
    => stack[t][i].type # stack[t][k].type

(* However many threads resolve and whatever fails: one instance of a       *)
(* component, no type left marked, no recursion.                            *)
ResolveSound == TypeOK /\ SingleInstance /\ ResolvingExact /\ NoRecursion

(* Every resolve() returns or throws: no thread waits for the mutex that it *)
(* or another one holds across a factory.                                   *)
ResolveEnds == \A t \in Threads : stack[t] # <<>> ~> stack[t] = <<>>
==============================================================================
