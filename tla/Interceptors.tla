---------------------------- MODULE Interceptors ----------------------------
(***************************************************************************)
(* One buffered request in the HttpRouter: the chain of asynchronous       *)
(* pre-interceptors, the handler, the exception pipeline and the           *)
(* post-interceptors.  An interceptor completes inside its call or later,  *)
(* from any thread, or throws; the completion of the chain is posted to    *)
(* the strand of the session, which dispatches the request.                *)
(***************************************************************************)
EXTENDS Integers, Sequences, FiniteSetsExt

CONSTANTS
  N,              \* number of interceptors
  Handlers        \* number of registered exception handlers

ChainAssumption == N \in Nat /\ Handlers \in Nat

VARIABLES
  index,          \* State::index: interceptors called so far
  active,         \* interceptors whose async_handle_request is running
  result,         \* of each interceptor: none, Continue, Stop
  threw,          \* history: interceptors that threw
  posted,         \* results of the chain, posted to the strand
  res,            \* the response
  failed,         \* an exception was handled: handle_exception ran
  dispatched,     \* results that the session has dispatched
  handled         \* the route handler was called

vars == <<index, active, result, threw, posted, res, failed, dispatched,
          handled>>

Chain == 1..N
Results == {"Continue", "Stop"}
(* HttpException, the two validation errors of typed routes, any other      *)
(* std::exception, any other type.                                          *)
Exceptions == {"http", "parameter", "body", "std", "other"}
(* A response: how it was decided, for which exception, who wrote into it.  *)
Response(by, e, parts) == [by |-> by, of |-> e, parts |-> parts]

(* The decisions of the code; a mutant of one stands before it.             *)
(* advance(): Stop, or the last interceptor's Continue, ends the chain. *)
EndsChain(r) == r = "Stop" \/ index = N

Rethrows(i) == {k \in active : k <= i}                         \* mutant
(* The catch block in advance() keeps an exception from the interceptors    *)
(* whose calls enclose this one.                                            *)
Caught(i) == {i}

Swallows == <<>>                                               \* mutant
(* The catch block stops the request. *)
CatchPosts == <<"Stop">>

(* reset_exception_response clears what was written before. *)
ResetParts(parts) == {}

(* No handler took the exception: the defaults. *)
Default(e) ==
  CASE e \in {"parameter", "body"} -> "400"
    [] e = "std" -> "500"
    [] e = "other" -> "unknown"

(* handle_exception: HttpException speaks for itself; else the registered   *)
(* handlers are asked in order until one handles the exception or fails;    *)
(* else the default.  A handler that fails leaves the headers it has set;   *)
(* the handler of unknown exceptions is taken not to throw.                 *)
HandleException(e, asked, parts) ==
  LET takers == {j \in 1..Handlers : asked[j] # "declines"}
      first == asked[Min(takers)]
      left == ResetParts(parts)
  IN  IF e = "http" THEN Response("exception", e, left)
      ELSE IF takers = {} THEN Response(Default(e), e, left)
      ELSE Response(IF first = "handles" THEN "mapped" ELSE "500", e,
                    left \cup {"mapper"})

(* What may become of one of the exceptions E, whatever the handlers do. *)
Handled(E, parts) ==
  {HandleException(e, asked, parts) :
     e \in E, asked \in [1..Handlers -> {"declines", "handles", "throws"}]}

-----------------------------------------------------------------------------
(* advance() calls the next interceptor or ends the chain. *)
Advance(r) ==
  IF EndsChain(r)
  THEN posted' = Append(posted, r) /\ UNCHANGED <<index, active>>
  ELSE /\ index' = index + 1
       /\ active' = active \cup {index + 1}
       /\ UNCHANGED posted

(* Interceptor i completes, in its call or later, and may have written the  *)
(* response it stops with.                                                  *)
Complete(i, r) ==
  /\ i <= index /\ result[i] = "none"
  /\ result' = [result EXCEPT ![i] = r]
  /\ Advance(r)
  /\ res' = [res EXCEPT !.parts = @ \cup {"interceptor"}]
  /\ UNCHANGED <<threw, failed, dispatched, handled>>

(* Its call returns... *)
Return(i) ==
  /\ i \in active
  /\ active' = active \ {i}
  /\ UNCHANGED <<index, result, threw, posted, res, failed, dispatched,
                 handled>>

(* ... or throws, which nothing keeps it from doing although it completed,  *)
(* or handed its completion to another thread.                              *)
Throw(i) ==
  /\ i \in active
  /\ res' \in Handled(Exceptions, res.parts)
  /\ failed' = TRUE
  /\ threw' = threw \cup {i}
  /\ posted' = IF Caught(i) = {i} THEN posted \o CatchPosts
               ELSE posted \o [k \in 1..Cardinality(Caught(i)) |-> "Stop"]
  /\ active' = active \ Caught(i)
  /\ UNCHANGED <<index, result, dispatched, handled>>

(* dispatch_request_after_interceptors: unless stopped, the handler, which  *)
(* writes its response or throws on the way; then the post-interceptors,    *)
(* one of which may throw; then the response.                               *)
Dispatch ==
  /\ posted # <<>>
  /\ posted' = Tail(posted)
  /\ dispatched' = dispatched + 1
  /\ \E throws, postThrows \in BOOLEAN :
       LET stop == Head(posted) = "Stop"
           wrote == IF stop THEN res
                    ELSE Response("handler", "none",
                                  res.parts \cup {"handler"})
           answers == IF throws THEN Handled(Exceptions, wrote.parts)
                      ELSE {wrote}
       IN  /\ stop => ~throws
           /\ handled' = (handled \/ ~stop)
           /\ failed' = (failed \/ throws \/ postThrows)
           /\ \E answer \in answers :
                IF postThrows THEN res' \in Handled({"std"}, answer.parts)
                ELSE res' = [answer EXCEPT !.parts = @ \cup {"post"}]
  /\ UNCHANGED <<index, active, result, threw>>

-----------------------------------------------------------------------------
(* handle_request starts the chain with advance(Continue). *)
Init ==
  /\ index = IF N = 0 THEN 0 ELSE 1
  /\ active = IF N = 0 THEN {} ELSE {1}
  /\ posted = IF N = 0 THEN <<"Continue">> ELSE <<>>
  /\ result = [i \in Chain |-> "none"]
  /\ threw = {} /\ failed = FALSE /\ handled = FALSE /\ dispatched = 0
  /\ res = Response("none", "none", {})

Intercept(i) ==
  (\E r \in Results : Complete(i, r)) \/ Return(i) \/ Throw(i)

Next == Dispatch \/ \E i \in Chain : Intercept(i)

Spec == Init /\ [][Next]_vars

(* An interceptor completes or throws, as its interface demands; one that   *)
(* threw owes nothing more.  The strand runs what was posted.               *)
Owed(i) == i \notin threw /\ Intercept(i)
Fairness == WF_vars(Dispatch) /\ \A i \in Chain : WF_vars(Owed(i))
FairSpec == Spec /\ Fairness

-----------------------------------------------------------------------------
(* The handler runs only if every interceptor let the request pass, and no  *)
(* interceptor is called after one that stopped it or threw.                *)
GuardsHold ==
  /\ handled => \A i \in Chain : result[i] = "Continue"
  /\ \A i \in Chain : i < index => result[i] = "Continue"

(* Interceptors that completed and threw: both count as their completion.   *)
Twice == {i \in threw : result[i] # "none"}

(* The request is dispatched once, also when calls of several interceptors  *)
(* enclose one another and the innermost throws; once more for each         *)
(* interceptor that completes and throws, and never more often than that.   *)
DispatchedOnce == dispatched + Len(posted) <= 1 + Cardinality(Twice)

(* A response to an exception has nothing in it that the handler or an      *)
(* interceptor wrote before it failed.  (The headers that an exception      *)
(* handler set before it failed itself stay in the 500.)                    *)
ErrorIsClean ==
  failed /\ dispatched > 0 /\ res.by # "handler" /\ Twice = {} =>
    res.parts \cap {"handler", "interceptor"} = {}

(* A request that fails validation is the client's error unless a mapper    *)
(* says otherwise: it is 500 only when the handler that took it failed.     *)
ValidationIs400 ==
  res.of \in {"parameter", "body"} =>
    /\ res.by \in {"400", "mapped", "500"}
    /\ "mapper" \in res.parts <=> res.by # "400"

(* No request passes an interceptor that did not let it; none is dispatched *)
(* more than once unless an interceptor completes and then throws; and an   *)
(* exception is answered as what it is, with nothing of what the handler or *)
(* the interceptors wrote.                                                  *)
ChainSound == GuardsHold /\ DispatchedOnce /\ ErrorIsClean /\ ValidationIs400

(* Every request that entered the chain is dispatched and so answered,      *)
(* whatever an interceptor throws, if the unknown exception handler, which  *)
(* nothing guards, does not throw itself.                                   *)
Dispatched == (active # {} \/ posted # <<>>) ~> dispatched > 0
=============================================================================
