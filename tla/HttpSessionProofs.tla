--------------------------- MODULE HttpSessionProofs ---------------------------
(***************************************************************************)
(* RequestSound and BodyExact of HttpSession, for every set of requests,    *)
(* every limit and every length of a connection.                            *)
(*                                                                         *)
(* Neither is inductive: that a request is answered once depends on which   *)
(* jobs can be in the strand's queue when a job runs.  The inductive        *)
(* invariant says for every place of the session (st) which queue, which    *)
(* response in progress and which rest of the body it can have.             *)
(*                                                                         *)
(* Then, what a request passes on its way to its handler: the chain of      *)
(* Interceptors, and HttpRouter with TypedRoutes and OpenApi, for any       *)
(* routes, requests and orders of registration.                             *)
(***************************************************************************)
EXTENDS HttpSession, TLAPS, SequenceTheorems, FiniteSetTheorems,
        WellFoundedInduction

(* Nothing is queued and nothing is being written. *)
Quiet == jobs = <<>> /\ writing = <<>>

(* Nothing was sent for the current request. *)
Unanswered == answered = 0 /\ posts = 0 /\ via = "none"

(* The flags that do_read clears. *)
Cleared == ~streamDone /\ ~bodyCancelled

BufferedRoute == req.route \in {"buffered", "async"}

(* The body of a buffered route was read as a whole. *)
Whole == BufferedRoute => left = 0 /\ buffered = req.body

AtHeader ==
  st = "header" =>
    /\ req = None /\ Quiet /\ Unanswered /\ Cleared /\ ~owed /\ buffered = 0
    /\ BoundaryKept

AtContinue ==
  st = "continue" =>
    /\ req \in Requests /\ Quiet /\ Unanswered /\ Cleared /\ ~owed
    /\ buffered = 0 /\ left = req.body
    /\ req.route # "upgrade" /\ ~TooLarge(req)

AtBody ==
  st = "body" =>
    /\ req \in Requests /\ Quiet /\ Unanswered /\ Cleared /\ ~owed
    /\ BufferedRoute /\ left + buffered = req.body

AtPre ==
  st = "pre" =>
    /\ req \in Requests /\ Quiet /\ Unanswered /\ Cleared /\ ~owed /\ Whole

(* The job after the pre-interceptors is the only one. *)
AtDispatch ==
  st = "dispatch" =>
    /\ req \in Requests /\ Unanswered /\ Cleared /\ ~owed /\ Whole
    /\ writing = <<>>
    /\ jobs \in {<<Job("afterPre", x)>> : x \in {"Continue", "Stop"}}

(* An asynchronous handler answers once, and so does a stream handler that  *)
(* still owes an answer: only one that threw has posted two completions.    *)
AtHandler ==
  st = "handler" =>
    /\ req \in Requests /\ Unanswered /\ ~streamDone /\ Whole
    /\ writing = <<>>
    /\ req.route \in {"async", "stream"}
    /\ req.route = "async" => ~bodyCancelled
    /\ owed => \/ jobs = <<>>
               \/ jobs = <<CancelBody>> /\ req.route = "stream"
    /\ ~owed => \/ jobs = <<Complete>>
                \/ /\ req.route = "stream"
                   /\ jobs \in {<<Respond>>, <<Complete, Complete>>,
                                <<CancelBody, Complete>>,
                                <<CancelBody, Respond>>}

(* A connection that persists is at the boundary of a request. *)
AtBoundary(persistent) ==
  persistent => ~bodyCancelled /\ (BufferedRoute => left = 0)

(* One response is being written, or its end is the last in the queue; a    *)
(* second completion may be before it, and is ignored.                      *)
AtWriting ==
  st = "writing" =>
    /\ req \in Requests /\ ~owed /\ answered = 1
    /\ posts = (IF via = "context" THEN 1 ELSE 0)
    /\ \E b \in BOOLEAN :
         /\ AtBoundary(b)
         /\ \/ writing = <<b>> /\ jobs = <<>>
            \/ writing = <<b>> /\ jobs = <<Complete>> /\ streamDone /\ req.route # "async"
            \/ writing = <<>> /\ jobs = <<Job("written", b)>>
            \/ /\ writing = <<>> /\ jobs = <<Complete, Job("written", b)>>
               /\ streamDone /\ req.route # "async"

AtCrashed ==
  st = "crashed" =>
    /\ req \in Requests /\ req.route \in {"stream", "upgrade"} /\ ~owed
    /\ answered = 0 /\ posts = 1 /\ via = "none" /\ writing = <<>>
    /\ \/ jobs = <<>>
       \/ jobs = <<Complete>> /\ streamDone /\ req.route = "stream"

AtEnd ==
  st \in {"closed", "upgraded"} =>
    /\ Quiet /\ ~owed /\ answered \in {0, 1}
    /\ answered = 0 => posts = 0
    /\ answered = 1 => /\ posts = (IF via = "context" THEN 1 ELSE 0)
                       /\ st = "closed"

Places == {"header", "continue", "body", "pre", "dispatch", "handler",
           "writing", "closed", "upgraded", "crashed", "overrun"}

Types ==
  /\ st \in Places
  /\ req \in Requests \cup {None}
  /\ left \in Nat /\ buffered \in 0..Limit /\ requests \in 0..MaxRequests
  /\ streamDone \in BOOLEAN /\ bodyCancelled \in BOOLEAN
  /\ keepAlive \in BOOLEAN /\ owed \in BOOLEAN /\ broken \in BOOLEAN
  /\ answered \in Nat /\ posts \in Nat
  /\ via \in {"none", "reject", "context", "static", "stream"}

Inv ==
  /\ Types /\ AtHeader /\ AtContinue /\ AtBody /\ AtPre /\ AtDispatch
  /\ AtHandler /\ AtWriting /\ AtCrashed /\ AtEnd

-----------------------------------------------------------------------------
(* What is said of a place holds at every other one. *)
LEMMA Elsewhere ==
  /\ st' # "header" => AtHeader'
  /\ st' # "continue" => AtContinue'
  /\ st' # "body" => AtBody'
  /\ st' # "pre" => AtPre'
  /\ st' # "dispatch" => AtDispatch'
  /\ st' # "handler" => AtHandler'
  /\ st' # "writing" => AtWriting'
  /\ st' # "crashed" => AtCrashed'
  /\ st' \notin {"closed", "upgraded"} => AtEnd'
  BY DEF AtHeader, AtContinue, AtBody, AtPre, AtDispatch, AtHandler, AtWriting,
     AtCrashed, AtEnd

(* The invariant holds once the place that the session reaches does. *)
LEMMA Arrive ==
  ASSUME Types',
         \/ st' = "header" /\ AtHeader'
         \/ st' = "continue" /\ AtContinue'
         \/ st' = "body" /\ AtBody'
         \/ st' = "pre" /\ AtPre'
         \/ st' = "dispatch" /\ AtDispatch'
         \/ st' = "handler" /\ AtHandler'
         \/ st' = "writing" /\ AtWriting'
         \/ st' = "crashed" /\ AtCrashed'
         \/ st' \in {"closed", "upgraded"} /\ AtEnd'
         \/ st' = "overrun"
  PROVE  Inv'
  BY Elsewhere DEF Inv

(* Queues of one and of two jobs. *)
LEMMA OneJob ==
  ASSUME NEW a
  PROVE  /\ <<a>> # <<>> /\ Head(<<a>>) = a /\ Tail(<<a>>) = <<>>
         /\ Append(<<>>, a) = <<a>> /\ <<>> \o <<a>> = <<a>>
  OBVIOUS

(* A queue of two jobs. *)
LEMMA TwoJobs ==
  ASSUME NEW a, NEW b
  PROVE  /\ <<a, b>> # <<>> /\ Head(<<a, b>>) = a /\ Tail(<<a, b>>) = <<b>>
         /\ <<>> \o <<a, b>> = <<a, b>>
         /\ Append(<<a>>, b) = <<a, b>>
<1> DEFINE S == {a, b}
           t == Append(<<a>>, b)
<1>1. /\ <<a, b>> # <<>> /\ Head(<<a, b>>) = a /\ Tail(<<a, b>>) = <<b>>
      /\ <<>> \o <<a, b>> = <<a, b>>
  OBVIOUS
<1>2. <<a, b>> \in Seq(S) /\ t \in Seq(S) /\ Len(t) = 2 /\ t[1] = a /\ t[2] = b
  OBVIOUS
<1>3. Len(<<a, b>>) = 2 /\ <<a, b>>[1] = a /\ <<a, b>>[2] = b
  OBVIOUS
<1>4. \A i \in 1..2 : t[i] = <<a, b>>[i]
  <2>1. \A i \in 1..2 : i = 1 \/ i = 2
    OBVIOUS
  <2> QED
    BY <1>2, <1>3, <2>1
<1>5. t = <<a, b>>
  BY <1>2, <1>3, <1>4, SeqEqual
<1> QED
  BY <1>1, <1>5

(* What a job is. *)
LEMMA JobFields ==
  /\ Complete.do = "complete" /\ CancelBody.do = "cancelBody"
  /\ Respond.do = "respond"
  /\ \A do, arg : Job(do, arg).do = do /\ Job(do, arg).arg = arg
  BY DEF Complete, CancelBody, Respond, Job

(* Where the session is when a job of each kind is the next in the queue,   *)
(* and what is queued behind it.                                            *)
LEMMA AfterPreRuns ==
  ASSUME Inv, Runs("afterPre")
  PROVE  st = "dispatch" /\ Tail(jobs) = <<>> /\ Head(jobs).arg \in {"Continue", "Stop"}
<1>1. st = "dispatch"
  BY JobFields, OneJob, TwoJobs
  DEF Inv, Runs, Types, Places, Quiet, AtHeader, AtContinue,
     AtBody, AtPre, AtHandler, AtWriting, AtCrashed, AtEnd
<1>2. PICK x \in {"Continue", "Stop"} : jobs = <<Job("afterPre", x)>>
  BY <1>1 DEF Inv, AtDispatch
<1> QED
  BY <1>1, <1>2, OneJob, JobFields

(* The queues of a handler. *)
LEMMA HandlerQueue ==
  ASSUME Inv, st = "handler", jobs # <<>>
  PROVE  \/ owed /\ req.route = "stream" /\ Head(jobs) = CancelBody /\ Tail(jobs) = <<>>
         \/ ~owed /\ Head(jobs) = Complete /\ Tail(jobs) = <<>>
         \/ /\ ~owed /\ req.route = "stream"
            /\ \/ Head(jobs) = Respond /\ Tail(jobs) = <<>>
               \/ Head(jobs) = Complete /\ Tail(jobs) = <<Complete>>
               \/ Head(jobs) = CancelBody /\ Tail(jobs) \in {<<Complete>>, <<Respond>>}
<1>1. CASE owed
  <2>1. jobs = <<CancelBody>> /\ req.route = "stream"
    BY <1>1 DEF Inv, AtHandler
  <2> QED
    BY <1>1, <2>1, OneJob
<1>2. CASE ~owed
  <2>1. CASE jobs = <<Complete>>
    BY <1>2, <2>1, OneJob
  <2>2. CASE jobs = <<Respond>> /\ req.route = "stream"
    BY <1>2, <2>2, OneJob
  <2>3. CASE jobs = <<Complete, Complete>> /\ req.route = "stream"
    BY <1>2, <2>3, TwoJobs
  <2>4. CASE jobs \in {<<CancelBody, Complete>>, <<CancelBody, Respond>>} /\ req.route = "stream"
    BY <1>2, <2>4, TwoJobs
  <2> QED
    BY <1>2, <2>1, <2>2, <2>3, <2>4 DEF Inv, AtHandler
<1> QED
  BY <1>1, <1>2 DEF Inv, Types

(* ... a cancelled body... *)
LEMMA CancelBodyRuns ==
  ASSUME Inv, Runs("cancelBody")
  PROVE  /\ st = "handler" /\ req.route = "stream"
         /\ owed => Tail(jobs) = <<>>
         /\ ~owed => Tail(jobs) \in {<<Complete>>, <<Respond>>}
<1>1. st = "handler"
  BY JobFields, OneJob, TwoJobs
  DEF Inv, Runs, Types, Places, Quiet, AtHeader, AtContinue,
     AtBody, AtPre, AtDispatch, AtWriting, AtCrashed, AtEnd
<1> QED
  BY <1>1, JobFields, HandlerQueue DEF Runs

(* ... a response of a stream handler... *)
LEMMA RespondRuns ==
  ASSUME Inv, Runs("respond")
  PROVE  st = "handler" /\ req.route = "stream" /\ ~owed /\ Tail(jobs) = <<>>
<1>1. st = "handler"
  BY JobFields, OneJob, TwoJobs
  DEF Inv, Runs, Types, Places, Quiet, AtHeader, AtContinue,
     AtBody, AtPre, AtDispatch, AtWriting, AtCrashed, AtEnd
<1> QED
  BY <1>1, JobFields, HandlerQueue DEF Runs

(* ... a response that was written... *)
LEMMA WrittenRuns ==
  ASSUME Inv, Runs("written")
  PROVE  /\ st = "writing" /\ writing = <<>> /\ Tail(jobs) = <<>>
         /\ Head(jobs).arg \in BOOLEAN /\ AtBoundary(Head(jobs).arg)
<1>1. st = "writing"
  BY JobFields, OneJob, TwoJobs
  DEF Inv, Runs, Types, Places, Quiet, AtHeader, AtContinue,
     AtBody, AtPre, AtDispatch, AtHandler, AtCrashed, AtEnd
<1>2. PICK b \in BOOLEAN : AtBoundary(b) /\ writing = <<>> /\ jobs = <<Job("written", b)>>
  BY <1>1, JobFields, OneJob, TwoJobs DEF Inv, AtWriting, Runs
<1> QED
  BY <1>1, <1>2, JobFields, OneJob

(* ... and a response that is complete. *)
LEMMA CompleteRuns ==
  ASSUME Inv, Runs("complete")
  PROVE  \/ st = "handler" /\ ~owed /\ Tail(jobs) = <<>>
         \/ /\ st = "handler" /\ ~owed /\ req.route = "stream"
            /\ Tail(jobs) = <<Complete>>
         \/ /\ st = "writing" /\ streamDone /\ req.route # "async"
            /\ \E b \in BOOLEAN :
                 /\ AtBoundary(b)
                 /\ \/ writing = <<b>> /\ Tail(jobs) = <<>>
                    \/ writing = <<>> /\ Tail(jobs) = <<Job("written", b)>>
         \/ /\ st = "crashed" /\ streamDone /\ req.route = "stream"
            /\ Tail(jobs) = <<>>
<1>1. st \in {"handler", "writing", "crashed"}
  BY JobFields, OneJob, TwoJobs
  DEF Inv, Runs, Types, Places, Quiet, AtHeader, AtContinue,
     AtBody, AtPre, AtDispatch, AtEnd
<1>2. CASE st = "handler"
  BY <1>2, JobFields, HandlerQueue DEF Runs
<1>3. CASE st = "writing"
  <2>1. PICK b \in BOOLEAN :
          /\ AtBoundary(b)
          /\ \/ writing = <<b>> /\ jobs = <<>>
             \/ /\ writing = <<b>> /\ jobs = <<Complete>>
                /\ streamDone /\ req.route # "async"
             \/ writing = <<>> /\ jobs = <<Job("written", b)>>
             \/ /\ writing = <<>> /\ jobs = <<Complete, Job("written", b)>>
                /\ streamDone /\ req.route # "async"
    BY <1>3 DEF Inv, AtWriting
  <2>2. jobs # <<>> /\ jobs # <<Job("written", b)>>
    BY JobFields, OneJob DEF Runs
  <2>3. CASE jobs = <<Complete>>
    BY <1>3, <2>1, <2>2, <2>3, OneJob, TwoJobs
  <2>4. CASE jobs = <<Complete, Job("written", b)>>
    BY <1>3, <2>1, <2>2, <2>4, OneJob, TwoJobs
  <2> QED
    BY <2>1, <2>2, <2>3, <2>4
<1>4. CASE st = "crashed"
  BY <1>4, JobFields, OneJob, TwoJobs DEF Inv, AtCrashed, Runs
<1> QED
  BY <1>1, <1>2, <1>3, <1>4

(* What a request is. *)
LEMMA RequestFacts ==
  ASSUME NEW x \in Requests
  PROVE  /\ x.route \in Routes /\ x.body \in Nat /\ x # None
         /\ {x.declared, x.expect, x.keepAlive} \subseteq BOOLEAN
  BY HttpAssumption DEF Shape

-----------------------------------------------------------------------------
(* A response begins: the only one of its request, for which the post-      *)
(* interceptors ran if the handler answered.                                *)
LEMMA ResponseBegins ==
  ASSUME Inv, Types', req' \in Requests, Unanswered, writing = <<>>, ~owed',
         NEW kind \in {"reject", "context", "static", "stream"},
         NEW b \in BOOLEAN, SendResponse(kind, b), AtBoundary(b)',
         posts' = (IF kind = "context" THEN 1 ELSE 0),
         \/ jobs' = <<>>
         \/ jobs' = <<Complete>> /\ streamDone' /\ req'.route # "async"
  PROVE  Inv'
<1>1. st' = "writing" /\ writing' = <<b>> /\ answered' = 1 /\ via' = kind
  BY OneJob DEF SendResponse, Unanswered
<1>2. AtWriting'
  BY <1>1 DEF AtWriting
<1> QED
  BY <1>1, <1>2, Arrive

(* A header that was read keeps the invariant. *)
LEMMA ReadHeaderKeeps ==
  ASSUME Inv, NEW x \in Requests, ReadHeader(x)
  PROVE  Inv'
<1>1. /\ req = None /\ Quiet /\ Unanswered /\ Cleared /\ ~owed /\ buffered = 0
      /\ Types
  BY DEF Inv, AtHeader, ReadHeader
<1>2. /\ req' = x /\ left' = x.body /\ keepAlive' = x.keepAlive
      /\ requests' = requests + 1 /\ requests < MaxRequests
      /\ UNCHANGED <<buffered, bodyCancelled, streamDone, owed, jobs, broken,
                     posts, prev>>
  BY DEF ReadHeader, past
<1>3. x.route \in Routes /\ x.body \in Nat /\ x.keepAlive \in BOOLEAN
  BY RequestFacts
<1>4. requests' \in 0..MaxRequests
  BY <1>1, <1>2, HttpAssumption DEF Types
<1>5. NoResponse => Quiet' /\ Unanswered' /\ Cleared' /\ ~owed' /\ buffered' = 0
  BY <1>1, <1>2 DEF Quiet, Unanswered, Cleared, NoResponse
<1>6. NoResponse /\ st' \in Places => Types'
  BY <1>1, <1>2, <1>3, <1>4 DEF Types, NoResponse
<1>7. CASE x.route = "upgrade" /\ st' = "pre" /\ NoResponse
  <2>1. AtPre' /\ Types'
    BY <1>2, <1>5, <1>6, <1>7 DEF AtPre, Whole, BufferedRoute, Places
  <2> QED
    BY <1>7, <2>1, Arrive
<1>8. CASE x.route # "upgrade" /\ ~TooLarge(x) /\ st' = "continue" /\ NoResponse
  <2>1. AtContinue' /\ Types'
    BY <1>2, <1>5, <1>6, <1>8 DEF AtContinue, Places, TooLarge
  <2> QED
    BY <1>8, <2>1, Arrive
<1>9. CASE x.route # "upgrade" /\ st' = AfterHeader(x) /\ NoResponse
  <2>1. CASE st' = "pre" /\ (x.route = "stream" \/ x.body = 0)
    <3>1. AtPre' /\ Types'
      BY <1>2, <1>5, <1>6, <1>9, <2>1 DEF AtPre, Whole, BufferedRoute, Places
    <3> QED
      BY <2>1, <3>1, Arrive
  <2>2. CASE st' = "body" /\ x.route \in {"buffered", "async"}
    <3>1. AtBody' /\ Types'
      BY <1>2, <1>3, <1>5, <1>6, <1>9, <2>2 DEF AtBody, BufferedRoute, Places
    <3> QED
      BY <2>2, <3>1, Arrive
  <2> QED
    BY <1>3, <1>9, <2>1, <2>2 DEF AfterHeader, Routes
<1>10. CASE SendResponse("reject", FALSE)
  <2>1. Types'
    BY <1>1, <1>2, <1>3, <1>4, <1>10 DEF Types, SendResponse, Places
  <2> QED
    BY <1>1, <1>2, <1>10, <2>1, ResponseBegins DEF Unanswered, Quiet, AtBoundary
<1> QED
  BY <1>7, <1>8, <1>9, <1>10 DEF ReadHeader, RejectedKeepAlive

(* HeaderError, the end of 100 Continue, the body. *)
LEMMA HeaderErrorKeeps ==
  ASSUME Inv, HeaderError
  PROVE  Inv'
<1>1. Types' /\ AtEnd' /\ st' = "closed"
  BY DEF Inv, Types, Places, AtHeader, AtEnd, HeaderError, Quiet, Unanswered,
     body, history
<1> QED
  BY <1>1, Arrive

(* The interim response keeps the invariant. *)
LEMMA ContinueKeeps ==
  ASSUME Inv, ContinueDone
  PROVE  Inv'
<1>1. /\ req \in Requests /\ Quiet /\ Unanswered /\ Cleared /\ ~owed
      /\ buffered = 0 /\ left = req.body /\ req.route # "upgrade" /\ Types
  BY DEF Inv, AtContinue, ContinueDone
<1>2. UNCHANGED <<req, left, buffered, bodyCancelled, streamDone, keepAlive, owed, jobs,
                  writing, broken, requests, answered, posts, via>>
  BY DEF ContinueDone, body, history
<1>3. req.route \in Routes /\ req.body \in Nat
  BY <1>1, RequestFacts
<1>4. Quiet' /\ Unanswered' /\ Cleared' /\ ~owed' /\ (st' \in Places => Types')
  BY <1>1, <1>2 DEF Quiet, Unanswered, Cleared, Types
<1>5. CASE st' = "closed"
  <2>1. AtEnd' /\ Types'
    BY <1>4, <1>5 DEF AtEnd, Unanswered, Places
  <2> QED
    BY <1>5, <2>1, Arrive
<1>6. CASE st' = "pre" /\ (req.route = "stream" \/ req.body = 0)
  <2>1. AtPre' /\ Types'
    BY <1>1, <1>2, <1>4, <1>6 DEF AtPre, Whole, BufferedRoute, Places
  <2> QED
    BY <1>6, <2>1, Arrive
<1>7. CASE st' = "body" /\ req.route \in {"buffered", "async"}
  <2>1. AtBody' /\ Types'
    BY <1>1, <1>2, <1>3, <1>4, <1>7 DEF AtBody, BufferedRoute, Places
  <2> QED
    BY <1>7, <2>1, Arrive
<1> QED
  BY <1>1, <1>3, <1>5, <1>6, <1>7 DEF ContinueDone, AfterHeader, Routes

(* Each part of a buffered body is added to the rest of its own request. *)
LEMMA ReadBufferedKeeps ==
  ASSUME Inv, NEW k \in 1..left, ReadBufferedBody(k)
  PROVE  Inv'
<1>1. /\ req \in Requests /\ Quiet /\ Unanswered /\ Cleared /\ ~owed
      /\ BufferedRoute /\ left + buffered = req.body /\ Types
  BY DEF Inv, AtBody, ReadBufferedBody
<1>2. /\ UNCHANGED <<req, bodyCancelled, streamDone, keepAlive, owed, jobs,
                     broken, requests, posts, prev>>
      /\ left' = left - k
  BY DEF ReadBufferedBody, past
<1>3. left' \in Nat /\ k \in Nat /\ left \in Nat /\ buffered \in 0..Limit /\ Limit \in Nat
  BY <1>1, <1>2, HttpAssumption DEF Types
<1>4. CASE Exceeds(k)
  <2>1. SendResponse("reject", FALSE) /\ buffered' = buffered
    BY <1>4 DEF ReadBufferedBody, RejectedKeepAlive
  <2>2. Types'
    BY <1>1, <1>2, <1>3, <2>1 DEF Types, SendResponse, Places
  <2> QED
    BY <1>1, <1>2, <2>1, <2>2, ResponseBegins DEF Unanswered, Quiet, AtBoundary
<1>5. CASE ~Exceeds(k)
  <2>1. /\ buffered' = buffered + k /\ NoResponse
        /\ st' = IF left' = 0 THEN "pre" ELSE "body"
    BY <1>5 DEF ReadBufferedBody
  <2>2. buffered' \in 0..Limit /\ left' + buffered' = req.body
    BY <1>1, <1>2, <1>3, <1>5, <2>1 DEF Exceeds
  <2>3. Types' /\ Quiet' /\ Unanswered' /\ Cleared' /\ ~owed'
    BY <1>1, <1>2, <1>3, <2>1, <2>2 DEF Types, Places, NoResponse, Quiet,
       Unanswered, Cleared
  <2>4. CASE left' = 0
    <3>1. AtPre' /\ st' = "pre"
      BY <1>1, <1>2, <1>3, <2>1, <2>2, <2>3, <2>4 DEF AtPre, Whole
    <3> QED
      BY <2>3, <3>1, Arrive
  <2>5. CASE left' # 0
    <3>1. AtBody' /\ st' = "body"
      BY <1>1, <1>2, <2>1, <2>2, <2>3, <2>5 DEF AtBody, BufferedRoute
    <3> QED
      BY <2>3, <3>1, Arrive
  <2> QED
    BY <2>4, <2>5
<1> QED
  BY <1>4, <1>5

(* A body that cannot be read ends the session. *)
LEMMA BodyErrorKeeps ==
  ASSUME Inv, BodyError
  PROVE  Inv'
<1>1. Types' /\ AtEnd' /\ st' = "closed"
  BY DEF Inv, Types, Places, AtBody, AtEnd, BodyError, Quiet, Unanswered, body,
     history
<1> QED
  BY <1>1, Arrive

(* The pre-interceptors keep the invariant. *)
LEMMA PreDoneKeeps ==
  ASSUME Inv, NEW x \in {"Continue", "Stop"}, PreInterceptorsDone(x)
  PROVE  Inv'
<1>1. /\ req \in Requests /\ Quiet /\ Unanswered /\ Cleared /\ ~owed /\ Whole
      /\ Types
  BY DEF Inv, AtPre, PreInterceptorsDone
<1>2. /\ UNCHANGED <<req, left, buffered, bodyCancelled, streamDone, keepAlive,
                     owed, writing, broken, requests, answered, posts, via>>
      /\ st' = "dispatch" /\ jobs' = Append(jobs, Job("afterPre", x))
  BY DEF PreInterceptorsDone, body, history
<1>3. jobs' = <<Job("afterPre", x)>>
  BY <1>1, <1>2, OneJob DEF Quiet
<1>4. Types' /\ Unanswered' /\ Cleared' /\ ~owed' /\ Whole'
  BY <1>1, <1>2 DEF Types, Places, Unanswered, Cleared, Whole, BufferedRoute
<1>5. AtDispatch'
  BY <1>1, <1>2, <1>3, <1>4 DEF AtDispatch, Quiet
<1> QED
  BY <1>2, <1>4, <1>5, Arrive

-----------------------------------------------------------------------------
(* The types after a step that leaves the request and its body alone. *)
LEMMA TypesKept ==
  ASSUME Types, UNCHANGED <<req, left, buffered, bodyCancelled, broken, requests>>,
         st' \in Places, keepAlive' \in BOOLEAN, owed' \in BOOLEAN,
         streamDone' \in BOOLEAN, answered' \in Nat, posts' \in Nat,
         via' \in {"none", "reject", "context", "static", "stream"}
  PROVE  Types'
  BY DEF Types

(* What one response does to the history of the request... *)
LEMMA ResponseTypes ==
  ASSUME Unanswered, NEW kind \in {"reject", "context", "static", "stream"},
         NEW b, SendResponse(kind, b)
  PROVE  /\ st' \in Places /\ answered' \in Nat
         /\ via' \in {"none", "reject", "context", "static", "stream"}
<1>1. answered' = 1
  BY DEF Unanswered, SendResponse
<1> QED
  BY <1>1 DEF SendResponse, Places

(* ... and no response. *)
LEMMA NoResponseTypes ==
  ASSUME Unanswered, NoResponse
  PROVE  answered' \in Nat /\ via' = "none"
  BY DEF Unanswered, NoResponse

(* The post-interceptors run once, and the connection stays open only if    *)
(* the body was not cancelled.                                              *)
LEMMA PostAndSendKeeps ==
  ASSUME Inv, NEW mayThrow \in BOOLEAN, NEW marked, marked = TRUE,
         PostAndSend(mayThrow, marked),
         UNCHANGED <<req, left, buffered, bodyCancelled, broken, requests>>,
         req \in Requests, Unanswered, writing = <<>>, Whole,
         owed' = FALSE, streamDone' \in BOOLEAN,
         \/ jobs' = <<>>
         \/ jobs' = <<Complete>> /\ streamDone' /\ req.route # "async"
  PROVE  Inv'
<1>1. PICK thrown \in {FALSE, mayThrow} :
        /\ posts' = posts + (IF thrown /\ ~marked THEN 2 ELSE 1)
        /\ keepAlive' \in IF thrown THEN {req.keepAlive} ELSE BOOLEAN
        /\ SendResponse("context", Persists(keepAlive'))
  BY DEF PostAndSend
<1>2. posts' = 1 /\ keepAlive' \in BOOLEAN
  BY <1>1, RequestFacts DEF Unanswered
<1>3. PICK b \in BOOLEAN : b = Persists(keepAlive')
  BY <1>2 DEF Persists
<1>4. Types'
  <2>1. SendResponse("context", b)
    BY <1>1, <1>3
  <2>2. /\ st' \in Places /\ answered' \in Nat
        /\ via' \in {"none", "reject", "context", "static", "stream"}
    BY <2>1, ResponseTypes
  <2>3. owed' \in BOOLEAN /\ posts' \in Nat
    BY <1>2
  <2> QED
    BY <1>2, <2>2, <2>3, TypesKept DEF Inv
<1>5. AtBoundary(b)'
  BY <1>3 DEF AtBoundary, Persists, Whole, BufferedRoute
<1> QED
  BY <1>1, <1>2, <1>3, <1>4, <1>5, ResponseBegins

(* Facts of a dispatch: the queue is empty behind it. *)
LEMMA DispatchFacts ==
  ASSUME Inv, Runs("afterPre")
  PROVE  /\ req \in Requests /\ Unanswered /\ Cleared /\ ~owed /\ Whole
         /\ writing = <<>> /\ Tail(jobs) = <<>> /\ Types
         /\ Head(jobs).arg \in {"Continue", "Stop"}
  BY AfterPreRuns DEF Inv, AtDispatch

(* A handler of a buffered route keeps the invariant... *)
LEMMA DispatchBufferedKeeps ==
  ASSUME Inv, DispatchBuffered
  PROVE  Inv'
<1>1. /\ req \in Requests /\ Unanswered /\ Cleared /\ ~owed /\ Whole
      /\ writing = <<>> /\ Tail(jobs) = <<>> /\ Types
  BY DispatchFacts DEF DispatchBuffered
<1>2. /\ jobs' = <<>> /\ owed' = FALSE /\ streamDone' \in BOOLEAN
      /\ UNCHANGED <<req, left, buffered, bodyCancelled, streamDone, broken,
                     requests>>
  BY <1>1 DEF DispatchBuffered, body, Types
<1>3. CASE PostAndSend(PostMayThrow, MarksBeforeRun)
  BY <1>1, <1>2, <1>3, PostAndSendKeeps, HttpAssumption DEF MarksBeforeRun
<1>4. CASE ServeStaticFile
  <2>1. PICK b \in BOOLEAN : b = req.keepAlive
    BY <1>1, RequestFacts
  <2>2. SendResponse("static", b) /\ UNCHANGED <<keepAlive, posts>>
    BY <1>4, <2>1 DEF ServeStaticFile
  <2>4. AtBoundary(b)' /\ posts' = 0
    BY <1>1, <1>2, <2>2
    DEF AtBoundary, Whole, BufferedRoute, Cleared, Unanswered
  <2>5. /\ st' \in Places /\ answered' \in Nat /\ owed' \in BOOLEAN
        /\ posts' \in Nat
        /\ via' \in {"none", "reject", "context", "static", "stream"}
        /\ keepAlive' \in BOOLEAN
    BY <1>1, <1>2, <2>2, <2>4, ResponseTypes DEF Types
  <2>3. Types'
    BY <1>1, <1>2, <2>5, TypesKept
  <2> QED
    BY <1>1, <1>2, <2>2, <2>3, <2>4, ResponseBegins
<1> QED
  BY <1>3, <1>4 DEF DispatchBuffered

(* ... and of an asynchronous one... *)
LEMMA DispatchAsyncKeeps ==
  ASSUME Inv, DispatchAsync
  PROVE  Inv'
<1>1. /\ req \in Requests /\ Unanswered /\ Cleared /\ ~owed /\ Whole
      /\ writing = <<>> /\ Tail(jobs) = <<>> /\ Types /\ req.route = "async"
  BY DispatchFacts DEF DispatchAsync
<1>2. UNCHANGED <<req, left, buffered, bodyCancelled, streamDone, broken, requests>>
  BY <1>1 DEF DispatchAsync, body
<1>3. CASE jobs' = Tail(jobs) /\ PostAndSend(PostMayThrow, MarksBeforeRun) /\ UNCHANGED owed
  BY <1>1, <1>2, <1>3, PostAndSendKeeps, HttpAssumption
  DEF MarksBeforeRun, Types
<1>4. ASSUME NEW now \in BOOLEAN, st' = "handler", NoResponse, owed' = ~now,
             jobs' = Tail(jobs) \o (IF now THEN <<Complete>> ELSE <<>>),
             UNCHANGED <<keepAlive, posts>>
      PROVE  Inv'
  <2>1. jobs' = IF now THEN <<Complete>> ELSE <<>>
    <3>1. <<>> \o <<>> = <<>>
      OBVIOUS
    <3> QED
      BY <1>1, <1>4, <3>1, OneJob
  <2>2. Types' /\ Unanswered' /\ ~streamDone' /\ ~bodyCancelled' /\ Whole'
    BY <1>1, <1>2, <1>4 DEF Types, Places, Unanswered, Cleared, Whole,
       BufferedRoute, NoResponse
  <2>3. AtHandler'
    BY <1>1, <1>2, <1>4, <2>1, <2>2 DEF AtHandler, NoResponse
  <2> QED
    BY <1>4, <2>2, <2>3, Arrive
<1> QED
  BY <1>3, <1>4 DEF DispatchAsync

(* ... and of a streamed one... *)
LEMMA DispatchStreamKeeps ==
  ASSUME Inv, DispatchStream
  PROVE  Inv'
<1>1. /\ req \in Requests /\ Unanswered /\ Cleared /\ ~owed /\ Whole
      /\ writing = <<>> /\ Tail(jobs) = <<>> /\ Types /\ req.route = "stream"
  BY DispatchFacts DEF DispatchStream
<1>2. /\ UNCHANGED <<req, left, buffered, bodyCancelled, streamDone, keepAlive,
                     broken, requests, posts, writing, answered, via>>
      /\ st' = "handler"
  BY <1>1 DEF DispatchStream, body, NoResponse
<1>3. PICK posted \in StreamPosts : jobs' = Tail(jobs) \o posted /\ owed' = (posted = <<>>)
  BY DEF DispatchStream, StreamPosts
<1>4. jobs' = posted
  <2>1. <<>> \o <<>> = <<>>
    OBVIOUS
  <2> QED
    BY <1>1, <1>3, <2>1, OneJob, TwoJobs DEF StreamPosts
<1>5. Types' /\ Unanswered' /\ ~streamDone' /\ ~bodyCancelled' /\ Whole'
  BY <1>1, <1>2, <1>3
  DEF Types, Places, Unanswered, Cleared, Whole, BufferedRoute
<1>6. AtHandler'
  BY <1>1, <1>2, <1>3, <1>4, <1>5, OneJob, TwoJobs DEF AtHandler, StreamPosts
<1> QED
  BY <1>2, <1>5, <1>6, Arrive

(* An exception of the post-interceptors that nothing catches. *)
LEMMA CrashKeeps ==
  ASSUME Inv, PostThrowsUncaught, req \in Requests, Unanswered, writing = <<>>,
         req.route \in {"stream", "upgrade"}, owed' = FALSE,
         streamDone' \in BOOLEAN,
         UNCHANGED <<req, left, buffered, bodyCancelled, broken, requests>>,
         \/ jobs' = <<>>
         \/ jobs' = <<Complete>> /\ streamDone' /\ req.route = "stream"
  PROVE  Inv'
<1>1. Types' /\ st' = "crashed"
  <2>1. posts' = 1 /\ NoResponse /\ keepAlive' = keepAlive /\ st' = "crashed"
    BY DEF PostThrowsUncaught, Unanswered
  <2>2. /\ st' \in Places /\ answered' \in Nat /\ owed' \in BOOLEAN
        /\ posts' \in Nat
        /\ via' = "none" /\ keepAlive' \in BOOLEAN
    BY <2>1, NoResponseTypes DEF Inv, Types, Places
  <2> QED
    BY <2>1, <2>2, TypesKept DEF Inv
<1>2. AtCrashed'
  BY DEF AtCrashed, PostThrowsUncaught, NoResponse, Unanswered
<1> QED
  BY <1>1, <1>2, Arrive

(* ... and of a WebSocket route. *)
LEMMA DispatchUpgradeKeeps ==
  ASSUME Inv, DispatchUpgrade
  PROVE  Inv'
<1>1. /\ req \in Requests /\ Unanswered /\ Cleared /\ ~owed /\ Whole
      /\ writing = <<>> /\ Tail(jobs) = <<>> /\ Types /\ req.route = "upgrade"
  BY DispatchFacts DEF DispatchUpgrade
<1>2. /\ jobs' = <<>> /\ owed' = FALSE /\ streamDone' \in BOOLEAN
      /\ UNCHANGED <<req, left, buffered, bodyCancelled, streamDone, broken,
                     requests>>
  BY <1>1 DEF DispatchUpgrade, body, Types
<1>3. CASE st' = "upgraded" /\ NoResponse /\ UNCHANGED <<keepAlive, posts>>
  <2>1. /\ st' \in Places /\ answered' \in Nat /\ owed' \in BOOLEAN
        /\ posts' \in Nat
        /\ via' = "none" /\ keepAlive' \in BOOLEAN
    BY <1>1, <1>2, <1>3, NoResponseTypes DEF Types, Places, Unanswered
  <2>2. Types'
    BY <1>1, <1>2, <2>1, TypesKept
  <2>3. AtEnd'
    BY <1>1, <1>2, <1>3 DEF AtEnd, Quiet, NoResponse, Unanswered
  <2> QED
    BY <1>3, <2>2, <2>3, Arrive
<1>4. CASE PostAndSend(FALSE, TRUE)
  BY <1>1, <1>2, <1>4, PostAndSendKeeps
<1>5. CASE PostThrowsUncaught
  BY <1>1, <1>2, <1>5, CrashKeeps
<1> QED
  BY <1>3, <1>4, <1>5 DEF DispatchUpgrade

-----------------------------------------------------------------------------
(* A handler is at work. *)
LEMMA HandlerFacts ==
  ASSUME Inv, st = "handler"
  PROVE  /\ req \in Requests /\ Unanswered /\ ~streamDone /\ Whole /\ Types
         /\ writing = <<>> /\ req.route \in {"async", "stream"}
  BY Zenon DEF Inv, AtHandler

(* The application owes an answer: what it may have queued. *)
LEMMA OwesFacts ==
  ASSUME Inv, Owes
  PROVE  /\ req \in Requests /\ Unanswered /\ ~streamDone /\ Whole /\ Types
         /\ writing = <<>> /\ req.route \in {"async", "stream"}
         /\ req.route = "async" => ~bodyCancelled
         /\ st = "handler" /\ owed
         /\ jobs = <<>> \/ (jobs = <<CancelBody>> /\ req.route = "stream")
<1>1. /\ req \in Requests /\ Unanswered /\ ~streamDone /\ Whole /\ Types
      /\ writing = <<>> /\ req.route \in {"async", "stream"}
      /\ st = "handler" /\ owed
  BY HandlerFacts DEF Owes
<1>2. jobs = <<>> \/ (jobs = <<CancelBody>> /\ req.route = "stream")
  BY <1>1, Zenon DEF Inv, AtHandler
<1>3. req.route = "async" => ~bodyCancelled
  BY <1>1, Zenon DEF Inv, AtHandler
<1> QED
  BY <1>1, <1>2, <1>3

(* A handler that answers later keeps the invariant... *)
LEMMA AnswerKeeps ==
  ASSUME Inv, Answer
  PROVE  Inv'
<1>1. /\ req \in Requests /\ Unanswered /\ ~streamDone /\ Whole /\ Types
      /\ writing = <<>> /\ req.route \in {"async", "stream"}
      /\ req.route = "async" => ~bodyCancelled
      /\ st = "handler" /\ owed
      /\ jobs = <<>> \/ (jobs = <<CancelBody>> /\ req.route = "stream")
  BY OwesFacts DEF Answer, AppComplete, AppRespond
<1>2. /\ UNCHANGED <<st, req, left, buffered, bodyCancelled, streamDone, keepAlive,
                     writing, broken, requests, answered, posts, via>>
      /\ owed' = FALSE
  BY DEF Answer, AppComplete, AppRespond, body, history
<1>3. \/ jobs' = Append(jobs, Complete)
      \/ jobs' = Append(jobs, Respond) /\ req.route = "stream"
  BY DEF Answer, AppComplete, AppRespond
<1>4. \/ jobs' = <<Complete>>
      \/ /\ req.route = "stream"
         /\ jobs' \in {<<Respond>>, <<CancelBody, Complete>>, <<CancelBody, Respond>>}
  <2>1. CASE jobs = <<>>
    BY <1>3, <2>1, OneJob
  <2>2. CASE jobs = <<CancelBody>> /\ req.route = "stream"
    BY <1>3, <2>2, TwoJobs
  <2> QED
    BY <1>1, <2>1, <2>2
<1>5. Unanswered' /\ Whole' /\ ~streamDone'
  BY <1>1, <1>2 DEF Unanswered, Whole, BufferedRoute
<1>6. Types'
  BY <1>1, <1>2 DEF Types
<1>7. AtHandler'
  BY <1>1, <1>2, <1>4, <1>5 DEF AtHandler
<1> QED
  BY <1>1, <1>2, <1>6, <1>7, Arrive

(* ... also one that reads the body... *)
LEMMA AppReadKeeps ==
  ASSUME Inv, AppRead
  PROVE  Inv'
<1>1. /\ req \in Requests /\ Unanswered /\ ~streamDone /\ Types
      /\ writing = <<>> /\ req.route = "stream" /\ st = "handler" /\ owed
      /\ jobs = <<>> \/ jobs = <<CancelBody>>
  BY OwesFacts DEF AppRead
<1>2. /\ UNCHANGED <<st, req, buffered, bodyCancelled, streamDone, keepAlive,
                     owed, jobs, writing, broken, requests, answered, posts, via>>
      /\ left' = left - 1 /\ left > 0
  BY DEF AppRead, history
<1>3. Unanswered' /\ Whole' /\ ~streamDone'
  BY <1>1, <1>2 DEF Unanswered, Whole, BufferedRoute
<1>4. Types'
  BY <1>1, <1>2 DEF Types
<1>5. AtHandler'
  BY <1>1, <1>2, <1>3 DEF AtHandler
<1> QED
  BY <1>1, <1>2, <1>4, <1>5, Arrive

(* ... or cancels it... *)
LEMMA AppCancelBodyKeeps ==
  ASSUME Inv, AppCancelBody
  PROVE  Inv'
<1>1. /\ req \in Requests /\ Unanswered /\ ~streamDone /\ Types
      /\ writing = <<>> /\ req.route = "stream" /\ st = "handler" /\ owed
      /\ jobs = <<>> \/ jobs = <<CancelBody>>
  BY OwesFacts DEF AppCancelBody
<1>2. /\ UNCHANGED <<st, req, left, buffered, bodyCancelled, streamDone, keepAlive,
                     owed, writing, broken, requests, answered, posts, via>>
      /\ jobs' = Append(jobs, CancelBody)
      /\ \A i \in DOMAIN jobs : jobs[i] # CancelBody
  BY DEF AppCancelBody, body, history
<1>3. jobs # <<CancelBody>>
  <2>1. 1 \in DOMAIN <<CancelBody>> /\ <<CancelBody>>[1] = CancelBody
    OBVIOUS
  <2> QED
    BY <1>2, <2>1
<1>4. jobs' = <<CancelBody>>
  BY <1>1, <1>2, <1>3, OneJob
<1>5. Unanswered' /\ Whole' /\ ~streamDone'
  BY <1>1, <1>2 DEF Unanswered, Whole, BufferedRoute
<1>6. Types'
  BY <1>1, <1>2 DEF Types
<1>7. AtHandler'
  BY <1>1, <1>2, <1>4, <1>5 DEF AtHandler
<1> QED
  BY <1>1, <1>2, <1>6, <1>7, Arrive

(* ... on the strand too. *)
LEMMA CancelStreamBodyKeeps ==
  ASSUME Inv, CancelStreamBody
  PROVE  Inv'
<1>1. /\ st = "handler" /\ req.route = "stream" /\ Types
      /\ req \in Requests /\ Unanswered /\ ~streamDone /\ writing = <<>>
      /\ owed => Tail(jobs) = <<>>
      /\ ~owed => Tail(jobs) \in {<<Complete>>, <<Respond>>}
  BY CancelBodyRuns DEF CancelStreamBody, Inv, AtHandler
<1>2. /\ UNCHANGED <<st, req, left, buffered, streamDone, owed, writing, broken,
                     requests, answered, posts, via>>
      /\ jobs' = Tail(jobs) /\ bodyCancelled' = TRUE /\ keepAlive' = FALSE
  BY DEF CancelStreamBody, history
<1>3. Unanswered' /\ Whole' /\ ~streamDone'
  BY <1>1, <1>2 DEF Unanswered, Whole, BufferedRoute
<1>4. Types'
  BY <1>1, <1>2 DEF Types
<1>5. AtHandler'
  BY <1>1, <1>2, <1>3 DEF AtHandler
<1> QED
  BY <1>1, <1>2, <1>4, <1>5, Arrive

(* The first completion is the one that is answered; a second one that is   *)
(* still queued changes nothing, before or after the response was written.  *)
LEMMA CompleteKeeps ==
  ASSUME Inv, CompleteRequest
  PROVE  Inv'
<1>1. /\ UNCHANGED <<req, left, buffered, bodyCancelled, owed, broken, requests>>
      /\ jobs' = Tail(jobs) /\ Runs("complete") /\ Types
  BY DEF CompleteRequest, body, Inv
<1>2. CASE st = "handler"
  <2>1. /\ req \in Requests /\ Unanswered /\ ~streamDone /\ Whole
        /\ writing = <<>> /\ req.route \in {"async", "stream"} /\ req # None
    BY <1>2, HandlerFacts, RequestFacts
  <2>2. ~owed /\ (jobs' = <<>> \/ (jobs' = <<Complete>> /\ req.route = "stream"))
    BY <1>1, <1>2, HandlerQueue, JobFields DEF Runs
  <2>3. owed' = FALSE
    BY <1>1, <2>2 DEF Types
  <2>4. CASE req.route = "async"
    <3>1. PostAndSend(PostMayThrow, TRUE) /\ streamDone' \in BOOLEAN
      BY <1>1, <2>1, <2>4 DEF CompleteRequest, Types
    <3> QED
      BY <1>1, <2>1, <2>2, <2>3, <2>4, <3>1, PostAndSendKeeps, HttpAssumption
  <2>5. CASE req.route = "stream"
    <3>1. streamDone' = TRUE /\ (PostAndSend(FALSE, TRUE) \/ PostThrowsUncaught)
      BY <2>1, <2>5 DEF CompleteRequest, StreamCompletes
    <3>2. CASE PostAndSend(FALSE, TRUE)
      BY <1>1, <2>1, <2>2, <2>3, <2>5, <3>1, <3>2, PostAndSendKeeps
    <3>3. CASE PostThrowsUncaught
      BY <1>1, <2>1, <2>2, <2>3, <2>5, <3>1, <3>3, CrashKeeps
    <3> QED
      BY <3>1, <3>2, <3>3
  <2> QED
    BY <2>1, <2>4, <2>5
<1>3. CASE st \in {"writing", "crashed"}
  <2>1. streamDone /\ req.route # "async"
    BY <1>1, <1>3, CompleteRuns
  <2>2. UNCHANGED <<st, keepAlive, streamDone, writing, answered, posts, via>>
    BY <2>1 DEF CompleteRequest, StreamCompletes, history
  <2>3. Types'
    BY <1>1, <2>2 DEF Types
  <2>4. CASE st = "writing"
    <3>1. PICK b \in BOOLEAN :
            /\ AtBoundary(b)
            /\ \/ writing = <<b>> /\ Tail(jobs) = <<>>
               \/ writing = <<>> /\ Tail(jobs) = <<Job("written", b)>>
      BY <1>1, <2>4, CompleteRuns
    <3>2. AtBoundary(b)'
      BY <1>1, <3>1 DEF AtBoundary, BufferedRoute
    <3>3. /\ req \in Requests /\ ~owed /\ answered = 1
          /\ posts = (IF via = "context" THEN 1 ELSE 0)
      BY <2>4 DEF Inv, AtWriting
    <3>4. AtWriting'
      BY <1>1, <2>2, <3>1, <3>2, <3>3 DEF AtWriting
    <3> QED
      BY <2>2, <2>3, <2>4, <3>4, Arrive
  <2>5. CASE st = "crashed"
    <3>1. Tail(jobs) = <<>>
      BY <1>1, <2>5, CompleteRuns
    <3>2. AtCrashed'
      BY <1>1, <2>2, <2>5, <3>1 DEF Inv, AtCrashed
    <3> QED
      BY <2>2, <2>3, <2>5, <3>2, Arrive
  <2> QED
    BY <1>3, <2>4, <2>5
<1> QED
  BY <1>1, <1>2, <1>3, CompleteRuns

(* The response of a stream handler keeps the invariant. *)
LEMMA StreamResponseKeeps ==
  ASSUME Inv, StreamResponse
  PROVE  Inv'
<1>1. /\ st = "handler" /\ req.route = "stream" /\ ~owed /\ Tail(jobs) = <<>>
      /\ req \in Requests /\ Unanswered /\ writing = <<>> /\ Types
  BY RespondRuns DEF StreamResponse, Inv, AtHandler
<1>2. /\ jobs' = <<>>
      /\ UNCHANGED <<req, left, buffered, bodyCancelled, keepAlive, streamDone,
                     owed, broken, requests, posts>>
  BY <1>1 DEF StreamResponse, body
<1>3. PICK p \in BOOLEAN : SendResponse("stream", Persists(p))
  BY DEF StreamResponse
<1>4. PICK b \in BOOLEAN : b = Persists(p)
  BY DEF Persists
<1>5. SendResponse("stream", b) /\ AtBoundary(b)' /\ posts' = 0
  BY <1>1, <1>2, <1>3, <1>4 DEF AtBoundary, Persists, BufferedRoute, Unanswered
<1>6. /\ st' \in Places /\ answered' \in Nat
      /\ via' \in {"none", "reject", "context", "static", "stream"}
  BY <1>1, <1>5, ResponseTypes
<1>7. Types'
  BY <1>1, <1>2, <1>6, TypesKept DEF Types
<1> QED
  BY <1>1, <1>2, <1>5, <1>7, ResponseBegins

-----------------------------------------------------------------------------
(* A write that ends queues its handler behind all that is queued. *)
LEMMA WriteEndsKeeps ==
  ASSUME Inv, WriteEnds
  PROVE  Inv'
<1>1. UNCHANGED <<st, req, left, buffered, bodyCancelled, streamDone, keepAlive,
                  owed, broken, requests, answered, posts, via>>
  BY DEF WriteEnds, body, history
<1>2. st = "writing"
  BY DEF Inv, Types, Places, WriteEnds, Quiet, AtHeader, AtContinue, AtBody,
     AtPre, AtDispatch, AtHandler, AtCrashed, AtEnd
<1>3. PICK b \in BOOLEAN :
        /\ AtBoundary(b) /\ writing = <<b>>
        /\ \/ jobs = <<>>
           \/ jobs = <<Complete>> /\ streamDone /\ req.route # "async"
  BY <1>2 DEF Inv, AtWriting, WriteEnds
<1>4. PICK ok \in {~broken, TRUE} : jobs' = Append(jobs, Job("written", ok /\ Head(writing)))
  BY DEF WriteEnds
<1>5. PICK c \in BOOLEAN : c = (ok /\ Head(writing))
  OBVIOUS
<1>6. writing' = <<>> /\ jobs' = Append(jobs, Job("written", c)) /\ AtBoundary(c)'
  BY <1>1, <1>3, <1>4, <1>5, OneJob DEF WriteEnds, AtBoundary, BufferedRoute
<1>7. \/ jobs' = <<Job("written", c)>>
      \/ jobs' = <<Complete, Job("written", c)>> /\ streamDone /\ req.route # "async"
  <2>1. CASE jobs = <<>>
    BY <1>6, <2>1, OneJob
  <2>2. CASE jobs = <<Complete>> /\ streamDone /\ req.route # "async"
    BY <1>6, <2>2, TwoJobs
  <2> QED
    BY <1>3, <2>1, <2>2
<1>8. AtWriting'
  BY <1>1, <1>2, <1>6, <1>7 DEF Inv, AtWriting
<1>9. Types'
  BY <1>1 DEF Inv, Types
<1> QED
  BY <1>1, <1>2, <1>8, <1>9, Arrive

(* do_read for the next request, or do_close. *)
LEMMA OnWriteKeeps ==
  ASSUME Inv, OnWrite
  PROVE  Inv'
<1>1. /\ st = "writing" /\ writing = <<>> /\ Tail(jobs) = <<>>
      /\ Head(jobs).arg \in BOOLEAN /\ AtBoundary(Head(jobs).arg)
      /\ req \in Requests /\ ~owed /\ answered = 1
      /\ posts = (IF via = "context" THEN 1 ELSE 0) /\ Types
  BY WrittenRuns DEF OnWrite, Inv, AtWriting
<1>2. /\ jobs' = <<>> /\ Quiet' /\ ~owed'
      /\ UNCHANGED <<left, keepAlive, owed, writing, broken, requests>>
  BY <1>1 DEF OnWrite, Quiet
<1>3. CASE Head(jobs).arg
  <2>1. /\ st' = "header" /\ req' = None
        /\ prev' = [route |-> req.route, cancelled |-> bodyCancelled]
        /\ buffered' = 0 /\ streamDone' = FALSE /\ bodyCancelled' = FALSE
        /\ answered' = 0 /\ posts' = 0 /\ via' = "none"
    BY <1>3 DEF OnWrite, BufferedAfterReset
  <2>2. ~bodyCancelled /\ (BufferedRoute => left = 0) /\ left \in Nat
    BY <1>1, <1>3 DEF AtBoundary, Types
  <2>3. BoundaryKept'
    <3>1. req.route \in Routes
      BY <1>1, RequestFacts
    <3> QED
      BY <1>2, <2>1, <2>2, <3>1 DEF BoundaryKept, BufferedRoute, Routes
  <2>4. AtHeader'
    <3>1. Unanswered' /\ Cleared'
      BY <2>1 DEF Unanswered, Cleared
    <3> QED
      BY <1>2, <2>1, <2>3, <3>1 DEF AtHeader
  <2>5. Types'
    <3>1. buffered' \in 0..Limit /\ answered' \in Nat /\ posts' \in Nat
      BY <2>1, HttpAssumption
    <3> QED
      BY <1>1, <1>2, <2>1, <3>1 DEF Types, Places
  <2> QED
    BY <2>1, <2>4, <2>5, Arrive
<1>4. CASE ~Head(jobs).arg
  <2>1. st' = "closed" /\ UNCHANGED <<req, buffered, streamDone, bodyCancelled, answered,
                                      posts, via>>
    BY <1>4 DEF OnWrite, history
  <2>2. Types'
    BY <1>1, <1>2, <2>1 DEF Types, Places
  <2>3. AtEnd'
    BY <1>1, <1>2, <2>1 DEF AtEnd
  <2> QED
    BY <2>1, <2>2, <2>3, Arrive
<1> QED
  BY <1>1, <1>3, <1>4

(* What a handler that threw left behind ends what is said of the session. *)
LEMMA RunEscapedKeeps ==
  ASSUME Inv, NEW kind \in Escapes, RunEscaped(kind)
  PROVE  Inv'
<1>1. /\ UNCHANGED <<req, left, buffered, bodyCancelled, streamDone, keepAlive>>
      /\ UNCHANGED <<owed, jobs, writing, broken, requests, via>>
      /\ st' = "overrun" /\ answered' = answered + 1
      /\ posts' \in {posts, posts + 1}
  BY DEF RunEscaped, body
<1>2. Types'
  BY <1>1 DEF Inv, Types, Places
<1> QED
  BY <1>1, <1>2, Arrive

-----------------------------------------------------------------------------
(* A step that changes none of these keeps Inv: the peer goes, or nothing   *)
(* happens.                                                                 *)
LEMMA Frame ==
  ASSUME Inv, broken' \in BOOLEAN,
         UNCHANGED <<st, req, left, buffered, bodyCancelled, streamDone, keepAlive,
                     owed, jobs, writing, requests, answered, posts, via, prev>>
  PROVE  Inv'
<1>1. Types'
  BY DEF Inv, Types
<1>2. AtHeader' /\ AtContinue' /\ AtBody' /\ AtPre' /\ AtDispatch'
  BY
  DEF Inv, AtHeader, AtContinue, AtBody, AtPre, AtDispatch, Quiet, Unanswered,
     Cleared, BoundaryKept, Whole, BufferedRoute
<1>3. AtHandler' /\ AtWriting' /\ AtCrashed' /\ AtEnd'
  BY DEF Inv, AtHandler, AtWriting, AtCrashed, AtEnd, Quiet, Unanswered, Whole,
     BufferedRoute, AtBoundary
<1> QED
  BY <1>1, <1>2, <1>3 DEF Inv

(* The initial state satisfies the invariant. *)
LEMMA InitInv == Init => Inv
<1> SUFFICES ASSUME Init PROVE Inv
  OBVIOUS
<1>1. buffered \in 0..Limit /\ requests \in 0..MaxRequests /\ left \in Nat
      /\ answered \in Nat /\ posts \in Nat
  BY HttpAssumption DEF Init
<1>2. Types
  BY <1>1 DEF Init, Types, Places
<1>3. BoundaryKept
  BY DEF Init, BoundaryKept
<1>4. AtHeader
  BY <1>3 DEF Init, AtHeader, Quiet, Unanswered, Cleared
<1>5. st = "header"
  BY DEF Init
<1> QED
  BY <1>2, <1>4, <1>5 DEF Inv, AtContinue, AtBody, AtPre, AtDispatch, AtHandler,
     AtWriting, AtCrashed, AtEnd

(* Every step keeps the invariant. *)
LEMMA StepInv == Inv /\ [Next]_vars => Inv'
<1> SUFFICES ASSUME Inv, [Next]_vars PROVE Inv'
  OBVIOUS
<1>1. CASE \E x \in Requests : ReadHeader(x)
  BY <1>1, ReadHeaderKeeps
<1>2. CASE HeaderError \/ ContinueDone
  BY <1>2, HeaderErrorKeeps, ContinueKeeps
<1>3. CASE ReadBody
  BY <1>3, ReadBufferedKeeps, BodyErrorKeeps DEF ReadBody
<1>4. CASE PreInterceptors
  BY <1>4, PreDoneKeeps DEF PreInterceptors
<1>5. CASE Answer \/ AppRead \/ AppCancelBody
  BY <1>5, AnswerKeeps, AppReadKeeps, AppCancelBodyKeeps
<1>6. CASE RunJob
  BY <1>6, DispatchBufferedKeeps, DispatchAsyncKeeps, DispatchStreamKeeps,
     DispatchUpgradeKeeps, CancelStreamBodyKeeps, CompleteKeeps,
     StreamResponseKeeps, OnWriteKeeps DEF RunJob
<1>7. CASE WriteEnds
  BY <1>7, WriteEndsKeeps
<1>8. CASE PeerGone
  BY <1>8, Frame DEF PeerGone, body, history, past
<1>9. CASE Ended \/ UNCHANGED vars
  BY <1>9, Frame DEF Ended, vars, body, history, past, Inv, Types
<1>10. CASE \E kind \in Escapes : RunEscaped(kind)
  BY <1>10, RunEscapedKeeps
<1> QED
  BY <1>1, <1>2, <1>3, <1>4, <1>5, <1>6, <1>7, <1>8, <1>9, <1>10 DEF Next

(* The places of the session, with what each allows, are kept by every step *)
(* of the strand, the application and the peer.                             *)
THEOREM Invariance == Spec => []Inv
  BY InitInv, StepInv, PTL DEF Spec

-----------------------------------------------------------------------------
(* How many ends of writes the queues of Inv hold. *)
LEMMA EmptyQueue ==
  ASSUME jobs = <<>>
  PROVE  DOMAIN jobs = {} /\ Written = {} /\ Cardinality(Written) = 0
<1>1. DOMAIN jobs = {}
  OBVIOUS
<1>2. Written = {}
  BY <1>1 DEF Written
<1> QED
  BY <1>1, <1>2, FS_EmptySet

(* The finished writes in a queue of one job... *)
LEMMA QueueOfOne ==
  ASSUME NEW a, jobs = <<a>>
  PROVE  /\ DOMAIN jobs = {1} /\ jobs[1] = a
         /\ a.do # "written" => Cardinality(Written) = 0
         /\ Cardinality(Written) \in {0, 1}
<1>1. DOMAIN jobs = {1} /\ jobs[1] = a
  OBVIOUS
<1>2. Written = IF a.do = "written" THEN {1} ELSE {}
  BY <1>1 DEF Written
<1> QED
  BY <1>1, <1>2, FS_EmptySet, FS_Singleton

(* ... and of two. *)
LEMMA QueueOfTwo ==
  ASSUME NEW a, NEW b, jobs = <<a, b>>, a.do # "written"
  PROVE  /\ DOMAIN jobs = {1, 2} /\ jobs[1] = a /\ jobs[2] = b
         /\ b.do # "written" => Cardinality(Written) = 0
         /\ Cardinality(Written) \in {0, 1}
<1>1. DOMAIN jobs = {1, 2} /\ jobs[1] = a /\ jobs[2] = b
  OBVIOUS
<1>2. Written = IF b.do = "written" THEN {2} ELSE {}
  BY <1>1 DEF Written
<1> QED
  BY <1>1, <1>2, FS_EmptySet, FS_Singleton

Kinds == {"afterPre", "complete", "cancelBody", "respond", "written"}

(* Outside "writing" no response is in progress; there, one is. *)
LEMMA Progress ==
  ASSUME Inv, st # "overrun"
  PROVE  /\ \A i \in DOMAIN jobs : jobs[i].do \in Kinds
         /\ \/ writing = <<>> /\ Cardinality(Written) = 0
            \/ /\ st = "writing"
               /\ \E b \in BOOLEAN : writing = <<b>> /\ Cardinality(Written) = 0
            \/ st = "writing" /\ writing = <<>> /\ Cardinality(Written) \in {0, 1}
<1>1. st \in Places
  BY DEF Inv, Types
<1>2. CASE st \in {"header", "continue", "body", "pre", "closed", "upgraded"}
  <2>1. Quiet
    BY <1>2 DEF Inv, AtHeader, AtContinue, AtBody, AtPre, AtEnd
  <2> QED
    BY <2>1, EmptyQueue DEF Quiet
<1>3. CASE st = "dispatch"
  <2>1. PICK x : jobs = <<Job("afterPre", x)>>
    BY <1>3 DEF Inv, AtDispatch
  <2>2. writing = <<>>
    BY <1>3 DEF Inv, AtDispatch
  <2> QED
    BY <2>1, <2>2, QueueOfOne, JobFields DEF Kinds
<1>4. CASE st = "handler"
  <2>1. writing = <<>>
    BY <1>4, HandlerFacts
  <2>2. \/ jobs \in {<<>>, <<CancelBody>>, <<Complete>>, <<Respond>>}
        \/ jobs \in {<<Complete, Complete>>, <<CancelBody, Complete>>,
                     <<CancelBody, Respond>>}
    BY <1>4 DEF Inv, AtHandler
  <2>3. CASE jobs = <<>>
    BY <2>1, <2>3, EmptyQueue
  <2>4. CASE jobs \in {<<CancelBody>>, <<Complete>>, <<Respond>>}
    BY <2>1, <2>4, QueueOfOne, JobFields DEF Kinds
  <2>5. CASE jobs \in {<<Complete, Complete>>, <<CancelBody, Complete>>,
                       <<CancelBody, Respond>>}
    BY <2>1, <2>5, QueueOfTwo, JobFields DEF Kinds
  <2> QED
    BY <2>2, <2>3, <2>4, <2>5
<1>5. CASE st = "writing"
  <2>1. PICK b \in BOOLEAN :
          \/ writing = <<b>> /\ jobs = <<>>
          \/ writing = <<b>> /\ jobs = <<Complete>>
          \/ writing = <<>> /\ jobs = <<Job("written", b)>>
          \/ writing = <<>> /\ jobs = <<Complete, Job("written", b)>>
    BY <1>5 DEF Inv, AtWriting
  <2>2. CASE jobs = <<>>
    BY <1>5, <2>1, <2>2, EmptyQueue, OneJob
  <2>3. CASE writing = <<b>> /\ jobs = <<Complete>>
    BY <1>5, <2>3, QueueOfOne, JobFields DEF Kinds
  <2>4. CASE writing = <<>> /\ jobs = <<Job("written", b)>>
    BY <1>5, <2>4, QueueOfOne, JobFields DEF Kinds
  <2>5. CASE writing = <<>> /\ jobs = <<Complete, Job("written", b)>>
    BY <1>5, <2>5, QueueOfTwo, JobFields DEF Kinds
  <2> QED
    BY <2>1, <2>2, <2>3, <2>4, <2>5
<1>6. CASE st = "crashed"
  <2>1. writing = <<>> /\ jobs \in {<<>>, <<Complete>>}
    BY <1>6 DEF Inv, AtCrashed
  <2> QED
    BY <2>1, EmptyQueue, QueueOfOne, JobFields DEF Kinds
<1> QED
  BY <1>1, <1>2, <1>3, <1>4, <1>5, <1>6 DEF Places

(* What was sent for the request, at each place. *)
LEMMA Sent ==
  ASSUME Inv, st # "overrun"
  PROVE  /\ answered \in {0, 1} /\ posts \in {0, 1}
         /\ st = "writing" => answered = 1
         /\ answered = 1 => /\ st \in {"writing", "closed"}
                            /\ posts = (IF via = "context" THEN 1 ELSE 0)
<1>1. st \in Places
  BY DEF Inv, Types
<1>2. CASE st \in {"header", "continue", "body", "pre", "dispatch", "handler"}
  <2>1. Unanswered
    BY <1>2, Zenon
    DEF Inv, AtHeader, AtContinue, AtBody, AtPre, AtDispatch, AtHandler
  <2> QED
    BY <1>2, <2>1 DEF Unanswered
<1>3. CASE st = "writing"
  BY <1>3 DEF Inv, AtWriting
<1>4. CASE st = "crashed"
  BY <1>4 DEF Inv, AtCrashed
<1>5. CASE st \in {"closed", "upgraded"}
  BY <1>5 DEF Inv, AtEnd
<1> QED
  BY <1>1, <1>2, <1>3, <1>4, <1>5 DEF Places

(* A second response is only sent for a handler that threw: what the queue  *)
(* and the writes hold then is what they held before.                       *)
Overruns ==
  /\ escaped \subseteq Escapes
  /\ st = "overrun" =>
       /\ escaped # {} /\ writing \in Seq(BOOLEAN)
       /\ \A i \in DOMAIN jobs : jobs[i].do \in Kinds

(* Responses that are being written. *)
LEMMA Writes ==
  ASSUME Inv, st # "overrun"
  PROVE  writing \in Seq(BOOLEAN)
<1>1. <<>> \in Seq(BOOLEAN) /\ \A b \in BOOLEAN : <<b>> \in Seq(BOOLEAN)
  OBVIOUS
<1>2. writing = <<>> \/ \E b \in BOOLEAN : writing = <<b>>
  BY Progress
<1> QED
  BY <1>1, <1>2

(* Every step keeps it: only RunEscaped leads there, and only a handler     *)
(* that throws lets something escape.                                       *)
LEMMA OverrunsKeeps ==
  Inv /\ Overruns /\ [Next]_vars => Overruns'
<1> SUFFICES ASSUME Inv, Overruns, [Next]_vars PROVE Overruns'
  OBVIOUS
<1>1. ASSUME NEW kind \in Escapes, RunEscaped(kind)  PROVE Overruns'
  <2>1. /\ kind \in escaped /\ st # "overrun"
        /\ UNCHANGED <<jobs, writing, escaped>>
    BY <1>1 DEF RunEscaped, past
  <2>3. writing' \in Seq(BOOLEAN)
    BY <2>1, Writes
  <2>4. \A i \in DOMAIN jobs' : jobs'[i].do \in Kinds
    BY <2>1, Progress
  <2>5. escaped' # {} /\ escaped' \subseteq Escapes
    BY <2>1 DEF Overruns
  <2> QED
    BY <2>3, <2>4, <2>5 DEF Overruns
<1>2. ASSUME st' # "overrun", escaped' \subseteq Escapes  PROVE Overruns'
  BY <1>2 DEF Overruns
<1>3. CASE UNCHANGED <<st, jobs, writing, escaped>>
  BY <1>3 DEF Overruns
<1>4. CASE DispatchAsync \/ DispatchStream
  <2>1. st' # "overrun"
    BY <1>4 DEF DispatchAsync, DispatchStream, PostAndSend, SendResponse
  <2>2. escaped' \in {escaped} \cup {escaped \cup {k} : k \in Escapes}
    BY <1>4 DEF DispatchAsync, DispatchStream, Escapes
  <2> QED
    BY <1>2, <2>1, <2>2 DEF Overruns
<1>5. CASE DispatchBuffered \/ DispatchUpgrade \/ CompleteRequest \/ StreamResponse
  <2>1. st # "overrun" /\ escaped' = escaped
    BY <1>5 DEF DispatchBuffered, DispatchUpgrade, CompleteRequest,
       StreamResponse, Runs, past
  <2>2. st' = st \/ st' \in {"writing", "upgraded", "crashed"}
    BY <1>5 DEF DispatchBuffered, DispatchUpgrade, CompleteRequest,
       StreamResponse, PostAndSend, SendResponse, ServeStaticFile,
       PostThrowsUncaught
  <2> QED
    BY <1>2, <2>1, <2>2 DEF Overruns
<1>6. CASE CancelStreamBody \/ OnWrite \/ WriteEnds
  <2>1. st # "overrun" /\ escaped' = escaped
    BY <1>6 DEF CancelStreamBody, OnWrite, WriteEnds, Runs, past
  <2>2. st' = st \/ st' \in {"header", "closed"}
    BY <1>6 DEF CancelStreamBody, OnWrite, WriteEnds
  <2> QED
    BY <1>2, <2>1, <2>2 DEF Overruns
<1>7. CASE \/ \E x \in Requests : ReadHeader(x)
           \/ HeaderError \/ ContinueDone \/ ReadBody \/ PreInterceptors
  <2>1. escaped' = escaped
    BY <1>7 DEF ReadHeader, HeaderError, ContinueDone, ReadBody,
       ReadBufferedBody, BodyError, PreInterceptors, PreInterceptorsDone, past
  <2>2. st' # "overrun"
    BY <1>7 DEF ReadHeader, HeaderError, ContinueDone, ReadBody,
       ReadBufferedBody, BodyError, PreInterceptors, PreInterceptorsDone,
       AfterHeader, SendResponse
  <2> QED
    BY <1>2, <2>1, <2>2 DEF Overruns
<1>8. CASE Answer \/ AppRead \/ AppCancelBody
  <2>1. escaped' = escaped /\ st = "handler" /\ st' = st
    BY <1>8 DEF Answer, AppComplete, AppRespond, AppRead, AppCancelBody, Owes,
       past
  <2> QED
    BY <1>2, <2>1 DEF Overruns
<1>9. CASE PeerGone \/ Ended \/ UNCHANGED vars
  BY <1>3, <1>9 DEF PeerGone, Ended, vars, history, past
<1> QED
  BY <1>1, <1>4, <1>5, <1>6, <1>7, <1>8, <1>9 DEF Next, RunJob

(* Whatever the order of completions, exceptions, cancelled bodies and      *)
(* written responses, a request of an HTTP connection is answered at most   *)
(* once, unless a handler threw after it had completed or kept the means to *)
(* complete, the post-interceptors see a handler's response once, and an    *)
(* exception of theirs ends the process only on the two paths without a try *)
(* block.                                                                   *)
THEOREM RequestCorrect == Spec => []RequestSound
<1>1. ASSUME Inv, Overruns PROVE TypeOK
  <2>1. writing \in Seq(BOOLEAN)
    BY <1>1, Writes DEF Overruns
  <2>2. \A i \in DOMAIN jobs :
          jobs[i].do \in {"afterPre", "complete", "cancelBody", "respond", "written"}
    BY <1>1, Progress DEF Kinds, Overruns
  <2> QED
    BY <1>1, <2>1, <2>2 DEF Inv, Types, TypeOK, Places, Overruns
<1>2. ASSUME Inv, Overruns PROVE OneResponse
  <2>0. ASSUME st # "overrun"
        PROVE  /\ answered <= 1 /\ Len(writing) + Cardinality(Written) <= answered
               /\ answered = 1 => st \in {"writing", "closed", "crashed"}
    <3>1. CASE writing = <<>> /\ Cardinality(Written) = 0
      BY <1>2, <2>0, <3>1, Sent
    <3>2. CASE /\ st = "writing"
               /\ \E b \in BOOLEAN : writing = <<b>> /\ Cardinality(Written) = 0
      BY <1>2, <2>0, <3>2, Sent
    <3>3. CASE st = "writing" /\ writing = <<>> /\ Cardinality(Written) \in {0, 1}
      BY <1>2, <2>0, <3>3, Sent
    <3> QED
      BY <1>2, <2>0, <3>1, <3>2, <3>3, Progress
  <2> QED
    BY <1>2, <2>0 DEF OneResponse, Overruns
<1>3. ASSUME Inv, Overruns PROVE PostOnce
  BY <1>3, Sent DEF PostOnce
<1>4. ASSUME Inv PROVE PostFailureContained
  BY <1>4 DEF Inv, AtCrashed, PostFailureContained
<1>5. Inv /\ Overruns => RequestSound
  BY <1>1, <1>2, <1>3, <1>4 DEF RequestSound
<1>6. Init => Overruns
  BY DEF Init, Overruns
<1> QED
  BY Invariance, <1>5, <1>6, OverrunsKeeps, PTL DEF Spec

(* A buffered handler gets the whole body of its own request and no more    *)
(* than the limit, and what is left of a body is read as a request only     *)
(* after a stream route that left it there, or a refused upgrade.           *)
THEOREM BodyCorrect == Spec => []BodyExact
<1>1. ASSUME Inv PROVE BufferedWhole
  <2>1. CASE st \in {"pre", "dispatch", "handler"}
    <3>1. Whole /\ buffered \in 0..Limit /\ Limit \in Nat
      BY <1>1, <2>1, HandlerFacts, HttpAssumption
      DEF Inv, AtPre, AtDispatch, Types
    <3> QED
      BY <2>1, <3>1 DEF BufferedWhole, Whole, BufferedRoute
  <2>2. CASE st = "continue"
    <3>1. req \in Requests /\ ~TooLarge(req)
      BY <1>1, <2>2 DEF Inv, AtContinue
    <3>2. req.body \in Nat /\ Limit \in Nat
      BY <3>1, RequestFacts, HttpAssumption
    <3> QED
      BY <2>2, <3>1, <3>2 DEF BufferedWhole, TooLarge
  <2> QED
    BY <2>1, <2>2 DEF BufferedWhole
<1>2. ASSUME Inv PROVE BoundaryKept
  <2>1. CASE st = "header"
    BY <1>2, <2>1 DEF Inv, AtHeader
  <2>2. CASE st # "header"
    BY <2>2 DEF BoundaryKept
  <2> QED
    BY <2>1, <2>2
<1>3. Inv => BodyExact
  BY <1>1, <1>2 DEF BodyExact
<1> QED
  BY Invariance, <1>3, PTL

-----------------------------------------------------------------------------
(* A buffered request between its header and its response: the chain of     *)
(* interceptors, the handler and the exception pipeline (Interceptors).     *)

CONSTANTS N, Handlers
VARIABLES index, active, result, threw, results, res, failed, dispatched,
          handled

Pipeline == INSTANCE Interceptors WITH posted <- results

(* The instance's copy of Cardinality is the library's. *)
LEMMA SameCardinality ==
  ASSUME NEW S
  PROVE  Pipeline!Cardinality(S) = Cardinality(S)
  BY Zenon DEF Pipeline!Cardinality, Cardinality

Decisions == {"none", "exception", "400", "500", "unknown", "mapped", "handler"}
Writers == {"interceptor", "handler", "mapper", "post"}
Responses == [by : Decisions, of : Pipeline!Exceptions \cup {"none"},
              parts : SUBSET Writers]

(* What ValidationIs400 says of a response. *)
Validated(r) ==
  r.of \in {"parameter", "body"} =>
    /\ r.by \in {"400", "mapped", "500"}
    /\ "mapper" \in r.parts <=> r.by # "400"

(* Nothing of the handler or an interceptor is in a response. *)
Clean(r) == r.parts \cap {"handler", "interceptor"} = {}

(* What handle_exception makes of a response, whatever the registered       *)
(* exception handlers do.                                                   *)
LEMMA HandledFacts ==
  ASSUME NEW E \in SUBSET Pipeline!Exceptions, NEW parts,
         NEW r \in Pipeline!Handled(E, parts)
  PROVE  r \in Responses /\ Validated(r) /\ Clean(r) /\ r.of \in E
<1>1. PICK e \in E, asked \in [1..Handlers -> {"declines", "handles", "throws"}] :
        r = Pipeline!HandleException(e, asked, parts)
  BY DEF Pipeline!Handled
<1>2. e \in {"http", "parameter", "body", "std", "other"}
  BY <1>1 DEF Pipeline!Exceptions
<1>3. CASE e = "http"
  <2>1. r = [by |-> "exception", of |-> e, parts |-> {}]
    BY <1>1, <1>3 DEF Pipeline!HandleException, Pipeline!Response,
         Pipeline!ResetParts
  <2> QED
    BY <1>1, <1>2, <1>3, <2>1 DEF Responses, Decisions, Writers, Validated,
         Clean, Pipeline!Exceptions
<1>4. CASE e # "http"
  <2>1. PICK b \in BOOLEAN : b <=>
          {j \in 1..Handlers : asked[j] # "declines"} = {}
    OBVIOUS
  <2>2. CASE b
    <3>1. r = [by |-> Pipeline!Default(e), of |-> e, parts |-> {}]
      BY <1>1, <1>4, <2>1, <2>2 DEF Pipeline!HandleException,
           Pipeline!Response, Pipeline!ResetParts
    <3>2. /\ e \in {"parameter", "body"} => Pipeline!Default(e) = "400"
          /\ e = "std" => Pipeline!Default(e) = "500"
          /\ e = "other" => Pipeline!Default(e) = "unknown"
      BY DEF Pipeline!Default
    <3>3. Pipeline!Default(e) \in {"400", "500", "unknown"}
      BY <1>2, <1>4, <3>2
    <3> QED
      BY <1>1, <1>2, <1>4, <3>1, <3>2, <3>3 DEF Responses, Decisions, Writers,
           Validated, Clean, Pipeline!Exceptions
  <2>3. CASE ~b
    <3>1. PICK x \in {"mapped", "500"} :
            r = [by |-> x, of |-> e, parts |-> {"mapper"}]
      BY <1>1, <1>4, <2>1, <2>3 DEF Pipeline!HandleException,
           Pipeline!Response, Pipeline!ResetParts
    <3> QED
      BY <1>1, <1>2, <1>4, <3>1 DEF Responses, Decisions, Writers,
           Validated, Clean, Pipeline!Exceptions
  <2> QED
    BY <2>1, <2>2, <2>3
<1> QED
  BY <1>3, <1>4

(* The chain has ended, by a Stop or by the Continue of its last one. *)
Completed ==
  \/ N = 0
  \/ index \in 1..N /\ (result[index] = "Stop"
                        \/ (index = N /\ result[index] # "none"))

ChainTypes ==
  /\ index \in 0..N /\ (index = 0 => N = 0)
  /\ active \in SUBSET (1..index) /\ threw \in SUBSET (1..index)
  /\ active \cap threw = {}
  /\ result \in [1..N -> {"none", "Continue", "Stop"}]
  /\ results \in Seq({"Continue", "Stop"})
  /\ dispatched \in Nat
  /\ failed \in BOOLEAN /\ handled \in BOOLEAN
  /\ res \in Responses

(* Only the interceptor called last may still have to complete, and the     *)
(* strand is told to go on only if all have let the request pass.           *)
ChainOrder ==
  /\ \A i \in 1..N : i < index => result[i] = "Continue"
  /\ \A i \in 1..N : i > index => result[i] = "none"
  /\ handled \/ (\E k \in DOMAIN results : results[k] = "Continue") =>
       \A i \in 1..N : result[i] = "Continue"

(* What was posted: one result of the chain, and one for each exception. *)
ChainCount ==
  dispatched + Len(results) = (IF Completed THEN 1 ELSE 0) + Cardinality(threw)

(* The response of a request that failed. *)
ChainResponse ==
  /\ Validated(res)
  /\ failed /\ threw = {} => dispatched > 0
  /\ failed /\ res.by # "handler" /\ Pipeline!Twice = {} => Clean(res)

ChainInv == ChainTypes /\ ChainOrder /\ ChainCount /\ ChainResponse

(* At most one interceptor threw and never completed: the one called last,  *)
(* and then the chain has not ended.                                        *)
LEMMA OnceMore ==
  ASSUME Pipeline!ChainAssumption, ChainTypes, ChainOrder
  PROVE  /\ IsFiniteSet(threw)
         /\ Cardinality(threw) \in Nat /\ Cardinality(Pipeline!Twice) \in Nat
         /\ Pipeline!Twice \subseteq threw
         /\ \/ threw = Pipeline!Twice
            \/ /\ ~Completed /\ threw = Pipeline!Twice \cup {index}
               /\ Cardinality(threw) = Cardinality(Pipeline!Twice) + 1
<1>1. N \in Nat /\ index \in Nat /\ index <= N
  BY DEF Pipeline!ChainAssumption, ChainTypes
<1>2. IsFiniteSet(1..index)
  BY <1>1, FS_Interval
<1>3. IsFiniteSet(threw) /\ Pipeline!Twice \in SUBSET threw
  BY <1>2, FS_Subset DEF ChainTypes, Pipeline!Twice
<1>4. IsFiniteSet(Pipeline!Twice)
  BY <1>3, FS_Subset
<1>5. Cardinality(threw) \in Nat /\ Cardinality(Pipeline!Twice) \in Nat
  BY <1>3, <1>4, FS_CardinalityType
<1>6. ASSUME NEW i \in threw, i \notin Pipeline!Twice
      PROVE  i = index /\ result[index] = "none"
  <2>1. result[i] = "none" /\ i \in 1..index
    BY <1>6 DEF Pipeline!Twice, ChainTypes
  <2>2. i \in 1..N
    BY <1>1, <2>1
  <2>3. ~(i < index)
    BY <2>1, <2>2 DEF ChainOrder
  <2> QED
    BY <1>1, <2>1, <2>3
<1>7. CASE threw = Pipeline!Twice
  BY <1>3, <1>5, <1>7
<1>8. CASE threw # Pipeline!Twice
  <2>1. PICK i \in threw : i \notin Pipeline!Twice
    BY <1>3, <1>8
  <2>2. i = index /\ result[index] = "none"
    BY <1>6, <2>1
  <2>3. threw = Pipeline!Twice \cup {index} /\ index \notin Pipeline!Twice
    BY <1>3, <1>6, <2>1, <2>2
  <2>4. Cardinality(threw) = Cardinality(Pipeline!Twice) + 1
    BY <1>4, <2>3, FS_AddElement
  <2>5. N # 0
    BY <1>1, <2>1 DEF ChainTypes
  <2>6. ~Completed
    BY <2>2, <2>5 DEF Completed
  <2> QED
    BY <1>3, <1>5, <2>3, <2>4, <2>6
<1> QED
  BY <1>7, <1>8

LEMMA ChainInit ==
  ASSUME Pipeline!ChainAssumption, Pipeline!Init
  PROVE  ChainInv
<1> USE DEF Pipeline!ChainAssumption, Pipeline!Init
<1>1. res = [by |-> "none", of |-> "none", parts |-> {}]
  BY DEF Pipeline!Response
<1>2. res \in Responses /\ Validated(res)
  BY <1>1 DEF Responses, Decisions, Writers, Validated
<1>3. ChainTypes
  <2>1. failed \in BOOLEAN /\ handled \in BOOLEAN
    OBVIOUS
  <2>2. results \in Seq({"Continue", "Stop"}) /\ dispatched \in Nat
    <3>1. results = <<"Continue">> \/ results = <<>>
      OBVIOUS
    <3>2. <<"Continue">> \in Seq({"Continue", "Stop"})
      OBVIOUS
    <3>3. <<>> \in Seq({"Continue", "Stop"})
      OBVIOUS
    <3>4. results \in Seq({"Continue", "Stop"})
      BY <3>1, <3>2, <3>3, Zenon
    <3> QED
      BY <3>4
  <2>3. /\ index \in 0..N /\ (index = 0 => N = 0)
        /\ active \in SUBSET (1..index) /\ threw \in SUBSET (1..index)
        /\ active \cap threw = {}
    OBVIOUS
  <2>4. result \in [1..N -> {"none", "Continue", "Stop"}]
    BY DEF Pipeline!Chain
  <2> QED
    BY <1>2, <2>1, <2>2, <2>3, <2>4 DEF ChainTypes
<1>4. ChainOrder
  <2>1. CASE N = 0
    BY <2>1 DEF ChainOrder
  <2>2. CASE N # 0
    BY <2>2 DEF ChainOrder, Pipeline!Chain
  <2> QED
    BY <2>1, <2>2
<1>5. ChainCount
  <2>1. Cardinality(threw) = 0
    BY FS_EmptySet
  <2>2. CASE N = 0
    <3>1. Completed /\ results = <<"Continue">> /\ dispatched = 0
      BY <2>2 DEF Completed
    <3>2. Len(results) = 1
      BY <3>1
    <3> QED
      BY <2>1, <3>1, <3>2 DEF ChainCount
  <2>3. CASE N # 0
    <3>1. results = <<>> /\ dispatched = 0 /\ index = 1 /\ result[1] = "none"
      BY <2>3 DEF Pipeline!Chain
    <3>2. ~Completed
      BY <2>3, <3>1 DEF Completed
    <3>3. Len(results) = 0
      BY <3>1
    <3> QED
      BY <2>1, <3>1, <3>2, <3>3 DEF ChainCount
  <2> QED
    BY <2>2, <2>3
<1>6. ChainResponse
  BY <1>2 DEF ChainResponse
<1> QED
  BY <1>3, <1>4, <1>5, <1>6 DEF ChainInv

-----------------------------------------------------------------------------
(* Every step keeps the invariant. *)

(* Only the interceptor called last can complete, and it has not thrown     *)
(* unless it counts twice from now on.                                      *)
LEMMA ChainCompletes ==
  ASSUME Pipeline!ChainAssumption, ChainInv,
         NEW i \in Pipeline!Chain, NEW r \in Pipeline!Results,
         Pipeline!Complete(i, r)
  PROVE  ChainInv'
<1> USE DEF ChainInv
<1>1. /\ N \in Nat /\ index \in Nat /\ index <= N /\ i \in 1..N
      /\ r \in {"Continue", "Stop"}
  BY DEF Pipeline!ChainAssumption, ChainTypes, Pipeline!Chain,
       Pipeline!Results
<1>2. /\ i <= index /\ result[i] = "none"
      /\ result' = [result EXCEPT ![i] = r]
      /\ res' = [res EXCEPT !.parts = @ \cup {"interceptor"}]
      /\ UNCHANGED <<threw, failed, dispatched, handled>>
  BY DEF Pipeline!Complete
<1>3. i = index
  BY <1>1, <1>2 DEF ChainOrder
<1>4. ~Completed
  BY <1>1, <1>2, <1>3 DEF Completed
<1>5. ~handled /\ \A k \in DOMAIN results : results[k] # "Continue"
  BY <1>1, <1>2 DEF ChainOrder, ChainTypes
<1>6. /\ result' \in [1..N -> {"none", "Continue", "Stop"}]
      /\ result'[i] = r /\ \A j \in 1..N : j # i => result'[j] = result[j]
  BY <1>1, <1>2 DEF ChainTypes
<1>7. /\ res' \in Responses /\ res'.of = res.of /\ res'.by = res.by
      /\ "mapper" \in res'.parts <=> "mapper" \in res.parts
  <2>1. res \in Responses
    BY DEF ChainTypes
  <2> QED
    BY <1>2, <2>1 DEF Responses, Writers
<1>8. ChainResponse'
  <2>1. Validated(res')
    BY <1>7 DEF ChainResponse, Validated
  <2>2. failed => Pipeline!Twice' # {}
    <3>1. SUFFICES ASSUME failed PROVE Pipeline!Twice' # {}
      OBVIOUS
    <3>2. threw # {}
      <4>1. SUFFICES ASSUME threw = {} PROVE FALSE
        OBVIOUS
      <4>2. dispatched > 0
        BY <3>1, <4>1 DEF ChainResponse
      <4>3. dispatched + Len(results) = 0
        BY <1>4, <4>1, FS_EmptySet DEF ChainCount
      <4> QED
        BY <4>2, <4>3 DEF ChainTypes
    <3>3. PICK j \in threw : TRUE
      BY <3>2
    <3>4. j \in 1..index
      BY <3>3 DEF ChainTypes
    <3>5. result'[j] # "none"
      <4>1. CASE j = i
        BY <1>1, <1>6, <4>1
      <4>2. CASE j # i
        <5>1. result[j] = "Continue" /\ j \in 1..N
          BY <1>1, <1>3, <3>4, <4>2 DEF ChainOrder
        <5> QED
          BY <1>6, <4>2, <5>1
      <4> QED
        BY <4>1, <4>2
    <3> QED
      BY <1>2, <3>3, <3>5 DEF Pipeline!Twice
  <2>3. failed' /\ threw' = {} => dispatched' > 0
    BY <1>2 DEF ChainResponse
  <2> QED
    BY <1>2, <2>1, <2>2, <2>3 DEF ChainResponse
<1>9. CASE Pipeline!EndsChain(r)
  <2>1. /\ results' = Append(results, r) /\ UNCHANGED <<index, active>>
        /\ r = "Stop" \/ index = N
    BY <1>9 DEF Pipeline!Complete, Pipeline!Advance, Pipeline!EndsChain
  <2>2. results \in Seq({"Continue", "Stop"}) /\ Len(results) \in Nat
    BY DEF ChainTypes
  <2>3. /\ results' \in Seq({"Continue", "Stop"})
        /\ Len(results') = Len(results) + 1
        /\ DOMAIN results' = 1..(Len(results) + 1)
        /\ results'[Len(results) + 1] = r
        /\ \A k \in 1..Len(results) : results'[k] = results[k]
    BY <1>1, <2>1, <2>2
  <2>4. ChainTypes'
    BY <1>2, <1>6, <1>7, <2>1, <2>3 DEF ChainTypes
  <2>5. Completed'
    BY <1>1, <1>3, <1>6, <2>1 DEF Completed
  <2>6. ChainCount'
    <3>1. dispatched + Len(results) = Cardinality(threw)
      BY <1>1, <1>4, OnceMore DEF ChainCount
    <3>2. dispatched' + Len(results') = 1 + Cardinality(threw')
      BY <1>2, <2>2, <2>3, <3>1 DEF ChainTypes
    <3> QED
      BY <2>5, <3>2 DEF ChainCount
  <2>7. ChainOrder'
    <3>1. /\ \A j \in 1..N : j < index => result'[j] = "Continue"
          /\ \A j \in 1..N : j > index => result'[j] = "none"
      BY <1>1, <1>3, <1>6 DEF ChainOrder
    <3>2. ASSUME NEW k \in DOMAIN results', results'[k] = "Continue"
          PROVE  \A j \in 1..N : result'[j] = "Continue"
      <4>1. k = Len(results) + 1
        BY <1>5, <2>2, <2>3, <3>2
      <4>2. r = "Continue" /\ index = N
        BY <2>1, <2>3, <3>2, <4>1
      <4> QED
        BY <1>1, <1>3, <1>6, <3>1, <4>2
    <3> QED
      BY <1>2, <1>5, <2>1, <3>1, <3>2 DEF ChainOrder
  <2> QED
    BY <1>8, <2>4, <2>6, <2>7
<1>10. CASE ~Pipeline!EndsChain(r)
  <2>1. /\ index' = index + 1 /\ active' = active \cup {index + 1}
        /\ results' = results /\ r = "Continue" /\ index # N
    BY <1>1, <1>10 DEF Pipeline!Complete, Pipeline!Advance, Pipeline!EndsChain
  <2>2. index + 1 \in 1..N /\ result'[index + 1] = "none"
    BY <1>1, <1>3, <1>6, <2>1 DEF ChainOrder
  <2>3. ChainTypes'
    <3>1. /\ 1..index \subseteq 1..index' /\ index + 1 \notin threw
          /\ index + 1 \in 1..index' /\ index' \in 0..N /\ index' # 0
      BY <1>1, <2>1 DEF ChainTypes
    <3> QED
      BY <1>2, <1>6, <1>7, <2>1, <3>1 DEF ChainTypes
  <2>4. ChainOrder'
    <3>1. /\ \A j \in 1..N : j < index' => result'[j] = "Continue"
          /\ \A j \in 1..N : j > index' => result'[j] = "none"
      BY <1>1, <1>3, <1>6, <2>1 DEF ChainOrder
    <3> QED
      BY <1>2, <1>5, <2>1, <3>1 DEF ChainOrder
  <2>5. ~Completed'
    BY <1>1, <2>1, <2>2 DEF Completed
  <2>6. ChainCount'
    BY <1>2, <1>4, <2>1, <2>5 DEF ChainCount
  <2> QED
    BY <1>8, <2>3, <2>4, <2>6
<1> QED
  BY <1>9, <1>10

LEMMA ChainReturns ==
  ASSUME Pipeline!ChainAssumption, ChainInv,
         NEW i \in Pipeline!Chain, Pipeline!Return(i)
  PROVE  ChainInv'
<1> USE DEF ChainInv, Pipeline!Return
<1>1. ChainTypes'
  BY DEF ChainTypes
<1>2. ChainOrder' /\ ChainResponse'
  BY DEF ChainOrder, ChainResponse, Pipeline!Twice
<1>3. Completed' <=> Completed
  BY DEF Completed
<1>4. ChainCount'
  BY <1>3 DEF ChainCount
<1> QED
  BY <1>1, <1>2, <1>4

(* The catch block in advance() answers the exception and stops the         *)
(* request, once for each interceptor that throws.                          *)
LEMMA ChainThrows ==
  ASSUME Pipeline!ChainAssumption, ChainInv,
         NEW i \in Pipeline!Chain, Pipeline!Throw(i)
  PROVE  ChainInv'
<1> USE DEF ChainInv
<1>1. /\ i \in active /\ res' \in Pipeline!Handled(Pipeline!Exceptions, res.parts)
      /\ failed' = TRUE /\ threw' = threw \cup {i}
      /\ results' = results \o <<"Stop">> /\ active' = active \ {i}
      /\ UNCHANGED <<index, result, dispatched, handled>>
  BY DEF Pipeline!Throw, Pipeline!Caught, Pipeline!CatchPosts
<1>2. results \in Seq({"Continue", "Stop"}) /\ Len(results) \in Nat
  BY DEF ChainTypes
<1>3. /\ results' \in Seq({"Continue", "Stop"})
      /\ Len(results') = Len(results) + 1
      /\ DOMAIN results' = 1..(Len(results) + 1)
      /\ results'[Len(results) + 1] = "Stop"
      /\ \A k \in 1..Len(results) : results'[k] = results[k]
  BY <1>1, <1>2
<1>4. res' \in Responses /\ Validated(res') /\ Clean(res')
  BY <1>1, HandledFacts
<1>5. ChainTypes'
  <2>1. failed' \in BOOLEAN /\ handled' \in BOOLEAN
    BY <1>1 DEF ChainTypes
  <2> QED
    BY <1>1, <1>3, <1>4, <2>1 DEF ChainTypes
<1>6. ChainOrder'
  <2>1. ASSUME NEW k \in DOMAIN results', results'[k] = "Continue"
        PROVE  k \in DOMAIN results /\ results[k] = "Continue"
    BY <1>2, <1>3, <2>1
  <2> QED
    BY <1>1, <2>1 DEF ChainOrder
<1>7. ChainCount'
  <2>1. i \notin threw
    BY <1>1 DEF ChainTypes
  <2>2. IsFiniteSet(threw) /\ Cardinality(threw) \in Nat
    BY OnceMore
  <2>3. Cardinality(threw') = Cardinality(threw) + 1
    BY <1>1, <2>1, <2>2, FS_AddElement
  <2>4. Completed' <=> Completed
    BY <1>1 DEF Completed
  <2>5. PICK c \in Nat : c = IF Completed THEN 1 ELSE 0
    OBVIOUS
  <2>6. dispatched + Len(results) = c + Cardinality(threw)
    BY <2>5 DEF ChainCount
  <2>7. dispatched' + Len(results') = c + Cardinality(threw')
    <3>1. dispatched \in Nat /\ dispatched' = dispatched
      BY <1>1 DEF ChainTypes
    <3>2. PICK a \in Nat, b \in Nat :
            /\ a = Len(results) /\ b = Cardinality(threw)
            /\ dispatched + a = c + b
      BY <1>2, <2>2, <2>6
    <3>3. Len(results') = a + 1 /\ Cardinality(threw') = b + 1
      BY <1>3, <2>3, <3>2
    <3>4. dispatched + (a + 1) = c + (b + 1)
      BY <2>5, <3>1, <3>2
    <3> QED
      BY <3>1, <3>3, <3>4
  <2> QED
    BY <2>4, <2>5, <2>7 DEF ChainCount
<1>8. ChainResponse'
  BY <1>1, <1>4 DEF ChainResponse
<1> QED
  BY <1>5, <1>6, <1>7, <1>8

(* dispatch_request_after_interceptors: the handler, the exceptions and the *)
(* post-interceptors.                                                       *)
LEMMA ChainDispatches ==
  ASSUME Pipeline!ChainAssumption, ChainInv, Pipeline!Dispatch
  PROVE  ChainInv'
<1> USE DEF ChainInv
<1>1. /\ results # <<>> /\ results' = Tail(results)
      /\ dispatched' = dispatched + 1
      /\ UNCHANGED <<index, active, result, threw>>
  BY DEF Pipeline!Dispatch
<1>2. PICK stop \in BOOLEAN : stop <=> Head(results) = "Stop"
  OBVIOUS
<1>3. PICK wrote : wrote = IF stop THEN res
                 ELSE Pipeline!Response("handler", "none",
                                        res.parts \cup {"handler"})
  OBVIOUS
<1>4. PICK throws \in BOOLEAN, postThrows \in BOOLEAN :
        /\ stop => ~throws
        /\ handled' = (handled \/ ~stop)
        /\ failed' = (failed \/ throws \/ postThrows)
        /\ \E answer \in IF throws
                         THEN Pipeline!Handled(Pipeline!Exceptions, wrote.parts)
                         ELSE {wrote} :
             IF postThrows THEN res' \in Pipeline!Handled({"std"}, answer.parts)
             ELSE res' = [answer EXCEPT !.parts = @ \cup {"post"}]
  BY <1>2, <1>3 DEF Pipeline!Dispatch
<1>5. PICK answer :
        /\ throws => answer \in Pipeline!Handled(Pipeline!Exceptions, wrote.parts)
        /\ ~throws => answer = wrote
        /\ postThrows => res' \in Pipeline!Handled({"std"}, answer.parts)
        /\ ~postThrows => res' = [answer EXCEPT !.parts = @ \cup {"post"}]
  BY <1>4
<1>6. res \in Responses /\ Validated(res)
  BY DEF ChainTypes, ChainResponse
<1>7. /\ wrote \in Responses /\ Validated(wrote)
      /\ stop => wrote = res
      /\ ~stop => wrote.by = "handler"
  <2>1. CASE stop
    BY <1>3, <1>6, <2>1
  <2>2. CASE ~stop
    <3>1. wrote = [by |-> "handler", of |-> "none",
                   parts |-> res.parts \cup {"handler"}]
      BY <1>3, <2>2 DEF Pipeline!Response
    <3> QED
      BY <1>6, <2>2, <3>1 DEF Responses, Decisions, Writers, Validated
  <2> QED
    BY <2>1, <2>2
<1>8. answer \in Responses /\ Validated(answer) /\ (throws => Clean(answer))
  BY <1>5, <1>7, HandledFacts
<1>9. /\ res' \in Responses /\ Validated(res')
      /\ postThrows => Clean(res')
      /\ ~postThrows => res'.by = answer.by /\ (Clean(answer) => Clean(res'))
  <2>1. CASE postThrows
    <3>1. {"std"} \in SUBSET Pipeline!Exceptions
      BY DEF Pipeline!Exceptions
    <3> QED
      BY <1>5, <2>1, <3>1, HandledFacts
  <2>2. CASE ~postThrows
    BY <1>5, <1>8, <2>2 DEF Responses, Writers, Validated, Clean
  <2> QED
    BY <2>1, <2>2
<1>10. /\ results \in Seq({"Continue", "Stop"}) /\ Len(results) \in Nat
       /\ Len(results) > 0
  BY <1>1 DEF ChainTypes
<1>11. /\ results' \in Seq({"Continue", "Stop"})
       /\ Len(results') = Len(results) - 1
       /\ DOMAIN results' = 1..(Len(results) - 1)
       /\ \A k \in 1..(Len(results) - 1) : results'[k] = results[k + 1]
       /\ Head(results) = results[1] /\ 1 \in DOMAIN results
       /\ DOMAIN results = 1..Len(results)
  BY <1>1, <1>10
<1>12. failed' \in BOOLEAN /\ handled' \in BOOLEAN
  BY <1>4
<1>13. ChainTypes'
  BY <1>1, <1>9, <1>11, <1>12 DEF ChainTypes
<1>14. ChainOrder'
  <2>1. ASSUME ~stop
        PROVE  \A j \in 1..N : result[j] = "Continue"
    <3>1. results[1] = "Continue"
      BY <1>2, <1>10, <1>11, <2>1
    <3> QED
      BY <1>11, <3>1 DEF ChainOrder
  <2>2. ASSUME NEW k \in DOMAIN results', results'[k] = "Continue"
        PROVE  \A j \in 1..N : result[j] = "Continue"
    <3>1. k + 1 \in DOMAIN results /\ results[k + 1] = "Continue"
      BY <1>10, <1>11, <2>2
    <3> QED
      BY <3>1 DEF ChainOrder
  <2>3. handled' => handled \/ ~stop
    BY <1>4
  <2> QED
    BY <1>1, <2>1, <2>2, <2>3 DEF ChainOrder
<1>15. ChainCount'
  <2>1. Completed' <=> Completed
    BY <1>1 DEF Completed
  <2>2. dispatched' + Len(results') = dispatched + Len(results)
    BY <1>1, <1>10, <1>11 DEF ChainTypes
  <2> QED
    BY <1>1, <2>1, <2>2 DEF ChainCount
<1>16. ChainResponse'
  <2>1. dispatched' > 0
    BY <1>1 DEF ChainTypes
  <2>2. Pipeline!Twice' = Pipeline!Twice
    BY <1>1 DEF Pipeline!Twice
  <2>3. ASSUME failed', res'.by # "handler", Pipeline!Twice = {}
        PROVE  Clean(res')
    <3>1. CASE postThrows
      BY <1>9, <3>1
    <3>2. CASE ~postThrows /\ throws
      BY <1>8, <1>9, <3>2
    <3>3. CASE ~postThrows /\ ~throws
      <4>1. failed
        BY <1>4, <2>3, <3>3
      <4>2. answer = wrote /\ answer.by # "handler"
        BY <1>5, <1>9, <2>3, <3>3
      <4>3. wrote = res
        BY <1>7, <4>2
      <4>4. Clean(answer)
        BY <2>3, <4>1, <4>2, <4>3 DEF ChainResponse
      <4> QED
        BY <1>9, <3>3, <4>4
    <3> QED
      BY <3>1, <3>2, <3>3
  <2> QED
    BY <1>9, <2>1, <2>2, <2>3 DEF ChainResponse
<1> QED
  BY <1>13, <1>14, <1>15, <1>16

(* The invariant gives the four parts of ChainSound. *)
LEMMA ChainEntails ==
  ASSUME Pipeline!ChainAssumption, ChainInv
  PROVE  Pipeline!ChainSound
<1> USE DEF ChainInv
<1>1. Pipeline!GuardsHold
  BY DEF Pipeline!GuardsHold, ChainOrder, Pipeline!Chain
<1>2. Pipeline!DispatchedOnce
  <2>1. dispatched + Len(results) <= 1 + Cardinality(Pipeline!Twice)
    BY OnceMore DEF ChainCount
  <2> QED
    BY <2>1, SameCardinality DEF Pipeline!DispatchedOnce
<1>3. Pipeline!ErrorIsClean
  BY DEF Pipeline!ErrorIsClean, ChainResponse, Clean
<1>4. Pipeline!ValidationIs400
  BY DEF Pipeline!ValidationIs400, ChainResponse, Validated
<1> QED
  BY <1>1, <1>2, <1>3, <1>4 DEF Pipeline!ChainSound

(* For any number of interceptors and of exception handlers, with           *)
(* completions from any thread and exceptions at any point: a request       *)
(* passes only if every interceptor lets it, is dispatched once, once more  *)
(* only for an interceptor that completes and throws as well, and an        *)
(* exception is answered as what it is, with nothing written before it.     *)
THEOREM ChainCorrect ==
  ASSUME Pipeline!ChainAssumption
  PROVE  Pipeline!Spec => []Pipeline!ChainSound
<1>1. Pipeline!Init => ChainInv
  BY ChainInit
<1>2. ChainInv /\ [Pipeline!Next]_(Pipeline!vars) => ChainInv'
  <2>1. SUFFICES ASSUME ChainInv, [Pipeline!Next]_(Pipeline!vars)
                 PROVE  ChainInv'
    OBVIOUS
  <2>2. CASE UNCHANGED Pipeline!vars
    <3>1. Completed' <=> Completed
      BY <2>2 DEF Completed, Pipeline!vars
    <3>2. ChainTypes' /\ ChainOrder' /\ ChainResponse'
      BY <2>1, <2>2 DEF ChainInv, ChainTypes, ChainOrder, ChainResponse,
           Pipeline!Twice, Pipeline!vars
    <3>3. ChainCount'
      BY <2>1, <2>2, <3>1 DEF ChainInv, ChainCount, Pipeline!vars
    <3> QED
      BY <3>2, <3>3 DEF ChainInv
  <2>3. CASE Pipeline!Dispatch
    BY <2>1, <2>3, ChainDispatches
  <2>4. ASSUME NEW i \in Pipeline!Chain, Pipeline!Intercept(i)
        PROVE  ChainInv'
    BY <2>1, <2>4, ChainCompletes, ChainReturns, ChainThrows
       DEF Pipeline!Intercept
  <2> QED
    BY <2>1, <2>2, <2>3, <2>4 DEF Pipeline!Next
<1>3. ChainInv => Pipeline!ChainSound
  BY ChainEntails
<1> QED
  BY <1>1, <1>2, <1>3, PTL DEF Pipeline!Spec

-----------------------------------------------------------------------------
(* The router that the session asks for a handler (HttpRouter), with the    *)
(* typed routes and the documentation that are built on it (TypedRoutes,    *)
(* OpenApi).                                                                *)

CONSTANTS Params, Patterns, Paths, Decoded, Bases, Methods, GET, HEAD,
          PlainKinds, Docs, MaxRegs, MaxDocs,
          NameOf, PathNames, QueryNames, MaxDescriptors, DocPaths
VARIABLES base, routes, descriptors, log, given, declared, installing, page

Routing == INSTANCE OpenApi

(* What an application may give as documentation. *)
GivenDocs == Docs \cup {Routing!NoDoc}

(* The instance's copy of Cardinality is the library's. *)
LEMMA RoutingCardinality ==
  ASSUME NEW S
  PROVE  Routing!Cardinality(S) = Cardinality(S)
  BY Zenon DEF Routing!Cardinality, Cardinality

(* The smallest of a set of positions... *)
LEMMA FirstIsLeast ==
  ASSUME NEW S \in SUBSET Nat, S # {}
  PROVE  Routing!FirstOf(S) \in S /\ \A j \in S : Routing!FirstOf(S) <= j
<1>1. PICK R : R = OpToRel(<, Nat)
  OBVIOUS
<1>2. IsWellFoundedOn(R, Nat)
  BY <1>1, NatLessThanWellFounded
<1>3. PICK x \in S : \A y \in S : <<y, x>> \notin R
  BY <1>2, WFMin
<1>4. \A y \in S : <<y, x>> \in Nat \X Nat
  OBVIOUS
<1>5. \A y \in S : ~(y < x)
  BY <1>1, <1>3, <1>4 DEF OpToRel
<1>6. \A y \in S : x <= y
  BY <1>5
<1> QED
  BY <1>6 DEF Routing!FirstOf

(* ... and the largest. *)
LEMMA LastIsGreatest ==
  ASSUME NEW n \in Nat, NEW S \in SUBSET (1..n), S # {}
  PROVE  Routing!LastOf(S) \in S /\ \A j \in S : j <= Routing!LastOf(S)
<1>1. PICK T : T = {k \in Nat : n - k \in S}
  OBVIOUS
<1>2. T \in SUBSET Nat /\ T # {}
  <2>1. PICK x \in S : TRUE
    OBVIOUS
  <2>2. n - x \in Nat /\ n - (n - x) = x
    OBVIOUS
  <2> QED
    BY <1>1, <2>1, <2>2
<1>3. PICK k \in T : \A j \in T : k <= j
  BY <1>2, FirstIsLeast
<1>4. k \in Nat /\ n - k \in S
  BY <1>1, <1>3
<1>5. ASSUME NEW j \in S
      PROVE  j <= n - k
  <2>1. j \in Nat /\ n - j \in Nat /\ n - (n - j) = j
    OBVIOUS
  <2>2. n - j \in T
    BY <1>1, <2>1
  <2>3. k <= n - j
    BY <1>3, <2>2
  <2> QED
    BY <1>4, <2>1, <2>3
<1> QED
  BY <1>4, <1>5 DEF Routing!LastOf

(* The largest position of a set, if one is known. *)
LEMMA LastIs ==
  ASSUME NEW S \in SUBSET Nat, NEW x \in S, \A j \in S : j <= x
  PROVE  Routing!LastOf(S) = x
<1>1. \A y \in S : (\A j \in S : j <= y) => y = x
  OBVIOUS
<1> QED
  BY <1>1 DEF Routing!LastOf

(* The number of segments of a kind in a pattern. *)
LEMMA SegmentCounts ==
  ASSUME NEW p \in Seq(STRING)
  PROVE  /\ Cardinality(Routing!ParamAt(p)) \in Nat
         /\ Cardinality(Routing!Literals(p)) \in Nat
<1>1. DOMAIN p = 1..Len(p) /\ Len(p) \in Nat
  OBVIOUS
<1>2. /\ Routing!ParamAt(p) \in SUBSET (1..Len(p))
      /\ Routing!Literals(p) \in SUBSET (1..Len(p))
  BY <1>1 DEF Routing!ParamAt, Routing!Literals
<1>3. IsFiniteSet(1..Len(p))
  BY <1>1, FS_Interval
<1>4. IsFiniteSet(Routing!ParamAt(p)) /\ IsFiniteSet(Routing!Literals(p))
  BY <1>2, <1>3, FS_Subset
<1> QED
  BY <1>4, FS_CardinalityType

(* compare_specificity is the order that the documentation gives, and no    *)
(* pattern is more specific than itself.                                    *)
LEMMA BeforeIsMoreSpecific ==
  ASSUME NEW p \in Seq(STRING), NEW q \in Seq(STRING)
  PROVE  /\ Routing!MoreSpecific(p, q) => Routing!Before(p, q)
         /\ ~Routing!MoreSpecific(p, p)
<1>1. PICK lp \in Nat, lq \in Nat, pp \in Nat, pq \in Nat :
        /\ lp = Routing!Cardinality(Routing!Literals(p))
        /\ lq = Routing!Cardinality(Routing!Literals(q))
        /\ pp = Routing!Cardinality(Routing!ParamAt(p))
        /\ pq = Routing!Cardinality(Routing!ParamAt(q))
  BY SegmentCounts, RoutingCardinality
<1>2. Routing!MoreSpecific(p, q) => lp > lq \/ (lp = lq /\ pp < pq)
  BY <1>1, Zenon DEF Routing!MoreSpecific
<1>3. Routing!MoreSpecific(p, p) => lp > lp \/ pp < pp
  BY <1>1, Zenon DEF Routing!MoreSpecific
<1>4. lp # lq /\ lp > lq => Routing!Before(p, q)
  BY <1>1, Zenon DEF Routing!Before
<1>5. lp = lq /\ pp < pq => Routing!Before(p, q)
  BY <1>1, Zenon DEF Routing!Before
<1>6. lp > lq => lp # lq
  OBVIOUS
<1>7. ~(lp > lp \/ pp < pp)
  OBVIOUS
<1> QED
  BY <1>2, <1>3, <1>4, <1>5, <1>6, <1>7

(* What the sort of a new entry returns: the old entries and the new one,   *)
(* in some order, each once.                                                *)
LEMMA SortedIn ==
  ASSUME NEW R, NEW old \in Seq(R), NEW r \in R, NEW s,
         s \in Routing!SetToSeqs(Routing!ToSet(old) \cup {r})
  PROVE  /\ s \in Seq(R)
         /\ \A i \in DOMAIN s : s[i] = r \/ \E j \in DOMAIN old : s[i] = old[j]
         /\ \A i, j \in DOMAIN s : s[i] = s[j] => i = j
         /\ \E i \in DOMAIN s : s[i] = r
         /\ \A j \in DOMAIN old : \E i \in DOMAIN s : s[i] = old[j]
<1>1. PICK S : S = Routing!ToSet(old) \cup {r}
  OBVIOUS
<1>2. S = {old[j] : j \in DOMAIN old} \cup {r}
  BY <1>1 DEF Routing!ToSet
<1>3. IsFiniteSet(Routing!ToSet(old))
  <2>1. old \in Seq(Routing!ToSet(old)) /\ DOMAIN old = 1..Len(old)
    BY DEF Routing!ToSet
  <2> QED
    BY <2>1 DEF IsFiniteSet, Routing!ToSet
<1>4. IsFiniteSet(S) /\ Cardinality(S) \in Nat
  BY <1>1, <1>3, FS_AddElement, FS_CardinalityType
<1>5. PICK n : n = Routing!Cardinality(S)
  OBVIOUS
<1>6. n \in Nat /\ n = Cardinality(S)
  BY <1>4, <1>5, RoutingCardinality
<1>7. s \in [1..n -> S] /\ \A i, j \in 1..n : i # j => s[i] # s[j]
  BY <1>1, <1>5 DEF Routing!SetToSeqs
<1>8. S \subseteq R
  BY <1>2
<1>9. \A x \in S : \E i \in 1..n : s[i] = x
  <2>1. s \in Injection(1..n, S)
    BY <1>7 DEF Injection, IsInjective
  <2>2. Cardinality(1..n) = n
    BY <1>6, FS_Interval
  <2>3. s \in Surjection(1..n, S)
    BY <1>4, <1>6, <2>1, <2>2, FS_Injection
  <2> QED
    BY <2>3 DEF Surjection
<1>10. s \in Seq(R) /\ DOMAIN s = 1..n
  BY <1>6, <1>7, <1>8
<1>11. \A i \in 1..n : s[i] = r \/ \E j \in DOMAIN old : s[i] = old[j]
  BY <1>2, <1>7
<1>12. \A i, j \in 1..n : s[i] = s[j] => i = j
  BY <1>7
<1>13. \E i \in 1..n : s[i] = r
  BY <1>2, <1>9
<1>14. \A j \in DOMAIN old : \E i \in 1..n : s[i] = old[j]
  BY <1>2, <1>9
<1> QED
  BY <1>10, <1>11, <1>12, <1>13, <1>14

-----------------------------------------------------------------------------
(* The inductive invariant of the router, over lists of entries and of      *)
(* registrations.                                                           *)

Entries == [path : Seq(STRING), sync : [Methods -> Nat],
            async : [Methods -> Nat], stream : [Methods -> Nat]]
Regs == [pattern : Seq(STRING), path : Seq(STRING), method : Methods,
         kind : Routing!Kinds]

(* The registrations of some kinds for a path and a method in a log. *)
IsOf(r, q, m, K) == r.path = q /\ r.method = m /\ r.kind \in K
HitsIn(l, q, m, K) == {i \in DOMAIN l : IsOf(l[i], q, m, K)}
LatestIn(l, q, m, K) ==
  IF HitsIn(l, q, m, K) = {} THEN 0 ELSE Routing!LastOf(HitsIn(l, q, m, K))

EntriesOk(rs) ==
  /\ rs \in Seq(Entries) /\ Routing!Sorted(rs)
  /\ \A i, j \in DOMAIN rs : rs[i].path = rs[j].path => i = j

(* Every path that was registered has an entry. *)
CoveredBy(rs, l) == \A i \in DOMAIN l : \E k \in DOMAIN rs : rs[k].path = l[i].path

ServesIn(rs, l) ==
  \A i \in DOMAIN rs, m \in Methods :
    /\ rs[i].sync[m] = LatestIn(l, rs[i].path, m, {"sync", "hidden"})
    /\ rs[i].async[m] = LatestIn(l, rs[i].path, m, {"async"})
    /\ rs[i].stream[m] = LatestIn(l, rs[i].path, m, {"stream"})

RoutingTypes == base \in Seq(STRING) /\ log \in Seq(Regs)
RouterInv ==
  RoutingTypes /\ EntriesOk(routes) /\ CoveredBy(routes, log)
    /\ ServesIn(routes, log)

(* The latest registration is one of them, if there is one. *)
LEMMA LatestIsHit ==
  ASSUME NEW l \in Seq(Regs), NEW q, NEW m, NEW K
  PROVE  /\ LatestIn(l, q, m, K) \in Nat
         /\ LatestIn(l, q, m, K) <= Len(l)
         /\ LatestIn(l, q, m, K) = 0 <=> HitsIn(l, q, m, K) = {}
         /\ HitsIn(l, q, m, K) # {} =>
              /\ LatestIn(l, q, m, K) \in HitsIn(l, q, m, K)
              /\ \A j \in HitsIn(l, q, m, K) : j <= LatestIn(l, q, m, K)
<1>1. PICK n \in Nat : n = Len(l) /\ DOMAIN l = 1..n
  OBVIOUS
<1>2. PICK H : H = HitsIn(l, q, m, K)
  OBVIOUS
<1>3. H \in SUBSET (1..n)
  BY <1>1, <1>2 DEF HitsIn
<1>4. CASE H = {}
  BY <1>1, <1>2, <1>4 DEF LatestIn
<1>5. CASE H # {}
  <2>1. PICK x : x = Routing!LastOf(H)
    OBVIOUS
  <2>2. x \in H /\ \A j \in H : j <= x
    BY <1>3, <1>5, <2>1, LastIsGreatest
  <2>3. LatestIn(l, q, m, K) = x
    BY <1>2, <1>5, <2>1 DEF LatestIn
  <2>4. x \in Nat /\ x <= n /\ x # 0
    BY <1>3, <2>2
  <2> QED
    BY <1>1, <1>2, <1>5, <2>2, <2>3, <2>4
<1> QED
  BY <1>4, <1>5

(* One registration more is the latest of its path, method and kind, and    *)
(* changes nothing else.                                                    *)
LEMMA LatestAppended ==
  ASSUME NEW l \in Seq(Regs), NEW r \in Regs, NEW q, NEW m, NEW K
  PROVE  /\ IsOf(r, q, m, K) =>
              LatestIn(Append(l, r), q, m, K) = Len(l) + 1
         /\ ~IsOf(r, q, m, K) =>
              LatestIn(Append(l, r), q, m, K) = LatestIn(l, q, m, K)
<1> DEFINE l2 == Append(l, r)
<1>1. PICK n \in Nat : n = Len(l) /\ DOMAIN l = 1..n
  OBVIOUS
<1>2. /\ DOMAIN l2 = 1..(n + 1) /\ l2[n + 1] = r
      /\ \A i \in 1..n : l2[i] = l[i]
  BY <1>1
<1>3. PICK H : H = HitsIn(l, q, m, K)
  OBVIOUS
<1>4. PICK H2 : H2 = HitsIn(l2, q, m, K)
  OBVIOUS
<1>5. CASE IsOf(r, q, m, K)
  <2>1. H2 \in SUBSET Nat /\ n + 1 \in H2 /\ \A j \in H2 : j <= n + 1
    BY <1>2, <1>4, <1>5 DEF HitsIn
  <2>2. Routing!LastOf(H2) = n + 1
    BY <2>1, LastIs
  <2>3. LatestIn(l2, q, m, K) = n + 1
    BY <1>4, <2>1, <2>2 DEF LatestIn
  <2> QED
    BY <1>1, <1>5, <2>3
<1>6. CASE ~IsOf(r, q, m, K)
  <2>1. n + 1 \notin H2
    BY <1>2, <1>4, <1>6 DEF HitsIn
  <2>2. \A i : i \in H2 <=> i \in H
    <3>1. \A i \in 1..n : i \in H2 <=> i \in H
      BY <1>1, <1>2, <1>3, <1>4 DEF HitsIn
    <3>2. H \subseteq 1..n /\ H2 \subseteq 1..(n + 1)
      BY <1>1, <1>2, <1>3, <1>4 DEF HitsIn
    <3>3. \A i \in 1..(n + 1) : i # n + 1 => i \in 1..n
      OBVIOUS
    <3>4. H2 \subseteq 1..n
      BY <2>1, <3>2, <3>3
    <3> QED
      BY <3>1, <3>2, <3>4
  <2>3. H2 = H
    BY <2>2
  <2>4. LatestIn(l2, q, m, K) = LatestIn(l, q, m, K)
    BY <1>3, <1>4, <2>3 DEF LatestIn
  <2> QED
    BY <1>6, <2>4
<1> QED
  BY <1>5, <1>6

(* An entry with one handler more. *)
LEMMA WithHandlerFacts ==
  ASSUME NEW e \in Entries, NEW m \in Methods, NEW kind \in Routing!Kinds,
         NEW n \in Nat, NEW f, f = Routing!WithHandler(e, m, kind, n)
  PROVE  /\ f \in Entries /\ f.path = e.path
         /\ \A k \in Methods :
              /\ f.sync[k] = IF k = m /\ kind \in {"sync", "hidden"} THEN n
                             ELSE e.sync[k]
              /\ f.async[k] = IF k = m /\ kind = "async" THEN n
                              ELSE e.async[k]
              /\ f.stream[k] = IF k = m /\ kind = "stream" THEN n
                               ELSE e.stream[k]
<1> DEFINE Maps == [Methods -> Nat]
<1>1. /\ e = [path |-> e.path, sync |-> e.sync, async |-> e.async,
              stream |-> e.stream]
      /\ e.path \in Seq(STRING)
      /\ e.sync \in Maps /\ e.async \in Maps /\ e.stream \in Maps
  BY DEF Entries
<1>2. ASSUME NEW g \in Maps, NEW h, h = [g EXCEPT ![m] = n]
      PROVE  h \in Maps /\ \A k \in Methods : h[k] = IF k = m THEN n ELSE g[k]
  BY <1>2
<1>3. kind \in {"sync", "hidden", "async", "stream"}
  BY DEF Routing!Kinds
<1>4. CASE kind = "async"
  <2>1. PICK h : h = [e.async EXCEPT ![m] = n]
    OBVIOUS
  <2>2. h \in Maps /\ \A k \in Methods : h[k] = IF k = m THEN n ELSE e.async[k]
    BY <1>1, <1>2, <2>1
  <2>3. f = [e EXCEPT !.async = h]
    BY <1>4, <2>1 DEF Routing!WithHandler
  <2>4. /\ f.path = e.path /\ f.sync = e.sync /\ f.async = h
        /\ f.stream = e.stream
    BY <1>1, <2>3
  <2>5. f \in Entries
    BY <1>1, <2>2, <2>3 DEF Entries
  <2> QED
    BY <1>4, <2>2, <2>4, <2>5
<1>5. CASE kind = "stream"
  <2>1. PICK h : h = [e.stream EXCEPT ![m] = n]
    OBVIOUS
  <2>2. h \in Maps /\ \A k \in Methods : h[k] = IF k = m THEN n ELSE e.stream[k]
    BY <1>1, <1>2, <2>1
  <2>3. f = [e EXCEPT !.stream = h]
    BY <1>5, <2>1 DEF Routing!WithHandler
  <2>4. /\ f.path = e.path /\ f.sync = e.sync /\ f.async = e.async
        /\ f.stream = h
    BY <1>1, <2>3
  <2>5. f \in Entries
    BY <1>1, <2>2, <2>3 DEF Entries
  <2> QED
    BY <1>5, <2>2, <2>4, <2>5
<1>6. CASE kind \in {"sync", "hidden"}
  <2>1. PICK h : h = [e.sync EXCEPT ![m] = n]
    OBVIOUS
  <2>2. h \in Maps /\ \A k \in Methods : h[k] = IF k = m THEN n ELSE e.sync[k]
    BY <1>1, <1>2, <2>1
  <2>3. f = [e EXCEPT !.sync = h]
    BY <1>6, <2>1 DEF Routing!WithHandler
  <2>4. /\ f.path = e.path /\ f.sync = h /\ f.async = e.async
        /\ f.stream = e.stream
    BY <1>1, <2>3
  <2>5. f \in Entries
    BY <1>1, <2>2, <2>3 DEF Entries
  <2> QED
    BY <1>6, <2>2, <2>4, <2>5
<1> QED
  BY <1>3, <1>4, <1>5, <1>6

(* What add_route, async_route and stream do to the entries: those of other *)
(* paths stay, and the one of the path is e.                                *)
Updated(rs, rs2, q, e) ==
  /\ EntriesOk(rs2) /\ e \in Entries /\ e.path = q
  /\ \A i \in DOMAIN rs2 :
       \/ rs2[i] = e
       \/ rs2[i].path # q /\ \E j \in DOMAIN rs : rs2[i] = rs[j]
  /\ \E i \in DOMAIN rs2 : rs2[i] = e
  /\ \A j \in DOMAIN rs :
       rs[j].path # q => \E i \in DOMAIN rs2 : rs2[i] = rs[j]

(* A function on positions is a sequence. *)
LEMMA PositionsAreSeq ==
  ASSUME NEW R, NEW n \in Nat, NEW f \in [1..n -> R]
  PROVE  f \in Seq(R)
  OBVIOUS

LEMMA EntryReplaced ==
  ASSUME NEW rs, EntriesOk(rs), NEW k \in DOMAIN rs, NEW e \in Entries,
         e.path = rs[k].path, NEW rs2, rs2 = [rs EXCEPT ![k] = e]
  PROVE  Updated(rs, rs2, rs[k].path, e)
<1>1. PICK n \in Nat : DOMAIN rs = 1..n /\ rs \in [1..n -> Entries]
  BY DEF EntriesOk
<1>2. rs2 \in [1..n -> Entries] /\ DOMAIN rs2 = 1..n
  BY <1>1
<1>3. rs2 \in Seq(Entries)
  BY <1>2, PositionsAreSeq
<1>4. rs2[k] = e /\ \A i \in 1..n : i # k => rs2[i] = rs[i]
  BY <1>1
<1>5. \A i \in 1..n : rs2[i].path = rs[i].path
  BY <1>4
<1>6. Routing!Sorted(rs2)
  BY <1>1, <1>2, <1>5 DEF EntriesOk, Routing!Sorted
<1>7. \A i, j \in 1..n : rs2[i].path = rs2[j].path => i = j
  BY <1>1, <1>5 DEF EntriesOk
<1>8. EntriesOk(rs2)
  BY <1>2, <1>3, <1>6, <1>7 DEF EntriesOk
<1>9. \A i \in 1..n : i # k => rs[i].path # rs[k].path
  BY <1>1 DEF EntriesOk
<1> QED
  BY <1>1, <1>2, <1>4, <1>8, <1>9 DEF Updated

LEMMA EntryInserted ==
  ASSUME NEW rs, EntriesOk(rs), NEW q, \A k \in DOMAIN rs : rs[k].path # q,
         NEW e \in Entries, e.path = q, NEW rs2,
         rs2 \in Routing!SetToSeqs(Routing!ToSet(rs) \cup {e}),
         Routing!Sorted(rs2)
  PROVE  Updated(rs, rs2, q, e)
<1>1. rs \in Seq(Entries)
  BY DEF EntriesOk
<1>2. /\ rs2 \in Seq(Entries)
      /\ \A i \in DOMAIN rs2 : rs2[i] = e \/ \E j \in DOMAIN rs : rs2[i] = rs[j]
      /\ \A i, j \in DOMAIN rs2 : rs2[i] = rs2[j] => i = j
      /\ \E i \in DOMAIN rs2 : rs2[i] = e
      /\ \A j \in DOMAIN rs : \E i \in DOMAIN rs2 : rs2[i] = rs[j]
  BY <1>1, SortedIn
<1>3. ASSUME NEW i \in DOMAIN rs2, NEW j \in DOMAIN rs2,
             rs2[i].path = rs2[j].path
      PROVE  rs2[i] = rs2[j]
  <2>1. CASE rs2[i] = e \/ rs2[j] = e
    BY <1>2, <1>3, <2>1
  <2>2. CASE rs2[i] # e /\ rs2[j] # e
    <3>1. PICK a \in DOMAIN rs : rs2[i] = rs[a]
      BY <1>2, <2>2
    <3>2. PICK b \in DOMAIN rs : rs2[j] = rs[b]
      BY <1>2, <2>2
    <3>3. a = b
      BY <1>3, <3>1, <3>2 DEF EntriesOk
    <3> QED
      BY <3>1, <3>2, <3>3
  <2> QED
    BY <2>1, <2>2
<1>4. EntriesOk(rs2)
  BY <1>2, <1>3 DEF EntriesOk
<1> QED
  BY <1>2, <1>4 DEF Updated

(* A registration keeps what the router serves in step with the log. *)
LEMMA RegistrationServes ==
  ASSUME NEW rs, NEW l \in Seq(Regs), EntriesOk(rs), CoveredBy(rs, l),
         ServesIn(rs, l), NEW r \in Regs, NEW l2, l2 = Append(l, r),
         NEW rs2, NEW old \in Entries, NEW e,
         e = Routing!WithHandler(old, r.method, r.kind, Len(l) + 1),
         Updated(rs, rs2, r.path, e),
         \A m \in Methods :
           /\ old.sync[m] = LatestIn(l, r.path, m, {"sync", "hidden"})
           /\ old.async[m] = LatestIn(l, r.path, m, {"async"})
           /\ old.stream[m] = LatestIn(l, r.path, m, {"stream"})
  PROVE  l2 \in Seq(Regs) /\ CoveredBy(rs2, l2) /\ ServesIn(rs2, l2)
<1>1. PICK n \in Nat : n = Len(l) /\ DOMAIN l = 1..n
  OBVIOUS
<1>2. /\ l2 \in Seq(Regs) /\ DOMAIN l2 = 1..(n + 1) /\ l2[n + 1] = r
      /\ \A i \in 1..n : l2[i] = l[i]
  BY <1>1
<1>3. r.method \in Methods /\ r.kind \in Routing!Kinds
  BY DEF Regs
<1>4. CoveredBy(rs2, l2)
  <2>1. ASSUME NEW i \in 1..(n + 1)
        PROVE  \E k \in DOMAIN rs2 : rs2[k].path = l2[i].path
    <3>1. CASE l2[i].path = r.path
      BY <3>1 DEF Updated
    <3>2. CASE l2[i].path # r.path
      <4>1. i \in 1..n
        BY <1>2, <2>1, <3>2
      <4>2. PICK j \in DOMAIN rs : rs[j].path = l2[i].path
        BY <1>1, <1>2, <4>1 DEF CoveredBy
      <4> QED
        BY <3>2, <4>2 DEF Updated
    <3> QED
      BY <3>1, <3>2
  <2> QED
    BY <1>2, <2>1 DEF CoveredBy
<1>5. PICK N1 : N1 = n + 1 /\ N1 \in Nat
  OBVIOUS
<1>6. \A m \in Methods :
        /\ e.sync[m] = IF m = r.method /\ r.kind \in {"sync", "hidden"} THEN N1
                       ELSE old.sync[m]
        /\ e.async[m] = IF m = r.method /\ r.kind = "async" THEN N1
                        ELSE old.async[m]
        /\ e.stream[m] = IF m = r.method /\ r.kind = "stream" THEN N1
                         ELSE old.stream[m]
  <2>1. e = Routing!WithHandler(old, r.method, r.kind, N1)
    BY <1>1, <1>5
  <2>2. PICK m \in Methods, k \in Routing!Kinds :
          m = r.method /\ k = r.kind
    BY <1>3
  <2>3. e = Routing!WithHandler(old, m, k, N1)
    BY <2>1, <2>2
  <2>4. \A x \in Methods :
          /\ e.sync[x] = IF x = m /\ k \in {"sync", "hidden"} THEN N1
                         ELSE old.sync[x]
          /\ e.async[x] = IF x = m /\ k = "async" THEN N1 ELSE old.async[x]
          /\ e.stream[x] = IF x = m /\ k = "stream" THEN N1 ELSE old.stream[x]
    BY <1>5, <2>3, WithHandlerFacts
  <2> QED
    BY <2>2, <2>4
<1>7. \A q, m, K :
        /\ IsOf(r, q, m, K) => LatestIn(l2, q, m, K) = N1
        /\ ~IsOf(r, q, m, K) => LatestIn(l2, q, m, K) = LatestIn(l, q, m, K)
  <2>1. Len(l) + 1 = N1
    BY <1>1, <1>5
  <2>2. \A q, m, K :
          /\ IsOf(r, q, m, K) => LatestIn(l2, q, m, K) = Len(l) + 1
          /\ ~IsOf(r, q, m, K) => LatestIn(l2, q, m, K) = LatestIn(l, q, m, K)
    BY LatestAppended
  <2> QED
    BY <2>1, <2>2
<1>8. ASSUME NEW i \in DOMAIN rs2, NEW m \in Methods
      PROVE  /\ rs2[i].sync[m] = LatestIn(l2, rs2[i].path, m, {"sync", "hidden"})
             /\ rs2[i].async[m] = LatestIn(l2, rs2[i].path, m, {"async"})
             /\ rs2[i].stream[m] = LatestIn(l2, rs2[i].path, m, {"stream"})
  <2>1. CASE rs2[i] = e
    <3>1. rs2[i].path = r.path
      BY <2>1 DEF Updated
    <3>2. \A K : IsOf(r, r.path, m, K) <=> m = r.method /\ r.kind \in K
      BY DEF IsOf
    <3> QED
      BY <1>6, <1>7, <2>1, <3>1, <3>2
  <2>2. CASE rs2[i].path # r.path
    <3>1. PICK j \in DOMAIN rs : rs2[i] = rs[j]
      BY <2>2 DEF Updated
    <3>2. \A K : ~IsOf(r, rs2[i].path, m, K)
      BY <2>2 DEF IsOf
    <3> QED
      BY <1>7, <2>2, <3>1, <3>2 DEF ServesIn
  <2> QED
    BY <2>1, <2>2 DEF Updated
<1> QED
  BY <1>2, <1>4, <1>8 DEF ServesIn

(* The same, from the code of AddHandler. *)
LEMMA HandlerAdded ==
  ASSUME RouterInv, NEW r \in Regs, log' = Append(log, r),
         Routing!AddHandler(r.path, r.method, r.kind, Len(log) + 1)
  PROVE  /\ log' \in Seq(Regs) /\ EntriesOk(routes')
         /\ CoveredBy(routes', log') /\ ServesIn(routes', log')
<1>1. /\ log \in Seq(Regs) /\ EntriesOk(routes) /\ CoveredBy(routes, log)
      /\ ServesIn(routes, log) /\ routes \in Seq(Entries)
  BY DEF RouterInv, RoutingTypes, EntriesOk
<1>2. PICK n \in Nat : n = Len(log) + 1
  BY <1>1
<1>3. r.method \in Methods /\ r.kind \in Routing!Kinds /\ r.path \in Seq(STRING)
  BY DEF Regs
<1>4. CASE Routing!EntryOf(r.path) # {}
  <2>1. PICK k : k = Routing!FirstOf(Routing!EntryOf(r.path))
    OBVIOUS
  <2>2. Routing!EntryOf(r.path) \in SUBSET Nat
    BY <1>1 DEF Routing!EntryOf
  <2>3. k \in DOMAIN routes /\ routes[k].path = r.path
    BY <1>4, <2>1, <2>2, FirstIsLeast DEF Routing!EntryOf
  <2>4. routes[k] \in Entries
    BY <1>1, <2>3
  <2>5. PICK e : e = Routing!WithHandler(routes[k], r.method, r.kind, n)
    OBVIOUS
  <2>6. e \in Entries /\ e.path = routes[k].path
    BY <1>2, <1>3, <2>4, <2>5, WithHandlerFacts
  <2>7. routes' = [routes EXCEPT ![k] = e]
    BY <1>2, <1>4, <2>1, <2>5 DEF Routing!AddHandler
  <2>8. Updated(routes, routes', r.path, e)
    BY <1>1, <2>3, <2>6, <2>7, EntryReplaced
  <2>9. \A m \in Methods :
          /\ routes[k].sync[m] = LatestIn(log, r.path, m, {"sync", "hidden"})
          /\ routes[k].async[m] = LatestIn(log, r.path, m, {"async"})
          /\ routes[k].stream[m] = LatestIn(log, r.path, m, {"stream"})
    BY <1>1, <2>3 DEF ServesIn
  <2>10. e = Routing!WithHandler(routes[k], r.method, r.kind, Len(log) + 1)
    BY <1>2, <2>5
  <2>11. /\ log' \in Seq(Regs) /\ CoveredBy(routes', log')
         /\ ServesIn(routes', log')
    BY <1>1, <2>4, <2>8, <2>9, <2>10, RegistrationServes, Zenon
  <2> QED
    BY <2>8, <2>11 DEF Updated
<1>5. CASE Routing!EntryOf(r.path) = {}
  <2>1. PICK old : old = Routing!NewEntry(r.path)
    OBVIOUS
  <2>2. /\ old \in Entries /\ old.path = r.path
        /\ \A m \in Methods : old.sync[m] = 0 /\ old.async[m] = 0 /\ old.stream[m] = 0
    BY <1>3, <2>1 DEF Routing!NewEntry, Routing!NoHandlers, Entries
  <2>3. PICK e : e = Routing!WithHandler(old, r.method, r.kind, n)
    OBVIOUS
  <2>4. e \in Entries /\ e.path = r.path
    BY <1>2, <1>3, <2>2, <2>3, WithHandlerFacts
  <2>5. /\ routes' \in Routing!SetToSeqs(Routing!ToSet(routes) \cup {e})
        /\ Routing!Sorted(routes')
    BY <1>2, <1>5, <2>1, <2>3 DEF Routing!AddHandler
  <2>6. \A k \in DOMAIN routes : routes[k].path # r.path
    BY <1>5 DEF Routing!EntryOf
  <2>7. Updated(routes, routes', r.path, e)
    BY <1>1, <2>4, <2>5, <2>6, EntryInserted
  <2>8. \A m, K : HitsIn(log, r.path, m, K) = {}
    BY <1>1, <2>6 DEF CoveredBy, HitsIn, IsOf
  <2>9. \A m \in Methods :
          /\ old.sync[m] = LatestIn(log, r.path, m, {"sync", "hidden"})
          /\ old.async[m] = LatestIn(log, r.path, m, {"async"})
          /\ old.stream[m] = LatestIn(log, r.path, m, {"stream"})
    BY <2>2, <2>8 DEF LatestIn
  <2>10. e = Routing!WithHandler(old, r.method, r.kind, Len(log) + 1)
    BY <1>2, <2>3
  <2>11. /\ log' \in Seq(Regs) /\ CoveredBy(routes', log')
         /\ ServesIn(routes', log')
    BY <1>1, <2>2, <2>7, <2>9, <2>10, RegistrationServes, Zenon
  <2> QED
    BY <2>7, <2>11 DEF Updated
<1> QED
  BY <1>4, <1>5

-----------------------------------------------------------------------------
(* Every step keeps the invariant. *)

(* set_base_path leaves a sequence of segments. *)
LEMMA BaseIsPath ==
  ASSUME NEW b \in Seq(STRING)
  PROVE  Routing!StripSlashes(b) \in Seq(STRING)
<1>1. PICK kept : kept = {i \in DOMAIN b : b[i] # ""}
  OBVIOUS
<1>2. PICK n \in Nat : n = Len(b) /\ DOMAIN b = 1..n
  OBVIOUS
<1>3. kept \in SUBSET (1..n)
  BY <1>1, <1>2
<1>4. CASE kept = {}
  <2>1. Routing!StripSlashes(b) = <<>>
    BY <1>1, <1>4 DEF Routing!StripSlashes
  <2> QED
    BY <2>1
<1>5. CASE kept # {}
  <2>1. PICK k : k = Routing!LastOf(kept)
    OBVIOUS
  <2>2. k \in 1..n
    BY <1>3, <1>5, <2>1, LastIsGreatest
  <2>3. Routing!StripSlashes(b) = SubSeq(b, 1, k)
    BY <1>1, <1>5, <2>1 DEF Routing!StripSlashes
  <2>4. SubSeq(b, 1, k) \in Seq(STRING)
    BY <1>2, <2>2, SubSeqProperties
  <2> QED
    BY <2>3, <2>4
<1> QED
  BY <1>4, <1>5

LEMMA RouterInit ==
  ASSUME Routing!Init
  PROVE  RouterInv
<1>1. base = <<>> /\ routes = <<>> /\ log = <<>>
  BY DEF Routing!Init
<1>2. base \in Seq(STRING) /\ log \in Seq(Regs) /\ routes \in Seq(Entries)
  BY <1>1
<1>3. DOMAIN routes = {} /\ DOMAIN log = {}
  BY <1>1
<1>4. Routing!Sorted(routes)
  BY <1>3 DEF Routing!Sorted
<1> QED
  BY <1>2, <1>3, <1>4 DEF RouterInv, RoutingTypes, EntriesOk, CoveredBy,
       ServesIn

LEMMA RouterSetsBase ==
  ASSUME Routing!RouterAssumption, RouterInv, NEW b \in Bases,
         Routing!SetBasePath(b)
  PROVE  RouterInv'
<1>1. b \in Seq(STRING)
  BY DEF Routing!RouterAssumption
<1>2. base' \in Seq(STRING)
  BY <1>1, BaseIsPath DEF Routing!SetBasePath
<1>3. routes' = routes /\ log' = log
  BY DEF Routing!SetBasePath
<1> QED
  BY <1>2, <1>3 DEF RouterInv, RoutingTypes

(* The registration that Register appends to the log. *)
LEMMA RouterRegisters ==
  ASSUME RouterInv, NEW p \in Seq(STRING), NEW m \in Methods,
         NEW kind \in Routing!Kinds, NEW doc,
         Routing!Register(p, m, kind, doc)
  PROVE  /\ RouterInv'
         /\ \E r \in Regs : /\ r.path = Routing!ApplyBasePath(p)
                            /\ r.method = m /\ r.kind = kind
                            /\ r.pattern = p /\ log' = Append(log, r)
<1>1. p \in Seq(STRING) /\ base \in Seq(STRING) /\ kind \in Routing!Kinds
  BY DEF RouterInv, RoutingTypes
<1>2. PICK q : q = Routing!ApplyBasePath(p)
  OBVIOUS
<1>3. q \in Seq(STRING)
  <2>1. base \o p \in Seq(STRING) /\ base \o <<>> \in Seq(STRING)
    BY <1>1
  <2> QED
    BY <1>1, <1>2, <2>1 DEF Routing!ApplyBasePath
<1>4. PICK r : r = [pattern |-> p, path |-> q, method |-> m, kind |-> kind]
  OBVIOUS
<1>5. /\ r \in Regs /\ r.path = q /\ r.method = m /\ r.kind = kind
      /\ r.pattern = p
  BY <1>1, <1>3, <1>4 DEF Regs
<1>6. log' = Append(log, r) /\ base' = base
  BY <1>2, <1>4 DEF Routing!Register
<1>7. Routing!AddHandler(q, m, kind, Len(log) + 1)
  BY <1>2 DEF Routing!Register
<1>8. Routing!AddHandler(r.path, r.method, r.kind, Len(log) + 1)
  BY <1>5, <1>7
<1>9. /\ log' \in Seq(Regs) /\ EntriesOk(routes')
      /\ CoveredBy(routes', log') /\ ServesIn(routes', log')
  BY <1>5, <1>6, <1>8, HandlerAdded
<1> QED
  BY <1>1, <1>2, <1>5, <1>6, <1>9 DEF RouterInv, RoutingTypes

LEMMA RouterStep ==
  ASSUME Routing!RouterAssumption, RouterInv, [Routing!Next]_(Routing!vars)
  PROVE  RouterInv'
<1>1. CASE UNCHANGED Routing!vars
  BY <1>1 DEF Routing!vars, RouterInv, RoutingTypes
<1>2. ASSUME NEW b \in Bases, Routing!SetBasePath(b)
      PROVE  RouterInv'
  BY <1>2, RouterSetsBase
<1>3. ASSUME NEW p \in Patterns, NEW m \in Methods, NEW kind \in PlainKinds,
             NEW doc \in GivenDocs, Routing!Register(p, m, kind, doc)
      PROVE  RouterInv'
  BY <1>3, RouterRegisters DEF Routing!RouterAssumption
<1>4. ASSUME NEW p \in Patterns, NEW m \in Methods, NEW doc \in GivenDocs,
             Routing!DocumentRoute(p, m, doc)
      PROVE  RouterInv'
  BY <1>4 DEF Routing!DocumentRoute, RouterInv, RoutingTypes
<1> QED
  BY <1>1, <1>2, <1>3, <1>4 DEF Routing!Next, GivenDocs

-----------------------------------------------------------------------------
(* What the invariant gives. *)

(* dispatch looks for GET and HEAD requests in the handlers of GET. *)
LEMMA GetHandler ==
  ASSUME Routing!RouterAssumption, RouterInv, NEW m \in {GET, HEAD},
         NEW i \in DOMAIN routes
  PROVE  /\ Routing!HandlerFor(routes[i].sync, m) =
              LatestIn(log, routes[i].path, GET, {"sync", "hidden"})
         /\ Routing!Decides(i, m) <=>
              LatestIn(log, routes[i].path, GET, {"sync", "hidden"}) # 0
<1>1. GET \in Methods /\ HEAD \notin Methods
  BY DEF Routing!RouterAssumption
<1>2. Routing!HandlerFor(routes[i].sync, m) = routes[i].sync[GET]
  BY <1>1 DEF Routing!HandlerFor
<1>3. routes[i].sync[GET] =
        LatestIn(log, routes[i].path, GET, {"sync", "hidden"})
  BY <1>1 DEF RouterInv, ServesIn
<1> QED
  BY <1>2, <1>3 DEF Routing!Decides

LEMMA BestServes ==
  ASSUME Routing!RouterAssumption, RouterInv
  PROVE  Routing!BestMatchServes
<1> DEFINE S == {"sync", "hidden"}
<1> DEFINE Able(s) == {i \in DOMAIN log :
                         /\ Routing!Matches(log[i].path, s)
                         /\ log[i].method = GET /\ log[i].kind \in S}
           Best(s) == {i \in Able(s) : \A j \in Able(s) :
                         ~Routing!MoreSpecific(log[j].path, log[i].path)}
           Good(s, m, got) ==
             /\ got.kind \in {"sync", "notFound"}
             /\ (Able(s) = {}) <=> (got.kind = "notFound")
             /\ Able(s) # {} => got.handler \in Best(s)
<1>1. SUFFICES \A s \in Paths, m \in {GET, HEAD} :
                 Good(s, m, Routing!Dispatch(s, m))
  BY Zenon DEF Routing!BestMatchServes
<1>2. SUFFICES ASSUME NEW s \in Paths, NEW m \in {GET, HEAD}, NEW able,
                 able = {i \in DOMAIN log :
                           /\ Routing!Matches(log[i].path, s)
                           /\ log[i].method = GET /\ log[i].kind \in S},
                 NEW got, got = Routing!Dispatch(s, m)
               PROVE
                 /\ got.kind \in {"sync", "notFound"}
                 /\ (able = {}) <=> (got.kind = "notFound")
                 /\ able # {} =>
                      /\ got.handler \in able
                      /\ \A j \in able :
                           ~Routing!MoreSpecific(log[j].path,
                                                 log[got.handler].path)
  OBVIOUS
<1> HIDE DEF Able, Best, Good
<1> HIDE DEF S
<1>3. /\ log \in Seq(Regs) /\ EntriesOk(routes) /\ CoveredBy(routes, log)
      /\ routes \in Seq(Entries)
  BY DEF RouterInv, RoutingTypes, EntriesOk
<1>4. PICK D : D = {i \in Routing!MatchingEntries(s) : Routing!Decides(i, m)}
  OBVIOUS
<1>5. /\ D \in SUBSET Nat
      /\ \A i \in D : /\ i \in DOMAIN routes
                      /\ Routing!Matches(routes[i].path, s)
                      /\ Routing!Decides(i, m)
      /\ \A i \in DOMAIN routes :
           Routing!Matches(routes[i].path, s) /\ Routing!Decides(i, m)
             => i \in D
  BY <1>3, <1>4 DEF Routing!MatchingEntries
<1>6. ASSUME NEW i \in D
      PROVE  /\ Routing!HandlerFor(routes[i].sync, m) # 0
             /\ Routing!HandlerFor(routes[i].sync, m) \in able
             /\ log[Routing!HandlerFor(routes[i].sync, m)].path = routes[i].path
  <2>1. PICK h : h = LatestIn(log, routes[i].path, GET, S)
    OBVIOUS
  <2>2. Routing!HandlerFor(routes[i].sync, m) = h /\ h # 0
    BY <1>5, <1>6, <2>1, GetHandler DEF S
  <2>3. h \in HitsIn(log, routes[i].path, GET, S)
    BY <1>3, <2>1, <2>2, LatestIsHit
  <2>4. h \in DOMAIN log /\ IsOf(log[h], routes[i].path, GET, S)
    BY <2>3 DEF HitsIn
  <2> QED
    BY <1>2, <1>5, <1>6, <2>2, <2>4 DEF IsOf
<1>7. ASSUME NEW j \in able
      PROVE  \E k \in D : routes[k].path = log[j].path
  <2>1. /\ j \in DOMAIN log /\ Routing!Matches(log[j].path, s)
        /\ log[j].method = GET /\ log[j].kind \in S
    BY <1>2, <1>7
  <2>2. PICK k \in DOMAIN routes : routes[k].path = log[j].path
    BY <1>3, <2>1 DEF CoveredBy
  <2>3. j \in HitsIn(log, routes[k].path, GET, S)
    BY <2>1, <2>2 DEF HitsIn, IsOf
  <2>4. LatestIn(log, routes[k].path, GET, S) # 0
    BY <1>3, <2>3, LatestIsHit
  <2>5. Routing!Decides(k, m)
    BY <2>4, GetHandler DEF S
  <2> QED
    BY <1>5, <2>1, <2>2, <2>5
<1>8. CASE D = {}
  <2>1. got = Routing!NotFound
    BY <1>2, <1>4, <1>8 DEF Routing!Dispatch
  <2>2. got.kind = "notFound"
    BY <2>1 DEF Routing!NotFound, Routing!Answer
  <2>3. able = {}
    BY <1>7, <1>8
  <2> QED
    BY <2>2, <2>3
<1>9. CASE D # {}
  <2>1. PICK i : i = Routing!FirstOf(D)
    OBVIOUS
  <2>2. i \in D /\ \A k \in D : i <= k
    BY <1>5, <1>9, <2>1, FirstIsLeast
  <2>3. PICK h : h = Routing!HandlerFor(routes[i].sync, m)
    OBVIOUS
  <2>4. h # 0 /\ h \in able /\ log[h].path = routes[i].path
    BY <1>6, <2>2, <2>3
  <2>5. got = Routing!Answer("sync", h, i)
    BY <1>2, <1>4, <1>9, <2>1, <2>3, <2>4 DEF Routing!Dispatch
  <2>6. got.kind = "sync" /\ got.handler = h
    BY <2>5 DEF Routing!Answer
  <2>7. ASSUME NEW j \in able
        PROVE  ~Routing!MoreSpecific(log[j].path, log[h].path)
    <3>1. PICK k \in D : routes[k].path = log[j].path
      BY <1>7
    <3>2. i \in DOMAIN routes /\ k \in DOMAIN routes /\ i \in Nat /\ k \in Nat
      BY <1>5, <2>2
    <3>3. routes[i] \in Entries /\ routes[k] \in Entries
      BY <1>3, <3>2
    <3>4. routes[i].path \in Seq(STRING) /\ routes[k].path \in Seq(STRING)
      BY <3>3 DEF Entries
    <3>5. CASE i = k
      BY <2>4, <3>1, <3>4, <3>5, BeforeIsMoreSpecific
    <3>6. CASE i # k
      <4>1. i < k
        BY <2>2, <3>2, <3>6
      <4>2. ~Routing!Before(routes[k].path, routes[i].path)
        BY <1>3, <3>2, <4>1 DEF EntriesOk, Routing!Sorted
      <4> QED
        BY <2>4, <3>1, <3>4, <4>2, BeforeIsMoreSpecific
    <3> QED
      BY <3>5, <3>6
  <2> QED
    BY <2>4, <2>6, <2>7
<1> QED
  BY <1>8, <1>9

LEMMA LatestOnes ==
  ASSUME RouterInv
  PROVE  Routing!LatestServes
<1>1. \A q, m, K : Routing!Latest(q, m, K) = LatestIn(log, q, m, K)
  BY DEF Routing!Latest, LatestIn, HitsIn, IsOf
<1> QED
  BY <1>1 DEF RouterInv, ServesIn, Routing!LatestServes

(* A stream or asynchronous handler that is found is one. *)
LEMMA FoundHandlers ==
  ASSUME NEW s, NEW k
  PROVE  /\ Routing!StreamHandler(s, k) # Routing!NotFound
              => Routing!StreamHandler(s, k).handler # 0
         /\ Routing!AsyncHandler(s, k) # Routing!NotFound
              => Routing!AsyncHandler(s, k).handler # 0
<1>1. PICK i : i = Routing!FirstOf(Routing!MatchingEntries(s))
  OBVIOUS
<1>2. ASSUME Routing!StreamHandler(s, k) # Routing!NotFound
      PROVE  Routing!StreamHandler(s, k).handler # 0
  <2>1. PICK h : h = routes[i].stream[k]
    OBVIOUS
  <2>2. h # 0 /\ Routing!StreamHandler(s, k) = Routing!Answer("stream", h, i)
    BY <1>1, <1>2, <2>1 DEF Routing!StreamHandler
  <2> QED
    BY <2>2 DEF Routing!Answer
<1>3. ASSUME Routing!AsyncHandler(s, k) # Routing!NotFound
      PROVE  Routing!AsyncHandler(s, k).handler # 0
  <2>1. PICK h : h = Routing!HandlerFor(routes[i].async, k)
    OBVIOUS
  <2>2. h # 0 /\ Routing!AsyncHandler(s, k) = Routing!Answer("async", h, i)
    BY <1>1, <1>3, <2>1 DEF Routing!AsyncHandler
  <2> QED
    BY <2>2 DEF Routing!Answer
<1> QED
  BY <1>2, <1>3

(* A request that is answered 405 was refused by the first entry that       *)
(* matches its path.                                                        *)
LEMMA RefusedByFirst ==
  ASSUME RouterInv, NEW t, NEW m \in Methods,
         Routing!Serve(t, m).kind = "notAllowed"
  PROVE  /\ Routing!MatchingEntries(Routing!PathOf(t)) # {}
         /\ Routing!Serve(t, m).entry =
              Routing!FirstOf(Routing!MatchingEntries(Routing!PathOf(t)))
<1>1. PICK s : s = Routing!PathOf(t)
  OBVIOUS
<1>2. \A x : /\ Routing!StreamHandler(x, m).kind # "notAllowed"
             /\ Routing!AsyncHandler(x, m).kind # "notAllowed"
  <2>1. TAKE x
  <2>2. PICK i : i = Routing!FirstOf(Routing!MatchingEntries(x))
    OBVIOUS
  <2>3. PICK h : h = Routing!HandlerFor(routes[i].async, m)
    OBVIOUS
  <2>4. \/ Routing!StreamHandler(x, m) = Routing!NotFound
        \/ Routing!StreamHandler(x, m) =
             Routing!Answer("stream", routes[i].stream[m], i)
    BY <2>2 DEF Routing!StreamHandler
  <2>5. \/ Routing!AsyncHandler(x, m) = Routing!NotFound
        \/ Routing!AsyncHandler(x, m) = Routing!Answer("async", h, i)
    BY <2>2, <2>3 DEF Routing!AsyncHandler
  <2> QED
    BY <2>4, <2>5 DEF Routing!Answer, Routing!NotFound
<1>3. Routing!Serve(t, m) = Routing!Dispatch(s, m)
  <2>1. \/ Routing!Serve(t, m) = Routing!StreamHandler(s, m)
        \/ Routing!Serve(t, m) = Routing!AsyncHandler(s, m)
        \/ Routing!Serve(t, m) = Routing!Dispatch(s, m)
    BY <1>1 DEF Routing!Serve
  <2> QED
    BY <1>2, <2>1
<1>4. PICK D : D = {i \in Routing!MatchingEntries(s) : Routing!Decides(i, m)}
  OBVIOUS
<1>5. D # {}
  <2>1. SUFFICES ASSUME D = {} PROVE FALSE
    OBVIOUS
  <2>2. Routing!Dispatch(s, m) = Routing!NotFound
    BY <1>4, <2>1 DEF Routing!Dispatch
  <2> QED
    BY <1>3, <2>2 DEF Routing!NotFound, Routing!Answer
<1>6. PICK i : i = Routing!FirstOf(D)
  OBVIOUS
<1>7. PICK h : h = Routing!HandlerFor(routes[i].sync, m)
  OBVIOUS
<1>8. h = 0 /\ Routing!Dispatch(s, m) = Routing!Answer("notAllowed", 0, i)
  <2>1. CASE h = 0
    BY <1>4, <1>5, <1>6, <1>7, <2>1 DEF Routing!Dispatch
  <2>2. CASE h # 0
    <3>1. Routing!Dispatch(s, m) = Routing!Answer("sync", h, i)
      BY <1>4, <1>5, <1>6, <1>7, <2>2 DEF Routing!Dispatch
    <3> QED
      BY <1>3, <3>1 DEF Routing!Answer
  <2> QED
    BY <2>1, <2>2
<1>9. D \in SUBSET Nat
  BY <1>4 DEF Routing!MatchingEntries, RouterInv, EntriesOk
<1>10. i \in D
  BY <1>5, <1>6, <1>9, FirstIsLeast
<1>11. m \notin {GET, HEAD}
  BY <1>4, <1>7, <1>8, <1>10 DEF Routing!Decides
<1>12. D = Routing!MatchingEntries(s)
  BY <1>4, <1>11 DEF Routing!Decides
<1> QED
  BY <1>1, <1>3, <1>5, <1>6, <1>8, <1>12 DEF Routing!Answer

LEMMA AllowedServed ==
  ASSUME RouterInv
  PROVE  Routing!AllowHonest
<1>1. SUFFICES ASSUME NEW t \in Paths, NEW m \in Methods,
                      Routing!PathOf(t) = t,
                      Routing!Serve(t, m).kind = "notAllowed",
                      NEW k \in Routing!Allow(Routing!Serve(t, m).entry)
               PROVE  Routing!Serve(t, k).handler # 0
  BY DEF Routing!AllowHonest
<1>2. PICK M : M = Routing!MatchingEntries(t)
  OBVIOUS
<1>3. PICK i : i = Routing!FirstOf(M)
  OBVIOUS
<1>4. M # {} /\ Routing!Serve(t, m).entry = i
  BY <1>1, <1>2, <1>3, RefusedByFirst
<1>5. M \in SUBSET Nat
  BY <1>2 DEF Routing!MatchingEntries, RouterInv, EntriesOk
<1>6. i \in M /\ \A j \in M : i <= j
  BY <1>3, <1>4, <1>5, FirstIsLeast
<1>7. k \in Methods /\ routes[i].sync[k] # 0
  BY <1>1, <1>4 DEF Routing!Allow
<1>8. PICK h : h = Routing!HandlerFor(routes[i].sync, k)
  OBVIOUS
<1>9. h # 0 /\ Routing!Decides(i, k)
  BY <1>7, <1>8 DEF Routing!HandlerFor, Routing!Decides
<1>10. PICK D : D = {j \in M : Routing!Decides(j, k)}
  OBVIOUS
<1>11. D # {} /\ D \in SUBSET Nat /\ i \in D
  BY <1>5, <1>6, <1>9, <1>10
<1>12. Routing!FirstOf(D) = i
  <2>1. PICK f \in D : f = Routing!FirstOf(D) /\ \A j \in D : f <= j
    BY <1>11, FirstIsLeast
  <2>2. f \in M
    BY <1>10, <2>1
  <2>3. f <= i /\ i <= f /\ f \in Nat /\ i \in Nat
    BY <1>5, <1>6, <1>11, <2>1, <2>2
  <2> QED
    BY <2>1, <2>3
<1>13. Routing!Dispatch(t, k) = Routing!Answer("sync", h, i)
  BY <1>2, <1>8, <1>9, <1>10, <1>11, <1>12 DEF Routing!Dispatch
<1>14. Routing!Dispatch(t, k).handler # 0
  BY <1>9, <1>13 DEF Routing!Answer
<1>15. CASE Routing!StreamHandler(t, k) # Routing!NotFound
  <2>1. Routing!Serve(t, k) = Routing!StreamHandler(t, k)
    BY <1>1, <1>15 DEF Routing!Serve
  <2> QED
    BY <1>15, <2>1, FoundHandlers
<1>16. CASE /\ Routing!StreamHandler(t, k) = Routing!NotFound
            /\ Routing!AsyncHandler(t, k) # Routing!NotFound
  <2>1. Routing!Serve(t, k) = Routing!AsyncHandler(t, k)
    BY <1>1, <1>16 DEF Routing!Serve
  <2> QED
    BY <1>16, <2>1, FoundHandlers
<1>17. CASE /\ Routing!StreamHandler(t, k) = Routing!NotFound
            /\ Routing!AsyncHandler(t, k) = Routing!NotFound
  <2>1. Routing!Serve(t, k) = Routing!Dispatch(t, k)
    BY <1>1, <1>17 DEF Routing!Serve
  <2> QED
    BY <1>14, <2>1
<1> QED
  BY <1>15, <1>16, <1>17

(* No registration that matches a path is more specific than the first      *)
(* entry that does.                                                         *)
LEMMA FirstIsBest ==
  ASSUME RouterInv, NEW s, NEW i, Routing!MatchingEntries(s) # {},
         i = Routing!FirstOf(Routing!MatchingEntries(s))
  PROVE  /\ i \in DOMAIN routes /\ Routing!Matches(routes[i].path, s)
         /\ \A k \in Routing!MatchingEntries(s) : i <= k
         /\ \A j \in DOMAIN log : Routing!Matches(log[j].path, s)
              => ~Routing!MoreSpecific(log[j].path, routes[i].path)
<1>1. PICK M : M = Routing!MatchingEntries(s)
  OBVIOUS
<1>2. /\ routes \in Seq(Entries) /\ EntriesOk(routes) /\ CoveredBy(routes, log)
  BY DEF RouterInv, EntriesOk
<1>3. /\ M \in SUBSET Nat
      /\ \A k : k \in M <=> k \in DOMAIN routes
                             /\ Routing!Matches(routes[k].path, s)
  BY <1>1, <1>2 DEF Routing!MatchingEntries
<1>4. i \in M /\ \A k \in M : i <= k
  BY <1>1, <1>3, FirstIsLeast
<1>5. ASSUME NEW j \in DOMAIN log, Routing!Matches(log[j].path, s)
      PROVE  ~Routing!MoreSpecific(log[j].path, routes[i].path)
  <2>1. PICK k \in DOMAIN routes : routes[k].path = log[j].path
    BY <1>2 DEF CoveredBy
  <2>2. k \in M /\ i \in DOMAIN routes /\ i \in Nat /\ k \in Nat
    BY <1>3, <1>4, <1>5, <2>1
  <2>3. routes[i].path \in Seq(STRING) /\ routes[k].path \in Seq(STRING)
    <3>1. routes[i] \in Entries /\ routes[k] \in Entries
      BY <1>2, <2>2
    <3> QED
      BY <3>1 DEF Entries
  <2>4. CASE i = k
    BY <2>1, <2>3, <2>4, BeforeIsMoreSpecific
  <2>5. CASE i # k
    <3>1. i < k
      BY <1>4, <2>2, <2>5
    <3>2. ~Routing!Before(routes[k].path, routes[i].path)
      BY <1>2, <2>2, <3>1 DEF EntriesOk, Routing!Sorted
    <3> QED
      BY <2>1, <2>3, <3>2, BeforeIsMoreSpecific
  <2> QED
    BY <2>4, <2>5
<1> QED
  BY <1>1, <1>3, <1>4, <1>5

(* The handlers of an entry are registrations of its path. *)
LEMMA HandlerIsRegistered ==
  ASSUME Routing!RouterAssumption, RouterInv, NEW i \in DOMAIN routes, NEW m,
         NEW h \in {Routing!HandlerFor(routes[i].sync, m),
                    Routing!HandlerFor(routes[i].async, m)}
                   \cup (IF m \in Methods THEN {routes[i].stream[m]} ELSE {}),
         h # 0
  PROVE  h \in DOMAIN log /\ log[h].path = routes[i].path
<1>1. \E v, K : h = LatestIn(log, routes[i].path, v, K)
  <2>1. GET \in Methods
    BY DEF Routing!RouterAssumption
  <2> DEFINE S == {"sync", "hidden"}
             L(v, K) == LatestIn(log, routes[i].path, v, K)
  <2>2. \A v \in Methods :
          /\ routes[i].sync[v] = L(v, S)
          /\ routes[i].async[v] = L(v, {"async"})
          /\ routes[i].stream[v] = L(v, {"stream"})
    BY DEF RouterInv, ServesIn
  <2> HIDE DEF L, S
  <2>3. CASE h = Routing!HandlerFor(routes[i].sync, m)
    BY <2>1, <2>2, <2>3 DEF Routing!HandlerFor, L
  <2>4. CASE h = Routing!HandlerFor(routes[i].async, m)
    BY <2>1, <2>2, <2>4 DEF Routing!HandlerFor, L
  <2>5. CASE m \in Methods /\ h = routes[i].stream[m]
    BY <2>2, <2>5 DEF L
  <2> QED
    BY <2>3, <2>4, <2>5
<1>2. PICK v, K : h = LatestIn(log, routes[i].path, v, K)
  BY <1>1
<1>3. log \in Seq(Regs)
  BY DEF RouterInv, RoutingTypes
<1>4. h \in HitsIn(log, routes[i].path, v, K)
  BY <1>2, <1>3, LatestIsHit
<1> QED
  BY <1>4 DEF HitsIn, IsOf

(* Which entry a request is answered from. *)
LEMMA ServedFrom ==
  ASSUME NEW t, NEW m, NEW s, s = Routing!PathOf(t), NEW got,
         got = Routing!Serve(t, m)
  PROVE  \/ got = Routing!NotFound
         \/ /\ Routing!MatchingEntries(s) # {}
            /\ \E i, h : /\ i = Routing!FirstOf(Routing!MatchingEntries(s))
                         /\ h # 0
                         /\ \/ /\ m \in Methods /\ h = routes[i].stream[m]
                               /\ got = Routing!Answer("stream", h, i)
                            \/ /\ h = Routing!HandlerFor(routes[i].async, m)
                               /\ got = Routing!Answer("async", h, i)
         \/ got = Routing!Dispatch(s, m)
<1>1. PICK i : i = Routing!FirstOf(Routing!MatchingEntries(s))
  OBVIOUS
<1>2. PICK h : h = Routing!HandlerFor(routes[i].async, m)
  OBVIOUS
<1>3. \/ got = Routing!StreamHandler(s, m)
      \/ got = Routing!AsyncHandler(s, m)
      \/ got = Routing!Dispatch(s, m)
  BY DEF Routing!Serve
<1>4. \/ Routing!StreamHandler(s, m) = Routing!NotFound
      \/ /\ Routing!MatchingEntries(s) # {} /\ m \in Methods
         /\ routes[i].stream[m] # 0
         /\ Routing!StreamHandler(s, m) =
              Routing!Answer("stream", routes[i].stream[m], i)
  BY <1>1 DEF Routing!StreamHandler
<1>5. \/ Routing!AsyncHandler(s, m) = Routing!NotFound
      \/ /\ Routing!MatchingEntries(s) # {} /\ h # 0
         /\ Routing!AsyncHandler(s, m) = Routing!Answer("async", h, i)
  BY <1>1, <1>2 DEF Routing!AsyncHandler
<1> QED
  BY <1>1, <1>2, <1>3, <1>4, <1>5

(* What dispatch answers when it is not GET or HEAD: the first entry that   *)
(* matches decides.                                                         *)
LEMMA FirstDispatches ==
  ASSUME NEW s, NEW m, m \notin {GET, HEAD}, NEW got,
         got = Routing!Dispatch(s, m)
  PROVE  \/ Routing!MatchingEntries(s) = {} /\ got = Routing!NotFound
         \/ /\ Routing!MatchingEntries(s) # {}
            /\ \E i, h : /\ i = Routing!FirstOf(Routing!MatchingEntries(s))
                         /\ h = Routing!HandlerFor(routes[i].sync, m)
                         /\ \/ h = 0 /\ got = Routing!Answer("notAllowed", 0, i)
                            \/ h # 0 /\ got = Routing!Answer("sync", h, i)
<1>1. PICK M : M = Routing!MatchingEntries(s)
  OBVIOUS
<1>2. {i \in M : Routing!Decides(i, m)} = M
  BY DEF Routing!Decides
<1>3. PICK i : i = Routing!FirstOf(M)
  OBVIOUS
<1>4. PICK h : h = Routing!HandlerFor(routes[i].sync, m)
  OBVIOUS
<1>5. /\ M = {} => got = Routing!NotFound
      /\ M # {} /\ h = 0 => got = Routing!Answer("notAllowed", 0, i)
      /\ M # {} /\ h # 0 => got = Routing!Answer("sync", h, i)
  BY <1>1, <1>2, <1>3, <1>4 DEF Routing!Dispatch
<1> QED
  BY <1>1, <1>3, <1>4, <1>5

(* Stream and asynchronous handlers, and those of methods other than GET    *)
(* and HEAD, serve from a most specific route only.                         *)
LEMMA FirstDecides ==
  ASSUME Routing!RouterAssumption, RouterInv
  PROVE  Routing!FirstMatchDecides
<1> DEFINE Routed(s) == {i \in DOMAIN log : Routing!Matches(log[i].path, s)}
           Best(s, p) == \A j \in Routed(s) :
                           ~Routing!MoreSpecific(log[j].path, p)
<1>1. SUFFICES ASSUME NEW t \in Paths, NEW m \in Routing!Requests,
                      NEW s, s = Routing!PathOf(t),
                      NEW got, got = Routing!Serve(t, m)
        PROVE
          /\ got.kind \in {"stream", "async"}
               \/ (got.kind = "sync" /\ m \notin {GET, HEAD})
               => got.handler \in Routed(s) /\ Best(s, log[got.handler].path)
          /\ got.kind = "notAllowed" =>
               /\ m \notin {GET, HEAD} /\ Best(s, routes[got.entry].path)
               /\ Routing!Latest(routes[got.entry].path, m,
                                 {"sync", "hidden"}) = 0
          /\ got.kind = "notFound" /\ m \notin {GET, HEAD} /\ s = t
               => Routed(s) = {}
  BY Zenon DEF Routing!FirstMatchDecides
<1>2. PICK M : M = Routing!MatchingEntries(s)
  OBVIOUS
<1>3. PICK i : i = Routing!FirstOf(M)
  OBVIOUS
<1>4. M # {} => /\ i \in DOMAIN routes /\ Routing!Matches(routes[i].path, s)
                /\ Best(s, routes[i].path)
  BY <1>2, <1>3, FirstIsBest
<1>5. M = {} => Routed(s) = {}
  <2>1. ASSUME NEW j \in Routed(s)  PROVE M # {}
    <3>1. PICK k \in DOMAIN routes : routes[k].path = log[j].path
      BY <2>1 DEF RouterInv, CoveredBy
    <3>2. k \in M
      BY <1>2, <2>1, <3>1 DEF Routing!MatchingEntries
    <3> QED
      BY <3>2
  <2> QED
    BY <2>1
<1>6. ASSUME NEW h \in {Routing!HandlerFor(routes[i].sync, m),
                        Routing!HandlerFor(routes[i].async, m)}
                       \cup (IF m \in Methods THEN {routes[i].stream[m]} ELSE {}),
             h # 0, M # {}
      PROVE  h \in Routed(s) /\ Best(s, log[h].path)
  <2>1. h \in DOMAIN log /\ log[h].path = routes[i].path
    BY <1>4, <1>6, HandlerIsRegistered
  <2> QED
    BY <1>4, <1>6, <2>1
<1> HIDE DEF Routed, Best
<1>7. CASE got = Routing!NotFound /\ ~(got = Routing!Dispatch(s, m))
  <2>1. got.kind = "notFound" /\ got = Routing!NotFound
    BY <1>7 DEF Routing!NotFound, Routing!Answer
  <2>2. CASE s = t /\ m \notin {GET, HEAD}
    <3>1. \/ got = Routing!Dispatch(s, m)
          \/ Routing!StreamHandler(s, m) # Routing!NotFound
             /\ got = Routing!StreamHandler(s, m)
          \/ Routing!AsyncHandler(s, m) # Routing!NotFound
             /\ got = Routing!AsyncHandler(s, m)
      BY <1>1, <2>2 DEF Routing!Serve
    <3> QED
      BY <1>7, <3>1
  <2>3. CASE ~(s = t /\ m \notin {GET, HEAD})
    BY <2>1, <2>3
  <2> QED
    BY <2>2, <2>3
<1>8. CASE M # {} /\ \E h : /\ h # 0
             /\ \/ /\ m \in Methods /\ h = routes[i].stream[m]
                   /\ got = Routing!Answer("stream", h, i)
                \/ /\ h = Routing!HandlerFor(routes[i].async, m)
                   /\ got = Routing!Answer("async", h, i)
  <2>1. PICK h : /\ h # 0
             /\ \/ /\ m \in Methods /\ h = routes[i].stream[m]
                   /\ got = Routing!Answer("stream", h, i)
                \/ /\ h = Routing!HandlerFor(routes[i].async, m)
                   /\ got = Routing!Answer("async", h, i)
    BY <1>8
  <2>2. h \in Routed(s) /\ Best(s, log[h].path)
    BY <1>6, <1>8, <2>1
  <2>3. got.kind \in {"stream", "async"} /\ got.handler = h
    BY <2>1 DEF Routing!Answer
  <2> QED
    BY <2>2, <2>3
<1>9. CASE got = Routing!Dispatch(s, m) /\ m \in {GET, HEAD}
  <2>1. \A j \in DOMAIN routes :
          Routing!Decides(j, m) => Routing!HandlerFor(routes[j].sync, m) # 0
    BY <1>9 DEF Routing!Decides
  <2>2. PICK D : D = {j \in M : Routing!Decides(j, m)}
    OBVIOUS
  <2>3. PICK d : d = Routing!FirstOf(D)
    OBVIOUS
  <2>4. PICK h : h = Routing!HandlerFor(routes[d].sync, m)
    OBVIOUS
  <2>5. D # {} => h # 0
    <3>1. D \in SUBSET Nat
      BY <1>2, <2>2 DEF Routing!MatchingEntries, RouterInv, EntriesOk
    <3>2. D # {} => d \in D
      BY <2>3, <3>1, FirstIsLeast
    <3>3. D # {} => d \in DOMAIN routes /\ Routing!Decides(d, m)
      BY <1>2, <2>2, <3>2 DEF Routing!MatchingEntries
    <3> QED
      BY <2>1, <2>4, <3>3
  <2>6. \/ got = Routing!NotFound
        \/ got = Routing!Answer("sync", h, d)
    BY <1>2, <1>9, <2>2, <2>3, <2>4, <2>5 DEF Routing!Dispatch
  <2>7. got.kind \in {"sync", "notFound"}
    BY <2>6 DEF Routing!NotFound, Routing!Answer
  <2> QED
    BY <1>9, <2>7
<1>10. CASE got = Routing!Dispatch(s, m) /\ m \notin {GET, HEAD}
  <2>1. PICK h : h = Routing!HandlerFor(routes[i].sync, m)
    OBVIOUS
  <2>2. \/ M = {} /\ got = Routing!NotFound
        \/ M # {} /\ h = 0 /\ got = Routing!Answer("notAllowed", 0, i)
        \/ M # {} /\ h # 0 /\ got = Routing!Answer("sync", h, i)
    BY <1>2, <1>3, <1>10, <2>1, FirstDispatches
  <2>3. CASE M = {} /\ got = Routing!NotFound
    BY <1>5, <1>10, <2>3 DEF Routing!NotFound, Routing!Answer
  <2>4. CASE M # {} /\ h = 0 /\ got = Routing!Answer("notAllowed", 0, i)
    <3>1. got.kind = "notAllowed" /\ got.entry = i
      BY <2>4 DEF Routing!Answer
    <3>2. m \in Methods
      BY <1>10 DEF Routing!Requests
    <3>3. routes[i].sync[m] = 0
      BY <2>1, <2>4, <3>2 DEF Routing!HandlerFor
    <3>4. Routing!Latest(routes[i].path, m, {"sync", "hidden"}) = 0
      BY <1>4, <2>4, <3>2, <3>3, LatestOnes DEF Routing!LatestServes
    <3> QED
      BY <1>4, <1>10, <2>4, <3>1, <3>4
  <2>5. CASE M # {} /\ h # 0 /\ got = Routing!Answer("sync", h, i)
    <3>1. got.kind = "sync" /\ got.handler = h
      BY <2>5 DEF Routing!Answer
    <3>2. h \in Routed(s) /\ Best(s, log[h].path)
      BY <1>6, <2>1, <2>5
    <3> QED
      BY <3>1, <3>2
  <2> QED
    BY <2>2, <2>3, <2>4, <2>5
<1> QED
  BY <1>1, <1>2, <1>3, <1>7, <1>8, <1>9, <1>10, ServedFrom

(* For any patterns and any order of registrations: a GET or HEAD request   *)
(* goes to the most specific route with a synchronous handler for it; a     *)
(* stream or asynchronous handler, and one for another method, serves only  *)
(* from a most specific of all matching routes; of every path, method and   *)
(* kind the handler registered last serves; and each method that the Allow  *)
(* header of a 405 names would be served.                                   *)
THEOREM RoutesCorrect ==
  ASSUME Routing!RouterAssumption
  PROVE  Routing!Spec => []Routing!RoutesServe
<1>1. Routing!Init => RouterInv
  BY RouterInit
<1>2. RouterInv /\ [Routing!Next]_(Routing!vars) => RouterInv'
  BY RouterStep
<1>3. RouterInv => Routing!RoutesServe
  BY BestServes, FirstDecides, LatestOnes, AllowedServed
  DEF Routing!RoutesServe
<1> QED
  BY <1>1, <1>2, <1>3, PTL DEF Routing!Spec

-----------------------------------------------------------------------------
(* The descriptors that OpenAPI is made of. *)

Descriptors == [path : Seq(STRING), method : Methods, of : Nat,
                doc : Routing!Documentation, schema : BOOLEAN]
SameRoute(d, e) == d.path = e.path /\ d.method = e.method

(* A descriptor is of the last registration of its path and method, which   *)
(* is not a hidden one, and has no namesake; a documented registration that *)
(* is the last one has a descriptor.                                        *)
DescsOk(ds, l) ==
  /\ ds \subseteq Descriptors
  /\ \A d \in ds :
       /\ d.of = LatestIn(l, d.path, d.method, Routing!Kinds) /\ d.of # 0
       /\ l[d.of].kind # "hidden"
  /\ \A d, e \in ds : SameRoute(d, e) => d = e
  /\ \A i \in DOMAIN l :
       l[LatestIn(l, l[i].path, l[i].method, Routing!Kinds)].kind # "hidden"
         => \E d \in ds : SameRoute(d, l[i])

(* The documentation given last to a path and a method, among g. *)
Givens == [path : Seq(STRING), method : Methods, doc : Routing!Documentation]
GivenHits(g, q, m) == {k \in DOMAIN g : g[k].path = q /\ g[k].method = m}
GivenIn(g, q, m) ==
  IF GivenHits(g, q, m) = {} THEN Routing!NoDoc
  ELSE g[Routing!LastOf(GivenHits(g, q, m))].doc

(* A descriptor has the documentation given last, and where there is no     *)
(* descriptor none is left.                                                 *)
GivenOk(ds, g) ==
  /\ g \in Seq(Givens)
  /\ \A d \in ds : d.doc = GivenIn(g, d.path, d.method)
  /\ \A q, m : (\A d \in ds : ~(d.path = q /\ d.method = m))
                => GivenIn(g, q, m) = Routing!NoDoc

DescsInv ==
  RouterInv /\ DescsOk(descriptors, log) /\ GivenOk(descriptors, given)

(* What an application gives has the form of documentation. *)
LEMMA DocsTyped ==
  ASSUME Routing!RouterAssumption, NEW doc \in GivenDocs
  PROVE  doc \in Routing!Documentation /\ doc.schema \in BOOLEAN
<1>1. Routing!NoDoc \in Routing!Documentation
  <2>1. <<>> \in Seq([name : STRING, required : BOOLEAN])
    OBVIOUS
  <2> QED
    BY <2>1 DEF Routing!NoDoc, Routing!Documentation
<1>2. doc \in Routing!Documentation
  BY <1>1 DEF GivenDocs, Routing!RouterAssumption
<1>3. doc.schema \in BOOLEAN
  BY <1>2 DEF Routing!Documentation
<1> QED
  BY <1>2, <1>3

LEMMA DescsInit ==
  ASSUME Routing!Init
  PROVE  DescsInv
<1>1. descriptors = {} /\ log = <<>> /\ given = <<>>
  BY DEF Routing!Init
<1>2. DOMAIN log = {} /\ DOMAIN given = {} /\ given \in Seq(Givens)
  BY <1>1
<1>3. DescsOk(descriptors, log)
  BY <1>1, <1>2 DEF DescsOk
<1>4. \A q, m : GivenIn(given, q, m) = Routing!NoDoc
  BY <1>2 DEF GivenIn, GivenHits
<1>5. GivenOk(descriptors, given)
  BY <1>1, <1>2, <1>4 DEF GivenOk
<1> QED
  BY <1>3, <1>5, RouterInit DEF DescsInv

(* What is given is the last of its path and method, and of no other. *)
LEMMA GivenAppended ==
  ASSUME NEW g \in Seq(Givens), NEW x \in Givens, NEW q, NEW m
  PROVE  /\ x.path = q /\ x.method = m
              => GivenIn(Append(g, x), q, m) = x.doc
         /\ ~(x.path = q /\ x.method = m)
              => GivenIn(Append(g, x), q, m) = GivenIn(g, q, m)
<1>1. PICK n \in Nat : n = Len(g) /\ DOMAIN g = 1..n
  OBVIOUS
<1>2. PICK g2 : g2 = Append(g, x)
  OBVIOUS
<1>3. /\ DOMAIN g2 = 1..(n + 1) /\ g2[n + 1] = x
      /\ \A i \in 1..n : g2[i] = g[i]
  BY <1>1, <1>2
<1>4. PICK H : H = GivenHits(g, q, m)
  OBVIOUS
<1>5. PICK H2 : H2 = GivenHits(g2, q, m)
  OBVIOUS
<1>6. CASE x.path = q /\ x.method = m
  <2>1. H2 \in SUBSET Nat /\ n + 1 \in H2 /\ \A j \in H2 : j <= n + 1
    BY <1>3, <1>5, <1>6 DEF GivenHits
  <2>2. Routing!LastOf(H2) = n + 1
    BY <2>1, LastIs
  <2>3. GivenIn(g2, q, m) = g2[n + 1].doc
    BY <1>5, <2>1, <2>2 DEF GivenIn
  <2> QED
    BY <1>2, <1>3, <1>6, <2>3
<1>7. CASE ~(x.path = q /\ x.method = m)
  <2>1. n + 1 \notin H2
    BY <1>3, <1>5, <1>7 DEF GivenHits
  <2>2. H \in SUBSET (1..n) /\ H2 \in SUBSET (1..(n + 1))
    BY <1>1, <1>3, <1>4, <1>5 DEF GivenHits
  <2>3. \A i \in 1..n : i \in H2 <=> i \in H
    BY <1>1, <1>3, <1>4, <1>5 DEF GivenHits
  <2>4. \A i \in 1..(n + 1) : i # n + 1 => i \in 1..n
    OBVIOUS
  <2>5. H2 = H
    BY <2>1, <2>2, <2>3, <2>4
  <2>6. CASE H = {}
    BY <1>2, <1>4, <1>5, <1>7, <2>5, <2>6 DEF GivenIn
  <2>7. CASE H # {}
    <3>1. PICK k : k = Routing!LastOf(H)
      OBVIOUS
    <3>2. k \in 1..n
      BY <2>2, <2>7, <3>1, LastIsGreatest
    <3>3. GivenIn(g2, q, m) = g2[k].doc /\ GivenIn(g, q, m) = g[k].doc
      BY <1>4, <1>5, <2>5, <2>7, <3>1 DEF GivenIn
    <3> QED
      BY <1>2, <1>3, <1>7, <3>2, <3>3
  <2> QED
    BY <2>6, <2>7
<1> QED
  BY <1>6, <1>7

(* Descriptors that differ in one path and method only. *)
LEMMA GivenRegistered ==
  ASSUME NEW ds, NEW g, GivenOk(ds, g), NEW q, NEW m, NEW ds2,
         NEW g2 \in Seq(Givens),
         \A e \in ds2 : \/ e \in ds /\ ~(e.path = q /\ e.method = m)
                        \/ /\ e.path = q /\ e.method = m
                           /\ e.doc = GivenIn(g2, q, m),
         \A e \in ds : ~(e.path = q /\ e.method = m) => e \in ds2,
         (\A e \in ds2 : ~(e.path = q /\ e.method = m))
           => GivenIn(g2, q, m) = Routing!NoDoc,
         \A a, b : ~(a = q /\ b = m) => GivenIn(g2, a, b) = GivenIn(g, a, b)
  PROVE  GivenOk(ds2, g2)
<1>1. ASSUME NEW e \in ds2
      PROVE  e.doc = GivenIn(g2, e.path, e.method)
  <2>1. CASE e \in ds /\ ~(e.path = q /\ e.method = m)
    BY <2>1 DEF GivenOk
  <2>2. CASE e.path = q /\ e.method = m /\ e.doc = GivenIn(g2, q, m)
    BY <2>2
  <2> QED
    BY <2>1, <2>2
<1>2. ASSUME NEW a, NEW b, \A e \in ds2 : ~(e.path = a /\ e.method = b)
      PROVE  GivenIn(g2, a, b) = Routing!NoDoc
  <2>1. CASE a = q /\ b = m
    BY <1>2, <2>1
  <2>2. CASE ~(a = q /\ b = m)
    <3>1. \A e \in ds : ~(e.path = a /\ e.method = b)
      BY <1>2, <2>2
    <3>2. GivenIn(g, a, b) = Routing!NoDoc
      BY <3>1 DEF GivenOk
    <3> QED
      BY <2>2, <3>2
  <2> QED
    BY <2>1, <2>2
<1> QED
  BY <1>1, <1>2 DEF GivenOk

(* A registration r with its descriptor d, unless it is hidden. *)
LEMMA DescsRegistered ==
  ASSUME NEW l \in Seq(Regs), NEW ds, DescsOk(ds, l), NEW r \in Regs, NEW l2,
         l2 = Append(l, r), NEW d \in Descriptors, SameRoute(d, r),
         d.of = Len(l) + 1, NEW ds2,
         ds2 = {e \in ds : ~SameRoute(e, r)}
                 \cup (IF r.kind = "hidden" THEN {} ELSE {d})
  PROVE  DescsOk(ds2, l2)
<1>1. PICK n \in Nat : n = Len(l) /\ DOMAIN l = 1..n
  OBVIOUS
<1>2. /\ l2 \in Seq(Regs) /\ DOMAIN l2 = 1..(n + 1) /\ l2[n + 1] = r
      /\ \A i \in 1..n : l2[i] = l[i]
  BY <1>1
<1>3. PICK K : K = Routing!Kinds
  OBVIOUS
<1>4. r.kind \in K
  BY <1>3 DEF Regs
<1>5. PICK n1 \in Nat : n1 = n + 1 /\ n1 # 0
  OBVIOUS
<1>6. \A q, m : /\ IsOf(r, q, m, K) => LatestIn(l2, q, m, K) = n1
                /\ ~IsOf(r, q, m, K) =>
                     LatestIn(l2, q, m, K) = LatestIn(l, q, m, K)
  <2>1. Len(l) + 1 = n1
    BY <1>1, <1>5
  <2>2. \A q, m :
          /\ IsOf(r, q, m, K) => LatestIn(l2, q, m, K) = Len(l) + 1
          /\ ~IsOf(r, q, m, K) => LatestIn(l2, q, m, K) = LatestIn(l, q, m, K)
    BY LatestAppended
  <2> QED
    BY <2>1, <2>2
<1>7. \A e : SameRoute(e, r) <=> IsOf(r, e.path, e.method, K)
  BY <1>4 DEF SameRoute, IsOf
<1>8. d.of = n1 /\ l2[n1] = r
  BY <1>1, <1>2, <1>5
<1>9. \A e \in ds2 : \/ e \in ds /\ ~SameRoute(e, r)
                     \/ e = d /\ r.kind # "hidden"
  OBVIOUS
<1>10. ds2 \subseteq Descriptors
  BY <1>9 DEF DescsOk
<1>11. ASSUME NEW e \in ds2
       PROVE  /\ e.of = LatestIn(l2, e.path, e.method, K) /\ e.of # 0
              /\ l2[e.of].kind # "hidden"
  <2>1. CASE e = d /\ r.kind # "hidden"
    BY <1>5, <1>6, <1>7, <1>8, <2>1
  <2>2. CASE e \in ds /\ ~SameRoute(e, r)
    <3>1. /\ e.of = LatestIn(l, e.path, e.method, K) /\ e.of # 0
          /\ l[e.of].kind # "hidden"
      BY <1>3, <2>2 DEF DescsOk
    <3>2. LatestIn(l2, e.path, e.method, K) = LatestIn(l, e.path, e.method, K)
      BY <1>6, <1>7, <2>2
    <3>3. e.of \in Nat /\ e.of <= n
      BY <1>1, <3>1, LatestIsHit
    <3>4. l2[e.of] = l[e.of]
      BY <1>2, <3>1, <3>3
    <3> QED
      BY <3>1, <3>2, <3>4
  <2> QED
    BY <1>9, <2>1, <2>2
<1>12. ASSUME NEW a \in ds2, NEW b \in ds2, SameRoute(a, b)
       PROVE  a = b
  <2>1. CASE a \in ds /\ b \in ds
    BY <1>12, <2>1 DEF DescsOk
  <2>2. CASE a = d /\ b = d
    BY <2>2
  <2>3. CASE \/ a = d /\ ~SameRoute(b, r)
             \/ b = d /\ ~SameRoute(a, r)
    BY <1>12, <2>3 DEF SameRoute
  <2> QED
    BY <1>9, <2>1, <2>2, <2>3
<1>13. ASSUME NEW i \in DOMAIN l2,
              l2[LatestIn(l2, l2[i].path, l2[i].method, K)].kind # "hidden"
       PROVE  \E e \in ds2 : SameRoute(e, l2[i])
  <2>1. CASE SameRoute(l2[i], r)
    <3>1. LatestIn(l2, l2[i].path, l2[i].method, K) = n1
      BY <1>6, <1>7, <2>1
    <3>2. r.kind # "hidden"
      BY <1>8, <1>13, <3>1
    <3>3. d \in ds2 /\ SameRoute(d, l2[i])
      BY <2>1, <3>2 DEF SameRoute
    <3> QED
      BY <3>3
  <2>2. CASE ~SameRoute(l2[i], r)
    <3>1. i \in 1..n
      <4>1. i # n + 1
        BY <1>2, <2>2 DEF SameRoute
      <4> QED
        BY <1>2, <1>13, <4>1
    <3>2. l2[i] = l[i] /\ i \in DOMAIN l
      BY <1>1, <1>2, <3>1
    <3>3. PICK last : last = LatestIn(l, l[i].path, l[i].method, K)
      OBVIOUS
    <3>4. LatestIn(l2, l2[i].path, l2[i].method, K) = last
      BY <1>6, <1>7, <2>2, <3>2, <3>3
    <3>5. i \in HitsIn(l, l[i].path, l[i].method, K)
      <4>1. l[i] \in Regs
        BY <3>2
      <4> QED
        BY <1>3, <3>2, <4>1 DEF HitsIn, IsOf, Regs
    <3>6. last \in Nat /\ last # 0 /\ last <= n
      BY <1>1, <3>3, <3>5, LatestIsHit
    <3>7. l2[last] = l[last]
      BY <1>2, <3>6
    <3>8. l[last].kind # "hidden"
      BY <1>13, <3>4, <3>7
    <3>9. PICK e \in ds : SameRoute(e, l[i])
      BY <1>3, <3>2, <3>3, <3>8 DEF DescsOk
    <3>10. ~SameRoute(e, r)
      BY <2>2, <3>2, <3>9 DEF SameRoute
    <3> QED
      BY <3>2, <3>9, <3>10
  <2> QED
    BY <2>1, <2>2
<1> QED
  BY <1>3, <1>10, <1>11, <1>12, <1>13 DEF DescsOk

(* The documentation that a registration finds is the one given last. *)
LEMMA OldDocIs ==
  ASSUME NEW q, NEW m, DescsInv
  PROVE  Routing!OldDoc(q, m) = GivenIn(given, q, m)
<1>1. PICK old : old = {d \in descriptors : d.path = q /\ d.method = m}
  OBVIOUS
<1>2. GivenOk(descriptors, given)
  BY DEF DescsInv
<1>3. CASE old = {}
  <2>1. Routing!OldDoc(q, m) = Routing!NoDoc
    BY <1>1, <1>3 DEF Routing!OldDoc
  <2>2. \A d \in descriptors : ~(d.path = q /\ d.method = m)
    BY <1>1, <1>3
  <2> QED
    BY <1>2, <2>1, <2>2 DEF GivenOk
<1>4. CASE old # {}
  <2>1. PICK x : x = CHOOSE d \in old : TRUE
    OBVIOUS
  <2>2. x \in old
    BY <1>4, <2>1
  <2>3. Routing!OldDoc(q, m) = x.doc
    BY <1>1, <1>4, <2>1 DEF Routing!OldDoc
  <2>4. x \in descriptors /\ x.path = q /\ x.method = m
    BY <1>1, <2>2
  <2> QED
    BY <1>2, <2>3, <2>4 DEF GivenOk
<1> QED
  BY <1>3, <1>4

(* What is given last is documentation. *)
LEMMA GivenTyped ==
  ASSUME Routing!RouterAssumption, NEW g \in Seq(Givens), NEW q, NEW m
  PROVE  GivenIn(g, q, m) \in Routing!Documentation
<1>1. PICK n \in Nat : n = Len(g) /\ DOMAIN g = 1..n
  OBVIOUS
<1>2. PICK H : H = GivenHits(g, q, m)
  OBVIOUS
<1>3. H \in SUBSET (1..n)
  BY <1>1, <1>2 DEF GivenHits
<1>4. CASE H = {}
  BY <1>2, <1>4, DocsTyped DEF GivenIn, GivenDocs
<1>5. CASE H # {}
  <2>1. PICK k : k = Routing!LastOf(H)
    OBVIOUS
  <2>2. k \in DOMAIN g
    BY <1>1, <1>3, <1>5, <2>1, LastIsGreatest
  <2>3. g[k] \in Givens
    BY <2>2
  <2>4. GivenIn(g, q, m) = g[k].doc
    BY <1>2, <1>5, <2>1 DEF GivenIn
  <2> QED
    BY <2>3, <2>4 DEF Givens
<1> QED
  BY <1>4, <1>5

LEMMA DescsRegister ==
  ASSUME Routing!RouterAssumption, DescsInv, NEW p \in Seq(STRING),
         NEW m \in Methods, NEW kind \in Routing!Kinds,
         NEW doc \in GivenDocs, Routing!Register(p, m, kind, doc)
  PROVE  DescsInv'
<1>1. /\ RouterInv /\ DescsOk(descriptors, log) /\ log \in Seq(Regs)
      /\ Len(log) \in Nat /\ GivenOk(descriptors, given)
      /\ given \in Seq(Givens)
  BY DEF DescsInv, RouterInv, RoutingTypes, GivenOk
<1>2. PICK q : q = Routing!ApplyBasePath(p)
  OBVIOUS
<1>3. /\ RouterInv'
      /\ \E r \in Regs : /\ r.path = q /\ r.method = m /\ r.kind = kind
                         /\ log' = Append(log, r)
  BY <1>1, <1>2, RouterRegisters
<1>4. PICK r \in Regs : /\ r.path = q /\ r.method = m /\ r.kind = kind
                        /\ log' = Append(log, r)
  BY <1>3
<1>5. PICK n \in Nat : n = Len(log) + 1
  BY <1>1
<1>6. PICK old : old = Routing!OldDoc(q, m)
  OBVIOUS
<1>7. PICK c : c = Routing!Documents(old, doc)
  OBVIOUS
<1>8. /\ doc = Routing!NoDoc => c = old
      /\ doc # Routing!NoDoc => c = doc
  BY <1>7 DEF Routing!Documents
<1>9. old = GivenIn(given, q, m)
  BY <1>6, OldDocIs
<1>10. doc \in Routing!Documentation /\ doc.schema \in BOOLEAN
  BY DocsTyped
<1>11. c \in Routing!Documentation
  BY <1>1, <1>8, <1>9, <1>10, GivenTyped
<1>12. PICK d : d = [path |-> q, method |-> m, of |-> n, doc |-> c,
                     schema |-> doc.schema]
  OBVIOUS
<1>13. q \in Seq(STRING)
  BY <1>4 DEF Regs
<1>14. /\ d \in Descriptors /\ SameRoute(d, r) /\ d.of = n /\ d.doc = c
       /\ d.path = q /\ d.method = m
  BY <1>4, <1>10, <1>11, <1>12, <1>13 DEF Descriptors, SameRoute
<1>15. descriptors' = Routing!WithoutOld(descriptors, q, m, kind)
                        \cup (IF kind = "hidden" THEN {} ELSE {d})
  BY <1>2, <1>5, <1>6, <1>7, <1>12 DEF Routing!Register
<1>16. descriptors' = {e \in descriptors : ~SameRoute(e, r)}
                        \cup (IF r.kind = "hidden" THEN {} ELSE {d})
  BY <1>4, <1>15 DEF Routing!WithoutOld, SameRoute
<1>17. DescsOk(descriptors', log')
  <2>1. d.of = Len(log) + 1
    BY <1>5, <1>14
  <2> QED
    BY <1>1, <1>4, <1>14, <1>16, <2>1, DescsRegistered
<1>18. PICK x : x = [path |-> q, method |-> m, doc |-> doc]
  OBVIOUS
<1>19. x \in Givens /\ x.path = q /\ x.method = m /\ x.doc = doc
  BY <1>10, <1>13, <1>18 DEF Givens
<1>20. PICK g : g = given'
  OBVIOUS
<1>21. /\ doc = Routing!NoDoc /\ kind # "hidden" => g = given
       /\ ~(doc = Routing!NoDoc /\ kind # "hidden") => g = Append(given, x)
       /\ doc # Routing!NoDoc => kind = "sync"
  BY <1>2, <1>18, <1>20 DEF Routing!Register
<1>22. /\ g \in Seq(Givens)
       /\ \A a, b : ~(a = q /\ b = m) => GivenIn(g, a, b) = GivenIn(given, a, b)
       /\ kind # "hidden" => GivenIn(g, q, m) = c
       /\ kind = "hidden" => GivenIn(g, q, m) = Routing!NoDoc
  <2>1. CASE doc = Routing!NoDoc /\ kind # "hidden"
    BY <1>1, <1>8, <1>9, <1>21, <2>1
  <2>2. CASE ~(doc = Routing!NoDoc /\ kind # "hidden")
    <3>1. g = Append(given, x)
      BY <1>21, <2>2
    <3>2. g \in Seq(Givens)
      BY <1>1, <1>19, <3>1
    <3>3. GivenIn(g, q, m) = doc
      BY <1>1, <1>19, <3>1, GivenAppended
    <3>4. \A a, b : ~(a = q /\ b = m)
                      => GivenIn(g, a, b) = GivenIn(given, a, b)
      BY <1>1, <1>19, <3>1, GivenAppended
    <3>5. /\ kind # "hidden" => doc = c
          /\ kind = "hidden" => doc = Routing!NoDoc
      BY <1>8, <1>21, <2>2
    <3> QED
      BY <3>2, <3>3, <3>4, <3>5
  <2> QED
    BY <2>1, <2>2
<1>23. GivenOk(descriptors', g)
  <2>1. PICK ds2 : ds2 = descriptors'
    OBVIOUS
  <2>2. \A e : SameRoute(e, r) <=> (e.path = q /\ e.method = m)
    BY <1>4 DEF SameRoute
  <2>3. ds2 = {e \in descriptors : ~SameRoute(e, r)}
                \cup (IF kind = "hidden" THEN {} ELSE {d})
    BY <1>4, <1>16, <2>1
  <2>4. \A e \in ds2 :
          \/ e \in descriptors /\ ~(e.path = q /\ e.method = m)
          \/ /\ e.path = q /\ e.method = m /\ e.doc = GivenIn(g, q, m)
    BY <1>14, <1>22, <2>2, <2>3
  <2>5. \A e \in descriptors :
          ~(e.path = q /\ e.method = m) => e \in ds2
    BY <2>2, <2>3
  <2>6. (\A e \in ds2 : ~(e.path = q /\ e.method = m))
          => GivenIn(g, q, m) = Routing!NoDoc
    BY <1>14, <1>22, <2>3
  <2>7. GivenOk(ds2, g)
    BY <1>1, <1>22, <2>4, <2>5, <2>6, GivenRegistered
  <2> QED
    BY <2>1, <2>7
<1> QED
  BY <1>3, <1>17, <1>20, <1>23 DEF DescsInv

LEMMA DescsDocument ==
  ASSUME Routing!RouterAssumption, DescsInv, NEW p \in Patterns,
         NEW m \in Methods, NEW doc \in GivenDocs,
         Routing!DocumentRoute(p, m, doc)
  PROVE  DescsInv'
<1>1. /\ UNCHANGED <<base, routes, log>> /\ RouterInv
      /\ DescsOk(descriptors, log) /\ GivenOk(descriptors, given)
      /\ given \in Seq(Givens) /\ p \in Seq(STRING)
      /\ doc \in Routing!Documentation
  BY DocsTyped DEF Routing!DocumentRoute, DescsInv, GivenOk,
       Routing!RouterAssumption
<1>2. PICK hit : hit = {d \in descriptors : d.path = p /\ d.method = m}
  OBVIOUS
<1>3. /\ descriptors' = (descriptors \ hit)
                          \cup {[d EXCEPT !.doc = doc] : d \in hit}
      /\ hit # {}
  BY <1>2 DEF Routing!DocumentRoute
<1>4. ASSUME NEW e \in descriptors'
      PROVE  \E d \in descriptors :
               /\ e \in Descriptors /\ SameRoute(e, d) /\ e.of = d.of
               /\ \/ e = d /\ d \notin hit
                  \/ d \in hit /\ e.doc = doc
                       /\ e = [d EXCEPT !.doc = doc]
  <2>1. CASE e \in descriptors \ hit
    BY <1>1, <2>1 DEF DescsOk, SameRoute
  <2>2. CASE e \in {[d EXCEPT !.doc = doc] : d \in hit}
    <3>1. PICK d \in hit : e = [d EXCEPT !.doc = doc]
      BY <2>2
    <3>2. d \in Descriptors /\ d \in descriptors
      BY <1>1, <1>2, <3>1 DEF DescsOk
    <3>3. /\ e \in Descriptors /\ e.path = d.path /\ e.method = d.method
          /\ e.of = d.of /\ e.doc = doc
      BY <1>1, <3>1, <3>2 DEF Descriptors
    <3> QED
      BY <3>1, <3>2, <3>3 DEF SameRoute
  <2> QED
    BY <1>3, <2>1, <2>2
<1>5. \A d \in descriptors : \E e \in descriptors' : SameRoute(e, d)
  <2>1. TAKE d \in descriptors
  <2>2. CASE d \notin hit
    BY <1>3, <2>2 DEF SameRoute
  <2>3. CASE d \in hit
    <3>1. PICK e : e = [d EXCEPT !.doc = doc]
      OBVIOUS
    <3>2. d \in Descriptors
      BY <1>1 DEF DescsOk
    <3>3. e.path = d.path /\ e.method = d.method
      BY <3>1, <3>2 DEF Descriptors
    <3>4. e \in descriptors'
      BY <1>3, <2>3, <3>1
    <3> QED
      BY <3>3, <3>4 DEF SameRoute
  <2> QED
    BY <2>2, <2>3
<1>6. DescsOk(descriptors', log)
  <2>1. descriptors' \subseteq Descriptors
    BY <1>4
  <2>2. ASSUME NEW e \in descriptors'
        PROVE  /\ e.of = LatestIn(log, e.path, e.method, Routing!Kinds)
               /\ e.of # 0 /\ log[e.of].kind # "hidden"
    <3>1. PICK d \in descriptors :
            e \in Descriptors /\ SameRoute(e, d) /\ e.of = d.of
      BY <1>4
    <3>2. /\ d.of = LatestIn(log, d.path, d.method, Routing!Kinds) /\ d.of # 0
          /\ log[d.of].kind # "hidden"
      BY <1>1 DEF DescsOk
    <3>3. e.path = d.path /\ e.method = d.method
      BY <3>1 DEF SameRoute
    <3> QED
      BY <3>1, <3>2, <3>3
  <2>3. ASSUME NEW a \in descriptors', NEW b \in descriptors', SameRoute(a, b)
        PROVE  a = b
    <3>1. PICK x \in descriptors :
            /\ SameRoute(a, x)
            /\ \/ a = x /\ x \notin hit
               \/ x \in hit /\ a = [x EXCEPT !.doc = doc]
      BY <1>4
    <3>2. PICK y \in descriptors :
            /\ SameRoute(b, y)
            /\ \/ b = y /\ y \notin hit
               \/ y \in hit /\ b = [y EXCEPT !.doc = doc]
      BY <1>4
    <3>3. SameRoute(x, y)
      BY <2>3, <3>1, <3>2 DEF SameRoute
    <3>4. x = y
      BY <1>1, <3>3 DEF DescsOk
    <3> QED
      BY <3>1, <3>2, <3>4
  <2>4. ASSUME NEW i \in DOMAIN log,
               log[LatestIn(log, log[i].path, log[i].method,
                            Routing!Kinds)].kind # "hidden"
        PROVE  \E e \in descriptors' : SameRoute(e, log[i])
    <3>1. PICK d \in descriptors : SameRoute(d, log[i])
      BY <1>1, <2>4 DEF DescsOk
    <3>2. PICK e \in descriptors' : SameRoute(e, d)
      BY <1>5
    <3> QED
      BY <3>1, <3>2 DEF SameRoute
  <2> QED
    BY <2>1, <2>2, <2>3, <2>4 DEF DescsOk
<1>7. PICK x : x = [path |-> p, method |-> m, doc |-> doc]
  OBVIOUS
<1>8. x \in Givens /\ x.path = p /\ x.method = m /\ x.doc = doc
  BY <1>1, <1>7 DEF Givens
<1>9. PICK g : g = given' /\ g = Append(given, x)
  BY <1>7 DEF Routing!DocumentRoute
<1>10. g \in Seq(Givens)
  BY <1>1, <1>8, <1>9
<1>11. GivenIn(g, p, m) = doc
  BY <1>1, <1>8, <1>9, GivenAppended
<1>12. \A a, b : ~(a = p /\ b = m) => GivenIn(g, a, b) = GivenIn(given, a, b)
  BY <1>1, <1>8, <1>9, GivenAppended
<1>13. GivenOk(descriptors', g)
  <2>1. PICK ds2 : ds2 = descriptors'
    OBVIOUS
  <2>2. ASSUME NEW e \in ds2
        PROVE  \/ e \in descriptors /\ ~(e.path = p /\ e.method = m)
               \/ /\ e.path = p /\ e.method = m /\ e.doc = GivenIn(g, p, m)
    <3>1. PICK d \in descriptors :
            /\ SameRoute(e, d)
            /\ (e = d /\ d \notin hit) \/ (d \in hit /\ e.doc = doc)
      BY <1>4, <2>1
    <3> QED
      BY <1>2, <1>11, <3>1 DEF SameRoute
  <2>3. \A e \in descriptors : ~(e.path = p /\ e.method = m) => e \in ds2
    BY <1>2, <1>3, <2>1
  <2>4. ~(\A e \in ds2 : ~(e.path = p /\ e.method = m))
    <3>1. PICK d \in hit : TRUE
      BY <1>3
    <3>2. d \in descriptors /\ d.path = p /\ d.method = m
      BY <1>2, <3>1
    <3>3. PICK e \in descriptors' : SameRoute(e, d)
      BY <1>5, <3>2
    <3> QED
      BY <2>1, <3>2, <3>3 DEF SameRoute
  <2>5. GivenOk(ds2, g)
    BY <1>1, <1>10, <1>12, <2>2, <2>3, <2>4, GivenRegistered
  <2> QED
    BY <2>1, <2>5
<1> QED
  BY <1>1, <1>6, <1>9, <1>13 DEF DescsInv, RouterInv, RoutingTypes

LEMMA DescsStep ==
  ASSUME Routing!RouterAssumption, DescsInv, [Routing!Next]_(Routing!vars)
  PROVE  DescsInv'
<1>1. ASSUME UNCHANGED <<descriptors, log, given>>
      PROVE  DescsInv'
  <2>1. RouterInv'
    BY RouterStep DEF DescsInv
  <2> QED
    BY <1>1, <2>1 DEF DescsInv
<1>2. CASE UNCHANGED Routing!vars
  BY <1>1, <1>2 DEF Routing!vars
<1>3. ASSUME NEW b \in Bases, Routing!SetBasePath(b)
      PROVE  DescsInv'
  BY <1>1, <1>3 DEF Routing!SetBasePath
<1>4. ASSUME NEW p \in Patterns, NEW m \in Methods, NEW kind \in PlainKinds,
             NEW doc \in GivenDocs, Routing!Register(p, m, kind, doc)
      PROVE  DescsInv'
  BY <1>4, DescsRegister DEF Routing!RouterAssumption
<1>5. ASSUME NEW p \in Patterns, NEW m \in Methods, NEW doc \in GivenDocs,
             Routing!DocumentRoute(p, m, doc)
      PROVE  DescsInv'
  BY <1>5, DescsDocument
<1> QED
  BY <1>2, <1>3, <1>4, <1>5 DEF Routing!Next, GivenDocs

(* What DescriptorsExact says of one path and method. *)
ExactFor(last, ds, doc) ==
  IF log[last].kind = "hidden" THEN ds = {}
  ELSE /\ Routing!Cardinality(ds) = 1
       /\ \A d \in ds : d.of = last /\ d.doc = doc

(* The documentation's invariant has every descriptor exact. *)
LEMMA DescsEntail ==
  ASSUME DescsInv
  PROVE  Routing!DescriptorsExact
<1>1. /\ log \in Seq(Regs) /\ DescsOk(descriptors, log)
      /\ GivenOk(descriptors, given)
  BY DEF DescsInv, RouterInv, RoutingTypes
<1>2. SUFFICES
        ASSUME NEW i \in DOMAIN log
        PROVE  ExactFor(Routing!Latest(log[i].path, log[i].method,
                                       Routing!Kinds),
                        {d \in descriptors : d.path = log[i].path
                                               /\ d.method = log[i].method},
                        Routing!LastGiven(log[i].path, log[i].method))
  BY Zenon DEF Routing!DescriptorsExact, ExactFor
<1>3. PICK last, ds :
        /\ last = Routing!Latest(log[i].path, log[i].method, Routing!Kinds)
        /\ ds = {d \in descriptors : d.path = log[i].path
                                        /\ d.method = log[i].method}
  OBVIOUS
<1>4. last = LatestIn(log, log[i].path, log[i].method, Routing!Kinds)
  BY <1>3 DEF Routing!Latest, LatestIn, HitsIn, IsOf
<1>5. \A d \in ds : /\ d \in descriptors /\ SameRoute(d, log[i])
                    /\ d.of = last /\ log[d.of].kind # "hidden"
  BY <1>1, <1>3, <1>4 DEF DescsOk, SameRoute
<1>6. \A d \in ds : d.doc = GivenIn(given, log[i].path, log[i].method)
  BY <1>1, <1>3 DEF GivenOk
<1>7. Routing!LastGiven(log[i].path, log[i].method)
        = GivenIn(given, log[i].path, log[i].method)
  BY DEF Routing!LastGiven, GivenIn, GivenHits
<1>8. ExactFor(last, ds, Routing!LastGiven(log[i].path, log[i].method))
        => ExactFor(Routing!Latest(log[i].path, log[i].method, Routing!Kinds),
                    {d \in descriptors : d.path = log[i].path
                                           /\ d.method = log[i].method},
                    Routing!LastGiven(log[i].path, log[i].method))
  BY <1>3
<1>9. CASE log[last].kind = "hidden"
  BY <1>5, <1>9, <1>8 DEF ExactFor
<1>10. CASE log[last].kind # "hidden"
  <2>1. PICK d \in descriptors : SameRoute(d, log[i])
    BY <1>1, <1>3, <1>4, <1>10 DEF DescsOk
  <2>2. d \in ds
    BY <1>3, <2>1 DEF SameRoute
  <2>3. \A e \in ds : SameRoute(e, d)
    BY <1>5, <2>1 DEF SameRoute
  <2>4. ds = {d}
    BY <1>1, <1>5, <2>1, <2>2, <2>3 DEF DescsOk
  <2>5. Routing!Cardinality(ds) = 1
    BY <2>4, FS_Singleton, RoutingCardinality
  <2> QED
    BY <1>5, <1>6, <1>7, <1>10, <1>8, <2>5 DEF ExactFor
<1> QED
  BY <1>9, <1>10

(* What generate_openapi reads follows the registrations, in any order and  *)
(* under any base paths: a path and a method have one descriptor, that of   *)
(* their last registration, and none if this was a hidden one; and it has   *)
(* all of the documentation that was given last, with a registration or by  *)
(* document_route, and none from before it was hidden.                      *)
THEOREM DescriptorsCorrect ==
  ASSUME Routing!RouterAssumption
  PROVE  Routing!Spec => []Routing!DescriptorsExact
<1>1. Routing!Init => DescsInv
  BY DescsInit
<1>2. DescsInv /\ [Routing!Next]_(Routing!vars) => DescsInv'
  BY DescsStep
<1>3. DescsInv => Routing!DescriptorsExact
  BY DescsEntail
<1> QED
  BY <1>1, <1>2, <1>3, PTL DEF Routing!Spec

-----------------------------------------------------------------------------
(* Typed routes and the documentation, on top of the router. *)

(* A handler's descriptors are ones that add_typed_route accepts for its    *)
(* pattern, and the pattern's parameters are in the path of the route.      *)
DeclaredOk(dc, l) ==
  /\ dc \in Seq(Routing!Signatures \cup {<<>>}) /\ Len(dc) = Len(l)
  /\ \A i \in DOMAIN l :
       /\ Routing!Accepts(l[i].pattern, dc[i])
       /\ Routing!NamesIn(l[i].pattern) \subseteq Routing!NamesIn(l[i].path)

(* While install_openapi_routes runs, no GET route is where the page goes.  *)
InstallOk ==
  installing # Routing!Nothing =>
    /\ installing.docs \in DocPaths
    /\ \A d \in descriptors : ~(d.method = GET /\ d.path = installing.docs)

OpenApiInv ==
  DescsInv /\ DeclaredOk(declared, log) /\ InstallOk
    /\ (Bases = {} => base = <<>>)

OpenApiAssumptions ==
  Routing!RouterAssumption /\ Routing!TypedAssumption
    /\ Routing!OpenApiAssumption

(* The elements of a sequence are of its set. *)
LEMMA ElementsOf ==
  ASSUME NEW S, NEW x \in Seq(S)
  PROVE  \A i \in DOMAIN x : x[i] \in S
  OBVIOUS

(* apply_base_path keeps the parameters of a pattern. *)
LEMMA NamesKept ==
  ASSUME Routing!TypedAssumption, base \in Seq(STRING), NEW p \in Seq(STRING)
  PROVE  Routing!NamesIn(p) \subseteq Routing!NamesIn(Routing!ApplyBasePath(p))
<1>1. CASE base = <<>>
  BY <1>1 DEF Routing!ApplyBasePath
<1>2. CASE base # <<>> /\ p = <<"">>
  <2>1. p \in Seq({""})
    <3>1. <<"">> \in Seq({""})
      OBVIOUS
    <3> QED
      BY <1>2, <3>1, Zenon
  <2>2. \A i \in DOMAIN p : p[i] = ""
    <3>1. \A i \in DOMAIN p : p[i] \in {""}
      BY <2>1, ElementsOf, Zenon
    <3> QED
      BY <3>1, Zenon
  <2>3. Routing!ParamAt(p) = {}
    BY <2>2 DEF Routing!ParamAt, Routing!TypedAssumption
  <2> QED
    BY <2>3 DEF Routing!NamesIn
<1>3. CASE base # <<>> /\ p # <<"">>
  <2>1. PICK q : q = base \o p
    OBVIOUS
  <2>2. Routing!ApplyBasePath(p) = q
    BY <1>3, <2>1 DEF Routing!ApplyBasePath
  <2>3. PICK n \in Nat, b \in Nat :
          n = Len(p) /\ b = Len(base) /\ DOMAIN p = 1..n
    OBVIOUS
  <2>4. DOMAIN q = 1..(b + n) /\ \A i \in 1..n : q[b + i] = p[i]
    BY <2>1, <2>3
  <2>5. ASSUME NEW i \in Routing!ParamAt(p)
        PROVE  b + i \in Routing!ParamAt(q) /\ q[b + i] = p[i]
    <3>1. i \in 1..n /\ p[i] \in Params
      BY <2>3, <2>5 DEF Routing!ParamAt
    <3>2. b + i \in 1..(b + n)
      BY <3>1
    <3> QED
      BY <2>4, <3>1, <3>2 DEF Routing!ParamAt
  <2>6. ASSUME NEW x \in Routing!NamesIn(p)
        PROVE  x \in Routing!NamesIn(q)
    <3>1. PICK i \in Routing!ParamAt(p) : x = NameOf[p[i]]
      BY <2>6 DEF Routing!NamesIn
    <3>2. b + i \in Routing!ParamAt(q) /\ x = NameOf[q[b + i]]
      BY <2>5, <3>1
    <3> QED
      BY <3>2 DEF Routing!NamesIn
  <2> QED
    BY <2>2, <2>6
<1> QED
  BY <1>1, <1>2, <1>3

(* What one registration, typed or not, keeps. *)
LEMMA Registers ==
  ASSUME OpenApiAssumptions, DescsInv, DeclaredOk(declared, log),
         NEW p \in Seq(STRING), NEW m \in Methods, NEW kind \in Routing!Kinds,
         NEW doc \in GivenDocs, Routing!Register(p, m, kind, doc),
         NEW s \in Routing!Signatures \cup {<<>>}, Routing!Accepts(p, s),
         declared' = Append(declared, s)
  PROVE  DescsInv' /\ DeclaredOk(declared', log')
<1>1. DescsInv'
  BY DescsRegister DEF OpenApiAssumptions
<1>2. log \in Seq(Regs) /\ base \in Seq(STRING) /\ RouterInv
  BY DEF DescsInv, RouterInv, RoutingTypes
<1>3. PICK r \in Regs : /\ r.path = Routing!ApplyBasePath(p) /\ r.pattern = p
                        /\ log' = Append(log, r)
  BY <1>2, RouterRegisters
<1>4. Routing!NamesIn(r.pattern) \subseteq Routing!NamesIn(r.path)
  BY <1>2, <1>3, NamesKept DEF OpenApiAssumptions
<1>5. PICK n \in Nat : /\ n = Len(log) /\ n = Len(declared)
                       /\ DOMAIN log = 1..n /\ DOMAIN declared = 1..n
  BY <1>2 DEF DeclaredOk
<1>6. PICK l2, d2 : l2 = log' /\ d2 = declared'
  OBVIOUS
<1>7. /\ DOMAIN l2 = 1..(n + 1) /\ l2[n + 1] = r
      /\ \A i \in 1..n : l2[i] = log[i]
  BY <1>2, <1>3, <1>5, <1>6
<1>8. declared \in Seq(Routing!Signatures \cup {<<>>})
  BY DEF DeclaredOk
<1>9. /\ d2 \in Seq(Routing!Signatures \cup {<<>>}) /\ Len(d2) = n + 1
      /\ d2[n + 1] = s /\ \A i \in 1..n : d2[i] = declared[i]
  <2>1. PICK S : S = Routing!Signatures \cup {<<>>}
    OBVIOUS
  <2>2. declared \in Seq(S) /\ s \in S /\ d2 = Append(declared, s)
    BY <1>6, <1>8, <2>1
  <2> QED
    BY <1>5, <2>1, <2>2
<1>10. Len(l2) = n + 1
  BY <1>2, <1>3, <1>5, <1>6
<1>11. ASSUME NEW i \in 1..(n + 1)
       PROVE  /\ Routing!Accepts(l2[i].pattern, d2[i])
              /\ Routing!NamesIn(l2[i].pattern)
                   \subseteq Routing!NamesIn(l2[i].path)
  <2>1. CASE i = n + 1
    BY <1>3, <1>4, <1>7, <1>9, <2>1
  <2>2. CASE i # n + 1
    <3>1. i \in 1..n
      BY <2>2
    <3> QED
      BY <1>5, <1>7, <1>9, <3>1 DEF DeclaredOk
  <2> QED
    BY <2>1, <2>2
<1>12. DeclaredOk(d2, l2)
  BY <1>7, <1>9, <1>10, <1>11 DEF DeclaredOk
<1> QED
  BY <1>1, <1>6, <1>12

(* A registration without descriptors declares nothing. *)
LEMMA NothingAccepted ==
  ASSUME NEW p
  PROVE  Routing!Accepts(p, <<>>)
<1>1. PICK s : s = <<>>
  OBVIOUS
<1>2. DOMAIN s = {}
  BY <1>1
<1>3. Routing!Accepts(p, s)
  BY <1>2 DEF Routing!Accepts, Routing!Duplicate
<1> QED
  BY <1>1, <1>3

(* A registration of a hidden route takes descriptors away only. *)
LEMMA HiddenDescribesNothing ==
  ASSUME NEW p, NEW m, Routing!Register(p, m, "hidden", Routing!NoDoc)
  PROVE  descriptors' \subseteq descriptors
  BY DEF Routing!Register, Routing!WithoutOld

LEMMA OpenApiInitOk ==
  ASSUME Routing!OpenApiInit
  PROVE  OpenApiInv
<1>1. /\ Routing!Init /\ declared = <<>> /\ installing = Routing!Nothing
      /\ log = <<>> /\ base = <<>>
  BY DEF Routing!OpenApiInit, Routing!TypedInit, Routing!Init
<1>2. DescsInv
  BY <1>1, DescsInit
<1>3. /\ declared \in Seq(Routing!Signatures \cup {<<>>})
      /\ Len(declared) = Len(log) /\ DOMAIN log = {}
  BY <1>1
<1> QED
  BY <1>1, <1>2, <1>3 DEF OpenApiInv, DeclaredOk, InstallOk

(* A step of the documented application keeps the invariant. *)
LEMMA OpenApiStep ==
  ASSUME OpenApiAssumptions, OpenApiInv,
         [Routing!OpenApiNext]_(Routing!openApiVars)
  PROVE  OpenApiInv'
<1> USE DEF OpenApiInv
<1>1. /\ GET \in Methods /\ Patterns \subseteq Seq(STRING)
      /\ PlainKinds \subseteq Routing!Kinds /\ DocPaths \subseteq Seq(STRING)
      /\ "sync" \in Routing!Kinds /\ "hidden" \in Routing!Kinds
  BY DEF OpenApiAssumptions, Routing!RouterAssumption,
       Routing!OpenApiAssumption, Routing!Kinds
<1>2. ASSUME UNCHANGED <<descriptors, log, declared, installing>>,
             [Routing!Next]_(Routing!vars), Bases = {} => base' = <<>>
      PROVE  OpenApiInv'
  <2>1. DescsInv'
    BY <1>2, DescsStep DEF OpenApiAssumptions
  <2> QED
    BY <1>2, <2>1 DEF InstallOk
<1>3. CASE UNCHANGED Routing!openApiVars
  BY <1>2, <1>3 DEF Routing!openApiVars, Routing!typedVars, Routing!vars
<1>4. ASSUME NEW b \in Bases, Routing!SetBasePath(b),
             UNCHANGED <<declared, installing, page>>
      PROVE  OpenApiInv'
  <2>1. Routing!Next /\ UNCHANGED <<descriptors, log>> /\ Bases # {}
    BY <1>4 DEF Routing!Next, Routing!SetBasePath
  <2> QED
    BY <1>2, <1>4, <2>1
<1>5. ASSUME NEW p \in Patterns, NEW m \in Methods, NEW doc \in GivenDocs,
             Routing!DocumentRoute(p, m, doc), installing = Routing!Nothing,
             UNCHANGED <<declared, installing>>
      PROVE  OpenApiInv'
  <2>1. DescsInv'
    BY <1>5, DescsDocument DEF OpenApiAssumptions
  <2>2. UNCHANGED <<log, base>>
    BY <1>5 DEF Routing!DocumentRoute
  <2> QED
    BY <1>5, <2>1, <2>2 DEF InstallOk
<1>6. ASSUME NEW p \in Patterns, NEW m \in Methods, NEW doc \in GivenDocs,
             NEW s \in Routing!Signatures, Routing!RegisterTyped(p, m, s, doc),
             installing = Routing!Nothing, UNCHANGED <<installing, page>>
      PROVE  OpenApiInv'
  <2>1. DescsInv' /\ DeclaredOk(declared', log')
    BY <1>1, <1>6, Registers DEF Routing!RegisterTyped
  <2>2. base' = base
    BY <1>6 DEF Routing!RegisterTyped, Routing!Register
  <2> QED
    BY <1>6, <2>1, <2>2 DEF InstallOk
<1>7. ASSUME NEW p \in Seq(STRING), NEW m \in Methods, NEW doc \in GivenDocs,
             NEW kind \in Routing!Kinds, Routing!RegisterPlain(p, m, kind, doc)
      PROVE  /\ DescsInv' /\ DeclaredOk(declared', log')
             /\ base' = base
  <2>1. Routing!Register(p, m, kind, doc) /\ declared' = Append(declared, <<>>)
    BY <1>7 DEF Routing!RegisterPlain
  <2>2. Routing!Accepts(p, <<>>) /\ <<>> \in Routing!Signatures \cup {<<>>}
    BY NothingAccepted
  <2>3. DescsInv' /\ DeclaredOk(declared', log')
    BY <1>7, <2>1, <2>2, Registers
  <2> QED
    BY <2>1, <2>3 DEF Routing!Register
<1>8. ASSUME NEW p \in Patterns, NEW m \in Methods, NEW doc \in GivenDocs,
             NEW kind \in PlainKinds, Routing!RegisterPlain(p, m, kind, doc),
             installing = Routing!Nothing, UNCHANGED <<installing, page>>
      PROVE  OpenApiInv'
  BY <1>1, <1>7, <1>8 DEF InstallOk
<1>9. ASSUME NEW spec \in DocPaths, NEW site \in DocPaths,
             Routing!InstallSpec(spec, site)
      PROVE  OpenApiInv'
  <2>1. /\ Routing!RegisterPlain(spec, GET, "hidden", Routing!NoDoc)
        /\ ~Routing!Conflict(spec, site)
        /\ installing' = [spec |-> spec, docs |-> site,
                          handler |-> Len(log) + 1]
    BY <1>9 DEF Routing!InstallSpec
  <2>2. /\ DescsInv' /\ DeclaredOk(declared', log')
        /\ base' = base
    BY <1>1, <1>7, <1>9, <2>1 DEF GivenDocs
  <2>3. descriptors' \subseteq descriptors
    BY <2>1, HiddenDescribesNothing DEF Routing!RegisterPlain
  <2>4. \A d \in descriptors : ~(d.method = GET /\ d.path = site)
    BY <2>1 DEF Routing!Conflict
  <2>5. installing'.docs = site
    BY <2>1
  <2>6. InstallOk'
    BY <1>9, <2>3, <2>4, <2>5 DEF InstallOk
  <2> QED
    BY <2>2, <2>6
<1>10. ASSUME Routing!InstallDocs
       PROVE  OpenApiInv'
  <2>1. /\ Routing!RegisterPlain(installing.docs, GET, "hidden", Routing!NoDoc)
        /\ installing # Routing!Nothing /\ installing' = Routing!Nothing
    BY <1>10 DEF Routing!InstallDocs
  <2>2. installing.docs \in Seq(STRING)
    BY <1>1, <2>1 DEF InstallOk
  <2>3. PICK p \in Seq(STRING) : p = installing.docs
    BY <2>2
  <2>4. Routing!RegisterPlain(p, GET, "hidden", Routing!NoDoc)
    BY <2>1, <2>3
  <2>5. /\ DescsInv' /\ DeclaredOk(declared', log')
        /\ base' = base
    BY <1>1, <1>7, <2>4 DEF GivenDocs
  <2>6. InstallOk'
    BY <2>1 DEF InstallOk, Routing!Nothing
  <2> QED
    BY <2>5, <2>6
<1> QED
  BY <1>3, <1>4, <1>6, <1>8, <1>9, <1>10, <1>5
     DEF Routing!OpenApiNext, Routing!TypedNext, Routing!Registration,
         GivenDocs

(* A hidden route at a path without a described GET route takes no handler  *)
(* from the application.                                                    *)
LEMMA HiddenTakesNothing ==
  ASSUME DescsInv, base = <<>>, NEW p \in Seq(STRING), GET \in Methods,
         Routing!Register(p, GET, "hidden", Routing!NoDoc),
         \A d \in descriptors : ~(d.method = GET /\ d.path = p),
         NEW i \in DOMAIN routes, NEW m \in Methods,
         routes[i].sync[m] # 0
  PROVE  \/ log[routes[i].sync[m]].kind = "hidden"
         \/ \E j \in DOMAIN routes' :
              /\ routes'[j].sync[m] = routes[i].sync[m]
              /\ routes'[j].path = routes[i].path
<1>1. /\ RouterInv /\ log \in Seq(Regs) /\ DescsOk(descriptors, log)
      /\ ServesIn(routes, log)
  BY DEF DescsInv, RouterInv, RoutingTypes
<1>2. "hidden" \in Routing!Kinds
  BY DEF Routing!Kinds
<1>3. /\ RouterInv'
      /\ \E r \in Regs :
           /\ r.path = Routing!ApplyBasePath(p) /\ r.method = GET
           /\ r.kind = "hidden" /\ log' = Append(log, r)
  <2>1. PICK kind \in Routing!Kinds : kind = "hidden"
    BY <1>2
  <2>2. PICK doc : doc = Routing!NoDoc
    OBVIOUS
  <2>3. Routing!Register(p, GET, kind, doc)
    BY <2>1, <2>2, Zenon
  <2>4. /\ RouterInv'
        /\ \E r \in Regs :
             /\ r.path = Routing!ApplyBasePath(p) /\ r.method = GET
             /\ r.kind = kind /\ log' = Append(log, r)
    BY <1>1, <2>3, RouterRegisters
  <2> QED
    BY <2>1, <2>4, Zenon
<1>4. PICK r \in Regs : /\ r.path = p /\ r.method = GET
                        /\ r.kind = "hidden" /\ log' = Append(log, r)
  BY <1>3 DEF Routing!ApplyBasePath
<1>5. RouterInv'
  BY <1>3
<1>6. PICK S : S = {"sync", "hidden"}
  OBVIOUS
<1>7. PICK q : q = routes[i].path
  OBVIOUS
<1>8. PICK h : h = routes[i].sync[m]
  OBVIOUS
<1>9. h = LatestIn(log, q, m, S) /\ h # 0
  BY <1>1, <1>6, <1>7, <1>8 DEF ServesIn
<1>10. /\ h \in HitsIn(log, q, m, S)
       /\ \A j \in HitsIn(log, q, m, S) : j <= h
  BY <1>1, <1>9, LatestIsHit
<1>11. h \in DOMAIN log /\ IsOf(log[h], q, m, S)
  BY <1>10 DEF HitsIn
<1>12. CASE q = p /\ m = GET
  <2>1. PICK K : K = Routing!Kinds
    OBVIOUS
  <2>2. h \in HitsIn(log, q, m, K)
    <3>1. log[h] \in Regs
      BY <1>1, <1>11
    <3>2. log[h].kind \in K
      BY <2>1, <3>1 DEF Regs
    <3> QED
      BY <1>11, <3>2 DEF HitsIn, IsOf
  <2>3. PICK last : last = LatestIn(log, q, m, K)
    OBVIOUS
  <2>4. last \in HitsIn(log, q, m, K) /\ h <= last
    BY <1>1, <2>2, <2>3, LatestIsHit
  <2>5. last \in DOMAIN log /\ IsOf(log[last], q, m, K)
    BY <2>4 DEF HitsIn
  <2>6. log[h].path = q /\ log[h].method = m
    BY <1>11 DEF IsOf
  <2>7. log[last].kind = "hidden"
    <3>1. SUFFICES ASSUME log[last].kind # "hidden" PROVE FALSE
      OBVIOUS
    <3>2. log[LatestIn(log, log[h].path, log[h].method,
                       Routing!Kinds)].kind # "hidden"
      BY <2>1, <2>3, <2>6, <3>1
    <3>3. PICK d \in descriptors : SameRoute(d, log[h])
      BY <1>1, <1>11, <3>2 DEF DescsOk
    <3> QED
      BY <1>12, <2>6, <3>3 DEF SameRoute
  <2>8. last \in HitsIn(log, q, m, S)
    BY <1>6, <2>5, <2>7 DEF HitsIn, IsOf
  <2>9. last = h
    <3>1. last <= h /\ h <= last
      BY <1>10, <2>4, <2>8
    <3>2. last \in Nat /\ h \in Nat
      BY <1>1, <1>11, <2>5
    <3> QED
      BY <3>1, <3>2
  <2> QED
    BY <1>8, <2>7, <2>9
<1>13. CASE ~(q = p /\ m = GET)
  <2>1. ~IsOf(r, q, m, S)
    BY <1>4, <1>13 DEF IsOf
  <2>2. PICK l2 : l2 = log'
    OBVIOUS
  <2>3. LatestIn(l2, q, m, S) = h
    <3>1. LatestIn(Append(log, r), q, m, S) = LatestIn(log, q, m, S)
      BY <1>1, <2>1, LatestAppended
    <3> QED
      BY <1>4, <1>9, <2>2, <3>1
  <2>4. h \in DOMAIN l2 /\ l2[h] = log[h]
    BY <1>1, <1>4, <1>11, <2>2
  <2>5. /\ CoveredBy(routes', l2) /\ ServesIn(routes', l2)
    BY <1>5, <2>2 DEF RouterInv
  <2>6. PICK j \in DOMAIN routes' : routes'[j].path = q
    BY <1>11, <2>4, <2>5 DEF CoveredBy, IsOf
  <2>7. routes'[j].sync[m] = h
    BY <1>6, <2>3, <2>5, <2>6 DEF ServesIn
  <2> QED
    BY <1>7, <1>8, <2>6, <2>7
<1> QED
  BY <1>12, <1>13

(* Without a base path, a step of install_openapi_routes takes nothing. *)
LEMMA InstallStays ==
  ASSUME OpenApiAssumptions, OpenApiInv, Bases = {},
         [Routing!OpenApiNext]_(Routing!openApiVars)
  PROVE  [Routing!RoutesStay]_(Routing!openApiVars)
<1> USE DEF OpenApiInv
<1>1. GET \in Methods /\ DocPaths \subseteq Seq(STRING) /\ base = <<>>
  BY DEF OpenApiAssumptions, Routing!RouterAssumption,
       Routing!OpenApiAssumption
<1>2. ASSUME NEW p \in DocPaths, Routing!RegisterPlain(p, GET, "hidden", Routing!NoDoc),
             \A d \in descriptors : ~(d.method = GET /\ d.path = p)
      PROVE  Routing!RoutesStay
  <2>1. Routing!Register(p, GET, "hidden", Routing!NoDoc)
    BY <1>2 DEF Routing!RegisterPlain
  <2>2. ASSUME NEW i \in DOMAIN routes, NEW m \in Methods,
               routes[i].sync[m] # 0
        PROVE  \/ log[routes[i].sync[m]].kind = "hidden"
               \/ \E j \in DOMAIN routes' :
                    /\ routes'[j].sync[m] = routes[i].sync[m]
                    /\ routes'[j].path = routes[i].path
    BY <1>1, <1>2, <2>1, <2>2, HiddenTakesNothing
  <2> QED
    BY <2>2 DEF Routing!RoutesStay
<1>3. CASE UNCHANGED Routing!openApiVars
  BY <1>3
<1>4. CASE installing' = installing /\ page' = page
           /\ installing = Routing!Nothing
  BY <1>4 DEF Routing!RoutesStay
<1>5. ASSUME NEW spec \in DocPaths, NEW site \in DocPaths,
             Routing!InstallSpec(spec, site)
      PROVE  Routing!RoutesStay
  BY <1>2, <1>5 DEF Routing!InstallSpec, Routing!Conflict
<1>6. CASE Routing!InstallDocs
  BY <1>2, <1>6 DEF Routing!InstallDocs, InstallOk
<1> QED
  BY <1>3, <1>4, <1>5, <1>6 DEF Routing!OpenApiNext

(* A synchronous handler that serves a request is a registered one, of the  *)
(* path of the entry that matched.                                          *)
LEMMA SyncServed ==
  ASSUME Routing!RouterAssumption, RouterInv, NEW t,
         NEW m \in Routing!Requests, Routing!Serve(t, m).kind = "sync",
         NEW verb, verb = IF m = HEAD THEN GET ELSE m,
         NEW i, i = Routing!Serve(t, m).entry,
         NEW h, h = Routing!Serve(t, m).handler
  PROVE  /\ verb \in Methods /\ i \in DOMAIN routes /\ h \in DOMAIN log
         /\ h = LatestIn(log, routes[i].path, verb, {"sync", "hidden"})
         /\ IsOf(log[h], routes[i].path, verb, {"sync", "hidden"})
<1>1. PICK s : s = Routing!PathOf(t)
  OBVIOUS
<1>2. \A x : /\ Routing!StreamHandler(x, m).kind # "sync"
             /\ Routing!AsyncHandler(x, m).kind # "sync"
  <2>1. TAKE x
  <2>2. PICK j : j = Routing!FirstOf(Routing!MatchingEntries(x))
    OBVIOUS
  <2>3. PICK g : g = Routing!HandlerFor(routes[j].async, m)
    OBVIOUS
  <2>4. \/ Routing!StreamHandler(x, m) = Routing!NotFound
        \/ Routing!StreamHandler(x, m) =
             Routing!Answer("stream", routes[j].stream[m], j)
    BY <2>2 DEF Routing!StreamHandler
  <2>5. \/ Routing!AsyncHandler(x, m) = Routing!NotFound
        \/ Routing!AsyncHandler(x, m) = Routing!Answer("async", g, j)
    BY <2>2, <2>3 DEF Routing!AsyncHandler
  <2> QED
    BY <2>4, <2>5 DEF Routing!Answer, Routing!NotFound
<1>3. Routing!Serve(t, m) = Routing!Dispatch(s, m)
  <2>1. \/ Routing!Serve(t, m) = Routing!StreamHandler(s, m)
        \/ Routing!Serve(t, m) = Routing!AsyncHandler(s, m)
        \/ Routing!Serve(t, m) = Routing!Dispatch(s, m)
    BY <1>1 DEF Routing!Serve
  <2> QED
    BY <1>2, <2>1
<1>4. PICK D : D = {j \in Routing!MatchingEntries(s) : Routing!Decides(j, m)}
  OBVIOUS
<1>5. PICK j, g : j = Routing!FirstOf(D)
                    /\ g = Routing!HandlerFor(routes[j].sync, m)
  OBVIOUS
<1>6. D # {} /\ g # 0 /\ Routing!Dispatch(s, m) = Routing!Answer("sync", g, j)
  <2>1. D # {}
    <3>1. SUFFICES ASSUME D = {} PROVE FALSE
      OBVIOUS
    <3>2. Routing!Dispatch(s, m) = Routing!NotFound
      BY <1>4, <3>1 DEF Routing!Dispatch
    <3> QED
      BY <1>3, <3>2 DEF Routing!NotFound, Routing!Answer
  <2>2. g # 0
    <3>1. SUFFICES ASSUME g = 0 PROVE FALSE
      OBVIOUS
    <3>2. Routing!Dispatch(s, m) = Routing!Answer("notAllowed", 0, j)
      BY <1>4, <1>5, <2>1, <3>1 DEF Routing!Dispatch
    <3> QED
      BY <1>3, <3>2 DEF Routing!Answer
  <2> QED
    BY <1>4, <1>5, <2>1, <2>2 DEF Routing!Dispatch
<1>7. i = j /\ h = g
  BY <1>3, <1>6 DEF Routing!Answer
<1>8. D \in SUBSET Nat
  BY <1>4 DEF Routing!MatchingEntries, RouterInv, EntriesOk
<1>9. i \in DOMAIN routes
  BY <1>4, <1>5, <1>6, <1>7, <1>8, FirstIsLeast DEF Routing!MatchingEntries
<1>10. verb \in Methods /\ h = routes[i].sync[verb]
  <2>1. GET \in Methods /\ HEAD \notin Methods
    BY DEF Routing!RouterAssumption
  <2> QED
    BY <1>5, <1>7, <2>1 DEF Routing!HandlerFor, Routing!Requests
<1>11. PICK S, q : S = {"sync", "hidden"} /\ q = routes[i].path
  OBVIOUS
<1>12. h = LatestIn(log, q, verb, S) /\ h # 0
  BY <1>6, <1>7, <1>9, <1>10, <1>11 DEF RouterInv, ServesIn
<1>13. h \in HitsIn(log, q, verb, S)
  BY <1>12, LatestIsHit DEF RouterInv, RoutingTypes
<1> QED
  BY <1>9, <1>10, <1>11, <1>12, <1>13 DEF HitsIn

(* The path parameters of a typed handler are in the route that serves. *)
LEMMA ParamsPresent ==
  ASSUME OpenApiAssumptions, OpenApiInv
  PROVE  Routing!PathParamsPresent
<1>1. SUFFICES ASSUME NEW t \in Paths, NEW m \in Routing!Requests,
                      Routing!Serve(t, m).kind = "sync",
                      NEW g, g = Routing!Serve(t, m).handler,
                      NEW e, e = Routing!Serve(t, m).entry,
                      NEW i \in DOMAIN declared[g], declared[g][i].in = "path"
               PROVE  declared[g][i].name \in Routing!NamesIn(routes[e].path)
  BY Zenon DEF Routing!PathParamsPresent
<1>2. /\ RouterInv /\ Routing!RouterAssumption /\ DeclaredOk(declared, log)
  BY DEF OpenApiInv, DescsInv, OpenApiAssumptions
<1>3. PICK verb : verb = IF m = HEAD THEN GET ELSE m
  OBVIOUS
<1>4. PICK S : S = {"sync", "hidden"}
  OBVIOUS
<1>5. g \in DOMAIN log /\ IsOf(log[g], routes[e].path, verb, S)
  BY <1>1, <1>2, <1>3, <1>4, SyncServed
<1>6. log[g].path = routes[e].path
  BY <1>5 DEF IsOf
<1>7. /\ Routing!Accepts(log[g].pattern, declared[g])
      /\ Routing!NamesIn(log[g].pattern) \subseteq Routing!NamesIn(log[g].path)
  BY <1>2, <1>5 DEF DeclaredOk
<1>8. declared[g][i].name \in Routing!NamesIn(log[g].pattern)
  BY <1>1, <1>7 DEF Routing!Accepts, Routing!InTemplate
<1> QED
  BY <1>6, <1>7, <1>8

(* The positions of a declaration are numbers. *)
LEMMA DeclaredPositions ==
  ASSUME NEW s \in Routing!Signatures \cup {<<>>}
  PROVE  \A i \in DOMAIN s : i \in Nat /\ s[i] \in Routing!Descriptors
<1>1. CASE s = <<>>
  BY <1>1
<1>2. CASE s \in Routing!Signatures
  <2>1. PICK n \in 1..MaxDescriptors : s \in [1..n -> Routing!Descriptors]
    BY <1>2 DEF Routing!Signatures
  <2>2. DOMAIN s = 1..n
    BY <2>1
  <2>3. \A i \in 1..n : i \in Nat
    <3>1. PICK k \in Int : k = n
      OBVIOUS
    <3>2. \A i \in 1..k : i \in Nat
      OBVIOUS
    <3> QED
      BY <3>1, <3>2
  <2> QED
    BY <2>1, <2>2, <2>3
<1> QED
  BY <1>1, <1>2

(* The descriptors that OpenAPI takes its operations from are of handlers   *)
(* that were registered.                                                    *)
LEMMA DescribedRegistered ==
  ASSUME DescsInv, NEW d \in descriptors
  PROVE  /\ d.of \in DOMAIN log
         /\ IsOf(log[d.of], d.path, d.method, Routing!Kinds)
<1>1. PICK K, l : K = Routing!Kinds /\ l = log
  OBVIOUS
<1>2. /\ l \in Seq(Regs) /\ d.of = LatestIn(l, d.path, d.method, K)
      /\ d.of # 0
  BY <1>1 DEF DescsInv, DescsOk, RouterInv, RoutingTypes
<1>3. d.of \in HitsIn(l, d.path, d.method, K)
  BY <1>2, LatestIsHit
<1> QED
  BY <1>1, <1>3 DEF HitsIn

LEMMA ParametersUnique ==
  ASSUME OpenApiInv
  PROVE  Routing!UniqueParameters
<1>1. SUFFICES ASSUME NEW d \in descriptors,
                      NEW a \in Routing!Operation(d).query,
                      NEW b \in Routing!Operation(d).query, a.name = b.name
               PROVE  a = b
  BY DEF Routing!UniqueParameters
<1>2. PICK s : s = declared[d.of]
  OBVIOUS
<1>3. PICK Q : Q = {i \in DOMAIN s : s[i].in = "query"}
  OBVIOUS
<1>4. Routing!Operation(d).query =
        {[at |-> i, name |-> s[i].name,
          required |-> Routing!Required(s[i])] : i \in Q}
  BY <1>2, <1>3 DEF Routing!Operation
<1>5. PICK i \in Q :
        a = [at |-> i, name |-> s[i].name,
             required |-> Routing!Required(s[i])]
  BY <1>4
<1>6. PICK j \in Q :
        b = [at |-> j, name |-> s[j].name,
             required |-> Routing!Required(s[j])]
  BY <1>1, <1>4
<1>7. d.of \in DOMAIN log
  BY DescribedRegistered DEF OpenApiInv
<1>8. ~Routing!Duplicate(s)
  BY <1>2, <1>7 DEF OpenApiInv, DeclaredOk, Routing!Accepts
<1>9. s \in Routing!Signatures \cup {<<>>}
  <2>1. PICK R : R = Routing!Signatures \cup {<<>>}
    OBVIOUS
  <2>2. declared \in Seq(R) /\ d.of \in DOMAIN declared
    <3>1. log \in Seq(Regs)
      BY DEF OpenApiInv, DescsInv, RouterInv, RoutingTypes
    <3> QED
      BY <1>7, <2>1, <3>1 DEF OpenApiInv, DeclaredOk
  <2> QED
    BY <1>2, <2>1, <2>2, ElementsOf
<1>10. i \in Nat /\ j \in Nat /\ i \in DOMAIN s /\ j \in DOMAIN s
  BY <1>3, <1>9, DeclaredPositions
<1>11. s[i].in = s[j].in /\ s[i].name = s[j].name
  BY <1>1, <1>3, <1>5, <1>6
<1>12. i = j
  <2>1. ~(i < j) /\ ~(j < i)
    BY <1>8, <1>10, <1>11 DEF Routing!Duplicate
  <2> QED
    BY <1>10, <2>1
<1> QED
  BY <1>5, <1>6, <1>12

(* The kinds of the routes that were registered. *)
KindsIn(K) == \A i \in DOMAIN log : log[i].kind \in K

LEMMA KindsRegister ==
  ASSUME RouterInv, NEW p \in Seq(STRING), NEW m \in Methods,
         NEW kind \in Routing!Kinds, NEW doc,
         Routing!Register(p, m, kind, doc), NEW K, kind \in K, KindsIn(K)
  PROVE  KindsIn(K)'
<1>1. PICK r \in Regs : r.kind = kind /\ log' = Append(log, r)
  BY RouterRegisters
<1>2. log \in Seq(Regs)
  BY DEF RouterInv, RoutingTypes
<1>3. PICK n \in Nat : n = Len(log) /\ DOMAIN log = 1..n
  BY <1>2
<1>4. PICK l2 : /\ l2 = log' /\ DOMAIN l2 = 1..(n + 1) /\ l2[n + 1] = r
                /\ \A i \in 1..n : l2[i] = log[i]
  BY <1>1, <1>2, <1>3
<1>5. ASSUME NEW i \in 1..(n + 1)
      PROVE  l2[i].kind \in K
  <2>1. CASE i = n + 1
    BY <1>1, <1>4, <2>1
  <2>2. CASE i # n + 1
    <3>1. i \in 1..n
      BY <2>2
    <3> QED
      BY <1>3, <1>4, <3>1 DEF KindsIn
  <2> QED
    BY <2>1, <2>2
<1> QED
  BY <1>3, <1>4, <1>5 DEF KindsIn

LEMMA KindsStep ==
  ASSUME OpenApiAssumptions, OpenApiInv, NEW K, "sync" \in K, "hidden" \in K,
         PlainKinds \subseteq K, KindsIn(K),
         [Routing!OpenApiNext]_(Routing!openApiVars)
  PROVE  KindsIn(K)'
<1>1. /\ RouterInv /\ Patterns \subseteq Seq(STRING) /\ GET \in Methods
      /\ DocPaths \subseteq Seq(STRING) /\ PlainKinds \subseteq Routing!Kinds
      /\ "sync" \in Routing!Kinds /\ "hidden" \in Routing!Kinds
  BY DEF OpenApiInv, DescsInv, OpenApiAssumptions, Routing!RouterAssumption,
       Routing!OpenApiAssumption, Routing!Kinds
<1>2. ASSUME NEW p \in Seq(STRING), NEW m \in Methods,
             NEW kind \in Routing!Kinds, NEW doc, kind \in K,
             Routing!Register(p, m, kind, doc)
      PROVE  KindsIn(K)'
  BY <1>1, <1>2, KindsRegister
<1>3. ASSUME NEW p \in Seq(STRING), Routing!Register(p, GET, "hidden", Routing!NoDoc)
      PROVE  KindsIn(K)'
  <2>1. PICK kind \in Routing!Kinds : kind = "hidden"
    BY <1>1
  <2>2. PICK doc : doc = Routing!NoDoc
    OBVIOUS
  <2>3. Routing!Register(p, GET, kind, doc) /\ kind \in K
    BY <1>3, <2>1, <2>2, Zenon
  <2> QED
    BY <1>1, <1>2, <2>3
<1>4. CASE UNCHANGED Routing!openApiVars
  BY <1>4 DEF KindsIn, Routing!openApiVars, Routing!typedVars, Routing!vars
<1>5. ASSUME NEW p \in Patterns, NEW m \in Methods, NEW doc \in GivenDocs,
             NEW s, Routing!RegisterTyped(p, m, s, doc)
      PROVE  KindsIn(K)'
  <2>1. PICK kind \in Routing!Kinds : kind = "sync"
    BY <1>1
  <2>2. Routing!Register(p, m, kind, doc) /\ kind \in K
    BY <1>5, <2>1, Zenon DEF Routing!RegisterTyped
  <2> QED
    BY <1>1, <1>2, <2>2
<1>6. ASSUME NEW p \in Patterns, NEW m \in Methods, NEW doc \in GivenDocs,
             NEW kind \in PlainKinds, Routing!RegisterPlain(p, m, kind, doc)
      PROVE  KindsIn(K)'
  BY <1>1, <1>2, <1>6 DEF Routing!RegisterPlain
<1>7. ASSUME NEW b, Routing!SetBasePath(b)
      PROVE  KindsIn(K)'
  BY <1>7 DEF Routing!SetBasePath, KindsIn
<1>8. ASSUME NEW p, NEW m, NEW doc, Routing!DocumentRoute(p, m, doc)
      PROVE  KindsIn(K)'
  BY <1>8 DEF Routing!DocumentRoute, KindsIn
<1>9. ASSUME NEW spec \in DocPaths, NEW site, Routing!InstallSpec(spec, site)
      PROVE  KindsIn(K)'
  BY <1>1, <1>3, <1>9 DEF Routing!InstallSpec, Routing!RegisterPlain
<1>10. CASE Routing!InstallDocs
  <2>1. installing.docs \in Seq(STRING)
    BY <1>1, <1>10 DEF Routing!InstallDocs, OpenApiInv, InstallOk
  <2> QED
    BY <1>3, <1>10, <2>1 DEF Routing!InstallDocs, Routing!RegisterPlain
<1> QED
  BY <1>4, <1>5, <1>6, <1>7, <1>9, <1>10, <1>8
     DEF Routing!OpenApiNext, Routing!TypedNext, Routing!Registration,
         GivenDocs

(* Names tell the parameters apart, and so documented paths the paths. *)
LEMMA DocumentPathInjective ==
  ASSUME \A x, y \in Params : NameOf[x] = NameOf[y] => x = y,
         NEW p \in Seq(STRING), NEW q \in Seq(STRING),
         Routing!DocumentPath(p) = Routing!DocumentPath(q)
  PROVE  p = q
<1>1. DOMAIN p = DOMAIN q
  BY DEF Routing!DocumentPath
<1>2. ASSUME NEW i \in DOMAIN p
      PROVE  p[i] = q[i]
  <2>1. PICK f, g : f = Routing!DocumentPath(p)[i]
                      /\ g = Routing!DocumentPath(q)[i]
    OBVIOUS
  <2>2. f = g
    BY <2>1
  <2>3. /\ p[i] \in Params => f = [param |-> TRUE, text |-> NameOf[p[i]]]
        /\ p[i] \notin Params => f = [param |-> FALSE, text |-> p[i]]
    BY <2>1 DEF Routing!DocumentPath
  <2>4. /\ q[i] \in Params => g = [param |-> TRUE, text |-> NameOf[q[i]]]
        /\ q[i] \notin Params => g = [param |-> FALSE, text |-> q[i]]
    BY <1>1, <2>1 DEF Routing!DocumentPath
  <2> QED
    BY <2>2, <2>3, <2>4
<1> QED
  BY <1>1, <1>2

(* The groups of a name in a path, and the last one, which is read. *)
LEMMA LastGroup ==
  ASSUME NEW p \in Seq(STRING), NEW n \in Routing!NamesIn(p)
  PROVE  /\ Routing!GroupsOf(n, p) \in SUBSET Nat
         /\ Routing!LastOf(Routing!GroupsOf(n, p)) \in Routing!GroupsOf(n, p)
<1>1. PICK k \in Nat : k = Len(p) /\ DOMAIN p = 1..k
  OBVIOUS
<1>2. PICK G : G = Routing!GroupsOf(n, p)
  OBVIOUS
<1>3. G \in SUBSET (1..k)
  BY <1>1, <1>2 DEF Routing!GroupsOf, Routing!ParamAt
<1>4. G # {}
  BY <1>2 DEF Routing!GroupsOf, Routing!NamesIn
<1>5. Routing!LastOf(G) \in G
  BY <1>3, <1>4, LastIsGreatest
<1> QED
  BY <1>2, <1>3, <1>5

(* The name of a descriptor that has none. *)
NoName == ""

(* What is read for one descriptor, by its place. *)
ReadsPlace(d, p, v) ==
  /\ d.in = "path" =>
       Routing!Read(d, p, v)
         = v.path[Routing!LastOf(Routing!GroupsOf(d.name, p))]
  /\ d.in = "body" =>
       (Routing!Read(d, p, v) = "good" <=> "handler" \in v.body)
  /\ d.in = "query" =>
       (Routing!Read(d, p, v) = "good"
          <=> /\ v.query[d.name] # "bad"
              /\ d.use = "required" => v.query[d.name] # "absent")
  /\ d.in \in {"path", "query", "body"}

(* The text of a request is good for a descriptor that has a name as far as *)
(* its own place says.                                                      *)
LEMMA ReadOf ==
  ASSUME NEW d \in Routing!Descriptors, NEW p, NEW v, d.name # NoName,
         d.in = "path" => d.name \in Routing!NamesIn(p),
         v.query \in [QueryNames \ {NoName} -> {"absent", "good", "bad"}]
  PROVE  ReadsPlace(d, p, v)
<1>1. d.in \in {"path", "query", "body"}
  BY DEF Routing!Descriptors
<1>2. d.in = "path" =>
        Routing!Read(d, p, v)
          = v.path[Routing!LastOf(Routing!GroupsOf(d.name, p))]
  BY DEF Routing!Read
<1>3. d.in = "body" =>
        (Routing!Read(d, p, v) = "good" <=> "handler" \in v.body)
  BY DEF Routing!Read
<1>4. ASSUME d.in = "query"
      PROVE  Routing!Read(d, p, v) = "good"
               <=> /\ v.query[d.name] # "bad"
                   /\ d.use = "required" => v.query[d.name] # "absent"
  <2>1. PICK x : x = v.query[d.name]
    OBVIOUS
  <2>2. x \in {"absent", "good", "bad"}
    <3>1. d.name \in QueryNames \ {NoName}
      BY <1>4 DEF Routing!Descriptors
    <3> QED
      BY <2>1, <3>1
  <2>3. Routing!Read(d, p, v) =
          IF x = "absent" THEN IF d.use = "required" THEN "missing" ELSE "good"
          ELSE x
    BY <1>4, <2>1 DEF Routing!Read
  <2> QED
    BY <2>1, <2>2, <2>3
<1> QED
  BY <1>1, <1>2, <1>3, <1>4 DEF ReadsPlace

(* Every group of the path that is read is good for its type. *)
PathGood(s, p, v) ==
  \A i \in DOMAIN s : s[i].in = "path" =>
    v.path[Routing!LastOf(Routing!GroupsOf(s[i].name, p))] = "good"

(* The parameters that make_operation lists for a path. *)
PathOf(s, p) ==
  {[at |-> i, name |-> NameOf[p[i]],
    typed |-> NameOf[p[i]] \in
                {s[k].name : k \in {j \in DOMAIN s : s[j].in = "path"}}] :
     i \in Routing!ParamAt(p)}

(* The parameters of an operation's path: one for each group, of which the  *)
(* last one with its name is read.                                          *)
LEMMA PathReads ==
  ASSUME NEW d, NEW s, s = declared[d.of], NEW p \in Seq(STRING), p = d.path,
         NEW v, NEW op, op = Routing!Operation(d),
         \A i \in DOMAIN s :
           s[i].in = "path" => s[i].name \in Routing!NamesIn(p)
  PROVE  /\ (\A n \in op.path : n.typed => v.path[n.at] = "good")
              => PathGood(s, p, v)
         /\ PathGood(s, p, v)
              => \A n \in op.path :
                   n.typed /\ (\A k \in op.path :
                                 k.name = n.name => k.at <= n.at)
                     => v.path[n.at] = "good"
<1>1. PICK T : T = {s[i].name : i \in {j \in DOMAIN s : s[j].in = "path"}}
  OBVIOUS
<1>2. PICK P : P = Routing!ParamAt(p)
  OBVIOUS
<1>3. op.path = {[at |-> i, name |-> NameOf[p[i]],
                  typed |-> NameOf[p[i]] \in T] : i \in P}
  <2>1. Routing!Operation(d).path = PathOf(declared[d.of], d.path)
    BY DEF Routing!Operation, PathOf
  <2>2. op.path = PathOf(s, p)
    BY <2>1
  <2> QED
    BY <1>1, <1>2, <2>2 DEF PathOf
<1>4. ASSUME NEW i \in P
      PROVE  \E r \in op.path : /\ r.at = i /\ r.name = NameOf[p[i]]
                                /\ r.typed <=> NameOf[p[i]] \in T
  <2>1. PICK r : r = [at |-> i, name |-> NameOf[p[i]],
                      typed |-> NameOf[p[i]] \in T]
    OBVIOUS
  <2>2. r \in op.path
    BY <1>3, <2>1, Zenon
  <2>3. /\ r.at = i /\ r.name = NameOf[p[i]]
        /\ r.typed <=> NameOf[p[i]] \in T
    BY <2>1
  <2> QED
    BY <2>2, <2>3
<1>5. ASSUME NEW r \in op.path
      PROVE  \E i \in P : /\ r.at = i /\ r.name = NameOf[p[i]]
                          /\ r.typed <=> NameOf[p[i]] \in T
  <2>1. PICK i \in P : r = [at |-> i, name |-> NameOf[p[i]],
                            typed |-> NameOf[p[i]] \in T]
    BY <1>3, <1>5, Zenon
  <2> QED
    BY <2>1
<1>6. \A n, i : i \in Routing!GroupsOf(n, p) <=> i \in P /\ NameOf[p[i]] = n
  BY <1>2 DEF Routing!GroupsOf
<1>7. ASSUME \A n \in op.path : n.typed => v.path[n.at] = "good",
             NEW i \in DOMAIN s, s[i].in = "path"
      PROVE  v.path[Routing!LastOf(Routing!GroupsOf(s[i].name, p))] = "good"
  <2>1. PICK n : n = s[i].name
    OBVIOUS
  <2>2. n \in Routing!NamesIn(p) /\ n \in T
    BY <1>1, <1>7, <2>1
  <2>3. PICK k : k = Routing!LastOf(Routing!GroupsOf(n, p))
    OBVIOUS
  <2>4. k \in P /\ NameOf[p[k]] = n
    BY <1>6, <2>2, <2>3, LastGroup
  <2>5. PICK r \in op.path : r.at = k /\ (r.typed <=> NameOf[p[k]] \in T)
    BY <1>4, <2>4
  <2> QED
    BY <1>7, <2>1, <2>2, <2>3, <2>4, <2>5
<1>8. ASSUME PathGood(s, p, v), NEW n \in op.path, n.typed,
             \A k \in op.path : k.name = n.name => k.at <= n.at
      PROVE  v.path[n.at] = "good"
  <2>1. PICK i \in P : /\ n.at = i /\ n.name = NameOf[p[i]]
                       /\ n.typed <=> NameOf[p[i]] \in T
    BY <1>5, <1>8
  <2>2. PICK j \in DOMAIN s : s[j].in = "path" /\ n.name = s[j].name
    BY <1>1, <1>8, <2>1
  <2>3. PICK G : G = Routing!GroupsOf(n.name, p)
    OBVIOUS
  <2>4. i \in G
    BY <1>6, <2>1, <2>3
  <2>5. ASSUME NEW k \in G
        PROVE  k <= i
    <3>1. k \in P /\ NameOf[p[k]] = n.name
      BY <1>6, <2>3, <2>5
    <3>2. PICK r \in op.path : r.at = k /\ r.name = NameOf[p[k]]
      BY <1>4, <3>1
    <3> QED
      BY <1>8, <2>1, <3>1, <3>2
  <2>6. n.name \in Routing!NamesIn(p)
    BY <2>2
  <2>7. G \in SUBSET Nat
    BY <2>3, <2>6, LastGroup
  <2>8. Routing!LastOf(G) = i
    BY <2>4, <2>5, <2>7, LastIs
  <2> QED
    BY <1>8, <2>1, <2>2, <2>3, <2>8 DEF PathGood
<1> QED
  BY <1>7, <1>8 DEF PathGood

(* The parameters of an operation's query are those that are read. *)
LEMMA QueryReads ==
  ASSUME NEW d, NEW s, s = declared[d.of], NEW v,
         NEW op, op = Routing!Operation(d)
  PROVE  Routing!QueryAllowed(op, v)
           <=> \A i \in DOMAIN s : s[i].in = "query" =>
                 /\ v.query[s[i].name] # "bad"
                 /\ s[i].use = "required" => v.query[s[i].name] # "absent"
<1>1. PICK Q : Q = {j \in DOMAIN s : s[j].in = "query"}
  OBVIOUS
<1>2. op.query = {[at |-> i, name |-> s[i].name,
                   required |-> Routing!Required(s[i])] : i \in Q}
  BY <1>1 DEF Routing!Operation
<1>3. ASSUME NEW i \in Q
      PROVE  \E r \in op.query :
               r.name = s[i].name /\ (r.required <=> s[i].use = "required")
  <2>1. PICK r : r = [at |-> i, name |-> s[i].name,
                      required |-> Routing!Required(s[i])]
    OBVIOUS
  <2>2. r \in op.query
    BY <1>2, <2>1, Zenon
  <2>3. r.name = s[i].name /\ (r.required <=> s[i].use = "required")
    BY <2>1 DEF Routing!Required
  <2> QED
    BY <2>2, <2>3
<1>4. ASSUME NEW r \in op.query
      PROVE  \E i \in Q :
               r.name = s[i].name /\ (r.required <=> s[i].use = "required")
  <2>1. PICK i \in Q : r = [at |-> i, name |-> s[i].name,
                            required |-> Routing!Required(s[i])]
    BY <1>2, <1>4, Zenon
  <2> QED
    BY <2>1 DEF Routing!Required
<1>5. ASSUME \A n \in op.query :
               /\ v.query[n.name] # "bad"
               /\ n.required => v.query[n.name] # "absent",
             NEW i \in Q
      PROVE  /\ v.query[s[i].name] # "bad"
             /\ s[i].use = "required" => v.query[s[i].name] # "absent"
  BY <1>3, <1>5
<1>6. ASSUME \A i \in Q :
               /\ v.query[s[i].name] # "bad"
               /\ s[i].use = "required" => v.query[s[i].name] # "absent",
             NEW r \in op.query
      PROVE  /\ v.query[r.name] # "bad"
             /\ r.required => v.query[r.name] # "absent"
  BY <1>4, <1>6
<1>7. Routing!QueryAllowed(op, v) <=>
        \A n \in op.query : /\ v.query[n.name] # "bad"
                            /\ n.required => v.query[n.name] # "absent"
  BY Zenon DEF Routing!QueryAllowed
<1> QED
  BY <1>1, <1>5, <1>6, <1>7

(* The body that an operation asks for. *)
LEMMA BodyOf ==
  ASSUME NEW d, NEW s, s = declared[d.of], NEW op, op = Routing!Operation(d)
  PROVE  /\ op.body = "handler" => \E i \in DOMAIN s : s[i].in = "body"
         /\ op.body # "documented" /\ (\E i \in DOMAIN s : s[i].in = "body")
              => op.body = "handler"
<1>1. op.body = IF d.schema THEN "documented"
                ELSE IF \E i \in DOMAIN s : s[i].in = "body" THEN "handler"
                ELSE "none"
  BY DEF Routing!Operation
<1>2. CASE d.schema
  BY <1>1, <1>2
<1>3. CASE ~d.schema
  BY <1>1, <1>3
<1> QED
  BY <1>2, <1>3

(* What a handler reads of a request that its operation allows, and what    *)
(* the operation says of a request of which the handler reads nothing wrong.*)
Agree(s, p, op, v) ==
  /\ Routing!Conforms(op, v) =>
       \A i \in DOMAIN s :
         s[i].in # "body" => Routing!Read(s[i], p, v) = "good"
  /\ Routing!Conforms(op, v) /\ op.body # "documented" =>
       \A i \in DOMAIN s : Routing!Read(s[i], p, v) = "good"
  /\ (\A i \in DOMAIN s : Routing!Read(s[i], p, v) = "good")
       => Routing!Checked(op, v)

(* A descriptor's operation and its handler agree on every request. *)
LEMMA ConformsReads ==
  ASSUME NEW d, NEW s \in Routing!Signatures \cup {<<>>}, s = declared[d.of],
         NEW p \in Seq(STRING), p = d.path,
         NEW op, op = Routing!Operation(d), NEW v \in Routing!Values(op),
         \A i \in DOMAIN s :
           /\ s[i].name # NoName
           /\ s[i].in = "path" => s[i].name \in Routing!NamesIn(p)
  PROVE  Agree(s, p, op, v)
<1>1. ASSUME NEW i \in DOMAIN s
      PROVE  ReadsPlace(s[i], p, v)
  <2>1. s[i] \in Routing!Descriptors
    BY <1>1, DeclaredPositions
  <2>2. v.query \in [QueryNames \ {NoName} -> {"absent", "good", "bad"}]
    <3>1. v \in [path : [{n.at : n \in op.path} -> {"good", "bad"}],
                query : [QueryNames \ {NoName} -> {"absent", "good", "bad"}],
                headers : SUBSET {n.name : n \in op.header},
                body : SUBSET {"handler", "documented"}]
      BY Zenon DEF Routing!Values, NoName
    <3> QED
      BY <3>1
  <2>3. /\ s[i].name # NoName
        /\ s[i].in = "path" => s[i].name \in Routing!NamesIn(p)
    BY <1>1
  <2>4. PICK x \in Routing!Descriptors : x = s[i]
    BY <2>1
  <2> QED
    BY <2>2, <2>3, <2>4, ReadOf
<1>2. Routing!Conforms(op, v) =>
        /\ \A n \in op.path : n.typed => v.path[n.at] = "good"
        /\ Routing!QueryAllowed(op, v)
        /\ op.body # "none" => op.body \in v.body
  BY Zenon DEF Routing!Conforms
<1>3. ASSUME Routing!Conforms(op, v), NEW i \in DOMAIN s, s[i].in # "body"
      PROVE  Routing!Read(s[i], p, v) = "good"
  <2>1. CASE s[i].in = "path"
    <3>1. PathGood(s, p, v)
      BY <1>2, <1>3, PathReads
    <3> QED
      BY <1>1, <2>1, <3>1 DEF PathGood, ReadsPlace
  <2>2. CASE s[i].in = "query"
    <3>1. /\ v.query[s[i].name] # "bad"
          /\ s[i].use = "required" => v.query[s[i].name] # "absent"
      BY <1>2, <1>3, <2>2, QueryReads
    <3> QED
      BY <1>1, <2>2, <3>1 DEF ReadsPlace
  <2> QED
    BY <1>1, <1>3, <2>1, <2>2 DEF ReadsPlace
<1>4. ASSUME Routing!Conforms(op, v), op.body # "documented",
             NEW i \in DOMAIN s, s[i].in = "body"
      PROVE  Routing!Read(s[i], p, v) = "good"
  <2>1. op.body = "handler"
    BY <1>4, BodyOf
  <2>2. "handler" \in v.body
    BY <1>2, <1>4, <2>1
  <2> QED
    BY <1>1, <1>4, <2>2 DEF ReadsPlace
<1>5. ASSUME \A i \in DOMAIN s : Routing!Read(s[i], p, v) = "good"
      PROVE  Routing!Checked(op, v)
  <2>1. \A n \in op.path :
          n.typed /\ (\A k \in op.path : k.name = n.name => k.at <= n.at)
            => v.path[n.at] = "good"
    <3>1. PathGood(s, p, v)
      BY <1>1, <1>5 DEF PathGood, ReadsPlace
    <3> QED
      BY <3>1, PathReads
  <2>2. Routing!QueryAllowed(op, v)
    <3>1. \A i \in DOMAIN s : s[i].in = "query" =>
            /\ v.query[s[i].name] # "bad"
            /\ s[i].use = "required" => v.query[s[i].name] # "absent"
      BY <1>1, <1>5 DEF ReadsPlace
    <3> QED
      BY <3>1, QueryReads
  <2>3. op.body = "handler" => "handler" \in v.body
    BY <1>1, <1>5, BodyOf DEF ReadsPlace
  <2> QED
    BY <2>1, <2>2, <2>3, Zenon DEF Routing!Checked
<1> QED
  BY <1>3, <1>4, <1>5 DEF Agree

(* The outcomes of a request. *)
LEMMA OutcomesOf ==
  ASSUME NEW s, NEW p, NEW v
  PROVE  /\ (\A i \in DOMAIN s : Routing!Read(s[i], p, v) = "good")
              => Routing!Outcomes(s, p, v) = {"called"}
         /\ (\A i \in DOMAIN s :
               s[i].in # "body" => Routing!Read(s[i], p, v) = "good")
              => "invalidParameter" \notin Routing!Outcomes(s, p, v)
         /\ ~(\A i \in DOMAIN s : Routing!Read(s[i], p, v) = "good")
              => "called" \notin Routing!Outcomes(s, p, v)
<1>1. PICK W : W = {i \in DOMAIN s : Routing!Read(s[i], p, v) # "good"}
  OBVIOUS
<1>2. /\ W = {} => Routing!Outcomes(s, p, v) = {"called"}
      /\ W # {} => Routing!Outcomes(s, p, v) =
           {IF s[i].in = "body" THEN "invalidBody" ELSE "invalidParameter" :
              i \in W}
  BY <1>1 DEF Routing!Outcomes
<1> QED
  BY <1>1, <1>2

(* A descriptor has a place in the list of descriptors. *)
LEMMA PlaceIsNumber ==
  ASSUME DescsInv, NEW d \in descriptors
  PROVE  Routing!Place(d) \in Nat
<1>1. PICK A : A = {i \in DOMAIN log : log[i].path = d.path
                                         /\ log[i].method = d.method}
  OBVIOUS
<1>2. PICK B : B = {i \in A : log[i].kind = "hidden"}
  OBVIOUS
<1>3. PICK C : C = {i \in A : \A j \in B : j < i}
  OBVIOUS
<1>4. Routing!Place(d) = Routing!FirstOf(C)
  BY <1>1, <1>2, <1>3 DEF Routing!Place
<1>5. log \in Seq(Regs)
  BY DEF DescsInv, RouterInv, RoutingTypes
<1>6. A \in SUBSET Nat /\ C \in SUBSET Nat
  BY <1>1, <1>3, <1>5
<1>7. PICK K, n : K = Routing!Kinds /\ n = d.of
  OBVIOUS
<1>8. /\ n = LatestIn(log, d.path, d.method, K) /\ n # 0
      /\ log[n].kind # "hidden"
  BY <1>7 DEF DescsInv, DescsOk
<1>9. /\ n \in HitsIn(log, d.path, d.method, K)
      /\ \A j \in HitsIn(log, d.path, d.method, K) : j <= n
  BY <1>5, <1>8, LatestIsHit
<1>10. n \in A
  BY <1>1, <1>9 DEF HitsIn, IsOf
<1>11. ASSUME NEW j \in B
       PROVE  j < n
  <2>1. j \in A /\ j # n /\ j \in Nat /\ n \in Nat
    BY <1>2, <1>6, <1>8, <1>10, <1>11
  <2>2. log[j] \in Regs
    BY <1>1, <1>5, <2>1
  <2>3. log[j].kind \in K
    BY <1>7, <2>2 DEF Regs
  <2>4. j \in HitsIn(log, d.path, d.method, K)
    BY <1>1, <2>1, <2>3 DEF HitsIn, IsOf
  <2>5. j <= n
    BY <1>9, <2>4
  <2> QED
    BY <2>1, <2>5
<1>12. n \in C
  BY <1>3, <1>10, <1>11
<1> QED
  BY <1>4, <1>6, <1>12, FirstIsLeast

(* If names tell parameters apart, a documented path and method is one      *)
(* descriptor's, and the operation that is documented is made of it.        *)
LEMMA OperationIs ==
  ASSUME DescsInv, NEW p \in Seq(STRING), NEW m,
         \A x, y \in Params : NameOf[x] = NameOf[y] => x = y,
         Routing!Described(p, m) # {}
  PROVE  \E d \in descriptors :
           /\ d.path = p /\ d.method = m
           /\ Routing!OperationOf(p, m) = Routing!Operation(d)
<1>1. ASSUME NEW d \in Routing!Described(p, m)
      PROVE  d \in descriptors /\ d.path = p /\ d.method = m
  <2>1. /\ d \in descriptors /\ d.method = m
        /\ Routing!DocumentPath(d.path) = Routing!DocumentPath(p)
    BY <1>1 DEF Routing!Described
  <2>2. d.path \in Seq(STRING)
    BY <2>1 DEF DescsInv, DescsOk, Descriptors
  <2>3. PICK q \in Seq(STRING) : q = d.path
    BY <2>2
  <2>4. q = p
    BY <2>1, <2>3, DocumentPathInjective
  <2> QED
    BY <2>1, <2>3, <2>4
<1>2. \A d, e \in Routing!Described(p, m) : d = e
  BY <1>1 DEF DescsInv, DescsOk, SameRoute
<1>3. PICK d \in Routing!Described(p, m) : TRUE
  OBVIOUS
<1>4. Routing!Place(d) \in Nat
  BY <1>1, PlaceIsNumber
<1>5. \A e \in Routing!Described(p, m) : Routing!Place(e) <= Routing!Place(d)
  <2>1. TAKE e \in Routing!Described(p, m)
  <2>2. e = d
    BY <1>2
  <2>3. PICK k \in Nat : k = Routing!Place(d)
    BY <1>4
  <2> QED
    BY <2>2, <2>3
<1>6. d = CHOOSE x \in Routing!Described(p, m) :
            \A e \in Routing!Described(p, m) :
              Routing!Place(e) <= Routing!Place(x)
  BY <1>2, <1>5
<1>7. Routing!OperationOf(p, m) = Routing!Operation(d)
  BY <1>6, Zenon DEF Routing!OperationOf
<1> QED
  BY <1>1, <1>7

(* The registrations of every kind, where all are synchronous or hidden. *)
LEMMA LatestOfAll ==
  ASSUME KindsIn({"sync", "hidden"}), NEW q, NEW m
  PROVE  LatestIn(log, q, m, Routing!Kinds)
           = LatestIn(log, q, m, {"sync", "hidden"})
<1>1. PICK S, K : S = {"sync", "hidden"} /\ K = Routing!Kinds
  OBVIOUS
<1>2. S \subseteq K
  BY <1>1 DEF Routing!Kinds
<1>3. HitsIn(log, q, m, K) = HitsIn(log, q, m, S)
  BY <1>1, <1>2 DEF HitsIn, IsOf, KindsIn
<1>4. LatestIn(log, q, m, K) = LatestIn(log, q, m, S)
  BY <1>3 DEF LatestIn
<1> QED
  BY <1>1, <1>4

(* What DocumentHonest says of one request and its outcomes. *)
Told(op, out, v) ==
  /\ Routing!Conforms(op, v) => /\ "invalidParameter" \notin out
                                /\ op.body # "documented" => out = {"called"}
  /\ "called" \in out => Routing!Checked(op, v)

LEMMA DocumentTrue ==
  ASSUME OpenApiAssumptions, OpenApiInv, KindsIn({"sync", "hidden"}),
         \A x, y \in Params : NameOf[x] = NameOf[y] => x = y
  PROVE  Routing!DocumentHonest
<1>1. SUFFICES
        ASSUME NEW t \in Paths, NEW m \in Routing!Requests,
               Routing!Serve(t, m).kind = "sync",
               Routing!Described(routes[Routing!Serve(t, m).entry].path,
                                 IF m = HEAD THEN GET ELSE m) # {},
               NEW v \in Routing!Values(
                          Routing!OperationOf(
                            routes[Routing!Serve(t, m).entry].path,
                            IF m = HEAD THEN GET ELSE m))
        PROVE  Told(Routing!OperationOf(
                      routes[Routing!Serve(t, m).entry].path,
                      IF m = HEAD THEN GET ELSE m),
                    Routing!Outcomes(
                      declared[Routing!Serve(t, m).handler],
                      routes[Routing!Serve(t, m).entry].path, v), v)
  BY Zenon DEF Routing!DocumentHonest, Told
<1>2. PICK h, e, verb, p, op, out :
        /\ h = Routing!Serve(t, m).handler /\ e = Routing!Serve(t, m).entry
        /\ verb = IF m = HEAD THEN GET ELSE m
        /\ p = routes[e].path /\ op = Routing!OperationOf(p, verb)
        /\ out = Routing!Outcomes(declared[h], p, v)
  OBVIOUS
<1>3. Routing!Described(p, verb) # {} /\ v \in Routing!Values(op)
  BY <1>1, <1>2
<1>4. /\ RouterInv /\ DescsInv /\ Routing!RouterAssumption
      /\ DeclaredOk(declared, log) /\ log \in Seq(Regs)
  BY DEF OpenApiInv, DescsInv, RouterInv, RoutingTypes, OpenApiAssumptions
<1>5. PICK S : S = {"sync", "hidden"}
  OBVIOUS
<1>6. /\ e \in DOMAIN routes /\ h \in DOMAIN log
      /\ h = LatestIn(log, p, verb, S) /\ IsOf(log[h], p, verb, S)
  BY <1>1, <1>2, <1>4, <1>5, SyncServed
<1>7. p \in Seq(STRING)
  <2>1. routes \in Seq(Entries)
    BY <1>4 DEF RouterInv, EntriesOk
  <2>2. routes[e] \in Entries
    BY <1>6, <2>1, ElementsOf
  <2> QED
    BY <1>2, <2>2 DEF Entries
<1>8. PICK d \in descriptors :
        /\ d.path = p /\ d.method = verb
        /\ Routing!OperationOf(p, verb) = Routing!Operation(d)
  BY <1>4, <1>7, <1>3, OperationIs
<1>9. d.of = h
  <2>1. d.of = LatestIn(log, d.path, d.method, Routing!Kinds)
    BY <1>4 DEF DescsInv, DescsOk
  <2>2. LatestIn(log, p, verb, Routing!Kinds) = LatestIn(log, p, verb, S)
    BY <1>5, LatestOfAll
  <2> QED
    BY <1>6, <1>8, <2>1, <2>2
<1>10. PICK s : s = declared[h]
  OBVIOUS
<1>11. s \in Routing!Signatures \cup {<<>>}
  <2>1. PICK R : R = Routing!Signatures \cup {<<>>}
    OBVIOUS
  <2>2. declared \in Seq(R) /\ h \in DOMAIN declared
    BY <1>4, <1>6, <2>1 DEF DeclaredOk
  <2> QED
    BY <1>10, <2>1, <2>2, ElementsOf
<1>12. ASSUME NEW i \in DOMAIN s
       PROVE  /\ s[i].name # NoName
              /\ s[i].in = "path" => s[i].name \in Routing!NamesIn(p)
  <2>1. /\ Routing!Accepts(log[h].pattern, s) /\ log[h].path = p
        /\ Routing!NamesIn(log[h].pattern)
             \subseteq Routing!NamesIn(log[h].path)
    BY <1>4, <1>6, <1>10 DEF DeclaredOk, IsOf
  <2> QED
    BY <1>12, <2>1, Zenon DEF Routing!Accepts, Routing!InTemplate, NoName
<1>13. Agree(s, p, op, v)
  <2>1. s = declared[d.of] /\ p = d.path /\ op = Routing!Operation(d)
    BY <1>2, <1>8, <1>9, <1>10
  <2> QED
    BY <1>7, <1>11, <1>12, <1>3, <2>1, ConformsReads
<1>14. out = Routing!Outcomes(s, p, v)
  BY <1>2, <1>10
<1> QED
  <2>1. Told(op, out, v)
    BY <1>13, <1>14, OutcomesOf DEF Told, Agree
  <2> QED
    BY <1>2, <2>1

(* A path without parameters comes before every other pattern it matches:   *)
(* the literal segments of the pattern are also the path's.                 *)
LEMMA LiteralPathFirst ==
  ASSUME NEW s \in Seq(STRING), NEW q \in Seq(STRING),
         Routing!ParamAt(s) = {}, Routing!Matches(q, s), q # s
  PROVE  Routing!Before(s, q)
<1>1. PICK n \in Nat, m \in Nat :
        n = Len(q) /\ m = Len(s) /\ DOMAIN q = 1..n /\ DOMAIN s = 1..m
  OBVIOUS
<1>2. PICK P : P = Routing!ParamAt(q)
  OBVIOUS
<1>3. P # {} /\ P \in SUBSET (1..n)
  BY <1>1, <1>2 DEF Routing!Matches, Routing!ParamAt
<1>4. PICK k \in Nat : k = Routing!LastOf(P) /\ k \in P
  <2>1. Routing!LastOf(P) \in P
    BY <1>3, LastIsGreatest
  <2>2. \A i \in 1..n : i \in Nat
    BY <1>1
  <2> QED
    BY <1>3, <2>1, <2>2
<1>5. 1 <= k /\ k <= n /\ q[k] \in Params
  <2>1. k \in P
    BY <1>4
  <2> QED
    BY <1>2, <1>3, <2>1 DEF Routing!ParamAt
<1>6. PICK x \in Int : x = m - n
  OBVIOUS
<1>7. /\ x >= 0
      /\ \A i \in 1..(k - 1) : q[i] \notin Params => s[i] = q[i]
      /\ \A i \in (k + 1)..n : s[i + x] = q[i]
  <2>1. Routing!Extra(q, s) = x
    BY <1>1, <1>6 DEF Routing!Extra
  <2> QED
    BY <1>1, <1>2, <1>3, <1>4, <2>1 DEF Routing!Matches
<1>8. PICK L, M : L = Routing!Literals(q) /\ M = Routing!Literals(s)
  OBVIOUS
<1>9. PICK f : f = [i \in L |-> IF i < k THEN i ELSE i + x]
  OBVIOUS
<1>10. ASSUME NEW i \in L
       PROVE  /\ i \in 1..n /\ i # k /\ f[i] \in M
              /\ i < k => f[i] = i
              /\ k < i => f[i] = i + x
  <2>1. i \in 1..n /\ q[i] \notin Params /\ q[i] # ""
    BY <1>1, <1>8, <1>10 DEF Routing!Literals
  <2>2. i # k /\ i \in Int /\ 1 <= i /\ i <= n
    <3>1. i # k
      BY <1>5, <2>1
    <3>2. \A j \in 1..n : j \in Int /\ 1 <= j /\ j <= n
      BY <1>1
    <3>3. i \in 1..n
      BY <2>1
    <3> QED
      BY <3>1, <3>2, <3>3, Zenon
  <2>3. CASE i < k
    <3>1. f[i] = i
      BY <1>9, <2>3
    <3>2. i \in 1..(k - 1) /\ i \in 1..m
      BY <1>5, <1>6, <1>7, <2>2, <2>3
    <3>3. s[i] = q[i]
      BY <1>7, <2>1, <3>2
    <3>4. i \in M
      BY <1>1, <1>8, <2>1, <3>2, <3>3 DEF Routing!Literals
    <3>5. ~(k < i)
      BY <1>4, <2>2, <2>3
    <3> QED
      BY <2>1, <2>2, <3>1, <3>4, <3>5
  <2>4. CASE k < i
    <3>1. f[i] = i + x
      BY <1>9, <2>2, <2>4
    <3>2. s[i + x] = q[i] /\ i + x \in 1..m
      <4>1. i \in (k + 1)..n /\ i + x \in 1..m
        BY <1>5, <1>6, <1>7, <2>2, <2>4
      <4> QED
        BY <1>7, <4>1
    <3>3. ~(i < k)
      BY <2>2, <2>4
    <3> QED
      BY <1>1, <1>8, <2>1, <2>2, <3>1, <3>2, <3>3 DEF Routing!Literals
  <2> QED
    BY <2>2, <2>3, <2>4
<1>11. ASSUME NEW i \in L, NEW j \in L, f[i] = f[j]
       PROVE  i = j
  <2>1. i \in Int /\ j \in Int /\ k \in Int /\ i # k /\ j # k
    BY <1>5, <1>10
  <2>2. /\ i < k => f[i] = i
        /\ k < i => f[i] = i + x
        /\ j < k => f[j] = j
        /\ k < j => f[j] = j + x
    BY <1>10
  <2>3. PICK a, b : a = f[i] /\ b = f[j] /\ a = b
    BY <1>11
  <2>4. i < k \/ k < i
    BY <2>1
  <2>5. j < k \/ k < j
    BY <2>1
  <2>6. /\ (i < k /\ a = i) \/ (k < i /\ a = i + x)
        /\ (j < k /\ b = j) \/ (k < j /\ b = j + x)
    BY <2>2, <2>3, <2>4, <2>5
  <2> QED
    BY <1>7, <2>1, <2>3, <2>6
<1>12. f \in Injection(L, M)
  <2>1. f \in [L -> M]
    BY <1>9, <1>10
  <2> QED
    BY <1>11, <2>1 DEF Injection, IsInjective
<1>13. IsFiniteSet(M) /\ IsFiniteSet(P)
  <2>1. M \in SUBSET (1..m)
    BY <1>1, <1>8 DEF Routing!Literals
  <2>2. IsFiniteSet(1..m) /\ IsFiniteSet(1..n)
    BY FS_Interval
  <2> QED
    BY <1>3, <2>1, <2>2, FS_Subset
<1>14. PICK ls \in Nat, lq \in Nat, ps \in Nat, pq \in Nat :
        /\ ls = Routing!Cardinality(M) /\ lq = Routing!Cardinality(L)
        /\ ps = Routing!Cardinality(Routing!ParamAt(s))
        /\ pq = Routing!Cardinality(P)
  BY <1>2, <1>8, SegmentCounts, RoutingCardinality
<1>15. lq <= ls
  BY <1>12, <1>13, <1>14, FS_Injection, RoutingCardinality
<1>16. ps = 0 /\ pq # 0
  BY <1>3, <1>13, <1>14, FS_EmptySet, RoutingCardinality
<1>17. ls > lq \/ (ls = lq /\ ps < pq)
  BY <1>15, <1>16
<1>18. /\ ls # lq /\ ls > lq => Routing!Before(s, q)
       /\ ls = lq /\ ps < pq => Routing!Before(s, q)
  BY <1>2, <1>8, <1>14, Zenon DEF Routing!Before
<1>19. ls > lq => ls # lq
  OBVIOUS
<1> QED
  BY <1>17, <1>18, <1>19

(* What keeps the documentation reachable: under no base path, at paths     *)
(* without parameters or encoded characters, and if the application hides   *)
(* no routes of its own, only hidden ones came before a hidden route.       *)
LinkAssumption ==
  /\ Bases = {} /\ "hidden" \notin PlainKinds
  /\ \A p \in DocPaths : Routing!ParamAt(p) = {} /\ Routing!PathOf(p) = p

HiddenFirst(l) ==
  \A j \in DOMAIN l : l[j].kind = "hidden" =>
    \A i \in DOMAIN l : i < j /\ SameRoute(l[i], l[j]) => l[i].kind = "hidden"

InstalledIn(pg, l) ==
  pg # Routing!Nothing =>
    /\ pg.spec \in DocPaths /\ pg.handler \in DOMAIN l
    /\ IsOf(l[pg.handler], pg.spec, GET, {"hidden"})

LinkInv ==
  HiddenFirst(log) /\ InstalledIn(installing, log) /\ InstalledIn(page, log)

LEMMA HiddenFirstAppended ==
  ASSUME NEW l \in Seq(Regs), NEW r \in Regs, HiddenFirst(l),
         r.kind = "hidden" =>
           \A i \in DOMAIN l : SameRoute(l[i], r) => l[i].kind = "hidden"
  PROVE  HiddenFirst(Append(l, r))
<1>1. PICK n \in Nat : n = Len(l) /\ DOMAIN l = 1..n
  OBVIOUS
<1>2. PICK l2 : l2 = Append(l, r)
  OBVIOUS
<1>3. n \in Nat /\ n = Len(l) /\ DOMAIN l = 1..n /\ l2 = Append(l, r)
  BY <1>1, <1>2
<1>4. /\ DOMAIN l2 = 1..(n + 1) /\ l2[n + 1] = r
      /\ \A i \in 1..n : l2[i] = l[i]
  BY <1>3
<1>5. ASSUME NEW j \in 1..(n + 1), NEW i \in 1..(n + 1), i < j,
             l2[j].kind = "hidden", SameRoute(l2[i], l2[j])
      PROVE  l2[i].kind = "hidden"
  <2>1. i \in 1..n
    BY <1>3, <1>5
  <2>2. CASE j = n + 1
    BY <1>3, <1>4, <1>5, <2>1, <2>2
  <2>3. CASE j # n + 1
    <3>1. j \in 1..n
      BY <1>3, <2>3
    <3>2. l2[j] = l[j] /\ l2[i] = l[i]
      BY <1>4, <2>1, <3>1
    <3> QED
      BY <1>3, <1>5, <2>1, <3>1, <3>2 DEF HiddenFirst
  <2> QED
    BY <2>2, <2>3
<1>6. HiddenFirst(l2)
  BY <1>4, <1>5 DEF HiddenFirst
<1> QED
  BY <1>3, <1>6

LEMMA InstalledAppended ==
  ASSUME NEW l \in Seq(Regs), NEW r \in Regs, NEW pg, InstalledIn(pg, l)
  PROVE  InstalledIn(pg, Append(l, r))
<1>1. PICK l2 : l2 = Append(l, r)
  OBVIOUS
<1>2. \A i \in DOMAIN l : i \in DOMAIN l2 /\ l2[i] = l[i]
  BY <1>1
<1>3. InstalledIn(pg, l2)
  BY <1>2 DEF InstalledIn
<1> QED
  BY <1>1, <1>3

(* A hidden route at a path without a described GET route has only hidden   *)
(* ones before it.                                                          *)
LEMMA OnlyHiddenBefore ==
  ASSUME DescsInv, HiddenFirst(log), NEW p, NEW i \in DOMAIN log,
         \A d \in descriptors : ~(d.method = GET /\ d.path = p),
         log[i].path = p, log[i].method = GET
  PROVE  log[i].kind = "hidden"
<1>1. log \in Seq(Regs) /\ DescsOk(descriptors, log)
  BY DEF DescsInv, RouterInv, RoutingTypes
<1>2. PICK K : K = Routing!Kinds
  OBVIOUS
<1>3. log[i].kind \in K
  <2>1. log[i] \in Regs
    BY <1>1
  <2> QED
    BY <1>2, <2>1 DEF Regs
<1>4. i \in HitsIn(log, p, GET, K)
  BY <1>3 DEF HitsIn, IsOf
<1>5. PICK last : last = LatestIn(log, p, GET, K)
  OBVIOUS
<1>6. last \in HitsIn(log, p, GET, K) /\ i <= last
  BY <1>1, <1>4, <1>5, LatestIsHit
<1>7. log[last].kind = "hidden"
  <2>1. SUFFICES ASSUME log[last].kind # "hidden" PROVE FALSE
    OBVIOUS
  <2>2. log[LatestIn(log, log[i].path, log[i].method,
                     Routing!Kinds)].kind # "hidden"
    BY <1>2, <1>5, <2>1
  <2>3. PICK d \in descriptors : SameRoute(d, log[i])
    BY <1>1, <2>2 DEF DescsOk
  <2> QED
    BY <2>3 DEF SameRoute
<1>8. last \in DOMAIN log /\ log[last].path = p /\ log[last].method = GET
  BY <1>6 DEF HitsIn, IsOf
<1>9. last \in Nat /\ i \in Nat
  BY <1>1, <1>8
<1>10. CASE i = last
  BY <1>7, <1>10
<1>11. CASE i # last
  <2>1. i < last
    BY <1>6, <1>9, <1>11
  <2>2. SameRoute(log[i], log[last])
    BY <1>8 DEF SameRoute
  <2> QED
    BY <1>7, <1>8, <2>1, <2>2 DEF HiddenFirst
<1> QED
  BY <1>10, <1>11

(* One registration, hidden or not, and the documentation. *)
LEMMA LinkRegister ==
  ASSUME RouterInv, LinkInv, NEW p \in Seq(STRING), NEW m \in Methods,
         NEW kind \in Routing!Kinds, NEW doc,
         Routing!Register(p, m, kind, doc), base = <<>>,
         kind = "hidden" =>
           \A i \in DOMAIN log :
             log[i].path = p /\ log[i].method = m => log[i].kind = "hidden"
  PROVE  /\ HiddenFirst(log')
         /\ \A pg : InstalledIn(pg, log) => InstalledIn(pg, log')
         /\ Len(log) + 1 \in DOMAIN log'
         /\ IsOf(log'[Len(log) + 1], p, m, {kind})
<1>1. PICK r \in Regs : /\ r.path = p /\ r.method = m /\ r.kind = kind
                        /\ log' = Append(log, r)
  <2>1. Routing!ApplyBasePath(p) = p
    BY DEF Routing!ApplyBasePath
  <2> QED
    BY <2>1, RouterRegisters
<1>2. log \in Seq(Regs)
  BY DEF RouterInv, RoutingTypes
<1>3. PICK l \in Seq(Regs) : l = log
  BY <1>2
<1>4. HiddenFirst(l)
  BY <1>3 DEF LinkInv
<1>5. r.kind = "hidden" =>
        \A i \in DOMAIN l : SameRoute(l[i], r) => l[i].kind = "hidden"
  BY <1>1, <1>3 DEF SameRoute
<1>6. HiddenFirst(Append(l, r))
  BY <1>1, <1>3, <1>4, <1>5, HiddenFirstAppended
<1>7. \A pg : InstalledIn(pg, l) => InstalledIn(pg, Append(l, r))
  BY <1>1, <1>3, InstalledAppended
<1>8. /\ Len(l) + 1 \in DOMAIN Append(l, r)
      /\ Append(l, r)[Len(l) + 1] = r
  BY <1>1, <1>3
<1>9. IsOf(r, p, m, {kind})
  BY <1>1 DEF IsOf
<1> QED
  BY <1>1, <1>3, <1>6, <1>7, <1>8, <1>9

LEMMA LinkStep ==
  ASSUME OpenApiAssumptions, LinkAssumption, OpenApiInv, LinkInv,
         [Routing!OpenApiNext]_(Routing!openApiVars)
  PROVE  LinkInv'
<1>1. /\ RouterInv /\ DescsInv /\ Patterns \subseteq Seq(STRING)
      /\ GET \in Methods /\ DocPaths \subseteq Seq(STRING)
      /\ PlainKinds \subseteq Routing!Kinds /\ "sync" \in Routing!Kinds
      /\ "hidden" \in Routing!Kinds /\ base = <<>> /\ Bases = {}
      /\ "hidden" \notin PlainKinds
  BY DEF OpenApiInv, DescsInv, OpenApiAssumptions, Routing!RouterAssumption,
       Routing!OpenApiAssumption, Routing!Kinds, LinkAssumption
<1>2. ASSUME NEW p \in Patterns, NEW m \in Methods, NEW doc,
             NEW kind \in Routing!Kinds, kind # "hidden",
             Routing!Register(p, m, kind, doc), UNCHANGED <<installing, page>>
      PROVE  LinkInv'
  <2>1. p \in Seq(STRING)
    BY <1>1
  <2>2. /\ HiddenFirst(log')
        /\ \A pg : InstalledIn(pg, log) => InstalledIn(pg, log')
    BY <1>1, <1>2, <2>1, LinkRegister
  <2> QED
    BY <1>2, <2>2 DEF LinkInv
<1>3. ASSUME NEW p \in DocPaths, Routing!Register(p, GET, "hidden", Routing!NoDoc),
             \A d \in descriptors : ~(d.method = GET /\ d.path = p)
      PROVE  /\ HiddenFirst(log')
             /\ \A pg : InstalledIn(pg, log) => InstalledIn(pg, log')
             /\ Len(log) + 1 \in DOMAIN log'
             /\ IsOf(log'[Len(log) + 1], p, GET, {"hidden"})
  <2>1. PICK kind \in Routing!Kinds : kind = "hidden"
    BY <1>1
  <2>2. PICK doc : doc = Routing!NoDoc
    OBVIOUS
  <2>3. Routing!Register(p, GET, kind, doc)
    BY <1>3, <2>1, <2>2, Zenon
  <2>4. \A i \in DOMAIN log :
          log[i].path = p /\ log[i].method = GET => log[i].kind = "hidden"
    BY <1>1, <1>3, OnlyHiddenBefore DEF LinkInv
  <2>5. p \in Seq(STRING)
    BY <1>1
  <2>6. /\ HiddenFirst(log')
        /\ \A pg : InstalledIn(pg, log) => InstalledIn(pg, log')
        /\ Len(log) + 1 \in DOMAIN log'
        /\ IsOf(log'[Len(log) + 1], p, GET, {kind})
    BY <1>1, <2>3, <2>4, <2>5, LinkRegister
  <2> QED
    BY <2>1, <2>6
<1>4. CASE UNCHANGED Routing!openApiVars
  BY <1>4 DEF LinkInv, Routing!openApiVars, Routing!typedVars, Routing!vars
<1>5. ASSUME NEW p \in Patterns, NEW m \in Methods, NEW doc \in GivenDocs,
             NEW s, Routing!RegisterTyped(p, m, s, doc),
             UNCHANGED <<installing, page>>
      PROVE  LinkInv'
  <2>1. PICK kind \in Routing!Kinds : kind = "sync"
    BY <1>1
  <2>2. Routing!Register(p, m, kind, doc)
    BY <1>5, <2>1, Zenon DEF Routing!RegisterTyped
  <2>3. kind # "hidden"
    BY <2>1
  <2> QED
    BY <1>2, <1>5, <2>2, <2>3
<1>6. ASSUME NEW p \in Patterns, NEW m \in Methods, NEW doc \in GivenDocs,
             NEW kind \in PlainKinds, Routing!RegisterPlain(p, m, kind, doc),
             UNCHANGED <<installing, page>>
      PROVE  LinkInv'
  BY <1>1, <1>2, <1>6 DEF Routing!RegisterPlain
<1>7. ASSUME NEW p, NEW m, NEW doc, Routing!DocumentRoute(p, m, doc),
             UNCHANGED <<installing, page>>
      PROVE  LinkInv'
  BY <1>7 DEF Routing!DocumentRoute, LinkInv
<1>8. ASSUME NEW spec \in DocPaths, NEW site \in DocPaths,
             Routing!InstallSpec(spec, site)
      PROVE  LinkInv'
  <2>1. /\ Routing!Register(spec, GET, "hidden", Routing!NoDoc) /\ page' = page
        /\ installing' = [spec |-> spec, docs |-> site,
                          handler |-> Len(log) + 1]
    BY <1>8 DEF Routing!InstallSpec, Routing!RegisterPlain
  <2>2. \A d \in descriptors : ~(d.method = GET /\ d.path = spec)
    BY <1>8 DEF Routing!InstallSpec, Routing!Conflict
  <2>3. /\ HiddenFirst(log')
        /\ \A pg : InstalledIn(pg, log) => InstalledIn(pg, log')
        /\ Len(log) + 1 \in DOMAIN log'
        /\ IsOf(log'[Len(log) + 1], spec, GET, {"hidden"})
    BY <1>3, <2>1, <2>2
  <2>4. PICK g : g = installing'
    OBVIOUS
  <2>5. g.spec = spec /\ g.handler = Len(log) + 1
    BY <2>1, <2>4
  <2>6. InstalledIn(g, log')
    BY <2>3, <2>5 DEF InstalledIn
  <2> QED
    BY <2>1, <2>3, <2>4, <2>6 DEF LinkInv
<1>9. CASE Routing!InstallDocs
  <2>1. /\ Routing!Register(installing.docs, GET, "hidden", Routing!NoDoc)
        /\ page' = installing /\ installing' = Routing!Nothing
        /\ installing # Routing!Nothing
    BY <1>9 DEF Routing!InstallDocs, Routing!RegisterPlain
  <2>2. PICK p \in DocPaths : p = installing.docs
    BY <2>1 DEF OpenApiInv, InstallOk
  <2>3. /\ Routing!Register(p, GET, "hidden", Routing!NoDoc)
        /\ \A d \in descriptors : ~(d.method = GET /\ d.path = p)
    BY <2>1, <2>2 DEF OpenApiInv, InstallOk
  <2>4. /\ HiddenFirst(log')
        /\ \A pg : InstalledIn(pg, log) => InstalledIn(pg, log')
    BY <1>3, <2>3
  <2>5. InstalledIn(page', log')
    BY <2>1, <2>4 DEF LinkInv
  <2>6. InstalledIn(installing', log')
    BY <2>1 DEF InstalledIn
  <2> QED
    BY <2>4, <2>5, <2>6 DEF LinkInv
<1> QED
  BY <1>1, <1>4, <1>5, <1>6, <1>8, <1>9, <1>7
     DEF Routing!OpenApiNext, Routing!TypedNext, Routing!Registration,
         GivenDocs

(* Where all GET routes of a path are hidden ones, the last of them is the  *)
(* synchronous handler, and there is no other.                              *)
LEMMA HiddenServes ==
  ASSUME RouterInv, GET \in Methods, NEW e \in DOMAIN routes, NEW q,
         q = routes[e].path, NEW h0 \in DOMAIN log,
         IsOf(log[h0], q, GET, {"hidden"}),
         \A i \in DOMAIN log :
           log[i].path = q /\ log[i].method = GET => log[i].kind = "hidden"
  PROVE  /\ routes[e].stream[GET] = 0 /\ routes[e].async[GET] = 0
         /\ routes[e].sync[GET] # 0
         /\ log[routes[e].sync[GET]].kind = "hidden"
<1>1. PICK S, A, T : S = {"sync", "hidden"} /\ A = {"async"} /\ T = {"stream"}
  OBVIOUS
<1>2. "hidden" \in S /\ "hidden" \notin A /\ "hidden" \notin T
  BY <1>1
<1>3. log \in Seq(Regs) /\ ServesIn(routes, log)
  BY DEF RouterInv, RoutingTypes
<1>4. /\ routes[e].sync[GET] = LatestIn(log, q, GET, S)
      /\ routes[e].async[GET] = LatestIn(log, q, GET, A)
      /\ routes[e].stream[GET] = LatestIn(log, q, GET, T)
  BY <1>1, <1>3 DEF ServesIn
<1>5. HitsIn(log, q, GET, A) = {} /\ HitsIn(log, q, GET, T) = {}
  BY <1>2 DEF HitsIn, IsOf
<1>6. h0 \in HitsIn(log, q, GET, S)
  BY <1>2 DEF HitsIn, IsOf
<1>7. PICK h : h = LatestIn(log, q, GET, S)
  OBVIOUS
<1>8. h # 0 /\ h \in HitsIn(log, q, GET, S)
  BY <1>3, <1>6, <1>7, LatestIsHit
<1>9. log[h].kind = "hidden"
  BY <1>8 DEF HitsIn, IsOf
<1> QED
  BY <1>3, <1>4, <1>5, <1>7, <1>8, <1>9, LatestIsHit

LEMMA LinkServed ==
  ASSUME OpenApiAssumptions, LinkAssumption, OpenApiInv, LinkInv
  PROVE  Routing!DocsLinkServed
<1>1. SUFFICES ASSUME page # Routing!Nothing,
                      \A i \in DOMAIN log :
                        i > page.handler /\ log[i].path = page.spec
                          => log[i].kind = "hidden"
               PROVE  /\ Routing!Serve(page.spec, GET).kind = "sync"
                      /\ log[Routing!Serve(page.spec, GET).handler].kind
                           = "hidden"
  BY DEF Routing!DocsLinkServed
<1>2. /\ RouterInv /\ EntriesOk(routes) /\ CoveredBy(routes, log)
      /\ log \in Seq(Regs) /\ GET \in Methods
      /\ HiddenFirst(log) /\ InstalledIn(page, log)
      /\ DocPaths \subseteq Seq(STRING)
  BY DEF OpenApiInv, DescsInv, RouterInv, RoutingTypes, LinkInv,
       OpenApiAssumptions, Routing!RouterAssumption, Routing!OpenApiAssumption
<1>3. PICK q, h0 : q = page.spec /\ h0 = page.handler
  OBVIOUS
<1>4. /\ q \in DocPaths /\ h0 \in DOMAIN log /\ q \in Seq(STRING)
      /\ IsOf(log[h0], q, GET, {"hidden"})
  BY <1>1, <1>2, <1>3 DEF InstalledIn
<1>5. Routing!ParamAt(q) = {} /\ Routing!PathOf(q) = q
  BY <1>4 DEF LinkAssumption
<1>6. ASSUME NEW i \in DOMAIN log, log[i].path = q, log[i].method = GET
      PROVE  log[i].kind = "hidden"
  <2>1. i \in Nat /\ h0 \in Nat
    BY <1>2, <1>4, <1>6
  <2>2. /\ log[h0].kind = "hidden" /\ log[h0].path = q
        /\ log[h0].method = GET
    BY <1>4 DEF IsOf
  <2>3. CASE i < h0
    <3>1. SameRoute(log[i], log[h0])
      BY <1>6, <2>2 DEF SameRoute
    <3> QED
      BY <1>2, <1>4, <1>6, <2>2, <2>3, <3>1 DEF HiddenFirst
  <2>4. CASE i = h0
    BY <2>2, <2>4
  <2>5. CASE i > h0
    BY <1>1, <1>3, <1>6, <2>5
  <2> QED
    BY <2>1, <2>3, <2>4, <2>5
<1>7. PICK e \in DOMAIN routes : routes[e].path = q
  BY <1>2, <1>4 DEF CoveredBy, IsOf
<1>8. /\ routes[e].stream[GET] = 0 /\ routes[e].async[GET] = 0
      /\ routes[e].sync[GET] # 0
      /\ log[routes[e].sync[GET]].kind = "hidden"
  BY <1>2, <1>4, <1>6, <1>7, HiddenServes
<1>9. PICK M : M = Routing!MatchingEntries(q)
  OBVIOUS
<1>10. routes \in Seq(Entries) /\ DOMAIN routes \subseteq Nat
  BY <1>2 DEF EntriesOk
<1>11. M \in SUBSET Nat /\ M \subseteq DOMAIN routes
  BY <1>9, <1>10 DEF Routing!MatchingEntries
<1>12. e \in M
  <2>1. Routing!Matches(q, q)
    BY <1>5 DEF Routing!Matches
  <2> QED
    BY <1>7, <1>9, <2>1 DEF Routing!MatchingEntries
<1>13. ASSUME NEW i \in M
       PROVE  e <= i
  <2>1. SUFFICES ASSUME ~(e <= i) PROVE FALSE
    OBVIOUS
  <2>2. i \in Nat /\ e \in Nat /\ i \in DOMAIN routes
    BY <1>11, <1>12, <1>13
  <2>3. i < e
    BY <2>1, <2>2
  <2>4. PICK x : x = routes[i].path
    OBVIOUS
  <2>5. routes[i] \in Entries
    BY <1>10, <2>2, ElementsOf
  <2>6. x \in Seq(STRING)
    BY <2>4, <2>5 DEF Entries
  <2>7. x # q
    <3>1. i # e
      BY <2>2, <2>3
    <3> QED
      BY <1>2, <1>7, <2>2, <2>4, <3>1 DEF EntriesOk
  <2>8. Routing!Matches(x, q)
    BY <1>9, <1>13, <2>4 DEF Routing!MatchingEntries
  <2>9. Routing!Before(q, x)
    BY <1>4, <1>5, <2>6, <2>7, <2>8, LiteralPathFirst
  <2>10. ~Routing!Before(routes[e].path, routes[i].path)
    BY <1>2, <1>7, <2>2, <2>3 DEF EntriesOk, Routing!Sorted
  <2> QED
    BY <1>7, <2>4, <2>9, <2>10
<1>14. Routing!FirstOf(M) = e
  <2>1. Routing!FirstOf(M) \in M /\ \A j \in M : Routing!FirstOf(M) <= j
    BY <1>11, <1>12, FirstIsLeast
  <2>2. PICK f \in Nat : f = Routing!FirstOf(M)
    BY <1>11, <2>1
  <2>3. f <= e /\ e <= f /\ e \in Nat
    BY <1>10, <1>11, <1>12, <1>13, <2>1, <2>2
  <2> QED
    BY <2>2, <2>3
<1>15. Routing!StreamHandler(q, GET) = Routing!NotFound
  BY <1>2, <1>8, <1>9, <1>14 DEF Routing!StreamHandler
<1>16. Routing!AsyncHandler(q, GET) = Routing!NotFound
  BY <1>2, <1>8, <1>9, <1>14 DEF Routing!AsyncHandler, Routing!HandlerFor
<1>17. PICK D : D = {i \in M : Routing!Decides(i, GET)}
  OBVIOUS
<1>18. Routing!HandlerFor(routes[e].sync, GET) = routes[e].sync[GET]
  BY <1>2 DEF Routing!HandlerFor
<1>19. e \in D /\ D \in SUBSET Nat
  BY <1>8, <1>11, <1>12, <1>17, <1>18 DEF Routing!Decides
<1>20. Routing!FirstOf(D) = e
  <2>1. Routing!FirstOf(D) \in D /\ \A j \in D : Routing!FirstOf(D) <= j
    BY <1>19, FirstIsLeast
  <2>2. PICK f \in Nat : f = Routing!FirstOf(D)
    BY <1>19, <2>1
  <2>3. f <= e /\ e <= f /\ e \in Nat
    BY <1>13, <1>17, <1>19, <2>1, <2>2
  <2> QED
    BY <2>2, <2>3
<1>21. PICK h : h = routes[e].sync[GET]
  OBVIOUS
<1>22. Routing!Dispatch(q, GET) = Routing!Answer("sync", h, e)
  BY <1>8, <1>9, <1>17, <1>18, <1>19, <1>20, <1>21 DEF Routing!Dispatch
<1>23. Routing!Serve(q, GET) = Routing!Answer("sync", h, e)
  BY <1>5, <1>15, <1>16, <1>22 DEF Routing!Serve
<1> QED
  BY <1>3, <1>8, <1>21, <1>23 DEF Routing!Answer

LEMMA LinkInitOk ==
  ASSUME Routing!OpenApiInit
  PROVE  LinkInv
<1>1. log = <<>> /\ installing = Routing!Nothing /\ page = Routing!Nothing
  BY DEF Routing!OpenApiInit, Routing!TypedInit, Routing!Init
<1>2. DOMAIN log = {}
  BY <1>1
<1> QED
  BY <1>1, <1>2 DEF LinkInv, HiddenFirst, InstalledIn

(* With typed routes and installed documentation too: the latest handler of *)
(* the most specific route serves, descriptors are those of the last        *)
(* registrations, a typed handler finds its path parameters, which          *)
(* add_typed_route looked for in the pattern and the request finds in the   *)
(* full path, and a documented operation has each query parameter once.     *)
THEOREM TypedCorrect ==
  ASSUME OpenApiAssumptions
  PROVE  Routing!OpenApiSpec =>
           [](/\ Routing!RoutesServe /\ Routing!DescriptorsExact
              /\ Routing!PathParamsPresent /\ Routing!UniqueParameters)
<1>1. Routing!OpenApiInit => OpenApiInv
  BY OpenApiInitOk
<1>2. OpenApiInv /\ [Routing!OpenApiNext]_(Routing!openApiVars) => OpenApiInv'
  BY OpenApiStep
<1>3. OpenApiInv => /\ Routing!RoutesServe /\ Routing!DescriptorsExact
                    /\ Routing!PathParamsPresent /\ Routing!UniqueParameters
  <2>1. OpenApiInv => DescsInv /\ RouterInv
    BY DEF OpenApiInv, DescsInv
  <2>2. Routing!RouterAssumption
    BY DEF OpenApiAssumptions
  <2> QED
    BY <2>1, <2>2, BestServes, FirstDecides, LatestOnes, AllowedServed,
       DescsEntail, ParamsPresent, ParametersUnique DEF Routing!RoutesServe
<1> QED
  BY <1>1, <1>2, <1>3, PTL DEF Routing!OpenApiSpec

(* The document tells the truth, for any routes, documentation and base     *)
(* paths: a request that the operation documented for a synchronous route   *)
(* allows has no invalid parameter and, where the body is not documented by *)
(* hand, calls the handler; one that calls the handler is allowed in all    *)
(* that the server checks.  It needs parameters that differ in their names, *)
(* since `:id` and `{id}` are documented as one path, and no asynchronous   *)
(* or stream route, which may have the descriptor of a path whose           *)
(* synchronous handler serves.                                              *)
THEOREM DocumentCorrect ==
  ASSUME OpenApiAssumptions, PlainKinds \subseteq {"sync", "hidden"},
         \A x, y \in Params : NameOf[x] = NameOf[y] => x = y
  PROVE  Routing!OpenApiSpec => []Routing!DocumentHonest
<1>1. Routing!OpenApiInit => OpenApiInv /\ KindsIn({"sync", "hidden"})
  <2>1. Routing!OpenApiInit => log = <<>>
    BY DEF Routing!OpenApiInit, Routing!TypedInit, Routing!Init
  <2>2. log = <<>> => DOMAIN log = {}
    OBVIOUS
  <2> QED
    BY <2>1, <2>2, OpenApiInitOk DEF KindsIn
<1>2. OpenApiInv /\ KindsIn({"sync", "hidden"})
        /\ [Routing!OpenApiNext]_(Routing!openApiVars)
        => OpenApiInv' /\ KindsIn({"sync", "hidden"})'
  <2>1. PICK K : K = {"sync", "hidden"}
    OBVIOUS
  <2>2. "sync" \in K /\ "hidden" \in K /\ PlainKinds \subseteq K
    BY <2>1
  <2>3. OpenApiInv /\ KindsIn(K)
          /\ [Routing!OpenApiNext]_(Routing!openApiVars)
          => OpenApiInv' /\ KindsIn(K)'
    BY <2>2, OpenApiStep, KindsStep
  <2> QED
    BY <2>1, <2>3
<1>3. OpenApiInv /\ KindsIn({"sync", "hidden"}) => Routing!DocumentHonest
  BY DocumentTrue
<1> QED
  BY <1>1, <1>2, <1>3, PTL DEF Routing!OpenApiSpec

(* The documentation page links to a document that is served, until the     *)
(* application registers a route at its path: under no base path (with one, *)
(* the link lacks it), see LinkAssumption.                                  *)
THEOREM LinkCorrect ==
  ASSUME OpenApiAssumptions, LinkAssumption
  PROVE  Routing!OpenApiSpec => []Routing!DocsLinkServed
<1>1. Routing!OpenApiInit => OpenApiInv /\ LinkInv
  BY OpenApiInitOk, LinkInitOk
<1>2. OpenApiInv /\ LinkInv /\ [Routing!OpenApiNext]_(Routing!openApiVars)
        => OpenApiInv' /\ LinkInv'
  BY OpenApiStep, LinkStep
<1>3. OpenApiInv /\ LinkInv => Routing!DocsLinkServed
  BY LinkServed
<1> QED
  BY <1>1, <1>2, <1>3, PTL DEF Routing!OpenApiSpec

(* install_openapi_routes takes no handler from the application, if no base *)
(* path is set: its check for a GET route compares paths without one.       *)
THEOREM InstallCorrect ==
  ASSUME OpenApiAssumptions, Bases = {}
  PROVE  Routing!OpenApiSpec => [][Routing!RoutesStay]_(Routing!openApiVars)
<1>1. Routing!OpenApiInit => OpenApiInv
  BY OpenApiInitOk
<1>2. OpenApiInv /\ [Routing!OpenApiNext]_(Routing!openApiVars) => OpenApiInv'
  BY OpenApiStep
<1>3. OpenApiInv /\ [Routing!OpenApiNext]_(Routing!openApiVars)
        => [Routing!RoutesStay]_(Routing!openApiVars)
  BY InstallStays
<1> QED
  BY <1>1, <1>2, <1>3, PTL DEF Routing!OpenApiSpec

=============================================================================
