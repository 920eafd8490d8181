---------------------------- MODULE HttpSession ----------------------------
(***************************************************************************)
(* One HTTP connection: HttpSession reads a header, decides from the route  *)
(* how to treat the body, runs the interceptors and the handler, writes one *)
(* response and reads the next request or closes.  Everything runs on the   *)
(* connection's strand, whose queue `jobs` is first in, first out; the      *)
(* application completes asynchronous interceptors and handlers from other  *)
(* threads, each time by a post to that queue.                              *)
(*                                                                         *)
(* A body is a number of units; Limit is the bound for buffered routes.     *)
(* Writing a response is one operation here: ChunkedWriter has the detail   *)
(* of chunked ones, SseSession of streamed ones.                            *)
(***************************************************************************)
EXTENDS Integers, Sequences, FiniteSets

CONSTANTS
  Requests,       \* the requests a client may send: records as in Shape
  None,           \* no request
  Limit,          \* max_buffered_request_body_size_
  MaxRequests,    \* bound on the requests of a connection
  PostMayThrow    \* a post-interceptor may throw

Routes == {"buffered", "async", "stream", "upgrade"}
Shape == [route : Routes, body : Nat, declared : BOOLEAN, expect : BOOLEAN,
          keepAlive : BOOLEAN]

ASSUME HttpAssumption ==
  /\ Requests \subseteq Shape /\ None \notin Shape
  /\ Limit \in Nat /\ MaxRequests \in Nat /\ PostMayThrow \in BOOLEAN

VARIABLES
  st,        \* where the session is with the current request
  req,       \* req_, or None while reading a header
  left,      \* units of its body that are still on the connection
  buffered,  \* size of buffered_body_
  streamDone, bodyCancelled,   \* stream_completed_, request_body_cancelled_
  keepAlive, \* res_.keep_alive()
  owed,      \* the application still has to answer the current request
  jobs,      \* handlers posted to the strand
  writing,   \* of each response being written, whether the connection
             \* persists after it: the argument bound to on_write
  broken,    \* the peer is gone
  requests, answered, posts, via,   \* history: requests read; of the current
             \* one, responses begun, post-interceptor runs, kind of response
  prev,      \* history: route of the previous request, whether cancelled
  escaped    \* what handlers that threw had posted or kept for later

body == <<left, buffered, bodyCancelled>>
history == <<answered, posts, via>>
past == <<prev, escaped>>
vars == <<st, req, body, streamDone, keepAlive, owed, jobs, writing, broken,
          requests, history, past>>

Job(do, arg) == [do |-> do, arg |-> arg]
Complete == Job("complete", None)
CancelBody == Job("cancelBody", None)
Respond == Job("respond", None)

Escapes == {"async", "stream", "respond"}

-----------------------------------------------------------------------------
(* The decisions of the code; a mutant of one stands before it.             *)
(* on_read_header rejects a declared body that a buffered route cannot take. *)
TooLarge(r) == r.route # "stream" /\ r.declared /\ r.body > Limit

(* on_read_buffered_body: k more units would exceed the limit. *)
Exceeds(k) == buffered > Limit \/ k > Limit - buffered

(* send_payload_too_large closes the connection. *)
RejectedKeepAlive(r) == FALSE

CompletesNever == FALSE                                       \* mutant
(* A completion of a stream route counts, the first time. *)
StreamCompletes == ~streamDone

IgnoresCancelledBody(persistent) == persistent                \* mutant
(* send_context_response and start_stream_response keep the connection only *)
(* if the request's body was not cancelled.                                 *)
Persists(persistent) == persistent /\ ~bodyCancelled

MarksAfterRun == FALSE                                        \* mutant
(* post_interceptors_started is set before the post-interceptors run, for   *)
(* the exception path to know.                                              *)
MarksBeforeRun == TRUE

(* do_read clears buffered_body_. *)
BufferedAfterReset == 0

-----------------------------------------------------------------------------
(* send_response: the write of a response begins. *)
SendResponse(kind, persistent) ==
  /\ st' = "writing"
  /\ writing' = Append(writing, persistent)
  /\ answered' = answered + 1
  /\ via' = kind

NoResponse == UNCHANGED <<writing, answered, via>>

(* The post-interceptors, then send_context_response, with the persistence  *)
(* that interceptors and handlers gave the response.  If they throw, the    *)
(* exception's response, which takes the request's persistence, goes out    *)
(* instead, after another run unless the first one was marked.              *)
PostAndSend(mayThrow, marked) ==
  \E thrown \in {FALSE, mayThrow} :
    /\ posts' = posts + (IF thrown /\ ~marked THEN 2 ELSE 1)
    /\ keepAlive' \in IF thrown THEN {req.keepAlive} ELSE BOOLEAN
    /\ SendResponse("context", Persists(keepAlive'))

(* The post-interceptors throw where nothing catches it: the exception      *)
(* leaves io_context::run and the process ends.                             *)
PostThrowsUncaught ==
  /\ PostMayThrow
  /\ st' = "crashed"
  /\ posts' = posts + 1
  /\ NoResponse /\ UNCHANGED keepAlive

(* What follows the header, or 100 Continue: a stream route leaves the body *)
(* to its handler, the others buffer it.                                    *)
AfterHeader(r) == IF r.route = "stream" \/ r.body = 0 THEN "pre" ELSE "body"

(* on_read_header. *)
ReadHeader(r) ==
  /\ st = "header" /\ left = 0 /\ requests < MaxRequests
  /\ requests' = requests + 1
  /\ req' = r
  /\ left' = r.body
  /\ keepAlive' = r.keepAlive   \* the constructor of HttpContext
  /\ \/ r.route = "upgrade" /\ st' = "pre" /\ NoResponse
     \/ /\ r.route # "upgrade" /\ TooLarge(r)
        /\ SendResponse("reject", RejectedKeepAlive(r))
     \/ /\ r.route # "upgrade" /\ ~TooLarge(r)
        /\ st' = IF r.expect THEN "continue" ELSE AfterHeader(r)
        /\ NoResponse
  /\ UNCHANGED <<buffered, bodyCancelled, streamDone, owed, jobs, broken,
                 posts, past>>

(* The header cannot be read, or what follows the last response is not one. *)
HeaderError ==
  /\ st = "header"
  /\ st' = "closed"
  /\ UNCHANGED <<req, body, streamDone, keepAlive, owed, jobs, writing, broken,
                 requests, history, past>>

(* 100 Continue was written, or could not be. *)
ContinueDone ==
  /\ st = "continue"
  /\ st' = IF broken THEN "closed" ELSE AfterHeader(req)
  /\ UNCHANGED <<req, body, streamDone, keepAlive, owed, jobs, writing, broken,
                 requests, history, past>>

(* on_read_buffered_body with k more units. *)
ReadBufferedBody(k) ==
  /\ st = "body" /\ k <= left
  /\ left' = left - k
  /\ IF Exceeds(k)
     THEN /\ SendResponse("reject", RejectedKeepAlive(req))
          /\ UNCHANGED buffered
     ELSE /\ buffered' = buffered + k
          /\ st' = IF left' = 0 THEN "pre" ELSE "body"
          /\ NoResponse
  /\ UNCHANGED <<req, bodyCancelled, streamDone, keepAlive, owed, jobs, broken,
                 requests, posts, past>>

BodyError ==
  /\ st = "body" /\ broken
  /\ st' = "closed"
  /\ UNCHANGED <<req, body, streamDone, keepAlive, owed, jobs, writing, broken,
                 requests, history, past>>

-----------------------------------------------------------------------------
(* The last pre-interceptor completes, from any thread; one that throws     *)
(* counts as Stop.                                                          *)
PreInterceptorsDone(result) ==
  /\ st = "pre"
  /\ st' = "dispatch"
  /\ jobs' = Append(jobs, Job("afterPre", result))
  /\ UNCHANGED <<req, body, streamDone, keepAlive, owed, writing, broken,
                 requests, history, past>>

Runs(do) == st # "overrun" /\ jobs # <<>> /\ Head(jobs).do = do

(* do_serve_static_file: the file or an error page goes out directly, past  *)
(* the post-interceptors.                                                   *)
ServeStaticFile ==
  /\ SendResponse("static", req.keepAlive)
  /\ UNCHANGED <<keepAlive, posts>>

(* dispatch_request_after_interceptors for a buffered route: Stop, or the   *)
(* synchronous handler, whose exceptions become responses; or a static file *)
(* if no route matches.                                                     *)
DispatchBuffered ==
  /\ Runs("afterPre") /\ req.route = "buffered"
  /\ jobs' = Tail(jobs)
  /\ \/ PostAndSend(PostMayThrow, MarksBeforeRun)
     \/ Head(jobs).arg = "Continue" /\ ServeStaticFile
  /\ UNCHANGED <<req, body, streamDone, owed, broken, requests, past>>

(* The same for an asynchronous route: the handler takes `complete`, may    *)
(* call it at once, or throws.  Nothing takes `complete` back from one that *)
(* throws: it may have called it, or another thread still will.             *)
DispatchAsync ==
  /\ Runs("afterPre") /\ req.route = "async"
  /\ \/ /\ jobs' = Tail(jobs)
        /\ PostAndSend(PostMayThrow, MarksBeforeRun)
        /\ \/ UNCHANGED escaped
           \/ Head(jobs).arg = "Continue" /\ escaped' = escaped \cup {"async"}
        /\ UNCHANGED owed
     \/ /\ Head(jobs).arg = "Continue"
        /\ \E now \in BOOLEAN :
             /\ jobs' = Tail(jobs) \o (IF now THEN <<Complete>> ELSE <<>>)
             /\ owed' = ~now
        /\ st' = "handler"
        /\ NoResponse /\ UNCHANGED <<keepAlive, posts, escaped>>
  /\ UNCHANGED <<req, body, streamDone, broken, requests, prev>>

(* What a stream handler posts before it returns: nothing, a completion, a  *)
(* completion and then another one because it threw, or a cancelled body    *)
(* read and a completion.                                                   *)
StreamPosts ==
  {<<>>, <<Complete>>, <<Complete, Complete>>, <<CancelBody, Complete>>}

(* The job of handle_stream_request: Stop completes; Continue dispatches.   *)
(* A handler that throws may have begun a response through the              *)
(* HttpResponseStream, or left it, or `complete`, to another thread.        *)
DispatchStream ==
  /\ Runs("afterPre") /\ req.route = "stream"
  /\ \E posted \in IF Head(jobs).arg = "Stop" THEN {<<Complete>>}
                    ELSE StreamPosts :
       /\ jobs' = Tail(jobs) \o posted
       /\ owed' = (posted = <<>>)
       /\ \/ UNCHANGED escaped
          \/ /\ Head(jobs).arg = "Continue" /\ posted = <<Complete>>
             /\ \E kept \in {"stream", "respond"} :
                  escaped' = escaped \cup {kept}
  /\ st' = "handler"
  /\ NoResponse
  /\ UNCHANGED <<req, body, streamDone, keepAlive, broken, requests, posts,
                 prev>>

(* The job of on_read_header for an upgrade. *)
DispatchUpgrade ==
  /\ Runs("afterPre") /\ req.route = "upgrade"
  /\ jobs' = Tail(jobs)
  /\ \/ /\ Head(jobs).arg = "Continue"
        /\ st' = "upgraded" /\ NoResponse /\ UNCHANGED <<keepAlive, posts>>
     \/ Head(jobs).arg = "Stop" /\ PostAndSend(FALSE, TRUE)
     \/ Head(jobs).arg = "Stop" /\ PostThrowsUncaught
  /\ UNCHANGED <<req, body, streamDone, owed, broken, requests, past>>

-----------------------------------------------------------------------------
(* The application's side of an asynchronous or a stream route.             *)
Owes == st = "handler" /\ owed

(* It completes the request. *)
AppComplete ==
  /\ Owes
  /\ owed' = FALSE
  /\ jobs' = Append(jobs, Complete)
  /\ UNCHANGED <<st, req, body, streamDone, keepAlive, writing, broken,
                 requests, history, past>>

(* It answers by the HttpResponseStream instead, from start to finish. *)
AppRespond ==
  /\ Owes /\ req.route = "stream"
  /\ owed' = FALSE
  /\ jobs' = Append(jobs, Respond)
  /\ UNCHANGED <<st, req, body, streamDone, keepAlive, writing, broken,
                 requests, history, past>>

(* It reads from the request's body. *)
AppRead ==
  /\ Owes /\ req.route = "stream" /\ left > 0 /\ ~bodyCancelled
  /\ left' = left - 1
  /\ UNCHANGED <<st, req, buffered, bodyCancelled, streamDone, keepAlive, owed,
                 jobs, writing, broken, requests, history, past>>

(* It gives up reading it. *)
AppCancelBody ==
  /\ Owes /\ req.route = "stream" /\ ~bodyCancelled
  /\ \A i \in DOMAIN jobs : jobs[i] # CancelBody
  /\ jobs' = Append(jobs, CancelBody)
  /\ UNCHANGED <<st, req, body, streamDone, keepAlive, owed, writing, broken,
                 requests, history, past>>

(* cancel_stream_body. *)
CancelStreamBody ==
  /\ Runs("cancelBody")
  /\ jobs' = Tail(jobs)
  /\ bodyCancelled' = TRUE
  /\ keepAlive' = FALSE
  /\ UNCHANGED <<st, req, left, buffered, streamDone, owed, writing, broken,
                 requests, history, past>>

(* The job a completion posts.  A stream route ignores all but the first;   *)
(* its post-interceptors are not in a try block.                            *)
CompleteRequest ==
  /\ Runs("complete")
  /\ jobs' = Tail(jobs)
  /\ IF req # None /\ req.route = "async"
     THEN PostAndSend(PostMayThrow, TRUE) /\ UNCHANGED streamDone
     ELSE IF StreamCompletes
          THEN /\ streamDone' = TRUE
               /\ PostAndSend(FALSE, TRUE) \/ PostThrowsUncaught
          ELSE UNCHANGED <<st, keepAlive, streamDone, writing, history>>
  /\ UNCHANGED <<req, body, owed, broken, requests, past>>

(* start_stream_response to finish_stream_response, with the persistence of *)
(* the application's response head.                                         *)
StreamResponse ==
  /\ Runs("respond")
  /\ jobs' = Tail(jobs)
  /\ \E persistent \in BOOLEAN : SendResponse("stream", Persists(persistent))
  /\ UNCHANGED <<req, body, keepAlive, streamDone, owed, broken, requests,
                 posts, past>>

(* What a handler that threw left behind runs on the strand: a completion   *)
(* of an asynchronous route, which nothing checks, one of a stream route    *)
(* while stream_completed_ is not set, or a response.  The request it       *)
(* belongs to is answered by its exception, and the session may be anywhere *)
(* in a later one: a second response goes out.  What two writes on one      *)
(* stream, or a context that do_read released, lead to is not followed.     *)
RunEscaped(kind) ==
  /\ kind \in escaped /\ st \notin {"crashed", "overrun"}
  /\ kind = "stream" => StreamCompletes
  /\ st' = "overrun"
  /\ answered' = answered + 1
  /\ posts' = IF kind = "respond" THEN posts ELSE posts + 1
  /\ UNCHANGED <<req, body, streamDone, keepAlive, owed, jobs, writing, broken,
                 requests, via, past>>

-----------------------------------------------------------------------------
(* A response write ends; its handler joins the strand's queue. *)
WriteEnds ==
  /\ writing # <<>> /\ st # "overrun"
  /\ writing' = Tail(writing)
  /\ \E ok \in {~broken, TRUE} :
       jobs' = Append(jobs, Job("written", ok /\ Head(writing)))
  /\ UNCHANGED <<st, req, body, streamDone, keepAlive, owed, broken, requests,
                 history, past>>

(* on_write: do_read for the next request, or do_close; after an error the  *)
(* session is dropped.                                                      *)
OnWrite ==
  /\ Runs("written")
  /\ jobs' = Tail(jobs)
  /\ IF Head(jobs).arg
     THEN /\ st' = "header"
          /\ req' = None
          /\ prev' = [route |-> req.route, cancelled |-> bodyCancelled]
          /\ buffered' = BufferedAfterReset
          /\ streamDone' = FALSE /\ bodyCancelled' = FALSE
          /\ answered' = 0 /\ posts' = 0 /\ via' = "none"
     ELSE /\ st' = "closed"
          /\ UNCHANGED <<req, prev, buffered, streamDone, bodyCancelled,
                         history>>
  /\ UNCHANGED <<left, keepAlive, owed, writing, broken, requests, escaped>>

PeerGone ==
  /\ ~broken /\ broken' = TRUE
  /\ UNCHANGED <<st, req, body, streamDone, keepAlive, owed, jobs, writing,
                 requests, history, past>>

-----------------------------------------------------------------------------
Init ==
  /\ st = "header" /\ req = None /\ left = 0 /\ buffered = 0
  /\ streamDone = FALSE /\ bodyCancelled = FALSE /\ keepAlive = FALSE
  /\ owed = FALSE /\ jobs = <<>> /\ writing = <<>> /\ broken = FALSE
  /\ requests = 0 /\ answered = 0 /\ posts = 0 /\ via = "none"
  /\ prev = [route |-> "none", cancelled |-> FALSE] /\ escaped = {}

(* The jobs of the strand. *)
RunJob ==
  \/ DispatchBuffered \/ DispatchAsync \/ DispatchStream \/ DispatchUpgrade
  \/ CancelStreamBody \/ CompleteRequest \/ StreamResponse \/ OnWrite

ReadBody == \/ \E k \in 1..left : ReadBufferedBody(k)
            \/ BodyError

PreInterceptors == \E r \in {"Continue", "Stop"} : PreInterceptorsDone(r)

Answer == AppComplete \/ AppRespond

Ended == st \in {"closed", "upgraded", "crashed", "overrun"} /\ UNCHANGED vars

Next ==
  \/ \E r \in Requests : ReadHeader(r)
  \/ HeaderError \/ ContinueDone \/ ReadBody \/ PreInterceptors
  \/ Answer \/ AppRead \/ AppCancelBody
  \/ RunJob \/ WriteEnds \/ PeerGone \/ Ended
  \/ \E kind \in Escapes : RunEscaped(kind)

Spec == Init /\ [][Next]_vars

(* The strand runs its queue and writes end; the peer sends the body it     *)
(* announced or goes; interceptors and handlers complete, as their          *)
(* interface demands.  Nothing makes a peer send another request.           *)
FairSpec ==
  /\ Spec
  /\ WF_vars(RunJob) /\ WF_vars(WriteEnds) /\ WF_vars(ContinueDone)
  /\ WF_vars(ReadBody)
  /\ WF_vars(PreInterceptors) /\ WF_vars(Answer)

-----------------------------------------------------------------------------
TypeOK ==
  /\ st \in {"header", "continue", "body", "pre", "dispatch", "handler",
             "writing", "closed", "upgraded", "crashed", "overrun"}
  /\ req \in Requests \cup {None}
  /\ left \in Nat /\ buffered \in 0..Limit /\ requests \in 0..MaxRequests
  /\ streamDone \in BOOLEAN /\ bodyCancelled \in BOOLEAN
  /\ keepAlive \in BOOLEAN /\ owed \in BOOLEAN /\ broken \in BOOLEAN
  /\ writing \in Seq(BOOLEAN)
  /\ answered \in Nat /\ posts \in Nat /\ escaped \subseteq Escapes
  /\ via \in {"none", "reject", "context", "static", "stream"}
  /\ \A i \in DOMAIN jobs :
       jobs[i].do \in {"afterPre", "complete", "cancelBody", "respond",
                       "written"}

Written == {i \in DOMAIN jobs : jobs[i].do = "written"}

(* A request gets at most one response, however its completions, its        *)
(* exceptions and the strand's queue interleave: no two responses are ever  *)
(* in progress, and none is left over when the next header is read.  The    *)
(* one way to a second response is a handler that threw after it had called *)
(* or kept `complete` (asynchronous routes), or the means to answer of a    *)
(* stream route: the exception is answered, and so is the completion.       *)
OneResponse ==
  /\ st = "overrun" => escaped # {}
  /\ st # "overrun" =>
       /\ answered <= 1
       /\ Len(writing) + Cardinality(Written) <= answered
       /\ answered = 1 => st \in {"writing", "closed", "crashed"}

(* A buffered handler only ever runs with the whole body of its own request *)
(* and never with more than the limit; a declared body over the limit is    *)
(* refused before 100 Continue invites it.                                  *)
BufferedWhole ==
  /\ /\ st \in {"pre", "dispatch", "handler"}
     /\ req.route \in {"buffered", "async"}
     => left = 0 /\ buffered = req.body /\ buffered <= Limit
  /\ st = "continue" /\ req.route # "stream" /\ req.declared
     => req.body <= Limit

(* A rejected body, a cancelled one and every buffered one leave no bytes   *)
(* to be read as the next request.  The exceptions are a stream route that  *)
(* neither reads nor cancels its body, and a refused upgrade with a body.   *)
BoundaryKept ==
  st = "header" /\ left > 0 =>
    \/ prev.route = "stream" /\ ~prev.cancelled
    \/ prev.route = "upgrade"

(* The post-interceptors see each response of a handler once, also when one *)
(* of them throws, unless the request is answered twice.                    *)
PostOnce ==
  st # "overrun" =>
    /\ posts <= 1
    /\ answered = 1 => posts = (IF via = "context" THEN 1 ELSE 0)

(* Every request is answered, upgraded, or ends with its connection or,     *)
(* where PostFailureContained allows it, with the process; or it is         *)
(* answered twice, where OneResponse allows it.                             *)
Answered ==
  st # "header" ~>
    st \in {"header", "closed", "upgraded", "crashed", "overrun"}

(* Unread bytes of a request are never parsed as a next request: what the   *)
(* comment in cancel_stream_body gives as the reason for closing.           *)
RequestBoundary == st = "header" => left = 0

(* A throwing post-interceptor yields an error response, as the session     *)
(* test for buffered routes expects, and does not end the process, except   *)
(* on the two paths that run it outside a try block: the completion of a    *)
(* stream route and the Stop of an upgrade.                                 *)
PostFailureContained ==
  st = "crashed" => req.route \in {"stream", "upgrade"} /\ answered = 0

(* A request gets one response and one pass of the post-interceptors, whose *)
(* exceptions stay within the request, with the exceptions that OneResponse *)
(* and PostFailureContained name.                                           *)
RequestSound == TypeOK /\ OneResponse /\ PostOnce /\ PostFailureContained

(* Each request's body is its own: a handler gets all of it and nothing of  *)
(* another's, and none of it is read as a request.                          *)
BodyExact == BufferedWhole /\ BoundaryKept
=============================================================================
