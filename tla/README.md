# Formal models of khttpd-next

TLA+ models of khttpd, a C++ HTTP, WebSocket and Server-Sent Events framework on
Boost.Asio and Beast, with its clients, its router and its runtime. TLC checks the
models on small instances; TLAPS proves their central safety facts for every
instance: of the HTTP session and its chunked writer, of the WebSocket session, of the
clients, and of the server, the scheduler and the container. Paths below are relative
to `src/framework/`.

## The system

A `Server` accepts connections on a shared `io_context` that the threads of
`IoContextPool` run. Every connection gets its own strand (`server.cpp:132`): its
handlers run one at a time and posted handlers run in order, but on any pool
thread. What makes the system hard is what comes from outside the strand:
application threads that send events and frames, complete asynchronous requests and
close sessions, a detached thread per chunked response, timers that expire while
the answer arrives, and peers that stop at any point.

| Part | State | Operations | Talks to | What must hold |
|---|---|---|---|---|
| `HttpSession` pipeline (`session/`) | parser, `req_`, `res_`, `buffered_body_`, `stream_completed_`, `request_body_cancelled_` | read header and body, 100 Continue, interceptors, dispatch, respond, next request or close | router, application, the writers below | one response per request; whole and bounded bodies; request boundaries; post-interceptors once; every request ends |
| Chunked writer (`session/http_session.cpp:726-819`) | `ChunkWriteState`: queue, `writing`, `final_queued`, `completed`, `error`, work guard | `write_chunk`, `schedule_write`, `do_write_chunk` and its completion | the stream handler's own thread; the strand | one write at a time, in order, none stranded; the connection resumed once, after the terminator |
| `SseSession` (`sse/sse_session.cpp`) | queue, `pending_bytes`, `started`, `writing`, `closing`, `closed`, `close_handler` | `send`, `close`, `cancel`, `on_close`, callbacks of writes and of the disconnect wait | application threads; `HttpSession` as `HttpResponseStream` | order, byte limit, close drains, disconnects noticed, one `on_close` |
| `WebsocketSession` (`websocket/`) | write queue, `writing_`, `closed_`, `close_pending_`; the static registry of sessions | handshake, read, `send_frame`, broadcast, close | application threads; `WebsocketRouter` callbacks | one write at a time, order, the close frame last, one report of the end, registry in step |
| `HttpRouter` (`router/`) | routes with their handlers by method and kind, descriptors, base path, interceptors, exception handlers | register, document, match, dispatch, intercept, handle exceptions | sessions, handlers | the most specific and latest handler serves; the chain runs once; an error response is clean |
| Typed routes, OpenAPI | descriptors, declared parameters, installed documentation | declare, bind, generate, install | `HttpRouter` | the document describes what is served |
| `WebsocketRouter` | routes under a `shared_mutex` | `add_handler`, dispatch | sessions, handlers | a lookup finds the latest handlers; registration ends |
| `HttpContext` | form, fields, files | parse a multipart body | handlers | what was sent comes out |
| `WebsocketClient` (`client/`) | session, write queue, `close_notified`, `alive` | connect, send, close, destruction, the strand's handlers | application threads, the server | order, one `on_close`, at most one late callback after destruction, every end reported |
| `HttpClient` | phase and total timers, the operation in progress, `completed_` | request, `request_sync`, completions, expiries | application, `HostPool` | one callback, true and always; nothing left running |
| `HttpClientStream` | strand, parser, serializer flags | start, write, finish, read, cancel | its user: the application, the proxy, the SSE client | one exchange; every call answered |
| `HttpProxySession` | two pumps, `finished` | start, pump, cancel | two server streams, an `HttpClientStream` | whole or failed, both sides ended |
| `SseClient`, `SseParser` | `terminal`, handlers; buffer, fields | connect, events, cancel; feed | `HttpClientStream` | one end, at most one event after it; events independent of fragmentation |
| `CronJob`, `CronScheduler` (`cron/`) | timer, `is_running_`, `jobs_` | schedule, start, stop, expiry, `unschedule`, `stop_all`, `prune_stopped` | io_context | one chain of handlers per job; a job that runs is known to the scheduler |
| `DI_Container` (`di/`) | factories, singletons, resolving set, mutex | register, resolve, clear | application threads | one instance, nothing left marked |
| `Server`, `IoContextPool` | acceptor, signal set, work guard, threads | run, accept, signal, stop, shutdown | everything | stops, joins its workers, keeps accepting |

`PROJECT.json` lists every part with its status, and under `hazards` the places
where the code can go wrong in a way a test would hardly reach, each with the
properties that cover it or the reason why none does.

## Modules

Handlers of a strand, critical sections of a mutex and steps between two of them
are the actions: threads interleave wherever the code releases a lock, returns to
the io_context or calls the application. Payloads, headers and texts are model
values or numbers.

**ChunkedWriter** models `on_write_header` and `do_write_chunk`. The variables of
`ChunkWriteState` keep their names; `pc` is where the handler's thread is, `posted`
the `do_write_chunk` handlers posted to the strand, `inflight` the `async_write`
operations in progress, `wire` and `pushed` the history of what was written and
pushed. The thread may be interrupted between the push and `schedule_write` and
between the claim of `writing` and the post. `Empty` stands for an empty buffer,
whose encoding is the terminator's.

**ChunkedStream** is the promise: accepted chunks are delivered in order, the stream
is done when all of them were delivered after its end, or it fails and delivers
nothing more. `ChunkedWriter!ImplementsStream` states the refinement: `pushed` is
what was accepted, `wire` what was delivered, `finalQueued` the end, and the status
follows from how the response ended.

**SseSession** models `SseSession::Impl` and the part of `HttpSession` that
implements `HttpResponseStream` for it (`start_stream_response` to
`cancel_stream_disconnect_wait`). Calls and callbacks are sequences of steps in
`todo[actor]`, one step per critical section or post. `posted` is the strand's queue.
An event is its formatted size.

**WebsocketSession** models one connection with its registry entry. `SendFrame` is
`send_frame` from any thread, a broadcast is `FindSession` (under the registry's
mutex) and later `SendFound`. Text, binary, ping and pong frames take the same path.
Receiving a message changes no state of the session and has no action.

**HttpSession** models the pipeline of one connection: `st` is the continuation the
code is waiting in, `jobs` the strand's queue, `writing` the responses being
written, each with the keep-alive flag bound to its `on_write`. A body is a number of
units, of which `left` are still on the connection. Requests are records: route
kind, body size, declared (`Content-Length`) or chunked, `Expect`, keep-alive. A
handler may throw after it completed, or keep what it would complete with: `escaped`
holds what is left of such requests, and `RunEscaped`, a second response, leads to
`overrun`, where the model stops to follow the session.

**WebsocketClient** models the client and the sessions of its connects, each on its
own strand: phases of the connection in `ses[i].phase`, `ops` for the operation in
progress, `todo` for the callbacks that a handler is about to invoke. A callback is
three steps, as in the code: `alive` is checked and the callback copied under the
mutex (`checked`), it is entered after the unlock (`calling`), and it returns; the
destructor may come in between, and `late` counts what is entered after it. A
`pop_front` on a queue that `close()` emptied sets `undefined`.

**HttpClient** models one request of the plain or the TLS session: `op` is the
operation in progress, `outcome` how it completed, `timer` the deadline of each
timeout, `off`, `armed` or `expired` with its handler queued, `cancels` the `cancel()`
functions posted to the strand. `request_sync` is the waiting caller. **HostPool** is
the weighted choice of a host as a function of the random number.

**HttpClientStream** models the calls on one stream, `w` and `r` the call in progress
on the writing and on the reading side. An application may start it again (`starts`,
`restarted`): the code has no guard, so a second header goes out under the flags of
the first request. **HttpProxySession** and **SseClient** use it as the code does:
they extend it, and their calls are its actions, so the stream's state machine runs
underneath. **ClientStreams** puts the stream beside its three users, an application
that makes any call, the proxy and the SSE client; it is what the proofs extend.
`SseClient` checks `terminal` for an event in one step (`CheckEvent`) and calls the
handler in the next (`Emit`). **SseParser** is `feed` byte by byte against a
definition of the events of a whole stream, and `format_sse_event`.

**RoutePatterns** has paths as sequences of segments and what a pattern matches.
**HttpRouter** registers routes of every kind with their documentation (a summary,
headers, a request schema), sorts and looks up; the sort is not stable, so equal
routes come in any order. **TypedRoutes** adds the parameters that a typed handler
declares and what becomes of a request's values (of groups with one name the last is
read), **OpenApi** the document generated from the descriptors, with one path
parameter per occurrence, the query and header parameters and the body, and the
installation of the documentation routes. **WebsocketRouter** is `add_handler` against
lookups under the shared mutex: `Found` copies the handler and unlocks, `Invoke` calls
the copy. **Interceptors** is the chain of asynchronous interceptors, whose next call
may be nested in the previous one's or come from another thread, and the exception
pipeline. **Multipart** is the parser of form bodies, on sequences of tokens.

**Cron** has jobs, their timer waits and queued handlers, workers that run them and
the calls of other threads; `start()` takes the flag and arms the timer in different
steps, `stop()` clears the flag and cancels in different steps, `prune_stopped`
chooses and erases in different steps. Three histories name what the code lets go
wrong: `hasty` (started again before it came to rest), `orphans` (started after it
left `jobs_`) and `failed` (its timer reported an error). **DIContainer** has one
stack of `resolve` frames per thread and the mutex that is released around factories.
**Server** has the pool's threads, the accept loop, the signal and `stop()` from any
of them.

**MCSseSession**, **MCHttpSession**, **MCOpenApi** give TLC the constants that a
`.cfg` cannot express. **MCHttpClient**, **MCClientStreams**, **MCRuntime** and
**MCRouting** put components into one run: the variable `part` says which one a
behaviour is about, and the others rest. The parts of one run share no state that
changes (but for the io_context, which `Server::stop` stops under the cron jobs; their
handlers then stop at any point, which their safety properties allow); where
components do interact (proxy and SSE client over the client stream, typed routes and
documentation over the router, the chunked and SSE writers over the session's strand)
one module is built on the other and they step together.

The theorems are in **ChunkedWriterProofs**, **SseSessionProofs**,
**WebsocketSessionProofs** (the session, and the router it dispatches to),
**HttpSessionProofs** (the session, the interceptors and the router with typed routes
and documentation), **HttpClientProofs**, **HttpClientStreamProofs** (the stream, the
proxy and the SSE client), **WebsocketClientProofs** and **RuntimeProofs** (server,
scheduler and container). Each extends the module it is about and
instantiates the further ones.

In each module the decisions of the code are small operators (`WriterFree`,
`Accepts`, `Closes`, ...), some preceded by a variant with a plausible bug. Every
property has such a variant that breaks it (`mutants` in `PROJECT.json`). Properties
that belong together are conjunctions of named parts: `WriterSound` of `SingleWriter`,
`InOrder`, `NoLostWakeup` and `ResumeOnce`, and so on; the parts carry the comments.

## Runs

| Run | Properties | Bounds |
|---|---|---|
| `chunked` | `WriterSound`: one write at a time, order, no lost wake-up, one resumption after the whole body; `QuietAfterResume`; `ResponseEnds`; `ImplementsStream` | 2 buffers and the empty one, 3 writes: the queue is empty, holds one and holds several while a write is in progress |
| `sse` | `EventsWritten`: one write, order, close drains, exact byte account, nothing stranded; `EndsOnce`: `on_close` once, the kept connection left alone; `EndReported`: close and disconnect lead to `on_close` | 2 threads and the route's handler, 2 sends of sizes 1 and 2 against a limit of 3, so that the limit is just met and exceeded; 1 close or cancel; with and without a request body |
| `websocket` | `FramesDelivered`: one operation, none stranded, order, close last; `ReportedOnce` with the registry; `EndReported` | 2 broadcasting threads, 4 sends of 2 messages and a close frame |
| `http` | `RequestSound`: one response, post-interceptors once and contained; `BodyExact`: whole and bounded bodies, boundaries; `Answered` | 2 requests of every route, body 0, at and above the limit, declared or chunked, with or without `Expect` and keep-alive; post-interceptors may throw |
| `ws_client` | `ConnectionSound`: order, no close forgotten, one `on_close`; `OneLateCallback`; `EndsReported` | 2 connects, 2 sends, 1 close, 3 calls in all |
| `http_client` | `ResultSound`: one callback, real timeouts, final responses; `Answered`: every request with deadlines, nothing left behind, `request_sync` returns; `Proportional` | every set of deadlines, TLS or not, served by a pool or not, 1 interim response; up to 3 hosts with weights 0 to 5 |
| `client_streams` | `OneExchange`, `CallsAnswered`; `ProxySound`, `ProxyEnds`; `SubscriptionSound`, `CloseReported`; `ParserExact` | bodies of 2 pieces each way, 1 interim response, up to 2 starts of a stream, 2 events; parser inputs of up to 5 bytes in every fragmentation, with a limit that is met and one that is not |
| `runtime` | `ServerSound`, `StopEndsRun`; `ChainSound`, `KeepsRunning`; `ResolveSound`, `ResolveEnds` | 2 workers, 2 connections; 2 jobs, of which one at a time is in `start()`, `stop()` or `unschedule()` while `schedule()`, `stop_all()` and `prune_stopped()` go on beside it; 3 component types in every dependency graph of up to 2 edges, 2 resolving threads |
| `routing` | `RoutesServe`, `DocumentMatches`, `RegistrationKeeps`; `StaticFirst`, `AddCompletes`; `ChainSound`, `Dispatched`; `FormExact` | 3 registrations among 4 overlapping patterns, 3 kinds and 2 methods; repeated, documented (a summary; headers and a schema) and hidden registrations under 3 base paths; typed routes of 2 parameters; 2 WebSocket registrations and 3 threads; 3 interceptors, 2 exception handlers; forms of 2 parts whose data may hold the text of a delimiter |
| `chunked_empty_chunk` | finding 1 | 1 buffer, 2 writes |
| `http_unread_body` | finding 2 | stream routes |
| `openapi_base` | finding 3 | a literal route and a parameter route under a base path |

The bounds are the smallest at which the cases of the hazards happen. Two requests
are enough for `http`: all state but the unread bytes and the flags that `do_read`
resets belongs to one request, and properties about leftovers need one predecessor.
Two connects of a `WebsocketClient` give an old session beside a new one; two
workers give a handler that looks and a stop that comes between; two edges give a
cycle, a chain and a shared dependency. Runs check deadlock where a state without a
successor would be an error and a session that is over stutters explicitly; where
calls are bounded by a constant the run has `CHECK_DEADLOCK FALSE`, since a system
whose callers have made all their calls stops, and the liveness properties of the
same run exclude that it stops half-way.

## Findings

Each disagrees with a line of the repository that `PROJECT.json` quotes.

1. `write_chunk("")` sends the terminator of the chunked body (`chunked_empty_chunk`).
2. A stream route that answers before its body was read keeps the connection and
   parses the rest as a request (`http_unread_body`). `BoundaryKept` shows this, and
   a refused upgrade that had a body, to be the only ways.
3. With a base path, installing the documentation looks for conflicts under the
   wrong path and replaces a handler of the application (`openapi_base`).

Further disagreements met while modelling. The models contain this behaviour unless
the text says otherwise, and the properties except it by name:

- An SSE request with a body never arms the disconnect wait (`http_session.cpp:412`);
  `DisconnectReported` is stated for the others.
- A WebSocket close frame of the application sets `closed_`, and the later
  `do_close` returns at once: no `on_close`, and the registry keeps the session
  (`websocket_session.cpp:161`); excepted in `EndReported`.
- Post-interceptors of stream routes and of refused upgrades run outside any `try`
  block (`http_session.cpp:242`); excepted in `PostFailureContained`.
- A handler that completes, or starts its response, and then throws is answered twice:
  by its exception and by what it completed (`http_session.cpp:500` for asynchronous
  routes, which have no flag; lines 240 and 265 for stream routes). The contract of
  `http_router.hpp:621`, to invoke `complete` exactly once from any thread, is kept.
  `OneResponse` excepts what such a handler left behind (`escaped`), and only that.
- One callback per connection may be entered after the destructor of `WebsocketClient`
  has returned (`websocket_client.cpp:66` to 119, against 521): `alive` is checked under
  the mutex and the callback called after it. `OneLateCallback` bounds it.
- A second `async_start` of an `HttpClientStream` writes a second header on the same
  connection, keeps the first request's `request_finished` and parser, and inserts the
  header fields again (`http_client_stream.cpp:57` to 149, the fields in line 84).
  `OneExchange` excepts `restarted` streams; neither the proxy nor the SSE client has
  one, which is proved.
- An event of `SseClient` may follow `on_close`: the check of `terminal` and the call
  are apart (`sse_client.cpp:138` and 144); `OneLateEvent` bounds it to one.
- `WebsocketClient`: a frame sent before the handshake waits for the next send
  (`websocket_client.cpp:122`); a second `connect()` shares `close_notified` with the
  first (line 590); `close()` during a write leaves an empty deque to pop (line 221).
- A TLS shutdown runs under the read deadline, so that a complete response may end as
  `read_timeout` (`http_client.cpp:272`).
- `HttpClientStream::cancel` between resolving and connecting is not remembered
  (`http_client_stream.cpp:281`), so the SSE client may send its request after
  `on_close`; a `cancel()` before `connect()` makes its end silent
  (`sse_client.cpp:163`).
- The events of a read that also exceeds the parser's limit are lost
  (`sse_parser.cpp:98`).
- Only a synchronous GET or HEAD is looked for in all routes that match. Asynchronous
  and stream handlers are looked up in the first one (`http_router.cpp:478` and 364), so
  a route for POST at `/u/me` hides an asynchronous GET of `/u/:a`, and other methods
  get a 405 from the first match (line 534). `FirstMatchDecides` states this.
- A registration that gives any documentation replaces all of it (lines 257 to 261): a
  summary is lost when the next one gives only headers. `DescriptorsExact` says so.
- The schemas that `document_route` takes as documentation do not reach the document,
  which reads the descriptor's own. Documented headers are not checked by the server,
  and a handler may refuse a body that a documented `request_schema` allows. A base
  `/:a` with the route `/u/:a` documents `a` twice, which is no valid OpenAPI
  (`openapi.cpp:70`). `DocumentHonest` names these cases.
- The `Allow` header and the 405 know synchronous handlers only
  (`http_router.cpp:536`); `document_route` ignores the base path (line 278); stream
  routes are looked up with the encoded path (`http_session.cpp:163`).
- `:a` and `{a}` are two routes with one documented path (`openapi.cpp:963`), and with
  a base path the documentation page links to a path that is not served (line 910);
  both outside the instances of `routing`.
- `WebsocketRouter` sorts by slashes, parameters included, not by literal segments
  (`websocket_router.cpp:90`), and calls the handler it found after the unlock (lines
  117 and 118), so that one replaced in between still runs; `OnlyFoundReplaced` shows
  that no other replaced handler does.
- `stop()` of a cron job may be followed by one run (`CronJob.hpp:84`), which
  `OneLateRun` bounds; a `start()` that overlaps a `stop()` leaves a job that says it
  runs and never does (line 61): such jobs are `hasty` and excepted.
- `start()` does not put a job back into `jobs_` (`CronJob.hpp:39`): after `stop_all`,
  `unschedule` or `prune_stopped` it runs unknown to the scheduler (`orphans`). An error
  of the timer ends the chain with `is_running_` still set (line 86, `failed`). Each is
  excepted in the one part of `ChainSound` that it breaks, and `failed` in
  `KeepsRunning` too. The task's exceptions are caught if they are `std::exception`s
  (line 93). `stop()` and the handlers use `timer_` from two threads without
  synchronisation, which the model takes to be atomic operations.
- Two threads that first resolve one component at once: one is told of a circular
  dependency that does not exist (`di_container.hpp:62`).
- `stop()` drops the handlers of open requests (`io_context_pool.hpp:39`), and two
  servers of one process join the shared pool's threads both (line 51): the instance
  has one server.
- An interceptor that completes and then throws is completed twice
  (`http_router.cpp:433`); `DispatchedOnce` counts it. The headers that a failing
  exception handler set stay in the 500 response, since the response is reset on entry
  only (lines 613 and 636 to 643); `ErrorIsClean` excepts them.
- A `Content-Type` that is the first header of its part keeps its name in its value
  (`http_context.cpp:34`); `TypesExact` asks for the bare type of the others.

## Fairness

- Strands and io_context: weak fairness on ready handlers, since pool threads run
  them; writes complete or fail, as TCP does; armed timers expire. `HttpClient` asks
  for it only when a pool thread serves the request (`served`).
- Threads of the application: weak fairness on code of the framework that they have
  entered (`SendFound`, the steps of `todo`, `Container!Work`), never on their next
  call. Handlers, factories and cron tasks return; interceptors complete or throw, as
  `interceptor.hpp` and `doc/api-reference.md` demand (`Owed`).
- Peers: nothing makes a peer send another request or disconnect. `Answered` of
  `HttpSession` and `ProxyEnds` assume that a peer sends what it announced or goes
  away: the code has no timeout there (listed as a hazard). `Answered` of `HttpClient`
  assumes nothing of the peer.
- `AddCompletes` has strong fairness on taking the exclusive lock, and assumes that
  there is again and again a moment without a lookup: `shared_mutex` promises no more.

## Proofs

Every theorem is about the next-state relation that the runs check, uses no fairness,
and holds for every value of the constants that satisfies the module's `ASSUME`. These
say that bounds are natural numbers and that special values differ
from each other and from ordinary ones: a close frame is no message, `Idle` is no
handler, `CloseCall` is no frame, `Connection` is a hop-by-hop header and the two kinds
of headers are disjoint, a request has the shape of one, patterns and paths are
sequences of segments, the empty segment is no parameter. TLC evaluates them in the
runs. Three theorems about the documentation have a further hypothesis, without which
they are false: see OpenApi below.

| Theorem | States | For every |
|---|---|---|
| `ChunkedWriterProofs!WriterCorrect`, `QuietOnceResumed`, `Refinement` | `WriterSound`, `QuietAfterResume`, `ImplementsStream` | set of buffers, number of writes |
| `WebsocketSessionProofs!DeliveryCorrect`, `EndsOnce` | `FramesDelivered`, `ReportedOnce` | set of frames and threads, number of sends |
| `WebsocketSessionProofs!StaticCorrect`, `LookupCorrect` | `StaticFirst`, `OnlyFoundReplaced` (of `RegistrationKeeps`) | set of routes, paths and threads |
| `HttpSessionProofs!RequestCorrect`, `BodyCorrect` | `RequestSound`, `BodyExact` | set of requests, limit, length of a connection |
| `HttpSessionProofs!ChainCorrect` | `ChainSound` | number of interceptors and of exception handlers |
| `HttpSessionProofs!RoutesCorrect`, `DescriptorsCorrect` | `RoutesServe`, `DescriptorsExact` (of `DocumentMatches`) | patterns, paths, methods, base paths, registrations, documentation |
| `HttpSessionProofs!TypedCorrect`, `DocumentCorrect`, `LinkCorrect`, `InstallCorrect` | the same with typed routes; the other parts of `DocumentMatches`: `PathParamsPresent`, `UniqueParameters`, `DocumentHonest`, `DocsLinkServed`; `RoutesStay` (of `RegistrationKeeps`) | signatures of handlers and places of the documentation too |
| `SseSessionProofs!EventsCorrect`, `EndsCorrect` | `EventsWritten`, `EndsOnce` | set of threads, events, sizes and limits, number of calls |
| `HttpClientProofs!ResultCorrect` | `ResultSound` | set of deadlines, number of 1xx responses |
| `HttpClientStreamProofs!ExchangeCorrect` | `OneExchange` | pieces each way, order of the application's calls |
| `HttpClientStreamProofs!ProxyCorrect` | `ProxySound`, `OneExchange`, and that the stream is started once | pieces each way, set of headers |
| `HttpClientStreamProofs!SubscriptionCorrect`, `SubscribedExchange` | `SubscriptionSound`, `OneExchange`, and that the stream is started once | number of parts, and of events in a part |
| `WebsocketClientProofs!ConnectionCorrect`, `LateCorrect` | `ConnectionSound`, `OneLateCallback` | number of connects, sends and closes |
| `RuntimeProofs!ServerCorrect`, `ChainCorrect`, `ResolveCorrect` | `ServerSound`, `ChainSound`, `ResolveSound` | number of servers, workers and connections; jobs; types, dependency graphs and threads |

None of these properties is inductive. Each proof strengthens its property to an
inductive invariant and shows action by action that it is kept. What the
strengthenings say, and what they are needed for:

**ChunkedWriter.** `Conservation`: `pushed = wire \o inflight \o queue` while no write
has failed, from which `InOrder` follows and which a completion preserves because it
moves the head of one part to the end of the previous one (`AppendThrough`,
`WriteOne`). `SingleWriter`: the thread at `post`, `posted` and `inflight` count
together the one holder of `writing`, so nobody else can claim it. `ThreadPhase`: what
the thread has queued, by its `pc`. `Outcome`: what `completed`, `resumed`, `failures`
and `error` say of each other. The refinement is a step simulation under these: a push
is `Accept` or `End`, a completed write `Deliver`, the resumption `Finish`, a failure
`Fail`, everything else a stutter.

**WebsocketSession.** `Operations`: `writing_` is set exactly while a frame is being
written, and a queue of an open session has a writer, so a `send_frame` that finds
`writing_` clear finds the stream free and the queue empty. `Lifecycle`: a reported
session is closed, which makes the second `do_close` a no-op. `Finality`: a close
frame being written has set `closed_`, so `do_write_next` starts nothing after it.
`Flow`: `sent = wire \o ops \o queue \o posted` while the session is not closed; past
it, that the frame being written is the next of `sent`.

**HttpSession.** That a request is answered once depends on which jobs can be in the
strand's queue when one of them runs. The invariant therefore says for every place of
the session (`AtHeader`, `AtContinue`, ..., `AtCrashed`) which queue, which response
in progress and which rest of the body it can have. Where a stream handler threw after
it had completed, there are two completions in the queue, and the second finds
`stream_completed_` set: `AtWriting` is the place where that matters. What a throwing
handler left in `escaped` can run at any place and leads to `overrun`, of which only
the cause is claimed. `AtBoundary` says that a response which keeps the connection
leaves no cancelled body behind, which `BoundaryKept` needs one request later.

**SseSession.** The write of a response is one token: a claim that an actor is about
to post, a posted job, an operation on the socket, and last a step of the strand
(`OneToken`). `TokenOk` says what a token on its way carries: the next accepted event,
or the end when no event is left. `Queued`: the queue is the end of what was accepted,
and its first event is on the wire once its write completed, until `written` pops it.
`Session` and `Ended` tie the flags to the token, `Followed` and `Preceded` say that
the steps which free the writer are followed by `write_next`, which is why nothing is
stranded. For `EndsOnce`, `ReportInv`: a registered handler is in place, dropped,
about to be invoked or invoked, the last two once and only of a closed session; and
`ShutInv`: nothing shuts the socket of a peer that is there unless the application
cancelled. `PendingExact` states the account with a function of partial sums, so that
it needs no recursive operator.

**WebsocketRouter.** `RoutesInv`: the routes are sorted, no path has two, and a
handler is the number of a registration. `LatestInv`: a route has the handlers
registered last for its path. `ThreadsInv`: what a thread runs was registered.
`LookedInv`: what a thread holds after its lookup was the latest then, and what
replaced it since was registered after it, which is what `OnlyFoundReplaced` says of
the call. A literal path has no parameters, and a pattern that matches it is not
longer, so its own route comes before each dynamic one that matches.

**Interceptors.** `ChainOrder`: only the interceptor called last may still have to
complete. `ChainCount`: results posted and dispatched are one for the chain, if it is
complete, and one for each exception, from which `DispatchedOnce` follows by counting.
`ChainResponse`: what the response of a failed request can contain.

**HttpRouter.** `RouterInv` relates the sorted list to the log of registrations: every
registered path has one entry (`CoveredBy`, `EntriesOk`), and each handler of an entry
is the last registration of its path, method and kind (`ServesIn`). The sort is any
sorted permutation, so nothing depends on stability. The least entry that matches is
then the most specific one, by `BeforeIsMoreSpecific`; `FirstIsBest` and `FirstDecides`
say it of the first match of any method and kind, which decides asynchronous and stream
requests and the 405. `DescsOk`: a descriptor is the last registration's, no route has
two, and a route whose last registration is not hidden has one. `GivenOk`: its
documentation is the last that was given, whole.

**OpenApi.** `DeclaredOk`: what a handler declares was accepted for its pattern, whose
parameters are in the path of the route under any base path. `PathReads` and
`ConformsReads` take the document to the server: of the groups of a match that have one
name the last is read, so a request that conforms at every occurrence is accepted, and
one that is accepted conforms at the last. `InstallOk`: between the
two registrations of `install_openapi_routes` no GET route comes to the place of the
page. `DocumentCorrect` needs names that tell parameters apart, since `:id` and `{id}`
are documented as one path, and synchronous routes only: an asynchronous one may have
the descriptor of a path whose synchronous handler serves, since `dispatch_async` stops
at the first match. `InstallCorrect` and `LinkCorrect` need that no base path is set
(finding 3, and the link on the page lacks it); `LinkCorrect` also literal, unencoded
document paths and an application that hides no route of its own, and rests on
`HiddenFirst`: only hidden routes came before a hidden one. `LiteralPathFirst` maps the
literal segments of a pattern into those of a path that it matches, so that a literal
path comes first. These are the hypotheses that the instances of `routing` meet.

**HttpClient.** `Waits`: a queued wait is for a deadline that was set, and one that
expired really did, so the operation it aborts is told the truth. `Unreported`: nothing
was reported before `completed_`. `Outcomes`: which outcome the handler of each
operation can find, so that `complete` with a response happens only after a final one.
`Cancels`: who posts the cancels bounds their number.

**HttpClientStream.** `WriteInv` says which operation may still append to the wire and
with which piece (`body` only while the request is not finished, `end` only by the call
that finished it), `ReadInv` how far the parser is when a head or a part is asked for.
The directions share only the socket and `started`, and are proved apart. An
application that starts the stream again breaks both: the invariant is `StreamInv`, the
types, and the rest as long as the stream is not `restarted`.

**HttpProxySession.** `ProxyInv` is the invariant of the stream together with one
description per place of the pump (`InNew`, `InStart`, ..., `InOver`): at each, what was
read inbound, written upstream, read upstream and written downstream, so that the piece
at hand is the only one that is on one side and not on the other. Steps of the upstream
keep the description of the place that awaits them; a failure at any place arrives at
`over` with all three streams cancelled. `SentInv`: from the answer to its end on, the
whole request is on the upstream wire (`WholeRequest`), so a success means that it was
sent.

**SseClient.** `CloseInv`: whoever makes the subscription terminal is the one that
calls `on_close`, and until then nobody did, also while `cancel()` is between the two.
`EventInv`: until the end, `emitted + pending = parsed`. `LateInv`: an event that was
checked and not yet emitted is one, and no other is checked once the end was reported,
so at most one comes after it. `PlaceInv`: a subscription that is over has no call in
progress on its stream, so what `EndInv` says of an ended one (`ErrorClosesTransport`)
is not undone by a late completion. `AnswerInv`: how a read can end. `AskInv`: which
call of the stream each place awaits, so that one head is asked for before any part,
which is what the stream's invariant needs of its user.

**WebsocketClient.** `Flow`: what was written, what is in `write_queue_` and what is
posted to the strand are, in this order, what was sent, up to the first posted
`close()`; from then on nothing is written without popping an empty queue. `Ends`: a
stream that is open after `close()` has `async_close` among its operations. `Notified`:
`on_close` was called since the last connect only if `close_notified` says so. `Unmade`:
nothing was sent to a session that no connect has made. `Lateness`, for
`OneLateCallback`: nothing is late before the destructor, and a connection that still
holds a checked callback has entered no late one.

**Server.** The accept operation of a server is one token: pending, or its handler
ready, or held by a thread (`Token`), and of a server that runs there is one
(`GoesOn`). `Joined`: `run()` returns when all workers are joined, and those have
ended. **Cron.** `Chain`: the chain of a job is its wait, a queued handler, a worker
in it or a `start()` that has yet to arm it, never two, and a job that runs has one
unless its timer failed. `Known`: `stop()` clears the flag before it cancels, and
whoever takes a job out of `jobs_` leaves it stopped or about to be, so a running job
that is no orphan is known or about to be stopped. `Late`: only the handler that
looked at `is_running_` before the stop can begin a run after it. **DIContainer.**
`Marks`: a type is in `resolving_` exactly while one frame of one thread is past its
first locked part. `Instances`: an instance that was made is cached or about to be, so
`built` stays at one.

Only model-checked:
- all liveness properties: fairness and `ENABLED` are out of the prover's reach;
- `ParserExact` and `FormExact`: what the recursive definitions of `SseParser` and
  `Multipart` compute would need induction over data, and so would the sums of
  `HostPool` (`Proportional`);
- `ParamsRebuildPath` (of `RoutesServe` in `MCRouting`): it concatenates the groups of
  a match, a fold over a sequence, and holds only of patterns whose parameters have
  different names.

## Not modelled

Conversions of one value without further state (cookies, URL-encoded forms, JSON,
headers, MIME types, schemas of DTOs, texts and pages), static file path checks, TLS
itself, logging, the macros, which expand to modelled operations, and the vendored
`croncpp`. In `HttpSession`, an application keeps to one completion per request; it may
throw as well, but what two responses to one request do to the stream and to the context
that `do_read` released is not followed past `overrun`. An unknown-exception handler that
throws itself (`http_router.cpp:674`) is caught by nobody and is left out, and so are two
threads in `start()` of one cron job. The iterator that `DI_Container`
uses after its unlock is taken to be valid.

## State of the work

Every part with state is modelled and checked, and each safety property of the runs is
proved, but for those listed as only model-checked. Left for later: a proof of
`ParamsRebuildPath` for patterns with different names, and a model of what the HTTP
context does with cookies and URL-encoded forms.
