----------------------------- MODULE HttpRouter -----------------------------
(***************************************************************************)
(* HttpRouter: the routes that an application registers, in every order,    *)
(* the descriptors it keeps of them for OpenAPI, and which handler a        *)
(* request then gets.  A handler is the number of the registration that     *)
(* brought it.  Serving a request changes nothing here: what it gets is a   *)
(* function of the state, and the properties quantify over the requests.    *)
(***************************************************************************)
EXTENDS RoutePatterns, SequencesExt

CONSTANTS
  Patterns,       \* the patterns an application may register
  Paths,          \* the paths a client may request, as it writes them
  Decoded,        \* of a percent-encoded segment, the segment it stands for
  Bases,          \* the arguments of set_base_path
  Methods,        \* the methods of the registrations
  GET, HEAD,      \* GET is one of them, HEAD is not
  PlainKinds,     \* the kinds of the registrations, among Kinds
  Docs,           \* the documentation an application may give
  MaxRegs,        \* bound on registrations
  MaxDocs         \* bound on documentation given, with or after them

Kinds == {"sync", "hidden", "async", "stream"}

(* RouteDocumentation: the headers it lists, and whether it has a summary,  *)
(* a request_schema, and a description or a response_schema.                *)
Documentation ==
  [summary : BOOLEAN, headers : Seq([name : STRING, required : BOOLEAN]),
   schema : BOOLEAN, other : BOOLEAN]
NoDoc == [summary |-> FALSE, headers |-> <<>>, schema |-> FALSE,
          other |-> FALSE]

RouterAssumption ==
  /\ Patterns \subseteq Seq(STRING) /\ Bases \subseteq Seq(STRING)
  /\ GET \in Methods /\ HEAD \notin Methods
  /\ PlainKinds \subseteq Kinds /\ Docs \subseteq Documentation
  /\ {MaxRegs, MaxDocs} \subseteq Nat

VARIABLES
  base,           \* base_path_
  routes,         \* routes_: in the order of the sort
  descriptors,    \* route_descriptors_
  log,            \* history: the registrations so far
  given           \* history: the documentation given to a path and a method,
                  \* NoDoc where a hidden registration took it away

vars == <<base, routes, descriptors, log, given>>

-----------------------------------------------------------------------------
(* The decisions of the code; a mutant of one stands before it.             *)
FewerLiteralsFirst(a, b) ==                                    \* mutant
  LET la == Cardinality(Literals(a))  lb == Cardinality(Literals(b)) IN
  IF la # lb THEN la < lb
  ELSE Cardinality(ParamAt(a)) < Cardinality(ParamAt(b))
(* RouteEntry::compare_specificity: pattern a comes before pattern b. *)
Before(a, b) ==
  LET la == Cardinality(Literals(a))  lb == Cardinality(Literals(b)) IN
  IF la # lb THEN la > lb
  ELSE Cardinality(ParamAt(a)) < Cardinality(ParamAt(b))

(* The entry that already has this path. *)
EntryOf(path) == {i \in DOMAIN routes : routes[i].path = path}

(* The descriptors without the one that a registration replaces; only an    *)
(* undocumented one removes it for good.                                    *)
WithoutOld(ds, path, m, kind) ==
  {d \in ds : ~(d.path = path /\ d.method = m)}

(* record_route_descriptor: a registration without documentation keeps that *)
(* of the one before it, any other replaces it as a whole.                  *)
Documents(old, doc) == IF doc = NoDoc THEN old ELSE doc

-----------------------------------------------------------------------------
StripSlashes(b) ==
  LET kept == {i \in DOMAIN b : b[i] # ""} IN
  IF kept = {} THEN <<>> ELSE SubSeq(b, 1, LastOf(kept))

SetBasePath(b) ==
  /\ base # StripSlashes(b)
  /\ base' = StripSlashes(b)
  /\ UNCHANGED <<routes, descriptors, log, given>>

ApplyBasePath(p) ==
  IF base = <<>> THEN p ELSE base \o (IF p = <<"">> THEN <<>> ELSE p)

NoHandlers == [m \in Methods |-> 0]
NewEntry(path) ==
  [path |-> path, sync |-> NoHandlers, async |-> NoHandlers,
   stream |-> NoHandlers]

Sorted(s) ==
  \A i, j \in DOMAIN s : i < j => ~Before(s[j].path, s[i].path)

(* The entry with a handler more, in the map of its kind: an undocumented   *)
(* route is a synchronous one.                                              *)
WithHandler(e, m, kind, n) ==
  CASE kind = "async" -> [e EXCEPT !.async = [@ EXCEPT ![m] = n]]
    [] kind = "stream" -> [e EXCEPT !.stream = [@ EXCEPT ![m] = n]]
    [] OTHER -> [e EXCEPT !.sync = [@ EXCEPT ![m] = n]]

(* add_route, async_route and stream: the handler goes into the entry of    *)
(* its path; a new entry is sorted in, and std::sort orders equally         *)
(* specific ones as it likes.                                               *)
AddHandler(path, m, kind, n) ==
  IF EntryOf(path) # {}
  THEN routes' = [routes EXCEPT ![FirstOf(EntryOf(path))] =
                    WithHandler(@, m, kind, n)]
  ELSE LET e == WithHandler(NewEntry(path), m, kind, n) IN
       routes' \in {s \in SetToSeqs(ToSet(routes) \cup {e}) : Sorted(s)}

OldDoc(path, m) ==
  LET old == {d \in descriptors : d.path = path /\ d.method = m} IN
  IF old = {} THEN NoDoc ELSE (CHOOSE d \in old : TRUE).doc

(* One registration.  The documentation's request_schema goes before that   *)
(* of the handler, but only with the registration that brings it.           *)
Register(p, m, kind, doc) ==
  LET path == ApplyBasePath(p)  n == Len(log) + 1
      d == [path |-> path, method |-> m, of |-> n,
            doc |-> Documents(OldDoc(path, m), doc), schema |-> doc.schema] IN
  /\ Len(log) < MaxRegs
  /\ doc # NoDoc => kind = "sync" /\ Len(given) < MaxDocs
  /\ given' = IF doc = NoDoc /\ kind # "hidden" THEN given
              ELSE Append(given, [path |-> path, method |-> m, doc |-> doc])
  /\ AddHandler(path, m, kind, n)
  /\ descriptors' = WithoutOld(descriptors, path, m, kind)
                      \cup (IF kind = "hidden" THEN {} ELSE {d})
  /\ log' = Append(log, [pattern |-> p, path |-> path, method |-> m,
                         kind |-> kind])
  /\ UNCHANGED base

(* document_route, which does not apply the base path; it throws, and       *)
(* changes nothing, if no descriptor has the path and the method.           *)
DocumentRoute(p, m, doc) ==
  LET hit == {d \in descriptors : d.path = p /\ d.method = m} IN
  /\ hit # {} /\ Len(given) < MaxDocs
  /\ given' = Append(given, [path |-> p, method |-> m, doc |-> doc])
  /\ descriptors' = (descriptors \ hit)
                      \cup {[d EXCEPT !.doc = doc] : d \in hit}
  /\ UNCHANGED <<base, routes, log>>

-----------------------------------------------------------------------------
(* What a request gets. *)
Answer(kind, h, i) == [kind |-> kind, handler |-> h, entry |-> i]
NotFound == Answer("notFound", 0, 0)

MatchingEntries(s) == {i \in DOMAIN routes : Matches(routes[i].path, s)}

(* The handler for a method, HEAD falling back to GET. *)
HandlerFor(handlers, m) ==
  IF m \in Methods THEN handlers[m]
  ELSE IF m = HEAD THEN handlers[GET] ELSE 0

(* HttpContext::path(), the decoded path of the target t. *)
PathOf(t) ==
  [i \in DOMAIN t |-> IF t[i] \in DOMAIN Decoded THEN Decoded[t[i]] ELSE t[i]]

(* is_stream_route and dispatch_stream: the first match decides. *)
StreamHandler(s, m) ==
  IF MatchingEntries(s) = {} \/ m \notin Methods THEN NotFound
  ELSE LET i == FirstOf(MatchingEntries(s)) IN
       IF routes[i].stream[m] = 0 THEN NotFound
       ELSE Answer("stream", routes[i].stream[m], i)

(* dispatch_async: so it does here. *)
AsyncHandler(s, m) ==
  IF MatchingEntries(s) = {} THEN NotFound
  ELSE LET i == FirstOf(MatchingEntries(s))
           h == HandlerFor(routes[i].async, m) IN
       IF h = 0 THEN NotFound ELSE Answer("async", h, i)

(* dispatch ends its search at entry i: with its handler, or with 405,      *)
(* except that GET and HEAD try the next one.                               *)
Decides(i, m) ==
  HandlerFor(routes[i].sync, m) # 0 \/ m \notin {GET, HEAD}

Dispatch(s, m) ==
  LET deciding == {i \in MatchingEntries(s) : Decides(i, m)} IN
  IF deciding = {} THEN NotFound
  ELSE LET i == FirstOf(deciding)  h == HandlerFor(routes[i].sync, m) IN
       IF h = 0 THEN Answer("notAllowed", 0, i) ELSE Answer("sync", h, i)

(* The session: a stream route, which it recognises from the target as it   *)
(* was sent, else an asynchronous one, else dispatch.                       *)
Serve(t, m) ==
  LET s == PathOf(t) IN
  IF StreamHandler(t, m) # NotFound THEN StreamHandler(s, m)
  ELSE IF AsyncHandler(s, m) # NotFound THEN AsyncHandler(s, m)
       ELSE Dispatch(s, m)

(* handle_method_not_allowed: the methods that Allow names. *)
Allow(i) == {m \in Methods : routes[i].sync[m] # 0}

-----------------------------------------------------------------------------
Init ==
  /\ base = <<>> /\ routes = <<>> /\ descriptors = {} /\ log = <<>>
  /\ given = <<>>

Next ==
  \/ \E b \in Bases : SetBasePath(b)
  \/ \E p \in Patterns, m \in Methods, doc \in Docs \cup {NoDoc} :
       \/ \E kind \in PlainKinds : Register(p, m, kind, doc)
       \/ DocumentRoute(p, m, doc)

Spec == Init /\ [][Next]_vars

-----------------------------------------------------------------------------
Requests == Methods \cup {HEAD}

(* The number of the last registration of a kind for a path and a method. *)
Latest(path, m, kinds) ==
  LET hits == {i \in DOMAIN log : /\ log[i].path = path /\ log[i].method = m
                                  /\ log[i].kind \in kinds} IN
  IF hits = {} THEN 0 ELSE LastOf(hits)

(* doc/api-reference.md: more literal segments, then fewer parameters.     *)
MoreSpecific(p, q) ==
  LET lits(x) == Cardinality(Literals(x))
      params(x) == Cardinality(ParamAt(x)) IN
  lits(p) > lits(q) \/ (lits(p) = lits(q) /\ params(p) < params(q))

(* dispatch: a GET or HEAD request that several routes match goes to the    *)
(* most specific one that has a synchronous GET handler: a route registered *)
(* later, or less specific, or for other methods or kinds, takes it from    *)
(* none of them.                                                            *)
BestMatchServes ==
  \A s \in Paths, m \in {GET, HEAD} :
    LET able == {i \in DOMAIN log :
                   /\ Matches(log[i].path, s) /\ log[i].method = GET
                   /\ log[i].kind \in {"sync", "hidden"}}
        best == {i \in able : \A j \in able :
                   ~MoreSpecific(log[j].path, log[i].path)}
        got == Dispatch(s, m) IN
    /\ got.kind \in {"sync", "notFound"}
    /\ (able = {}) <=> (got.kind = "notFound")
    /\ able # {} => got.handler \in best

(* For the other methods, and for stream and asynchronous handlers, only    *)
(* the most specific of all matching routes counts: such a handler serves   *)
(* only if no matching route, of any method and kind, is more specific; a   *)
(* 405 comes from such a route too, and a 404 only if none matches.  (So a  *)
(* route for POST at /u/me hides the asynchronous GET of /u/:a there.  With *)
(* encoded characters a stream route may be looked up in vain, see Serve.)  *)
FirstMatchDecides ==
  \A t \in Paths, m \in Requests :
    LET got == Serve(t, m)
        routed == {i \in DOMAIN log : Matches(log[i].path, PathOf(t))}
        Best(p) == \A j \in routed : ~MoreSpecific(log[j].path, p) IN
    /\ got.kind \in {"stream", "async"}
         \/ (got.kind = "sync" /\ m \notin {GET, HEAD})
         => got.handler \in routed /\ Best(log[got.handler].path)
    /\ got.kind = "notAllowed" =>
         /\ m \notin {GET, HEAD} /\ Best(routes[got.entry].path)
         /\ Latest(routes[got.entry].path, m, {"sync", "hidden"}) = 0
    /\ got.kind = "notFound" /\ m \notin {GET, HEAD} /\ PathOf(t) = t
         => routed = {}

(* Whatever was registered before it, under the same path or others, the    *)
(* last handler registered for a path, a method and a kind is the one that  *)
(* serves them, and earlier ones are gone.                                  *)
LatestServes ==
  \A i \in DOMAIN routes, m \in Methods :
    /\ routes[i].sync[m] = Latest(routes[i].path, m, {"sync", "hidden"})
    /\ routes[i].async[m] = Latest(routes[i].path, m, {"async"})
    /\ routes[i].stream[m] = Latest(routes[i].path, m, {"stream"})

(* The Allow header of a 405 leads no client astray: a method that it names *)
(* is served when the client tries it, whatever stream and asynchronous     *)
(* handlers and other entries match the path.  (Of a path with encoded      *)
(* characters a stream route may be looked up in vain, see Serve.)          *)
AllowHonest ==
  \A t \in Paths, m \in Methods :
    LET got == Serve(t, m) IN
    PathOf(t) = t /\ got.kind = "notAllowed" =>
      \A k \in Allow(got.entry) : Serve(t, k).handler # 0

(* A request is served by the latest handler of the route that its method   *)
(* and the kind of the handler call for, and an Allow header names what     *)
(* would be served.                                                         *)
RoutesServe ==
  BestMatchServes /\ FirstMatchDecides /\ LatestServes /\ AllowHonest

(* The parameters that a handler sees rebuild the path of the request.      *)
ParamsRebuildPath ==
  \A t \in Paths, m \in Requests :
    LET got == Serve(t, m)  s == PathOf(t) IN
    got.handler # 0 =>
      LET p == routes[got.entry].path  env == PathParams(p, s) IN
      s = FlattenSeq([i \in DOMAIN p |->
                        IF p[i] \in Params THEN env[p[i]] ELSE <<p[i]>>])

(* The documentation given last to a path and a method. *)
LastGiven(path, m) ==
  LET hits == {k \in DOMAIN given : given[k].path = path
                                      /\ given[k].method = m} IN
  IF hits = {} THEN NoDoc ELSE given[LastOf(hits)].doc

(* OpenAPI describes what is served: a path and a method have a descriptor  *)
(* exactly if their last registration was documented, one only, and it is   *)
(* that registration's.  Their documentation is the last that was given to  *)
(* them since they were last hidden: a registration without documentation   *)
(* takes none away, nor does one under another path or base path; one that  *)
(* has any replaces all of it, so a summary may go when headers are given.  *)
DescriptorsExact ==
  \A i \in DOMAIN log :
    LET path == log[i].path  m == log[i].method
        last == Latest(path, m, Kinds)
        ds == {d \in descriptors : d.path = path /\ d.method = m} IN
    IF log[last].kind = "hidden" THEN ds = {}
    ELSE /\ Cardinality(ds) = 1
         /\ \A d \in ds : d.of = last /\ d.doc = LastGiven(path, m)
=============================================================================
