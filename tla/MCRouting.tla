------------------------------ MODULE MCRouting ------------------------------
(***************************************************************************)
(* From a request to its handler, in small instances: the HttpRouter with   *)
(* its typed routes and its OpenAPI document, the WebsocketRouter, the       *)
(* interceptors around a handler and the multipart form it may read.  They  *)
(* share no state that changes: each behaviour is about one part, while the *)
(* others rest.  The HttpRouter has four parts, which differ in what the    *)
(* application registers.                                                   *)
(***************************************************************************)
EXTENDS Integers, Sequences, TLC

CONSTANTS
  Threads, NoPath, MaxAdds,         \* of WebsocketRouter
  N, Handlers,                      \* of Interceptors
  Names, MaxParts, MaxData          \* of Multipart

VARIABLES
  part,
  base, routes, descriptors, log, given, declared, installing, page,
  wsRoutes, adds, readers, path, running, called, adding, latest, looked,
  index, active, result, threw, posted, res, failed, dispatched, handled,
  form, body, parsed, fields, files

router == <<base, routes, descriptors, log, given, declared, installing, page>>
websocket == <<wsRoutes, adds, readers, path, running, called, adding, latest,
               looked>>
chain == <<index, active, result, threw, posted, res, failed, dispatched,
           handled>>
multipart == <<form, body, parsed, fields, files>>
all == <<router, websocket, chain, multipart, part>>

-----------------------------------------------------------------------------
(* Patterns that overlap in every way: literal against parameter, equal     *)
(* specificity, a parameter before a literal, a tail.                       *)
RoutesPart == INSTANCE HttpRouter WITH
  Params <- {":a", ":b"},
  Patterns <- {<<"u", "me">>, <<"u", ":a">>, <<":a", "me">>, <<":a", ":b">>},
  Paths <- {<<"">>, <<"u">>, <<"u", "">>, <<"u", "me">>, <<"u", "x">>,
            <<"x", "me">>, <<"x", "y">>, <<"u", "x", "me">>, <<"", "me">>,
            <<"u", "me", "x", "y">>, <<"%75", "me">>},
  Decoded <- "%75" :> "u",
  Bases <- {}, Methods <- {"GET", "POST"}, GET <- "GET", HEAD <- "HEAD",
  PlainKinds <- {"sync", "async", "stream"}, Docs <- {}, MaxRegs <- 3,
  MaxDocs <- 0

(* Documentation: a summary; and two headers, one of them without a name,   *)
(* with a schema of the body, which counts only if it is given with the     *)
(* registration.                                                            *)
SummaryDoc ==
  [summary |-> TRUE, headers |-> <<>>, schema |-> FALSE, other |-> FALSE]
HeaderDoc ==
  [summary |-> FALSE, schema |-> TRUE, other |-> FALSE,
   headers |-> <<[name |-> "", required |-> TRUE],
                 [name |-> "h", required |-> TRUE]>>]

(* The same two paths registered again and again, documented, hidden and    *)
(* under base paths.                                                        *)
DocsPart == INSTANCE HttpRouter WITH
  Params <- {":a"}, Patterns <- {<<"">>, <<"u", ":a">>},
  Paths <- {}, Decoded <- << >>,
  Bases <- {<<"">>, <<"v">>, <<"v", "">>},
  Methods <- {"GET"}, GET <- "GET", HEAD <- "HEAD",
  PlainKinds <- {"sync", "hidden", "async"},
  Docs <- {SummaryDoc, HeaderDoc}, MaxRegs <- 3, MaxDocs <- 2

Parameters == {":a", ":b"}
NameOfParameter == [s \in Parameters |-> IF s = ":b" THEN "b" ELSE "a"]
DocumentPaths == {<<"docs">>, <<"spec">>}

(* Typed handlers, under a base path that has a parameter too. *)
TypedPart == INSTANCE OpenApi WITH
  Params <- Parameters, NameOf <- NameOfParameter,
  Patterns <- {<<"u", ":a">>, <<":b">>},
  Paths <- {<<"x">>, <<"u", "x">>, <<"v", "u", "x">>, <<"v", "x">>},
  Decoded <- << >>, Bases <- {<<":a">>},
  Methods <- {"GET"}, GET <- "GET", HEAD <- "HEAD", MaxRegs <- 2, MaxDocs <- 1,
  Docs <- {HeaderDoc},
  PathNames <- {"a", "b"}, QueryNames <- {"q", ""}, MaxDescriptors <- 2,
  PlainKinds <- {"sync"}, DocPaths <- DocumentPaths

(* Routes of every kind at and around the paths of the documentation. *)
OpenApiPart == INSTANCE OpenApi WITH
  Params <- Parameters, NameOf <- NameOfParameter,
  Patterns <- {<<"docs">>, <<":b">>},
  Paths <- {<<"docs">>, <<"spec">>, <<"x">>},
  Decoded <- << >>, Bases <- {},
  Methods <- {"GET"}, GET <- "GET", HEAD <- "HEAD", MaxRegs <- 4, MaxDocs <- 0,
  Docs <- {}, PathNames <- {"b"}, QueryNames <- {"q"}, MaxDescriptors <- 1,
  PlainKinds <- {"sync", "async", "stream"}, DocPaths <- DocumentPaths

(* A literal route, and two dynamic ones of different lengths, that match   *)
(* the same paths.                                                          *)
WsPart == INSTANCE WebsocketRouter WITH
  Params <- {":x", ":y"}, Patterns <- {<<"b">>, <<":x">>, <<":x", ":y">>},
  Paths <- {<<"a", "b">>, <<"a", "b", "c">>, <<"c">>}, Base <- <<"a">>,
  routes <- wsRoutes

ChainPart == INSTANCE Interceptors
FormPart == INSTANCE Multipart

ASSUME
  /\ RoutesPart!RouterAssumption /\ DocsPart!RouterAssumption
  /\ TypedPart!RouterAssumption /\ TypedPart!TypedAssumption
  /\ TypedPart!OpenApiAssumption
  /\ OpenApiPart!RouterAssumption /\ OpenApiPart!TypedAssumption
  /\ OpenApiPart!OpenApiAssumption
  /\ WsPart!WsRouterAssumption
  /\ ChainPart!ChainAssumption
  /\ FormPart!MultipartAssumption

-----------------------------------------------------------------------------
NoRequest ==
  /\ index = 0 /\ active = {} /\ result = << >> /\ threw = {} /\ posted = <<>>
  /\ res = ChainPart!Response("none", "none", {}) /\ failed = FALSE
  /\ dispatched = 0 /\ handled = FALSE
NoForm ==
  /\ form = <<>> /\ body = <<>> /\ parsed = FALSE
  /\ fields = << >> /\ files = << >>

MCInit ==
  /\ OpenApiPart!OpenApiInit /\ WsPart!Init
  /\ \/ /\ part \in {"routes", "docs", "typed", "openapi", "websocket"}
        /\ NoRequest /\ NoForm
     \/ part = "chain" /\ ChainPart!Init /\ NoForm
     \/ part = "form" /\ FormPart!Init /\ NoRequest

RouterNext ==
  \/ part = "routes" /\ RoutesPart!Next
       /\ UNCHANGED <<declared, installing, page>>
  \/ part = "docs" /\ DocsPart!Next
       /\ UNCHANGED <<declared, installing, page>>
  \/ part = "typed" /\ TypedPart!OpenApiNext
  \/ part = "openapi" /\ OpenApiPart!OpenApiNext

MCNext ==
  \/ RouterNext /\ UNCHANGED <<websocket, chain, multipart, part>>
  \/ part = "websocket" /\ WsPart!Next
       /\ UNCHANGED <<router, chain, multipart, part>>
  \/ part = "chain" /\ ChainPart!Next
       /\ UNCHANGED <<router, websocket, multipart, part>>
  \/ part = "form" /\ FormPart!Next
       /\ UNCHANGED <<router, websocket, chain, part>>

(* The fairness of each part, for the behaviours that are about it. *)
MCFairness ==
  /\ \A t \in Threads :
       /\ WF_websocket(part = "websocket" /\ WsPart!Step(t))
       /\ SF_websocket(part = "websocket" /\ WsPart!AddHandler(t))
  /\ WF_chain(part = "chain" /\ ChainPart!Dispatch)
  /\ \A i \in 1..N : WF_chain(part = "chain" /\ ChainPart!Owed(i))

MCSpec ==
  MCInit /\ [][MCNext]_all /\ MCFairness

-----------------------------------------------------------------------------
(* The HttpRouter's routes serve the requests that they should, and their   *)
(* handlers see the path of the request in its parameters.                  *)
RoutesServe ==
  part = "routes" => RoutesPart!RoutesServe /\ RoutesPart!ParamsRebuildPath

(* The OpenAPI document tells of what is served: descriptors follow the     *)
(* registrations and the documentation given, documented parameters are the *)
(* ones that handlers read, those of the query once each, and the           *)
(* documentation page links to the document.                                *)
DocumentMatches ==
  /\ part = "docs" => DocsPart!DescriptorsExact
  /\ part = "typed" => /\ TypedPart!PathParamsPresent
                       /\ TypedPart!DocumentHonest
                       /\ TypedPart!UniqueParameters
  /\ part = "openapi" => OpenApiPart!DocsLinkServed

(* A registration takes nothing else away: no handler when documentation is *)
(* installed, and a WebSocket handler only from the lookups made after it.  *)
RegistrationKeeps ==
  [][/\ OpenApiPart!RoutesStay
     /\ WsPart!OnlyFoundReplaced]_all

(* Those of WebsocketRouter: lookups while routes are replaced. *)
StaticFirst == WsPart!StaticFirst
AddCompletes == WsPart!AddCompletes

(* Those of Interceptors: one request through the chain. *)
ChainSound == part = "chain" => ChainPart!ChainSound
Dispatched == ChainPart!Dispatched

(* That of Multipart: what comes out of a form. *)
FormExact == FormPart!FormExact
==============================================================================
