----------------------------- MODULE TypedRoutes -----------------------------
(***************************************************************************)
(* Typed routes on top of HttpRouter: a handler declares what it wants of   *)
(* the path, the query and the body; add_typed_route checks the             *)
(* declaration, and each request is bound to it before the handler is       *)
(* called.  How a value is converted is left to the request: a value is     *)
(* good or bad for the type that the handler declared.                      *)
(***************************************************************************)
EXTENDS HttpRouter

CONSTANTS
  NameOf,         \* of a parameter segment, `:id` or `{id}`, its name
  PathNames,      \* names in PathParam descriptors
  QueryNames,     \* names in QueryParam descriptors
  MaxDescriptors  \* bound on the descriptors of a handler

TypedAssumption ==
  DOMAIN NameOf = Params /\ "" \notin Params /\ MaxDescriptors \in Nat

VARIABLE declared   \* of each registration, the descriptors of its handler

typedVars == <<vars, declared>>

(* PathParam, QueryParam (required, optional or with a default) and Body.   *)
Descriptors ==
  [in : {"path"}, name : PathNames, use : {"required"}]
    \cup [in : {"query"}, name : QueryNames,
          use : {"required", "optional", "default"}]
    \cup [in : {"body"}, name : {"body"}, use : {"required"}]

(* What a handler may declare: the compiler refuses a second Body. *)
Signatures ==
  {s \in UNION {[1..n -> Descriptors] : n \in 1..MaxDescriptors} :
     Cardinality({i \in DOMAIN s : s[i].in = "body"}) <= 1}

NamesIn(p) == {NameOf[p[i]] : i \in ParamAt(p)}
GroupsOf(name, p) == {i \in ParamAt(p) : NameOf[p[i]] = name}

(* The decisions of the code; a mutant of one stands before it.             *)
(* add_typed_route: a declared path parameter is one of the pattern. *)
InTemplate(d, p) == d.in = "path" => d.name \in NamesIn(p)

(* add_typed_route: two descriptors of one place and name. *)
Duplicate(s) ==
  \E i, j \in DOMAIN s : i < j /\ s[i].in = s[j].in /\ s[i].name = s[j].name

DefaultIsRequired(d) == d.use # "optional"                     \* mutant
(* append_parameter_documentation: what the descriptor is documented as. *)
Required(d) == d.use = "required"

(* add_typed_route throws for a descriptor without a name, ... *)
Accepts(p, s) ==
  /\ \A i \in DOMAIN s : s[i].name # "" /\ InTemplate(s[i], p)
  /\ ~Duplicate(s)

-----------------------------------------------------------------------------
RegisterTyped(p, m, s, doc) ==
  /\ Accepts(p, s)
  /\ Register(p, m, "sync", doc)
  /\ declared' = Append(declared, s)

RegisterPlain(p, m, kind, doc) ==
  /\ Register(p, m, kind, doc)
  /\ declared' = Append(declared, <<>>)

-----------------------------------------------------------------------------
(* read_route_parameter, on a route with pattern p and a request of which v *)
(* says what is good for the types that the handler declared: each group of *)
(* the path, each value of the query that is there, and the body.  Of two   *)
(* groups with one name the later one is read.                              *)
Read(d, p, v) ==
  CASE d.in = "path" -> IF d.name \in NamesIn(p)
                        THEN v.path[LastOf(GroupsOf(d.name, p))]
                        ELSE "missing"
    [] d.in = "query" -> IF v.query[d.name] = "absent"
                         THEN IF d.use = "required" THEN "missing" ELSE "good"
                         ELSE v.query[d.name]
    [] d.in = "body" -> IF "handler" \in v.body THEN "good" ELSE "bad"

(* The adapted handler: what may become of a request.  The descriptors are  *)
(* read in an order that C++ does not specify, so of several errors any one *)
(* may be thrown.                                                           *)
Outcomes(s, p, v) ==
  LET wrong == {i \in DOMAIN s : Read(s[i], p, v) # "good"} IN
  IF wrong = {} THEN {"called"}
  ELSE {IF s[i].in = "body" THEN "invalidBody" ELSE "invalidParameter" :
          i \in wrong}

-----------------------------------------------------------------------------
TypedInit == Init /\ declared = <<>>

Registration ==
  \E p \in Patterns, m \in Methods, doc \in Docs \cup {NoDoc} :
    \/ \E s \in Signatures : RegisterTyped(p, m, s, doc)
    \/ \E kind \in PlainKinds : RegisterPlain(p, m, kind, doc)
    \/ DocumentRoute(p, m, doc) /\ UNCHANGED declared

TypedNext ==
  \/ Registration
  \/ \E b \in Bases : SetBasePath(b) /\ UNCHANGED declared

TypedSpec == TypedInit /\ [][TypedNext]_typedVars

-----------------------------------------------------------------------------
(* A typed handler that serves a request finds all its path parameters,     *)
(* whatever base path its route was registered under and whichever route    *)
(* was registered before or after it.                                       *)
PathParamsPresent ==
  \A t \in Paths, m \in Requests :
    LET got == Serve(t, m) IN
    got.kind = "sync" =>
      \A i \in DOMAIN declared[got.handler] :
        declared[got.handler][i].in = "path" =>
          declared[got.handler][i].name \in NamesIn(routes[got.entry].path)
=============================================================================
