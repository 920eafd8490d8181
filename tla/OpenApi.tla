------------------------------- MODULE OpenApi -------------------------------
(***************************************************************************)
(* The OpenAPI document of a router, and the two routes that serve it: what *)
(* a document made at any time says of each operation, against what the     *)
(* route that serves the operation does with a request.                     *)
(***************************************************************************)
EXTENDS TypedRoutes

CONSTANT DocPaths   \* the literal paths given to install_openapi_routes

OpenApiAssumption == DocPaths \subseteq Seq(STRING)

VARIABLES
  installing,     \* the paths while install_openapi_routes is running
  page            \* what the documentation page was made from

openApiVars == <<typedVars, installing, page>>

Nothing == [spec |-> <<>>, docs |-> <<>>, handler |-> 0]

-----------------------------------------------------------------------------
(* document_path: both forms of a parameter become `{id}`. *)
DocumentPath(p) ==
  [i \in DOMAIN p |->
     IF p[i] \in Params THEN [param |-> TRUE, text |-> NameOf[p[i]]]
     ELSE [param |-> FALSE, text |-> p[i]]]

(* make_operation: a parameter for each occurrence in the path, of the      *)
(* declared type if there is one, for each declared one of the query, and   *)
(* for each header of the documentation that has a name; and the body that  *)
(* the request_schema of the documentation, or of the handler, asks for.    *)
Operation(d) ==
  LET s == declared[d.of]
      typed == {s[i].name : i \in {j \in DOMAIN s : s[j].in = "path"}}
      query == {i \in DOMAIN s : s[i].in = "query"}
      headers == {i \in DOMAIN d.doc.headers : d.doc.headers[i].name # ""}
  IN  [path |-> {[at |-> i, name |-> NameOf[d.path[i]],
                  typed |-> NameOf[d.path[i]] \in typed] :
                   i \in ParamAt(d.path)},
       query |-> {[at |-> i, name |-> s[i].name,
                   required |-> Required(s[i])] : i \in query},
       header |-> {[at |-> i, name |-> d.doc.headers[i].name,
                    required |-> d.doc.headers[i].required] : i \in headers},
       body |-> IF d.schema THEN "documented"
                ELSE IF \E i \in DOMAIN s : s[i].in = "body" THEN "handler"
                ELSE "none"]

(* The place of a descriptor in route_descriptors_: that of the first       *)
(* registration since it was last removed.                                  *)
Place(d) ==
  LET same == {i \in DOMAIN log : log[i].path = d.path
                                    /\ log[i].method = d.method}
      gone == {i \in same : log[i].kind = "hidden"}
  IN  FirstOf({i \in same : \A j \in gone : j < i})

(* generate_openapi: the operation of a path and a method, if there is one; *)
(* the last descriptor that has this documented path counts.                *)
Described(p, m) ==
  {d \in descriptors : DocumentPath(d.path) = DocumentPath(p)
                         /\ d.method = m}
OperationOf(p, m) ==
  Operation(CHOOSE d \in Described(p, m) :
              \A e \in Described(p, m) : Place(e) <= Place(d))

OverwritesRoutes(spec, site) == FALSE                          \* mutant
(* install_openapi_routes: one of the paths has a GET route. *)
Conflict(spec, site) ==
  \E d \in descriptors : d.method = GET /\ d.path \in {spec, site}

(* install_openapi_routes: the document, then the page. *)
InstallSpec(spec, site) ==
  /\ spec # site /\ ~Conflict(spec, site)
  /\ Len(log) + 2 <= MaxRegs
  /\ RegisterPlain(spec, GET, "hidden", NoDoc)
  /\ installing' = [spec |-> spec, docs |-> site, handler |-> Len(log) + 1]
  /\ UNCHANGED page

InstallDocs ==
  /\ installing # Nothing
  /\ RegisterPlain(installing.docs, GET, "hidden", NoDoc)
  /\ page' = installing
  /\ installing' = Nothing

OpenApiInit == TypedInit /\ installing = Nothing /\ page = Nothing

OpenApiNext ==
  \/ InstallDocs
  \/ /\ installing = Nothing
     /\ \/ TypedNext /\ UNCHANGED <<installing, page>>
        \/ \E spec, site \in DocPaths : InstallSpec(spec, site)

OpenApiSpec == OpenApiInit /\ [][OpenApiNext]_openApiVars

-----------------------------------------------------------------------------
(* What matters of a request for an operation: whether the groups of the   *)
(* path and the values of the query are good for their types, the headers   *)
(* that are there, and the schemas that the body is good for, which are     *)
(* those of the handler and of the documentation.                           *)
Values(op) ==
  [path : [{n.at : n \in op.path} -> {"good", "bad"}],
   query : [QueryNames \ {""} -> {"absent", "good", "bad"}],
   headers : SUBSET {n.name : n \in op.header},
   body : SUBSET {"handler", "documented"}]

QueryAllowed(op, v) ==
  \A n \in op.query : /\ v.query[n.name] # "bad"
                      /\ n.required => v.query[n.name] # "absent"

(* The request is one that the operation allows. *)
Conforms(op, v) ==
  /\ \A n \in op.path : n.typed => v.path[n.at] = "good"
  /\ QueryAllowed(op, v)
  /\ \A n \in op.header : n.required => n.name \in v.headers
  /\ op.body # "none" => op.body \in v.body

(* What the server checks of it: of parameters with one name the last one,  *)
(* no headers, and a body only against the handler's own schema.            *)
Checked(op, v) ==
  /\ \A n \in op.path :
       n.typed /\ (\A k \in op.path : k.name = n.name => k.at <= n.at)
         => v.path[n.at] = "good"
  /\ QueryAllowed(op, v)
  /\ op.body = "handler" => "handler" \in v.body

(* The document tells the truth of the requests that a route serves, after  *)
(* any order of registrations and under any base path.  One that the        *)
(* operation documented for the route allows has no invalid parameter, and  *)
(* reaches the handler, except that where the application's documentation   *)
(* has a request_schema of its own the handler may refuse the body.  One    *)
(* that reaches the handler is allowed, as far as the document tells of     *)
(* what the server checks.                                                  *)
DocumentHonest ==
  \A t \in Paths, m \in Requests :
    LET got == Serve(t, m)  verb == IF m = HEAD THEN GET ELSE m IN
    got.kind = "sync" =>
      LET p == routes[got.entry].path  op == OperationOf(p, verb) IN
      Described(p, verb) # {} =>
        \A v \in Values(op) :
          LET out == Outcomes(declared[got.handler], p, v) IN
          /\ Conforms(op, v) => /\ "invalidParameter" \notin out
                                /\ op.body # "documented" => out = {"called"}
          /\ "called" \in out => Checked(op, v)

(* An operation has one query parameter of a name, as OpenAPI demands.  (Of *)
(* the path and the headers it has as many as the pattern with its base     *)
(* path, and the documentation, repeat.)                                    *)
UniqueParameters ==
  \A d \in descriptors :
    \A a, b \in Operation(d).query : a.name = b.name => a = b

(* Installing the documentation takes no handler from the application: no   *)
(* step of it leaves a handler without its route.                           *)
RoutesStay ==
  \A i \in DOMAIN routes, m \in Methods :
    LET h == routes[i].sync[m] IN
    (h # 0 /\ (installing' # Nothing \/ page' # page))
      => (log[h].kind = "hidden"
           \/ \E j \in DOMAIN routes' : /\ routes'[j].sync[m] = h
                                        /\ routes'[j].path = routes[i].path)
KeepsRoutes == [][RoutesStay]_openApiVars

(* Until the application registers a route at its path, the specification   *)
(* that the documentation page links to is served there, whatever routes    *)
(* with parameters match the path.                                          *)
DocsLinkServed ==
  page # Nothing
    /\ (\A i \in DOMAIN log : i > page.handler /\ log[i].path = page.spec
                                => log[i].kind = "hidden")
    => LET got == Serve(page.spec, GET) IN
       got.kind = "sync" /\ log[got.handler].kind = "hidden"
=============================================================================
