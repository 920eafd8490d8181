------------------------------ MODULE MCOpenApi ------------------------------
(* OpenApi under a base path, with a literal route that the documentation   *)
(* could clash with and a parameter route that matches its path.            *)
EXTENDS OpenApi

MCParams == {":b"}
MCNameOf == [s \in MCParams |-> "b"]
MCPatterns == {<<"docs">>, <<":b">>}
MCPaths == {<<"docs">>, <<"spec">>, <<"v", "docs">>}
MCDecoded == << >>
MCBases == {<<"v">>}
MCDocPaths == {<<"docs">>, <<"spec">>}
=============================================================================
