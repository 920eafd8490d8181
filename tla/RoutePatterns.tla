---------------------------- MODULE RoutePatterns ----------------------------
(***************************************************************************)
(* Route patterns, shared by the HTTP and the WebSocket router.  A pattern, *)
(* and a path, is a sequence of segments; the segments in Params are the    *)
(* parameters of a pattern (`:id` or `{id}`), one per segment.  "/" is the  *)
(* sequence <<"">>.                                                         *)
(***************************************************************************)
EXTENDS Integers, Sequences, FiniteSets

CONSTANT Params     \* the segments that are parameters

ParamAt(p) == {i \in DOMAIN p : p[i] \in Params}
Literals(p) == {i \in DOMAIN p : p[i] \notin Params /\ p[i] # ""}

LastOf(S) == CHOOSE i \in S : \A j \in S : j <= i
FirstOf(S) == CHOOSE i \in S : \A j \in S : i <= j

(* How many segments more than one the last parameter takes. *)
Extra(p, s) == Len(s) - Len(p)

(* The regular expression of parse_path_pattern: a parameter is a non-empty *)
(* segment, except the last one, which is anything, with slashes too.       *)
Matches(p, s) ==
  IF ParamAt(p) = {} THEN s = p
  ELSE LET k == LastOf(ParamAt(p)) IN
       /\ Extra(p, s) >= 0
       /\ \A i \in 1..(k - 1) :
            IF p[i] \in Params THEN s[i] # "" ELSE s[i] = p[i]
       /\ \A i \in (k + 1)..Len(p) : s[i + Extra(p, s)] = p[i]

(* The group of the parameter at i, as a sequence of segments. *)
Group(p, s, i) ==
  IF i = LastOf(ParamAt(p)) THEN SubSeq(s, i, i + Extra(p, s)) ELSE <<s[i]>>

(* The path parameters that a match gives the context: of two parameters    *)
(* with one name, the later one.                                            *)
PathParams(p, s) ==
  [name \in {p[i] : i \in ParamAt(p)} |->
     Group(p, s, LastOf({i \in ParamAt(p) : p[i] = name}))]
=============================================================================
