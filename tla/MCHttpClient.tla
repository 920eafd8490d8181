---------------------------- MODULE MCHttpClient ----------------------------
(***************************************************************************)
(* The HTTP client on small instances: one request, or the choice of a      *)
(* host.  HttpClient picks a host before the request begins and the pool    *)
(* keeps no state that a request changes, so that each behaviour is about   *)
(* one of the two parts while the other one rests.                          *)
(***************************************************************************)
EXTENDS HttpClient

CONSTANTS MaxHosts, Weights   \* of HostPool

VARIABLES weights, cumulative, picked, part

Pool == INSTANCE HostPool

ASSUME Pool!PoolAssumption

pool == <<weights, cumulative, picked>>

MCInit ==
  \/ part = "request" /\ Init
     /\ weights = <<>> /\ cumulative = <<>> /\ picked = 0
  \/ /\ part = "pool" /\ Pool!Init
     /\ Init /\ ~secure /\ ~served /\ deadlines = {}

MCNext ==
  \/ part = "request" /\ Next /\ UNCHANGED <<pool, part>>
  \/ part = "pool" /\ Pool!Next /\ UNCHANGED <<vars, part>>

MCSpec == MCInit /\ [][MCNext]_<<vars, pool, part>> /\ Fairness

(* HostPool's property: every host is picked for as many of the random      *)
(* numbers as its weight.                                                   *)
Proportional == Pool!Proportional
=============================================================================
