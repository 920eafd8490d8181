------------------------------ MODULE HostPool ------------------------------
(***************************************************************************)
(* HostPool: weighted choice of a host.  The random number is an input,    *)
(* any of 1..total_weight_ with the same probability, so that the numbers  *)
(* that lead to a host are its share.                                      *)
(***************************************************************************)
EXTENDS Integers, Sequences, FiniteSets

CONSTANTS
  MaxHosts,       \* hosts in a pool
  Weights         \* weights an application gives, also 0

PoolAssumption == MaxHosts \in Nat /\ Weights \subseteq Int

VARIABLES
  weights,        \* hosts_: the weight of each
  cumulative,     \* cumulative_weights_
  picked          \* the index of the url that pick() returned, 0 for none

vars == <<weights, cumulative, picked>>

(* The decisions of the code; a mutant of one stands before it.             *)
(* Every host counts for at least 1. *)
Counted(w) == IF w < 1 THEN 1 ELSE w

UpperBound(c, r) ==                                            \* mutant
  Cardinality({i \in DOMAIN c : c[i] <= r}) + 1
(* std::lower_bound: the first entry that is not less than r. *)
LowerBound(c, r) == Cardinality({i \in DOMAIN c : c[i] < r}) + 1

(* The constructor sums the weights up. *)
Cumulative(ws) ==
  LET sum[i \in 0..Len(ws)] == IF i = 0 THEN 0
                               ELSE sum[i - 1] + Counted(ws[i])
  IN  [i \in 1..Len(ws) |-> sum[i]]

TotalWeight == IF cumulative = <<>> THEN 0 ELSE cumulative[Len(cumulative)]

(* pick(), when the random number is r. *)
Picked(r) == IF Len(cumulative) = 1 THEN 1 ELSE LowerBound(cumulative, r)

Pick ==
  /\ \/ cumulative = <<>> /\ picked' = 0
     \/ \E r \in 1..TotalWeight : picked' = Picked(r)
  /\ UNCHANGED <<weights, cumulative>>

Init ==
  /\ weights \in UNION {[1..n -> Weights] : n \in 0..MaxHosts}
  /\ cumulative = Cumulative(weights)
  /\ picked = 0

Next == Pick
Spec == Init /\ [][Next]_vars

-----------------------------------------------------------------------------
(* The share of a host in the random numbers is its weight, and at least 1: *)
(* no host is starved, none gets what another one's weight should have, and *)
(* no number leads past the last host.                                      *)
Proportional ==
  /\ picked \in 0..Len(weights)
  /\ \A i \in DOMAIN weights :
       Len(weights) > 1 =>
         Cardinality({r \in 1..TotalWeight : Picked(r) = i})
           = (IF weights[i] > 1 THEN weights[i] ELSE 1)
=============================================================================
