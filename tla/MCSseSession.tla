---------------------------- MODULE MCSseSession ----------------------------
(* Instances of SseSession: a small and a large event, of sizes 1 and 2.    *)
EXTENDS SseSession

CONSTANTS small, large

MCEvents == {small, large}
MCSize == [e \in Events |-> IF e = small THEN 1 ELSE 2]
=============================================================================
