------------------------------ MODULE MCFlows ------------------------------
(* Flows with small constants for TLC. *)
EXTENDS Flows, TLC
Symmetry == Permutations(Entries) \cup Permutations(Keys) \cup Permutations(Aggregates)
=============================================================================
