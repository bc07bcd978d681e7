------------------------------- MODULE MCCalls -------------------------------
(* Values of Calls' constants for TLC. *)
EXTENDS Calls, TLC
Symmetry == Permutations(Ids)
=============================================================================
