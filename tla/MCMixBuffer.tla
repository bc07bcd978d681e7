---------------------------- MODULE MCMixBuffer ----------------------------
(* Calls differ in nothing but their names. *)
EXTENDS MixBuffer, TLC

CallSymmetry == Permutations(Streams)
=============================================================================
