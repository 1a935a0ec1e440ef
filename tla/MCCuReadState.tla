--------------------------- MODULE MCCuReadState ---------------------------
(* Instances of CuReadState for TLC. *)
EXTENDS CuReadState, TLC

Symmetric == Permutations(Reads)
=============================================================================
