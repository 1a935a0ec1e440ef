------------------------------ MODULE MCMuCron ------------------------------
(***************************************************************************)
(* Instances of MuCron for TLC: a process that is started and stopped by   *)
(* requests that overlap, with errors and scheduled messages among its     *)
(* results.                                                                *)
(***************************************************************************)
EXTENDS MuCron, TLC

Symmetric == Permutations(Callers)
=============================================================================
