------------------------------ MODULE MCMuPush ------------------------------
(***************************************************************************)
(* Instances of MuPush for TLC: two messages, the spawn of a process, an   *)
(* assignment, and a push of the first message's result.                   *)
(***************************************************************************)
EXTENDS MuPush, TLC

CONSTANTS msg, msg2, spawn, assign, push

MCKind == [r \in Requests |->
    CASE r \in {msg, msg2} -> "message"
      [] r = spawn -> "process"
      [] r = assign -> "assign"
      [] r = push -> "push"]

MCOfMessage == [r \in Requests \cap {push} |-> msg]
=============================================================================
