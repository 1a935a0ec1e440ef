---------------------------- MODULE MCMuTaskQueue ----------------------------
(***************************************************************************)
(* Instances of MuTaskQueue for TLC: a message whose result is a message,  *)
(* to a process or to a wallet, a spawn and an assignment.                 *)
(***************************************************************************)
EXTENDS MuTaskQueue, TLC

CONSTANTS msg, reply, mail, spawn, assign

MCKind == [t \in Tasks |-> IF t = spawn THEN "SPAWN"
                           ELSE IF t = assign THEN "ASSIGN" ELSE "MESSAGE"]

MCToWallet == {mail} \cap Tasks

MCOutbox == [t \in Tasks |-> IF t = msg THEN {reply, mail} \cap Tasks ELSE {}]

MCRoots == Tasks \ (IF msg \in Tasks THEN {reply, mail} ELSE {})

Symmetric == Permutations(Queues)
=============================================================================
