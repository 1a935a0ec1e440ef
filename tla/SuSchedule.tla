----------------------------- MODULE SuSchedule -----------------------------
(***************************************************************************)
(* What a Scheduler Unit promises of the schedules it keeps: each process  *)
(* has an append-only list of assignments with the nonces 0, 1, 2, ..., in *)
(* which every assignment's hash chain is computed from the assignment     *)
(* before it.  A slot is one element of such a list.                       *)
(***************************************************************************)
EXTENDS Naturals, Sequences

CONSTANT Pids

VARIABLE slots

SlotsOf(p) == {s \in slots : s.pid = p}

Init == slots = {}

\* s opens the schedule of its process ...
IsFirst(s) ==
    /\ SlotsOf(s.pid) = {}
    /\ s.nonce = 0
    /\ s.chain = <<>>

\* ... or follows the last slot of it.
IsAfterLast(s) ==
    \E last \in SlotsOf(s.pid) :
       /\ \A t \in SlotsOf(s.pid) : t.nonce <= last.nonce
       /\ s.nonce = last.nonce + 1
       /\ s.chain = Append(last.chain, last.aid)

Assign ==
    \E s \in slots' :
       /\ slots' = slots \cup {s}
       /\ s.pid \in Pids
       /\ \A t \in slots : t.aid # s.aid
       /\ IsFirst(s) \/ IsAfterLast(s)

Spec == Init /\ [][Assign]_slots
=============================================================================
