--------------------------- MODULE MCSuScheduler ---------------------------
(* Instances of SuScheduler for TLC. *)
EXTENDS SuScheduler, TLC

CONSTANTS p1, m1, m2, u, x, h1, h2, hp

\* p1 is the process, m1 and m2 two pushes of the same content, u a user's
\* message, x a transaction that clients assign to p1.
MCDeepHash == (m1 :> h1) @@ (m2 :> h1) @@ (u :> h2) @@ (x :> h2) @@ (p1 :> hp)

Spawn == [kind |-> "Process", pid |-> p1, item |-> p1]
Post(i) == [kind |-> "Message", pid |-> p1, item |-> i]
Assign(i) == [kind |-> "Assignment", pid |-> p1, item |-> i]

\* Assigned transactions are never posted as messages.
AllRequests == {Spawn, Post(m1), Post(m2), Post(u), Assign(x)}

\* m1 is assigned to p1 as well as posted.
AssignedMessage == {Spawn, Post(u), Assign(u)}

Pushes == {Spawn, Post(m1), Post(m2)}

Symmetric == Permutations(Workers)
=============================================================================
