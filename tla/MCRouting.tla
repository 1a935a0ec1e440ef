------------------------------ MODULE MCRouting ------------------------------
(***************************************************************************)
(* Instances of Routing for TLC: one process is posted twice, another once *)
(* by the owner that a scheduler is reserved for. The first may be posted  *)
(* to a scheduler directly, too.                                           *)
(***************************************************************************)
EXTENDS Routing, TLC

CONSTANTS proc, other, alice, bob, s1, s2, s3, cu1, cu2,
          post, repost, direct, postq, msg, assign, read, readq

MCOwner == [x \in Processes |-> IF x = proc THEN alice ELSE bob]
MCWallets == [s \in Schedulers |-> IF s = s3 THEN {bob} ELSE {}]
MCWalletsOnly == {s3}
MCHosts == <<cu1, cu2>>
MCHash == [x \in Processes |-> IF x = proc THEN 1 ELSE 0]
MCBailout == [x \in Processes |-> IF x = proc THEN None ELSE cu2]
MCKind == [r \in Requests |->
             CASE r \in {post, repost, postq} -> "Process"
               [] r = direct -> "Spawn"
               [] r = msg -> "Message"
               [] r = assign -> "Assignment"
               [] OTHER -> "Read"]
MCAbout == [r \in Requests |-> IF r \in {postq, readq} THEN other ELSE proc]

Symmetric == Permutations({s1, s2}) \cup Permutations({post, repost})
=============================================================================
