--------------------------- MODULE MCSuLocalStore ---------------------------
(***************************************************************************)
(* Instances of SuLocalStore for TLC: an item with a deep hash and others  *)
(* without, and assignment ids in any order.                               *)
(***************************************************************************)
EXTENDS SuLocalStore, TLC

CONSTANTS a, b, c

\* From the beginning, and up to a message. Three edges have room for a torn entry and
\* one that is being saved, two for the second only.
MCAsked ==
    {[mode |-> "timestamp", from |-> None, to |-> None, limit |-> 3],
     [mode |-> "nonce", from |-> -1, to |-> 2, limit |-> 2]}

Symmetric == Permutations({a, c})
=============================================================================
