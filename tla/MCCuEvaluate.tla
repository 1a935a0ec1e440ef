---------------------------- MODULE MCCuEvaluate ----------------------------
(***************************************************************************)
(* Instances of CuEvaluate for TLC: a process with a cron of each kind,    *)
(* two ticks to the second, and messages of every kind.                    *)
(***************************************************************************)
EXTENDS CuEvaluate

MCOrigin == [height |-> 1, time |-> 1]
MCBlocks == {[height |-> 1, time |-> 0], [height |-> 2, time |-> 4], [height |-> 3, time |-> 8]}

Interval(unit, value) == [unit |-> unit, value |-> value]
OfTimeAndBlocks == <<Interval("blocks", 1), Interval("seconds", 2)>>
TwoOfTime == <<Interval("seconds", 1), Interval("seconds", 2)>>
NoCrons == <<>>

Item(id, deepHash, assigned) == [id |-> id, deepHash |-> deepHash, assigned |-> assigned]
\* A message, an assignment of it, and one that was pushed twice.
MCItems == {Item("x", NoHash, FALSE), Item("x", NoHash, TRUE),
            Item("p", "h", FALSE), Item("q", "h", FALSE)}
\* A message that was pushed is also assigned.
AlsoAssigned == {Item("p", "h", FALSE), Item("p", NoHash, TRUE)}
=============================================================================
