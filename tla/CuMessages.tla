----------------------------- MODULE CuMessages -----------------------------
(***************************************************************************)
(* The cron messages a Compute Unit generates between two messages of a    *)
(* process, and the metadata of blocks it generates them from.             *)
(*   src/servers/cu/src/domain/lib/loadMessages.js                         *)
(*   src/servers/cu/src/effects/ao-block.js                                *)
(* A time is counted in ticks, several of which make a second: the code    *)
(* counts milliseconds and compares some times by their seconds.           *)
(***************************************************************************)
EXTENDS SuPages

CONSTANTS
    TicksPerSecond,
    Crons,   \* the intervals of the process: a unit, "blocks" or "seconds", and a value
    Blocks,  \* the blocks of the chain: a height and a time
    Origin,  \* the height and time of the process
    Wiggle   \* seconds without a block after which blocks may be missing

ASSUME MessagesAssumption ==
    /\ TicksPerSecond \in Nat \ {0}
    /\ Crons \in Seq([unit : {"blocks", "seconds"}, value : Nat \ {0}])
    /\ Blocks \cup {Origin} \subseteq [height : Nat, time : Nat]
    /\ \A a, b \in Blocks : a.height < b.height <=> a.time < b.time
    /\ Wiggle \in Nat

NoCron == <<>>

Sec(time) == time \div TicksPerSecond

OfUnit(unit) == {i \in DOMAIN Crons : Crons[i].unit = unit}

\* A cron is known by its unit and its place among those of the unit: time based
\* ones run from the most to the least granular.
Named(unit, order) ==
    [i \in DOMAIN order |-> [name |-> <<unit, i>>, value |-> Crons[order[i]].value]]

BlockBased == Named("blocks", InOrder(OfUnit("blocks"), LAMBDA i, j : i < j))

TimeBased ==
    Named("seconds", InOrder(OfUnit("seconds"),
                             LAMBDA i, j : \/ Crons[i].value < Crons[j].value
                                           \/ Crons[i].value = Crons[j].value /\ i < j))

IsBlockOnCron(height, cron) ==
    height # Origin.height /\ (height - Origin.height) % cron.value = 0

IsTimestampOnCron(time, cron) ==
    Sec(time) # Sec(Origin.time) /\ (Sec(time) - Sec(Origin.time)) % cron.value = 0

\* A generated message has the ordinate of the message on its left.
CronMessage(cron, ordinate, time, height) ==
    [cron |-> cron.name, ordinate |-> ordinate, time |-> time, height |-> height]

\* How many times a second is added to the left before the right is reached.
Steps(left, right) ==
    IF right.time <= left.time THEN 0
    ELSE (right.time - left.time + TicksPerSecond - 1) \div TicksPerSecond

At(left, k) == left.time + (k - 1) * TicksPerSecond

Lowest(blocks) == CHOOSE b \in blocks : \A a \in blocks : b.height <= a.height

\* The block of each step, and those that follow it: at most one is passed a step,
\* when its second is reached.
Walk(left, right, blocksMeta) ==
    LET walk[k \in 0 .. Steps(left, right)] ==
            IF k = 0
            THEN [block |-> [height |-> left.height, time |-> left.time],
                  rest  |-> {b \in blocksMeta : left.time < b.time /\ b.time < right.time}]
            ELSE LET rest == walk[k - 1].rest
                 IN  IF rest # {} /\ Sec(At(left, k)) >= Sec(Lowest(rest).time)
                     THEN [block |-> Lowest(rest), rest |-> rest \ {Lowest(rest)}]
                     ELSE walk[k - 1]
    IN  walk

\* The crons of a block, and those of an instant.
OfBlock(block, ordinate) ==
    FlattenSeq([i \in DOMAIN BlockBased |->
        IF IsBlockOnCron(block.height, BlockBased[i])
        THEN <<CronMessage(BlockBased[i], ordinate, block.time, block.height)>> ELSE <<>>])

OfTime(time, ordinate, height) ==
    FlattenSeq([i \in DOMAIN TimeBased |->
        IF IsTimestampOnCron(time, TimeBased[i])
        THEN <<CronMessage(TimeBased[i], ordinate, time, height)>> ELSE <<>>])

\* Second by second from the left boundary, which is included, to the right one:
\* the crons of a block that is passed come before those of the time.
CronMessages(left, right, blocksMeta) ==
    LET walk == Walk(left, right, blocksMeta)
    IN  FlattenSeq([k \in 1 .. Steps(left, right) |->
            (IF walk[k] = walk[k - 1] THEN <<>> ELSE OfBlock(walk[k].block, left.ordinate))
              \o OfTime(At(left, k), left.ordinate, walk[k].block.height)])

-----------------------------------------------------------------------------
(* The metadata of blocks: a table of them, and what the gateway is asked. *)

FindBlocks(table, min, maxTime) ==
    {b \in table : b.height >= min /\ b.time <= maxTime}

\* Faulty: the last page is not cut.
LoadBlocksMetaUncut(mined, range) == {b \in mined : b.height >= range.min}

\* The pages of the gateway, up to the second of the latest time.
LoadBlocksMeta(mined, range) ==
    {b \in mined : b.height >= range.min /\ Sec(b.time) <= Sec(range.maxTime)}

\* Each run of missing heights, up to the time of the block that follows it.
MakeRanges(found, missing) ==
    {[min |-> h, maxTime |-> (CHOOSE b \in found :
                                 /\ b.height > h
                                 /\ h .. b.height - 1 \subseteq missing).time - 1] :
        h \in {g \in missing : g - 1 \notin missing}}

\* What to ask the gateway for: gaps, or else what may follow the highest block.
FindMissingBlocks(found, min, maxTime) ==
    IF found = {} THEN {[min |-> min, maxTime |-> maxTime]}
    ELSE LET highest == CHOOSE b \in found : \A a \in found : a.height <= b.height
             missing == (min .. highest.height - 1) \ {b.height : b \in found}
         IN  IF missing # {} THEN MakeRanges(found, missing)
             ELSE IF Sec(maxTime) - Sec(highest.time) <= Wiggle THEN {}
             ELSE {[min |-> highest.height, maxTime |-> maxTime]}

Loaded(table, mined, min, maxTime) ==
    UNION {LoadBlocksMeta(mined, range) :
             range \in FindMissingBlocks(FindBlocks(table, min, maxTime), min, maxTime)}

\* Merged by height, without repetitions.
ReconcileBlocks(table, mined, min, maxTime) ==
    FindBlocks(table, min, maxTime) \cup Loaded(table, mined, min, maxTime)
=============================================================================
