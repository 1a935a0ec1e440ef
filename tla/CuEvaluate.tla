----------------------------- MODULE CuEvaluate -----------------------------
(***************************************************************************)
(* How a Compute Unit evaluates a process: a stream reads the messages of  *)
(* the Scheduler Unit a page at a time from where a memory was left, puts  *)
(* the cron messages in between, leaves out what was evaluated before and  *)
(* folds the rest over the memory, which is saved when the stream ends.    *)
(*   src/servers/cu/src/domain/lib/{loadMessages,evaluate,loadProcess}.js  *)
(*   src/servers/cu/src/effects/{ao-su,ao-evaluation}.js                   *)
(*   src/servers/cu/src/effects/worker/evaluate.js                         *)
(* A memory is the sequence of what was evaluated over it. Which streams   *)
(* run, and which memories are kept, is the subject of CuReadState: here a *)
(* stream at a time starts from any memory that was ever saved.            *)
(***************************************************************************)
EXTENDS CuMessages, FiniteSetsExt

CONSTANTS
    Items,       \* what is scheduled: an id, a deep hash or NoHash, assigned or not
    Failing,     \* ids of messages whose evaluation is an error
    PageSize,
    Validated,   \* whether the hash chain is validated: the process is not an old one
    Ties,        \* whether two messages may have one timestamp
    Reposted,    \* whether the SU may schedule a message whose id was scheduled before
    SlowSaves,   \* whether time passes between a timestamp and the save in the SU
    RowsFail,    \* whether saving a result may fail
    OtherTables, \* whether a CU may start from a checkpoint without the results
    Gaps,        \* whether other processes leave gaps in the table of blocks
    MaxNow,      \* bound on the time
    MaxMessages, \* bound on the messages
    MaxStreams   \* bound on the streams

ASSUME EvaluateAssumption ==
    /\ PageSize \in Nat \ {0}
    /\ {Validated, Ties, Reposted, SlowSaves, RowsFail, OtherTables, Gaps} \subseteq BOOLEAN
    /\ {MaxNow, MaxMessages, MaxStreams} \subseteq Nat
    /\ Origin.time <= MaxNow

VARIABLES
    now,      \* the time, which the SU tells
    schedule, \* the messages the SU has saved
    pending,  \* the message the SU has assigned and not yet saved, if any
    table,    \* the table of blocks
    rows,     \* the table of messages: an id and the nonce it was first evaluated at
    saves,    \* the memories that were saved
    stream,   \* the stream of evaluation
    streams,  \* how many there were
    rejected  \* history: a page of the SU was rejected

vars == <<now, schedule, pending, table, rows, saves, stream, streams, rejected>>

NoHash == "none"

ProcessItem == [id |-> "process", deepHash |-> NoHash, assigned |-> FALSE]

\* The process is the first message of its schedule.
Process == [nonce |-> 0, time |-> Origin.time, height |-> Origin.height, item |-> ProcessItem]

NoStream == [step |-> "none"]

\* Where a cold start begins.
Cold == [fold |-> <<>>, time |-> None, height |-> Origin.height, ordinate |-> 0,
         cron |-> NoCron, anchor |-> None]

Mined == {b \in Blocks : b.time <= now}

Init ==
    /\ now = Origin.time
    /\ schedule = <<>>
    /\ pending = <<>>
    /\ table = {}
    /\ rows = {}
    /\ saves = {}
    /\ stream = NoStream
    /\ streams = 0
    /\ rejected = FALSE

-----------------------------------------------------------------------------
(* The Scheduler Unit and the chain.                                       *)

\* Time passes, not while a message is saved unless saving it is slow.
Tick ==
    /\ now < MaxNow
    /\ pending = <<>> \/ SlowSaves
    /\ now' = now + 1
    /\ UNCHANGED <<schedule, pending, table, rows, saves, stream, streams, rejected>>

\* A message is given the next nonce. An assignment may repeat an id. A message may
\* not, unless the SU's check misses the earlier one: check_existing_message looks at
\* the oldest row of the id only, on the read replica, and lets the message pass if
\* that is an assignment's, to this process or to any other, or is not there yet.
Schedule(item) ==
    /\ pending = <<>>
    /\ Len(schedule) < MaxMessages
    /\ Ties \/ now > (IF schedule = <<>> THEN Process ELSE Last(schedule)).time
    /\ item.assigned \/ Reposted \/ \A i \in DOMAIN schedule : schedule[i].item.id # item.id
    /\ \E b \in Mined \cup {Origin} :
        /\ \A a \in Mined : a.height <= b.height
        /\ pending' = <<[nonce |-> Len(schedule) + 1, time |-> now, height |-> b.height,
                         item |-> item]>>
    /\ UNCHANGED <<now, schedule, table, rows, saves, stream, streams, rejected>>

Commit ==
    /\ pending # <<>>
    /\ schedule' = schedule \o pending
    /\ pending' = <<>>
    /\ UNCHANGED <<now, table, rows, saves, stream, streams, rejected>>

\* The stream of another process saves a block it has loaded.
SaveBlock(b) ==
    /\ b \in Mined
    /\ Gaps \/ \A a \in Mined : a.height < b.height => a \in table
    /\ table' = table \cup {b}
    /\ UNCHANGED <<now, schedule, pending, rows, saves, stream, streams, rejected>>

-----------------------------------------------------------------------------
(* The stream of messages.                                                 *)

\* Faulty: the cron a memory was left at is not remembered.
SeedNothing(memory) == {}

\* The crons that were evaluated, to begin with the one the memory was left at.
Seed(memory) ==
    IF memory.cron = NoCron THEN {} ELSE {[cron |-> memory.cron, time |-> memory.time]}

\* The left boundary of a stream.
LeftMost(memory) ==
    [ordinate |-> memory.ordinate, height |-> memory.height,
     time |-> IF memory.time = None THEN Origin.time ELSE memory.time]

\* A stream starts after a memory, up to a time or to what the SU says it is now.
\* A process without crons asks for no blocks.
Begin(memory, to) ==
    /\ stream = NoStream
    /\ streams < MaxStreams
    /\ LET right == IF to = None THEN now ELSE to
           left == LeftMost(memory)
       IN  /\ memory.time < right
           /\ stream' = [step   |-> "fetch",
                         query  |-> [mode |-> "timestamp", from |-> memory.time, to |-> to,
                                     limit |-> PageSize],
                         right  |-> right,
                         prev   |-> left,
                         blocks |-> ReconcileBlocks(table, Mined, left.height, right),
                         chain  |-> memory.anchor,
                         queue  |-> <<>>,
                         evaled |-> Seed(memory),
                         anchor |-> memory.anchor,
                         fold   |-> memory.fold,
                         last   |-> <<>>]
           /\ table' = IF Crons = <<>> THEN table
                       ELSE table \cup Loaded(table, Mined, left.height, right)
    /\ streams' = streams + 1
    /\ UNCHANGED <<now, schedule, pending, rows, saves, rejected>>

Scheduled(m) ==
    [cron |-> NoCron, ordinate |-> m.nonce, time |-> m.time, height |-> m.height, item |-> m.item]

\* The hash chain of a message is made of the assignment before it.
IsHashChainValid(chain, m) == chain = None \/ m.nonce = chain + 1

\* The messages of a page, up to the first whose hash chain is not valid.
Valid(chain, edges) ==
    LET before(i) == IF i = 1 THEN chain ELSE edges[i - 1].nonce
        invalid == {i \in DOMAIN edges : Validated /\ ~ IsHashChainValid(before(i), edges[i])}
    IN  Prefix(edges, IF invalid = {} THEN Len(edges) ELSE Min(invalid) - 1)

\* The crons between the last message and the right boundary, in a later second.
Trailing(prev, right, blocksMeta) ==
    IF Sec(prev.time) < Sec(right) THEN CronMessages(prev, [time |-> right], blocksMeta) ELSE <<>>

\* A page is fetched: its messages are boundaries between which the crons come,
\* and after the last page the crons up to the right boundary follow.
Fetch ==
    /\ stream.step = "fetch"
    /\ LET page == SqlPage(Process, ToSet(schedule), stream.query)
           valid == Valid(stream.chain, page.edges)
           bounds == <<stream.prev>> \o [i \in DOMAIN valid |-> Scheduled(valid[i])]
           merged == FlattenSeq([i \in DOMAIN valid |->
                                   CronMessages(bounds[i], bounds[i + 1], stream.blocks)
                                     \o <<bounds[i + 1]>>])
           whole == Len(valid) = Len(page.edges)
       IN  /\ stream' = [stream EXCEPT
                   !.step  = IF ~ whole THEN "rejected" ELSE IF page.more THEN "fetch" ELSE "drain",
                   !.query = NextQuery(@, page),
                   !.prev  = Last(bounds),
                   !.chain = IF valid = <<>> THEN @ ELSE Last(valid).nonce,
                   !.queue = @ \o merged \o (IF whole /\ ~ page.more
                                             THEN Trailing(Last(bounds), stream.right, stream.blocks)
                                             ELSE <<>>)]
           /\ rejected' = (rejected \/ ~ whole)
    /\ UNCHANGED <<now, schedule, pending, table, rows, saves, streams>>

-----------------------------------------------------------------------------
(* The evaluation of the stream.                                           *)

IsCron(m) == m.cron # NoCron

\* The name of a message in the table of messages.
MessageId(item) == IF item.assigned \/ item.deepHash = NoHash THEN item.id ELSE item.deepHash

\* Faulty: whatever the nonce, also by the message itself in a stream that failed.
ExistsAnyhow(m) == \E row \in rows : row.id = MessageId(m.item)

\* findMessageBefore
Exists(m) == \E row \in rows : row.id = MessageId(m.item) /\ row.nonce < m.ordinate

\* A cron that was evaluated in this stream, or a message that was evaluated at
\* an earlier nonce and was pushed or assigned.
IsDuplicate(m) ==
    IF IsCron(m) THEN [cron |-> m.cron, time |-> m.time] \in stream.evaled
    ELSE (m.item.deepHash # NoHash \/ m.item.assigned) /\ Exists(m)

\* What the stream has passed, whether it is evaluated or not.
Passed(m) ==
    [stream EXCEPT
        !.queue  = Tail(@),
        !.evaled = IF IsCron(m) THEN @ \cup {[cron |-> m.cron, time |-> m.time]} ELSE @,
        !.anchor = IF IsCron(m) THEN @ ELSE m.ordinate]

Skip ==
    /\ stream # NoStream
    /\ stream.queue # <<>>
    /\ IsDuplicate(Head(stream.queue))
    /\ stream' = Passed(Head(stream.queue))
    /\ UNCHANGED <<now, schedule, pending, table, rows, saves, streams, rejected>>

Fails(m) == ~ IsCron(m) /\ m.item.id \in Failing

\* What a memory shows of a message evaluated over it.
Trace(m) == [cron |-> m.cron, at |-> IF IsCron(m) THEN m.time ELSE m.ordinate]

\* A message is evaluated. An error keeps the memory; that a result cannot be
\* saved is only logged; an id keeps the nonce it was first saved with.
Evaluate ==
    /\ stream # NoStream
    /\ stream.queue # <<>>
    /\ LET m == Head(stream.queue) IN
        /\ ~ IsDuplicate(m)
        /\ stream' = [Passed(m) EXCEPT !.fold = IF Fails(m) THEN @ ELSE Append(@, Trace(m)),
                                       !.last = <<m>>]
        /\ \E saved \in IF RowsFail THEN BOOLEAN ELSE {TRUE} :
             rows' = IF IsCron(m) \/ ~ saved \/ \E row \in rows : row.id = MessageId(m.item)
                     THEN rows
                     ELSE rows \cup {[id |-> MessageId(m.item), nonce |-> m.ordinate]}
    /\ UNCHANGED <<now, schedule, pending, table, saves, streams, rejected>>

\* What the stream leaves: the place of the last message that was evaluated, and
\* the assignment of the last one that was passed.
Result ==
    LET last == stream.last[1]
    IN  [fold |-> stream.fold, time |-> last.time, height |-> last.height,
         ordinate |-> last.ordinate, cron |-> last.cron, anchor |-> stream.anchor]

\* The stream ends, and its memory is saved if there is one and it is new.
Finish ==
    /\ stream.step = "drain"
    /\ stream.queue = <<>>
    /\ saves' = IF stream.last = <<>> \/ stream.fold = <<>> THEN saves ELSE saves \cup {Result}
    /\ stream' = NoStream
    /\ UNCHANGED <<now, schedule, pending, table, rows, streams, rejected>>

\* The stream ends with an error, at any place of what is buffered: a page was
\* rejected or could not be fetched, or the CU stops. Another CU may take over
\* from a checkpoint of this one, without its tables.
Fail ==
    /\ stream # NoStream
    /\ stream' = NoStream
    /\ \E kept \in IF OtherTables THEN {rows, {}} ELSE {rows} : rows' = kept
    /\ UNCHANGED <<now, schedule, pending, table, saves, streams, rejected>>

-----------------------------------------------------------------------------
Next ==
    \/ Tick
    \/ \E item \in Items : Schedule(item)
    \/ Commit
    \/ \E b \in Blocks : SaveBlock(b)
    \/ \E memory \in saves \cup {Cold}, to \in {None} \cup Origin.time .. now : Begin(memory, to)
    \/ Fetch
    \/ Skip
    \/ Evaluate
    \/ Finish
    \/ Fail

Spec == Init /\ [][Next]_vars

-----------------------------------------------------------------------------
(* Properties.                                                             *)

\* Nonces have no gaps, only mined blocks are known, an id keeps one nonce, and a
\* stream knows no block that is later than its right boundary (loadBlocksMeta).
TypeOK ==
    /\ now \in Origin.time .. MaxNow
    /\ \A i \in DOMAIN schedule : schedule[i].nonce = i /\ schedule[i].time <= now
    /\ table \subseteq Mined
    /\ \A a, b \in rows : a.id = b.id => a = b
    /\ \A memory \in saves : memory.anchor \in 0 .. Len(schedule) /\ memory.time <= now
    /\ stream # NoStream =>
        /\ stream.step \in {"fetch", "drain", "rejected"}
        /\ \A b \in stream.blocks : b \in Mined /\ Sec(b.time) <= Sec(stream.right)

\* The process, and the messages of its schedule.
Slot(i) == IF i = 0 THEN Process ELSE schedule[i]

\* A message says what an earlier one has said.
Repeats(i) ==
    \E j \in 1 .. i - 1 :
        \/ schedule[j].item.id = schedule[i].item.id
        \/ schedule[j].item.deepHash # NoHash /\ schedule[j].item.deepHash = schedule[i].item.deepHash

\* A memory shows, in the order of their nonces, the process and each message up
\* to its time once: none is left out and none is evaluated twice, wherever the
\* streams before it began, ended or failed, however their pages were cut, and
\* however often a message was pushed or assigned. That no message of an id that was
\* scheduled before is scheduled is the SU's part of it (Reposted).
MessagesFolded ==
    \A memory \in saves :
        LET due == {i \in 0 .. Len(schedule) : /\ Slot(i).time <= memory.time
                                               /\ ~ Repeats(i)
                                               /\ Slot(i).item.id \notin Failing}
            shown == {i \in DOMAIN memory.fold : ~ IsCron(memory.fold[i])}
        IN  /\ {memory.fold[i].at : i \in shown} = due
            /\ \A i, j \in shown : i < j => memory.fold[i].at < memory.fold[j].at

\* A second in which a message was scheduled.
Crowded(second) == \E i \in DOMAIN schedule : Sec(schedule[i].time) = second

Shown(memory, cron, second) ==
    Cardinality({i \in DOMAIN memory.fold : /\ memory.fold[i].cron = cron.name
                                            /\ Sec(memory.fold[i].at) = second})

\* A memory shows each instant of a cron of time before its own second, and shows
\* it once if no message shares that second; of a block it shows a cron at most
\* once. It shows them in the order of time, wherever the streams before it began
\* or failed.
CronsFolded ==
    \A memory \in saves : \A second \in Sec(Origin.time) .. Sec(memory.time) :
        /\ \A cron \in ToSet(TimeBased) :
            LET shown == Shown(memory, cron, second)
            IN  IF IsTimestampOnCron(second * TicksPerSecond, cron)
                THEN /\ second < Sec(memory.time) => shown >= 1
                     /\ ~ Crowded(second) => shown <= 1
                ELSE shown = 0
        /\ \A cron \in ToSet(BlockBased) : Shown(memory, cron, second) <= 1
        /\ \A i, j \in {k \in DOMAIN memory.fold : IsCron(memory.fold[k])} :
              i < j => memory.fold[i].at <= memory.fold[j].at

\* A memory shows an instant of a cron once: the key of timestamp and interval
\* "should prevent duplicate Cron Messages from being duplicate evaluated"
\* (evaluate.js:127).
CronsOnce ==
    \A memory \in saves : \A i, j \in DOMAIN memory.fold :
        /\ i < j
        /\ memory.fold[i].cron # NoCron
        => \/ memory.fold[j].cron # memory.fold[i].cron
           \/ Sec(memory.fold[j].at) # Sec(memory.fold[i].at)

\* A memory shows the crons of each block that no message shares its second with:
\* what is reconciled is "all missing blocks between the minimum block, and the
\* maxTimestamp" (loadMessages.js:359).
BlockCronsKept ==
    \A memory \in saves, b \in Blocks, cron \in ToSet(BlockBased) :
        /\ Origin.time < b.time
        /\ Sec(b.time) < Sec(memory.time)
        /\ ~ Crowded(Sec(b.time))
        /\ IsBlockOnCron(b.height, cron)
        => Shown(memory, cron, Sec(b.time)) = 1

\* The schedule of an SU that chains its assignments is never rejected: removing
\* duplicates "prevents them from corrupting the process" (evaluate.js:169).
NeverRejected == ~ rejected
=============================================================================
