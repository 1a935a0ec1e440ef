---------------------------- MODULE SuScheduler ----------------------------
(***************************************************************************)
(* Scheduling in the Scheduler Unit (servers/su): concurrent write_item    *)
(* requests (core/flows.rs) assign data items to slots of a process, under *)
(* the per-process lock and the in-memory cache of ProcessScheduler        *)
(* (core/scheduler.rs), over the Postgres store with its bytestore of deep *)
(* hashes (clients/store.rs).                                              *)
(*                                                                         *)
(* A slot's hash chain is SHA-256 over the previous chain and the previous *)
(* assignment id, seeded with the process id.  SHA-256 is taken to be      *)
(* collision free: a chain is the sequence of the assignment ids it was    *)
(* folded over.  Assignment ids are hashes of fresh signatures: they are   *)
(* numbered in the order in which the rows reach the database.  The epoch  *)
(* never changes in the code and is left out.                              *)
(***************************************************************************)
EXTENDS Integers, Sequences

CONSTANTS
    Workers,           \* handlers that may be in flight at once
    NoWorker,          \* holder of a free lock
    Pids,              \* process ids
    Items,             \* data item ids; a process' id is its data item's id
    Hashes,            \* deep hashes
    DeepHash,          \* DeepHash[i]: hash of target, anchor, tags and data of i
    Pushed,            \* the items with a From-Process tag
    Requests,          \* what clients send
    ProcessAssignment, \* config.enable_process_assignment
    ProcessReposts,    \* may a client send the same Process again?
    ClockSteps,        \* may the system clock repeat or go back?
    ReplicaLag,        \* is the read connection a replica that may be behind?
    MaxPosts,          \* bound: requests received
    MaxCrashes         \* bound: restarts of the SU

Kinds == {"Process", "Message", "Assignment"}

Request == [kind : Kinds, pid : Pids, item : Items]

ASSUME RequestAssumption ==
    /\ Requests \subseteq Request
    /\ Requests # {}
    /\ \A r \in Requests : r.kind = "Process" => r.item = r.pid
ASSUME HashAssumption == DeepHash \in [Items -> Hashes]
ASSUME WorkerAssumption == NoWorker \notin Workers
ASSUME ConfigAssumption ==
    /\ ProcessAssignment \in BOOLEAN
    /\ ProcessReposts \in BOOLEAN
    /\ ClockSteps \in BOOLEAN
    /\ ReplicaLag \in BOOLEAN
ASSUME BoundAssumption == MaxPosts \in Nat /\ MaxCrashes \in Nat

VARIABLES
    pc,          \* where each handler is in write_item
    req,         \* the request a handler serves
    next,        \* next_schedule_info of a handler
    aid,         \* id of the assignment a handler generated
    lock,        \* ProcessScheduler.locks
    cached,      \* the keys of ProcessScheduler.cache
    cache,       \* its values
    rows,        \* the tables processes and messages of the writer database
    deep,        \* deep hash keys in the bytestore
    replicated,  \* the rows with a smaller id have reached the replica
    nextAid,
    clock,       \* system clock
    posted,      \* history: the requests received so far
    rejected,    \* history: pushes answered "Deep hash already exists"
    posts,
    crashes

requestVars == <<pc, req, next, aid>>
memoryVars == <<lock, cached, cache>>
storeVars == <<rows, deep, replicated>>
historyVars == <<posted, rejected, posts, crashes>>
vars == <<requestVars, memoryVars, storeVars, historyVars, nextAid, clock>>

-----------------------------------------------------------------------------

\* ScheduleInfo with the previous assignment, as CachedScheduleInfo holds it.
Info == [nonce : Nat, chain : Seq(Nat), ts : Nat, aid : Nat]

ScheduleInfo == [nonce : Nat, chain : Seq(Nat), ts : Nat]

Row == [kind : Kinds, pid : Pids, item : Items, aid : Nat,
        nonce : Nat, chain : Seq(Nat), ts : Nat]

NoInfo == [nonce |-> 0, chain |-> <<>>, ts |-> 0, aid |-> 0]

\* What the locals of a handler that serves no request stand at.
NoNext == [nonce |-> 0, chain |-> <<>>, ts |-> 0]
NoRequest == CHOOSE r \in Requests : TRUE

\* Where a handler owns the guard of the process' mutex.
Held == {"locked", "checked", "incremented", "stored", "saved"}

Target(w) == req[w].pid

\* A pushed message and an assigned AO message are deduplicated by content. An
\* assignment with a base layer, which is not, is left out.
Deduplicated(r) ==
    \/ r.kind = "Assignment"
    \/ r.kind = "Message" /\ r.item \in Pushed

ContentKey(r) == <<r.pid, DeepHash[r.item]>>

\* What get_read_conn sees.
ReadRows == IF ReplicaLag THEN {r \in rows : r.aid < replicated} ELSE rows

ProcessRows(p, table) == {r \in table : r.kind = "Process" /\ r.pid = p}

MessageRows(p) == {r \in rows : r.kind # "Process" /\ r.pid = p}

\* Every item of the process' schedule: with enable_process_assignment the
\* process itself takes the first slot.
Slots(p) ==
    MessageRows(p) \cup IF ProcessAssignment THEN ProcessRows(p, rows) ELSE {}

\* Faulty: the order reversed.
OldestMessages(p) ==
    {m \in MessageRows(p) : \A o \in MessageRows(p) : m.ts <= o.ts}

\* Postgres: ORDER BY timestamp DESC, first; ties in any order.
LatestMessages(p) ==
    {m \in MessageRows(p) : \A o \in MessageRows(p) : o.ts <= m.ts}

\* get_message: the oldest row with this message id, of whatever process.
OldestMatches(i) ==
    LET matches == {r \in ReadRows : r.kind # "Process" /\ r.item = i}
    IN  {m \in matches : \A o \in matches : m.ts <= o.ts}

-----------------------------------------------------------------------------

Init ==
    /\ pc = [w \in Workers |-> "idle"]
    /\ req = [w \in Workers |-> NoRequest]
    /\ next = [w \in Workers |-> NoNext]
    /\ aid = [w \in Workers |-> 0]
    /\ lock = [p \in Pids |-> NoWorker]
    /\ cached = {}
    /\ cache = [p \in Pids |-> NoInfo]
    /\ rows = {}
    /\ deep = {}
    /\ replicated = 0
    /\ nextAid = 0
    /\ clock = 0
    /\ posted = {}
    /\ rejected = {}
    /\ posts = 0
    /\ crashes = 0

\* The handler returns: its locals are gone, and with them the lock's guard.
Return(w) ==
    /\ pc' = [pc EXCEPT ![w] = "idle"]
    /\ req' = [req EXCEPT ![w] = NoRequest]
    /\ next' = [next EXCEPT ![w] = NoNext]
    /\ aid' = [aid EXCEPT ![w] = 0]
    /\ lock' = [lock EXCEPT ![Target(w)] = NoWorker]

\* A request is parsed and passes the checks made before the lock is taken.
Receive(w, r) ==
    /\ pc[w] = "idle"
    /\ posts < MaxPosts
    /\ ProcessReposts \/ r.kind # "Process" \/ r \notin posted
    /\ pc' = [pc EXCEPT ![w] = "waiting"]
    /\ req' = [req EXCEPT ![w] = r]
    /\ posted' = posted \cup {r}
    /\ posts' = posts + 1
    /\ UNCHANGED <<next, aid, memoryVars, storeVars, rejected, crashes,
                   nextAid, clock>>

\* Faulty: a lock that excludes nobody.
AcquireLockShared(w) ==
    /\ pc[w] = "waiting"
    /\ lock' = [lock EXCEPT ![Target(w)] = w]
    /\ pc' = [pc EXCEPT ![w] = "locked"]
    /\ UNCHANGED <<req, next, aid, cached, cache, storeVars, historyVars,
                   nextAid, clock>>

AcquireLock(w) ==
    /\ pc[w] = "waiting"
    /\ lock[Target(w)] = NoWorker
    /\ lock' = [lock EXCEPT ![Target(w)] = w]
    /\ pc' = [pc EXCEPT ![w] = "locked"]
    /\ UNCHANGED <<req, next, aid, cached, cache, storeVars, historyVars,
                   nextAid, clock>>

\* Faulty: no check for an existing message.
CheckNothing(w) ==
    /\ pc[w] = "locked"
    /\ pc' = [pc EXCEPT ![w] = "checked"]
    /\ UNCHANGED <<req, next, aid, memoryVars, storeVars, historyVars,
                   nextAid, clock>>

\* check_existing_message passes: an assignment is not checked, and a match
\* that is only an assignment of the item is no duplicate.
CheckExistingMessage(w) ==
    /\ pc[w] = "locked"
    /\ \/ req[w].kind = "Assignment"
       \/ OldestMatches(req[w].item) = {}
       \/ \E m \in OldestMatches(req[w].item) : m.kind = "Assignment"
    /\ pc' = [pc EXCEPT ![w] = "checked"]
    /\ UNCHANGED <<req, next, aid, memoryVars, storeVars, historyVars,
                   nextAid, clock>>

RejectExistingMessage(w) ==
    /\ pc[w] = "locked"
    /\ req[w].kind # "Assignment"
    /\ \E m \in OldestMatches(req[w].item) : m.kind = "Message"
    /\ Return(w)
    /\ UNCHANGED <<cached, cache, storeVars, historyVars,
                   nextAid, clock>>

\* Faulty: the previous assignment left out of the chain; a first nonce that
\* is one too small.
FollowingUnchained(r) == [nonce |-> r.nonce + 1, chain |-> r.chain]

OpeningEarly == [nonce |-> -1, chain |-> <<>>]

\* The nonce and hash chain after an assignment (gen_hash_chain), and those
\* that open a schedule.
Following(r) == [nonce |-> r.nonce + 1, chain |-> Append(r.chain, r.aid)]

Opening == [nonce |-> 0, chain |-> <<>>]

\* Faulty: a process without an assignment taken for one with.
SuccessorsOfAnyProcess(p) ==
    IF p \in cached
    THEN {Following(cache[p])}
    ELSE IF MessageRows(p) # {}
    THEN {Following(m) : m \in LatestMessages(p)}
    ELSE IF ProcessRows(p, ReadRows) # {}
    THEN {Following(r) : r \in ProcessRows(p, ReadRows)}
    ELSE {Opening}

\* What may follow what the SU knows of the process: the cache, else the
\* latest message, else the process, else nothing.
Successors(p) ==
    IF p \in cached
    THEN {Following(cache[p])}
    ELSE IF MessageRows(p) # {}
    THEN {Following(m) : m \in LatestMessages(p)}
    ELSE IF ProcessAssignment /\ ProcessRows(p, ReadRows) # {}
    THEN {Following(r) : r \in ProcessRows(p, ReadRows)}
    ELSE {Opening}

\* Faulty: a timestamp from an earlier reading of the clock.
StaleNow == 0 .. clock

\* A clock that neither repeats nor goes back: signing and saving a slot takes
\* longer than the clock's millisecond.
Now == IF ClockSteps THEN 0 .. clock ELSE {clock}

Increment(w) ==
    /\ pc[w] = "checked"
    /\ \E s \in Successors(Target(w)), t \in Now :
          next' = [next EXCEPT ![w] =
                     [nonce |-> s.nonce, chain |-> s.chain, ts |-> t]]
    /\ clock' = clock + 1
    /\ pc' = [pc EXCEPT ![w] = "incremented"]
    /\ UNCHANGED <<req, aid, memoryVars, storeVars, historyVars, nextAid>>

\* The row a handler is about to insert.
NewRow(w) ==
    [kind  |-> req[w].kind,
     pid   |-> req[w].pid,
     item  |-> req[w].item,
     aid   |-> nextAid,
     nonce |-> next[w].nonce,
     chain |-> next[w].chain,
     ts    |-> next[w].ts]

\* Faulty: the conflicting row replaced.
UpsertProcess(w) ==
    rows' = (rows \ ProcessRows(Target(w), rows)) \cup {NewRow(w)}

\* save_process: INSERT ... ON CONFLICT (process_id) DO NOTHING, which reports
\* success whether or not a row was inserted.
InsertProcess(w) ==
    rows' = IF ProcessRows(Target(w), rows) = {}
            THEN rows \cup {NewRow(w)}
            ELSE rows

SaveProcess(w) ==
    /\ pc[w] = "incremented"
    /\ req[w].kind = "Process"
    /\ ProcessAssignment
    /\ InsertProcess(w)
    /\ aid' = [aid EXCEPT ![w] = nextAid]
    /\ nextAid' = nextAid + 1
    /\ pc' = [pc EXCEPT ![w] = "saved"]
    /\ UNCHANGED <<req, next, memoryVars, deep, replicated, historyVars, clock>>

\* The flow without enable_process_assignment: the process takes no slot and
\* nothing is committed.
SaveProcessNoAssign(w) ==
    /\ pc[w] = "incremented"
    /\ req[w].kind = "Process"
    /\ ~ProcessAssignment
    /\ InsertProcess(w)
    /\ nextAid' = nextAid + 1
    /\ Return(w)
    /\ UNCHANGED <<cached, cache, deep, replicated,
                   historyVars, clock>>

\* check_existing_deep_hash found the content in this process.
RejectDeepHash(w) ==
    /\ pc[w] = "incremented"
    /\ Deduplicated(req[w])
    /\ ContentKey(req[w]) \in deep
    /\ rejected' = rejected \cup {ContentKey(req[w])}
    /\ Return(w)
    /\ UNCHANGED <<cached, cache, storeVars, posted, posts,
                   crashes, nextAid, clock>>

\* Faulty: the deep hash checked but never saved.
SaveWithoutDeepHash(w) ==
    /\ pc[w] = "incremented"
    /\ req[w].kind # "Process"
    /\ Deduplicated(req[w]) => ContentKey(req[w]) \notin deep
    /\ pc' = [pc EXCEPT ![w] = "stored"]
    /\ UNCHANGED <<req, next, aid, memoryVars, storeVars, historyVars,
                   nextAid, clock>>

\* The deep hash is new; save_message puts it into the bytestore first.
SaveToBytestore(w) ==
    /\ pc[w] = "incremented"
    /\ req[w].kind # "Process"
    /\ IF Deduplicated(req[w])
       THEN /\ ContentKey(req[w]) \notin deep
            /\ deep' = deep \cup {ContentKey(req[w])}
       ELSE UNCHANGED deep
    /\ pc' = [pc EXCEPT ![w] = "stored"]
    /\ UNCHANGED <<req, next, aid, memoryVars, rows, replicated, historyVars,
                   nextAid, clock>>

\* Then the row is inserted; messages.process_id references processes.
InsertMessage(w) ==
    /\ pc[w] = "stored"
    /\ ProcessRows(Target(w), rows) # {}
    /\ rows' = rows \cup {NewRow(w)}
    /\ aid' = [aid EXCEPT ![w] = nextAid]
    /\ nextAid' = nextAid + 1
    /\ pc' = [pc EXCEPT ![w] = "saved"]
    /\ UNCHANGED <<req, next, memoryVars, deep, replicated, historyVars, clock>>

\* The insert fails: the deep hash is taken out again, unless the bytestore
\* fails too.
InsertFails(w) ==
    /\ pc[w] = "stored"
    /\ \/ deep' = IF Deduplicated(req[w]) THEN deep \ {ContentKey(req[w])}
                                          ELSE deep
       \/ UNCHANGED deep
    /\ Return(w)
    /\ UNCHANGED <<cached, cache, rows, replicated,
                   historyVars, nextAid, clock>>

\* commit, drop(schedule_info); the uploads that follow change no state.
Commit(w) ==
    /\ pc[w] = "saved"
    /\ cached' = cached \cup {Target(w)}
    /\ cache' = [cache EXCEPT ![Target(w)] =
                   [nonce |-> next[w].nonce, chain |-> next[w].chain,
                    ts |-> next[w].ts, aid |-> aid[w]]]
    /\ Return(w)
    /\ UNCHANGED <<storeVars, historyVars, nextAid, clock>>

\* Faulty: an error return that keeps the lock.
FailLocked(w) ==
    /\ pc[w] \in {"locked", "checked", "incremented"}
    /\ pc' = [pc EXCEPT ![w] = "idle"]
    /\ req' = [req EXCEPT ![w] = NoRequest]
    /\ next' = [next EXCEPT ![w] = NoNext]
    /\ UNCHANGED <<aid, memoryVars, storeVars, historyVars, nextAid, clock>>

\* Any other error return: a failed query, gateway check, signature or save.
Fail(w) ==
    /\ pc[w] \in {"locked", "checked", "incremented"}
    /\ Return(w)
    /\ UNCHANGED <<cached, cache, storeVars, historyVars,
                   nextAid, clock>>

\* The SU stops and starts again: only what is on disk is left.
Crash ==
    /\ crashes < MaxCrashes
    /\ crashes' = crashes + 1
    /\ pc' = [w \in Workers |-> "idle"]
    /\ req' = [w \in Workers |-> NoRequest]
    /\ next' = [w \in Workers |-> NoNext]
    /\ aid' = [w \in Workers |-> 0]
    /\ lock' = [p \in Pids |-> NoWorker]
    /\ cached' = {}
    /\ cache' = [p \in Pids |-> NoInfo]
    /\ UNCHANGED <<storeVars, posted, rejected, posts, nextAid, clock>>

\* The read replica applies more of the writer's log.
Replicate ==
    /\ ReplicaLag
    /\ replicated < nextAid
    /\ \E n \in replicated + 1 .. nextAid : replicated' = n
    /\ UNCHANGED <<requestVars, memoryVars, rows, deep, historyVars, nextAid,
                   clock>>

Step(w) ==
    \/ CheckExistingMessage(w)
    \/ RejectExistingMessage(w)
    \/ Increment(w)
    \/ SaveProcess(w)
    \/ SaveProcessNoAssign(w)
    \/ RejectDeepHash(w)
    \/ SaveToBytestore(w)
    \/ InsertMessage(w)
    \/ InsertFails(w)
    \/ Commit(w)
    \/ Fail(w)

Next ==
    \/ \E w \in Workers :
          \/ \E r \in Requests : Receive(w, r)
          \/ AcquireLock(w)
          \/ Step(w)
    \/ Crash
    \/ Replicate

Spec == Init /\ [][Next]_vars

\* A handler runs to its end, and tokio's mutex serves its waiters in order.
Fairness == \A w \in Workers : WF_vars(Step(w)) /\ SF_vars(AcquireLock(w))

FairSpec == Spec /\ Fairness

-----------------------------------------------------------------------------

TypeOK ==
    /\ pc \in [Workers -> Held \cup {"idle", "waiting"}]
    /\ req \in [Workers -> Request]
    /\ next \in [Workers -> ScheduleInfo]
    /\ aid \in [Workers -> Nat]
    /\ lock \in [Pids -> Workers \cup {NoWorker}]
    /\ cached \subseteq Pids
    /\ cache \in [Pids -> Info]
    /\ rows \subseteq Row
    /\ deep \subseteq Pids \X Hashes
    /\ replicated \in Nat
    /\ nextAid \in Nat
    /\ clock \in Nat
    /\ posted \subseteq Request
    /\ rejected \subseteq Pids \X Hashes
    /\ posts \in Nat
    /\ crashes \in Nat

\* scheduler.rs promises that the lock leaves "no conflicts" in the sequence:
\* no two items of a process' schedule get the same nonce, across concurrent
\* writers, failed saves and restarts.
NonceUnique ==
    \A p \in Pids : \A r, s \in Slots(p) : r.nonce = s.nonce => r = s

\* ... nor "missing nonces": each item follows the item with the nonce just
\* before its own, and its hash chain was computed from that very item.
HashChained ==
    \A p \in Pids : \A s \in Slots(p) :
       IF s.nonce = 0
       THEN s.chain = <<>>
       ELSE \E r \in Slots(p) : /\ s.nonce = r.nonce + 1
                                /\ s.chain = Append(r.chain, r.aid)

\* The order CUs read a schedule in (by timestamp) is the order of the nonces.
TimestampOrder ==
    \A p \in Pids : \A r, s \in Slots(p) : r.nonce < s.nonce => r.ts < s.ts

\* A data item is scheduled as a message once, however often it is posted and
\* however its writers interleave.
MessageOnce ==
    \A r, s \in rows :
       r.kind = "Message" /\ s.kind = "Message" /\ r.item = s.item => r = s

\* A process schedules a pushed or assigned content once, whatever data item
\* carries it: the bytestore is never behind the schedule.
ContentOnce ==
    \A r, s \in rows :
       /\ Deduplicated(r)
       /\ Deduplicated(s)
       /\ ContentKey(r) = ContentKey(s)
       => r = s

\* A push is refused as a duplicate only if its content is in the schedule:
\* otherwise the sender's retries can never deliver it.
RejectedIsScheduled ==
    \A k \in rejected : \E r \in rows : Deduplicated(r) /\ ContentKey(r) = k

\* What a slot says never changes and no slot disappears; new slots go to the
\* end of their process' schedule.
AppendOnly ==
    [][/\ rows \subseteq rows'
       /\ \A p \in Pids : \A r \in Slots(p), s \in Slots(p)' \ Slots(p) :
             r.nonce < s.nonce]_vars

\* The slots the database holds, as the schedule the SU promises has them.
SlotOf(r) == [pid |-> r.pid, nonce |-> r.nonce, aid |-> r.aid, chain |-> r.chain]

AllSlots == {SlotOf(r) : r \in UNION {Slots(p) : p \in Pids}}

Schedule == INSTANCE SuSchedule WITH slots <- AllSlots

\* Concurrent writers, failed saves and restarts implement one append-only,
\* gapless and chained list per process.
ImplementsSchedule == Schedule!Spec

\* No handler waits for its process' lock, or keeps it, forever.
EventuallyAnswered == \A w \in Workers : pc[w] # "idle" ~> pc[w] = "idle"

=============================================================================
