# TLA+ for the ao units

Models of the servers in this repository that run the ao protocol: the Scheduler
Unit (`servers/su`, Rust), the Compute Unit (`servers/cu`, JavaScript), the Messenger
Unit (`servers/mu`, JavaScript) and the Router Unit (`servers/ur`, JavaScript).
`tlc` checks the models on small instances, `tlapm` proves theorems about them for
every value of their constants. `PROJECT.json` lists the runs, the mutants (one
faulty variant of a definition for every property, which the property must catch),
the lines of code each definition stands for, the findings and the hazards.

To check one run: `tlc -config SuScheduler.cfg MCSuScheduler`. To check the proofs of
one module: `tlapm SuSchedulerProofs.tla`.

## 1. The system

A *process* is a data item on Arweave. Users and other processes send it *messages*.
An **SU** gives each message of a process a *nonce*: the process' schedule is the
sequence of its *assignments*. A **CU** folds the schedule over the process' WASM
memory and answers with results. An **MU** takes data items from users, has the SU
schedule them, asks the CU for their results, and pushes the messages, spawns and
assignments of a result to further processes; it also cranks the cron messages of
monitored processes. A **UR** proxies requests for a process to one of several hosts.

```
 user --data item--> MU --write--> SU            (assigns nonce, hash chain)
                     |  --result-> CU --pages--> SU
                     |             CU --memory-- LRU / files / Arweave checkpoints
                     '--crank--> MU's queue (messages, spawns, assigns)
```

### Inventory

| Component | State | Operations | What is hard | What makes it correct |
|---|---|---|---|---|
| SU scheduling: `core/flows.rs` `write_item`, `core/scheduler.rs`, `clients/store.rs` | a mutex and the last assignment per process in memory; tables `processes`, `messages` on a writer and a read replica; deep hashes in the bytestore | write a process, message or assignment; recover after a restart | concurrent writers of one process; two stores written one after the other; reads from a lagging replica; re-posted items; the system clock | unique gapless nonces, a hash chain over them, no item twice, append-only |
| SU reads: `get_messages`, `get_messages_nonce` | none | pages of a schedule by timestamp or nonce | limits and cursors where the process itself is a slot; rows written between two pages | following the cursors yields the schedule, once and in order |
| SU local store: `clients/local_store/store.rs` | RocksDB column families | save, get, latest, range scans | four keys put one by one; key order; listing while a save is half done | what is listed is gapless, each nonce once; the same pages as the SQL store |
| SU router: `core/router.rs` | schedulers with process counts, process to scheduler | initialise, redirect | unlocked read-modify-write of counts | one scheduler per process |
| CU streams: `api/readState.js`, `lib/chainEvaluation.js`, `lib/loadProcess.js` | pending streams by key | share, chain, refuse, load, fold, save | overlapping reads that arrive in any order; failures of a stream others wait for | every read is answered, with the state at its message |
| CU memory: `effects/ao-process.js` | LRU cache, drained files, file checkpoints and their records, Arweave checkpoints | get, set, evict, drain, checkpoint, load | memory and its label kept in different places; eviction while it is read; crashes between a file and its record | a memory is always the fold of the messages up to its label |
| CU evaluation: `lib/evaluate.js`, `effects/ao-evaluation.js` | results and seen messages in the database | fold, skip duplicates, store | messages assigned or pushed twice; a stream that fails half way and begins again | a memory shows each message once, in the order of the nonces |
| CU messages: `lib/loadMessages.js`, `effects/ao-su.js`, `effects/ao-block.js` | a table of blocks, shared by all processes | page the schedule, reconcile blocks, generate cron messages, merge | cron instants depend on where a stream starts; gaps in the blocks | each instant of a cron is evaluated once, from any starting point |
| MU queue: `clients/taskQueue.js`, `worker-fn.js` | queue in memory, its rows in SQLite, retries in timers | enqueue, dequeue, process, retry, remove, reload | rows deleted asynchronously; restarts | an accepted task is eventually done or has used up its retries |
| MU cranking: `api/sendDataItem.js`, `pushMsg.js`, `sendAssign.js` | message recovery table | write, get the result, crank, recover | retries of requests that may have succeeded; restarts between result and crank | results are pushed, once |
| MU cron: `clients/cron.js` | monitors in memory and in SQLite, cursors | monitor, stop, tick, restart | checks before an await; cursor saved before the crank | one monitor per process; no result skipped |
| UR: `domain.js`, `proxy.js` | caches of owners and modules | pick a host, fail over | bailout hosts at every attempt | every host is tried |
| scheduler-utils: `locate.js` | cached locations | locate, validate, redirect | time to live | locations are not used after it |

`connect` (client SDK), `loader` (module loaders), `protocol-tag-utils`, `dev-cli`,
`lua-examples`, `design` and `.devcontainer` have no protocol state and are not modelled.

## 2. Plan

Ordered by how much of the system depends on it. What is modelled is described in
sections 3 to 6.

| Module | Models | State |
|---|---|---|
| `SuScheduler`, with the abstract `SuSchedule` | scheduling | modelled, checked, proved |
| `CuReadState` | streams of evaluation over cached, drained and checkpointed memory | modelled, checked, proved |
| `MuTaskQueue` | the queue of the MU, its table and its workers | modelled, checked, proved |
| `SuPages`, `SuLocalStore` | pages of a schedule; the RocksDB store and a reader of its pages | modelled, checked, proved |
| `CuMessages`, `CuEvaluate` | cron messages between two scheduled ones; a stream from the pages of the SU to a saved memory | modelled, checked, proved |
| `MuCron` | cron monitors and their cursors | modelled, checked, proved |
| `MuPush` | requests to the MU and the recovery of messages | modelled, checked, proved |
| `Routing` | SU router, Router Unit and scheduler-utils together | modelled, checked, proved |

Still to do: in `CuReadState`, the registration of a stream a moment after the lock is
released.

`SuPages` is used by both sides of the interface it describes: `SuLocalStore` compares
its pages with it (`PagesAsSql`), `CuEvaluate` reads the schedule through it. An operator
whose parameters are the state of neither, it is the contract between the two units.

## 3. The Scheduler Unit: SuScheduler

`SuScheduler.tla` is `write_item` of `core/flows.rs` with everything it calls that
changes state. A handler is a member of `Workers`; `pc` is where it stands between two
awaits.

| Action | Code |
|---|---|
| `Receive` | a data item is parsed and passes the checks before the lock |
| `AcquireLock` | `ProcessScheduler::acquire_lock`, one tokio mutex per process |
| `CheckExistingMessage`, `RejectExistingMessage` | `check_existing_message` over `get_message`, the oldest row with the id |
| `Increment` | `ProcessScheduler::increment`: cache, else latest message, else process, else nothing; `gen_hash_chain`; the clock |
| `SaveProcess`, `SaveProcessNoAssign` | `save_process` with and without `enable_process_assignment` |
| `RejectDeepHash`, `SaveToBytestore`, `InsertMessage`, `InsertFails` | deep hash check and `save_message`: bytestore first, SQL next, clean-up on failure |
| `Commit` | `ProcessScheduler::commit`, after which the guard is dropped |
| `Fail` | every other error return under the lock |
| `Crash` | a restart: locks and cache are empty, rows and deep hashes stay |
| `Replicate` | the read replica catches up |

`rows` holds both tables; `replicated` says how much of them the replica has.
`posted` and `rejected` are history.

What is abstracted. SHA-256 is collision free, so a hash chain is the sequence of
assignment ids it was computed from. The epoch is a constant in the code and left out.
The deep hash of the content is an operator `DeepHash`; deep hash checks and `use_disk`
are enabled. Assignments are of AO messages: one with a base layer has no deep hash
(`flows.rs:435`), so it is not checked for its content and no property speaks of it. The
legacy deep hash, which ignores order, and `maybe_recalc_deephashes`,
a background task that does nothing for processes of the current version, are left out,
and so are the bundles in the bytestore, which writing never reads. Whitelist, router
and gateway checks are errors that `Fail` stands for. Uploads are started after the
commit and never awaited. The in-memory cache of `get_process` is left out: it is empty
after a restart and a process row never changes. An insert that is applied although
its acknowledgement is lost is not modelled; it is listed as a hazard.

`SuSchedule.tla` is what the SU promises: a set of slots that only grows, each process'
slots numbered 0, 1, 2, ... and chained. `SuScheduler` implements it with the refinement
mapping `AllSlots` (`ImplementsSchedule`).

### Runs

Instances have one process, two handlers, one restart and at most five requests: a
spawn, two pushes of one content, a user's message and an assignment. Two handlers are
enough for every race on the lock, the cache and the stores, as each handler's steps
touch one process; more of them would only queue. Further processes would share no
state with the first.

| Run | Shows |
|---|---|
| `su_scheduler` | nonces are unique (`NonceUnique`), chained (`HashChained`), in the order of the timestamps (`TimestampOrder`); no message twice (`MessageOnce`), no pushed or assigned content twice (`ContentOnce`); implements `SuSchedule` |
| `su_scheduler_no_assign` | the configuration without process assignments tolerates a lagging replica and re-posted processes (`HashChained`); no step changes a slot there is (`AppendOnly`); every request is answered (`EventuallyAnswered`) |
| `su_repost` (violation) | a re-posted process leaves a hole in the nonces and a chain over an assignment that was not saved |

Further configurations of the same instance, each with one assumption taken away:

| Configuration | What TLC reports |
|---|---|
| `SuSchedulerReplica.cfg` | `NonceUnique` violated: `increment` falls back on `get_process`, which reads the replica (`store.rs:762`); after a restart a process the replica has not seen counts as unknown, and its first message takes nonce 0, the process' own. A comment at `store.rs:1382` asks of the sibling query that it read the writer |
| `SuSchedulerClock.cfg` | `NonceUnique` violated: `get_latest_message` orders by timestamp (`store.rs:1398`), which is the system clock's; after it stepped back, a restart resumes from the wrong message |
| `SuSchedulerLost.cfg` | `RejectedIsScheduled` violated: a stop between bytestore and SQL leaves a deep hash (`store.rs:918`), and every later push of a message that was never scheduled is refused as a duplicate; the comment at `store.rs:949` calls a message that leaks into the bytestore harmless |

Two more such changes need no file of their own. With `ReplicaLag = TRUE` in
`SuScheduler.cfg`, `MessageOnce` is violated too: the duplicate check reads the replica
(`store.rs:1348`), and a message posted again before its row is replicated is scheduled
twice. With an assignment of an item that is also posted among the requests, it is
violated because `get_message` returns the oldest row with the id, which is no message if
the assignment came first (`store.rs:1351`).

Each passing run switches off exactly what one of the violations shows it depends on:
`ClockSteps`, `ReplicaLag`, `ProcessReposts`, and assignments of items that are also
posted.

Fairness of `su_scheduler_no_assign`: weak fairness of every handler's steps, because tokio
polls a woken future and every query returns or times out into an error; strong
fairness of `AcquireLock`, because tokio's mutex queues its waiters first in, first out.

### SuPages and SuLocalStore

`SuPages.tla` is `get_messages` of the SQL store as an operator: a query (by timestamp or
by nonce, exclusive `from`, inclusive `to`, limit) to a page (edges, and whether more
follows), with the process itself in the first place of the first page; `NextQuery` is
how the CU's `fetchAllPages` follows it.

`SuLocalStore.tla` is the RocksDB store. `save_message` puts four keys, into two
databases, one after the other: `composite`, `ordering`, `bundles` and `deep` are these
keys, and `write` says which of them is next.

| Action | Code |
|---|---|
| `Begin` | the duplicate check and `increment`, from the cache or from `get_latest_message` |
| `PutComposite`, `PutOrdering`, `PutBundle`, `PutDeepHash` | the puts of `save_message`; the last one ends in `commit` |
| `PutFails`, `Crash` | a put returns an error; the SU restarts with what was put |
| `BeginRead`, `FetchKeys`, `FetchBundles` | a client's query, the iteration over the keys, and the bundles, where an entry that is being saved may be met before its bundle is put or after |

One process; its own row and bundle are there from the start. The list has the order of
the keys (`KeyLess`). Deep hash versions and the migration from SQL are left out, and so
are writes to another process, which share no key.

| Run | Bounds | Shows |
|---|---|---|
| `su_local_store` | 3 items, one of which is pushed, 3 assignment ids in any order, one save cut short (`MaxTorn`), 1 restart, readers by timestamp with pages of 3 and by nonce with pages of 2 | `ReadableChain`, `ItemOnce`, `PagesAsSql` over every query with limits up to 3, `ReadExactly`, `ReaderEnds` |

Three messages fill a first page, with the process, and a second one, so that a page
ends on the boundary, before and after it. `get_messages` looks for a bundle ten times, a
tenth of a second apart, and then leaves the entry out (`local_store/store.rs:849`); a put
may take longer, so `FetchBundles` may be taken at any moment of it. A page of 3 has room
for a torn entry and one that is being saved (`Roomy`). With pages of 2 and both, a full
page shows nothing, and the reader, which has no edge to go on from, begins again: TLC
finds it when `Roomy` counts the torn entries only. `MaxGot` only leaves a reader alone that has
gone round in a circle. Fairness: a query is answered and a save returns.

| Configuration | What TLC reports |
|---|---|
| `SuLocalStoreFork.cfg` | `ReadableChain` violated when the put of the deep hash fails: the message is listed, its nonce is not committed, and the next message takes it too, although `scheduler.rs:35` speaks of "no conflicts or missing nonces" |
| `SuLocalStoreTorn.cfg` | `Schedulable` violated: after a save cut short between ordering entry and bundle, `get_latest_message` finds an entry it cannot read, and a restarted SU can schedule nothing more to the process |

With `INVARIANT LastPageIsLast` in `SuLocalStore.cfg`, TLC reports that a page of one edge
that shows the process claims to be the last (`local_store/store.rs:758`).

## 4. The Compute Unit


### CuReadState

`CuReadState.tla` is `readState` for one process: the decision of `chainEvaluation` about
an incoming read (share a pending stream, answer from stored results, answer from an
exact memory, refuse with status 425, chain to the latest earlier stream, or start), the
layers of `findLatestProcessMemory`, the fold of `evaluate`, `saveLatestProcessMemory`
with its eager checkpoints, and the cache that drains to a file.

A message is its nonce. A memory is the *sequence of messages folded into it*, so that a
wrong fold is visible: `Fold(n)` is the right memory under label `n`. Every place that
keeps a memory keeps it next to a label, as the code does: `lru` the LRU entry,
`drained` the entry of `drainedToFile` with the number of its `File` promise (`drains`),
`drainFile` the content of the file, `checkpoint` and `record` the checkpoint file and its
row, `uploaded` the Arweave checkpoints, `results` the evaluations table. `fileLock` is the
queue of the `AsyncLock` on `state-<processId>.dat`: the cache and the checkpoints keep
their files in two directories, but the lock is on the name, so they share it.

| Action | Code |
|---|---|
| `StartStream`, `AnswerIncoming`, `AnswerExact`, `RefuseIncoming`, `ChainStream`, `StartBeside` | the outcomes of `chainEvaluation` |
| `Unchain`, `FailChained` | `res.pending.then(next)` |
| `LoadResult`, `LoadCached`, `LoadDrained`, `LoadNothing`, `ReadDrained`, `SkipDrained` | `loadProcess`: exact evaluation, `maybeCached` |
| `FindFileCheckpoint`, `NoFileCheckpoint`, `FindArweaveCheckpoint`, `ColdStart` | `maybeFile`, `maybeRecord` and `maybeCheckpointFromArweave`, `coldStart`; `Resume` is `maybeOld` and `Backfill` the save into the cache |
| `WriteDrain`, `FailDrain`, `ReadFile`, `FailRead`, `WriteCheckpoint`, `FailCheckpoint` | whoever holds the file's lock |
| `Evaluate`, `Finish`, `FinishEagerly`, `FailStream` | `evaluate`, `saveLatestProcessMemory` |
| `WriteRecord`, `FailRecord`, `Upload`, `Checkpointed` | `saveCheckpoint` |
| `Evict`, `Crash` | the LRU's size and time to live; a restart |

What is abstracted. Evaluation is a deterministic function of memory and message, and
every message changes the memory (an erroneous one, which leaves the memory as it was,
is folded like the others). Messages are more than the ten seconds apart that
`chainEvaluation` adds to a read's timestamp. The gas and time thresholds of eager
checkpoints may be reached at any save that advances the cache. Which Arweave checkpoint is found is
arbitrary among the uploaded ones, as gateways index late; checkpoints of other CUs and
their verification are left out. An entry larger than the whole cache is left out. A
pending stream is registered when the decision is taken, while the code does so in a
continuation after the lock was handed on: a second stream for the same read, started in
between, is left out. Evictions are macrotasks: none comes between a file promise that settles
and the continuation that awaits it.

| Run | Bounds | Shows |
|---|---|---|
| `cu_read_state` | 3 overlapping reads, 2 messages, 1 restart, no drains, Arweave checkpoints | `MemoriesFolded`: no memory under a wrong label |
| `cu_read_state_live` | 2 overlapping reads, 1 drain, file checkpoints, 1 restart | `LatestAdvances`: the cached memory never goes back; `EventuallyAnswered` |

Further configurations:

| Configuration | What TLC reports |
|---|---|
| `CuReadStateDrainRace.cfg` | `MemoriesFolded` violated: a read waits for the drain of one memory, then reads the process' one file by name, to which another stream's later memory was drained meanwhile (`ao-process.js:1142`), and takes that for the earlier one |
| `CuReadStateCheckpoint.cfg` | `MemoriesFolded` violated: a stop, or a failed insert, between the checkpoint's file and its record (`ao-process.js:1917`) leaves a later memory under the label of an earlier one, and its messages are folded twice |
| `CuReadStateDryRun.cfg` | `MemoryAnswered` violated: `chainEvaluation` looks the memory up with `omitMemory` and answers a dry run's read that it matches exactly with `{ Memory: null }` (`chainEvaluation.js:203`) |
| `CuReadStateResult.cfg` | `ResultAnswered` violated: a result that could not be saved is answered empty once the memory of its message is cached (`readState.js:109`) |

`MemoriesFolded` needs one of two conditions: no drains, or no overlapping reads; and no
file checkpoints (they are disabled by default). The first two configurations show what
each is for. Three reads are one to fill the cache and two that race.

Fairness of `cu_read_state_live`: weak fairness of each stream's steps and of the lock's
holder. A promise's continuation runs once it settles, file operations end, and
`AsyncLock` serves its queue in order. Nothing is assumed of requests, evictions,
uploads or restarts.

### CuMessages and CuEvaluate

`CuMessages.tla` holds the pure part of `loadMessages`: `CronMessages(left, right, blocks)`
steps from one boundary to the other second by second, as the code does (`Walk` is the
loop, with the block it has passed and those still to come), and generates the crons of
blocks and of time (`OfBlock`, `OfTime`); `ReconcileBlocks` finds what the table of blocks lacks
and asks the gateway for it. A time is counted in ticks, `TicksPerSecond` of which make a
second, since the code compares some times by milliseconds and others by seconds.

`CuEvaluate.tla` puts it to work: an SU that schedules messages while time passes, and
streams that begin from any memory that was ever saved (or cold), read the schedule page
by page, generate crons between the messages, leave out duplicates, and save the memory
they end with. A memory is the sequence of what was evaluated over it.

| Action | Code |
|---|---|
| `Tick`, `Schedule`, `Commit` | the SU: its clock, `increment`, the save (`pending` is the message in between) |
| `SaveBlock` | a stream of another process saves a block in the shared table |
| `Begin` | `loadMessages`: the boundaries, `reconcileBlocks`, the first query |
| `Fetch` | `fetchAllPages`, `mapAoMessage` with `isHashChainValid`, `cronMessagesBetween`, the merge of both |
| `Skip`, `Evaluate` | an iteration of `evalStream`: duplicate, or evaluated and its row saved |
| `Finish` | `saveLatestProcessMemory` |
| `Fail` | the stream is rejected, anywhere in its buffer, or the CU stops |

What is abstracted. Streams run one at a time; how they overlap is `CuReadState`. Which
memory a stream begins from is arbitrary, as any may be the one that is found. Cron tags
are given parsed (`Crons`). `evaledCrons` holds a hundred keys in the code and all of them
here. The wiggle room of 90 seconds is `Wiggle`.

| Run | Bounds | Shows |
|---|---|---|
| `cu_evaluate` | one cron of each kind, 3 blocks, gaps in their table, 4 kinds of items with an assignment of a message and a repeated push, 2 messages, 2 streams, 7 ticks of half a second | `MessagesFolded`, `CronsFolded` |

Two streams are one that leaves a memory or fails, and one that goes on; two messages
make a repetition, and with the process fill more than a page of 2. Half seconds make the
left boundary fall into the middle of a second, which is where steps of a second and
instants differ.

The run takes the code's own assumptions for granted: `Ties = FALSE` (two messages of a
process never share a millisecond), `Reposted = FALSE` ("the SU rejects any messages with
the same id, that are not an assignment", `evaluate.js:172`), `SlowSaves = FALSE` (a message
is listed at the time it carries), `RowsFail = FALSE` and `OtherTables = FALSE` (the rows of
evaluated messages are there). With any of them changed in `CuEvaluate.cfg`, and a third
stream for the last, `MessagesFolded` is violated. Two are to be expected. `SlowSaves`: a
stream up to now passes the timestamp of a message that is listed a moment later, and no
later stream reads it. `Reposted`: the SU's check reads the oldest row of the id on the read
replica and lets the message pass if that row is an assignment's or is not there yet
(`store.rs:788`, `store.rs:1346`). An id that was assigned first, to this process or to
another, can therefore be scheduled as a message and again as a message; the CU looks only
at assignments and deep hashes (`evaluate.js:177`) and evaluates each of them.

| Configuration | What TLC reports |
|---|---|
| `CuEvaluateAssigned.cfg` | `MessagesFolded` violated: a pushed message is known by its deep hash, an assignment of it by its id, and both are evaluated |
| `CuEvaluateStuck.cfg` | `NeverRejected` violated: the place of a memory is that of the last message *evaluated*, its assignment that of the last one *passed* (`evaluate.js:155`); the next stream reads the skipped duplicate again and rejects its hash chain, although removing duplicates "prevents them from corrupting the process" (`evaluate.js:169`) |
| `CuEvaluateTwins.cfg` | `CronsOnce` violated: two crons that share an instant; a stream that goes on from the second evaluates the first again, although the key "should prevent duplicate Cron Messages from being duplicate evaluated" (`evaluate.js:127`) |
| `CuEvaluateBlocks.cfg` | `BlockCronsKept` violated: blocks within the wiggle room, or met by a stream in the second of a message, have no crons, although "all missing blocks" are found (`loadMessages.js:359`) |

## 5. The Messenger Unit

### MuTaskQueue

`MuTaskQueue.tla` is a result's way through the Messenger Unit: `enqueueResults` hands it
to a worker as a *task*, `enqueueWith` puts it in the queue and the table, the worker's loop
dequeues it and runs `processMsg`, `processSpawn` or `processAssign` without waiting for
it, its own results come back as tasks, and a failure comes back, after a delay, as the
same task at the stage it had reached. `worker[q]` is the memory of the worker with queue
id `q`; the sets `checking`, `running` and `waiting` are the tasks at the rate limit's
await, at a call and in a timer. `rows` is the shared table.

| Action | Code |
|---|---|
| `Crank` | `workerPool.exec('enqueueResults')`, which may create a worker (`onCreateWorker`) |
| `Enqueue`, `ExceedRateLimit` | `enqueueWith` |
| `Dequeue` | `dequeueWith`; `Started` is `processResult` up to the first call |
| `Build`, `Read`, `Write` | a call that is answered; `Route`, `NextStep`, `Advance` are the stages with `checkStage` and `setStage`, `Unchecked` the calls that have no `checkStage` |
| `Fail`, `LoseAck`, `PostGarbled` | a call that fails, without and with an effect; `Cause` is the context in the error |
| `Retry`, `GiveUp` | the timer of `processResults` |
| `Die` | an error without a cause, thrown again in the handler of errors: an unhandled rejection ends a worker thread in Node 22 |
| `RemoveDequeued` | the job of every two seconds |
| `Crash` | the MU restarts, with a worker for each queue in the table (`Restarted`, `Loaded`); `Older` are the rows that are more than an hour old |

What is abstracted. The results of a task are given (`Outbox`), as a CU's answer for a
message does not change. `WrittenOnce` counts the message ids a task is written under:
signatures are salted, so each signing makes a new id. better-sqlite3 is synchronous, so
a row is inserted in the tick in which its task is queued. Rows have distinct timestamps;
rows of one millisecond could be loaded in either order. Delays have no length: a retry
may come before the removal of the earlier rows, which makes `RepeatsBounded` an upper
bound. `reloaded` is history: the rows of a task that restarts have read back. The pool's choice of a worker is arbitrary. A restart loads all queues at once.

| Run | Bounds | Shows |
|---|---|---|
| `mu_task_queue` | a message whose result is a transfer to a wallet, and a spawn whose first result is pulled, 2 workers, 1 retry, lost answers, rate limits | `ExactlyOnePlace`, `WrittenOnce`, `QueuedInOrder`, `TableMatches`, also when a worker dies |
| `mu_task_restart` | a message, 1 retry, lost answers, rate limits, 1 restart | `NothingQueuedLost`, `RepeatsBounded` (the count it allows is reached), `EventuallySettled` |

Further configurations:

| Configuration | What TLC reports |
|---|---|
| `MuTaskQueueGarbled.cfg` | `PostsSigned` violated: a task is persisted with `JSON.stringify`, in which `tx.data`, a Buffer, becomes an object; read back, the task keeps its stage, skips `build-tx`, and `write-message-tx.js:54` posts `Buffer.from('[object Object]', 'base64')` until its retries are over |
| `MuTaskQueueSpawn.cfg` | `SpawnsKept` violated: with `SPAWN_PUSH_ENABLED` the first result of a new process is pulled with a context of its own (`processSpawn.js:41`), which becomes the cause of a failure and is enqueued as the retry: it has neither type nor `cachedSpawn`, the spawn is never finished, and dequeuing it ends the worker |

All workers delete from one table. `TableMatches` says that it nevertheless agrees with
the memory of each of them: a row that is missing is a task that a stop would lose, and a
row too many one that every restart would process again. `NothingQueuedLost` is the
consequence that matters, also for a worker that dies. TLC finds no error in it in
`MuTaskQueue.cfg` either, nor in `TableMatches` in `MuTaskQueueRestart.cfg`.

Some statements hold only within limits that the runs keep. With `HourPasses = TRUE`,
`TableMatches` and `NothingQueuedLost` are violated: the query of `taskQueue.js:176` deletes
the dequeued ids *or* every row older than an hour, of whatever queue, while its comment
(`taskQueue.js:168`) says "only the tasks in the set", and a restart deletes the rows of that
age before it loads them (`taskQueue.js:16`). So a task that waits for an hour, in a queue
that is long or of a worker that died, is lost by the next stop. With a restart, `QueuedInOrder` is
violated: `createTaskQueue` selects the rows latest first (`taskQueue.js:32`), while
`worker-fn.js:113` says that results are processed "in the order that they enter into the
queue".

Workers share nothing but the table, and two show what one may do to another's rows; the
restart, which treats every queue alike, is checked with one. One retry has all that ten have: a first attempt, a
retried one, and the end. One restart already meets every mixture of rows and tasks.

Fairness of `mu_task_restart`: weak fairness of a worker's work. Its loop and timers run,
and every request ends, answered or timed out. Every entry has finitely many steps, so
weak fairness of their disjunction is enough. Nothing is assumed of the removal job.

A task that is processed or waits for a retry when the MU stops may be lost (`atRisk`):
its row goes two seconds after it was dequeued at the latest, and a retry is written to
the table only when its delay is over. Nothing in the code claims more, so this is a
hazard and not a finding. The same holds for a spawn whose answer is lost.

### MuPush

`MuPush.tla` is what happens to a request before its results reach the queue:
`sendDataItem` (a message or a process), `sendAssign` and `pushMsg` forward, answer, pull
the result and crank it; a message whose result is not there after
`GET_RESULT_MAX_RETRIES` is kept in a table, from which a job of every ten seconds
recovers it.

| Action | Code |
|---|---|
| `Refuse`, `Write`, `Check` | up to the answer; an answer of the SU may be lost after it took the item |
| `Pull`, `PullAgain`, `PullFails` | `getResult` with its retries; for a process, the error handler that throws again |
| `Save` | `insertMessage` |
| `Crank`, `CrankFails` | `crank` to the pool of workers |
| `BecomeDue`, `Select` | time reaches a row's timestamp; the job takes the oldest such row |
| `RecoverPull`, `RecoverPullAgain`, `RecoverCrank`, `RecoverDelete`, `RecoverFails` | the job's steps; on failure the row is moved to a later time or, out of retries, deleted |
| `Restart` | memory is lost, the table stays |

`table` is ordered by timestamp and `due` says how many rows have come; a row that is put
back may land anywhere behind those, for its delay depends on its retries. What the CU
answers is chance. A failure of SQLite is left out. What a stop finds in memory only is
`lost`, as nothing in the code keeps it.

| Run | Bounds | Shows |
|---|---|---|
| `mu_push` | 2 messages, a spawn, a push, `MaxPulls` and `MaxRecoveries` of 1, 1 restart | `CrankedOnce`, `SavedHasRow`, `EventuallySettled` |

Two messages are one that the job works on and one that it may starve; the retries are
settings, and 1 has a first try, a retry and an end. Fairness: time passes, the timer of
the job fires, and calls return or time out. It is not assumed that any call succeeds.

### MuCron

`MuCron.tla` is the monitoring of cron results: `startMonitoredProcess`,
`killMonitoredProcess`, `initCronProcs` and the job that a monitor runs every ten seconds.
A cursor is the place of a result among the results of its process. `rows` is the table,
`running` is `cronsRunning`, and `monitors` are all that were made since the start, also
those that nothing refers to any more.

| Action | Code |
|---|---|
| `MonitorRequested`, `Started`, `OwnerFails` | `startMonitoredProcess`, before and after the await of the owner |
| `Resume`, `Restart` | `initCronProcs`: rows are started one by one, and old cursors are cleared |
| `Kill` | `killMonitoredProcess` |
| `Tick`, `Located`, `LocateFails` | a tick, and `getCursor` when there is no cursor |
| `Fetched`, `FetchFails` | `fetchCron`, then `setCursor` and the crank of every result |
| `Evaluate` | the CU has evaluated another message |

`Page` and `LatestCursor` are the CU's side (`readCronResults`, `findEvaluations`,
`gatherResults`): the limit cuts before results with an error are left out.

| Run | Bounds | Shows |
|---|---|---|
| `mu_cron` | 3 results, the second of which is an error, pages of 1, 1 caller, 2 monitors, 1 restart | `RowsMonitored`, `CrankedOnce`, `NothingSkipped`, `CatchesUp` |

Two monitors show a process that is stopped and monitored again, or monitored twice.
`CrankedOnce` is false of processes with twins, or whose monitor found no cursor: both are
kept as history (`twins`, `rewound`) and exempted, for the code does nothing against
either. Fairness: timers fire and calls end; and a call that is made again and again is
answered with results some time (strong fairness of `Fetched`).

| Configuration | What TLC reports |
|---|---|
| `MuCronStopped.cfg` | `OnlyKnownTick` violated: a process stopped while its monitor awaits the first cursor ticks on (`cron.js:223`), and so does the first of two monitors started at once (`cron.js:194`); `cron.js:299` says "stop monitoring it" |
| `MuCronGauge.cfg` | `GaugeCounts` violated: a start adds to the gauge what the start of the MU has already counted; `index.js:102` says "The number of cron monitors running" |

With two callers, four results, a scheduled message among them and `Erroneous = {3}` in
`MuCron.cfg`, TLC finds no error in the invariants either.

## 6. Routing

`Routing.tla` composes three components that must agree on where a process is scheduled:
the SU in router mode (`core/router.rs`), which gives a process a scheduler and redirects
to it; the Router Unit (`ur`), which proxies a read to a Compute Unit and fails over; and
`scheduler-utils`, by which a CU locates a process' scheduler and keeps what it found.

| Action | Code |
|---|---|
| `ChooseScheduler`, `UpdateScheduler`, `SaveProcessScheduler` | `redirect_data_item` for a process, at its store calls: the schedulers are read, the count of the chosen one is written, the process' row inserted |
| `Replicate` | the read replica of the router catches up |
| `RedirectMessage`, `RouterRefuses` | `redirect_data_item` for a message; its errors; assignments of an MU, which end here |
| `PostDirectly` | a process is posted to a scheduler without the router |
| `SpawnProcess`, `ScheduleMessage`, `SchedulerRefuses` | the scheduler that is redirected to, with its router check (`BelongsHere`) |
| `Proxy`, `Bubble`, `HostUnreachable` | `revProxy` and `determineHost` |
| `Answer`, `AnswerError` | a CU that locates the scheduler and reads there |
| `Expire` | a cached location ends, by its time to live, for want of room, or with a restart |

`home` is the table of processes' schedulers, `held` and `scheduled` what the schedulers
have saved, `located` the caches. A CU may be unreachable at any time
(`HostUnreachable` has no guard but that the read was sent there). A read whose scheduler
answers with an error is answered with an error, and is not failed over, as in the code.

The router writes to its database and reads a replica of it (`get_read_conn`), which may be
behind at any time. Of the schedulers' counts `shown` is what the replica shows. A row of
`process_schedulers` is never changed, so a late replica has it as it was written or not
at all, and not to have it ends as a failing store call does: a message is refused, the CU
takes the router itself for the scheduler, and a scheduler that asks about a process is
answered that there is none. The last is what `get_routed_assignment` makes of every answer
that is not a redirect to `https://su<number>.`: `RouterAnswers`. The scheduler then takes
the process as one that was not spawned through the router; the history variable
`unrouted` records it. Messages reach the schedulers by the router only: what is posted
straight to a scheduler is scheduled there, and no component promises otherwise.

| Run | Bounds | Shows |
|---|---|---|
| `routing` | 3 schedulers, one of them reserved for a wallet, 2 CUs, 2 processes; a process posted twice to the router and once to a scheduler, a message, two reads | `HeldAtHome`, `OneSchedule`, `FailedOver` |

Two posts of a process race at the router, and with one that no router placed; a scheduler
has the row of another, its own, or none for an answer. A third CU would add attempts of
the same kind.

What the code's comment says of a process, "This process was spawned on another SU through
the router so we should not allow it to be spawned here as well" (`flows.rs:563-565`), is
`TakenAtHome`. It does not hold: the row is there, the replica has not got it, and the
scheduler a repost was redirected to takes the process. `HeldAtHome` is what does hold: a
process is at its row's scheduler, or was taken when the router knew of no row, and so
never where the scheduler was told of another. `OneSchedule` is not affected, as messages
and reads follow the row wherever the process itself was taken.

| Configuration | What TLC reports |
|---|---|
| `RoutingBailout.cfg` | `AlwaysFailedOver` violated: a process whose owner has a bailout host is sent to the same host at every attempt; `ur/README.md:5` speaks of "whatever reason, the underlying host cannot be reached" |
| `RoutingReplica.cfg` | with `-continue`, both: `TakenAtHome` violated by a repost whose row the replica has not got (`store.rs:1486`, `flows.rs:573-577`); `NoneUncounted` violated, as two handlers read one count, or one an old count, and write it back (`router.rs:243`, `store.rs:1604`) |

## 7. Proofs

TLAPS proves the following, for any sets of processes, items, handlers, workers, reads,
monitors, requests and units, and any bounds.

| Theorem | Assumes |
|---|---|
| **`SuSchedulerProofs`** | |
| `TypeCorrect` | |
| `MutualExclusion`: one handler at a time is between acquiring and releasing a process' lock | |
| `ContentScheduledOnce`: `ContentOnce` | |
| `MessageScheduledOnce`: `MessageOnce` | `~ReplicaLag`, `PostedToTarget` |
| `NoncesOrdered`: `NonceUnique` and `TimestampOrder` | `~ClockSteps`, `~ReplicaLag \/ ~ProcessAssignment` |
| `TimestampsOrdered`: `TimestampOrder`; `SchedulesAppendOnly`: `AppendOnly` | the same |
| `SchedulesChained`: `HashChained` | `~ProcessReposts` |
| `SchedulerImplementsSchedule`: refinement of `SuSchedule` | all three |
| **`SuLocalStoreProofs`** | |
| `TypeCorrect` | |
| `AlwaysItemOnce`: `ItemOnce` | |
| `AlwaysReadableChain`: `ReadableChain` | the last put, of the deep hash, does not fail |
| `AlwaysPagesAsSql`: `PagesAsSql` | |
| `AlwaysReadExactly`: `ReadExactly` | the last put does not fail |
| **`CuEvaluateProofs`** | |
| `TypeCorrect` | |
| `AlwaysMessagesFolded`: `MessagesFolded` | `~Ties`, `~Reposted`, `~SlowSaves`, `~RowsFail`, `~OtherTables`, `ItemsNamed` |
| `AlwaysCronsFolded`: `CronsFolded` | `OneClock`, `BlocksOnSeconds` |
| **`CuReadStateProofs`** | |
| `TypeCorrect` | |
| `AlwaysAdvances`: `LatestAdvances` | |
| `MemoriesAreFolded`: `MemoriesFolded` | `FileUnshared` |
| **`MuTaskQueueProofs`** | |
| `TypeCorrect` | |
| `AlwaysWrittenOnce`: `WrittenOnce` | |
| `AlwaysQueuedInOrder`: `QueuedInOrder`, until a restart | |
| `AlwaysRepeatsBounded`: `RepeatsBounded` | |
| `AlwaysOnePlace`: `ExactlyOnePlace` | `~HourPasses` |
| `QueuedNotLost`: `NothingQueuedLost` | `~HourPasses` |
| `AlwaysTableMatches`: `TableMatches` | `~HourPasses` |
| **`MuPushProofs`** | |
| `TypeCorrect` | |
| `SavedHaveRows`: `SavedHasRow` | |
| `AlwaysCrankedOnce`: `CrankedOnce` | |
| **`MuCronProofs`** | |
| `TypeCorrect` | |
| `AlwaysRowsMonitored`: `RowsMonitored` | |
| `AlwaysCrankedOnce`: `CrankedOnce` | |
| `NeverSkipped`: `NothingSkipped` | |
| **`RoutingProofs`** | |
| `OneScheduleServed`: `OneSchedule` | |
| `ProcessesHeldAtHome`: `HeldAtHome` | `RouterCheck` |
| `AlwaysTriedAll`: `FailedOver` | |

### The assumptions

They are switches of the models, and statements about their constants. Each is needed.
`SuSchedulerClock.cfg`, `SuSchedulerReplica.cfg` and the run `su_repost` violate the
property of the scheduler without `~ClockSteps`, `~ReplicaLag` and `~ProcessReposts`.
`PostedToTarget` says that no request assigns an item that another one posts as a message,
or posts it to another process: a message names its process, and section 3 says what an
assignment of it does. `SuLocalStoreFork.cfg` violates `ReadableChain` when the last put
fails. Without one of the five switches of `CuEvaluate`, `MessagesFolded` is violated
(section 4). `ItemsNamed` says that two items have one name in the table of messages
exactly if one repeats the other: they have the same id, or the same deep hash. The items
of the run do; in `CuEvaluateAssigned.cfg` an assignment and a push of one message do not.
`OneClock` says that a process has at most one cron of time, and any number of crons of
blocks: with two that share an instant, `CronsFolded` is violated by the constants of
`CuEvaluateTwins.cfg` as well. `BlocksOnSeconds` says that the time of a block is a whole
second, as the gateway tells it (`ao-block.js:293`): of two blocks in one second the walk
would pass one late. `CronsFolded` needs none of the five switches.
`FileUnshared` says that the file of a process has one user at a time: there are no
file checkpoints, as the defaults have it (`config.js:79`, `config.js:151`), and a memory
is not drained while two streams of the process overlap. `CuReadStateDrainRace.cfg` and
`CuReadStateCheckpoint.cfg` show what happens otherwise. `~HourPasses` says that no row is
an hour old, without which `TableMatches` and `NothingQueuedLost` are violated (section 5).

### The arguments

*Scheduler.* `LockInv` says that the locks of two handlers differ while both are between
acquiring and releasing; all else rests on it, because only the lock makes read, compute
and save one step. None of the properties is inductive by itself. `NonceUnique` says
nothing about a handler that has computed a nonce and not saved it, so `OrderInv` adds
`HandlersAhead` (such a handler's slot is after every slot there is), `CacheReached` (a
cached assignment is the last one, or its writer is about to commit) and the order of
all stored slots. The step that saves a slot then also keeps the schedule append-only
(`AppendNext`). `ContentInv` ties the handler between bytestore and table to the deep
hashes. `MessageInv` says that what a handler found missing under the lock is still
missing: a message can only be inserted by the holder of its process' lock, and the oldest
row with its id, which the check reads, exists if any does (`OldestFound`). `ChainInv`
says that each slot, each computed slot and each cache entry continues
a slot that is stored; `SpawnedOnce` that a process sent once is in the hands of one
handler and, until it is saved, in no row. Each conjunct has a lemma for the actions that
disturb it, and `LockNext`, `ContentNext`, `MessageNext`, `OrderNext`, `ChainNext`,
`SpawnedNext` combine them. For the refinement, `SaveAppends` shows that a save adds one
slot that continues its schedule, and `OthersStutter` that no other step changes a slot.

*Local store.* `StoreInv` is the order of the puts: a bundle has an ordering entry, which
has a composite key, and what is written next is missing yet. `ChainInv` adds that the
nonce in memory is the last one that can be read, and that of the save under way the one
after it, until its bundle is put. After a restart the nonce is read from the last
ordering entry, which is the last one readable or none can be used (`LatestIsTop`).
`ItemInv` says that a message without a bundle is being saved or was cut short.

*Pages.* The stores list a set of messages in an order, which `InOrder` says without
recursion: the i-th is the one with i - 1 before it. `Ranked` shows that for a strict total
order of a finite set this is a sequence that increases and leaves nothing out. That the
keys and the timestamps give the same list (`SameList`) is not a fact about one moment:
torn entries keep their nonce, and the next message takes it again. `OrderInv` says that
nevertheless a later entry never has a smaller nonce, as what is in memory, or what a
restart finds, follows all that was put (`LatestIsMost`).
For a reader, `PageOf` says what a page is of its query when its keys were read, and
`GotBefore` that what the reader has is in order, once each, and all it knows up to the
place of its query. A step of the reader keeps `GotBefore` if the page shows something,
from which the next query starts: a page is full when it claims that another follows, and
of its entries only those without a bundle are left out (`KeptSome`). These are entries
that no save under way will complete (`Torn`), which never become fewer (`TornGrows`), and
at most one that is being saved, given up on or not yet put; so `ReaderInv` claims
`GotBefore` while the page has room for more than those. The last page then adds what is missing
(`GotIs`).

*Evaluation.* A stream is a list of what is still to come, so what it has folded is said
together with its queue. `FoldInv` says of a stream that there are two messages, p and e:
it has folded the messages up to p, its queue leads from p to e without a gap (`Chain`, by
ordinates, and `Lined`, by times), and its next page begins after e (`NextPageIs`). A page
is what a `Chain` is made of because its query starts at a time, its messages have
different times (`ScheduleInv`), and what it lists is therefore the next ones (`PartByTime`,
`FetchReads`); the crons that `CronMessages` puts between two of them keep the ordinate on
their left (`CronsAre`, `WalkIs`). Of a memory it says that its ordinate is that of the
last message at or before its time, which it must still be when a message is scheduled
later (`CommitLines`): that is where slow saves and ties would break it. Duplicates need the table of results: a
row is that of the first message with its name (`RowsInv`), whichever stream wrote it, and
all that a stream has folded has a row (`NamesIn`), so that a message is left out exactly
if it repeats one before it (`DuplicateIs`). A stream that ends with duplicates leaves a
memory at the last message it evaluated; those it has passed since add nothing (`LastIs`,
`ResultReads`). `TypeCorrect` needs that a stream that has passed nothing begins with the
process (`Opening`): without that, its result would have no assignment to go on from.
What `CuMessages` flattens and steps through is defined recursively; `Recursion` gives such a
function its values, and `LeastNumber` stands in for induction over them.

For the crons, `CronInv` says of a stream that there are two places, p and e, in time
(`Places`): what it has folded shows the crons up to p (`CronsTo`), and its queue leads from
p to e (`Line`), from where the next page goes on (`NextPageAt`). A place has a time, the
first second whose instant has not come, and the crons of a block that have. A message may
follow a place (`Follows`) if no instant of the seconds between is left out (`Quiet`), and
an instant may come once more only if a message shares its second or the stream knows it
(`Again`), so that it is skipped. That `CronMessages` makes such a line is the longest part
(`CronLine`): each second is stepped on once (`TimeLine`), and a block between the boundaries
is passed in the step of its own second, which is never the first one (`WalkPasses`,
`BlockLine`). A stream begins at the place its memory was left at, and knows the cron it
was left at (`Seed`, `BeginLine`); this is where two crons of one instant would break it,
since the stream knows only the last. The second of a scheduled message is stepped on from
both sides of it, which is why `CronsFolded` excepts the seconds that messages share.

*Streams and memories.* `TypeCorrect` needs one addition, `LockServesReads`: who queues
for the lock of the file is a drain or a read. `LatestAdvances`
rests on `IsStale`: a stream that ends and a memory that was loaded replace the cached one
only under a label that is not earlier (`KeepAdvances`, `BackfillAdvances`), and a drain
keeps the label (`DrainAdvances`).
`MemoriesFolded` is not inductive: a memory is read from a file under a label that was
taken before the file's lock. `FileInv` says when this is sound: drains are queued in the
order of the evictions and none of those that wait has settled (`DrainsInTurn`); the drained
entry is of the last one, and nothing was cached since (`DrainedLast`); what that one
writes, or wrote, is the memory of the entry's label (`DrainFolded`); and who awaits or
reads the file does so for that entry (`DrainAwaited`, `ReadsInTurn`). With one stream at a
time nothing else can evict a memory in between (`OneStream`).

*Task queues.* A task moves between the places of its worker, its row and the settled
tasks. `Base` holds however long rows wait: entries stand where their stage says
(`EntryInv`), ids are those of one row and one entry (`IdInv`), until a restart a task is
at one place (`OnceInv`) and what was sent for it is what its entry carries, if it is past
its signature (`SentInv`). `Table` needs `~HourPasses`: what is queued has its row until
it is dequeued (`RowInv`), what no worker holds is in a row that is not to be removed
(`KeptInv`), and where a task is missing a worker died (`LivesInv`). `OwnInv` adds, for
`TableMatches`, that a row without an entry in its queue is of a task that was dequeued; a
restart keeps it because the rows it loads are all the rows of the queue (`LoadedIs`). Each action is shown
to be a `Shift` of one entry from a place to another, in one worker, and the lemmas about
`Moves` carry the invariants over it, so that a step needs little more than what it moves.

How often a message is sent is bounded by what may still be sent: an entry is `Open` if it
has no signature yet, or one that was not sent. What was sent for a task and the entries
that are open for it are never more than one and the rows that restarts have read
(`RepeatInv`): a worker replaces an entry by at most one of the same task, which is open
only if the entry was and nothing was sent (`Replacement`), and a restart opens one entry
for each row it reads. The bound for the first restart is that of the rows there can be by
then: the rows of a task differ in their retries, and its entry in memory has no fewer
(`LadderInv`), as a task is written again only after a retry. It cannot hold for every
restart, as what is repeated leaves rows of its own.

*Requests.* `RowInv` says that the rows of the table are of different requests
(`RowsDistinct`), exactly those that wait for their recovery (`RowsSaved`), and that the
job works on the first one (`JobHoldsFirst`), which makes moving a row to the end and
deleting it by its id the same row. `NotYetCranked` bounds the cranks of each phase by
the stops that hit the job between a crank and the deletion.

*Cron monitors.* `CrankedOnce` relates counts to nothing that is kept of a monitor. What is
inductive is a statement of each process, until it has twins: one monitor is alive
(`OneAlive`), it fetches from the cursor of the row or, if there is none, from one it
located itself (`FromCursor`), and what was cranked is before every cursor that is saved or
fetched from, and was there when a cursor was asked for (`CrankedBefore`). A page then
starts after all that was cranked, and up to its last result, which the cursor becomes, it
leaves out errors only (`PageIs`). Of the CU's answer to the first cursor only this is
used: no result up to then is after it but errors (`LatestCursorIs`).

*Routing.* `RouteInv` says what each phase of a request promises (`PhaseInv`: a
message is redirected to the scheduler of its process' row) and that a Compute Unit has kept for a process either the router or the
row's scheduler (`LocatedInv`). It is inductive because a row is never replaced
(`RowsKept`): `PlacedKept` and `OthersKept` carry it to the requests a step leaves alone.
`OneSchedule` follows from it. `HeldAtHome` needs the scheduler's question to the router
as well: of two posts of one process, the one that lost the insert is still redirected to
the scheduler it chose, and only that question has it refused there. No assumption is made
on the replica: the answer is the row's scheduler or none, and with the second the process
is in `unrouted`; what was answered before stays true, again by `RowsKept`. For `FailedOver`,
`AttemptsInv` says that the n-th attempt went to the host n places after the hash of the
process, and `AllRemainders` that as many attempts as there are hosts reach them all.

### Only model-checked

Every liveness property, as fairness is beyond what TLAPS checks. Each invariant that a
passing run checks is stated by a theorem.

## 8. Bounds

Some bounds are the code's own settings, smaller: `MaxRetries` of `MuTaskQueue`
(`TASK_QUEUE_MAX_RETRIES`, 10 in the code), `MaxPulls` and `MaxRecoveries` of `MuPush`
(`GET_RESULT_MAX_RETRIES`, `MESSAGE_RECOVERY_MAX_RETRIES`), `Limit` of `MuCron`, `PageSize`
and `Wiggle` of `CuEvaluate`. The others only make the models finite:

| Module | Bounds |
|---|---|
| `SuScheduler` | `MaxPosts` requests, `MaxCrashes` restarts |
| `CuReadState` | `MaxNonce` messages, `MaxDrains` drains, `MaxCrashes` restarts |
| `MuTaskQueue` | `MaxCrashes` restarts; `MaxWorkers` is `MAX_WORKERS` |
| `SuLocalStore` | `MaxTorn` saves cut short, `MaxCrashes` restarts, `MaxGot` edges a reader keeps |
| `CuEvaluate` | `MaxNow` ticks, `MaxMessages` messages, `MaxStreams` streams |
| `MuCron` | `MaxResults` results, `MaxMonitors` monitors, `MaxCranks` where a count of cranks ends, `MaxCrashes` restarts |
| `MuPush` | `MaxRestarts` restarts |
| `Routing` | `Requests` are each made once |

Deadlock is not checked in runs whose instance ends: when the requests are used up, the
system waits for the next one.

## 9. What is not modelled

Formats (ANS-104, JSON, tags), signatures and their verification, WebAssembly and its
memory limits, gateways and uploads to Arweave, metrics and traces, rate limits and
whitelists (a refusal each), and the client libraries, which keep no state. `loader`
is Emscripten's generated code for the most part, and evaluation is a function of memory
and message wherever it appears. `PROJECT.json` gives each component's reason.

Of what is modelled in part: reads of the latest state and the nonce limit of the
hydration mode (`CuReadState`); the checkpoints of other CUs and their verification; an
insert of the SU that is applied although its acknowledgement is lost (what the
database's driver then reports is not in this repository); changes of the schedulers'
configuration at a restart of the router; the redirect strategy of the Router Unit, which
has no state and no failover.
