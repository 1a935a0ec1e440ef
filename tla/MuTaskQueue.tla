---------------------------- MODULE MuTaskQueue ----------------------------
(***************************************************************************)
(* The task queues of the Messenger Unit: results of evaluations are       *)
(* accepted as tasks, kept by a worker in memory and in a database, and    *)
(* pushed stage by stage to Scheduler and Compute Units, with retries.     *)
(*   src/servers/mu/src/domain/clients/{taskQueue,worker,worker-fn}.js     *)
(*   src/servers/mu/src/domain/api/process{Msg,Spawn,Assign}.js            *)
(***************************************************************************)
EXTENDS Integers, Sequences, FiniteSets, SequencesExt

CONSTANTS
    Tasks,        \* messages, spawns and assignments of outboxes
    Kind,         \* the type of a task
    ToWallet,     \* the messages whose target is a wallet
    Roots,        \* the tasks cranked by requests and cron monitors
    Outbox,       \* the tasks in the results of a task
    Queues,       \* queue ids
    MaxWorkers,   \* MAX_WORKERS
    MaxRetries,   \* TASK_QUEUE_MAX_RETRIES
    SpawnPush,    \* SPAWN_PUSH_ENABLED
    RateLimited,  \* whether there is a configuration of rate limits
    LostAcks,     \* types whose write may be accepted though its answer is lost
    HourPasses,   \* whether tasks may wait for more than an hour
    MaxCrashes    \* bound on the restarts of the MU

Types == {"MESSAGE", "SPAWN", "ASSIGN"}

ASSUME TaskAssumption ==
    /\ Kind \in [Tasks -> Types]
    /\ ToWallet \subseteq {t \in Tasks : Kind[t] = "MESSAGE"}
    /\ Roots \subseteq Tasks
    /\ Outbox \in [Tasks -> SUBSET Tasks]
    /\ \A t \in ToWallet : Outbox[t] = {}

\* A message belongs to the result it was read from, or was cranked itself.
ASSUME OutboxAssumption ==
    \A t \in Tasks : /\ Outbox[t] \cap Roots = {}
                     /\ \A s \in Tasks \ {t} : Outbox[s] \cap Outbox[t] = {}

ASSUME QueueAssumption ==
    /\ MaxWorkers \in Nat
    /\ MaxRetries \in Nat
    /\ SpawnPush \in BOOLEAN
    /\ RateLimited \in BOOLEAN
    /\ LostAcks \subseteq Types
    /\ HourPasses \in BOOLEAN
    /\ MaxCrashes \in Nat

VARIABLES
    worker,    \* the memory of the worker of each queue
    rows,      \* the table of tasks: an entry and the queue it belongs to
    nextId,    \* dbIds come in the order of their timestamps
    built,     \* how many messages were signed for a task
    sent,      \* the signed messages of a task that a scheduler or Arweave took
    spawned,   \* how many processes the schedulers took for a spawn
    garbled,   \* tasks that were posted as something else than they signed
    accepted,  \* history: tasks handed to a queue,
    refused,   \* dropped for a rate limit,
    finished,  \* pushed to the end,
    gaveUp,    \* out of retries,
    atRisk,    \* in no queue, but in the memory of a worker, when it stopped
    reloaded,  \* how many rows of a task the restarts of the MU have read
    crashes    \* how often the MU was restarted

dbVars == <<rows, nextId>>
networkVars == <<built, sent, spawned, garbled>>
historyVars == <<accepted, refused, finished, gaveUp, atRisk, reloaded, crashes>>
vars == <<worker, dbVars, networkVars, historyVars>>

-----------------------------------------------------------------------------
(* The stages of a task.                                                   *)

\* The steps that end in a call, by type.
Route(e) ==
    CASE e.type = "MESSAGE" /\ e.task \in ToWallet ->
            <<"build-tx", "write-message">>
      [] e.type = "MESSAGE" ->
            <<"build-tx", "write-message", "get-cu-address", "pull-result">>
      [] e.type = "SPAWN" /\ SpawnPush ->
            <<"spawn-process", "pull-initial-result", "build-success-tx",
              "send-spawn-success", "pull-result">>
      [] e.type = "SPAWN" ->
            <<"spawn-process", "build-success-tx", "send-spawn-success",
              "pull-result">>
      [] e.type = "ASSIGN" ->
            <<"locate-process-local", "write-assign", "pull-result">>

\* The steps a retried task takes again whatever its stage.
Unchecked == {"get-cu-address", "pull-initial-result"}

\* checkStage: the next step from position i of the route that is not skipped.
NextStep(e, i) ==
    LET taken == {j \in i .. Len(Route(e)) :
                     Route(e)[j] \in Unchecked \cup {e.stage}}
    IN  CHOOSE j \in taken : \A k \in taken : j <= k

Step(e) == Route(e)[e.at]

IsLast(e) == e.at = Len(Route(e))

\* setStage, which only moves on a task that is at the step just taken.
Advance(e) ==
    LET moved == IF Step(e) = e.stage
                 THEN [e EXCEPT !.stage = Route(e)[e.at + 1]] ELSE e
    IN  [moved EXCEPT !.at = NextStep(moved, e.at + 1)]

\* A task as enqueueResults makes it; parent tells apart copies of a task.
Fresh(t, parent) ==
    [id |-> parent, task |-> t, type |-> Kind[t], stage |-> "start",
     retries |-> 0, tx |-> 0, parsed |-> FALSE, at |-> 0]

Started(e) ==
    LET staged == IF e.stage = "start" THEN [e EXCEPT !.stage = Route(e)[1]] ELSE e
    IN  [staged EXCEPT !.at = NextStep(staged, 1)]

\* Faulty: the cause loses the stage, not the rest of the task.
CauseFromStart(e) == [e EXCEPT !.stage = "start", !.at = 0]

\* The cause of a failure: the task with its progress, but the result of a new
\* process is pulled with a context of its own, which has no type.
Cause(e) ==
    IF Step(e) = "pull-initial-result"
    THEN [e EXCEPT !.type = "none", !.stage = "start", !.retries = 0, !.at = 0]
    ELSE [e EXCEPT !.at = 0]

-----------------------------------------------------------------------------
(* Workers.                                                                *)

Stopped == [up |-> FALSE, queue |-> <<>>, dequeued |-> {}, checking |-> {},
            running |-> {}, waiting |-> {}]

\* JSON has no buffers: a signed message read back is not its bytes.
Parsed(e) == [e EXCEPT !.parsed = e.tx # 0]

RowsOf(q) == {r \in rows : r.queue = q}

\* The rows that are more than an hour old are those up to some id.
Older(last) == {r \in rows : r.entry.id <= last}

Hours == IF HourPasses THEN 0 .. nextId - 1 ELSE {0}

\* The rows a task may be worked on from, once they are read again.
Lively(t) == {r \in rows : r.entry.task = t /\ r.entry.type # "none"}

\* createTaskQueue: the rows of the queue that are not too old, latest first.
Loaded(q, last) ==
    LET saved == {Parsed(r.entry) : r \in RowsOf(q) \ Older(last)}
    IN  CHOOSE s \in [1 .. Cardinality(saved) -> saved] :
            \A i, j \in DOMAIN s : i < j => s[i].id > s[j].id

\* A worker is created for the queues of the last lifecycle, else for a new id.
Restarted(last) == [q \in Queues |->
    IF RowsOf(q) = {} THEN Stopped
    ELSE [Stopped EXCEPT !.up = TRUE, !.queue = Loaded(q, last)]]

InFlight(q) ==
    {e.task : e \in worker[q].checking \cup worker[q].running \cup worker[q].waiting}

Init ==
    /\ worker = [q \in Queues |-> Stopped]
    /\ rows = {}
    /\ nextId = 1
    /\ built = [t \in Tasks |-> 0]
    /\ sent = [t \in Tasks |-> {}]
    /\ spawned = [t \in Tasks |-> 0]
    /\ garbled = {}
    /\ accepted = {}
    /\ refused = {}
    /\ finished = {}
    /\ gaveUp = {}
    /\ atRisk = {}
    /\ reloaded = [t \in Tasks |-> 0]
    /\ crashes = 0

-----------------------------------------------------------------------------
(* The queue.                                                              *)

\* The pool hands the results to a worker, which it creates if it may.
Crank(t, q) ==
    /\ t \in Roots \ accepted
    /\ \/ worker[q].up
       \/ /\ RowsOf(q) = {}
          /\ Cardinality({w \in Queues : worker[w].up}) < MaxWorkers
    /\ worker' = [worker EXCEPT ![q].up = TRUE,
                                ![q].checking = @ \cup {Fresh(t, 0)}]
    /\ accepted' = accepted \cup {t}
    /\ UNCHANGED <<dbVars, networkVars, refused, finished, gaveUp, atRisk, reloaded, crashes>>

\* Faulty: the queue alone, not its table.
EnqueueUnsaved(q, e) ==
    /\ e \in worker[q].checking
    /\ worker' = [worker EXCEPT ![q].checking = @ \ {e},
                                ![q].queue = Append(@, [e EXCEPT !.id = nextId])]
    /\ nextId' = nextId + 1
    /\ UNCHANGED <<rows, networkVars, historyVars>>

\* Faulty: at the head of the queue.
EnqueueFirst(q, e) ==
    LET entry == [e EXCEPT !.id = nextId]
    IN  /\ e \in worker[q].checking
        /\ worker' = [worker EXCEPT ![q].checking = @ \ {e},
                                    ![q].queue = <<entry>> \o @]
        /\ rows' = rows \cup {[queue |-> q, entry |-> entry]}
        /\ nextId' = nextId + 1
        /\ UNCHANGED <<networkVars, historyVars>>

\* enqueue, after the check of the rate limits: the queue and its table.
Enqueue(q, e) ==
    LET entry == [e EXCEPT !.id = nextId]
    IN  /\ e \in worker[q].checking
        /\ worker' = [worker EXCEPT ![q].checking = @ \ {e},
                                    ![q].queue = Append(@, entry)]
        /\ rows' = rows \cup {[queue |-> q, entry |-> entry]}
        /\ nextId' = nextId + 1
        /\ UNCHANGED <<networkVars, historyVars>>

\* enqueue of a task, new or retried, that exceeds a rate limit.
ExceedRateLimit(q, e) ==
    /\ RateLimited
    /\ e \in worker[q].checking
    /\ worker' = [worker EXCEPT ![q].checking = @ \ {e}]
    /\ refused' = refused \cup {e.task}
    /\ UNCHANGED <<dbVars, networkVars, accepted, finished, gaveUp, atRisk, reloaded, crashes>>

\* Faulty: the head is read and not shifted.
DequeueAndKeep(q) ==
    /\ worker[q].queue # <<>>
    /\ Head(worker[q].queue).type \in Types
    /\ LET e == Head(worker[q].queue)
       IN  worker' = [worker EXCEPT ![q].dequeued = @ \cup {e.id},
                                    ![q].running = @ \cup {Started(e)}]
    /\ UNCHANGED <<dbVars, networkVars, historyVars>>

\* dequeue, and processResult up to its first call.
Dequeue(q) ==
    /\ worker[q].queue # <<>>
    /\ Head(worker[q].queue).type \in Types
    /\ LET e == Head(worker[q].queue)
       IN  worker' = [worker EXCEPT ![q].queue = Tail(@),
                                    ![q].dequeued = @ \cup {e.id},
                                    ![q].running = @ \cup {Started(e)}]
    /\ UNCHANGED <<dbVars, networkVars, historyVars>>

\* A task without a type has no business logic: the TypeError has no cause, so
\* the handler of the failure throws too, and the worker ends with its memory.
Die(q) ==
    /\ worker[q].queue # <<>>
    /\ Head(worker[q].queue).type \notin Types
    /\ worker' = [worker EXCEPT ![q] = Stopped]
    /\ atRisk' = atRisk \cup InFlight(q)
    /\ UNCHANGED <<dbVars, networkVars, accepted, refused, finished, gaveUp, reloaded, crashes>>

\* Faulty: whatever is not of this queue, or was dequeued from it.
RemoveOthers(q, last) ==
    /\ worker[q].dequeued # {}
    /\ rows' = {r \in RowsOf(q) : r.entry.id \notin worker[q].dequeued}
    /\ worker' = [worker EXCEPT ![q].dequeued = {}]
    /\ UNCHANGED <<nextId, networkVars, historyVars>>

\* The cron job of a worker that has dequeued something.
RemoveDequeued(q, last) ==
    /\ worker[q].dequeued # {}
    /\ rows' = {r \in rows : r.entry.id \notin worker[q].dequeued} \ Older(last)
    /\ worker' = [worker EXCEPT ![q].dequeued = {}]
    /\ UNCHANGED <<nextId, networkVars, historyVars>>

\* Faulty: no last attempt, and nothing in its place.
RetryOnceLess(q, e) ==
    /\ e \in worker[q].waiting
    /\ e.retries + 1 < MaxRetries
    /\ worker' = [worker EXCEPT
           ![q].waiting = @ \ {e},
           ![q].checking = @ \cup {[e EXCEPT !.retries = @ + 1]}]
    /\ UNCHANGED <<dbVars, networkVars, historyVars>>

\* Faulty: an off-by-one in the number of retries.
RetryOnceMore(q, e) ==
    /\ e \in worker[q].waiting
    /\ e.retries <= MaxRetries
    /\ worker' = [worker EXCEPT
           ![q].waiting = @ \ {e},
           ![q].checking = @ \cup {[e EXCEPT !.retries = @ + 1]}]
    /\ UNCHANGED <<dbVars, networkVars, historyVars>>

\* A failed task waited long enough: it is enqueued again, or given up.
Retry(q, e) ==
    /\ e \in worker[q].waiting
    /\ e.retries < MaxRetries
    /\ worker' = [worker EXCEPT
           ![q].waiting = @ \ {e},
           ![q].checking = @ \cup {[e EXCEPT !.retries = @ + 1]}]
    /\ UNCHANGED <<dbVars, networkVars, historyVars>>

GiveUp(q, e) ==
    /\ e \in worker[q].waiting
    /\ e.retries >= MaxRetries
    /\ worker' = [worker EXCEPT ![q].waiting = @ \ {e}]
    /\ gaveUp' = gaveUp \cup {e.task}
    /\ UNCHANGED <<dbVars, networkVars, accepted, refused, finished, atRisk, reloaded, crashes>>

-----------------------------------------------------------------------------
(* Processing. An entry is running at the step whose call is under way.    *)

\* The call was answered, and the next step begins, or the results are enqueued.
Answered(q, e, next) ==
    worker' = [worker EXCEPT
        ![q].running = (@ \ {e}) \cup (IF IsLast(e) THEN {} ELSE {Advance(next)}),
        ![q].checking = @ \cup
            (IF IsLast(e) THEN {Fresh(t, e.id) : t \in Outbox[e.task]} ELSE {})]

Done(e) ==
    /\ finished' = IF IsLast(e) THEN finished \cup {e.task} ELSE finished
    /\ accepted' = IF IsLast(e) THEN accepted \cup Outbox[e.task] ELSE accepted
    /\ UNCHANGED <<refused, gaveUp, atRisk, reloaded, crashes>>

Failed(q, e) ==
    worker' = [worker EXCEPT ![q].running = @ \ {e}, ![q].waiting = @ \cup {Cause(e)}]

Writes == {"spawn-process", "write-message", "send-spawn-success", "write-assign"}

\* buildAndSign: every signature makes another message id.
Build(q, e) ==
    /\ e \in worker[q].running
    /\ Step(e) \in {"build-tx", "build-success-tx"}
    /\ built' = [built EXCEPT ![e.task] = @ + 1]
    /\ Answered(q, e, [e EXCEPT !.tx = built'[e.task], !.parsed = FALSE])
    /\ Done(e)
    /\ UNCHANGED <<dbVars, sent, spawned, garbled>>

\* Locating a scheduler, selecting a CU, pulling a result.
Read(q, e) ==
    /\ e \in worker[q].running
    /\ Step(e) \notin Writes \cup {"build-tx", "build-success-tx"}
    /\ Answered(q, e, e)
    /\ Done(e)
    /\ UNCHANGED <<dbVars, networkVars>>

\* What a write that was taken leaves behind.
Taken(e) ==
    /\ sent' = IF Step(e) \in {"write-message", "send-spawn-success"}
               THEN [sent EXCEPT ![e.task] = @ \cup {e.tx}] ELSE sent
    /\ spawned' = IF Step(e) = "spawn-process"
                  THEN [spawned EXCEPT ![e.task] = @ + 1] ELSE spawned
    /\ UNCHANGED <<dbVars, built, garbled>>

PostsParsed(e) == e.parsed /\ Step(e) \in {"write-message", "send-spawn-success"}

Write(q, e) ==
    /\ e \in worker[q].running
    /\ Step(e) \in Writes
    /\ ~PostsParsed(e)
    /\ Taken(e)
    /\ Answered(q, e, e)
    /\ Done(e)

LoseAck(q, e) ==
    /\ e \in worker[q].running
    /\ Step(e) \in Writes
    /\ e.type \in LostAcks
    /\ ~PostsParsed(e)
    /\ Taken(e)
    /\ Failed(q, e)
    /\ UNCHANGED historyVars

\* data.toString('base64') of what JSON made of a buffer is "[object Object]",
\* which no scheduler and no uploader takes.
PostGarbled(q, e) ==
    /\ e \in worker[q].running
    /\ PostsParsed(e)
    /\ garbled' = garbled \cup {e.task}
    /\ Failed(q, e)
    /\ UNCHANGED <<dbVars, built, sent, spawned, historyVars>>

\* Any call may fail without an effect.
Fail(q, e) ==
    /\ e \in worker[q].running
    /\ Failed(q, e)
    /\ UNCHANGED <<dbVars, networkVars, historyVars>>

-----------------------------------------------------------------------------

\* The MU is restarted with its database.
Crash(last) ==
    /\ crashes < MaxCrashes
    /\ worker' = Restarted(last)
    /\ rows' = rows \ Older(last)
    /\ atRisk' = atRisk \cup UNION {InFlight(q) : q \in Queues}
    /\ reloaded' = [t \in Tasks |-> reloaded[t] + Cardinality(Lively(t) \ Older(last))]
    /\ crashes' = crashes + 1
    /\ UNCHANGED <<nextId, networkVars, accepted, refused, finished, gaveUp>>

Process(q) ==
    \E e \in worker[q].running :
        Build(q, e) \/ Read(q, e) \/ Write(q, e) \/ LoseAck(q, e)
            \/ PostGarbled(q, e) \/ Fail(q, e)

Work(q) ==
    \/ \E e \in worker[q].checking : Enqueue(q, e) \/ ExceedRateLimit(q, e)
    \/ Dequeue(q)
    \/ Die(q)
    \/ \E e \in worker[q].waiting : Retry(q, e) \/ GiveUp(q, e)
    \/ Process(q)

Next ==
    \/ \E t \in Tasks, q \in Queues : Crank(t, q)
    \/ \E q \in Queues : Work(q)
    \/ \E q \in Queues, last \in Hours : RemoveDequeued(q, last)
    \/ \E last \in Hours : Crash(last)

Spec == Init /\ [][Next]_vars

\* A worker's loop, its timers and its calls, which have timeouts, go on.
FairSpec == Spec /\ \A q \in Queues : WF_vars(Work(q))

-----------------------------------------------------------------------------

Stages == {"start", "build-tx", "write-message", "get-cu-address", "pull-result",
           "spawn-process", "pull-initial-result", "build-success-tx",
           "send-spawn-success", "locate-process-local", "write-assign"}

Entry == [id : 0 .. nextId - 1, task : Tasks, type : Types \cup {"none"},
          stage : Stages, retries : 0 .. MaxRetries, tx : Nat, parsed : BOOLEAN,
          at : 0 .. 5]

\* The copies of a task in the memory of the workers. One without a type is none.
Copies(t) ==
    UNION {{<<q, e>> : e \in {f \in worker[q].checking \cup worker[q].running
                                    \cup worker[q].waiting \cup Range(worker[q].queue) :
                                 f.task = t /\ f.type # "none"}} : q \in Queues}

Settled == refused \cup finished \cup gaveUp

TypeOK ==
    /\ \A q \in Queues :
        /\ worker[q].up \in BOOLEAN
        /\ worker[q].queue \in Seq(Entry)
        /\ worker[q].dequeued \subseteq 1 .. nextId - 1
        /\ worker[q].checking \cup worker[q].running \cup worker[q].waiting \subseteq Entry
    /\ DOMAIN worker = Queues
    /\ rows \subseteq [queue : Queues, entry : Entry]
    /\ nextId \in Nat \ {0}
    /\ built \in [Tasks -> Nat]
    /\ sent \in [Tasks -> SUBSET Nat]
    /\ spawned \in [Tasks -> Nat]
    /\ garbled \cup atRisk \cup accepted \subseteq Tasks
    /\ Settled \subseteq accepted
    /\ reloaded \in [Tasks -> Nat]
    /\ crashes \in 0 .. MaxCrashes

AllUp == crashes = 0 /\ \A q \in Queues : worker[q].up

\* While the MU and its workers run, an accepted task is in exactly one place,
\* until it is finished, given up or refused: a failure loses no task, and no task
\* is pushed twice at the same time. Spawns whose first result is pulled are left
\* to SpawnsKept.
ExactlyOnePlace ==
    AllUp =>
        \A t \in accepted :
            \/ Cardinality(Copies(t)) = IF t \in Settled THEN 0 ELSE 1
            \/ SpawnPush /\ Kind[t] = "SPAWN" /\ Copies(t) = {}

\* The same of every spawn: a failed one is retried with what it has done so far.
SpawnsKept ==
    AllUp =>
        \A t \in accepted \ Settled : Kind[t] = "SPAWN" => Copies(t) # {}

\* However often a task fails and is retried, also when a scheduler took a
\* write whose answer was lost, one message is sent for it; and one process is
\* spawned, if the answers to spawns are not lost.
WrittenOnce ==
    crashes = 0 =>
        \A t \in Tasks :
            /\ Cardinality(sent[t]) <= 1
            /\ "SPAWN" \notin LostAcks => spawned[t] <= 1

\* A restart repeats what the rows still in the table say, each at most once: the
\* first time a task's first row, and the row of each of its retries. What is
\* repeated leaves rows of its own, so that a second restart may read more.
RepeatsBounded ==
    \A t \in Roots :
        /\ Cardinality(sent[t]) <= 1 + reloaded[t]
        /\ crashes <= 1 => reloaded[t] <= crashes * (1 + MaxRetries)

\* Tasks are dequeued in the order in which they entered the queue.
QueuedInOrder ==
    \A q \in Queues :
        \A i, j \in 1 .. Len(worker[q].queue) :
            i < j => worker[q].queue[i].id < worker[q].queue[j].id

\* What waits in a queue when a worker or the MU stops is still there, in memory
\* or in the table, until it is settled. Only tasks that were being checked,
\* processed or retried at that moment may be lost; and a spawn whose first result
\* is pulled, which is lost without a stop when that fails (see SpawnsKept).
NothingQueuedLost ==
    \A t \in accepted \ (Settled \cup atRisk) :
        \/ Copies(t) # {}
        \/ t \in {r.entry.task : r \in rows}
        \/ SpawnPush /\ Kind[t] = "SPAWN"

\* The table all workers delete from holds, of every worker that runs, what waits
\* in its queue, which a stop must not lose, and what it dequeued since its last
\* removal; and no other row, which every restart would process once more.
TableMatches ==
    \A q \in Queues :
        worker[q].up => {r.entry.id : r \in RowsOf(q)}
                            = {e.id : e \in Range(worker[q].queue)} \cup worker[q].dequeued

\* A task is posted to a scheduler as the bytes that were signed for it.
PostsSigned == garbled = {}

\* Every accepted task is finished, given up or refused in the end, before or
\* after a restart, if it was not under way when the MU stopped and no worker died.
\* A spawn whose first result is pulled is the task that kills its worker, and is
\* itself lost (see SpawnsKept).
EventuallySettled ==
    \A t \in Tasks :
        t \in accepted ~> \/ t \in Settled \cup atRisk
                          \/ \E q \in Queues : ~worker[q].up
                          \/ SpawnPush /\ Kind[t] = "SPAWN"

=============================================================================
