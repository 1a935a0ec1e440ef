---------------------------- MODULE CuReadState ----------------------------
(***************************************************************************)
(* Reads of one process' state in the Compute Unit (servers/cu): streams   *)
(* of evaluation that share, chain to or reject each other (domain/api/    *)
(* readState.js, lib/chainEvaluation.js), each loading the latest memory   *)
(* it can find (lib/loadProcess.js), folding messages over it and saving   *)
(* the result (lib/evaluate.js).  Memory is kept, with the evaluation it   *)
(* is labelled with, in an LRU cache that drains to a file, in a file      *)
(* checkpoint with a record in the database, and in Arweave checkpoints    *)
(* (effects/ao-process.js).                                                *)
(*                                                                         *)
(* A message is its nonce, and a memory the sequence of the messages that  *)
(* were folded into it: evaluation is deterministic and every message      *)
(* changes the memory.  Messages are more than the ten seconds apart that  *)
(* chainEvaluation adds to a read's timestamp.  The process is never asked *)
(* for "latest".                                                           *)
(***************************************************************************)
EXTENDS Integers, Sequences

CONSTANTS
    Reads,              \* reads of the process' state
    NoRead,
    FileCheckpoints,    \* ~DISABLE_PROCESS_FILE_CHECKPOINT_CREATION
    ArweaveCheckpoints, \* ~DISABLE_PROCESS_CHECKPOINT_CREATION
    Concurrent,         \* do reads arrive while another is pending?
    MaxNonce,           \* bound: the messages scheduled
    MaxDrains,          \* bound: evictions between two restarts
    MaxCrashes          \* bound: restarts

ASSUME ReadAssumption == NoRead \notin Reads
ASSUME ConfigAssumption ==
    /\ FileCheckpoints \in BOOLEAN
    /\ ArweaveCheckpoints \in BOOLEAN
    /\ Concurrent \in BOOLEAN
ASSUME BoundAssumption ==
    MaxNonce \in Nat \ {0} /\ MaxDrains \in Nat /\ MaxCrashes \in Nat

Messages == 1 .. MaxNonce

VARIABLES
    pc,          \* where each read is
    target,      \* the message a read evaluates up to
    needsMemory, \* needsOnlyMemory: a dry run's read
    parent,      \* the pending stream a read is chained to
    at,          \* the last message folded, or the label of what it reads
    mem,         \* the memory the read works on
    file,        \* the drain whose File promise the read awaits
    answer,      \* what the read resolved with
    lru,         \* the process' entry in the LRU cache
    drained,     \* its entry in drainedToFile
    drains,      \* the File promises made so far
    drainFile,   \* the file the cache drains to
    fileLock,    \* who holds and awaits the lock on the file's name
    checkpoint,  \* the checkpoint file
    record,      \* the label in the checkpoint files table
    uploaded,    \* Arweave checkpoints
    results,     \* the evaluations table
    crashes

readVars == <<pc, target, needsMemory, parent, at, mem, file>>
cacheVars == <<lru, drained, drains>>
fileVars == <<drainFile, checkpoint>>
tableVars == <<record, uploaded, results>>
vars == <<readVars, answer, cacheVars, fileVars, fileLock, tableVars, crashes>>

-----------------------------------------------------------------------------

Memory == Seq(Messages)

\* The memory after evaluating every message up to n.
Fold(n) == [i \in 1 .. n |-> i]

\* A label of 0 stands for no entry at all, an empty memory for none.
Empty == [label |-> 0, mem |-> <<>>]
NoDrain == [label |-> 0, drain |-> 0]
Entry == [label : 0 .. MaxNonce, mem : Memory]

Nothing == <<>>

\* One wait for the lock on "state-<processId>.dat".  Both directories use the
\* same file name, and so the same lock.
Access(op, m, drain, r) == [op |-> op, mem |-> m, drain |-> drain, read |-> r]

Lock(access) == fileLock' = Append(fileLock, access)

Loading == {"loading", "draining", "reading", "searching", "readingCheckpoint",
            "searchingArweave"}
Saving == {"writing", "recording", "uploading"}
Settled == {"done", "failed"}

\* pendingReadState
Pending == {r \in Reads : pc[r] \notin {"idle"} \cup Settled}

CachedLabel == IF lru.label > 0 THEN lru.label ELSE drained.label

Init ==
    /\ pc = [r \in Reads |-> "idle"]
    /\ target = [r \in Reads |-> 1]
    /\ needsMemory = [r \in Reads |-> FALSE]
    /\ parent = [r \in Reads |-> NoRead]
    /\ at = [r \in Reads |-> 0]
    /\ mem = [r \in Reads |-> <<>>]
    /\ file = [r \in Reads |-> 0]
    /\ answer = [r \in Reads |-> Nothing]
    /\ lru = Empty
    /\ drained = NoDrain
    /\ drains = <<>>
    /\ drainFile = <<>>
    /\ fileLock = <<>>
    /\ checkpoint = <<>>
    /\ record = 0
    /\ uploaded = {}
    /\ results = [n \in Messages |-> Nothing]
    /\ crashes = 0

\* The stream ends: its entry leaves pendingReadState and its memory is free.
Settle(r, outcome, a) ==
    /\ pc' = [pc EXCEPT ![r] = outcome]
    /\ answer' = [answer EXCEPT ![r] = a]
    /\ at' = [at EXCEPT ![r] = 0]
    /\ mem' = [mem EXCEPT ![r] = <<>>]
    /\ parent' = [parent EXCEPT ![r] = NoRead]
    /\ file' = [file EXCEPT ![r] = 0]

-----------------------------------------------------------------------------
(* chainEvaluation: what to do with an incoming read.                      *)

\* A pending stream with the same key is shared: that read is no stream.
IsRepeated(t, m) == \E p \in Pending : target[p] = t /\ needsMemory[p] = m

\* findPendingForProcessBefore.
PendingBefore(t) == {p \in Pending : target[p] <= t}

LatestBefore(t) ==
    {p \in PendingBefore(t) : \A q \in PendingBefore(t) : target[q] <= target[p]}

\* The labels findLatestProcessMemory may find when it omits the memory; 0
\* is a cold start.
FoundLabels ==
    IF CachedLabel > 0 THEN {CachedLabel}
    ELSE IF record > 0 THEN {record}
    ELSE {0} \cup {c.label : c \in uploaded}

Incoming(r, t, m) ==
    /\ pc[r] = "idle"
    /\ Concurrent \/ Pending = {}
    /\ ~IsRepeated(t, m)
    /\ target' = [target EXCEPT ![r] = t]
    /\ needsMemory' = [needsMemory EXCEPT ![r] = m]
    /\ UNCHANGED <<cacheVars, fileVars, fileLock, tableVars, crashes>>

Begin(r) ==
    /\ pc' = [pc EXCEPT ![r] = "loading"]
    /\ UNCHANGED <<parent, at, mem, file, answer>>

\* Nothing pending that could be waited for: a stream of its own.
StartStream(r, t, m) ==
    /\ Incoming(r, t, m)
    /\ PendingBefore(t) = {}
    /\ Begin(r)

\* The result is stored already.
AnswerIncoming(r, t, m) ==
    /\ Incoming(r, t, m)
    /\ PendingBefore(t) # {}
    /\ ~m
    /\ results[t] # Nothing
    /\ Settle(r, "done", results[t])

\* The memory of exactly this message is cached: the read is answered with
\* what was found, which is without its Memory.
AnswerExact(r, t, m) ==
    /\ Incoming(r, t, m)
    /\ PendingBefore(t) # {}
    /\ m \/ results[t] = Nothing
    /\ t \in FoundLabels
    /\ Settle(r, "done", Nothing)

\* Status 425: a later memory is cached.
RefuseIncoming(r, t, m) ==
    /\ Incoming(r, t, m)
    /\ PendingBefore(t) # {}
    /\ m \/ results[t] = Nothing
    /\ \E l \in FoundLabels : l > t
    /\ Settle(r, "failed", Nothing)

\* Wait for the latest pending stream before this one, if that is worth it:
\* if it will get further than the memory at hand.
ChainStream(r, t, m) ==
    /\ Incoming(r, t, m)
    /\ m \/ results[t] = Nothing
    /\ \E l \in FoundLabels, p \in LatestBefore(t) :
          /\ l < t
          /\ l = 0 \/ l < target[p]
          /\ pc' = [pc EXCEPT ![r] = "chained"]
          /\ parent' = [parent EXCEPT ![r] = p]
    /\ UNCHANGED <<at, mem, file, answer>>

StartBeside(r, t, m) ==
    /\ Incoming(r, t, m)
    /\ m \/ results[t] = Nothing
    /\ \E l \in FoundLabels, p \in LatestBefore(t) :
          l < t /\ l # 0 /\ l >= target[p]
    /\ Begin(r)

Request(r) ==
    \E t \in Messages, m \in BOOLEAN :
       \/ StartStream(r, t, m)
       \/ AnswerIncoming(r, t, m)
       \/ AnswerExact(r, t, m)
       \/ RefuseIncoming(r, t, m)
       \/ ChainStream(r, t, m)
       \/ StartBeside(r, t, m)

\* res.pending.then(next)
Unchain(r) ==
    /\ pc[r] = "chained"
    /\ pc[parent[r]] = "done"
    /\ pc' = [pc EXCEPT ![r] = "loading"]
    /\ parent' = [parent EXCEPT ![r] = NoRead]
    /\ UNCHANGED <<target, needsMemory, at, mem, file, answer, cacheVars,
                   fileVars, fileLock, tableVars, crashes>>

\* ... which rejects when the stream it waits for does.
FailChained(r) ==
    /\ pc[r] = "chained"
    /\ pc[parent[r]] = "failed"
    /\ Settle(r, "failed", Nothing)
    /\ UNCHANGED <<target, needsMemory, cacheVars, fileVars, fileLock,
                   tableVars, crashes>>

-----------------------------------------------------------------------------
(* The LRU cache.                                                          *)

\* Faulty: an earlier memory may replace a later one.
IsKept(l) == l = lru.label

\* saveLatestProcessMemory: a memory that is not later than the cached one is
\* ignored, unless it is the drained one that comes back.
IsStale(l) == l < CachedLabel \/ l = lru.label

\* Faulty: the label of the next message to evaluate, not of the last evaluated.
KeepUnderNext(l, m) ==
    /\ UNCHANGED drains
    /\ IF IsStale(l)
       THEN UNCHANGED <<lru, drained>>
       ELSE lru' = [label |-> l + 1, mem |-> m] /\ drained' = NoDrain

\* cache.set
Keep(l, m) ==
    /\ UNCHANGED drains
    /\ IF IsStale(l)
       THEN UNCHANGED <<lru, drained>>
       ELSE /\ lru' = [label |-> l, mem |-> m]
            /\ drained' = NoDrain

\* disposeAfter: the memory is written to the process' file in its turn, and
\* drainedToFile keeps the promise of that.
Drain(entry) ==
    /\ lru' = Empty
    /\ drained' = [label |-> entry.label, drain |-> Len(drains) + 1]

\* Evicted for other processes, or at the end of its time to live: a task of
\* its own, after those who await a promise that has settled.
Evict ==
    /\ lru.label > 0
    /\ \A r \in Reads : pc[r] = "draining" => drains[file[r]] = "pending"
    /\ Len(drains) < MaxDrains
    /\ Drain(lru)
    /\ drains' = Append(drains, "pending")
    /\ Lock(Access("drain", lru.mem, Len(drains) + 1, NoRead))
    /\ UNCHANGED <<readVars, answer, fileVars, tableVars, crashes>>

-----------------------------------------------------------------------------
(* loadProcess: the latest memory.                                         *)

\* maybeOld, then: the memory of the very message asked for is an answer,
\* an earlier one is where the stream starts.
Resume(r, l, m) ==
    \/ /\ l > target[r]
       /\ Settle(r, "failed", Nothing)
    \/ /\ l = target[r]
       /\ Settle(r, "done", IF needsMemory[r] THEN m ELSE Nothing)
    \/ /\ l < target[r]
       /\ pc' = [pc EXCEPT ![r] = "evaluating"]
       /\ at' = [at EXCEPT ![r] = l]
       /\ mem' = [mem EXCEPT ![r] = m]
       /\ file' = [file EXCEPT ![r] = 0]
       /\ UNCHANGED <<parent, answer>>

\* A memory from a file or from Arweave goes back into the cache first.
Backfill(r, l, m) ==
    IF l > target[r] THEN UNCHANGED cacheVars ELSE Keep(l, m)

WantsResult(r) == ~needsMemory[r] /\ results[target[r]] # Nothing

LoadResult(r) ==
    /\ pc[r] = "loading"
    /\ WantsResult(r)
    /\ Settle(r, "done", results[target[r]])
    /\ UNCHANGED <<target, needsMemory, cacheVars, fileVars, fileLock,
                   tableVars, crashes>>

LoadCached(r) ==
    /\ pc[r] = "loading"
    /\ ~WantsResult(r)
    /\ lru.label > 0
    /\ Resume(r, lru.label, lru.mem)
    /\ UNCHANGED <<target, needsMemory, cacheVars, fileVars, fileLock,
                   tableVars, crashes>>

\* The entry names a file whose promise is awaited.
LoadDrained(r) ==
    /\ pc[r] = "loading"
    /\ ~WantsResult(r)
    /\ lru.label = 0
    /\ drained.label > 0
    /\ pc' = [pc EXCEPT ![r] = "draining"]
    /\ at' = [at EXCEPT ![r] = drained.label]
    /\ file' = [file EXCEPT ![r] = drained.drain]
    /\ UNCHANGED <<target, needsMemory, parent, mem, answer, cacheVars,
                   fileVars, fileLock, tableVars, crashes>>

LoadNothing(r) ==
    /\ pc[r] = "loading"
    /\ ~WantsResult(r)
    /\ CachedLabel = 0
    /\ pc' = [pc EXCEPT ![r] = "searching"]
    /\ UNCHANGED <<target, needsMemory, parent, at, mem, file, answer,
                   cacheVars, fileVars, fileLock, tableVars, crashes>>

\* The file is there: wait for its lock.
ReadDrained(r) ==
    /\ pc[r] = "draining"
    /\ drains[file[r]] = "written"
    /\ Lock(Access("read", <<>>, 0, r))
    /\ pc' = [pc EXCEPT ![r] = "reading"]
    /\ file' = [file EXCEPT ![r] = 0]
    /\ UNCHANGED <<target, needsMemory, parent, at, mem, answer, cacheVars,
                   fileVars, tableVars, crashes>>

SkipDrained(r) ==
    /\ pc[r] = "draining"
    /\ drains[file[r]] = "failed"
    /\ pc' = [pc EXCEPT ![r] = "searching"]
    /\ file' = [file EXCEPT ![r] = 0]
    /\ UNCHANGED <<target, needsMemory, parent, at, mem, answer, cacheVars,
                   fileVars, fileLock, tableVars, crashes>>

\* maybeFile: the record names the file and its label.
FindFileCheckpoint(r) ==
    /\ pc[r] = "searching"
    /\ record > 0
    /\ Lock(Access("readCheckpoint", <<>>, 0, r))
    /\ pc' = [pc EXCEPT ![r] = "readingCheckpoint"]
    /\ at' = [at EXCEPT ![r] = record]
    /\ UNCHANGED <<target, needsMemory, parent, mem, file, answer, cacheVars,
                   fileVars, tableVars, crashes>>

NoFileCheckpoint(r) ==
    /\ pc[r] = "searching"
    /\ record = 0
    /\ pc' = [pc EXCEPT ![r] = "searchingArweave"]
    /\ at' = [at EXCEPT ![r] = 0]
    /\ UNCHANGED <<target, needsMemory, parent, mem, file, answer, cacheVars,
                   fileVars, fileLock, tableVars, crashes>>

\* maybeRecord, maybeCheckpointFromArweave: whichever checkpoint the records
\* or the gateway's index lead to, or none.
FindArweaveCheckpoint(r) ==
    /\ pc[r] = "searchingArweave"
    /\ \E c \in uploaded : Backfill(r, c.label, c.mem) /\ Resume(r, c.label, c.mem)
    /\ UNCHANGED <<target, needsMemory, fileVars, fileLock, tableVars, crashes>>

ColdStart(r) ==
    /\ pc[r] = "searchingArweave"
    /\ Resume(r, 0, <<>>)
    /\ UNCHANGED <<target, needsMemory, cacheVars, fileVars, fileLock,
                   tableVars, crashes>>

-----------------------------------------------------------------------------
(* Whoever holds the lock on the file's name.                              *)

Holds(op) == fileLock # <<>> /\ Head(fileLock).op = op

Unlock == fileLock' = Tail(fileLock)

WriteDrain ==
    /\ Holds("drain")
    /\ drainFile' = Head(fileLock).mem
    /\ drains' = [drains EXCEPT ![Head(fileLock).drain] = "written"]
    /\ Unlock
    /\ UNCHANGED <<readVars, answer, lru, drained, checkpoint, tableVars,
                   crashes>>

\* Faulty: the promise of a failed drain never settles.
ForgetDrain ==
    /\ Holds("drain")
    /\ Unlock
    /\ UNCHANGED <<readVars, answer, cacheVars, fileVars, tableVars, crashes>>

\* The write fails; whatever the LRU holds by now is deleted, and so drained
\* in its turn.
FailDrain ==
    /\ Holds("drain")
    /\ LET failed == [drains EXCEPT ![Head(fileLock).drain] = "failed"]
       IN  IF lru.label > 0 /\ Len(drains) < MaxDrains
           THEN /\ Drain(lru)
                /\ drains' = Append(failed, "pending")
                /\ fileLock' = Append(Tail(fileLock),
                       Access("drain", lru.mem, Len(drains) + 1, NoRead))
           ELSE /\ lru.label = 0
                /\ drains' = failed
                /\ Unlock
                /\ UNCHANGED <<lru, drained>>
    /\ UNCHANGED <<readVars, answer, fileVars, tableVars, crashes>>

ReadFile ==
    /\ \/ Holds("read")
       \/ Holds("readCheckpoint")
    /\ LET r == Head(fileLock).read
           m == IF Holds("read") THEN drainFile ELSE checkpoint
       IN  /\ Backfill(r, at[r], m)
           /\ Resume(r, at[r], m)
    /\ Unlock
    /\ UNCHANGED <<target, needsMemory, fileVars, tableVars, crashes>>

\* An unreadable file: on to the next layer.
FailRead ==
    /\ \/ Holds("read")
       \/ Holds("readCheckpoint")
    /\ pc' = [pc EXCEPT ![Head(fileLock).read] =
                IF Holds("read") THEN "searching" ELSE "searchingArweave"]
    /\ at' = [at EXCEPT ![Head(fileLock).read] = 0]
    /\ Unlock
    /\ UNCHANGED <<target, needsMemory, parent, mem, file, answer, cacheVars,
                   fileVars, tableVars, crashes>>

WriteCheckpoint ==
    /\ Holds("checkpoint")
    /\ checkpoint' = Head(fileLock).mem
    /\ pc' = [pc EXCEPT ![Head(fileLock).read] = "recording"]
    /\ Unlock
    /\ UNCHANGED <<target, needsMemory, parent, at, mem, file, answer,
                   cacheVars, drainFile, tableVars, crashes>>

FailCheckpoint ==
    /\ Holds("checkpoint")
    /\ pc' = [pc EXCEPT ![Head(fileLock).read] = "uploading"]
    /\ Unlock
    /\ UNCHANGED <<target, needsMemory, parent, at, mem, file, answer,
                   cacheVars, fileVars, tableVars, crashes>>

UseFile ==
    \/ WriteDrain
    \/ FailDrain
    \/ ReadFile
    \/ FailRead
    \/ WriteCheckpoint
    \/ FailCheckpoint

-----------------------------------------------------------------------------
(* evaluate: fold the messages, keep the last memory, maybe checkpoint it. *)

FoldsMore(r) == at[r] < target[r]

\* Faulty: a message left out of the fold.
FoldOther(r) == at[r] + 2

FoldNext(r) == at[r] + 1

\* saveEvaluation: INSERT OR IGNORE.
StoreResult(n, m) ==
    results' = IF results[n] = Nothing THEN [results EXCEPT ![n] = m] ELSE results

\* The worker stores the result; if that fails it is logged and no more.
Evaluate(r) ==
    /\ pc[r] = "evaluating"
    /\ FoldsMore(r)
    /\ LET n == FoldNext(r)
           m == Append(mem[r], n)
       IN  /\ StoreResult(n, m) \/ UNCHANGED results
           /\ at' = [at EXCEPT ![r] = n]
           /\ mem' = [mem EXCEPT ![r] = m]
    /\ UNCHANGED <<pc, target, needsMemory, parent, file, answer, cacheVars,
                   fileVars, fileLock, record, uploaded, crashes>>

\* saveLatestProcessMemory at the end of the stream.
Finish(r) ==
    /\ pc[r] = "evaluating"
    /\ at[r] = target[r]
    /\ Keep(at[r], mem[r])
    /\ Settle(r, "done", mem[r])
    /\ UNCHANGED <<target, needsMemory, fileVars, fileLock, tableVars, crashes>>

\* ... when it reached a threshold of gas or time, the stream also makes a
\* checkpoint before it ends.
FinishEagerly(r) ==
    /\ pc[r] = "evaluating"
    /\ at[r] = target[r]
    /\ CachedLabel < at[r]
    /\ Keep(at[r], mem[r])
    /\ \/ /\ FileCheckpoints
          /\ pc' = [pc EXCEPT ![r] = "writing"]
          /\ Lock(Access("checkpoint", mem[r], 0, r))
       \/ /\ ~FileCheckpoints
          /\ ArweaveCheckpoints
          /\ pc' = [pc EXCEPT ![r] = "uploading"]
          /\ UNCHANGED fileLock
    /\ UNCHANGED <<target, needsMemory, parent, at, mem, file, answer,
                   fileVars, tableVars, crashes>>

\* The scheduler, a gateway or a worker fails.
FailStream(r) ==
    /\ pc[r] \in {"loading", "evaluating"}
    /\ Settle(r, "failed", Nothing)
    /\ UNCHANGED <<target, needsMemory, cacheVars, fileVars, fileLock,
                   tableVars, crashes>>

\* INSERT OR REPLACE, after the file is in place.
WriteRecord(r) ==
    /\ pc[r] = "recording"
    /\ record' = at[r]
    /\ pc' = [pc EXCEPT ![r] = "uploading"]
    /\ UNCHANGED <<target, needsMemory, parent, at, mem, file, answer,
                   cacheVars, fileVars, fileLock, uploaded, results, crashes>>

FailRecord(r) ==
    /\ pc[r] = "recording"
    /\ pc' = [pc EXCEPT ![r] = "uploading"]
    /\ UNCHANGED <<target, needsMemory, parent, at, mem, file, answer,
                   cacheVars, fileVars, fileLock, tableVars, crashes>>

\* In parallel with the file checkpoint.
Upload(r) ==
    /\ pc[r] \in Saving
    /\ ArweaveCheckpoints
    /\ uploaded' = uploaded \cup {[label |-> at[r], mem |-> mem[r]]}
    /\ UNCHANGED <<readVars, answer, cacheVars, fileVars, fileLock, record,
                   results, crashes>>

Checkpointed(r) ==
    /\ pc[r] = "uploading"
    /\ Settle(r, "done", mem[r])
    /\ UNCHANGED <<target, needsMemory, cacheVars, fileVars, fileLock,
                   tableVars, crashes>>

-----------------------------------------------------------------------------

\* The CU stops and starts again: files and tables are left.
Crash ==
    /\ crashes < MaxCrashes
    /\ crashes' = crashes + 1
    /\ pc' = [r \in Reads |-> "idle"]
    /\ target' = [r \in Reads |-> 1]
    /\ needsMemory' = [r \in Reads |-> FALSE]
    /\ parent' = [r \in Reads |-> NoRead]
    /\ at' = [r \in Reads |-> 0]
    /\ mem' = [r \in Reads |-> <<>>]
    /\ file' = [r \in Reads |-> 0]
    /\ answer' = [r \in Reads |-> Nothing]
    /\ lru' = Empty
    /\ drained' = NoDrain
    /\ drains' = <<>>
    /\ fileLock' = <<>>
    /\ UNCHANGED <<fileVars, tableVars>>

Step(r) ==
    \/ Unchain(r)
    \/ FailChained(r)
    \/ LoadResult(r)
    \/ LoadCached(r)
    \/ LoadDrained(r)
    \/ LoadNothing(r)
    \/ ReadDrained(r)
    \/ SkipDrained(r)
    \/ FindFileCheckpoint(r)
    \/ NoFileCheckpoint(r)
    \/ FindArweaveCheckpoint(r)
    \/ ColdStart(r)
    \/ Evaluate(r)
    \/ Finish(r)
    \/ FinishEagerly(r)
    \/ FailStream(r)
    \/ WriteRecord(r)
    \/ FailRecord(r)
    \/ Checkpointed(r)

Next ==
    \/ \E r \in Reads : Request(r) \/ Step(r) \/ Upload(r)
    \/ UseFile
    \/ Evict
    \/ Crash

Spec == Init /\ [][Next]_vars

\* Promises are run to their end, and the lock serves its waiters in order.
Fairness == (\A r \in Reads : WF_vars(Step(r))) /\ WF_vars(UseFile)

FairSpec == Spec /\ Fairness

-----------------------------------------------------------------------------

AccessOps == {"drain", "read", "checkpoint", "readCheckpoint"}

TypeOK ==
    /\ pc \in [Reads -> {"idle", "chained", "evaluating"}
                         \cup Loading \cup Saving \cup Settled]
    /\ target \in [Reads -> Messages]
    /\ needsMemory \in [Reads -> BOOLEAN]
    /\ parent \in [Reads -> Reads \cup {NoRead}]
    /\ at \in [Reads -> 0 .. MaxNonce]
    /\ mem \in [Reads -> Memory]
    /\ file \in [Reads -> Nat]
    /\ answer \in [Reads -> Memory]
    /\ lru \in Entry
    /\ drained \in [label : 0 .. MaxNonce, drain : Nat]
    /\ drains \in Seq({"pending", "written", "failed"})
    /\ drainFile \in Memory
    /\ fileLock \in Seq([op : AccessOps, mem : Memory, drain : Nat,
                         read : Reads \cup {NoRead}])
    /\ checkpoint \in Memory
    /\ record \in 0 .. MaxNonce
    /\ uploaded \subseteq Entry
    /\ results \in [Messages -> Memory]
    /\ crashes \in Nat

\* Wherever the CU keeps or uses a memory under the label of a message, every
\* message up to that one was folded into it, once and in order: what it
\* caches, evaluates from, checkpoints, stores and answers.
MemoriesFolded ==
    /\ lru.mem = Fold(lru.label)
    /\ \A r \in Reads : pc[r] \in Saving \cup {"evaluating"} => mem[r] = Fold(at[r])
    /\ \A c \in uploaded : c.mem = Fold(c.label)
    /\ \A n \in Messages : results[n] \in {Nothing, Fold(n)}
    /\ \A r \in Reads : answer[r] \in {Nothing, Fold(target[r])}

\* However the streams overlap, drain and fail, the latest memory a running CU
\* caches for the process never goes back to an earlier message.
LatestAdvances == [][CachedLabel <= CachedLabel' \/ crashes < crashes']_vars

\* A dry run gets the memory it asked for, if it is not refused.
MemoryAnswered ==
    \A r \in Reads : pc[r] = "done" /\ needsMemory[r] => answer[r] # Nothing

\* A read of a result gets one, if it is not refused.
ResultAnswered ==
    \A r \in Reads : pc[r] = "done" /\ ~needsMemory[r] => answer[r] # Nothing

\* A read is answered or refused: no stream waits forever for a file, for the
\* lock on it or for the stream it is chained to.
EventuallyAnswered ==
    \A r \in Reads : pc[r] # "idle" ~> pc[r] \in Settled \cup {"idle"}

=============================================================================
