-------------------------- MODULE CuReadStateProofs --------------------------
(***************************************************************************)
(* Proofs about CuReadState, for any reads, any number of messages and any *)
(* number of restarts.                                                     *)
(***************************************************************************)
EXTENDS CuReadState, SequenceTheorems, TLAPS

PcValues == {"idle", "chained", "evaluating"} \cup Loading \cup Saving \cup Settled

AccessType == [op : AccessOps, mem : Memory, drain : Nat, read : Reads \cup {NoRead}]

\* Whoever waits for the file's lock to read or to write a checkpoint is a read.
LockServesReads ==
    \A i \in 1 .. Len(fileLock) : fileLock[i].op # "drain" => fileLock[i].read \in Reads

TypeInv == TypeOK /\ LockServesReads

-----------------------------------------------------------------------------
(* Types.                                                                  *)

\* A sequence in which one element is set, if it has it.
LEMMA SetInSeq ==
    ASSUME NEW S, NEW s \in Seq(S), NEW k, NEW e \in S
    PROVE  /\ [s EXCEPT ![k] = e] \in Seq(S)
           /\ Len([s EXCEPT ![k] = e]) = Len(s)
           /\ \A i \in 1 .. Len(s) : [s EXCEPT ![k] = e][i] = IF i = k THEN e ELSE s[i]
<1> DEFINE t == [s EXCEPT ![k] = e]
<1>1. /\ DOMAIN t = 1 .. Len(s)
      /\ \A i \in 1 .. Len(s) : t[i] = IF i = k THEN e ELSE s[i]
  BY LenProperties
<1>2. t \in [1 .. Len(s) -> S] /\ Len(s) \in Nat
  BY LenProperties
<1>3. t \in Seq(S)
  BY <1>2, SeqDef
<1>4. QED
  BY <1>1, <1>2, <1>3, LenProperties

\* A Compute Unit that has just started.
LEMMA TypeInit == Init => TypeInv
<1> SUFFICES ASSUME Init PROVE TypeInv
  OBVIOUS
<1>1. <<>> \in Memory /\ 0 \in 0 .. MaxNonce /\ 1 \in Messages
  BY BoundAssumption DEF Memory, Messages
<1>2. Empty \in Entry /\ NoDrain \in [label : 0 .. MaxNonce, drain : Nat]
  BY <1>1 DEF Empty, Entry, NoDrain
<1>3. QED
  BY <1>1, <1>2 DEF Init, TypeInv, TypeOK, LockServesReads, Nothing

\* What the end of a stream leaves of its variables.
LEMMA SettleType ==
    ASSUME TypeOK, NEW r \in Reads, NEW o \in Settled, NEW a \in Memory, Settle(r, o, a)
    PROVE  /\ pc' \in [Reads -> PcValues]
           /\ answer' \in [Reads -> Memory]
           /\ at' \in [Reads -> 0 .. MaxNonce]
           /\ mem' \in [Reads -> Memory]
           /\ parent' \in [Reads -> Reads \cup {NoRead}]
           /\ file' \in [Reads -> Nat]
<1>1. <<>> \in Memory /\ 0 \in 0 .. MaxNonce
  BY BoundAssumption DEF Memory
<1>2. QED
  BY <1>1 DEF Settle, TypeOK, PcValues

\* Where a stream goes on from is a label and a memory.
LEMMA ResumeType ==
    ASSUME TypeOK, NEW r \in Reads, NEW l \in 0 .. MaxNonce, NEW m \in Memory,
           Resume(r, l, m)
    PROVE  /\ pc' \in [Reads -> PcValues]
           /\ answer' \in [Reads -> Memory]
           /\ at' \in [Reads -> 0 .. MaxNonce]
           /\ mem' \in [Reads -> Memory]
           /\ parent' \in [Reads -> Reads \cup {NoRead}]
           /\ file' \in [Reads -> Nat]
<1>1. Nothing \in Memory
  BY DEF Memory, Nothing
<1>2. CASE Settle(r, "failed", Nothing)
  BY <1>1, <1>2, SettleType DEF Settled
<1>3. CASE Settle(r, "done", IF needsMemory[r] THEN m ELSE Nothing)
  BY <1>1, <1>3, SettleType DEF Settled
<1>4. CASE /\ pc' = [pc EXCEPT ![r] = "evaluating"]
           /\ at' = [at EXCEPT ![r] = l]
           /\ mem' = [mem EXCEPT ![r] = m]
           /\ file' = [file EXCEPT ![r] = 0]
           /\ UNCHANGED <<parent, answer>>
  BY <1>4 DEF TypeOK, PcValues
<1>5. QED
  BY <1>2, <1>3, <1>4 DEF Resume

\* Keeping a memory in the cache keeps the types.
LEMMA KeepType ==
    ASSUME TypeOK, NEW l \in 0 .. MaxNonce, NEW m \in Memory, Keep(l, m)
    PROVE  /\ lru' \in Entry
           /\ drained' \in [label : 0 .. MaxNonce, drain : Nat]
           /\ drains' = drains
<1>1. NoDrain \in [label : 0 .. MaxNonce, drain : Nat]
  BY BoundAssumption DEF NoDrain
<1>2. QED
  BY <1>1 DEF Keep, TypeOK, Entry

\* Back-filling the cache with a loaded memory keeps its types.
LEMMA BackfillType ==
    ASSUME TypeOK, NEW r \in Reads, NEW l \in 0 .. MaxNonce, NEW m \in Memory,
           Backfill(r, l, m)
    PROVE  /\ lru' \in Entry
           /\ drained' \in [label : 0 .. MaxNonce, drain : Nat]
           /\ drains' = drains
  BY KeepType DEF Backfill, TypeOK, cacheVars

\* A drain moves the cached memory's label to the drained entry.
LEMMA DrainType ==
    ASSUME TypeOK, Drain(lru)
    PROVE  /\ lru' \in Entry
           /\ drained' \in [label : 0 .. MaxNonce, drain : Nat]
<1>1. Empty \in Entry
  BY BoundAssumption DEF Empty, Entry, Memory
<1>2. Len(drains) + 1 \in Nat /\ lru.label \in 0 .. MaxNonce
  BY DEF TypeOK, Entry
<1>3. QED
  BY <1>1, <1>2 DEF Drain

\* The next to hold the lock, and those behind.
LEMMA UnlockType ==
    ASSUME TypeInv, fileLock # <<>>
    PROVE  /\ Head(fileLock) \in AccessType
           /\ Head(fileLock) = fileLock[1]
           /\ Head(fileLock).op # "drain" => Head(fileLock).read \in Reads
           /\ Tail(fileLock) \in Seq(AccessType)
           /\ Len(Tail(fileLock)) = Len(fileLock) - 1
           /\ Len(fileLock) \in Nat \ {0}
           /\ \A i \in 1 .. Len(fileLock) - 1 : Tail(fileLock)[i] = fileLock[i + 1]
<1>1. fileLock \in Seq(AccessType)
  BY DEF TypeInv, TypeOK, AccessType
<1>2. QED
  BY <1>1 DEF TypeInv, LockServesReads

\* When the lock of the files passes on, what waits still serves reads.
LEMMA TailServesReads ==
    ASSUME TypeInv, fileLock # <<>>, Unlock
    PROVE  LockServesReads' /\ fileLock' \in Seq(AccessType)
<1>1. \A i \in 1 .. Len(fileLock') : fileLock'[i] = fileLock[i + 1] /\ i + 1 \in 1 .. Len(fileLock)
  BY UnlockType DEF Unlock
<1>2. QED
  BY <1>1, UnlockType DEF Unlock, TypeInv, LockServesReads

\* What joins the queue of the lock serves a read, or drains.
LEMMA LockType ==
    ASSUME TypeInv, NEW a \in AccessType, a.op # "drain" => a.read \in Reads, Lock(a)
    PROVE  LockServesReads' /\ fileLock' \in Seq(AccessType)
<1>1. fileLock \in Seq(AccessType)
  BY DEF TypeInv, TypeOK, AccessType
<1>2. \A i \in 1 .. Len(fileLock') : IF i = Len(fileLock) + 1 THEN fileLock'[i] = a
                                     ELSE fileLock'[i] = fileLock[i] /\ i \in 1 .. Len(fileLock)
  BY <1>1 DEF Lock
<1>3. QED
  BY <1>1, <1>2 DEF Lock, TypeInv, LockServesReads

\* A step of a read that leaves the files, the tables and the cache alone.
LEMMA ReadType ==
    ASSUME TypeInv,
           UNCHANGED <<target, needsMemory, cacheVars, fileVars, fileLock, tableVars, crashes>>,
           pc' \in [Reads -> PcValues],
           answer' \in [Reads -> Memory],
           at' \in [Reads -> 0 .. MaxNonce],
           mem' \in [Reads -> Memory],
           parent' \in [Reads -> Reads \cup {NoRead}],
           file' \in [Reads -> Nat]
    PROVE  TypeInv'
  BY DEF TypeInv, TypeOK, LockServesReads, PcValues, cacheVars, fileVars, tableVars

\* An incoming read keeps the types.
LEMMA RequestType == ASSUME TypeInv, NEW r \in Reads, Request(r) PROVE TypeInv'
<1>1. PICK t \in Messages, m \in BOOLEAN :
         \/ StartStream(r, t, m)
         \/ AnswerIncoming(r, t, m)
         \/ AnswerExact(r, t, m)
         \/ RefuseIncoming(r, t, m)
         \/ ChainStream(r, t, m)
         \/ StartBeside(r, t, m)
  BY DEF Request
<1>2. Nothing \in Memory /\ results[t] \in Memory
  BY DEF Memory, Nothing, TypeInv, TypeOK
<1>3. Incoming(r, t, m)
  BY <1>1 DEF StartStream, AnswerIncoming, AnswerExact, RefuseIncoming, ChainStream, StartBeside
<1>4. /\ target' \in [Reads -> Messages]
      /\ needsMemory' \in [Reads -> BOOLEAN]
      /\ UNCHANGED <<cacheVars, fileVars, fileLock, tableVars, crashes>>
  BY <1>3 DEF Incoming, TypeInv, TypeOK
<1>5. /\ pc' \in [Reads -> PcValues]
      /\ answer' \in [Reads -> Memory]
      /\ at' \in [Reads -> 0 .. MaxNonce]
      /\ mem' \in [Reads -> Memory]
      /\ parent' \in [Reads -> Reads \cup {NoRead}]
      /\ file' \in [Reads -> Nat]
  <2>1. CASE StartStream(r, t, m) \/ StartBeside(r, t, m)
    BY <2>1 DEF StartStream, StartBeside, Begin, TypeInv, TypeOK, PcValues, Loading
  <2>2. CASE \E o \in Settled, a \in Memory : Settle(r, o, a)
    BY <2>2, SettleType DEF TypeInv
  <2>3. CASE ChainStream(r, t, m)
    BY <2>3 DEF ChainStream, LatestBefore, PendingBefore, Pending, TypeInv, TypeOK, PcValues
  <2>4. QED
    BY <1>1, <1>2, <2>1, <2>2, <2>3
       DEF AnswerIncoming, AnswerExact, RefuseIncoming, Settled
<1>6. QED
  BY <1>4, <1>5 DEF TypeInv, TypeOK, LockServesReads, PcValues, cacheVars, fileVars, tableVars

\* The steps that load a memory.
LEMMA LoadType ==
    ASSUME TypeInv, NEW r \in Reads,
           \/ Unchain(r) \/ FailChained(r) \/ LoadResult(r) \/ LoadCached(r)
           \/ LoadDrained(r) \/ LoadNothing(r) \/ ReadDrained(r) \/ SkipDrained(r)
           \/ FindFileCheckpoint(r) \/ NoFileCheckpoint(r)
           \/ FindArweaveCheckpoint(r) \/ ColdStart(r)
    PROVE  TypeInv'
<1>1. /\ TypeOK /\ Nothing \in Memory /\ results[target[r]] \in Memory
      /\ 0 \in 0 .. MaxNonce /\ 0 \in Nat
  <2>1. Nothing \in Memory /\ 0 \in 0 .. MaxNonce
    BY BoundAssumption DEF Memory, Nothing
  <2>2. TypeOK
    BY DEF TypeInv
  <2>3. results[target[r]] \in Memory
    BY <2>2 DEF TypeOK
  <2>4. QED
    BY <2>1, <2>2, <2>3
<1>0. /\ pc \in [Reads -> PcValues]
      /\ at \in [Reads -> 0 .. MaxNonce]
      /\ parent \in [Reads -> Reads \cup {NoRead}]
      /\ file \in [Reads -> Nat]
      /\ drained.label \in 0 .. MaxNonce /\ drained.drain \in Nat /\ record \in 0 .. MaxNonce
      /\ Loading \subseteq PcValues
  BY <1>1 DEF TypeOK, PcValues
<1>2. CASE Unchain(r) \/ LoadDrained(r) \/ LoadNothing(r) \/ SkipDrained(r) \/ NoFileCheckpoint(r)
  <2>1. /\ pc' \in [Reads -> PcValues]
        /\ at' \in [Reads -> 0 .. MaxNonce]
        /\ parent' \in [Reads -> Reads \cup {NoRead}]
        /\ file' \in [Reads -> Nat]
    BY <1>0, <1>1, <1>2 DEF Unchain, LoadDrained, LoadNothing, SkipDrained, NoFileCheckpoint, Loading
  <2>2. QED
    BY <1>1, <1>2, <2>1, ReadType DEF TypeOK, Unchain, LoadDrained, LoadNothing, SkipDrained,
          NoFileCheckpoint
<1>3. CASE FailChained(r) \/ LoadResult(r)
  <2>1. \E o \in Settled, a \in Memory : Settle(r, o, a)
    BY <1>1, <1>3 DEF FailChained, LoadResult, Settled
  <2>2. QED
    BY <1>1, <1>3, <2>1, SettleType, ReadType DEF FailChained, LoadResult
<1>4. CASE LoadCached(r) \/ ColdStart(r)
  <2>1. \E l \in 0 .. MaxNonce, m \in Memory : Resume(r, l, m)
    <3>1. CASE LoadCached(r)
      BY <1>1, <3>1 DEF LoadCached, TypeOK, Entry
    <3>2. CASE ColdStart(r)
      BY <1>1, <3>2 DEF ColdStart, Nothing
    <3>3. QED
      BY <1>4, <3>1, <3>2
  <2>2. QED
    BY <1>1, <1>4, <2>1, ResumeType, ReadType DEF LoadCached, ColdStart
<1>5. CASE ReadDrained(r) \/ FindFileCheckpoint(r)
  <2>1. \E a \in AccessType : a.read \in Reads /\ Lock(a)
    <3>1. Access("read", <<>>, 0, r) \in AccessType /\ Access("readCheckpoint", <<>>, 0, r) \in AccessType
      BY DEF Access, AccessType, AccessOps, Memory
    <3>2. Access("read", <<>>, 0, r).read = r /\ Access("readCheckpoint", <<>>, 0, r).read = r
      BY DEF Access
    <3>3. QED
      BY <1>5, <3>1, <3>2 DEF ReadDrained, FindFileCheckpoint
  <2>2. LockServesReads' /\ fileLock' \in Seq(AccessType)
    BY <2>1, LockType
  <2>3. /\ pc' \in [Reads -> PcValues]
        /\ at' \in [Reads -> 0 .. MaxNonce]
        /\ file' \in [Reads -> Nat]
    <3>1. CASE ReadDrained(r)
      BY <1>0, <1>1, <3>1 DEF ReadDrained, Loading
    <3>2. CASE FindFileCheckpoint(r)
      BY <1>0, <1>1, <3>2 DEF FindFileCheckpoint, Loading
    <3>3. QED
      BY <1>5, <3>1, <3>2
  <2>4. QED
    BY <1>1, <1>5, <2>2, <2>3 DEF TypeInv, TypeOK, AccessType, PcValues, ReadDrained,
          FindFileCheckpoint, cacheVars, fileVars, tableVars
<1>6. CASE FindArweaveCheckpoint(r)
  <2>1. PICK c \in uploaded : Backfill(r, c.label, c.mem) /\ Resume(r, c.label, c.mem)
    BY <1>6 DEF FindArweaveCheckpoint
  <2>2. c.label \in 0 .. MaxNonce /\ c.mem \in Memory
    BY <1>1, <2>1 DEF TypeOK, Entry
  <2>3. /\ lru' \in Entry
        /\ drained' \in [label : 0 .. MaxNonce, drain : Nat]
        /\ drains' = drains
    BY <1>1, <2>1, <2>2, BackfillType
  <2>4. /\ pc' \in [Reads -> PcValues]
        /\ answer' \in [Reads -> Memory]
        /\ at' \in [Reads -> 0 .. MaxNonce]
        /\ mem' \in [Reads -> Memory]
        /\ parent' \in [Reads -> Reads \cup {NoRead}]
        /\ file' \in [Reads -> Nat]
    BY <1>1, <2>1, <2>2, ResumeType
  <2>5. QED
    BY <1>6, <2>3, <2>4 DEF FindArweaveCheckpoint, TypeInv, TypeOK, LockServesReads, PcValues,
          fileVars, tableVars
<1>7. QED
  BY <1>2, <1>3, <1>4, <1>5, <1>6

\* The steps that evaluate and save.
LEMMA EvaluateType ==
    ASSUME TypeInv, NEW r \in Reads,
           \/ Evaluate(r) \/ Finish(r) \/ FinishEagerly(r) \/ FailStream(r)
           \/ WriteRecord(r) \/ FailRecord(r) \/ Checkpointed(r) \/ Upload(r)
    PROVE  TypeInv'
<1>1. /\ TypeOK /\ Nothing \in Memory /\ at[r] \in 0 .. MaxNonce /\ mem[r] \in Memory
      /\ target[r] \in 1 .. MaxNonce /\ pc \in [Reads -> PcValues] /\ MaxNonce \in Nat
  <2>1. TypeOK /\ at[r] \in 0 .. MaxNonce /\ mem[r] \in Memory /\ target[r] \in 1 .. MaxNonce
    BY DEF TypeInv, TypeOK, Messages
  <2>2. Nothing \in Memory /\ MaxNonce \in Nat
    BY BoundAssumption DEF Memory, Nothing
  <2>3. QED
    BY <2>1, <2>2 DEF TypeOK, PcValues
<1>2. CASE Evaluate(r)
  <2>1. at[r] + 1 \in 0 .. MaxNonce /\ at[r] + 1 \in Messages
    BY <1>1, <1>2 DEF Evaluate, FoldsMore, Messages
  <2>2. Append(mem[r], at[r] + 1) \in Memory
    BY <1>1, <2>1 DEF Memory
  <2>3. at' \in [Reads -> 0 .. MaxNonce] /\ mem' \in [Reads -> Memory]
    BY <1>1, <1>2, <2>1, <2>2 DEF Evaluate, FoldNext, TypeOK
  <2>4. results' \in [Messages -> Memory]
    BY <1>1, <1>2, <2>1, <2>2 DEF Evaluate, FoldNext, StoreResult, TypeOK
  <2>5. QED
    BY <1>2, <2>3, <2>4 DEF Evaluate, TypeInv, TypeOK, LockServesReads, PcValues, cacheVars, fileVars
<1>3. CASE Finish(r)
  <2>1. /\ lru' \in Entry
        /\ drained' \in [label : 0 .. MaxNonce, drain : Nat]
        /\ drains' = drains
    BY <1>1, <1>3, KeepType DEF Finish
  <2>2. /\ pc' \in [Reads -> PcValues]
        /\ answer' \in [Reads -> Memory]
        /\ at' \in [Reads -> 0 .. MaxNonce]
        /\ mem' \in [Reads -> Memory]
        /\ parent' \in [Reads -> Reads \cup {NoRead}]
        /\ file' \in [Reads -> Nat]
    BY <1>1, <1>3, SettleType DEF Finish, Settled
  <2>3. QED
    BY <1>3, <2>1, <2>2 DEF Finish, TypeInv, TypeOK, LockServesReads, PcValues, fileVars, tableVars
<1>4. CASE FinishEagerly(r)
  <2>1. /\ lru' \in Entry
        /\ drained' \in [label : 0 .. MaxNonce, drain : Nat]
        /\ drains' = drains
    BY <1>1, <1>4, KeepType DEF FinishEagerly
  <2>2. pc' \in [Reads -> PcValues]
    BY <1>1, <1>4 DEF FinishEagerly, PcValues, Saving
  <2>3. LockServesReads' /\ fileLock' \in Seq(AccessType)
    <3>1. /\ Access("checkpoint", mem[r], 0, r) \in AccessType
          /\ Access("checkpoint", mem[r], 0, r).read \in Reads
      BY <1>1 DEF Access, AccessType, AccessOps
    <3>2. CASE Lock(Access("checkpoint", mem[r], 0, r))
      BY <3>1, <3>2, LockType
    <3>3. CASE UNCHANGED fileLock
      BY <3>3 DEF TypeInv, TypeOK, LockServesReads, AccessType
    <3>4. QED
      BY <1>4, <3>2, <3>3 DEF FinishEagerly
  <2>4. QED
    BY <1>1, <1>4, <2>1, <2>2, <2>3 DEF FinishEagerly, TypeInv, TypeOK, AccessType, PcValues,
          fileVars, tableVars
<1>5. CASE FailStream(r) \/ Checkpointed(r)
  <2>1. \E o \in Settled, a \in Memory : Settle(r, o, a)
    BY <1>1, <1>5 DEF FailStream, Checkpointed, Settled
  <2>2. QED
    BY <1>1, <1>5, <2>1, SettleType, ReadType DEF FailStream, Checkpointed
<1>6. CASE WriteRecord(r) \/ FailRecord(r)
  <2>1. pc' \in [Reads -> PcValues]
    BY <1>1, <1>6 DEF WriteRecord, FailRecord, PcValues, Saving
  <2>2. record' \in 0 .. MaxNonce
    BY <1>1, <1>6 DEF WriteRecord, FailRecord, TypeOK, tableVars
  <2>3. QED
    BY <1>1, <1>6, <2>1, <2>2 DEF WriteRecord, FailRecord, TypeInv, TypeOK, LockServesReads,
          PcValues, cacheVars, fileVars, tableVars
<1>7. CASE Upload(r)
  <2>1. uploaded' \subseteq Entry
    BY <1>1, <1>7 DEF Upload, TypeOK, Entry
  <2>2. QED
    BY <1>7, <2>1 DEF Upload, TypeInv, TypeOK, LockServesReads, readVars, cacheVars, fileVars
<1>8. QED
  BY <1>2, <1>3, <1>4, <1>5, <1>6, <1>7

\* The steps of whoever holds the lock on the file.
LEMMA UseFileType == ASSUME TypeInv, UseFile PROVE TypeInv'
<1> DEFINE h == Head(fileLock)
<1>1. TypeOK /\ pc \in [Reads -> PcValues] /\ 0 \in 0 .. MaxNonce
  BY BoundAssumption DEF TypeInv, TypeOK, PcValues
<1>2. fileLock # <<>>
  BY DEF UseFile, WriteDrain, FailDrain, ReadFile, FailRead, WriteCheckpoint, FailCheckpoint, Holds
<1>3. h \in AccessType /\ (h.op # "drain" => h.read \in Reads)
  BY <1>2, UnlockType
<1>4. Unlock => LockServesReads' /\ fileLock' \in Seq(AccessType)
  BY <1>2, TailServesReads
<1>5. CASE WriteDrain
  <2>1. drains' \in Seq({"pending", "written", "failed"})
    BY <1>1, <1>5, SetInSeq DEF WriteDrain, TypeOK
  <2>2. QED
    BY <1>1, <1>3, <1>4, <1>5, <2>1 DEF WriteDrain, TypeInv, TypeOK, AccessType, PcValues, readVars,
          tableVars
<1>6. CASE FailDrain
  <2> DEFINE failed == [drains EXCEPT ![h.drain] = "failed"]
  <2>1. failed \in Seq({"pending", "written", "failed"})
    BY <1>1, SetInSeq DEF TypeOK
  <2>2. CASE /\ Drain(lru)
             /\ drains' = Append(failed, "pending")
             /\ fileLock' = Append(Tail(fileLock),
                              Access("drain", lru.mem, Len(drains) + 1, NoRead))
    <3> DEFINE a == Access("drain", lru.mem, Len(drains) + 1, NoRead)
    <3>1. a \in AccessType /\ a.op = "drain"
      BY <1>1 DEF Access, AccessType, AccessOps, TypeOK, Entry
    <3>2. Tail(fileLock) \in Seq(AccessType)
      BY <1>2, UnlockType
    <3>3. fileLock' \in Seq(AccessType)
      BY <2>2, <3>1, <3>2
    <3>4. \A i \in 1 .. Len(fileLock') :
             IF i = Len(fileLock) THEN fileLock'[i] = a
             ELSE fileLock'[i] = fileLock[i + 1] /\ i + 1 \in 1 .. Len(fileLock)
      <4> HIDE DEF a
      <4>1. Len(fileLock') = Len(fileLock) /\ Len(Tail(fileLock)) = Len(fileLock) - 1
        BY <1>2, <2>2, <3>1, <3>2, UnlockType DEF a
      <4>2. fileLock' = Append(Tail(fileLock), a)
        BY <2>2 DEF a
      <4>3. Len(fileLock) \in Nat \ {0}
        BY <1>2, UnlockType
      <4>4. ASSUME NEW i \in 1 .. Len(fileLock'), i # Len(fileLock)
            PROVE  fileLock'[i] = fileLock[i + 1] /\ i + 1 \in 1 .. Len(fileLock)
        <5>1. i \in 1 .. Len(fileLock) - 1 /\ i + 1 \in 1 .. Len(fileLock)
          BY <4>1, <4>3, <4>4
        <5>2. fileLock'[i] = Tail(fileLock)[i]
          BY <3>1, <3>2, <4>1, <4>2, <5>1
        <5>3. QED
          BY <1>2, <5>1, <5>2, UnlockType
      <4>5. fileLock'[Len(fileLock)] = a
        BY <3>1, <3>2, <4>1, <4>2, <4>3
      <4>6. QED
        BY <4>4, <4>5
    <3>5. LockServesReads'
      BY <3>1, <3>4 DEF TypeInv, LockServesReads
    <3>6. lru' \in Entry /\ drained' \in [label : 0 .. MaxNonce, drain : Nat]
      BY <1>1, <2>2, DrainType
    <3>7. drains' \in Seq({"pending", "written", "failed"})
      BY <2>1, <2>2
    <3>8. QED
      BY <1>1, <1>6, <3>3, <3>5, <3>6, <3>7 DEF FailDrain, TypeInv, TypeOK, AccessType, PcValues,
            readVars, fileVars, tableVars
  <2>3. CASE drains' = failed /\ Unlock /\ UNCHANGED <<lru, drained>>
    BY <1>1, <1>4, <1>6, <2>1, <2>3 DEF FailDrain, TypeInv, TypeOK, AccessType, PcValues, readVars,
          fileVars, tableVars
  <2>4. QED
    BY <1>6, <2>2, <2>3 DEF FailDrain
<1>7. CASE ReadFile
  <2> DEFINE m == IF Holds("read") THEN drainFile ELSE checkpoint
  <2>1. h.read \in Reads
    BY <1>3, <1>7 DEF ReadFile, Holds
  <2>2. at[h.read] \in 0 .. MaxNonce /\ m \in Memory
    BY <1>1, <2>1 DEF TypeOK
  <2>3. Backfill(h.read, at[h.read], m) /\ Resume(h.read, at[h.read], m)
    BY <1>7 DEF ReadFile
  <2>4. /\ lru' \in Entry
        /\ drained' \in [label : 0 .. MaxNonce, drain : Nat]
        /\ drains' = drains
    BY <1>1, <2>1, <2>2, <2>3, BackfillType
  <2>5. /\ pc' \in [Reads -> PcValues]
        /\ answer' \in [Reads -> Memory]
        /\ at' \in [Reads -> 0 .. MaxNonce]
        /\ mem' \in [Reads -> Memory]
        /\ parent' \in [Reads -> Reads \cup {NoRead}]
        /\ file' \in [Reads -> Nat]
    BY <1>1, <2>1, <2>2, <2>3, ResumeType
  <2>6. QED
    BY <1>1, <1>4, <1>7, <2>4, <2>5 DEF ReadFile, TypeInv, TypeOK, AccessType, PcValues,
          fileVars, tableVars
<1>8. CASE FailRead \/ WriteCheckpoint \/ FailCheckpoint
  <2>1. h.read \in Reads
    BY <1>3, <1>8 DEF FailRead, WriteCheckpoint, FailCheckpoint, Holds
  <2>2. pc' \in [Reads -> PcValues]
    BY <1>1, <1>8, <2>1 DEF FailRead, WriteCheckpoint, FailCheckpoint, PcValues, Loading, Saving
  <2>3. at' \in [Reads -> 0 .. MaxNonce] /\ checkpoint' \in Memory
    <3>1. at \in [Reads -> 0 .. MaxNonce] /\ checkpoint \in Memory /\ 0 \in 0 .. MaxNonce
      BY <1>1 DEF TypeOK
    <3>2. h.mem \in Memory
      BY <1>3 DEF AccessType
    <3>3. QED
      BY <1>8, <2>1, <3>1, <3>2 DEF FailRead, WriteCheckpoint, FailCheckpoint, fileVars
  <2>4. QED
    BY <1>1, <1>4, <1>8, <2>2, <2>3 DEF FailRead, WriteCheckpoint, FailCheckpoint, TypeInv, TypeOK,
          AccessType, PcValues, cacheVars, fileVars, tableVars
<1>9. QED
  BY <1>5, <1>6, <1>7, <1>8 DEF UseFile

\* An eviction keeps the types.
LEMMA EvictType == ASSUME TypeInv, Evict PROVE TypeInv'
<1>1. TypeOK /\ Access("drain", lru.mem, Len(drains) + 1, NoRead) \in AccessType
  BY DEF TypeInv, TypeOK, Access, AccessType, AccessOps, Entry
<1>2. Access("drain", lru.mem, Len(drains) + 1, NoRead).op = "drain"
  BY DEF Access
<1>3. LockServesReads' /\ fileLock' \in Seq(AccessType)
  BY <1>1, <1>2, LockType DEF Evict
<1>4. lru' \in Entry /\ drained' \in [label : 0 .. MaxNonce, drain : Nat]
  BY <1>1, DrainType DEF Evict
<1>5. drains' \in Seq({"pending", "written", "failed"})
  BY <1>1 DEF Evict, TypeOK
<1>6. QED
  BY <1>1, <1>3, <1>4, <1>5 DEF Evict, TypeInv, TypeOK, AccessType, readVars, fileVars, tableVars

\* A restart keeps the types.
LEMMA CrashType == ASSUME TypeInv, Crash PROVE TypeInv'
<1>1. <<>> \in Memory /\ 0 \in 0 .. MaxNonce /\ 1 \in Messages
  BY BoundAssumption DEF Memory, Messages
<1>2. Empty \in Entry /\ NoDrain \in [label : 0 .. MaxNonce, drain : Nat]
  BY <1>1 DEF Empty, Entry, NoDrain
<1>3. QED
  BY <1>1, <1>2 DEF Crash, TypeInv, TypeOK, LockServesReads, Nothing, fileVars, tableVars

\* Every step keeps the types.
LEMMA TypeNext == TypeInv /\ [Next]_vars => TypeInv'
<1> SUFFICES ASSUME TypeInv, [Next]_vars PROVE TypeInv'
  OBVIOUS
<1>1. ASSUME NEW r \in Reads, Request(r) PROVE TypeInv'
  BY <1>1, RequestType
<1>2. ASSUME NEW r \in Reads, Step(r) \/ Upload(r) PROVE TypeInv'
  BY <1>2, LoadType, EvaluateType DEF Step
<1>3. CASE UseFile
  BY <1>3, UseFileType
<1>4. CASE Evict
  BY <1>4, EvictType
<1>5. CASE Crash
  BY <1>5, CrashType
<1>6. CASE UNCHANGED vars
  BY <1>6 DEF vars, readVars, cacheVars, fileVars, tableVars, TypeInv, TypeOK, LockServesReads
<1>7. QED
  BY <1>1, <1>2, <1>3, <1>4, <1>5, <1>6 DEF Next

\* Whatever the reads, the configuration and the bounds: the variables keep
\* their types, and only reads wait to read or to write a checkpoint.
THEOREM TypeCorrect == Spec => []TypeOK
<1>1. TypeInv => TypeOK
  BY DEF TypeInv
<1>2. QED
  BY <1>1, TypeInit, TypeNext, PTL DEF Spec

-----------------------------------------------------------------------------
(* The latest memory.                                                      *)

\* Keeping a memory never makes an earlier one the latest.
LEMMA KeepAdvances ==
    ASSUME TypeOK, NEW l \in 0 .. MaxNonce, NEW m \in Memory, Keep(l, m)
    PROVE  CachedLabel <= CachedLabel'
<1>1. lru.label \in Nat /\ drained.label \in Nat /\ l \in Nat
  BY BoundAssumption DEF TypeOK, Entry
<1>2. CASE IsStale(l)
  BY <1>1, <1>2 DEF Keep, CachedLabel
<1>3. CASE ~IsStale(l)
  <2>1. lru'.label = l /\ drained'.label = 0
    BY <1>3 DEF Keep, NoDrain
  <2>2. l >= CachedLabel
    BY <1>1, <1>3 DEF IsStale, CachedLabel
  <2>3. QED
    BY <1>1, <2>1, <2>2 DEF CachedLabel
<1>4. QED
  BY <1>2, <1>3

\* Back-filling the cache does not put an earlier memory in it.
LEMMA BackfillAdvances ==
    ASSUME TypeOK, NEW r \in Reads, NEW l \in 0 .. MaxNonce, NEW m \in Memory,
           Backfill(r, l, m)
    PROVE  CachedLabel <= CachedLabel'
<1>1. CASE l > target[r]
  BY <1>1, BoundAssumption DEF Backfill, cacheVars, CachedLabel, TypeOK, Entry
<1>2. CASE Keep(l, m)
  BY <1>2, KeepAdvances
<1>3. QED
  BY <1>1, <1>2 DEF Backfill

\* A drained memory keeps its label.
LEMMA DrainAdvances ==
    ASSUME TypeOK, lru.label > 0, Drain(lru)
    PROVE  CachedLabel <= CachedLabel'
<1>1. lru.label \in Nat
  BY BoundAssumption DEF TypeOK, Entry
<1>2. QED
  BY <1>1 DEF Drain, CachedLabel, Empty

\* The label of the cached memory only falls at a restart.
LEMMA NextAdvances ==
    ASSUME TypeInv, Next PROVE CachedLabel <= CachedLabel' \/ crashes < crashes'
<1>1. TypeOK /\ lru.label \in Nat /\ drained.label \in Nat /\ crashes \in Nat
  BY BoundAssumption DEF TypeInv, TypeOK, Entry
<1>2. UNCHANGED <<lru, drained>> => CachedLabel <= CachedLabel'
  BY <1>1 DEF CachedLabel
<1>3. ASSUME NEW r \in Reads, Request(r) PROVE CachedLabel <= CachedLabel'
  BY <1>2, <1>3 DEF Request, StartStream, AnswerIncoming, AnswerExact, RefuseIncoming,
        ChainStream, StartBeside, Incoming, cacheVars
<1>4. ASSUME NEW r \in Reads,
             \/ Unchain(r) \/ FailChained(r) \/ LoadResult(r) \/ LoadCached(r)
             \/ LoadDrained(r) \/ LoadNothing(r) \/ ReadDrained(r) \/ SkipDrained(r)
             \/ FindFileCheckpoint(r) \/ NoFileCheckpoint(r) \/ ColdStart(r)
      PROVE  CachedLabel <= CachedLabel'
  BY <1>2, <1>4 DEF Unchain, FailChained, LoadResult, LoadCached, LoadDrained, LoadNothing,
        ReadDrained, SkipDrained, FindFileCheckpoint, NoFileCheckpoint, ColdStart, cacheVars
<1>5. ASSUME NEW r \in Reads,
             \/ Evaluate(r) \/ FailStream(r) \/ WriteRecord(r) \/ FailRecord(r)
             \/ Checkpointed(r) \/ Upload(r)
      PROVE  CachedLabel <= CachedLabel'
  BY <1>2, <1>5 DEF Evaluate, FailStream, WriteRecord, FailRecord, Checkpointed, Upload, cacheVars
<1>6. ASSUME NEW r \in Reads, FindArweaveCheckpoint(r) PROVE CachedLabel <= CachedLabel'
  <2>1. PICK c \in uploaded : Backfill(r, c.label, c.mem)
    BY <1>6 DEF FindArweaveCheckpoint
  <2>2. c.label \in 0 .. MaxNonce /\ c.mem \in Memory
    BY <1>1, <2>1 DEF TypeOK, Entry
  <2>3. QED
    BY <1>1, <2>1, <2>2, BackfillAdvances
<1>7. ASSUME NEW r \in Reads, Finish(r) \/ FinishEagerly(r) PROVE CachedLabel <= CachedLabel'
  <2>1. at[r] \in 0 .. MaxNonce /\ mem[r] \in Memory
    BY <1>1 DEF TypeOK
  <2>2. QED
    BY <1>1, <1>7, <2>1, KeepAdvances DEF Finish, FinishEagerly
<1>8. CASE WriteDrain \/ FailRead \/ WriteCheckpoint \/ FailCheckpoint
  BY <1>2, <1>8 DEF WriteDrain, FailRead, WriteCheckpoint, FailCheckpoint, cacheVars
<1>9. CASE FailDrain \/ Evict
  BY <1>1, <1>2, <1>9, DrainAdvances DEF FailDrain, Evict
<1>10. CASE ReadFile
  <2> DEFINE h == Head(fileLock)
             m == IF Holds("read") THEN drainFile ELSE checkpoint
  <2>1. h.read \in Reads
    BY <1>10, UnlockType DEF ReadFile, Holds
  <2>2. at[h.read] \in 0 .. MaxNonce /\ m \in Memory
    BY <1>1, <2>1 DEF TypeOK
  <2>3. Backfill(h.read, at[h.read], m)
    BY <1>10 DEF ReadFile
  <2>4. QED
    BY <1>1, <2>1, <2>2, <2>3, BackfillAdvances
<1>11. CASE Crash
  BY <1>1, <1>11 DEF Crash
<1>12. QED
  BY <1>3, <1>4, <1>5, <1>6, <1>7, <1>8, <1>9, <1>10, <1>11 DEF Next, Step, UseFile

\* However the streams overlap, drain and fail, the latest memory a running CU
\* caches for the process never goes back to an earlier message.
THEOREM AlwaysAdvances == Spec => LatestAdvances
<1>1. TypeInv /\ [Next]_vars => [CachedLabel <= CachedLabel' \/ crashes < crashes']_vars
  BY NextAdvances
<1>2. QED
  BY <1>1, TypeInit, TypeNext, PTL DEF Spec, LatestAdvances

-----------------------------------------------------------------------------
(* The memories.  With no checkpoint files, and when no memory is evicted  *)
(* while several streams run, a drained memory can be told from the one    *)
(* the process' file holds.                                                *)

\* A stream is answered when it ends, and saves the memory of its target.
StreamsUnanswered ==
    \A r \in Reads : /\ pc[r] \notin Settled => answer[r] = Nothing
                     /\ pc[r] \in Saving => at[r] = target[r]

NoCheckpointFile ==
    /\ record = 0
    /\ \A r \in Reads : pc[r] \notin {"readingCheckpoint", "writing", "recording"}
    /\ \A i \in 1 .. Len(fileLock) : fileLock[i].op \in {"drain", "read"}

OneStream == Concurrent \/ \A p, q \in Pending : p = q

\* The drained entry is of the last eviction, and nothing was cached since.
DrainedLast ==
    /\ Len(drains) <= MaxDrains
    /\ drained.label > 0 =>
          lru.label = 0 /\ drained.drain = Len(drains) /\ Len(drains) > 0

\* Evicted memories are written in the order they were evicted, and no promise
\* of those that wait has settled.
DrainsInTurn ==
    /\ \A i \in 1 .. Len(fileLock) :
          fileLock[i].op = "drain" =>
             /\ fileLock[i].drain \in 1 .. Len(drains)
             /\ \A j \in fileLock[i].drain .. Len(drains) : drains[j] = "pending"
    /\ \A i, k \in 1 .. Len(fileLock) :
          i < k /\ fileLock[i].op = "drain" /\ fileLock[k].op = "drain" =>
             fileLock[i].drain < fileLock[k].drain

\* What is written for the drained entry, or was, is the memory of its label.
DrainFolded ==
    drained.label > 0 =>
       /\ \A i \in 1 .. Len(fileLock) :
             fileLock[i].op = "drain" /\ fileLock[i].drain = Len(drains) =>
                fileLock[i].mem = Fold(drained.label)
       /\ drains[Len(drains)] = "written" => drainFile = Fold(drained.label)

\* Whoever awaits or reads the file does so for the drained entry.
DrainAwaited ==
    \A r \in Reads :
       /\ pc[r] = "draining" =>
             drained.label > 0 /\ at[r] = drained.label /\ file[r] = drained.drain
       /\ pc[r] = "reading" =>
             drained.label > 0 /\ at[r] = drained.label /\ drains[Len(drains)] = "written"

ReadsInTurn ==
    /\ \A i \in 1 .. Len(fileLock) :
          fileLock[i].op = "read" => pc[fileLock[i].read] = "reading"
    /\ \A i, k \in 1 .. Len(fileLock) :
          fileLock[i].op = "read" /\ fileLock[k].op = "read"
             /\ fileLock[i].read = fileLock[k].read => i = k

FileInv ==
    /\ NoCheckpointFile
    /\ OneStream
    /\ DrainedLast
    /\ DrainsInTurn
    /\ DrainFolded
    /\ DrainAwaited
    /\ ReadsInTurn

MemoryInv == MemoriesFolded /\ StreamsUnanswered /\ FileInv

\* The configuration: checkpoint files are off by default.
FileUnshared == ~FileCheckpoints /\ (MaxDrains = 0 \/ ~Concurrent)

FileStates == {"draining", "reading", "readingCheckpoint", "writing", "recording"}

\* A Compute Unit that has just started keeps no memory.
LEMMA MemoryInit == Init => MemoryInv
<1> SUFFICES ASSUME Init PROVE MemoryInv
  OBVIOUS
<1>1. Fold(0) = <<>>
  BY DEF Fold
<1>2. MemoriesFolded /\ StreamsUnanswered
  BY <1>1 DEF Init, MemoriesFolded, StreamsUnanswered, Empty, Nothing, Saving
<1>3. FileInv
  BY BoundAssumption DEF Init, FileInv, NoCheckpointFile, OneStream, Pending, DrainedLast,
        DrainsInTurn, DrainFolded, DrainAwaited, ReadsInTurn, NoDrain
<1>4. QED
  BY <1>2, <1>3 DEF MemoryInv

\* While a stream runs, no other one is at the process' file.
LEMMA AloneAtFile ==
    ASSUME FileUnshared, TypeInv, FileInv, NEW r \in Pending
    PROVE  \A q \in Reads \ {r} : pc[q] \notin {"draining", "reading"}
<1>1. CASE ~Concurrent
  BY <1>1 DEF FileInv, OneStream, Pending, Settled
<1>2. CASE MaxDrains = 0
  BY <1>2 DEF FileInv, DrainedLast, DrainAwaited, TypeInv, TypeOK
<1>3. QED
  BY <1>1, <1>2 DEF FileUnshared

\* Alone when it starts, or one of those that run.
LEMMA StillOneStream ==
    ASSUME TypeInv, OneStream, NEW r \in Reads, NEW v \in PcValues,
           Concurrent \/ Pending = {} \/ r \in Pending,
           pc' = [pc EXCEPT ![r] = v]
    PROVE  OneStream'
<1>1. Pending' \subseteq Pending \cup {r}
  BY DEF Pending, TypeInv, TypeOK
<1>2. QED
  BY <1>1 DEF OneStream

\* The steps of a stream that leave the drains and the files alone, and leave
\* or drop the drained entry.
LEMMA StreamFile ==
    ASSUME TypeInv, FileInv, NEW r \in Reads, NEW v \in PcValues \ FileStates,
           Concurrent \/ Pending = {} \/ r \in Pending,
           pc' = [pc EXCEPT ![r] = v],
           \A q \in Reads \ {r} : at'[q] = at[q] /\ file'[q] = file[q],
           UNCHANGED <<drains, drainFile, record>>,
           \/ UNCHANGED <<lru, drained>>
           \/ /\ drained'.label = 0
              /\ \A q \in Reads \ {r} : pc[q] \notin {"draining", "reading"},
           \/ UNCHANGED fileLock /\ pc[r] # "reading"
           \/ /\ fileLock # <<>> /\ Unlock
              /\ Head(fileLock).op = "read" /\ Head(fileLock).read = r
    PROVE  FileInv'
<1>1. /\ pc'[r] = v
      /\ \A q \in Reads \ {r} : pc'[q] = pc[q]
      /\ \A i \in 1 .. Len(fileLock) : fileLock[i].op # "drain" => fileLock[i].read \in Reads
  BY DEF TypeInv, TypeOK, LockServesReads
<1>2. PICK k \in {0, 1} :
         /\ Len(fileLock) \in Nat /\ Len(fileLock') = Len(fileLock) - k /\ Len(fileLock') \in Nat
         /\ \A i \in 1 .. Len(fileLock') : fileLock'[i] = fileLock[i + k]
         /\ k = 0 => pc[r] # "reading"
         /\ k = 1 => /\ fileLock[1].op = "read" /\ fileLock[1].read = r
                     /\ Len(fileLock) > 0
  <2>1. CASE UNCHANGED fileLock /\ pc[r] # "reading"
    <3>1. Len(fileLock) \in Nat
      BY DEF TypeInv, TypeOK
    <3>2. QED
      BY <2>1, <3>1
  <2>2. CASE /\ fileLock # <<>> /\ Unlock
             /\ Head(fileLock).op = "read" /\ Head(fileLock).read = r
    <3>1. /\ Len(fileLock') = Len(fileLock) - 1 /\ Len(fileLock) \in Nat \ {0}
          /\ \A i \in 1 .. Len(fileLock') : fileLock'[i] = fileLock[i + 1]
          /\ Head(fileLock) = fileLock[1]
      BY <2>2, UnlockType DEF Unlock
    <3>2. QED
      BY <2>2, <3>1
  <2>3. QED
    BY <2>1, <2>2
<1>3. \A i \in 1 .. Len(fileLock') : i + k \in 1 .. Len(fileLock) /\ i + k \in Nat
  BY <1>2
<1>4. NoCheckpointFile'
  BY <1>1, <1>2, <1>3 DEF FileInv, NoCheckpointFile, FileStates
<1>5. OneStream'
  BY StillOneStream DEF FileInv
<1>6. DrainedLast'
  BY DEF FileInv, DrainedLast
<1>7. DrainsInTurn'
  <2>1. \A i \in 1 .. Len(fileLock') :
           fileLock'[i].op = "drain" =>
              /\ fileLock'[i].drain \in 1 .. Len(drains)
              /\ \A j \in fileLock'[i].drain .. Len(drains) : drains[j] = "pending"
    BY <1>2, <1>3 DEF FileInv, DrainsInTurn
  <2>2. ASSUME NEW i \in 1 .. Len(fileLock'), NEW j \in 1 .. Len(fileLock'), i < j,
               fileLock'[i].op = "drain", fileLock'[j].op = "drain"
        PROVE  fileLock'[i].drain < fileLock'[j].drain
    <3>1. i + k < j + k /\ i + k \in 1 .. Len(fileLock) /\ j + k \in 1 .. Len(fileLock)
      BY <1>2, <1>3, <2>2
    <3>2. fileLock'[i] = fileLock[i + k] /\ fileLock'[j] = fileLock[j + k]
      BY <1>2
    <3>3. DrainsInTurn
      BY DEF FileInv
    <3>4. fileLock[i + k].drain < fileLock[j + k].drain
      BY <2>2, <3>1, <3>2, <3>3 DEF DrainsInTurn
    <3>5. QED
      BY <3>2, <3>4
  <2>3. QED
    BY <2>1, <2>2 DEF DrainsInTurn
<1>8. DrainFolded'
  <2>1. DrainFolded
    BY DEF FileInv
  <2>2. drained'.label > 0 => drained' = drained
    OBVIOUS
  <2>3. \A i \in 1 .. Len(fileLock') :
           fileLock'[i] = fileLock[i + k] /\ i + k \in 1 .. Len(fileLock)
    BY <1>2, <1>3
  <2>4. QED
    BY <2>1, <2>2, <2>3 DEF DrainFolded
<1>9. DrainAwaited'
  BY <1>1 DEF FileInv, DrainAwaited, FileStates
<1>10. ReadsInTurn'
  <2>1. \A i \in 1 .. Len(fileLock') :
           fileLock'[i].op = "read" => fileLock'[i].read \in Reads \ {r}
    <3> SUFFICES ASSUME NEW i \in 1 .. Len(fileLock'), fileLock'[i].op = "read"
                 PROVE  fileLock'[i].read \in Reads \ {r}
      OBVIOUS
    <3>1. fileLock'[i] = fileLock[i + k] /\ i + k \in 1 .. Len(fileLock)
      BY <1>2, <1>3
    <3>2. fileLock[i + k].read \in Reads /\ pc[fileLock[i + k].read] = "reading"
      BY <1>1, <3>1 DEF FileInv, ReadsInTurn
    <3>3. CASE k = 0
      BY <1>2, <3>1, <3>2, <3>3
    <3>4. CASE k = 1
      <4>1. 1 \in 1 .. Len(fileLock) /\ i + k # 1
        BY <1>2, <3>1, <3>4
      <4>2. fileLock[i + k].read # r
        BY <1>2, <3>1, <3>4, <4>1 DEF FileInv, ReadsInTurn
      <4>3. QED
        BY <3>1, <3>2, <4>2
    <3>5. QED
      BY <3>3, <3>4
  <2>2. \A i \in 1 .. Len(fileLock') :
           fileLock'[i].op = "read" => pc'[fileLock'[i].read] = "reading"
    BY <1>1, <1>2, <1>3, <2>1 DEF FileInv, ReadsInTurn
  <2>3. ASSUME NEW i \in 1 .. Len(fileLock'), NEW j \in 1 .. Len(fileLock'),
               fileLock'[i].op = "read", fileLock'[j].op = "read",
               fileLock'[i].read = fileLock'[j].read
        PROVE  i = j
    <3>1. i + k \in 1 .. Len(fileLock) /\ j + k \in 1 .. Len(fileLock)
      BY <1>3
    <3>2. fileLock'[i] = fileLock[i + k] /\ fileLock'[j] = fileLock[j + k]
      BY <1>2
    <3>3. i + k = j + k
      BY <2>3, <3>1, <3>2 DEF FileInv, ReadsInTurn
    <3>4. QED
      BY <1>2, <3>3
  <2>4. QED
    BY <2>2, <2>3 DEF ReadsInTurn
<1>11. QED
  BY <1>4, <1>5, <1>6, <1>7, <1>8, <1>9, <1>10 DEF FileInv

\* The last of the queue, and those before it.
LEMMA LockAppends ==
    ASSUME TypeInv, NEW a \in AccessType, Lock(a)
    PROVE  /\ Len(fileLock) \in Nat /\ Len(fileLock') = Len(fileLock) + 1
           /\ \A i \in 1 .. Len(fileLock) : fileLock'[i] = fileLock[i]
           /\ fileLock'[Len(fileLock) + 1] = a
<1>1. fileLock \in Seq(AccessType)
  BY DEF TypeInv, TypeOK, AccessType
<1>2. QED
  BY <1>1 DEF Lock

\* A stream finds the drained entry and awaits its promise.
LEMMA LoadDrainedFile ==
    ASSUME TypeInv, FileInv, NEW r \in Reads, LoadDrained(r)
    PROVE  FileInv'
<1>1. /\ pc'[r] = "draining" /\ at'[r] = drained.label /\ file'[r] = drained.drain
      /\ \A q \in Reads \ {r} : pc'[q] = pc[q] /\ at'[q] = at[q] /\ file'[q] = file[q]
      /\ drained.label > 0
      /\ UNCHANGED <<lru, drained, drains, drainFile, fileLock, record>>
  BY DEF LoadDrained, cacheVars, fileVars, tableVars, TypeInv, TypeOK
<1>2. r \in Pending /\ "draining" \in PcValues
  BY DEF LoadDrained, Pending, Settled, PcValues, Loading
<1>3. OneStream'
  BY <1>2, StillOneStream DEF FileInv, LoadDrained
<1>4. NoCheckpointFile' /\ DrainAwaited'
  BY <1>1 DEF FileInv, NoCheckpointFile, DrainAwaited
<1>5. DrainedLast' /\ DrainsInTurn' /\ DrainFolded'
  BY <1>1 DEF FileInv, DrainedLast, DrainsInTurn, DrainFolded
<1>6. ReadsInTurn'
  <2>1. pc[r] # "reading"
    BY DEF LoadDrained
  <2>2. \A i \in 1 .. Len(fileLock) : fileLock[i].op = "read" => fileLock[i].read \in Reads \ {r}
    BY <2>1 DEF FileInv, ReadsInTurn, TypeInv, LockServesReads
  <2>3. QED
    BY <1>1, <2>2 DEF FileInv, ReadsInTurn
<1>7. QED
  BY <1>3, <1>4, <1>5, <1>6 DEF FileInv

\* The file is there, and the stream waits for its turn to read it.
LEMMA ReadDrainedFile ==
    ASSUME TypeInv, FileInv, NEW r \in Reads, ReadDrained(r)
    PROVE  FileInv'
<1> DEFINE a == Access("read", <<>>, 0, r)
           n == Len(fileLock)
<1>1. /\ pc'[r] = "reading" /\ at'[r] = at[r]
      /\ \A q \in Reads \ {r} : pc'[q] = pc[q] /\ at'[q] = at[q] /\ file'[q] = file[q]
      /\ UNCHANGED <<lru, drained, drains, drainFile, record>>
  BY DEF ReadDrained, cacheVars, fileVars, tableVars, TypeInv, TypeOK
<1>2. a \in AccessType /\ a.op = "read" /\ a.read = r
  BY DEF Access, AccessType, AccessOps, Memory
<1>3. /\ n \in Nat /\ Len(fileLock') = n + 1
      /\ \A i \in 1 .. n : fileLock'[i] = fileLock[i]
      /\ fileLock'[n + 1] = a
  BY <1>2, LockAppends DEF ReadDrained
<1> HIDE DEF a, n
<1>4. \A i \in 1 .. Len(fileLock') :
         \/ i = n + 1 /\ fileLock'[i].op = "read" /\ fileLock'[i].read = r
         \/ i \in 1 .. n /\ fileLock'[i] = fileLock[i]
  BY <1>2, <1>3
<1>5. r \in Pending /\ "reading" \in PcValues /\ pc[r] = "draining"
  BY DEF ReadDrained, Pending, Settled, PcValues, Loading
<1>6. OneStream'
  BY <1>5, StillOneStream DEF FileInv, ReadDrained
<1>7. NoCheckpointFile'
  BY <1>1, <1>4 DEF FileInv, NoCheckpointFile, n
<1>8. DrainAwaited'
  <2>1. /\ drained.label > 0 /\ at[r] = drained.label
        /\ drains[Len(drains)] = "written"
    BY <1>5 DEF FileInv, DrainAwaited, DrainedLast, ReadDrained
  <2>2. QED
    BY <1>1, <2>1 DEF FileInv, DrainAwaited
<1>9. DrainedLast' /\ DrainsInTurn' /\ DrainFolded'
  <2>1. \A i \in 1 .. Len(fileLock') :
           fileLock'[i].op = "drain" => i \in 1 .. Len(fileLock) /\ fileLock'[i] = fileLock[i]
    BY <1>4 DEF n
  <2>2. DrainedLast' /\ DrainFolded'
    BY <1>1, <2>1 DEF FileInv, DrainedLast, DrainFolded
  <2>3. DrainsInTurn'
    BY <1>1, <2>1 DEF FileInv, DrainsInTurn
  <2>4. QED
    BY <2>2, <2>3
<1>10. ReadsInTurn'
  <2>1. \A i \in 1 .. n :
           fileLock[i].op = "read" => fileLock[i].read \in Reads \ {r}
    BY <1>5 DEF FileInv, ReadsInTurn, TypeInv, LockServesReads, n
  <2>2. \A i \in 1 .. Len(fileLock') :
           fileLock'[i].op = "read" => pc'[fileLock'[i].read] = "reading"
    BY <1>1, <1>4, <2>1 DEF FileInv, ReadsInTurn, n
  <2>3. \A i, k \in 1 .. Len(fileLock') :
           fileLock'[i].op = "read" /\ fileLock'[k].op = "read"
             /\ fileLock'[i].read = fileLock'[k].read => i = k
    BY <1>4, <2>1 DEF FileInv, ReadsInTurn, n
  <2>4. QED
    BY <2>2, <2>3 DEF ReadsInTurn
<1>11. QED
  BY <1>6, <1>7, <1>8, <1>9, <1>10 DEF FileInv

\* The cached memory is evicted, at k = 1 by the failure of the first drain.
LEMMA DrainPushed ==
    ASSUME TypeInv, FileInv, lru.label > 0, lru.mem = Fold(lru.label),
           Len(drains) < MaxDrains, Drain(lru),
           UNCHANGED <<pc, at, file, record>>,
           NEW k \in {0, 1},
           k = 1 => Len(fileLock) > 0 /\ fileLock[1].op = "drain",
           Len(fileLock') = Len(fileLock) - k + 1,
           \A i \in 1 .. Len(fileLock) - k : fileLock'[i] = fileLock[i + k],
           fileLock'[Len(fileLock) - k + 1] =
               Access("drain", lru.mem, Len(drains) + 1, NoRead),
           Len(drains') = Len(drains) + 1,
           drains'[Len(drains) + 1] = "pending",
           \A j \in 1 .. Len(drains) :
              drains'[j] = drains[j] \/ (k = 1 /\ j = fileLock[1].drain)
    PROVE  FileInv'
<1> DEFINE a == Access("drain", lru.mem, Len(drains) + 1, NoRead)
           n == Len(fileLock) - k
           d == Len(drains)
<1>1. /\ d \in Nat /\ Len(fileLock) \in Nat /\ n \in Nat
      /\ lru'.label = 0 /\ drained'.label = lru.label /\ drained'.drain = d + 1
      /\ a.op = "drain" /\ a.drain = d + 1 /\ a.mem = lru.mem
  BY DEF TypeInv, TypeOK, Drain, Empty, Access
<1>12. /\ Len(fileLock') = n + 1 /\ Len(fileLock) = n + k /\ k \in Nat
       /\ fileLock'[n + 1] = a
       /\ \A i \in 1 .. n : fileLock'[i] = fileLock[i + k]
  BY <1>1
<1>2. \A i \in 1 .. Len(fileLock') :
         \/ i = n + 1 /\ fileLock'[i] = a
         \/ i \in 1 .. n /\ i + k \in 1 .. Len(fileLock) /\ fileLock'[i] = fileLock[i + k]
  <2> HIDE DEF a, n
  <2>1. \A i \in 1 .. Len(fileLock') : i = n + 1 \/ (i \in 1 .. n /\ i + k \in 1 .. n + k)
    BY <1>1, <1>12
  <2>2. QED
    BY <1>12, <2>1
<1>3. drained.label = 0
  BY DEF FileInv, DrainedLast, TypeInv, TypeOK
<1>4. \A i \in 1 .. n : fileLock[i + k].op = "drain" =>
         /\ fileLock[i + k].drain \in 1 .. d
         /\ \A j \in fileLock[i + k].drain .. d : drains'[j] = "pending"
  <2> SUFFICES ASSUME NEW i \in 1 .. n, fileLock[i + k].op = "drain"
               PROVE  /\ fileLock[i + k].drain \in 1 .. d
                      /\ \A j \in fileLock[i + k].drain .. d : drains'[j] = "pending"
    OBVIOUS
  <2>1. i + k \in 1 .. Len(fileLock) /\ (k = 1 => 1 < i + k /\ 1 \in 1 .. Len(fileLock))
    BY <1>1
  <2>2. /\ fileLock[i + k].drain \in 1 .. d
        /\ \A j \in fileLock[i + k].drain .. d : drains[j] = "pending"
    BY <2>1 DEF FileInv, DrainsInTurn
  <2>3. k = 1 => fileLock[1].drain < fileLock[i + k].drain /\ fileLock[1].drain \in 1 .. d
    BY <2>1 DEF FileInv, DrainsInTurn
  <2>4. \A j \in fileLock[i + k].drain .. d :
           j \in 1 .. d /\ (k = 1 => j # fileLock[1].drain)
    <3> DEFINE e == fileLock[i + k].drain
               f == fileLock[1].drain
    <3> HIDE DEF e, f, d
    <3>1. e \in 1 .. d /\ (k = 1 => f < e /\ f \in 1 .. d) /\ d \in Nat
      BY <1>1, <2>2, <2>3 DEF e, f
    <3>2. \A j \in e .. d : j \in 1 .. d /\ (k = 1 => j # f)
      BY <3>1
    <3>3. QED
      BY <3>2 DEF e, f
  <2>5. QED
    BY <2>2, <2>4
<1> HIDE DEF a, n, d
<1>5. NoCheckpointFile'
  <2>1. \A i \in 1 .. Len(fileLock') : fileLock'[i].op \in {"drain", "read"}
    BY <1>1, <1>2 DEF FileInv, NoCheckpointFile
  <2>2. QED
    BY <2>1 DEF FileInv, NoCheckpointFile
<1>6. OneStream' /\ DrainAwaited'
  BY <1>3 DEF FileInv, OneStream, DrainAwaited, Pending
<1>7. DrainedLast'
  BY <1>1, BoundAssumption DEF DrainedLast, d
<1>8. DrainsInTurn'
  <2>1. \A i \in 1 .. Len(fileLock') :
           fileLock'[i].op = "drain" =>
              /\ fileLock'[i].drain \in 1 .. d + 1
              /\ \A j \in fileLock'[i].drain .. d + 1 : drains'[j] = "pending"
    <3> SUFFICES ASSUME NEW i \in 1 .. Len(fileLock'), fileLock'[i].op = "drain"
                 PROVE  /\ fileLock'[i].drain \in 1 .. d + 1
                        /\ \A j \in fileLock'[i].drain .. d + 1 : drains'[j] = "pending"
      OBVIOUS
    <3>1. CASE fileLock'[i] = a
      BY <1>1, <3>1 DEF d
    <3>2. CASE i \in 1 .. n /\ fileLock'[i] = fileLock[i + k]
      <4>1. /\ fileLock'[i].drain \in 1 .. d
            /\ \A j \in fileLock'[i].drain .. d : drains'[j] = "pending"
        BY <1>4, <3>2
      <4>2. d \in Nat /\ drains'[d + 1] = "pending"
        BY <1>1 DEF d
      <4>3. PICK g : g = fileLock'[i].drain
        OBVIOUS
      <4>4. g \in 1 .. d /\ d \in Nat
        BY <4>1, <4>2, <4>3
      <4>5. g \in 1 .. d + 1 /\ \A j \in g .. d + 1 : j \in g .. d \/ j = d + 1
        BY <4>4
      <4>6. QED
        BY <4>1, <4>2, <4>3, <4>5
    <3>3. QED
      BY <1>2, <3>1, <3>2
  <2>2. ASSUME NEW i \in 1 .. Len(fileLock'), NEW j \in 1 .. Len(fileLock'), i < j,
               fileLock'[i].op = "drain", fileLock'[j].op = "drain"
        PROVE  fileLock'[i].drain < fileLock'[j].drain
    <3>1. i \in 1 .. n /\ fileLock'[i] = fileLock[i + k] /\ i + k \in 1 .. Len(fileLock)
      <4>1. i # n + 1
        BY <1>1, <1>12, <2>2
      <4>2. QED
        BY <1>2, <4>1
    <3>2. fileLock'[i].drain \in 1 .. d
      BY <1>4, <2>2, <3>1
    <3>3. CASE fileLock'[j] = a
      <4>1. fileLock'[j].drain = d + 1 /\ d \in Nat
        BY <1>1, <3>3
      <4>2. \A x \in 1 .. d : x < d + 1
        BY <4>1
      <4>3. QED
        BY <3>2, <4>1, <4>2
    <3>4. CASE j \in 1 .. n /\ fileLock'[j] = fileLock[j + k] /\ j + k \in 1 .. Len(fileLock)
      <4>1. i + k < j + k
        BY <1>1, <2>2, <3>1, <3>4
      <4>2. QED
        BY <2>2, <3>1, <3>4, <4>1 DEF FileInv, DrainsInTurn
    <3>5. QED
      BY <1>2, <3>3, <3>4
  <2>3. Len(drains') = d + 1
    BY DEF d
  <2>4. QED
    BY <2>1, <2>2, <2>3 DEF DrainsInTurn
<1>9. DrainFolded'
  <2>1. \A i \in 1 .. Len(fileLock') :
           fileLock'[i].op = "drain" /\ fileLock'[i].drain = d + 1 =>
              fileLock'[i].mem = Fold(lru.label)
    <3> SUFFICES ASSUME NEW i \in 1 .. Len(fileLock'),
                        fileLock'[i].op = "drain", fileLock'[i].drain = d + 1
                 PROVE  fileLock'[i].mem = Fold(lru.label)
      OBVIOUS
    <3>1. CASE fileLock'[i] = a
      BY <1>1, <3>1
    <3>2. CASE i \in 1 .. n /\ fileLock'[i] = fileLock[i + k]
      <4>1. d + 1 \in 1 .. d
        BY <1>4, <3>2
      <4>2. QED
        BY <1>1, <4>1
    <3>3. QED
      BY <1>2, <3>1, <3>2
  <2>2. Len(drains') = d + 1 /\ drains'[d + 1] = "pending"
    BY DEF d
  <2>3. QED
    BY <1>1, <2>1, <2>2 DEF DrainFolded
<1>10. ReadsInTurn'
  <2>1. \A i \in 1 .. Len(fileLock') : fileLock'[i].op = "read" =>
           i + k \in 1 .. Len(fileLock) /\ fileLock'[i] = fileLock[i + k]
    BY <1>1, <1>2
  <2>2. \A i, j \in 1 .. Len(fileLock') : i + k = j + k => i = j
    BY <1>1
  <2>3. \A i \in 1 .. Len(fileLock') :
           fileLock'[i].op = "read" => pc'[fileLock'[i].read] = "reading"
    BY <2>1 DEF FileInv, ReadsInTurn
  <2>4. ASSUME NEW i \in 1 .. Len(fileLock'), NEW j \in 1 .. Len(fileLock'),
               fileLock'[i].op = "read", fileLock'[j].op = "read",
               fileLock'[i].read = fileLock'[j].read
        PROVE  i = j
    <3>1. i + k = j + k
      BY <2>1, <2>4 DEF FileInv, ReadsInTurn
    <3>2. QED
      BY <2>2, <3>1
  <2>5. QED
    BY <2>3, <2>4 DEF ReadsInTurn
<1>11. QED
  BY <1>5, <1>6, <1>7, <1>8, <1>9, <1>10 DEF FileInv

\* An eviction begins a drain to a file of its own.
LEMMA EvictFile ==
    ASSUME TypeInv, MemoryInv, Evict PROVE FileInv'
<1> DEFINE a == Access("drain", lru.mem, Len(drains) + 1, NoRead)
<1>1. FileInv /\ lru.mem = Fold(lru.label) /\ UNCHANGED <<pc, at, file, record>>
  BY DEF MemoryInv, MemoriesFolded, Evict, readVars, tableVars
<1>2. a \in AccessType
  BY DEF TypeInv, TypeOK, Access, AccessType, AccessOps, Entry
<1>3. /\ Len(fileLock) \in Nat /\ Len(fileLock') = Len(fileLock) + 1
      /\ \A i \in 1 .. Len(fileLock) : fileLock'[i] = fileLock[i]
      /\ fileLock'[Len(fileLock) + 1] = a
  BY <1>2, LockAppends DEF Evict
<1>4. /\ Len(drains') = Len(drains) + 1
      /\ drains'[Len(drains) + 1] = "pending"
      /\ \A j \in 1 .. Len(drains) : drains'[j] = drains[j]
  BY DEF Evict, TypeInv, TypeOK
<1> HIDE DEF a
<1>5. /\ 0 \in {0, 1} /\ Len(fileLock') = Len(fileLock) - 0 + 1
      /\ \A i \in 1 .. Len(fileLock) - 0 : fileLock'[i] = fileLock[i + 0]
      /\ fileLock'[Len(fileLock) - 0 + 1] = a
  BY <1>3
<1>6. lru.label > 0 /\ Len(drains) < MaxDrains /\ Drain(lru)
  BY DEF Evict
<1>7. QED
  BY <1>1, <1>4, <1>5, <1>6, DrainPushed DEF a

\* The promise of a drain settles: the drain's turn is over.
LEMMA DrainSettled ==
    ASSUME TypeInv, FileInv, Holds("drain"), NEW o \in {"written", "failed"},
           drains' = [drains EXCEPT ![Head(fileLock).drain] = o],
           drainFile' = IF o = "written" THEN Head(fileLock).mem ELSE drainFile,
           Unlock,
           UNCHANGED <<pc, at, file, lru, drained, record>>
    PROVE  FileInv'
<1> DEFINE d == Len(drains)
           h == fileLock[1]
<1>1. /\ fileLock # <<>> /\ Head(fileLock) = h /\ h.op = "drain"
      /\ Len(fileLock) \in Nat \ {0} /\ Len(fileLock') = Len(fileLock) - 1
      /\ \A i \in 1 .. Len(fileLock) - 1 : fileLock'[i] = fileLock[i + 1]
  BY UnlockType DEF Holds, Unlock
<1>2. /\ d \in Nat /\ Len(drains') = d
      /\ \A j \in 1 .. d : drains'[j] = IF j = h.drain THEN o ELSE drains[j]
  <2>1. drains \in Seq({"pending", "written", "failed"}) /\ o \in {"pending", "written", "failed"}
    BY DEF TypeInv, TypeOK
  <2>2. drains' = [drains EXCEPT ![h.drain] = o]
    BY <1>1
  <2>3. QED
    BY <2>1, <2>2, SetInSeq
<1>3. /\ h.drain \in 1 .. d
      /\ \A j \in h.drain .. d : drains[j] = "pending"
  BY <1>1 DEF FileInv, DrainsInTurn
<1>4. d \in h.drain .. d /\ drains[d] = "pending"
  <2>1. d \in h.drain .. d
    BY <1>2, <1>3
  <2>2. QED
    BY <1>3, <2>1
<1>5. \A i \in 1 .. Len(fileLock') :
         /\ i \in Nat /\ i + 1 \in 1 .. Len(fileLock) /\ 1 < i + 1 /\ 1 \in 1 .. Len(fileLock)
         /\ fileLock'[i] = fileLock[i + 1]
  BY <1>1
<1>6. \A i \in 1 .. Len(fileLock') : fileLock'[i].op = "drain" =>
         h.drain < fileLock'[i].drain /\ fileLock'[i].drain \in 1 .. d
  BY <1>1, <1>5 DEF FileInv, DrainsInTurn
<1> HIDE DEF h, d
<1>7. NoCheckpointFile'
  BY <1>5 DEF FileInv, NoCheckpointFile
<1>8. OneStream' /\ DrainedLast'
  BY <1>2 DEF FileInv, OneStream, Pending, DrainedLast, d
<1>9. DrainsInTurn'
  <2>1. ASSUME NEW i \in 1 .. Len(fileLock'), fileLock'[i].op = "drain"
        PROVE  /\ fileLock'[i].drain \in 1 .. d
               /\ \A j \in fileLock'[i].drain .. d : drains'[j] = "pending"
    <3> DEFINE e == fileLock'[i].drain
    <3>1. \A j \in e .. d : drains[j] = "pending"
      BY <1>5, <2>1 DEF FileInv, DrainsInTurn, d
    <3>2. e \in 1 .. d /\ h.drain < e /\ h.drain \in 1 .. d /\ d \in Nat
      BY <1>2, <1>3, <1>6, <2>1
    <3> HIDE DEF e
    <3>3. \A j \in e .. d : j \in 1 .. d /\ j # h.drain
      BY <3>2
    <3>4. QED
      BY <1>2, <3>1, <3>2, <3>3 DEF e
  <2>2. ASSUME NEW i \in 1 .. Len(fileLock'), NEW k \in 1 .. Len(fileLock'), i < k,
               fileLock'[i].op = "drain", fileLock'[k].op = "drain"
        PROVE  fileLock'[i].drain < fileLock'[k].drain
    <3>1. i + 1 < k + 1
      BY <2>2
    <3>2. QED
      BY <1>5, <2>2, <3>1 DEF FileInv, DrainsInTurn
  <2>3. QED
    BY <1>2, <2>1, <2>2 DEF DrainsInTurn
<1>10. DrainFolded'
  <2>1. ASSUME drained.label > 0
        PROVE  \A i \in 1 .. Len(fileLock') :
                  fileLock'[i].op = "drain" /\ fileLock'[i].drain = d =>
                     fileLock'[i].mem = Fold(drained.label)
    BY <1>5, <2>1 DEF FileInv, DrainFolded, d
  <2>2. ASSUME drained.label > 0, drains'[d] = "written"
        PROVE  drainFile' = Fold(drained.label)
    <3>1. h.drain = d /\ o = "written"
      <4>1. d \in 1 .. d
        BY <1>2, <1>3
      <4>2. QED
        BY <1>2, <1>4, <2>2, <4>1
    <3>2. 1 \in 1 .. Len(fileLock)
      BY <1>1
    <3>3. h.mem = Fold(drained.label)
      BY <1>1, <2>2, <3>1, <3>2 DEF FileInv, DrainFolded, h, d
    <3>4. QED
      BY <1>1, <3>1, <3>3
  <2>3. QED
    BY <1>2, <2>1, <2>2 DEF DrainFolded
<1>11. DrainAwaited'
  <2>1. \A r \in Reads : pc[r] # "reading"
    BY <1>4 DEF FileInv, DrainAwaited, d
  <2>2. QED
    BY <2>1 DEF FileInv, DrainAwaited
<1>12. ReadsInTurn'
  <2>1. \A i \in 1 .. Len(fileLock') :
           fileLock'[i].op = "read" => pc'[fileLock'[i].read] = "reading"
    BY <1>5 DEF FileInv, ReadsInTurn
  <2>2. ASSUME NEW i \in 1 .. Len(fileLock'), NEW k \in 1 .. Len(fileLock'),
               fileLock'[i].op = "read", fileLock'[k].op = "read",
               fileLock'[i].read = fileLock'[k].read
        PROVE  i = k
    <3>1. i + 1 = k + 1
      BY <1>5, <2>2 DEF FileInv, ReadsInTurn
    <3>2. QED
      BY <3>1
  <2>3. QED
    BY <2>1, <2>2 DEF ReadsInTurn
<1>13. QED
  BY <1>7, <1>8, <1>9, <1>10, <1>11, <1>12 DEF FileInv

\* A drain writes the memory that was evicted.
LEMMA WriteDrainFile == ASSUME TypeInv, FileInv, WriteDrain PROVE FileInv'
<1>1. UNCHANGED <<pc, at, file, lru, drained, record>>
  BY DEF WriteDrain, readVars, tableVars
<1>2. QED
  BY <1>1, DrainSettled DEF WriteDrain

\* The failure of a drain evicts the cached memory, if there is one.
LEMMA FailDrainFile == ASSUME TypeInv, MemoryInv, FailDrain PROVE FileInv'
<1> DEFINE failed == [drains EXCEPT ![Head(fileLock).drain] = "failed"]
           a == Access("drain", lru.mem, Len(drains) + 1, NoRead)
<1>1. FileInv /\ lru.mem = Fold(lru.label) /\ UNCHANGED <<pc, at, file, record, drainFile>>
  BY DEF MemoryInv, MemoriesFolded, FailDrain, readVars, tableVars, fileVars
<1>2. fileLock # <<>> /\ Holds("drain")
  BY DEF FailDrain, Holds
<1>3. /\ failed \in Seq({"pending", "written", "failed"}) /\ Len(failed) = Len(drains)
      /\ \A j \in 1 .. Len(drains) :
            failed[j] = IF j = Head(fileLock).drain THEN "failed" ELSE drains[j]
  <2>1. drains \in Seq({"pending", "written", "failed"}) /\ "failed" \in {"pending", "written", "failed"}
    BY DEF TypeInv, TypeOK
  <2>2. QED
    BY <2>1, SetInSeq
<1>4. CASE /\ lru.label > 0 /\ Len(drains) < MaxDrains
           /\ Drain(lru)
           /\ drains' = Append(failed, "pending")
           /\ fileLock' = Append(Tail(fileLock), a)
  <2>1. a \in AccessType
    BY DEF TypeInv, TypeOK, Access, AccessType, AccessOps, Entry
  <2>2. /\ Tail(fileLock) \in Seq(AccessType)
        /\ Len(Tail(fileLock)) = Len(fileLock) - 1
        /\ Len(fileLock) \in Nat \ {0}
        /\ \A i \in 1 .. Len(fileLock) - 1 : Tail(fileLock)[i] = fileLock[i + 1]
        /\ Head(fileLock) = fileLock[1] /\ fileLock[1].op = "drain"
    BY <1>2, UnlockType DEF Holds
  <2> DEFINE t == Tail(fileLock)
  <2>3. fileLock' = Append(t, a)
    BY <1>4
  <2> HIDE DEF a, failed, t
  <2>4. /\ Len(fileLock') = Len(fileLock) - 1 + 1
        /\ \A i \in 1 .. Len(fileLock) - 1 : fileLock'[i] = fileLock[i + 1]
        /\ fileLock'[Len(fileLock) - 1 + 1] = a
    <3>1. /\ Len(fileLock') = Len(t) + 1 /\ fileLock'[Len(t) + 1] = a
          /\ \A i \in 1 .. Len(t) : fileLock'[i] = t[i]
      BY <2>1, <2>2, <2>3 DEF t
    <3>2. QED
      BY <2>2, <3>1 DEF t
  <2>5. /\ Len(drains') = Len(drains) + 1
        /\ drains'[Len(drains) + 1] = "pending"
        /\ \A j \in 1 .. Len(drains) : drains'[j] = failed[j]
    BY <1>3, <1>4 DEF failed
  <2>6. Len(fileLock) > 0 /\ 1 \in {0, 1}
    BY <2>2
  <2>7. \A j \in 1 .. Len(drains) :
           drains'[j] = drains[j] \/ (1 = 1 /\ j = fileLock[1].drain)
    BY <1>3, <2>2, <2>5
  <2>8. QED
    BY <1>1, <1>4, <2>2, <2>4, <2>5, <2>6, <2>7, DrainPushed DEF a
<1>5. CASE drains' = failed /\ Unlock /\ UNCHANGED <<lru, drained>>
  BY <1>1, <1>2, <1>5, DrainSettled
<1>6. QED
  BY <1>4, <1>5 DEF FailDrain

\* A restart forgets the drained files.
LEMMA CrashFile == ASSUME TypeInv, FileInv, Crash PROVE FileInv'
<1>1. /\ fileLock' = <<>> /\ drains' = <<>> /\ drained'.label = 0 /\ record' = record
      /\ \A r \in Reads : pc'[r] = "idle"
  BY DEF Crash, NoDrain, tableVars
<1>2. Len(drains') = 0 /\ \A i \in 1 .. Len(fileLock') : FALSE
  BY <1>1
<1>3. NoCheckpointFile' /\ DrainsInTurn' /\ ReadsInTurn'
  BY <1>1, <1>2 DEF FileInv, NoCheckpointFile, DrainsInTurn, ReadsInTurn
<1>4. OneStream' /\ DrainedLast' /\ DrainFolded' /\ DrainAwaited'
  BY <1>1, <1>2, BoundAssumption DEF OneStream, Pending, DrainedLast, DrainFolded, DrainAwaited
<1>5. QED
  BY <1>3, <1>4 DEF FileInv

\* What a stream does when it has found a memory, and what that does to the
\* cache: the drained entry stays or is dropped.
LEMMA ResumeStream ==
    ASSUME TypeInv, NEW r \in Reads, NEW l, NEW m, Resume(r, l, m)
    PROVE  /\ \E v \in PcValues \ FileStates : pc' = [pc EXCEPT ![r] = v]
           /\ \A q \in Reads \ {r} : at'[q] = at[q] /\ file'[q] = file[q]
<1>1. {"evaluating", "done", "failed"} \subseteq PcValues \ FileStates
  BY DEF PcValues, FileStates, Settled
<1>2. QED
  BY <1>1 DEF Resume, Settle, TypeInv, TypeOK

\* A stream that settles leaves the files of the others.
LEMMA SettleStream ==
    ASSUME TypeInv, NEW r \in Reads, NEW v \in Settled, NEW a, Settle(r, v, a)
    PROVE  /\ \E w \in PcValues \ FileStates : pc' = [pc EXCEPT ![r] = w]
           /\ \A q \in Reads \ {r} : at'[q] = at[q] /\ file'[q] = file[q]
<1>1. v \in PcValues \ FileStates
  BY DEF PcValues, FileStates, Settled
<1>2. QED
  BY <1>1 DEF Settle, TypeInv, TypeOK

\* Filling the cache starts no drain, and forgets the drained memory if it
\* changes anything.
LEMMA BackfillDrops ==
    ASSUME NEW r, NEW l, NEW m, Backfill(r, l, m) \/ Keep(l, m)
    PROVE  /\ drains' = drains
           /\ UNCHANGED <<lru, drained>> \/ drained'.label = 0
  BY DEF Backfill, Keep, NoDrain, cacheVars

\* An incoming read leaves the files as they are.
LEMMA RequestFile ==
    ASSUME TypeInv, FileInv, NEW r \in Reads, Request(r) PROVE FileInv'
<1>1. PICK t \in Messages, m \in BOOLEAN :
         \/ StartStream(r, t, m)
         \/ AnswerIncoming(r, t, m)
         \/ AnswerExact(r, t, m)
         \/ RefuseIncoming(r, t, m)
         \/ ChainStream(r, t, m)
         \/ StartBeside(r, t, m)
  BY DEF Request
<1>2. Incoming(r, t, m)
  BY <1>1 DEF StartStream, AnswerIncoming, AnswerExact, RefuseIncoming, ChainStream, StartBeside
<1>3. /\ UNCHANGED <<lru, drained, drains, drainFile, record, fileLock>>
      /\ Concurrent \/ Pending = {}
      /\ pc[r] # "reading"
  BY <1>2 DEF Incoming, cacheVars, fileVars, tableVars
<1>4. {"loading", "chained"} \subseteq PcValues \ FileStates /\ {"done", "failed"} \subseteq Settled
  BY DEF PcValues, FileStates, Loading, Settled
<1>5. /\ \E v \in PcValues \ FileStates : pc' = [pc EXCEPT ![r] = v]
      /\ \A q \in Reads \ {r} : at'[q] = at[q] /\ file'[q] = file[q]
  <2>1. CASE StartStream(r, t, m) \/ StartBeside(r, t, m)
    BY <1>4, <2>1 DEF StartStream, StartBeside, Begin
  <2>2. CASE ChainStream(r, t, m)
    BY <1>4, <2>2 DEF ChainStream
  <2>3. CASE AnswerIncoming(r, t, m) \/ AnswerExact(r, t, m) \/ RefuseIncoming(r, t, m)
    BY <1>4, <2>3, SettleStream DEF AnswerIncoming, AnswerExact, RefuseIncoming
  <2>4. QED
    BY <1>1, <2>1, <2>2, <2>3
<1>6. QED
  BY <1>3, <1>5, StreamFile

\* A step of a stream uses its own file only.
LEMMA StepFile ==
    ASSUME FileUnshared, TypeInv, FileInv, NEW r \in Reads, Step(r) \/ Upload(r)
    PROVE  FileInv'
<1>1. /\ pc[r] \notin FileStates \ {"draining", "reading"}
      /\ {"loading", "searching", "searchingArweave", "uploading"} \subseteq PcValues \ FileStates
      /\ {"done", "failed"} \subseteq Settled
      /\ FileStates \subseteq PcValues
  BY DEF FileInv, NoCheckpointFile, FileStates, PcValues, Loading, Saving, Settled
<1>2. CASE Unchain(r) \/ LoadNothing(r) \/ SkipDrained(r) \/ NoFileCheckpoint(r)
  <2>1. r \in Pending /\ pc[r] # "reading"
    BY <1>2 DEF Unchain, LoadNothing, SkipDrained, NoFileCheckpoint, Pending, Settled
  <2>2. /\ \E v \in PcValues \ FileStates : pc' = [pc EXCEPT ![r] = v]
        /\ \A q \in Reads \ {r} : at'[q] = at[q] /\ file'[q] = file[q]
        /\ UNCHANGED <<lru, drained, drains, drainFile, record, fileLock>>
    BY <1>1, <1>2 DEF Unchain, LoadNothing, SkipDrained, NoFileCheckpoint, TypeInv, TypeOK,
          cacheVars, fileVars, tableVars
  <2>3. QED
    BY <2>1, <2>2, StreamFile
<1>3. CASE FailChained(r) \/ LoadResult(r) \/ FailStream(r) \/ Checkpointed(r)
  <2>1. r \in Pending /\ pc[r] # "reading"
    BY <1>3 DEF FailChained, LoadResult, FailStream, Checkpointed, Pending, Settled
  <2>2. /\ \E v \in Settled : \E a : Settle(r, v, a)
        /\ UNCHANGED <<lru, drained, drains, drainFile, record, fileLock>>
    BY <1>1, <1>3 DEF FailChained, LoadResult, FailStream, Checkpointed,
          cacheVars, fileVars, tableVars
  <2>3. QED
    BY <2>1, <2>2, SettleStream, StreamFile
<1>4. CASE LoadCached(r) \/ ColdStart(r)
  <2>1. r \in Pending /\ pc[r] # "reading"
    BY <1>4 DEF LoadCached, ColdStart, Pending, Settled
  <2>2. /\ \E l, m : Resume(r, l, m)
        /\ UNCHANGED <<lru, drained, drains, drainFile, record, fileLock>>
    BY <1>4 DEF LoadCached, ColdStart, cacheVars, fileVars, tableVars
  <2>3. QED
    BY <2>1, <2>2, ResumeStream, StreamFile
<1>5. CASE LoadDrained(r)
  BY <1>5, LoadDrainedFile
<1>6. CASE ReadDrained(r)
  BY <1>6, ReadDrainedFile
<1>7. CASE FindArweaveCheckpoint(r)
  <2>1. r \in Pending /\ pc[r] # "reading"
    BY <1>7 DEF FindArweaveCheckpoint, Pending, Settled
  <2>2. /\ \E l, m : Backfill(r, l, m) /\ Resume(r, l, m)
        /\ UNCHANGED <<drainFile, record, fileLock>>
    BY <1>7 DEF FindArweaveCheckpoint, fileVars, tableVars
  <2>3. QED
    BY <2>1, <2>2, BackfillDrops, AloneAtFile, ResumeStream, StreamFile
<1>8. CASE Finish(r)
  <2>1. r \in Pending /\ pc[r] # "reading"
    BY <1>8 DEF Finish, Pending, Settled
  <2>2. /\ \E v \in Settled : \E a : Settle(r, v, a)
        /\ Keep(at[r], mem[r])
        /\ UNCHANGED <<drainFile, record, fileLock>>
    BY <1>1, <1>8 DEF Finish, fileVars, tableVars
  <2>3. QED
    BY <2>1, <2>2, BackfillDrops, AloneAtFile, SettleStream, StreamFile
<1>9. CASE FinishEagerly(r)
  <2>1. r \in Pending /\ pc[r] # "reading"
    BY <1>9 DEF FinishEagerly, Pending, Settled
  <2>2. /\ pc' = [pc EXCEPT ![r] = "uploading"]
        /\ Keep(at[r], mem[r])
        /\ UNCHANGED <<at, file, drainFile, record, fileLock>>
    BY <1>9 DEF FinishEagerly, FileUnshared, fileVars, tableVars
  <2>3. QED
    BY <1>1, <2>1, <2>2, BackfillDrops, AloneAtFile, StreamFile
<1>10. CASE Evaluate(r)
  <2>1. r \in Pending /\ pc[r] = "evaluating" /\ "evaluating" \in PcValues \ FileStates
    BY <1>10 DEF Evaluate, Pending, Settled, PcValues, FileStates
  <2>2. /\ pc' = [pc EXCEPT ![r] = "evaluating"]
        /\ \A q \in Reads \ {r} : at'[q] = at[q] /\ file'[q] = file[q]
        /\ UNCHANGED <<lru, drained, drains, drainFile, record, fileLock>>
    BY <1>10, <2>1 DEF Evaluate, TypeInv, TypeOK, cacheVars, fileVars
  <2>3. QED
    BY <2>1, <2>2, StreamFile
<1>11. CASE Upload(r)
  <2>1. UNCHANGED <<pc, at, file, lru, drained, drains, drainFile, record, fileLock>>
    BY <1>11 DEF Upload, readVars, cacheVars, fileVars
  <2>2. QED
    BY <2>1 DEF FileInv, NoCheckpointFile, OneStream, Pending, DrainedLast, DrainsInTurn,
          DrainFolded, DrainAwaited, ReadsInTurn
<1>12. CASE FindFileCheckpoint(r) \/ WriteRecord(r) \/ FailRecord(r)
  BY <1>12 DEF FindFileCheckpoint, WriteRecord, FailRecord, FileInv, NoCheckpointFile, TypeInv, TypeOK
<1>13. QED
  BY <1>2, <1>3, <1>4, <1>5, <1>6, <1>7, <1>8, <1>9, <1>10, <1>11, <1>12 DEF Step

\* Whoever holds the lock is a drain, or the one stream that reads.
LEMMA UseFileFile ==
    ASSUME FileUnshared, TypeInv, MemoryInv, UseFile PROVE FileInv'
<1> DEFINE h == Head(fileLock)
<1>1. FileInv
  BY DEF MemoryInv
<1>2. /\ fileLock # <<>> /\ h = fileLock[1] /\ 1 \in 1 .. Len(fileLock)
  <2>1. fileLock # <<>>
    BY DEF UseFile, WriteDrain, FailDrain, ReadFile, FailRead, WriteCheckpoint, FailCheckpoint, Holds
  <2>2. QED
    BY <2>1, UnlockType
<1>3. h.op \in {"drain", "read"}
  BY <1>1, <1>2 DEF FileInv, NoCheckpointFile
<1>4. CASE WriteDrain
  BY <1>1, <1>4, WriteDrainFile
<1>5. CASE FailDrain
  BY <1>5, FailDrainFile
<1>6. CASE ReadFile \/ FailRead
  <2>1. h.op = "read" /\ h.read \in Reads /\ pc[h.read] = "reading"
    <3>1. h.op = "read"
      BY <1>3, <1>6 DEF ReadFile, FailRead, Holds
    <3>2. QED
      BY <1>1, <1>2, <3>1 DEF FileInv, ReadsInTurn, TypeInv, LockServesReads
  <2>2. h.read \in Pending
    BY <2>1 DEF Pending, Settled
  <2>3. /\ \E v \in PcValues \ FileStates : pc' = [pc EXCEPT ![h.read] = v]
        /\ \A q \in Reads \ {h.read} : at'[q] = at[q] /\ file'[q] = file[q]
    <3>1. CASE ReadFile
      BY <2>1, <3>1, ResumeStream DEF ReadFile
    <3>2. CASE FailRead
      <4>1. {"searching", "searchingArweave"} \subseteq PcValues \ FileStates
        BY DEF PcValues, FileStates, Loading
      <4>2. QED
        BY <2>1, <3>2, <4>1 DEF FailRead, TypeInv, TypeOK
    <3>3. QED
      BY <1>6, <3>1, <3>2
  <2>4. /\ Unlock /\ UNCHANGED <<drainFile, record>>
        /\ drains' = drains
        /\ UNCHANGED <<lru, drained>> \/ drained'.label = 0
    BY <1>6, BackfillDrops DEF ReadFile, FailRead, cacheVars, fileVars, tableVars
  <2>5. QED
    BY <1>1, <1>2, <2>1, <2>2, <2>3, <2>4, AloneAtFile, StreamFile
<1>7. QED
  BY <1>3, <1>4, <1>5, <1>6 DEF UseFile, WriteCheckpoint, FailCheckpoint, Holds

\* No memory of none, and one message more.
LEMMA FoldMore ==
    /\ Fold(0) = <<>>
    /\ \A n \in Nat : Append(Fold(n), n + 1) = Fold(n + 1)
<1>1. Fold(0) = <<>>
  BY DEF Fold
<1>2. ASSUME NEW n \in Nat PROVE Append(Fold(n), n + 1) = Fold(n + 1)
  <2>1. Fold(n) \in Seq(Nat) /\ Len(Fold(n)) = n
    BY DEF Fold
  <2>2. /\ Append(Fold(n), n + 1) \in Seq(Nat) /\ Len(Append(Fold(n), n + 1)) = n + 1
        /\ \A i \in 1 .. n + 1 :
              Append(Fold(n), n + 1)[i] = IF i = n + 1 THEN n + 1 ELSE Fold(n)[i]
    BY <2>1
  <2>3. Fold(n + 1) \in Seq(Nat) /\ Len(Fold(n + 1)) = n + 1
    BY DEF Fold
  <2>4. \A i \in 1 .. n + 1 : Append(Fold(n), n + 1)[i] = Fold(n + 1)[i]
    BY <2>2 DEF Fold
  <2>5. QED
    BY <2>2, <2>3, <2>4, SeqEqual
<1>3. QED
  BY <1>1, <1>2

\* What a stream's step owes of its own memory and answer, when the cache, the
\* checkpoints and the results stay folded.
LEMMA StreamFolded ==
    ASSUME TypeInv, MemoriesFolded, StreamsUnanswered, NEW r \in Reads,
           \A q \in Reads \ {r} :
              /\ pc'[q] = pc[q] /\ target'[q] = target[q] /\ at'[q] = at[q]
              /\ mem'[q] = mem[q] /\ answer'[q] = answer[q],
           lru'.mem = Fold(lru'.label),
           \A c \in uploaded' : c.mem = Fold(c.label),
           \A n \in Messages : results'[n] \in {Nothing, Fold(n)},
           pc'[r] \in Saving \cup {"evaluating"} => mem'[r] = Fold(at'[r]),
           pc'[r] \in Saving => at'[r] = target'[r],
           pc'[r] \notin Settled => answer'[r] = Nothing,
           answer'[r] \in {Nothing, Fold(target'[r])}
    PROVE  MemoriesFolded' /\ StreamsUnanswered'
<1>1. MemoriesFolded'
  BY DEF MemoriesFolded
<1>2. StreamsUnanswered'
  BY DEF StreamsUnanswered
<1>3. QED
  BY <1>1, <1>2

\* The cache keeps a folded memory under its label.
LEMMA KeepFolded ==
    ASSUME lru.mem = Fold(lru.label), NEW r, NEW l, Backfill(r, l, Fold(l)) \/ Keep(l, Fold(l))
    PROVE  lru'.mem = Fold(lru'.label)
  BY DEF Backfill, Keep, cacheVars

\* A stream that settles, or that resumes from a folded memory.
LEMMA SettleFolded ==
    ASSUME TypeInv, MemoriesFolded, StreamsUnanswered, NEW r \in Reads,
           NEW o \in Settled, NEW a \in {Nothing, Fold(target'[r])}, Settle(r, o, a),
           \A q \in Reads \ {r} : target'[q] = target[q],
           lru'.mem = Fold(lru'.label),
           UNCHANGED <<uploaded, results>>
    PROVE  MemoriesFolded' /\ StreamsUnanswered'
<1>1. /\ pc'[r] = o /\ answer'[r] = a /\ pc'[r] \notin Saving \cup {"evaluating"}
      /\ \A q \in Reads \ {r} :
            pc'[q] = pc[q] /\ at'[q] = at[q] /\ mem'[q] = mem[q] /\ answer'[q] = answer[q]
  BY DEF Settle, TypeInv, TypeOK, Settled, Saving
<1>2. /\ \A c \in uploaded' : c.mem = Fold(c.label)
      /\ \A n \in Messages : results'[n] \in {Nothing, Fold(n)}
  BY DEF MemoriesFolded
<1>3. QED
  BY <1>1, <1>2, StreamFolded

\* A stream goes on from a folded memory.
LEMMA ResumeFolded ==
    ASSUME TypeInv, MemoriesFolded, StreamsUnanswered, NEW r \in Pending, NEW l \in 0 .. MaxNonce,
           Resume(r, l, Fold(l)),
           lru'.mem = Fold(lru'.label),
           UNCHANGED <<target, uploaded, results>>
    PROVE  MemoriesFolded' /\ StreamsUnanswered'
<1>1. r \in Reads /\ {"done", "failed"} \subseteq Settled
  BY DEF Pending, Settled
<1>2. CASE Settle(r, "failed", Nothing)
  BY <1>1, <1>2, SettleFolded
<1>3. CASE l = target[r] /\ Settle(r, "done", IF needsMemory[r] THEN Fold(l) ELSE Nothing)
  BY <1>1, <1>3, SettleFolded
<1>4. CASE /\ pc' = [pc EXCEPT ![r] = "evaluating"]
           /\ at' = [at EXCEPT ![r] = l]
           /\ mem' = [mem EXCEPT ![r] = Fold(l)]
           /\ UNCHANGED answer
  <2>1. /\ pc'[r] = "evaluating" /\ at'[r] = l /\ mem'[r] = Fold(l)
        /\ \A q \in Reads \ {r} : pc'[q] = pc[q] /\ at'[q] = at[q] /\ mem'[q] = mem[q]
    BY <1>1, <1>4 DEF TypeInv, TypeOK
  <2>2. answer'[r] = Nothing
    BY <1>4 DEF StreamsUnanswered, Pending
  <2>3. pc'[r] \notin Saving
    BY <2>1 DEF Saving
  <2>4. /\ \A c \in uploaded' : c.mem = Fold(c.label)
        /\ \A n \in Messages : results'[n] \in {Nothing, Fold(n)}
    BY DEF MemoriesFolded
  <2>5. QED
    BY <1>1, <1>4, <2>1, <2>2, <2>3, <2>4, StreamFolded
<1>5. QED
  BY <1>2, <1>3, <1>4 DEF Resume

\* An incoming read keeps the memories folded.
LEMMA RequestFolded ==
    ASSUME TypeInv, MemoriesFolded, StreamsUnanswered, NEW r \in Reads, Request(r)
    PROVE  MemoriesFolded' /\ StreamsUnanswered'
<1>1. PICK t \in Messages, m \in BOOLEAN :
         \/ StartStream(r, t, m)
         \/ AnswerIncoming(r, t, m)
         \/ AnswerExact(r, t, m)
         \/ RefuseIncoming(r, t, m)
         \/ ChainStream(r, t, m)
         \/ StartBeside(r, t, m)
  BY DEF Request
<1>2. Incoming(r, t, m)
  BY <1>1 DEF StartStream, AnswerIncoming, AnswerExact, RefuseIncoming, ChainStream, StartBeside
<1>3. /\ target'[r] = t /\ \A q \in Reads \ {r} : target'[q] = target[q]
      /\ UNCHANGED <<lru, uploaded, results>>
      /\ pc[r] = "idle" /\ answer[r] = Nothing
      /\ lru'.mem = Fold(lru'.label)
      /\ results[t] \in {Nothing, Fold(t)}
  BY <1>2 DEF Incoming, cacheVars, tableVars, TypeInv, TypeOK, StreamsUnanswered, Settled,
        MemoriesFolded
<1>4. CASE StartStream(r, t, m) \/ StartBeside(r, t, m) \/ ChainStream(r, t, m)
  <2>1. /\ pc'[r] \in {"loading", "chained"}
        /\ \A q \in Reads \ {r} : pc'[q] = pc[q]
        /\ UNCHANGED <<at, mem, answer>>
    BY <1>4 DEF StartStream, StartBeside, ChainStream, Begin, TypeInv, TypeOK
  <2>2. pc'[r] \notin Saving \cup {"evaluating"} \cup Settled
    BY <2>1 DEF Saving, Settled
  <2>3. /\ \A c \in uploaded' : c.mem = Fold(c.label)
        /\ \A n \in Messages : results'[n] \in {Nothing, Fold(n)}
    BY <1>3 DEF MemoriesFolded
  <2>4. QED
    BY <1>3, <2>1, <2>2, <2>3, StreamFolded
<1>5. CASE AnswerIncoming(r, t, m) \/ AnswerExact(r, t, m) \/ RefuseIncoming(r, t, m)
  <2>1. \E o \in Settled, a \in {Nothing, Fold(target'[r])} : Settle(r, o, a)
    BY <1>3, <1>5 DEF AnswerIncoming, AnswerExact, RefuseIncoming, Settled
  <2>2. QED
    BY <1>3, <2>1, SettleFolded
<1>6. QED
  BY <1>1, <1>4, <1>5

\* A step of a stream keeps the memories folded.
LEMMA StepFolded ==
    ASSUME FileUnshared, TypeInv, MemoryInv, NEW r \in Reads, Step(r) \/ Upload(r)
    PROVE  MemoriesFolded' /\ StreamsUnanswered'
<1>1. /\ MemoriesFolded /\ StreamsUnanswered
      /\ lru.mem = Fold(lru.label)
      /\ \A c \in uploaded : c.mem = Fold(c.label)
      /\ \A n \in Messages : results[n] \in {Nothing, Fold(n)}
      /\ target[r] \in Messages /\ results[target[r]] \in {Nothing, Fold(target[r])}
      /\ pc[r] \in Saving \cup {"evaluating"} => mem[r] = Fold(at[r])
      /\ {"done", "failed"} \subseteq Settled
  BY DEF MemoryInv, MemoriesFolded, TypeInv, TypeOK, Settled
<1>2. CASE Unchain(r) \/ LoadDrained(r) \/ LoadNothing(r) \/ ReadDrained(r) \/ SkipDrained(r)
           \/ FindFileCheckpoint(r) \/ NoFileCheckpoint(r)
  <2>1. /\ pc[r] \notin Settled /\ pc'[r] \in Loading
        /\ \A q \in Reads \ {r} : pc'[q] = pc[q] /\ at'[q] = at[q]
        /\ UNCHANGED <<target, mem, answer, lru, uploaded, results>>
    BY <1>2 DEF Unchain, LoadDrained, LoadNothing, ReadDrained, SkipDrained, FindFileCheckpoint,
          NoFileCheckpoint, TypeInv, TypeOK, Loading, Settled, cacheVars, tableVars
  <2>2. pc'[r] \notin Saving \cup {"evaluating"} \cup Settled /\ answer[r] = Nothing
    BY <1>1, <2>1 DEF Loading, Saving, Settled, StreamsUnanswered
  <2>3. QED
    BY <1>1, <2>1, <2>2, StreamFolded
<1>3. CASE FailChained(r) \/ LoadResult(r) \/ FailStream(r)
  <2>1. /\ \E o \in Settled, a \in {Nothing, Fold(target'[r])} : Settle(r, o, a)
        /\ UNCHANGED <<target, lru, uploaded, results>>
    BY <1>1, <1>3 DEF FailChained, LoadResult, FailStream, cacheVars, tableVars
  <2>2. QED
    BY <1>1, <2>1, SettleFolded
<1>4. CASE Checkpointed(r)
  <2>1. /\ Settle(r, "done", mem[r]) /\ UNCHANGED <<target, lru, uploaded, results>>
    BY <1>4 DEF Checkpointed, cacheVars, tableVars
  <2>2. mem[r] = Fold(target[r])
    BY <1>1, <1>4 DEF Checkpointed, Saving, StreamsUnanswered
  <2>3. QED
    BY <1>1, <2>1, <2>2, SettleFolded
<1>5. CASE LoadCached(r) \/ ColdStart(r)
  <2>1. r \in Pending /\ UNCHANGED <<target, lru, uploaded, results>>
    BY <1>5 DEF LoadCached, ColdStart, Pending, Settled, cacheVars, tableVars
  <2>2. \E l \in 0 .. MaxNonce : Resume(r, l, Fold(l))
    <3>1. CASE LoadCached(r)
      BY <1>1, <3>1 DEF LoadCached, TypeInv, TypeOK, Entry
    <3>2. CASE ColdStart(r)
      BY <3>2, FoldMore, BoundAssumption DEF ColdStart
    <3>3. QED
      BY <1>5, <3>1, <3>2
  <2>3. QED
    BY <1>1, <2>1, <2>2, ResumeFolded
<1>6. CASE FindArweaveCheckpoint(r)
  <2>1. PICK c \in uploaded : Backfill(r, c.label, c.mem) /\ Resume(r, c.label, c.mem)
    BY <1>6 DEF FindArweaveCheckpoint
  <2>2. c.label \in 0 .. MaxNonce /\ c.mem = Fold(c.label)
    BY <1>1, <2>1 DEF TypeInv, TypeOK, Entry
  <2>3. r \in Pending /\ UNCHANGED <<target, uploaded, results>>
    BY <1>6 DEF FindArweaveCheckpoint, Pending, Settled, tableVars
  <2>4. lru'.mem = Fold(lru'.label)
    BY <1>1, <2>1, <2>2, KeepFolded
  <2>5. QED
    BY <1>1, <2>1, <2>2, <2>3, <2>4, ResumeFolded
<1>7. CASE Evaluate(r)
  <2> DEFINE n == at[r] + 1
  <2>1. /\ at[r] \in Nat /\ n \in Messages /\ mem[r] = Fold(at[r])
        /\ target[r] \in 1 .. MaxNonce
    BY <1>1, <1>7, BoundAssumption DEF Evaluate, FoldsMore, Messages, TypeInv, TypeOK
  <2>2. Append(mem[r], n) = Fold(n)
    BY <2>1, FoldMore
  <2>3. /\ at' = [at EXCEPT ![r] = n] /\ mem' = [mem EXCEPT ![r] = Fold(n)]
        /\ StoreResult(n, Fold(n)) \/ UNCHANGED results
        /\ UNCHANGED <<pc, target, answer, lru, uploaded>>
    BY <1>7, <2>2 DEF Evaluate, FoldNext, cacheVars
  <2>4. \A k \in Messages : results'[k] \in {Nothing, Fold(k)}
    <3>1. results \in [Messages -> Memory]
      BY DEF TypeInv, TypeOK
    <3>2. QED
      BY <1>1, <2>1, <2>3, <3>1 DEF StoreResult
  <2>5. pc[r] = "evaluating" /\ pc[r] \notin Saving \cup Settled /\ answer[r] = Nothing
    BY <1>1, <1>7 DEF Evaluate, Saving, Settled, StreamsUnanswered
  <2>6. /\ at'[r] = n /\ mem'[r] = Fold(n)
        /\ \A q \in Reads \ {r} : at'[q] = at[q] /\ mem'[q] = mem[q]
    BY <2>3 DEF TypeInv, TypeOK
  <2>7. QED
    BY <1>1, <2>3, <2>4, <2>5, <2>6, StreamFolded
<1>8. CASE Finish(r)
  <2>1. mem[r] = Fold(at[r]) /\ at[r] = target[r]
    BY <1>1, <1>8 DEF Finish
  <2>2. /\ Keep(at[r], mem[r]) /\ Settle(r, "done", mem[r])
        /\ UNCHANGED <<target, uploaded, results>>
    BY <1>8 DEF Finish, tableVars
  <2>3. lru'.mem = Fold(lru'.label)
    BY <1>1, <2>1, <2>2, KeepFolded
  <2>4. QED
    BY <1>1, <2>1, <2>2, <2>3, SettleFolded
<1>9. CASE FinishEagerly(r)
  <2>1. mem[r] = Fold(at[r]) /\ at[r] = target[r] /\ answer[r] = Nothing
    BY <1>1, <1>9 DEF FinishEagerly, StreamsUnanswered, Settled
  <2>2. /\ Keep(at[r], mem[r])
        /\ pc'[r] \in Saving /\ \A q \in Reads \ {r} : pc'[q] = pc[q]
        /\ UNCHANGED <<target, at, mem, answer, uploaded, results>>
    BY <1>9 DEF FinishEagerly, Saving, tableVars, TypeInv, TypeOK
  <2>3. lru'.mem = Fold(lru'.label)
    BY <1>1, <2>1, <2>2, KeepFolded
  <2>4. QED
    BY <1>1, <2>1, <2>2, <2>3, StreamFolded
<1>10. CASE WriteRecord(r) \/ FailRecord(r)
  BY <1>10 DEF WriteRecord, FailRecord, MemoryInv, FileInv, NoCheckpointFile
<1>11. CASE Upload(r)
  <2>1. /\ uploaded' = uploaded \cup {[label |-> at[r], mem |-> mem[r]]}
        /\ mem[r] = Fold(at[r])
        /\ UNCHANGED <<pc, target, at, mem, answer, lru, results>>
    BY <1>1, <1>11 DEF Upload, readVars, cacheVars
  <2>2. \A c \in uploaded' : c.mem = Fold(c.label)
    BY <1>1, <2>1
  <2>3. MemoriesFolded'
    BY <1>1, <2>1, <2>2 DEF MemoriesFolded
  <2>4. StreamsUnanswered'
    BY <1>1, <2>1 DEF StreamsUnanswered
  <2>5. QED
    BY <2>3, <2>4
<1>12. QED
  BY <1>2, <1>3, <1>4, <1>5, <1>6, <1>7, <1>8, <1>9, <1>10, <1>11 DEF Step

\* The file a stream reads holds the memory of the label it was found under.
LEMMA UseFileFolded ==
    ASSUME TypeInv, MemoryInv, UseFile
    PROVE  MemoriesFolded' /\ StreamsUnanswered'
<1> DEFINE h == Head(fileLock)
<1>1. MemoriesFolded /\ StreamsUnanswered /\ FileInv /\ lru.mem = Fold(lru.label)
  BY DEF MemoryInv, MemoriesFolded
<1>2. fileLock # <<>>
  BY DEF UseFile, WriteDrain, FailDrain, ReadFile, FailRead, WriteCheckpoint, FailCheckpoint, Holds
<1>3. h = fileLock[1] /\ 1 \in 1 .. Len(fileLock)
  BY <1>2, UnlockType
<1>4. h.op \in {"drain", "read"}
  BY <1>1, <1>3 DEF FileInv, NoCheckpointFile
<1>5. CASE WriteDrain \/ FailDrain
  <2>1. UNCHANGED <<pc, target, at, mem, answer, uploaded, results>>
    BY <1>5 DEF WriteDrain, FailDrain, readVars, tableVars
  <2>2. lru'.mem = Fold(lru'.label)
    <3>1. lru' = lru \/ lru' = Empty
      BY <1>5 DEF WriteDrain, FailDrain, Drain
    <3>2. Empty.mem = Fold(Empty.label)
      BY FoldMore DEF Empty
    <3>3. QED
      BY <1>1, <3>1, <3>2
  <2>3. QED
    BY <1>1, <2>1, <2>2 DEF MemoriesFolded, StreamsUnanswered
<1>6. ASSUME h.op = "read" PROVE h.read \in Reads /\ pc[h.read] = "reading" /\ h.read \in Pending
  <2>1. h.read \in Reads /\ pc[h.read] = "reading"
    BY <1>1, <1>3, <1>6 DEF FileInv, ReadsInTurn, TypeInv, LockServesReads
  <2>2. QED
    BY <2>1 DEF Pending, Settled
<1>7. CASE ReadFile
  <2>1. h.op = "read" /\ Holds("read")
    BY <1>4, <1>7 DEF ReadFile, Holds
  <2>2. h.read \in Reads /\ pc[h.read] = "reading" /\ h.read \in Pending
    BY <1>6, <2>1
  <2>3. drainFile = Fold(at[h.read]) /\ at[h.read] \in 0 .. MaxNonce
    BY <1>1, <2>2 DEF FileInv, DrainAwaited, DrainFolded, TypeInv, TypeOK
  <2>4. /\ Backfill(h.read, at[h.read], Fold(at[h.read]))
        /\ Resume(h.read, at[h.read], Fold(at[h.read]))
        /\ UNCHANGED <<target, uploaded, results>>
    BY <1>7, <2>1, <2>3 DEF ReadFile, tableVars
  <2>5. lru'.mem = Fold(lru'.label)
    BY <1>1, <2>4, KeepFolded
  <2>6. QED
    BY <1>1, <2>2, <2>3, <2>4, <2>5, ResumeFolded
<1>8. CASE FailRead
  <2>1. h.read \in Reads /\ pc[h.read] = "reading" /\ h.read \in Pending
    BY <1>4, <1>6, <1>8 DEF FailRead, Holds
  <2>2. /\ pc'[h.read] \in {"searching", "searchingArweave"}
        /\ \A q \in Reads \ {h.read} : pc'[q] = pc[q] /\ at'[q] = at[q]
        /\ UNCHANGED <<target, mem, answer, lru, uploaded, results>>
    BY <1>8, <2>1 DEF FailRead, cacheVars, tableVars, TypeInv, TypeOK
  <2>3. /\ pc'[h.read] \notin Saving \cup {"evaluating"} \cup Settled
        /\ answer[h.read] = Nothing
    BY <1>1, <2>1, <2>2 DEF Saving, Settled, StreamsUnanswered
  <2>4. /\ \A c \in uploaded' : c.mem = Fold(c.label)
        /\ \A n \in Messages : results'[n] \in {Nothing, Fold(n)}
    BY <1>1, <2>2 DEF MemoriesFolded
  <2>5. QED
    BY <1>1, <2>1, <2>2, <2>3, <2>4, StreamFolded
<1>9. QED
  BY <1>4, <1>5, <1>7, <1>8 DEF UseFile, WriteCheckpoint, FailCheckpoint, Holds

\* Every step keeps the memories folded.
LEMMA MemoryNext ==
    ASSUME FileUnshared, TypeInv, MemoryInv, [Next]_vars PROVE MemoryInv'
<1>1. MemoriesFolded /\ StreamsUnanswered /\ FileInv
  BY DEF MemoryInv
<1>2. ASSUME NEW r \in Reads, Request(r) PROVE MemoryInv'
  BY <1>1, <1>2, RequestFolded, RequestFile DEF MemoryInv
<1>3. ASSUME NEW r \in Reads, Step(r) \/ Upload(r) PROVE MemoryInv'
  BY <1>1, <1>3, StepFolded, StepFile DEF MemoryInv
<1>4. CASE UseFile
  BY <1>4, UseFileFolded, UseFileFile DEF MemoryInv
<1>5. CASE Evict
  <2>1. UNCHANGED <<pc, target, at, mem, answer, uploaded, results>>
    BY <1>5 DEF Evict, readVars, tableVars
  <2>2. lru'.mem = Fold(lru'.label)
    BY <1>5, FoldMore DEF Evict, Drain, Empty
  <2>3. MemoriesFolded' /\ StreamsUnanswered'
    BY <1>1, <2>1, <2>2 DEF MemoriesFolded, StreamsUnanswered
  <2>4. QED
    BY <1>5, <2>3, EvictFile DEF MemoryInv
<1>6. CASE Crash
  <2>1. /\ \A r \in Reads : pc'[r] = "idle" /\ answer'[r] = Nothing
        /\ UNCHANGED <<uploaded, results>>
        /\ lru'.mem = Fold(lru'.label)
    BY <1>6, FoldMore DEF Crash, Empty, tableVars
  <2>2. MemoriesFolded' /\ StreamsUnanswered'
    BY <1>1, <2>1 DEF MemoriesFolded, StreamsUnanswered, Saving
  <2>3. QED
    BY <1>1, <1>6, <2>2, CrashFile DEF MemoryInv
<1>7. CASE UNCHANGED vars
  BY <1>1, <1>7 DEF vars, readVars, cacheVars, fileVars, tableVars, MemoryInv, MemoriesFolded,
        StreamsUnanswered, FileInv, NoCheckpointFile, OneStream, Pending, DrainedLast,
        DrainsInTurn, DrainFolded, DrainAwaited, ReadsInTurn
<1>8. QED
  BY <1>2, <1>3, <1>4, <1>5, <1>6, <1>7 DEF Next

\* With no checkpoint files, and if no memory is evicted while several streams
\* run: wherever the CU keeps or uses a memory under a message's label, every
\* message up to that one was folded into it, once and in order.
THEOREM MemoriesAreFolded ==
    ASSUME FileUnshared PROVE Spec => []MemoriesFolded
<1>1. Init => TypeInv /\ MemoryInv
  BY TypeInit, MemoryInit
<1>2. TypeInv /\ MemoryInv /\ [Next]_vars => (TypeInv /\ MemoryInv)'
  BY TypeNext, MemoryNext
<1>3. MemoryInv => MemoriesFolded
  BY DEF MemoryInv
<1>4. QED
  BY <1>1, <1>2, <1>3, PTL DEF Spec

=============================================================================
