-------------------------- MODULE SuSchedulerProofs --------------------------
(***************************************************************************)
(* Theorems about SuScheduler, for every set of handlers, processes, items *)
(* and requests.                                                           *)
(***************************************************************************)
EXTENDS SuScheduler, NaturalsInduction, WellFoundedInduction, TLAPS

\* What the proofs need of the constants.
LEMMA Constants ==
    /\ Requests \subseteq Request
    /\ NoRequest \in Requests
    /\ \A r \in Requests : r.kind = "Process" => r.item = r.pid
    /\ \A i \in Items : DeepHash[i] \in Hashes
    /\ NoWorker \notin Workers
<1>1. NoRequest \in Requests  BY RequestAssumption DEF NoRequest
<1> QED  BY <1>1, RequestAssumption, HashAssumption, WorkerAssumption

\* The successor of a known slot or cache entry is a nonce and a chain.
LEMMA SuccessorType ==
    ASSUME TypeOK, NEW p \in Pids
    PROVE  \A s \in Successors(p) : s.nonce \in Nat /\ s.chain \in Seq(Nat)
<1> SUFFICES ASSUME NEW s \in Successors(p)
             PROVE  s.nonce \in Nat /\ s.chain \in Seq(Nat)
    OBVIOUS
<1>1. \A r \in Row \cup Info : /\ Following(r).nonce \in Nat
                              /\ Following(r).chain \in Seq(Nat)
  BY DEF Row, Info, Following
<1>2. cache[p] \in Info /\ MessageRows(p) \subseteq Row
                      /\ ProcessRows(p, ReadRows) \subseteq Row
  BY DEF TypeOK, MessageRows, ProcessRows, ReadRows
<1>3. Opening.nonce \in Nat /\ Opening.chain \in Seq(Nat)
  BY DEF Opening
<1> QED  BY <1>1, <1>2, <1>3 DEF Successors, LatestMessages

-----------------------------------------------------------------------------

\* Every variable starts with its type.
LEMMA TypeInit == Init => TypeOK
  BY Constants DEF Init, TypeOK, NoNext, NoInfo, ScheduleInfo, Info

\* Dropping the guard keeps the types of the handler's state and the lock.
LEMMA ReturnType ==
    ASSUME TypeOK, NEW w \in Workers, Return(w)
    PROVE  /\ pc' \in [Workers -> Held \cup {"idle", "waiting"}]
           /\ req' \in [Workers -> Request]
           /\ next' \in [Workers -> ScheduleInfo]
           /\ aid' \in [Workers -> Nat]
           /\ lock' \in [Pids -> Workers \cup {NoWorker}]
<1>1. NoNext \in ScheduleInfo  BY DEF NoNext, ScheduleInfo
<1> QED  BY <1>1, Constants DEF Return, TypeOK

\* The row a handler would insert is a row.
LEMMA NewRowType ==
    ASSUME TypeOK, NEW w \in Workers
    PROVE  NewRow(w) \in Row
  BY DEF NewRow, Row, TypeOK, Request, ScheduleInfo

\* Every step keeps the types.
LEMMA TypeNext == TypeOK /\ [Next]_vars => TypeOK'
<1> SUFFICES ASSUME TypeOK, [Next]_vars PROVE TypeOK'  OBVIOUS
<1> USE DEF requestVars, memoryVars, storeVars, historyVars
<1>1. ASSUME NEW w \in Workers, NEW r \in Requests, Receive(w, r) PROVE TypeOK'
  BY <1>1, Constants DEF Receive, TypeOK
<1>2. ASSUME NEW w \in Workers, AcquireLock(w) PROVE TypeOK'
  BY <1>2 DEF AcquireLock, TypeOK, Held
<1>3. ASSUME NEW w \in Workers, CheckExistingMessage(w) PROVE TypeOK'
  BY <1>3 DEF CheckExistingMessage, TypeOK, Held
<1>4. ASSUME NEW w \in Workers, RejectExistingMessage(w) PROVE TypeOK'
  BY <1>4, ReturnType DEF RejectExistingMessage, TypeOK
<1>5. ASSUME NEW w \in Workers, Increment(w) PROVE TypeOK'
  <2>1. Target(w) \in Pids  BY DEF Target, TypeOK, Request
  <2>2. PICK s \in Successors(Target(w)), t \in Now :
           next' = [next EXCEPT ![w] =
                      [nonce |-> s.nonce, chain |-> s.chain, ts |-> t]]
    BY <1>5 DEF Increment
  <2>3. s.nonce \in Nat /\ s.chain \in Seq(Nat)  BY <2>1, SuccessorType
  <2>4. t \in Nat  BY DEF Now, TypeOK
  <2>5. next' \in [Workers -> ScheduleInfo]
    BY <2>2, <2>3, <2>4 DEF TypeOK, ScheduleInfo
  <2> QED  BY <1>5, <2>5 DEF Increment, TypeOK, Held
<1>6. ASSUME NEW w \in Workers, SaveProcess(w) PROVE TypeOK'
  BY <1>6, NewRowType DEF SaveProcess, InsertProcess, TypeOK, Held
<1>7. ASSUME NEW w \in Workers, SaveProcessNoAssign(w) PROVE TypeOK'
  BY <1>7, NewRowType, ReturnType DEF SaveProcessNoAssign, InsertProcess, TypeOK
<1>8. ASSUME NEW w \in Workers, RejectDeepHash(w) PROVE TypeOK'
  <2>1. ContentKey(req[w]) \in Pids \X Hashes
    BY Constants DEF ContentKey, TypeOK, Request
  <2> QED  BY <1>8, <2>1, ReturnType DEF RejectDeepHash, TypeOK
<1>9. ASSUME NEW w \in Workers, SaveToBytestore(w) PROVE TypeOK'
  <2>1. ContentKey(req[w]) \in Pids \X Hashes
    BY Constants DEF ContentKey, TypeOK, Request
  <2> QED  BY <1>9, <2>1 DEF SaveToBytestore, TypeOK, Held
<1>10. ASSUME NEW w \in Workers, InsertMessage(w) PROVE TypeOK'
  BY <1>10, NewRowType DEF InsertMessage, TypeOK, Held
<1>11. ASSUME NEW w \in Workers, InsertFails(w) PROVE TypeOK'
  BY <1>11, ReturnType DEF InsertFails, TypeOK
<1>12. ASSUME NEW w \in Workers, Commit(w) PROVE TypeOK'
  <2>1. Target(w) \in Pids  BY DEF Target, TypeOK, Request
  <2> QED  BY <1>12, <2>1, ReturnType DEF Commit, TypeOK, Info, ScheduleInfo
<1>13. ASSUME NEW w \in Workers, Fail(w) PROVE TypeOK'
  BY <1>13, ReturnType DEF Fail, TypeOK
<1>14. ASSUME Crash PROVE TypeOK'
  BY <1>14, Constants DEF Crash, TypeOK, NoNext, NoInfo, ScheduleInfo, Info
<1>15. ASSUME Replicate PROVE TypeOK'
  BY <1>15 DEF Replicate, TypeOK
<1>16. CASE UNCHANGED vars
  BY <1>16 DEF vars, TypeOK
<1> QED
  BY <1>1, <1>2, <1>3, <1>4, <1>5, <1>6, <1>7, <1>8, <1>9, <1>10, <1>11,
     <1>12, <1>13, <1>14, <1>15, <1>16 DEF Next, Step

\* Every variable keeps its type.
THEOREM TypeCorrect == Spec => []TypeOK
  BY TypeInit, TypeNext, PTL DEF Spec
-----------------------------------------------------------------------------
(* Mutual exclusion: a handler between the lock and its return has the lock. *)

LockInv == \A w \in Workers : pc[w] \in Held => lock[Target(w)] = w

\* A handler holding the lock of a process is the only one.
LEMMA OneHolder ==
    ASSUME LockInv, NEW w \in Workers, NEW v \in Workers,
           pc[w] \in Held, pc[v] \in Held, Target(w) = Target(v)
    PROVE  w = v
  BY DEF LockInv

\* A return frees the lock of a handler that had it, and of no other.
LEMMA ReturnLock ==
    ASSUME TypeOK, LockInv, NEW w \in Workers, pc[w] \in Held, Return(w)
    PROVE  LockInv'
<1> SUFFICES ASSUME NEW v \in Workers, pc'[v] \in Held
             PROVE  lock'[Target(v)'] = v
    BY DEF LockInv
<1>1. v # w  BY DEF Return, TypeOK, Held
<1>2. pc[v] \in Held /\ req'[v] = req[v]  BY <1>1 DEF Return, TypeOK
<1>3. Target(v)' = Target(v)  BY <1>2 DEF Target
<1>4. Target(v) # Target(w)  BY <1>1, <1>2, OneHolder
<1>5. lock[Target(v)] = v  BY <1>2 DEF LockInv
<1> QED  BY <1>3, <1>4, <1>5 DEF Return, TypeOK

\* Every step keeps the locks of the handlers that hold one apart.
LEMMA LockNext == TypeOK /\ LockInv /\ [Next]_vars => LockInv'
<1> SUFFICES ASSUME TypeOK, LockInv, [Next]_vars PROVE LockInv'  OBVIOUS
<1> USE DEF requestVars, memoryVars, storeVars, historyVars
<1>1. ASSUME NEW w \in Workers, NEW r \in Requests, Receive(w, r) PROVE LockInv'
  BY <1>1 DEF Receive, LockInv, Target, TypeOK, Held
<1>2. ASSUME NEW w \in Workers, AcquireLock(w) PROVE LockInv'
  <2>1. \A v \in Workers : Target(v)' = Target(v)
    BY <1>2 DEF AcquireLock, Target
  <2>2. Target(w) \in Pids  BY DEF Target, TypeOK, Request
  <2>3. \A v \in Workers : v # w /\ pc[v] \in Held => Target(v) # Target(w)
    BY <1>2, Constants DEF AcquireLock, LockInv
  <2> QED  BY <1>2, <2>1, <2>2, <2>3 DEF AcquireLock, LockInv, TypeOK
<1>3. ASSUME NEW w \in Workers,
             \/ CheckExistingMessage(w)
             \/ Increment(w)
             \/ SaveProcess(w)
             \/ SaveToBytestore(w)
             \/ InsertMessage(w)
      PROVE  LockInv'
  <2>1. /\ req' = req
        /\ lock' = lock
        /\ pc[w] \in Held
        /\ \A v \in Workers : v # w => pc'[v] = pc[v]
    BY <1>3 DEF CheckExistingMessage, Increment, SaveProcess, SaveToBytestore,
                InsertMessage, TypeOK, Held
  <2> QED  BY <2>1 DEF LockInv, Target
<1>4. ASSUME NEW w \in Workers,
             \/ RejectExistingMessage(w)
             \/ SaveProcessNoAssign(w)
             \/ RejectDeepHash(w)
             \/ InsertFails(w)
             \/ Commit(w)
             \/ Fail(w)
      PROVE  LockInv'
  <2>1. Return(w) /\ pc[w] \in Held
    BY <1>4 DEF RejectExistingMessage, SaveProcessNoAssign, RejectDeepHash,
                InsertFails, Commit, Fail, Held
  <2> QED  BY <2>1, ReturnLock
<1>5. ASSUME Crash PROVE LockInv'
  BY <1>5 DEF Crash, LockInv, Held
<1>6. ASSUME Replicate PROVE LockInv'
  BY <1>6 DEF Replicate, LockInv, Target
<1>7. CASE UNCHANGED vars
  BY <1>7 DEF vars, LockInv, Target
<1> QED
  BY <1>1, <1>2, <1>3, <1>4, <1>5, <1>6, <1>7 DEF Next, Step

\* The mutex of a process is held by at most one handler at a time.
THEOREM MutualExclusion ==
    Spec => [](\A w, v \in Workers :
                  /\ pc[w] \in Held
                  /\ pc[v] \in Held
                  /\ Target(w) = Target(v)
                  => w = v)
<1>1. Init => LockInv  BY DEF Init, LockInv, Held
<1>2. Spec => []LockInv
  BY <1>1, LockNext, TypeCorrect, PTL DEF Spec
<1>3. LockInv => \A w, v \in Workers :
                    /\ pc[w] \in Held
                    /\ pc[v] \in Held
                    /\ Target(w) = Target(v)
                    => w = v
  BY OneHolder
<1> QED  BY <1>2, <1>3, PTL
-----------------------------------------------------------------------------
(* A content is scheduled once: the bytestore covers every scheduled content. *)

ContentInv ==
    /\ \A r \in rows : Deduplicated(r) => ContentKey(r) \in deep
    /\ \A w \in Workers :
          pc[w] = "stored" /\ Deduplicated(req[w]) =>
             /\ ContentKey(req[w]) \in deep
             /\ \A r \in rows : Deduplicated(r) => ContentKey(r) # ContentKey(req[w])
    /\ ContentOnce

\* A handler that has stored a content under the lock of another process
\* cannot be about the same content.
LEMMA OtherContent ==
    ASSUME LockInv, NEW w \in Workers, NEW v \in Workers, w # v,
           pc[w] \in Held, pc[v] \in Held
    PROVE  ContentKey(req[w]) # ContentKey(req[v])
  BY OneHolder DEF ContentKey, Target

\* A step that leaves rows and deep alone keeps ContentInv, if no other
\* handler comes to the point where its content is stored.
LEMMA ContentKept ==
    ASSUME ContentInv, rows' = rows, deep' = deep,
           \A v \in Workers : pc'[v] = "stored" =>
              pc[v] = "stored" /\ req'[v] = req[v]
    PROVE  ContentInv'
  BY DEF ContentInv, ContentOnce, Deduplicated, ContentKey

\* Every step keeps the deep hashes ahead of the rows.
LEMMA ContentNext ==
    TypeOK /\ LockInv /\ ContentInv /\ [Next]_vars => ContentInv'
<1> SUFFICES ASSUME TypeOK, LockInv, ContentInv, [Next]_vars PROVE ContentInv'
    OBVIOUS
<1> USE DEF requestVars, memoryVars, storeVars, historyVars
<1>1. ASSUME NEW w \in Workers,
             \/ \E r \in Requests : Receive(w, r)
             \/ AcquireLock(w)
             \/ CheckExistingMessage(w)
             \/ Increment(w)
      PROVE  ContentInv'
  <2>1. /\ rows' = rows
        /\ deep' = deep
        /\ \A v \in Workers : pc'[v] = "stored" =>
              pc[v] = "stored" /\ req'[v] = req[v]
    BY <1>1 DEF Receive, AcquireLock, CheckExistingMessage, Increment, TypeOK
  <2> QED  BY <2>1, ContentKept
<1>2. ASSUME NEW w \in Workers,
             \/ RejectExistingMessage(w)
             \/ RejectDeepHash(w)
             \/ Commit(w)
             \/ Fail(w)
      PROVE  ContentInv'
  <2>1. /\ rows' = rows
        /\ deep' = deep
        /\ \A v \in Workers : pc'[v] = "stored" =>
              pc[v] = "stored" /\ req'[v] = req[v]
    BY <1>2 DEF RejectExistingMessage, RejectDeepHash, Commit, Fail, Return,
                TypeOK
  <2> QED  BY <2>1, ContentKept
<1>3. ASSUME NEW w \in Workers, SaveProcess(w) \/ SaveProcessNoAssign(w)
      PROVE  ContentInv'
  <2>1. /\ deep' = deep
        /\ \A r \in rows' : r \in rows \/ ~Deduplicated(r)
        /\ rows \subseteq rows'
    BY <1>3 DEF SaveProcess, SaveProcessNoAssign, InsertProcess, NewRow,
                Deduplicated
  <2>2. \A v \in Workers : pc'[v] = "stored" =>
              pc[v] = "stored" /\ req'[v] = req[v]
    BY <1>3 DEF SaveProcess, SaveProcessNoAssign, Return, TypeOK
  <2> QED  BY <2>1, <2>2 DEF ContentInv, ContentOnce, Deduplicated, ContentKey
<1>4. ASSUME NEW w \in Workers, SaveToBytestore(w) PROVE ContentInv'
  <2>1. /\ rows' = rows
        /\ req' = req
        /\ deep \subseteq deep'
        /\ pc[w] = "incremented"
        /\ \A v \in Workers : v # w => pc'[v] = pc[v]
    BY <1>4 DEF SaveToBytestore, TypeOK
  <2>2. Deduplicated(req[w]) =>
           /\ ContentKey(req[w]) \in deep'
           /\ ContentKey(req[w]) \notin deep
    BY <1>4 DEF SaveToBytestore
  <2> QED  BY <2>1, <2>2 DEF ContentInv, ContentOnce, Deduplicated, ContentKey
<1>5. ASSUME NEW w \in Workers, InsertMessage(w) PROVE ContentInv'
  <2>1. /\ rows' = rows \cup {NewRow(w)}
        /\ deep' = deep
        /\ req' = req
        /\ pc[w] = "stored"
        /\ pc'[w] = "saved"
        /\ \A v \in Workers : v # w => pc'[v] = pc[v]
    BY <1>5 DEF InsertMessage, TypeOK
  <2>2. /\ Deduplicated(NewRow(w)) <=> Deduplicated(req[w])
        /\ ContentKey(NewRow(w)) = ContentKey(req[w])
    BY DEF NewRow, Deduplicated, ContentKey
  <2>3. \A v \in Workers : pc'[v] = "stored" =>
           pc[v] = "stored" /\ ContentKey(req[w]) # ContentKey(req[v])
    BY <2>1, OtherContent DEF Held
  <2>4. Deduplicated(req[w]) => \A r \in rows : Deduplicated(r) =>
                                    ContentKey(r) # ContentKey(req[w])
    BY <2>1 DEF ContentInv
  <2>5. \A r \in rows' : Deduplicated(r) => ContentKey(r) \in deep'
    BY <2>1, <2>2 DEF ContentInv
  <2>6. ASSUME NEW r \in rows', NEW s \in rows', Deduplicated(r),
               Deduplicated(s), ContentKey(r) = ContentKey(s)
        PROVE  r = s
    BY <2>1, <2>2, <2>4, <2>6 DEF ContentInv, ContentOnce
  <2>7. ASSUME NEW v \in Workers, pc'[v] = "stored", Deduplicated(req[v])
        PROVE  /\ ContentKey(req[v]) \in deep'
               /\ \A r \in rows' : Deduplicated(r) =>
                                       ContentKey(r) # ContentKey(req[v])
    BY <2>1, <2>2, <2>3, <2>7 DEF ContentInv
  <2> QED
    BY <2>1, <2>5, <2>6, <2>7
    DEF ContentInv, ContentOnce, Deduplicated, ContentKey
<1>6. ASSUME NEW w \in Workers, InsertFails(w) PROVE ContentInv'
  <2>1. /\ rows' = rows
        /\ pc[w] = "stored"
        /\ pc'[w] = "idle"
        /\ \A v \in Workers : v # w => pc'[v] = pc[v] /\ req'[v] = req[v]
    BY <1>6 DEF InsertFails, Return, TypeOK
  <2>2. \A k \in deep : \/ Deduplicated(req[w]) /\ k = ContentKey(req[w])
                        \/ k \in deep'
    BY <1>6 DEF InsertFails
  <2>3. \A v \in Workers : pc'[v] = "stored" =>
           /\ pc[v] = "stored"
           /\ req'[v] = req[v]
           /\ ContentKey(req[w]) # ContentKey(req[v])
    BY <2>1, OtherContent DEF Held
  <2> QED
    BY <2>1, <2>2, <2>3 DEF ContentInv, ContentOnce, Deduplicated, ContentKey
<1>7. ASSUME Crash PROVE ContentInv'
  <2>1. rows' = rows /\ deep' = deep /\ \A v \in Workers : pc'[v] # "stored"
    BY <1>7 DEF Crash
  <2> QED  BY <2>1, ContentKept
<1>8. ASSUME Replicate \/ UNCHANGED vars PROVE ContentInv'
  <2>1. rows' = rows /\ deep' = deep /\ pc' = pc /\ req' = req
    BY <1>8 DEF Replicate, vars
  <2> QED  BY <2>1, ContentKept
<1> QED
  BY <1>1, <1>2, <1>3, <1>4, <1>5, <1>6, <1>7, <1>8 DEF Next, Step

\* A process never schedules the same pushed or assigned content twice, with
\* any number of handlers, failed saves, restarts and a lagging replica.
THEOREM ContentScheduledOnce == Spec => []ContentOnce
<1>1. Init => LockInv /\ ContentInv
  BY DEF Init, LockInv, ContentInv, ContentOnce, Held
<1>2. LockInv /\ ContentInv /\ TypeOK /\ TypeOK' /\ [Next]_vars
      => (LockInv /\ ContentInv)'
  BY LockNext, ContentNext
<1>3. ContentInv => ContentOnce  BY DEF ContentInv
<1> QED  BY <1>1, <1>2, <1>3, TypeCorrect, PTL DEF Spec

-----------------------------------------------------------------------------
(* A message is scheduled once: it is looked up under the lock of its target. *)

\* A data item has one target, and one that is posted is not assigned as well.
PostedToTarget ==
    \A r, s \in Requests :
       r.kind = "Message" /\ s.kind # "Process" /\ r.item = s.item => r = s

RequestOf(r) == [kind |-> r.kind, pid |-> r.pid, item |-> r.item]

\* Between the lookup and the insert no other handler can schedule the message.
MessageInv ==
    /\ MessageOnce
    /\ \A w \in Workers : req[w] \in Requests
    /\ \A r \in rows : r.kind # "Process" => RequestOf(r) \in Requests
    /\ \A w \in Workers :
          pc[w] \in {"checked", "incremented", "stored"} /\ req[w].kind = "Message" =>
             \A r \in rows : r.kind = "Message" => r.item # req[w].item

\* A set of numbers that is not empty has a least element.
LEMMA LeastNumber ==
    ASSUME NEW S \in SUBSET Nat, S # {}
    PROVE  \E n \in S : \A m \in S : n <= m
<1> DEFINE less == {ss \in Nat \X Nat : ss[1] < ss[2]}
<1>1. OpToRel(<, Nat) = less
  BY Zenon DEF OpToRel
<1>2. IsWellFoundedOn(less, Nat)
  BY <1>1, NatLessThanWellFounded, Zenon
<1> HIDE DEF less
<1>3. PICK n \in S : \A m \in S : ~(<<m, n>> \in less)
  BY <1>2, WFMin, Zenon
<1>4. \A m \in S : ~(m < n)
  BY <1>3 DEF less
<1>5. QED
  BY <1>4

\* What is in the table is found, unless the replica is behind.
LEMMA OldestFound ==
    ASSUME TypeOK, ~ReplicaLag, NEW r \in rows, r.kind # "Process"
    PROVE  OldestMatches(r.item) # {}
<1> DEFINE matches == {s \in rows : s.kind # "Process" /\ s.item = r.item}
<1>1. PICK times : times = {s.ts : s \in matches}
  OBVIOUS
<1>2. \A s \in matches : s.ts \in Nat
  BY DEF TypeOK, Row
<1>3. times \in SUBSET Nat
  BY <1>1, <1>2
<1>4. r.ts \in times
  BY <1>1
<1>5. PICK t \in times : \A u \in times : t <= u
  BY <1>3, <1>4, LeastNumber
<1>6. PICK s \in matches : s.ts = t
  BY <1>1, <1>5
<1>7. \A u \in matches : s.ts <= u.ts
  BY <1>1, <1>5, <1>6
<1> QED  BY <1>6, <1>7 DEF OldestMatches, ReadRows

\* A step that inserts no message keeps MessageInv, if no other handler passes
\* the lookup.
LEMMA MessageKept ==
    ASSUME MessageInv,
           \A r \in rows' : r \in rows \/ r.kind = "Process",
           \A v \in Workers :
              /\ req'[v] \in Requests
              /\ pc'[v] \in {"checked", "incremented", "stored"} =>
                    pc[v] \in {"checked", "incremented", "stored"} /\ req'[v] = req[v]
    PROVE  MessageInv'
  BY DEF MessageInv, MessageOnce, RequestOf

\* Every step keeps the messages apart, those about to be inserted included.
LEMMA MessageNext ==
    ASSUME ~ReplicaLag, PostedToTarget, TypeOK, LockInv, MessageInv, [Next]_vars
    PROVE  MessageInv'
<1> USE DEF requestVars, memoryVars, storeVars, historyVars
<1>1. \A v \in Workers : req[v] \in Requests
  BY DEF MessageInv
<1>2. ASSUME NEW w \in Workers,
             \/ \E r \in Requests : Receive(w, r)
             \/ AcquireLock(w)
             \/ Increment(w)
             \/ SaveToBytestore(w)
      PROVE  MessageInv'
  <2>1. /\ rows' = rows
        /\ \A v \in Workers :
              /\ req'[v] \in Requests
              /\ pc'[v] \in {"checked", "incremented", "stored"} =>
                    pc[v] \in {"checked", "incremented", "stored"} /\ req'[v] = req[v]
    BY <1>1, <1>2 DEF Receive, AcquireLock, Increment, SaveToBytestore, TypeOK
  <2> QED  BY <2>1, MessageKept
<1>3. ASSUME NEW w \in Workers,
             \/ RejectExistingMessage(w)
             \/ SaveProcess(w)
             \/ SaveProcessNoAssign(w)
             \/ RejectDeepHash(w)
             \/ InsertFails(w)
             \/ Commit(w)
             \/ Fail(w)
      PROVE  MessageInv'
  <2>1. \A r \in rows' : r \in rows \/ r.kind = "Process"
    BY <1>3 DEF RejectExistingMessage, SaveProcess, SaveProcessNoAssign, InsertProcess, NewRow,
                RejectDeepHash, InsertFails, Commit, Fail
  <2>2. \A v \in Workers :
              /\ req'[v] \in Requests
              /\ pc'[v] \in {"checked", "incremented", "stored"} =>
                    pc[v] \in {"checked", "incremented", "stored"} /\ req'[v] = req[v]
    BY <1>1, <1>3, Constants
    DEF RejectExistingMessage, SaveProcess, SaveProcessNoAssign, RejectDeepHash, InsertFails,
        Commit, Fail, Return, TypeOK
  <2> QED  BY <2>1, <2>2, MessageKept
<1>4. ASSUME NEW w \in Workers, CheckExistingMessage(w) PROVE MessageInv'
  <2>1. /\ rows' = rows /\ req' = req
        /\ \A v \in Workers : v # w => pc'[v] = pc[v]
    BY <1>4 DEF CheckExistingMessage, TypeOK
  <2>2. ASSUME req[w].kind = "Message", NEW r \in rows, r.kind = "Message"
        PROVE  r.item # req[w].item
    <3> SUFFICES ASSUME r.item = req[w].item PROVE FALSE
      OBVIOUS
    <3>1. PICK m \in OldestMatches(req[w].item) : m.kind = "Assignment"
      BY <1>4, <2>2, OldestFound DEF CheckExistingMessage
    <3>2. m \in rows /\ m.item = req[w].item
      BY DEF OldestMatches, ReadRows
    <3>3. RequestOf(m) \in Requests
      BY <3>1, <3>2 DEF MessageInv
    <3> QED  BY <1>1, <2>2, <3>1, <3>2, <3>3 DEF PostedToTarget, RequestOf
  <2> QED  BY <2>1, <2>2 DEF MessageInv, MessageOnce, RequestOf
<1>5. ASSUME NEW w \in Workers, InsertMessage(w) PROVE MessageInv'
  <2>1. /\ rows' = rows \cup {NewRow(w)} /\ req' = req
        /\ pc[w] = "stored" /\ pc'[w] = "saved"
        /\ \A v \in Workers : v # w => pc'[v] = pc[v]
    BY <1>5 DEF InsertMessage, TypeOK
  <2>2. NewRow(w).kind = req[w].kind /\ NewRow(w).item = req[w].item
        /\ RequestOf(NewRow(w)) = req[w]
    BY <1>1, Constants DEF NewRow, RequestOf, Request
  <2>3. req[w].kind = "Message" =>
           \A r \in rows : r.kind = "Message" => r.item # req[w].item
    BY <2>1 DEF MessageInv
  <2>4. MessageOnce'
    BY <2>1, <2>2, <2>3 DEF MessageInv, MessageOnce
  <2>5. ASSUME NEW v \in Workers, pc'[v] \in {"checked", "incremented", "stored"},
               req[v].kind = "Message", req[w].kind = "Message"
        PROVE  req[w].item # req[v].item
    <3>1. v # w /\ pc[v] \in Held /\ pc[w] \in Held
      BY <2>1, <2>5 DEF Held
    <3>2. Target(v) # Target(w)
      BY <3>1, OneHolder
    <3> QED  BY <1>1, <2>5, <3>2 DEF PostedToTarget, Target
  <2> QED  BY <2>1, <2>2, <2>4, <2>5 DEF MessageInv, RequestOf
<1>6. ASSUME Crash \/ Replicate \/ UNCHANGED vars PROVE MessageInv'
  <2>1. /\ rows' = rows
        /\ \A v \in Workers :
              /\ req'[v] \in Requests
              /\ pc'[v] \in {"checked", "incremented", "stored"} =>
                    pc[v] \in {"checked", "incremented", "stored"} /\ req'[v] = req[v]
    BY <1>1, <1>6, Constants DEF Crash, Replicate, vars
  <2> QED  BY <2>1, MessageKept
<1> QED
  BY <1>2, <1>3, <1>4, <1>5, <1>6 DEF Next, Step

\* An item is scheduled as a message once, however often it is posted, with any
\* clock, failed saves and restarts, if it is looked up in the writer database and
\* items that are posted are not assigned as well.
THEOREM MessageScheduledOnce ==
    ASSUME ~ReplicaLag, PostedToTarget
    PROVE  Spec => []MessageOnce
<1>1. Init => MessageInv /\ LockInv
  BY Constants DEF Init, MessageInv, MessageOnce, LockInv, Held
<1>2. TypeOK /\ LockInv /\ MessageInv /\ [Next]_vars => LockInv' /\ MessageInv'
  BY LockNext, MessageNext
<1>3. MessageInv => MessageOnce
  BY DEF MessageInv
<1> QED  BY <1>1, <1>2, <1>3, TypeCorrect, PTL DEF Spec

-----------------------------------------------------------------------------
(* The schedules as lists.  No two items of a process share a nonce, the   *)
(* timestamps follow the nonces and new items go to the end, whatever      *)
(* clients repost, if the system clock only advances and get_process does  *)
(* not read a replica that is behind.  If no client sends the same Process *)
(* twice, no nonce is missing from a schedule and its hash chain is        *)
(* unbroken.  Under both conditions SuScheduler implements SuSchedule.     *)

Before(r, s) == r.nonce < s.nonce /\ r.ts < s.ts

\* Between increment and save a handler's slot is after all slots there are.
Ahead(w) ==
    /\ next[w].ts < clock
    /\ \A r \in Slots(Target(w)) : Before(r, next[w])

\* Once saved, no slot is after the one the handler is about to commit.
Reached(w) == \A r \in Slots(Target(w)) : r.nonce <= next[w].nonce

RowsOrdered ==
    /\ \A r \in rows : r.ts < clock
    /\ \A p \in Pids : \A r, s \in ProcessRows(p, rows) : r = s
    /\ \A p \in Pids : ProcessRows(p, rows) = {} => MessageRows(p) = {}
    /\ \A p \in Pids : \A r, s \in Slots(p) : r # s => Before(r, s) \/ Before(s, r)
    /\ ProcessAssignment =>
          \A p \in Pids : \A r \in ProcessRows(p, rows), m \in MessageRows(p) :
             r.nonce < m.nonce

HandlersAhead ==
    \A w \in Workers : /\ pc[w] \in {"incremented", "stored"} => Ahead(w)
                       /\ pc[w] = "saved" => Reached(w)

\* A cache entry is behind its process' schedule only until the handler that
\* saved the last slot commits it.
CacheReached ==
    \A p \in cached : \/ \E w \in Workers : pc[w] = "saved" /\ Target(w) = p
                      \/ \A r \in Slots(p) : r.nonce <= cache[p].nonce

\* Only messages and assignments go through the bytestore.
StoredIsMessage ==
    \A w \in Workers : pc[w] = "stored" => req[w].kind # "Process"

OrderInv == RowsOrdered /\ HandlersAhead /\ CacheReached

-----------------------------------------------------------------------------

\* Slots are rows.
LEMMA SlotsType ==
    ASSUME TypeOK, NEW p \in Pids
    PROVE  \A r \in Slots(p) : r \in rows /\ r.nonce \in Nat /\ r.ts \in Nat
  BY DEF TypeOK, Slots, MessageRows, ProcessRows, Row

\* Steps that change neither the rows nor the cache and bring no handler to
\* the point where its nonce is chosen, or the row saved.
LEMMA OrderKept ==
    ASSUME TypeOK, TypeOK', OrderInv, rows' = rows, clock' = clock,
           cached' = {} \/ (cached' = cached /\ cache' = cache),
           \A v \in Workers :
              /\ pc'[v] \in {"incremented", "stored"} =>
                    /\ pc[v] \in {"incremented", "stored"}
                    /\ next'[v] = next[v]
                    /\ req'[v] = req[v]
              /\ pc'[v] = "saved" => /\ pc[v] = "saved"
                                     /\ next'[v] = next[v]
                                     /\ req'[v] = req[v]
              /\ pc[v] = "saved" /\ cached' # {} => pc'[v] = "saved"
    PROVE  OrderInv'
<1>1. \A p \in Pids : /\ Slots(p)' = Slots(p)
                      /\ MessageRows(p)' = MessageRows(p)
                      /\ ProcessRows(p, rows)' = ProcessRows(p, rows)
  BY DEF Slots, MessageRows, ProcessRows
<1>2. \A v \in Workers : Target(v) \in Pids /\ Target(v)' \in Pids
  BY DEF Target, TypeOK, Request
<1>3. RowsOrdered'
  BY <1>1 DEF OrderInv, RowsOrdered, Before
<1>4. HandlersAhead'
  <2> SUFFICES ASSUME NEW v \in Workers
               PROVE  /\ pc'[v] \in {"incremented", "stored"} => Ahead(v)'
                      /\ pc'[v] = "saved" => Reached(v)'
      BY DEF HandlersAhead
  <2>1. req'[v] = req[v] => Slots(Target(v))' = Slots(Target(v))
    BY <1>1, <1>2 DEF Target, Slots, MessageRows, ProcessRows
  <2> QED  BY <2>1 DEF OrderInv, HandlersAhead, Ahead, Reached, Before
<1>5. CacheReached'
  <2> SUFFICES ASSUME NEW p \in cached'
               PROVE  \/ \E w \in Workers : pc'[w] = "saved" /\ Target(w)' = p
                      \/ \A r \in Slots(p)' : r.nonce <= cache'[p].nonce
      BY DEF CacheReached
  <2>1. p \in cached /\ cache' = cache /\ cached' # {}  OBVIOUS
  <2>2. p \in Pids  BY DEF TypeOK
  <2> QED  BY <1>1, <2>1, <2>2 DEF OrderInv, CacheReached, Target
<1> QED  BY <1>3, <1>4, <1>5 DEF OrderInv

\* What increment computes under the lock is after every slot.
LEMMA SuccessorAhead ==
    ASSUME TypeOK, LockInv, OrderInv, ~ReplicaLag \/ ~ProcessAssignment,
           NEW w \in Workers, pc[w] = "checked",
           NEW s \in Successors(Target(w)), NEW r \in Slots(Target(w))
    PROVE  r.nonce < s.nonce
<1> DEFINE p == Target(w)
<1>1. p \in Pids  BY DEF Target, TypeOK, Request
<1>2. r \in rows /\ r.nonce \in Nat /\ r.ts \in Nat  BY <1>1, SlotsType
<1>3. CASE p \in cached
  <2>1. ~ \E v \in Workers : pc[v] = "saved" /\ Target(v) = p
    BY OneHolder DEF Held
  <2>2. r.nonce <= cache[p].nonce
    BY <1>3, <2>1 DEF OrderInv, CacheReached
  <2>3. cache[p].nonce \in Nat  BY <1>1 DEF TypeOK, Info
  <2>4. s.nonce = cache[p].nonce + 1  BY <1>3 DEF Successors, Following
  <2> QED  BY <1>2, <2>2, <2>3, <2>4
<1>4. CASE p \notin cached /\ MessageRows(p) # {}
  <2>1. PICK m \in LatestMessages(p) : s.nonce = m.nonce + 1
    BY <1>4 DEF Successors, Following
  <2>2. m \in MessageRows(p) /\ m \in Slots(p)
        /\ \A o \in MessageRows(p) : o.ts <= m.ts
    BY <2>1 DEF LatestMessages, Slots
  <2>3. m.nonce \in Nat /\ m.ts \in Nat  BY <1>1, <2>2, SlotsType
  <2>4. CASE r \in MessageRows(p)
    <3>1. r = m \/ Before(r, m) \/ Before(m, r)
      BY <1>1, <2>2 DEF OrderInv, RowsOrdered
    <3> QED  BY <1>2, <2>1, <2>2, <2>3, <2>4, <3>1 DEF Before
  <2>5. CASE ProcessAssignment /\ r \in ProcessRows(p, rows)
    BY <1>1, <1>2, <2>1, <2>2, <2>3, <2>5 DEF OrderInv, RowsOrdered
  <2> QED  BY <2>4, <2>5 DEF Slots
<1>5. CASE p \notin cached /\ MessageRows(p) = {}
  <2>1. ProcessAssignment /\ r \in ProcessRows(p, rows)
    BY <1>5 DEF Slots
  <2>2. ProcessRows(p, ReadRows) = ProcessRows(p, rows)
    BY <2>1 DEF ReadRows
  <2>3. PICK q \in ProcessRows(p, rows) : s = Following(q)
    BY <1>5, <2>1, <2>2 DEF Successors
  <2>4. q = r  BY <1>1, <2>1, <2>3 DEF OrderInv, RowsOrdered
  <2> QED  BY <1>2, <2>3, <2>4 DEF Following
<1> QED  BY <1>3, <1>4, <1>5

\* What a handler computes under the lock is after every slot.
LEMMA IncrementOrder ==
    ASSUME TypeOK, TypeOK', LockInv, OrderInv, ~ClockSteps,
           ~ReplicaLag \/ ~ProcessAssignment, NEW w \in Workers, Increment(w)
    PROVE  OrderInv'
<1>1. /\ pc[w] = "checked"
      /\ pc' = [pc EXCEPT ![w] = "incremented"]
      /\ rows' = rows /\ req' = req /\ cached' = cached /\ cache' = cache
      /\ clock' = clock + 1
  BY DEF Increment, memoryVars, storeVars
<1>2. PICK s \in Successors(Target(w)) :
         next' = [next EXCEPT ![w] =
                    [nonce |-> s.nonce, chain |-> s.chain, ts |-> clock]]
  BY DEF Increment, Now
<1>3. next'[w].nonce = s.nonce /\ next'[w].ts = clock /\ pc'[w] = "incremented"
      /\ \A v \in Workers : v # w => next'[v] = next[v] /\ pc'[v] = pc[v]
  BY <1>1, <1>2 DEF TypeOK
<1>4. \A p \in Pids : /\ Slots(p)' = Slots(p)
                      /\ MessageRows(p)' = MessageRows(p)
                      /\ ProcessRows(p, rows)' = ProcessRows(p, rows)
  BY <1>1 DEF Slots, MessageRows, ProcessRows
<1>5. \A v \in Workers : /\ Target(v) \in Pids
                         /\ Target(v)' = Target(v)
                         /\ Slots(Target(v))' = Slots(Target(v))
  BY <1>1, <1>4 DEF Target, TypeOK, Request, Slots, MessageRows, ProcessRows
<1>6. clock \in Nat /\ \A r \in rows : r.ts \in Nat
  BY DEF TypeOK, Row
<1>7. RowsOrdered'
  <2>1. \A r \in rows' : r.ts < clock'
    BY <1>1, <1>6 DEF OrderInv, RowsOrdered
  <2> QED  BY <1>1, <1>4, <2>1 DEF OrderInv, RowsOrdered, Before
<1>8. Ahead(w)'
  <2>1. \A r \in Slots(Target(w)) : r.nonce < s.nonce
    BY <1>1, SuccessorAhead
  <2>2. \A r \in Slots(Target(w)) : r.ts < clock
    BY <1>5, SlotsType DEF OrderInv, RowsOrdered
  <2> QED  BY <1>1, <1>3, <1>5, <1>6, <2>1, <2>2 DEF Ahead, Before
<1>9. HandlersAhead'
  <2> SUFFICES ASSUME NEW v \in Workers, v # w
               PROVE  /\ pc'[v] \in {"incremented", "stored"} => Ahead(v)'
                      /\ pc'[v] = "saved" => Reached(v)'
      BY <1>3, <1>8 DEF HandlersAhead
  <2>1. next[v].ts \in Nat  BY DEF TypeOK, ScheduleInfo
  <2>2. next[v].ts < clock => next[v].ts < clock'  BY <1>1, <1>6, <2>1
  <2> QED
    BY <1>3, <1>5, <2>2 DEF OrderInv, HandlersAhead, Ahead, Reached, Before
<1>10. CacheReached'
  BY <1>1, <1>3, <1>4, <1>5 DEF OrderInv, CacheReached, TypeOK
<1> QED  BY <1>7, <1>9, <1>10 DEF OrderInv

\* What inserting the handler's row does to the schedules.
LEMMA InsertSlots ==
    ASSUME TypeOK, NEW w \in Workers, NEW p \in Pids,
           rows' = rows \cup {NewRow(w)}
    PROVE  /\ p # Target(w) => /\ Slots(p)' = Slots(p)
                               /\ MessageRows(p)' = MessageRows(p)
                               /\ ProcessRows(p, rows)' = ProcessRows(p, rows)
           /\ Slots(p)' \subseteq Slots(p) \cup {NewRow(w)}
           /\ req[w].kind = "Process" => MessageRows(p)' = MessageRows(p)
           /\ req[w].kind # "Process" =>
                 ProcessRows(p, rows)' = ProcessRows(p, rows)
           /\ MessageRows(p)' \subseteq MessageRows(p) \cup {NewRow(w)}
           /\ ProcessRows(p, rows)' \subseteq ProcessRows(p, rows) \cup {NewRow(w)}
           /\ ProcessRows(p, rows) \subseteq ProcessRows(p, rows)'
  BY DEF Slots, MessageRows, ProcessRows, NewRow, Target

\* Inserting a row at the end of its process' schedule, by the lock's holder.
LEMMA InsertOrder ==
    ASSUME TypeOK, TypeOK', LockInv, OrderInv, NEW w \in Workers,
           pc[w] \in {"incremented", "stored"},
           rows' = rows \cup {NewRow(w)},
           req[w].kind = "Process" <=> ProcessRows(Target(w), rows) = {},
           clock' = clock
    PROVE  /\ RowsOrdered'
           /\ \A p \in Pids : IF p = Target(w)
                             THEN \A r \in Slots(p)' : r.nonce <= next[w].nonce
                             ELSE Slots(p)' = Slots(p)
<1> DEFINE n == NewRow(w)
<1>1. Ahead(w)  BY DEF OrderInv, HandlersAhead
<1>2. n.nonce = next[w].nonce /\ n.ts = next[w].ts /\ n.pid = Target(w)
      /\ n.kind = req[w].kind
  BY DEF NewRow, Target
<1>3. \A v \in Workers : Target(v) \in Pids
  BY DEF Target, TypeOK, Request
<1>4. next[w].nonce \in Nat /\ next[w].ts \in Nat
  BY DEF TypeOK, ScheduleInfo
<1>5. \A r \in Slots(Target(w)) : Before(r, n)
  BY <1>1, <1>2 DEF Ahead, Before
<1>6. RowsOrdered'
  <2>1. \A r \in rows' : r.ts < clock'
    BY <1>1, <1>2 DEF OrderInv, RowsOrdered, Ahead
  <2>2. ASSUME NEW p \in Pids,
               NEW r \in ProcessRows(p, rows)', NEW s \in ProcessRows(p, rows)'
        PROVE  r = s
    <3>1. CASE p # Target(w) \/ req[w].kind # "Process"
      BY <2>2, <3>1, InsertSlots DEF OrderInv, RowsOrdered
    <3>2. CASE p = Target(w) /\ req[w].kind = "Process"
      <4>1. r \in ProcessRows(p, rows) \cup {n} /\ s \in ProcessRows(p, rows) \cup {n}
        BY <2>2, InsertSlots
      <4> QED  BY <3>2, <4>1
    <3> QED  BY <3>1, <3>2
  <2>3. \A p \in Pids : ProcessRows(p, rows)' = {} => MessageRows(p)' = {}
    BY InsertSlots DEF OrderInv, RowsOrdered
  <2>4. ASSUME NEW p \in Pids, NEW r \in Slots(p)', NEW s \in Slots(p)', r # s
        PROVE  Before(r, s) \/ Before(s, r)
    <3>1. CASE p # Target(w)
      BY <2>4, <3>1, InsertSlots DEF OrderInv, RowsOrdered
    <3>2. CASE p = Target(w)
      <4>1. r \in Slots(p) \cup {n} /\ s \in Slots(p) \cup {n}
        BY <2>4, InsertSlots
      <4> QED  BY <1>5, <2>4, <3>2, <4>1 DEF OrderInv, RowsOrdered
    <3> QED  BY <3>1, <3>2
  <2>5. ASSUME ProcessAssignment, NEW p \in Pids,
               NEW r \in ProcessRows(p, rows)', NEW m \in MessageRows(p)'
        PROVE  r.nonce < m.nonce
    <3>1. CASE p # Target(w)
      <4>1. r \in ProcessRows(p, rows) /\ m \in MessageRows(p)
        BY <2>5, <3>1, InsertSlots
      <4> QED  BY <2>5, <4>1 DEF OrderInv, RowsOrdered
    <3>2. CASE p = Target(w) /\ req[w].kind = "Process"
      <4>1. m \in MessageRows(p)  BY <2>5, <3>2, InsertSlots
      <4> QED  BY <3>2, <4>1 DEF OrderInv, RowsOrdered
    <3>3. CASE p = Target(w) /\ req[w].kind # "Process"
      <4>1. r \in ProcessRows(p, rows) /\ r \in Slots(p)
        BY <2>5, <3>3, InsertSlots DEF Slots
      <4>2. m \in MessageRows(p) \/ m = n
        BY <2>5, InsertSlots
      <4> QED  BY <1>5, <2>5, <3>3, <4>1, <4>2 DEF OrderInv, RowsOrdered, Before
    <3> QED  BY <3>1, <3>2, <3>3
  <2> QED  BY <2>1, <2>2, <2>3, <2>4, <2>5 DEF RowsOrdered, Before
<1>7. ASSUME NEW p \in Pids, p = Target(w), NEW r \in Slots(p)'
      PROVE  r.nonce <= next[w].nonce
  <2>1. r \in Slots(p) \/ r = n  BY <1>7, InsertSlots
  <2>2. r \in Slots(p) => r.nonce \in Nat  BY <1>7, SlotsType
  <2> QED  BY <1>2, <1>4, <1>5, <1>7, <2>1, <2>2 DEF Before
<1> QED  BY <1>6, <1>7, InsertSlots

\* The row a process or message handler saves.
LEMMA SaveOrder ==
    ASSUME TypeOK, TypeOK', LockInv, OrderInv, StoredIsMessage,
           NEW w \in Workers, SaveProcess(w) \/ InsertMessage(w)
    PROVE  OrderInv'
<1>1. /\ pc[w] \in {"incremented", "stored"}
      /\ pc'[w] = "saved"
      /\ \A v \in Workers : v # w => pc'[v] = pc[v]
      /\ req' = req /\ next' = next /\ clock' = clock
      /\ cached' = cached /\ cache' = cache
  BY DEF SaveProcess, InsertMessage, memoryVars, TypeOK
<1>2. \A v \in Workers : Target(v) \in Pids /\ Target(v)' = Target(v)
  BY <1>1 DEF Target, TypeOK, Request
<1>3. RowsOrdered' /\ \A p \in Pids :
           IF p = Target(w) THEN \A r \in Slots(p)' : r.nonce <= next[w].nonce
                            ELSE Slots(p)' = Slots(p)
  <2>1. CASE rows' = rows
    <3>1. \A p \in Pids : /\ Slots(p)' = Slots(p)
                          /\ MessageRows(p)' = MessageRows(p)
                          /\ ProcessRows(p, rows)' = ProcessRows(p, rows)
      BY <2>1 DEF Slots, MessageRows, ProcessRows
    <3>2. RowsOrdered'
      BY <1>1, <2>1, <3>1 DEF OrderInv, RowsOrdered, Before
    <3>3. \A r \in Slots(Target(w)) : r.nonce < next[w].nonce /\ r.nonce \in Nat
      BY <1>1, <1>2, SlotsType DEF OrderInv, HandlersAhead, Ahead, Before
    <3>4. next[w].nonce \in Nat  BY DEF TypeOK, ScheduleInfo
    <3> QED  BY <3>1, <3>2, <3>3, <3>4
  <2>2. CASE rows' # rows
    <3>1. rows' = rows \cup {NewRow(w)}
          /\ (req[w].kind = "Process" <=> ProcessRows(Target(w), rows) = {})
      <4>1. CASE SaveProcess(w)
        BY <2>2, <4>1 DEF SaveProcess, InsertProcess
      <4>2. CASE InsertMessage(w)
        BY <4>2 DEF InsertMessage, StoredIsMessage
      <4> QED  BY <4>1, <4>2
    <3> QED  BY <1>1, <3>1, InsertOrder
  <2> QED  BY <2>1, <2>2
<1>4. HandlersAhead'
  <2> SUFFICES ASSUME NEW v \in Workers
               PROVE  /\ pc'[v] \in {"incremented", "stored"} => Ahead(v)'
                      /\ pc'[v] = "saved" => Reached(v)'
      BY DEF HandlersAhead
  <2>1. CASE v = w
    <3>1. \A r \in Slots(Target(w))' : r.nonce <= next[w].nonce
      BY <1>2, <1>3 DEF Slots, MessageRows, ProcessRows
    <3> QED  BY <1>1, <2>1, <3>1 DEF Reached
  <2>2. CASE v # w /\ pc[v] \in Held
    <3>1. Target(v) # Target(w)  BY <1>1, <2>2, OneHolder DEF Held
    <3>2. Slots(Target(v))' = Slots(Target(v))
      BY <1>2, <1>3, <3>1 DEF Slots, MessageRows, ProcessRows
    <3> QED
      BY <1>1, <2>2, <3>2 DEF OrderInv, HandlersAhead, Ahead, Reached, Before
  <2> QED  BY <1>1, <2>1, <2>2 DEF Held
<1>5. CacheReached'
  <2> SUFFICES ASSUME NEW p \in cached, p # Target(w)
               PROVE  \/ \E v \in Workers : pc'[v] = "saved" /\ Target(v)' = p
                      \/ \A r \in Slots(p)' : r.nonce <= cache[p].nonce
      BY <1>1, <1>2 DEF CacheReached
  <2>1. p \in Pids  BY DEF TypeOK
  <2> QED  BY <1>1, <1>2, <1>3, <2>1 DEF OrderInv, CacheReached
<1> QED  BY <1>3, <1>4, <1>5 DEF OrderInv

\* A process saved without an assignment takes no slot.
LEMMA SaveNoAssignOrder ==
    ASSUME TypeOK, TypeOK', LockInv, OrderInv, NEW w \in Workers,
           SaveProcessNoAssign(w)
    PROVE  OrderInv'
<1>1. /\ pc[w] = "incremented"
      /\ pc'[w] = "idle"
      /\ \A v \in Workers : v # w => /\ pc'[v] = pc[v]
                                     /\ req'[v] = req[v]
                                     /\ next'[v] = next[v]
      /\ clock' = clock /\ cached' = cached /\ cache' = cache
      /\ ~ProcessAssignment
      /\ req[w].kind = "Process"
  BY DEF SaveProcessNoAssign, Return, TypeOK
<1>2. \/ rows' = rows
      \/ /\ rows' = rows \cup {NewRow(w)}
         /\ ProcessRows(Target(w), rows) = {}
  BY DEF SaveProcessNoAssign, InsertProcess
<1>3. \A p \in Pids : Slots(p)' = Slots(p)
  BY <1>1, <1>2 DEF Slots, MessageRows, NewRow
<1>4. RowsOrdered'
  <2>1. CASE rows' = rows
    BY <1>1, <2>1 DEF OrderInv, RowsOrdered, Before, Slots, MessageRows,
                      ProcessRows
  <2> QED  BY <1>1, <1>2, <2>1, InsertOrder
<1>5. HandlersAhead'
  <2> SUFFICES ASSUME NEW v \in Workers, v # w
               PROVE  /\ pc'[v] \in {"incremented", "stored"} => Ahead(v)'
                      /\ pc'[v] = "saved" => Reached(v)'
      BY <1>1 DEF HandlersAhead
  <2>1. Target(v)' = Target(v) /\ Target(v) \in Pids
    BY <1>1 DEF Target, TypeOK, Request
  <2>2. Slots(Target(v))' = Slots(Target(v))
    BY <1>3, <2>1 DEF Slots, MessageRows, ProcessRows
  <2> QED
    BY <1>1, <2>2 DEF OrderInv, HandlersAhead, Ahead, Reached, Before
<1>6. CacheReached'
  BY <1>1, <1>3 DEF OrderInv, CacheReached, Target, TypeOK
<1> QED  BY <1>4, <1>5, <1>6 DEF OrderInv

\* The committed entry covers the schedule the handler saved to.
LEMMA CommitOrder ==
    ASSUME TypeOK, TypeOK', LockInv, OrderInv, NEW w \in Workers, Commit(w)
    PROVE  OrderInv'
<1>1. /\ pc[w] = "saved"
      /\ pc'[w] = "idle"
      /\ \A v \in Workers : v # w => /\ pc'[v] = pc[v]
                                     /\ req'[v] = req[v]
                                     /\ next'[v] = next[v]
      /\ rows' = rows /\ clock' = clock
      /\ cached' = cached \cup {Target(w)}
      /\ \A p \in Pids : p # Target(w) => cache'[p] = cache[p]
  BY DEF Commit, Return, storeVars, TypeOK
<1>2. cache'[Target(w)].nonce = next[w].nonce
  BY DEF Commit, TypeOK, Target, Request
<1>3. \A p \in Pids : /\ Slots(p)' = Slots(p)
                      /\ MessageRows(p)' = MessageRows(p)
                      /\ ProcessRows(p, rows)' = ProcessRows(p, rows)
  BY <1>1 DEF Slots, MessageRows, ProcessRows
<1>4. RowsOrdered'
  BY <1>1, <1>3 DEF OrderInv, RowsOrdered, Before
<1>5. HandlersAhead'
  <2> SUFFICES ASSUME NEW v \in Workers, v # w
               PROVE  /\ pc'[v] \in {"incremented", "stored"} => Ahead(v)'
                      /\ pc'[v] = "saved" => Reached(v)'
      BY <1>1 DEF HandlersAhead
  <2>1. Target(v)' = Target(v) /\ Target(v) \in Pids
    BY <1>1 DEF Target, TypeOK, Request
  <2>2. Slots(Target(v))' = Slots(Target(v))
    BY <1>3, <2>1 DEF Slots, MessageRows, ProcessRows
  <2> QED
    BY <1>1, <2>2 DEF OrderInv, HandlersAhead, Ahead, Reached, Before
<1>6. CacheReached'
  <2> SUFFICES ASSUME NEW p \in cached'
               PROVE  \/ \E v \in Workers : pc'[v] = "saved" /\ Target(v)' = p
                      \/ \A r \in Slots(p)' : r.nonce <= cache'[p].nonce
      BY DEF CacheReached
  <2>1. p \in Pids  BY DEF TypeOK
  <2>2. CASE p = Target(w)
    BY <1>1, <1>2, <1>3, <2>1, <2>2 DEF OrderInv, HandlersAhead, Reached
  <2>3. CASE p # Target(w)
    BY <1>1, <1>3, <2>1, <2>3 DEF OrderInv, CacheReached, Target
  <2> QED  BY <2>2, <2>3
<1> QED  BY <1>4, <1>5, <1>6 DEF OrderInv

\* Only a request for a message or an assignment reaches the bytestore.
LEMMA StoredNext == TypeOK /\ StoredIsMessage /\ [Next]_vars => StoredIsMessage'
<1> SUFFICES ASSUME TypeOK, StoredIsMessage, [Next]_vars,
                    NEW v \in Workers, pc'[v] = "stored"
             PROVE  req'[v].kind # "Process"
    BY DEF StoredIsMessage
<1> USE DEF TypeOK, StoredIsMessage
<1>1. ASSUME NEW w \in Workers, NEW r \in Requests, Receive(w, r)
      PROVE  req'[v].kind # "Process"
  BY <1>1 DEF Receive
<1>2. ASSUME NEW w \in Workers,
             \/ AcquireLock(w)
             \/ CheckExistingMessage(w)
             \/ Increment(w)
             \/ SaveProcess(w)
             \/ SaveToBytestore(w)
             \/ InsertMessage(w)
      PROVE  req'[v].kind # "Process"
  BY <1>2 DEF AcquireLock, CheckExistingMessage, Increment, SaveProcess,
              SaveToBytestore, InsertMessage
<1>3. ASSUME NEW w \in Workers,
             \/ RejectExistingMessage(w)
             \/ SaveProcessNoAssign(w)
             \/ RejectDeepHash(w)
             \/ InsertFails(w)
             \/ Commit(w)
             \/ Fail(w)
      PROVE  req'[v].kind # "Process"
  <2>1. Return(w)
    BY <1>3 DEF RejectExistingMessage, SaveProcessNoAssign, RejectDeepHash,
                InsertFails, Commit, Fail
  <2> QED  BY <2>1 DEF Return
<1>4. CASE Crash
  BY <1>4 DEF Crash
<1>5. CASE Replicate \/ UNCHANGED vars
  BY <1>5 DEF Replicate, vars, requestVars
<1> QED
  BY <1>1, <1>2, <1>3, <1>4, <1>5 DEF Next, Step

\* Every step of the SU keeps the schedules ordered and the handlers ahead.
LEMMA OrderNext ==
    ASSUME ~ClockSteps, ~ReplicaLag \/ ~ProcessAssignment,
           TypeOK, TypeOK', LockInv, StoredIsMessage, OrderInv, [Next]_vars
    PROVE  OrderInv'
<1> USE DEF requestVars, memoryVars, storeVars, historyVars
<1>1. ASSUME NEW w \in Workers,
             \/ \E r \in Requests : Receive(w, r)
             \/ AcquireLock(w)
             \/ CheckExistingMessage(w)
             \/ SaveToBytestore(w)
      PROVE  OrderInv'
  <2>1. /\ rows' = rows /\ clock' = clock
        /\ cached' = cached /\ cache' = cache
    BY <1>1 DEF Receive, AcquireLock, CheckExistingMessage, SaveToBytestore
  <2>2. \A v \in Workers :
           /\ pc'[v] \in {"incremented", "stored"} =>
                 /\ pc[v] \in {"incremented", "stored"}
                 /\ next'[v] = next[v]
                 /\ req'[v] = req[v]
           /\ pc'[v] = "saved" => /\ pc[v] = "saved"
                                  /\ next'[v] = next[v]
                                  /\ req'[v] = req[v]
           /\ pc[v] = "saved" => pc'[v] = "saved"
    BY <1>1 DEF Receive, AcquireLock, CheckExistingMessage, SaveToBytestore,
                TypeOK
  <2> QED  BY <2>1, <2>2, OrderKept
<1>2. ASSUME NEW w \in Workers,
             \/ RejectExistingMessage(w)
             \/ RejectDeepHash(w)
             \/ InsertFails(w)
             \/ Fail(w)
      PROVE  OrderInv'
  <2>1. /\ rows' = rows /\ clock' = clock
        /\ cached' = cached /\ cache' = cache
        /\ pc[w] # "saved"
        /\ Return(w)
    BY <1>2 DEF RejectExistingMessage, RejectDeepHash, InsertFails, Fail
  <2>2. \A v \in Workers :
           /\ pc'[v] \in {"incremented", "stored"} =>
                 /\ pc[v] \in {"incremented", "stored"}
                 /\ next'[v] = next[v]
                 /\ req'[v] = req[v]
           /\ pc'[v] = "saved" => /\ pc[v] = "saved"
                                  /\ next'[v] = next[v]
                                  /\ req'[v] = req[v]
           /\ pc[v] = "saved" => pc'[v] = "saved"
    BY <2>1 DEF Return, TypeOK
  <2> QED  BY <2>1, <2>2, OrderKept
<1>3. ASSUME Crash PROVE OrderInv'
  <2>1. /\ rows' = rows /\ clock' = clock /\ cached' = {}
        /\ \A v \in Workers :
              pc'[v] # "incremented" /\ pc'[v] # "stored" /\ pc'[v] # "saved"
    BY <1>3 DEF Crash
  <2> QED  BY <2>1, OrderKept
<1>4. ASSUME Replicate \/ UNCHANGED vars PROVE OrderInv'
  <2>1. /\ rows' = rows /\ clock' = clock
        /\ cached' = cached /\ cache' = cache
        /\ pc' = pc /\ req' = req /\ next' = next
    BY <1>4 DEF Replicate, vars
  <2> QED  BY <2>1, OrderKept
<1> QED
  BY <1>1, <1>2, <1>3, <1>4, IncrementOrder, SaveOrder, SaveNoAssignOrder,
     CommitOrder DEF Next, Step

\* An SU that has stored nothing is ordered.
LEMMA OrderInit == Init => LockInv /\ StoredIsMessage /\ OrderInv
  BY DEF Init, LockInv, StoredIsMessage, OrderInv, RowsOrdered, HandlersAhead,
         CacheReached, Slots, MessageRows, ProcessRows, Held

\* Ordered slots have their own nonces, and timestamps in the nonces' order.
LEMMA OrderImplies == TypeOK /\ OrderInv => NonceUnique /\ TimestampOrder
<1> SUFFICES ASSUME TypeOK, OrderInv, NEW p \in Pids,
                    NEW r \in Slots(p), NEW s \in Slots(p)
             PROVE  /\ r.nonce = s.nonce => r = s
                    /\ r.nonce < s.nonce => r.ts < s.ts
    BY DEF NonceUnique, TimestampOrder
<1>1. r = s \/ Before(r, s) \/ Before(s, r)
  BY DEF OrderInv, RowsOrdered
<1>2. r.nonce \in Nat /\ s.nonce \in Nat  BY SlotsType
<1> QED  BY <1>1, <1>2 DEF Before

\* With a clock that advances, and the process read from the writer or no
\* process assignments, neither concurrent writers nor failed saves, reposted
\* processes or restarts ever give two items of a process the same nonce, and
\* the order of timestamps is the order of nonces.
THEOREM NoncesOrdered ==
    ASSUME ~ClockSteps, ~ReplicaLag \/ ~ProcessAssignment
    PROVE  Spec => [](NonceUnique /\ TimestampOrder)
<1> DEFINE Inv == LockInv /\ StoredIsMessage /\ OrderInv
<1>1. Init => Inv  BY OrderInit
<1>2. Inv /\ TypeOK /\ TypeOK' /\ [Next]_vars => Inv'
  BY LockNext, StoredNext, OrderNext
<1>3. Inv /\ TypeOK => NonceUnique /\ TimestampOrder  BY OrderImplies
<1> HIDE DEF Inv
<1> QED  BY <1>1, <1>2, <1>3, TypeCorrect, PTL DEF Spec

\* The order CUs read a schedule in, by timestamp, is the order of its nonces:
\* the increment of next_schedule_info reads the clock under the process' lock.
THEOREM TimestampsOrdered ==
    ASSUME ~ClockSteps, ~ReplicaLag \/ ~ProcessAssignment
    PROVE  Spec => []TimestampOrder
<1>1. Spec => [](NonceUnique /\ TimestampOrder)  BY NoncesOrdered
<1> QED  BY <1>1, PTL

-----------------------------------------------------------------------------

\* The steps that write no row.
LEMMA RowsKept ==
    ASSUME [Next]_vars, \A w \in Workers : /\ ~SaveProcess(w)
                                          /\ ~SaveProcessNoAssign(w)
                                          /\ ~InsertMessage(w)
    PROVE  rows' = rows
  BY DEF Next, Step, vars, storeVars, requestVars, Receive, AcquireLock,
         CheckExistingMessage, RejectExistingMessage, Increment,
         RejectDeepHash, SaveToBytestore, InsertFails, Commit, Fail, Crash,
         Replicate

\* A step keeps the rows there are, and a slot it adds is the one its handler
\* computed under the lock, after every slot of that process.
LEMMA AppendNext ==
    ASSUME TypeOK, OrderInv, [Next]_vars
    PROVE  /\ rows \subseteq rows'
           /\ \A p \in Pids : \A r \in Slots(p), s \in Slots(p)' \ Slots(p) :
                 r.nonce < s.nonce
<1>1. CASE rows' = rows
  <2>1. \A p \in Pids : Slots(p)' = Slots(p)
    BY <1>1 DEF Slots, MessageRows, ProcessRows
  <2> QED  BY <1>1, <2>1
<1>2. CASE rows' # rows
  <2>1. PICK w \in Workers :
           SaveProcess(w) \/ SaveProcessNoAssign(w) \/ InsertMessage(w)
    BY <1>2, RowsKept
  <2>2. /\ rows' = rows \cup {NewRow(w)}
        /\ pc[w] \in {"incremented", "stored"}
    BY <1>2, <2>1 DEF SaveProcess, SaveProcessNoAssign, InsertProcess,
                      InsertMessage
  <2>3. Ahead(w)  BY <2>2 DEF OrderInv, HandlersAhead
  <2>4. ASSUME NEW p \in Pids, NEW r \in Slots(p),
               NEW s \in Slots(p)' \ Slots(p)
        PROVE  r.nonce < s.nonce
    <3>1. p = Target(w) /\ s = NewRow(w)  BY <2>2, <2>4, InsertSlots
    <3> QED  BY <2>3, <2>4, <3>1 DEF Ahead, Before, NewRow
  <2> QED  BY <2>2, <2>4
<1> QED  BY <1>1, <1>2

\* What a slot says never changes, no slot disappears, and a new slot goes to
\* the end of its process' schedule: neither a concurrent writer nor a failed
\* save, a reposted process or a restart rewrites what a CU has read.
THEOREM SchedulesAppendOnly ==
    ASSUME ~ClockSteps, ~ReplicaLag \/ ~ProcessAssignment
    PROVE  Spec => AppendOnly
<1> DEFINE Inv == LockInv /\ StoredIsMessage /\ OrderInv
           Appends == /\ rows \subseteq rows'
                      /\ \A p \in Pids :
                            \A r \in Slots(p), s \in Slots(p)' \ Slots(p) :
                               r.nonce < s.nonce
<1>1. Init => Inv  BY OrderInit
<1>2. Inv /\ TypeOK /\ TypeOK' /\ [Next]_vars => Inv'
  BY LockNext, StoredNext, OrderNext
<1>3. Inv /\ TypeOK /\ [Next]_vars => [Appends]_vars  BY AppendNext
<1>4. [][Appends]_vars => AppendOnly  BY PTL DEF AppendOnly
<1> HIDE DEF Inv, Appends
<1> QED  BY <1>1, <1>2, <1>3, <1>4, TypeCorrect, PTL DEF Spec

-----------------------------------------------------------------------------
(* The chain: every item continues one that is stored. *)

\* The item i opens the schedule of p or follows the slot r of it.
Continues(p, i) ==
    \/ i.nonce = 0 /\ i.chain = <<>>
    \/ \E r \in Slots(p) : i.nonce = r.nonce + 1 /\ i.chain = Append(r.chain, r.aid)

\* The schedule of p has a slot with this nonce, chain and assignment.
HasSlot(p, nonce, chain, id) ==
    \E r \in Slots(p) : r.nonce = nonce /\ r.chain = chain /\ r.aid = id

RowsChained == \A p \in Pids : \A s \in Slots(p) : Continues(p, s)

HandlersChained ==
    \A w \in Workers :
       /\ pc[w] \in {"incremented", "stored"} => Continues(Target(w), next[w])
       /\ pc[w] = "saved" =>
             HasSlot(Target(w), next[w].nonce, next[w].chain, aid[w])

CacheChained ==
    \A p \in cached : HasSlot(p, cache[p].nonce, cache[p].chain, cache[p].aid)

ChainInv == RowsChained /\ HandlersChained /\ CacheChained

\* A Process that is sent once reaches the database once.
SpawnOf(p) == [kind |-> "Process", pid |-> p, item |-> p]

SpawnedOnce ==
    /\ \A w \in Workers : pc[w] # "idle" => req[w] \in posted \cap Requests
    /\ \A w, v \in Workers :
          /\ pc[w] # "idle" /\ pc[v] # "idle"
          /\ req[w].kind = "Process" /\ req[w] = req[v]
          => w = v
    /\ \A r \in rows : r.kind = "Process" => SpawnOf(r.pid) \in posted
    /\ \A w \in Workers :
          pc[w] \notin {"idle", "saved"} /\ req[w].kind = "Process" =>
             ProcessRows(Target(w), rows) = {}

-----------------------------------------------------------------------------

\* Only one request spawns a process.
LEMMA SpawnRequest ==
    ASSUME NEW r \in Requests, r.kind = "Process"
    PROVE  r = SpawnOf(r.pid)
  BY Constants DEF SpawnOf, Request

\* Steps that change neither the rows nor what is posted, and after which
\* every busy handler was busy with the same request before.
LEMMA SpawnedKept ==
    ASSUME TypeOK, SpawnedOnce, rows' = rows, posted' = posted,
           \A v \in Workers :
              /\ pc'[v] # "idle" => pc[v] # "idle" /\ req'[v] = req[v]
              /\ pc'[v] \notin {"idle", "saved"} => pc[v] # "saved"
    PROVE  SpawnedOnce'
<1>1. \A v \in Workers : req'[v] = req[v] => Target(v)' = Target(v)
  BY DEF Target
<1>2. \A v \in Workers : pc'[v] \notin {"idle", "saved"} =>
         /\ pc[v] \notin {"idle", "saved"}
         /\ req'[v] = req[v]
  OBVIOUS
<1>3. ASSUME NEW w \in Workers, pc'[w] \notin {"idle", "saved"},
             req'[w].kind = "Process"
      PROVE  ProcessRows(Target(w), rows)' = {}
  <2>1. ProcessRows(Target(w), rows) = {}
    BY <1>2, <1>3 DEF SpawnedOnce
  <2> QED  BY <1>1, <1>2, <1>3, <2>1 DEF ProcessRows
<1> QED  BY <1>3 DEF SpawnedOnce

\* Every step keeps the spawn of a process in one place.
LEMMA SpawnedNext ==
    ASSUME ~ProcessReposts, TypeOK, SpawnedOnce, StoredIsMessage, [Next]_vars
    PROVE  SpawnedOnce'
<1> USE DEF requestVars, memoryVars, storeVars, historyVars
<1>1. ASSUME NEW w \in Workers, NEW r \in Requests, Receive(w, r)
      PROVE  SpawnedOnce'
  <2>1. /\ pc[w] = "idle" /\ pc'[w] = "waiting" /\ req'[w] = r
        /\ posted' = posted \cup {r} /\ rows' = rows
        /\ r.kind = "Process" => r \notin posted
        /\ \A v \in Workers : v # w => pc'[v] = pc[v] /\ req'[v] = req[v]
    BY <1>1 DEF Receive, TypeOK
  <2>2. \A v \in Workers : pc'[v] # "idle" => req'[v] \in posted' \cap Requests
    BY <2>1 DEF SpawnedOnce
  <2>3. \A v, u \in Workers :
          /\ pc'[v] # "idle" /\ pc'[u] # "idle"
          /\ req'[v].kind = "Process" /\ req'[v] = req'[u]
          => v = u
    BY <2>1 DEF SpawnedOnce
  <2>4. \A q \in rows' : q.kind = "Process" => SpawnOf(q.pid) \in posted'
    BY <2>1 DEF SpawnedOnce
  <2>5. ASSUME NEW v \in Workers, pc'[v] \notin {"idle", "saved"},
               req'[v].kind = "Process"
        PROVE  ProcessRows(Target(v), rows)' = {}
    <3>1. CASE v = w
      <4>1. r = SpawnOf(r.pid)  BY <2>1, <2>5, <3>1, SpawnRequest
      <4>2. SpawnOf(r.pid) \notin posted  BY <2>1, <2>5, <3>1, <4>1
      <4>3. \A q \in rows : ~(q.kind = "Process" /\ q.pid = r.pid)
        BY <4>2 DEF SpawnedOnce
      <4> QED  BY <2>1, <3>1, <4>3 DEF ProcessRows, Target
    <3>2. CASE v # w
      <4>1. ProcessRows(Target(v), rows) = {}
        BY <2>1, <2>5, <3>2 DEF SpawnedOnce
      <4> QED  BY <2>1, <3>2, <4>1 DEF ProcessRows, Target
    <3> QED  BY <3>1, <3>2
  <2> QED  BY <2>2, <2>3, <2>4, <2>5 DEF SpawnedOnce
<1>2. ASSUME NEW w \in Workers,
             \/ AcquireLock(w)
             \/ CheckExistingMessage(w)
             \/ Increment(w)
             \/ SaveToBytestore(w)
      PROVE  SpawnedOnce'
  <2>1. /\ rows' = rows /\ posted' = posted /\ req' = req
        /\ \A v \in Workers :
              /\ pc'[v] # "idle" => pc[v] # "idle"
              /\ pc'[v] \notin {"idle", "saved"} => pc[v] # "saved"
    BY <1>2 DEF AcquireLock, CheckExistingMessage, Increment, SaveToBytestore,
                TypeOK
  <2> QED  BY <2>1, SpawnedKept
<1>3. ASSUME NEW w \in Workers,
             \/ RejectExistingMessage(w)
             \/ RejectDeepHash(w)
             \/ InsertFails(w)
             \/ Commit(w)
             \/ Fail(w)
      PROVE  SpawnedOnce'
  <2>1. rows' = rows /\ posted' = posted /\ Return(w)
    BY <1>3 DEF RejectExistingMessage, RejectDeepHash, InsertFails, Commit, Fail
  <2>2. \A v \in Workers :
           /\ pc'[v] # "idle" => pc[v] # "idle" /\ req'[v] = req[v]
           /\ pc'[v] \notin {"idle", "saved"} => pc[v] # "saved"
    BY <2>1 DEF Return, TypeOK
  <2> QED  BY <2>1, <2>2, SpawnedKept
<1>4. ASSUME NEW w \in Workers, SaveProcess(w) \/ SaveProcessNoAssign(w)
      PROVE  SpawnedOnce'
  <2>1. /\ pc[w] = "incremented" /\ pc'[w] \in {"saved", "idle"}
        /\ req[w].kind = "Process" /\ posted' = posted
        /\ rows' = rows \/ rows' = rows \cup {NewRow(w)}
        /\ \A v \in Workers : v # w => pc'[v] = pc[v]
        /\ \A v \in Workers : pc'[v] # "idle" => req'[v] = req[v]
    BY <1>4 DEF SaveProcess, SaveProcessNoAssign, InsertProcess, Return, TypeOK
  <2>2. req[w] \in posted /\ req[w] \in Requests /\ req[w] = SpawnOf(req[w].pid)
    BY <2>1, SpawnRequest DEF SpawnedOnce
  <2>3. \A q \in rows' : q.kind = "Process" => SpawnOf(q.pid) \in posted'
    BY <2>1, <2>2 DEF SpawnedOnce, NewRow
  <2>4. ASSUME NEW v \in Workers, pc'[v] \notin {"idle", "saved"},
               req'[v].kind = "Process"
        PROVE  ProcessRows(Target(v), rows)' = {}
    <3>1. v # w /\ pc[v] \notin {"idle", "saved"} /\ req'[v] = req[v]
      BY <2>1, <2>4
    <3>2. req[v] \in Requests /\ req[v] # req[w]
      BY <2>1, <2>4, <3>1 DEF SpawnedOnce
    <3>3. req[v].pid # req[w].pid
      BY <2>2, <2>4, <3>1, <3>2, SpawnRequest
    <3>4. ProcessRows(Target(v), rows) = {}
      BY <2>4, <3>1 DEF SpawnedOnce
    <3> QED  BY <2>1, <3>1, <3>3, <3>4 DEF ProcessRows, Target, NewRow
  <2> QED  BY <2>1, <2>3, <2>4 DEF SpawnedOnce
<1>5. ASSUME NEW w \in Workers, InsertMessage(w) PROVE SpawnedOnce'
  <2>1. /\ pc[w] = "stored" /\ pc'[w] = "saved"
        /\ posted' = posted /\ req' = req
        /\ rows' = rows \cup {NewRow(w)}
        /\ NewRow(w).kind # "Process"
        /\ \A v \in Workers : v # w => pc'[v] = pc[v]
    BY <1>5 DEF InsertMessage, NewRow, StoredIsMessage, TypeOK
  <2>2. \A v \in Workers :
           /\ Target(v)' = Target(v)
           /\ ProcessRows(Target(v), rows)' = ProcessRows(Target(v), rows)
    BY <2>1 DEF ProcessRows, Target
  <2> QED  BY <2>1, <2>2 DEF SpawnedOnce
<1>6. ASSUME Crash PROVE SpawnedOnce'
  <2>1. rows' = rows /\ posted' = posted /\ \A v \in Workers : pc'[v] = "idle"
    BY <1>6 DEF Crash
  <2> QED  BY <2>1, SpawnedKept
<1>7. ASSUME Replicate \/ UNCHANGED vars PROVE SpawnedOnce'
  <2>1. rows' = rows /\ posted' = posted /\ pc' = pc /\ req' = req
    BY <1>7 DEF Replicate, vars
  <2> QED  BY <2>1, SpawnedKept
<1>8. ASSUME NEW w \in Workers, AcquireLock(w) \/ Step(w) PROVE SpawnedOnce'
  BY <1>2, <1>3, <1>4, <1>5, <1>8 DEF Step
<1> QED
  BY <1>1, <1>2, <1>6, <1>7, <1>8 DEF Next
-----------------------------------------------------------------------------

\* What increment computes opens the schedule or continues it.
LEMMA SuccessorContinues ==
    ASSUME TypeOK, CacheChained, NEW p \in Pids, NEW s \in Successors(p)
    PROVE  Continues(p, s)
<1>1. CASE p \in cached
  <2>1. s = Following(cache[p])
    BY <1>1 DEF Successors
  <2>2. PICK r \in Slots(p) : /\ r.nonce = cache[p].nonce /\ r.chain = cache[p].chain
                              /\ r.aid = cache[p].aid
    BY <1>1 DEF CacheChained, HasSlot
  <2>3. s.nonce = r.nonce + 1 /\ s.chain = Append(r.chain, r.aid)
    BY <2>1, <2>2 DEF Following
  <2>4. QED
    BY <2>3 DEF Continues
<1>2. CASE p \notin cached /\ MessageRows(p) # {}
  BY <1>2 DEF Continues, Successors, Following, LatestMessages, Slots
<1>3. CASE /\ p \notin cached
           /\ MessageRows(p) = {}
           /\ ProcessAssignment
           /\ ProcessRows(p, ReadRows) # {}
  <2>1. PICK r \in ProcessRows(p, ReadRows) : s = Following(r)
    BY <1>3 DEF Successors
  <2>2. r \in Slots(p)
    BY <1>3, <2>1 DEF Slots, ProcessRows, ReadRows
  <2> QED  BY <2>1, <2>2 DEF Continues, Following
<1>4. CASE s = Opening
  BY <1>4 DEF Continues, Opening
<1> QED  BY <1>1, <1>2, <1>3, <1>4 DEF Successors

\* Growing schedules keep what is known of their slots.
LEMMA SlotsGrow ==
    ASSUME rows \subseteq rows', NEW p \in Pids
    PROVE  /\ Slots(p) \subseteq Slots(p)'
           /\ \A i : Continues(p, i) =>
                 \/ i.nonce = 0 /\ i.chain = <<>>
                 \/ \E r \in Slots(p)' : /\ i.nonce = r.nonce + 1
                                        /\ i.chain = Append(r.chain, r.aid)
           /\ \A n, c, a : HasSlot(p, n, c, a) =>
                 \E r \in Slots(p)' : r.nonce = n /\ r.chain = c /\ r.aid = a
<1>1. Slots(p) \subseteq Slots(p)'
  BY DEF Slots, MessageRows, ProcessRows
<1> QED  BY <1>1 DEF Continues, HasSlot

\* Steps that leave the schedules alone, or add a slot that continues one,
\* and bring no other handler to the point where it has a nonce.
LEMMA ChainKept ==
    ASSUME TypeOK, TypeOK', ChainInv, rows \subseteq rows',
           \A p \in Pids : \A s \in Slots(p)' : s \in Slots(p) \/ Continues(p, s),
           cached' = {} \/ (cached' = cached /\ cache' = cache),
           NEW H \in SUBSET Workers,
           \A v \in H :
              /\ pc'[v] \in {"incremented", "stored"} =>
                    /\ pc[v] \in {"incremented", "stored"}
                    /\ next'[v] = next[v]
                    /\ req'[v] = req[v]
              /\ pc'[v] = "saved" => /\ pc[v] = "saved"
                                     /\ next'[v] = next[v]
                                     /\ req'[v] = req[v]
                                     /\ aid'[v] = aid[v]
    PROVE  /\ RowsChained'
           /\ CacheChained'
           /\ \A w \in H :
                /\ pc'[w] \in {"incremented", "stored"} =>
                      Continues(Target(w), next[w])'
                /\ pc'[w] = "saved" =>
                      HasSlot(Target(w), next[w].nonce, next[w].chain, aid[w])'
<1>1. RowsChained'
  <2> SUFFICES ASSUME NEW p \in Pids, NEW s \in Slots(p)'
               PROVE  Continues(p, s)'
      BY DEF RowsChained
  <2>1. Continues(p, s)  BY DEF ChainInv, RowsChained
  <2> QED  BY <2>1, SlotsGrow DEF Continues
<1>2. CacheChained'
  <2> SUFFICES ASSUME NEW p \in cached'
               PROVE  HasSlot(p, cache[p].nonce, cache[p].chain, cache[p].aid)'
      BY DEF CacheChained
  <2>1. p \in cached /\ cache' = cache /\ p \in Pids  BY DEF TypeOK
  <2>2. HasSlot(p, cache[p].nonce, cache[p].chain, cache[p].aid)
    BY <2>1 DEF ChainInv, CacheChained
  <2> QED  BY <2>1, <2>2, SlotsGrow DEF HasSlot
<1>3. ASSUME NEW w \in H, pc'[w] \in {"incremented", "stored"}
      PROVE  Continues(Target(w), next[w])'
  <2>1. Target(w)' = Target(w) /\ Target(w) \in Pids /\ next'[w] = next[w]
    BY <1>3 DEF Target, TypeOK, Request
  <2>2. Continues(Target(w), next[w])
    BY <1>3 DEF ChainInv, HandlersChained
  <2> QED  BY <2>1, <2>2, SlotsGrow DEF Continues, Slots, MessageRows, ProcessRows
<1>4. ASSUME NEW w \in H, pc'[w] = "saved"
      PROVE  HasSlot(Target(w), next[w].nonce, next[w].chain, aid[w])'
  <2>1. /\ Target(w)' = Target(w) /\ Target(w) \in Pids
        /\ next'[w] = next[w] /\ aid'[w] = aid[w]
    BY <1>4 DEF Target, TypeOK, Request
  <2>2. HasSlot(Target(w), next[w].nonce, next[w].chain, aid[w])
    BY <1>4 DEF ChainInv, HandlersChained
  <2> QED  BY <2>1, <2>2, SlotsGrow DEF HasSlot, Slots, MessageRows, ProcessRows
<1> QED  BY <1>1, <1>2, <1>3, <1>4

\* What a handler computes under the lock continues a slot.
LEMMA IncrementChain ==
    ASSUME TypeOK, TypeOK', ChainInv, NEW w \in Workers, Increment(w)
    PROVE  ChainInv'
<1> DEFINE H == Workers \ {w}
<1>1. /\ rows' = rows /\ req' = req /\ aid' = aid
      /\ cached' = cached /\ cache' = cache
      /\ pc'[w] = "incremented"
      /\ \A v \in H : pc'[v] = pc[v] /\ next'[v] = next[v]
      /\ \E s \in Successors(Target(w)) :
            next'[w].nonce = s.nonce /\ next'[w].chain = s.chain
  BY DEF Increment, memoryVars, storeVars, TypeOK
<1>2. \A p \in Pids : Slots(p)' = Slots(p)
  BY <1>1 DEF Slots, MessageRows, ProcessRows
<1>3. /\ RowsChained' /\ CacheChained'
      /\ \A v \in H :
            /\ pc'[v] \in {"incremented", "stored"} =>
                  Continues(Target(v), next[v])'
            /\ pc'[v] = "saved" =>
                  HasSlot(Target(v), next[v].nonce, next[v].chain, aid[v])'
  BY <1>1, <1>2, ChainKept
<1>4. Continues(Target(w), next[w])'
  <2>1. Target(w) \in Pids /\ Target(w)' = Target(w)
    BY <1>1 DEF Target, TypeOK, Request
  <2>2. PICK s \in Successors(Target(w)) :
            next'[w].nonce = s.nonce /\ next'[w].chain = s.chain
    BY <1>1
  <2>3. Continues(Target(w), s)
    BY <2>1, SuccessorContinues DEF ChainInv
  <2> QED
    BY <1>1, <2>1, <2>2, <2>3 DEF Continues, Slots, MessageRows, ProcessRows
<1> QED  BY <1>1, <1>3, <1>4 DEF ChainInv, HandlersChained

\* The slot a handler saves: it continues the schedule, and is there after.
LEMMA SaveChain ==
    ASSUME ~ProcessReposts, TypeOK, TypeOK', ChainInv, SpawnedOnce,
           StoredIsMessage, NEW w \in Workers, SaveProcess(w) \/ InsertMessage(w)
    PROVE  ChainInv'
<1> DEFINE H == Workers \ {w}
           n == NewRow(w)
<1>1. /\ pc[w] \in {"incremented", "stored"} /\ pc'[w] = "saved"
      /\ req' = req /\ next' = next
      /\ aid' = [aid EXCEPT ![w] = nextAid]
      /\ cached' = cached /\ cache' = cache
      /\ \A v \in H : pc'[v] = pc[v]
      /\ req[w].kind = "Process" => ProcessAssignment
  BY DEF SaveProcess, InsertMessage, memoryVars, TypeOK, StoredIsMessage
<1>2. rows' = rows \cup {n}
  <2>1. SaveProcess(w) => ProcessRows(Target(w), rows) = {}
    BY DEF SaveProcess, SpawnedOnce
  <2> QED  BY <2>1 DEF SaveProcess, InsertProcess, InsertMessage
<1>3. /\ n.nonce = next[w].nonce /\ n.chain = next[w].chain
      /\ n.aid = nextAid /\ n.pid = Target(w) /\ n.kind = req[w].kind
  BY DEF NewRow, Target
<1>4. Target(w) \in Pids /\ Target(w)' = Target(w)
  BY <1>1 DEF Target, TypeOK, Request
<1>5. Continues(Target(w), n)
  BY <1>1, <1>3 DEF ChainInv, HandlersChained, Continues
<1>6. \A p \in Pids : \A s \in Slots(p)' : s \in Slots(p) \/ Continues(p, s)
  BY <1>2, <1>3, <1>5 DEF Slots, MessageRows, ProcessRows
<1>7. /\ RowsChained' /\ CacheChained'
      /\ \A v \in H :
            /\ pc'[v] \in {"incremented", "stored"} =>
                  Continues(Target(v), next[v])'
            /\ pc'[v] = "saved" =>
                  HasSlot(Target(v), next[v].nonce, next[v].chain, aid[v])'
  <2>1. \A v \in H : aid'[v] = aid[v]  BY <1>1 DEF TypeOK
  <2>2. rows \subseteq rows'  BY <1>2
  <2> QED  BY <1>1, <1>6, <2>1, <2>2, ChainKept
<1>8. HasSlot(Target(w), next[w].nonce, next[w].chain, aid[w])'
  <2>1. \A p \in Pids : p = Target(w) => n \in Slots(p)'
    BY <1>1, <1>2, <1>3 DEF Slots, MessageRows, ProcessRows
  <2>2. aid'[w] = nextAid  BY <1>1 DEF TypeOK
  <2> QED
    BY <1>1, <1>3, <1>4, <2>1, <2>2 DEF HasSlot, Slots, MessageRows, ProcessRows
<1> QED  BY <1>1, <1>7, <1>8 DEF ChainInv, HandlersChained

\* Every step keeps the schedules chained.
LEMMA ChainNext ==
    ASSUME ~ProcessReposts, TypeOK, TypeOK', SpawnedOnce, StoredIsMessage,
           ChainInv, [Next]_vars
    PROVE  ChainInv'
<1> USE DEF requestVars, memoryVars, storeVars, historyVars
<1>0. rows' = rows => \A p \in Pids : Slots(p)' = Slots(p)
  BY DEF Slots, MessageRows, ProcessRows
<1>1. ASSUME NEW w \in Workers,
             \/ \E r \in Requests : Receive(w, r)
             \/ AcquireLock(w)
             \/ CheckExistingMessage(w)
             \/ SaveToBytestore(w)
      PROVE  ChainInv'
  <2>1. /\ rows' = rows
        /\ cached' = cached /\ cache' = cache
        /\ \A v \in Workers :
              /\ pc'[v] \in {"incremented", "stored"} =>
                    /\ pc[v] \in {"incremented", "stored"}
                    /\ next'[v] = next[v]
                    /\ req'[v] = req[v]
              /\ pc'[v] = "saved" => /\ pc[v] = "saved"
                                     /\ next'[v] = next[v]
                                     /\ req'[v] = req[v]
                                     /\ aid'[v] = aid[v]
    BY <1>1 DEF Receive, AcquireLock, CheckExistingMessage, SaveToBytestore,
                TypeOK
  <2> QED  BY <1>0, <2>1, ChainKept DEF ChainInv, HandlersChained
<1>2. ASSUME NEW w \in Workers,
             \/ RejectExistingMessage(w)
             \/ RejectDeepHash(w)
             \/ InsertFails(w)
             \/ Fail(w)
             \/ SaveProcessNoAssign(w)
      PROVE  ChainInv'
  <2>1. /\ rows \subseteq rows' /\ Return(w)
        /\ cached' = cached /\ cache' = cache
    BY <1>2 DEF RejectExistingMessage, RejectDeepHash, InsertFails, Fail,
                SaveProcessNoAssign, InsertProcess
  <2>2. \A p \in Pids : Slots(p)' = Slots(p)
    BY <1>2 DEF RejectExistingMessage, RejectDeepHash, InsertFails, Fail,
                SaveProcessNoAssign, InsertProcess, NewRow, Slots, MessageRows,
                ProcessRows
  <2>3. \A v \in Workers :
              /\ pc'[v] \in {"incremented", "stored"} =>
                    /\ pc[v] \in {"incremented", "stored"}
                    /\ next'[v] = next[v]
                    /\ req'[v] = req[v]
              /\ pc'[v] = "saved" => /\ pc[v] = "saved"
                                     /\ next'[v] = next[v]
                                     /\ req'[v] = req[v]
                                     /\ aid'[v] = aid[v]
    BY <2>1 DEF Return, TypeOK
  <2> QED  BY <2>1, <2>2, <2>3, ChainKept DEF ChainInv, HandlersChained
<1>3. ASSUME NEW w \in Workers, Commit(w) PROVE ChainInv'
  <2>1. /\ rows' = rows /\ Return(w) /\ pc[w] = "saved"
        /\ cached' = cached \cup {Target(w)}
        /\ \A p \in Pids : p # Target(w) => cache'[p] = cache[p]
        /\ cache'[Target(w)].nonce = next[w].nonce
        /\ cache'[Target(w)].chain = next[w].chain
        /\ cache'[Target(w)].aid = aid[w]
    BY <1>3 DEF Commit, TypeOK, Target, Request
  <2>2. CacheChained'
    BY <1>0, <2>1 DEF ChainInv, CacheChained, HandlersChained, HasSlot, TypeOK
  <2>3. RowsChained'
    BY <1>0, <2>1 DEF ChainInv, RowsChained, Continues
  <2>4. ASSUME NEW v \in Workers
        PROVE  /\ pc'[v] \in {"incremented", "stored"} =>
                     Continues(Target(v), next[v])'
               /\ pc'[v] = "saved" =>
                     HasSlot(Target(v), next[v].nonce, next[v].chain, aid[v])'
    <3>1. v = w => pc'[v] = "idle"  BY <2>1 DEF Return, TypeOK
    <3>2. v # w => /\ pc'[v] = pc[v] /\ next'[v] = next[v]
                   /\ req'[v] = req[v] /\ aid'[v] = aid[v]
      BY <2>1 DEF Return, TypeOK
    <3>3. v # w => Target(v)' = Target(v)
      BY <3>2 DEF Target
    <3>4. v # w => Slots(Target(v))' = Slots(Target(v))
      BY <2>1, <3>3 DEF Slots, MessageRows, ProcessRows
    <3> QED
      BY <3>1, <3>2, <3>3, <3>4 DEF ChainInv, HandlersChained, Continues, HasSlot
  <2> QED  BY <2>2, <2>3, <2>4 DEF ChainInv, HandlersChained
<1>4. ASSUME Crash PROVE ChainInv'
  <2>1. /\ rows' = rows /\ cached' = {}
        /\ \A v \in Workers :
              pc'[v] # "incremented" /\ pc'[v] # "stored" /\ pc'[v] # "saved"
    BY <1>4 DEF Crash
  <2> QED  BY <1>0, <2>1, ChainKept DEF ChainInv, HandlersChained
<1>5. ASSUME Replicate \/ UNCHANGED vars PROVE ChainInv'
  <2>1. /\ rows' = rows
        /\ cached' = cached /\ cache' = cache
        /\ pc' = pc /\ req' = req /\ next' = next /\ aid' = aid
    BY <1>5 DEF Replicate, vars
  <2> QED  BY <1>0, <2>1, ChainKept DEF ChainInv, HandlersChained
<1> QED
  BY <1>1, <1>2, <1>3, <1>4, <1>5, IncrementChain, SaveChain DEF Next, Step

\* Slots that continue one another have the chain the SU promises.
LEMMA ChainImplies == TypeOK /\ ChainInv => HashChained
<1> SUFFICES ASSUME TypeOK, ChainInv, NEW p \in Pids, NEW s \in Slots(p)
             PROVE  IF s.nonce = 0
                    THEN s.chain = <<>>
                    ELSE \E r \in Slots(p) : /\ s.nonce = r.nonce + 1
                                             /\ s.chain = Append(r.chain, r.aid)
    BY DEF HashChained
<1>1. Continues(p, s)  BY DEF ChainInv, RowsChained
<1>2. \A r \in Slots(p) : r.nonce + 1 # 0  BY SlotsType
<1> QED  BY <1>1, <1>2 DEF Continues

\* An SU that has stored nothing is chained.
LEMMA ChainInit == Init => StoredIsMessage /\ SpawnedOnce /\ ChainInv
  BY DEF Init, StoredIsMessage, SpawnedOnce, ChainInv, RowsChained,
         HandlersChained, CacheChained, Slots, MessageRows, ProcessRows

\* If no Process is sent twice, every item of a schedule follows the one with
\* the nonce before its own and is chained to it: no nonce is missing, with
\* any clock, replica lag, failed saves and restarts.
THEOREM SchedulesChained == ASSUME ~ProcessReposts PROVE Spec => []HashChained
<1> DEFINE Inv == StoredIsMessage /\ SpawnedOnce /\ ChainInv
<1>1. Init => Inv  BY ChainInit
<1>2. Inv /\ TypeOK /\ TypeOK' /\ [Next]_vars => Inv'
  BY StoredNext, SpawnedNext, ChainNext
<1>3. Inv /\ TypeOK => HashChained  BY ChainImplies
<1> HIDE DEF Inv
<1> QED  BY <1>1, <1>2, <1>3, TypeCorrect, PTL DEF Spec
-----------------------------------------------------------------------------
(* SuScheduler implements SuSchedule. *)

\* Ids are handed out in increasing order.
IdsBelow == \A r \in rows : r.aid < nextAid

\* Every step keeps the ids of the rows below the next one.
LEMMA IdsNext == TypeOK /\ IdsBelow /\ [Next]_vars => IdsBelow'
<1> SUFFICES ASSUME TypeOK, IdsBelow, [Next]_vars PROVE IdsBelow'  OBVIOUS
<1> USE DEF requestVars, memoryVars, storeVars, historyVars
<1>1. \A r \in rows : r.aid \in Nat  BY DEF TypeOK, Row
<1>2. nextAid \in Nat  BY DEF TypeOK
<1>3. CASE rows' = rows /\ nextAid' = nextAid
  BY <1>3 DEF IdsBelow
<1>4. ASSUME NEW w \in Workers,
             SaveProcess(w) \/ SaveProcessNoAssign(w) \/ InsertMessage(w)
      PROVE  IdsBelow'
  <2>1. nextAid' = nextAid + 1 /\ \A r \in rows' : r \in rows \/ r.aid = nextAid
    BY <1>4 DEF SaveProcess, SaveProcessNoAssign, InsertMessage, InsertProcess,
                NewRow
  <2> QED  BY <1>1, <1>2, <2>1 DEF IdsBelow
<1>5. CASE UNCHANGED vars  BY <1>3, <1>5 DEF vars
<1>6. ASSUME NEW w \in Workers,
             \/ \E r \in Requests : Receive(w, r)
             \/ AcquireLock(w)
             \/ CheckExistingMessage(w)
             \/ RejectExistingMessage(w)
             \/ Increment(w)
             \/ RejectDeepHash(w)
             \/ SaveToBytestore(w)
             \/ InsertFails(w)
             \/ Commit(w)
             \/ Fail(w)
      PROVE  IdsBelow'
  BY <1>3, <1>6 DEF Receive, AcquireLock, CheckExistingMessage,
     RejectExistingMessage, Increment, RejectDeepHash, SaveToBytestore,
     InsertFails, Commit, Fail
<1>7. CASE Crash \/ Replicate  BY <1>3, <1>7 DEF Crash, Replicate
<1> QED  BY <1>4, <1>5, <1>6, <1>7 DEF Next, Step

\* The abstract schedule of a process is the image of its slots.
LEMMA SlotsMapped ==
    ASSUME NEW p \in Pids
    PROVE  Schedule!SlotsOf(p) = {SlotOf(r) : r \in Slots(p)}
  BY DEF Schedule!SlotsOf, AllSlots, SlotOf, Slots, MessageRows, ProcessRows

\* Saving a slot appends it to the abstract schedule of its process.
LEMMA SaveAppends ==
    ASSUME TypeOK, OrderInv, ChainInv, SpawnedOnce, StoredIsMessage, IdsBelow,
           NEW w \in Workers, SaveProcess(w) \/ InsertMessage(w)
    PROVE  Schedule!Assign
<1> DEFINE n == NewRow(w)
           p == Target(w)
<1>1. /\ pc[w] \in {"incremented", "stored"}
      /\ req[w].kind = "Process" => ProcessAssignment
  BY DEF SaveProcess, InsertMessage, StoredIsMessage
<1>2. rows' = rows \cup {n}
  <2>1. SaveProcess(w) => ProcessRows(Target(w), rows) = {}
    BY DEF SaveProcess, SpawnedOnce
  <2> QED  BY <2>1 DEF SaveProcess, InsertProcess, InsertMessage
<1>3. /\ n.nonce = next[w].nonce /\ n.chain = next[w].chain
      /\ n.aid = nextAid /\ n.pid = p /\ n.kind = req[w].kind
  BY DEF NewRow, Target
<1>4. p \in Pids  BY DEF Target, TypeOK, Request
<1>5. AllSlots' = AllSlots \cup {SlotOf(n)}
  <2>1. \A q \in Pids : Slots(q)' = IF q = p THEN Slots(q) \cup {n} ELSE Slots(q)
    BY <1>1, <1>2, <1>3 DEF Slots, MessageRows, ProcessRows
  <2> QED  BY <1>4, <2>1 DEF AllSlots, SlotOf
<1>6. \A t \in AllSlots : t.aid # SlotOf(n).aid
  <2>1. \A r \in rows : r.aid # nextAid  BY DEF IdsBelow, TypeOK, Row
  <2> QED  BY <1>3, <2>1 DEF AllSlots, SlotOf, Slots, MessageRows, ProcessRows
<1>7. Continues(p, n)
  BY <1>1, <1>3 DEF ChainInv, HandlersChained, Continues
<1>8. \A r \in Slots(p) : r.nonce < n.nonce /\ r.nonce \in Nat
  BY <1>1, <1>3, <1>4, SlotsType DEF OrderInv, HandlersAhead, Ahead, Before
<1>9. SlotOf(n).pid = p /\ SlotOf(n).nonce = n.nonce /\ SlotOf(n).chain = n.chain
  BY <1>3 DEF SlotOf
<1>10. CASE n.nonce = 0 /\ n.chain = <<>>
  <2>1. Slots(p) = {}  BY <1>8, <1>10
  <2>2. Schedule!IsFirst(SlotOf(n))
    BY <1>4, <1>9, <1>10, <2>1, SlotsMapped DEF Schedule!IsFirst
  <2> QED  BY <1>4, <1>5, <1>6, <1>9, <2>2 DEF Schedule!Assign
<1>11. CASE \E r \in Slots(p) : /\ n.nonce = r.nonce + 1
                                /\ n.chain = Append(r.chain, r.aid)
  <2>1. PICK r \in Slots(p) : /\ n.nonce = r.nonce + 1
                              /\ n.chain = Append(r.chain, r.aid)
    BY <1>11
  <2>2. \A o \in Slots(p) : o.nonce <= r.nonce
    BY <1>8, <2>1
  <2>3. /\ SlotOf(r) \in Schedule!SlotsOf(p)
        /\ \A t \in Schedule!SlotsOf(p) : t.nonce <= SlotOf(r).nonce
    BY <1>4, <2>2, SlotsMapped DEF SlotOf
  <2>4. SlotOf(n).nonce = SlotOf(r).nonce + 1
    BY <1>9, <2>1 DEF SlotOf
  <2>5. SlotOf(n).chain = Append(SlotOf(r).chain, SlotOf(r).aid)
    BY <1>9, <2>1 DEF SlotOf
  <2>6. Schedule!IsAfterLast(SlotOf(n))
    <3> HIDE DEF n, p
    <3> QED  BY <1>9, <2>3, <2>4, <2>5, Zenon DEF Schedule!IsAfterLast
  <2> QED  BY <1>4, <1>5, <1>6, <1>9, <2>6 DEF Schedule!Assign
<1> QED  BY <1>7, <1>10, <1>11 DEF Continues

\* Every other step leaves the abstract schedules as they are.
LEMMA OthersStutter ==
    ASSUME [Next]_vars,
           ~ \E w \in Workers : SaveProcess(w) \/ InsertMessage(w)
    PROVE  UNCHANGED AllSlots
<1> USE DEF requestVars, memoryVars, storeVars, historyVars
<1>1. CASE rows' = rows
  BY <1>1 DEF AllSlots, SlotOf, Slots, MessageRows, ProcessRows
<1>2. ASSUME NEW w \in Workers, SaveProcessNoAssign(w)
      PROVE  UNCHANGED AllSlots
  <2>1. \A p \in Pids : Slots(p)' = Slots(p)
    BY <1>2 DEF SaveProcessNoAssign, InsertProcess, NewRow, Slots, MessageRows,
                ProcessRows
  <2> QED  BY <2>1 DEF AllSlots, SlotOf
<1>3. ASSUME NEW w \in Workers,
             \/ \E r \in Requests : Receive(w, r)
             \/ AcquireLock(w)
             \/ CheckExistingMessage(w)
             \/ RejectExistingMessage(w)
             \/ Increment(w)
             \/ RejectDeepHash(w)
             \/ SaveToBytestore(w)
             \/ InsertFails(w)
             \/ Commit(w)
             \/ Fail(w)
      PROVE  rows' = rows
  BY <1>3 DEF Receive, AcquireLock, CheckExistingMessage,
     RejectExistingMessage, Increment, RejectDeepHash, SaveToBytestore,
     InsertFails, Commit, Fail
<1>4. ASSUME Crash \/ Replicate \/ UNCHANGED vars PROVE rows' = rows
  BY <1>4 DEF Crash, Replicate, vars
<1> QED  BY <1>1, <1>2, <1>3, <1>4 DEF Next, Step

\* With a clock that advances, the process read from the writer and no Process
\* sent twice, the SU keeps one append-only, gapless and chained schedule per
\* process: every step appends one slot to one schedule or changes none.
THEOREM SchedulerImplementsSchedule ==
    ASSUME ~ClockSteps, ~ReplicaLag \/ ~ProcessAssignment, ~ProcessReposts
    PROVE  Spec => ImplementsSchedule
<1> DEFINE Inv == /\ TypeOK /\ LockInv /\ StoredIsMessage /\ OrderInv
                  /\ SpawnedOnce /\ ChainInv /\ IdsBelow
<1>1. Init => Inv
  BY TypeInit, OrderInit, ChainInit DEF Init, IdsBelow
<1>2. Inv /\ [Next]_vars => Inv'
  BY TypeNext, LockNext, StoredNext, OrderNext, SpawnedNext, ChainNext, IdsNext
<1>3. Init => Schedule!Init
  BY DEF Init, Schedule!Init, AllSlots, Slots, MessageRows, ProcessRows
<1>4. Inv /\ [Next]_vars => [Schedule!Assign]_AllSlots
  BY SaveAppends, OthersStutter
<1> HIDE DEF Inv
<1> QED
  BY <1>1, <1>2, <1>3, <1>4, PTL DEF Spec, ImplementsSchedule, Schedule!Spec
=============================================================================
