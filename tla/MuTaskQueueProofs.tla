-------------------------- MODULE MuTaskQueueProofs --------------------------
(***************************************************************************)
(* Proofs about the task queues, for any tasks, queues and bounds.         *)
(***************************************************************************)
EXTENDS MuTaskQueue, FiniteSetTheorems, NaturalsInduction, SequenceTheorems,
        WellFoundedInduction, TLAPS

Item == [id : Nat, task : Tasks, type : Types \cup {"none"}, stage : Stages,
         retries : 0 .. MaxRetries, tx : Nat, parsed : BOOLEAN, at : 0 .. 5]

Memory == [up : BOOLEAN, queue : Seq(Item), dequeued : SUBSET Nat,
           checking : SUBSET Item, running : SUBSET Item, waiting : SUBSET Item]

Places == {"queue", "checking", "running", "waiting"}

\* A worker holds an entry at a place.
In(q, c, e) ==
    \/ c = "queue" /\ \E i \in 1 .. Len(worker[q].queue) : e = worker[q].queue[i]
    \/ c = "checking" /\ e \in worker[q].checking
    \/ c = "running" /\ e \in worker[q].running
    \/ c = "waiting" /\ e \in worker[q].waiting

TypeInv ==
    /\ worker \in [Queues -> Memory]
    /\ rows \subseteq [queue : Queues, entry : Item]
    /\ IsFiniteSet(rows)
    /\ nextId \in Nat \ {0}
    /\ built \in [Tasks -> Nat]
    /\ sent \in [Tasks -> SUBSET Nat]
    /\ spawned \in [Tasks -> Nat]
    /\ garbled \subseteq Tasks
    /\ accepted \subseteq Tasks
    /\ Settled \subseteq accepted
    /\ atRisk \subseteq accepted
    /\ reloaded \in [Tasks -> Nat]
    /\ crashes \in 0 .. MaxCrashes

\* What an entry that is not running is like: only the first result of a
\* spawned process leaves one without a type.
Idle(e) ==
    /\ e.at = 0
    /\ \/ e.type = Kind[e.task] /\ (e.stage = "start" \/
             \E p \in 1 .. Len(Route(e)) : Route(e)[p] = e.stage)
       \/ e.type = "none" /\ SpawnPush /\ Kind[e.task] = "SPAWN"

\* A running entry is at a step it takes again whatever its stage, or at its
\* stage, which is still ahead of it otherwise.
Runs(e) ==
    /\ e.type = Kind[e.task]
    /\ e.at \in 1 .. Len(Route(e))
    /\ Step(e) \in Unchecked \cup {e.stage}
    /\ \E p \in e.at .. Len(Route(e)) : Route(e)[p] = e.stage

Saved(e) == Idle(e) /\ e.task \in accepted /\ e.id \in 1 .. nextId - 1

EntryInv ==
    /\ \A q \in Queues, c \in Places, e \in Item :
          In(q, c, e) =>
              /\ e.task \in accepted
              /\ e.id < nextId
              /\ IF c = "running" THEN Runs(e) ELSE Idle(e)
              /\ c = "queue" => e.id > 0
    /\ \A q \in Queues : worker[q].dequeued \subseteq 1 .. nextId - 1
    /\ \A r \in rows : Saved(r.entry)

\* Rows are found by their ids, and so are the entries of a queue.
IdInv ==
    /\ \A r, s \in rows : r.entry.id = s.entry.id => r = s
    /\ \A q \in Queues : \A i, j \in 1 .. Len(worker[q].queue) :
          worker[q].queue[i].id = worker[q].queue[j].id => i = j

-----------------------------------------------------------------------------

\* The entries of a queue are in the table until they are dequeued, which only
\* entries with a type are.
RowInv ==
    /\ \A q \in Queues : \A i \in 1 .. Len(worker[q].queue) :
          /\ worker[q].queue[i].id \notin worker[q].dequeued
          /\ \E r \in rows : /\ r.queue = q
                             /\ r.entry.id = worker[q].queue[i].id
                             /\ r.entry.task = worker[q].queue[i].task
                             /\ r.entry.type = worker[q].queue[i].type
    /\ \A q \in Queues, r \in rows :
          r.entry.id \in worker[q].dequeued => r.queue = q /\ r.entry.type # "none"

InMemory(t) == \E q \in Queues, c \in Places, e \in Item : In(q, c, e) /\ e.task = t

\* A task that no worker holds is in a row that is not to be removed.
KeptInv ==
    \A t \in accepted \ (Settled \cup atRisk) :
        \/ InMemory(t)
        \/ \E r \in rows : /\ r.entry.task = t
                           /\ \A q \in Queues : r.entry.id \notin worker[q].dequeued

\* Until a restart, a task is at one place, before it is settled; and it was
\* cranked, or is in the outbox of a task that is finished.
OnceInv ==
    crashes = 0 =>
        /\ \A p, q \in Queues, b, c \in Places, d, e \in Item :
              In(p, b, d) /\ In(q, c, e) /\ d.task = e.task => p = q /\ b = c /\ d = e
        /\ \A q \in Queues, c \in Places, e \in Item : In(q, c, e) => e.task \notin Settled
        /\ \A t \in accepted \ Roots : \E s \in finished : t \in Outbox[s]

\* Until a restart, a queue whose worker died has the row it died of, and no
\* task is lost but for such a death.
Dead == {r \in rows : ~worker[r.queue].up /\ r.entry.type = "none"}

LivesInv ==
    crashes = 0 => \A t \in accepted \ Settled : InMemory(t) \/ Dead # {}

Unbuilt == {"start", "build-tx", "spawn-process", "pull-initial-result", "build-success-tx"}

\* Until a restart, what was sent for a task is what its entry carries, if it is
\* past its signature.
SentFor(e) ==
    /\ sent[e.task] \subseteq IF e.stage \in Unbuilt THEN {} ELSE {e.tx}
    /\ e.stage \in {"start", "spawn-process"} /\ "SPAWN" \notin LostAcks =>
          spawned[e.task] = 0

SentOnce(t) ==
    /\ \E x \in Nat : sent[t] \subseteq {x}
    /\ "SPAWN" \notin LostAcks => spawned[t] <= 1

SentInv ==
    crashes = 0 =>
        /\ \A q \in Queues, c \in Places, e \in Item :
              In(q, c, e) /\ e.type # "none" => SentFor(e)
        /\ \A t \in Tasks :
              SentOnce(t) /\ (t \notin accepted => sent[t] = {} /\ spawned[t] = 0)

-----------------------------------------------------------------------------
(* The routes of the tasks.                                                *)

\* A route has no step twice; it signs before it sends, and spawns first.
LEMMA RouteIs ==
    ASSUME NEW e, e.type \in Types
    PROVE  /\ Len(Route(e)) \in 2 .. 5
           /\ \A i \in 1 .. Len(Route(e)) : Route(e)[i] \in Stages \ {"start"}
           /\ \A i, j \in 1 .. Len(Route(e)) : Route(e)[i] = Route(e)[j] => i = j
           /\ \A i \in 1 .. Len(Route(e)) :
                 Route(e)[i] \in {"build-tx", "build-success-tx"} => i < Len(Route(e))
           /\ \A i \in 1 .. Len(Route(e)) - 1 :
                 /\ Route(e)[i + 1] # "spawn-process"
                 /\ Route(e)[i + 1] \in Unbuilt <=>
                       /\ Route(e)[i] \in Unbuilt
                       /\ Route(e)[i] \notin {"build-tx", "build-success-tx"}
<1> DEFINE wallet == <<"build-tx", "write-message">>
           message == <<"build-tx", "write-message", "get-cu-address", "pull-result">>
           push == <<"spawn-process", "pull-initial-result", "build-success-tx",
                     "send-spawn-success", "pull-result">>
           spawn == <<"spawn-process", "build-success-tx", "send-spawn-success",
                      "pull-result">>
           assign == <<"locate-process-local", "write-assign", "pull-result">>
<1>1. Route(e) \in {wallet, message, push, spawn, assign}
  BY DEF Route, Types
<1>2. CASE Route(e) = wallet
  BY <1>2 DEF Stages, Unbuilt
<1>3. CASE Route(e) = message
  BY <1>3 DEF Stages, Unbuilt
<1>4. CASE Route(e) = push
  BY <1>4 DEF Stages, Unbuilt
<1>5. CASE Route(e) = spawn
  BY <1>5 DEF Stages, Unbuilt
<1>6. CASE Route(e) = assign
  BY <1>6 DEF Stages, Unbuilt
<1>7. QED
  BY <1>1, <1>2, <1>3, <1>4, <1>5, <1>6

\* A set of numbers has a least one.
LEMMA LeastNumber ==
    ASSUME NEW S \in SUBSET Nat, S # {}
    PROVE  \E n \in S : \A m \in S : n <= m
<1> DEFINE less == {ss \in Nat \X Nat : ss[1] < ss[2]}
<1>1. OpToRel(<, Nat) = less
  BY Zenon DEF OpToRel
<1>2. IsWellFoundedOn(less, Nat)
  BY <1>1, NatLessThanWellFounded, Zenon
<1> HIDE DEF less
<1>3. PICK n \in S : \A m \in S : ~(<<m, n>> \in less)
  BY <1>2, WFMin, Zenon
<1>4. \A m \in S : ~(m < n)
  BY <1>3 DEF less
<1>5. QED
  BY <1>4

\* The next step that is taken is not after the stage.
LEMMA NextStepIs ==
    ASSUME NEW e, e.type \in Types, NEW i \in Nat \ {0},
           NEW p \in i .. Len(Route(e)), Route(e)[p] = e.stage
    PROVE  /\ NextStep(e, i) \in i .. p
           /\ Route(e)[NextStep(e, i)] \in Unchecked \cup {e.stage}
<1> DEFINE taken == {j \in i .. Len(Route(e)) : Route(e)[j] \in Unchecked \cup {e.stage}}
<1>1. p \in taken /\ taken \subseteq Nat
  BY RouteIs
<1>2. NextStep(e, i) = CHOOSE j \in taken : \A k \in taken : j <= k
  BY DEF NextStep
<1> HIDE DEF taken
<1>3. \E n \in taken : \A k \in taken : n <= k
  BY <1>1, LeastNumber, Zenon
<1>4. NextStep(e, i) \in taken /\ \A k \in taken : NextStep(e, i) <= k
  BY <1>2, <1>3
<1> USE DEF taken
<1>5. QED
  BY <1>1, <1>4

\* What a route is does not depend on how far an entry is.
LEMMA RouteSame ==
    ASSUME NEW e, NEW f, e.type = f.type, e.task = f.task
    PROVE  Route(e) = Route(f)
BY DEF Route

\* An entry that runs, or waits with a type, has the type of its task.
LEMMA TypeOfKind ==
    ASSUME NEW e \in Item, Runs(e) \/ (Idle(e) /\ e.type # "none")
    PROVE  e.type \in Types /\ e.type = Kind[e.task]
BY TaskAssumption DEF Item, Runs, Idle

\* A dequeued task runs from its stage, or from the beginning.
LEMMA StartedRuns ==
    ASSUME NEW e \in Item, Idle(e), e.type \in Types
    PROVE  \E f \in Item :
              /\ f = Started(e) /\ Runs(f)
              /\ f.task = e.task /\ f.type = e.type /\ f.id = e.id /\ f.tx = e.tx
              /\ f.retries = e.retries
              /\ f.stage = IF e.stage = "start" THEN Route(e)[1] ELSE e.stage
<1>1. e.type = Kind[e.task] /\ e.type # "none"
  BY TypeOfKind DEF Types
<1>2. PICK p \in 1 .. Len(Route(e)) :
         Route(e)[p] = IF e.stage = "start" THEN Route(e)[1] ELSE e.stage
  BY <1>1, RouteIs DEF Idle
<1>3. PICK s : s = IF e.stage = "start" THEN [e EXCEPT !.stage = Route(e)[1]] ELSE e
  OBVIOUS
<1>4. /\ s \in Item /\ s.task = e.task /\ s.type = e.type /\ s.id = e.id /\ s.tx = e.tx
      /\ s.retries = e.retries
      /\ s.stage = IF e.stage = "start" THEN Route(e)[1] ELSE e.stage
  <2>1. Route(e)[1] \in Stages
    BY RouteIs
  <2>2. QED
    BY <1>3, <2>1 DEF Item
<1>5. Route(s) = Route(e) /\ Route(s)[p] = s.stage /\ p \in 1 .. Len(Route(s))
  BY <1>2, <1>4, RouteSame
<1>6. NextStep(s, 1) \in 1 .. p /\ Route(s)[NextStep(s, 1)] \in Unchecked \cup {s.stage}
  BY <1>4, <1>5, NextStepIs
<1>7. PICK f : f = [s EXCEPT !.at = NextStep(s, 1)]
  OBVIOUS
<1>8. Len(Route(e)) \in 2 .. 5
  BY RouteIs
<1>9. /\ f \in Item /\ f.at = NextStep(s, 1) /\ f.task = e.task /\ f.type = e.type
      /\ f.id = e.id /\ f.tx = e.tx /\ f.stage = s.stage /\ f.retries = e.retries
  <2>1. NextStep(s, 1) \in 0 .. 5
    BY <1>2, <1>6, <1>8
  <2>2. QED
    BY <1>4, <1>7, <2>1 DEF Item
<1>10. Route(f) = Route(e)
  BY <1>9, RouteSame
<1>11. Runs(f)
  BY <1>1, <1>5, <1>6, <1>9, <1>10 DEF Runs, Step
<1>12. f = Started(e)
  BY <1>3, <1>7 DEF Started
<1>13. QED
  BY <1>4, <1>9, <1>11, <1>12

\* A task whose call is answered runs on, and its stage moves on if it was at it.
LEMMA AdvanceRuns ==
    ASSUME NEW e \in Item, Runs(e), ~IsLast(e)
    PROVE  \E f \in Item :
              /\ f = Advance(e) /\ Runs(f)
              /\ f.task = e.task /\ f.type = e.type /\ f.id = e.id /\ f.tx = e.tx
              /\ f.retries = e.retries
              /\ f.stage = IF Step(e) = e.stage THEN Route(e)[e.at + 1] ELSE e.stage
<1> DEFINE n == e.at + 1
<1>1. e.type \in Types /\ e.type = Kind[e.task]
  BY TypeOfKind
<1>2. Len(Route(e)) \in 2 .. 5 /\ \A i \in 1 .. Len(Route(e)) : Route(e)[i] \in Stages
  BY <1>1, RouteIs
<1>3. n \in 2 .. Len(Route(e))
  BY <1>2 DEF Runs, IsLast
<1>4. PICK p \in e.at .. Len(Route(e)) : Route(e)[p] = e.stage
  BY DEF Runs
<1>5. PICK s : s = IF Step(e) = e.stage THEN [e EXCEPT !.stage = Route(e)[n]] ELSE e
  OBVIOUS
<1>6. /\ s \in Item /\ s.task = e.task /\ s.type = e.type /\ s.id = e.id /\ s.tx = e.tx
      /\ s.retries = e.retries
      /\ s.stage = IF Step(e) = e.stage THEN Route(e)[n] ELSE e.stage
  BY <1>2, <1>3, <1>5 DEF Item
<1>7. Route(s) = Route(e)
  BY <1>6, RouteSame
<1>8. PICK k \in n .. Len(Route(s)) : Route(s)[k] = s.stage
  <2>1. CASE Step(e) = e.stage
    BY <1>3, <1>6, <1>7, <2>1
  <2>2. CASE Step(e) # e.stage
    BY <1>4, <1>6, <1>7, <2>2 DEF Step, Runs
  <2>3. QED
    BY <2>1, <2>2
<1>9. NextStep(s, n) \in n .. k /\ Route(s)[NextStep(s, n)] \in Unchecked \cup {s.stage}
  BY <1>1, <1>3, <1>6, <1>8, NextStepIs
<1>10. PICK f : f = [s EXCEPT !.at = NextStep(s, n)]
  OBVIOUS
<1>11. /\ f \in Item /\ f.at = NextStep(s, n) /\ f.task = e.task /\ f.type = e.type
       /\ f.id = e.id /\ f.tx = e.tx /\ f.stage = s.stage /\ f.retries = e.retries
  <2>1. NextStep(s, n) \in 0 .. 5
    BY <1>2, <1>3, <1>7, <1>8, <1>9
  <2>2. QED
    BY <1>6, <1>10, <2>1 DEF Item
<1>12. Route(f) = Route(s)
  BY <1>6, <1>11, RouteSame
<1>13. Runs(f)
  BY <1>1, <1>3, <1>8, <1>9, <1>11, <1>12 DEF Runs, Step
<1>14. f = Advance(e)
  BY <1>5, <1>10 DEF Advance
<1>15. QED
  BY <1>6, <1>11, <1>13, <1>14

\* A failed task waits as it was, or without a type and its progress.
LEMMA CauseIdles ==
    ASSUME NEW e \in Item, Runs(e), MaxRetries \in Nat
    PROVE  \E f \in Item :
              /\ f = Cause(e) /\ Idle(f) /\ f.task = e.task /\ f.id = e.id
              /\ f.type # "none" =>
                    f.stage = e.stage /\ f.tx = e.tx /\ f.retries = e.retries
<1>1. e.type \in Types /\ e.type = Kind[e.task]
  BY TypeOfKind
<1>2. PICK f : f = Cause(e)
  OBVIOUS
<1>3. CASE Step(e) = "pull-initial-result"
  <2>1. f = [e EXCEPT !.type = "none", !.stage = "start", !.retries = 0, !.at = 0]
    BY <1>2, <1>3 DEF Cause
  <2>2. f \in Item /\ f.task = e.task /\ f.id = e.id /\ f.type = "none" /\ f.at = 0
    <3>1. "start" \in Stages /\ 0 \in 0 .. MaxRetries /\ 0 \in 0 .. 5
      BY DEF Stages
    <3>2. QED
      BY <2>1, <3>1 DEF Item
  <2>3. SpawnPush /\ Kind[e.task] = "SPAWN"
    <3>1. \E i \in 1 .. Len(Route(e)) : Route(e)[i] = "pull-initial-result"
      BY <1>3 DEF Step, Runs
    <3>2. QED
      BY <1>1, <3>1 DEF Route, Types
  <2>4. QED
    BY <1>2, <2>2, <2>3 DEF Idle
<1>4. CASE Step(e) # "pull-initial-result"
  <2>1. f = [e EXCEPT !.at = 0]
    BY <1>2, <1>4 DEF Cause
  <2>2. /\ f \in Item /\ f.task = e.task /\ f.id = e.id /\ f.type = e.type /\ f.at = 0
        /\ f.stage = e.stage /\ f.tx = e.tx /\ f.retries = e.retries
    BY <2>1 DEF Item
  <2>3. \E p \in 1 .. Len(Route(e)) : Route(e)[p] = e.stage
    BY <1>1, RouteIs DEF Runs
  <2>4. Route(f) = Route(e)
    BY <2>2, RouteSame
  <2>5. QED
    BY <1>1, <1>2, <2>2, <2>3, <2>4 DEF Idle
<1>5. QED
  BY <1>3, <1>4

\* A task of an outbox starts from the beginning.
LEMMA FreshIdles ==
    ASSUME NEW t \in Tasks, NEW parent \in Nat
    PROVE  /\ Fresh(t, parent) \in Item /\ Idle(Fresh(t, parent))
           /\ Fresh(t, parent).task = t /\ Fresh(t, parent).id = parent
           /\ Fresh(t, parent).type # "none" /\ Fresh(t, parent).stage = "start"
BY TaskAssumption, QueueAssumption DEF Fresh, Item, Idle, Stages, Types

-----------------------------------------------------------------------------
(* What the steps do to the memory of a worker.                            *)

Baskets == {"checking", "running", "waiting"}

\* An entry leaves one of the sets of a worker, and others enter one.
Shift(q, c, e, b, F) ==
    /\ worker' \in [Queues -> Memory]
    /\ \A p \in Queues \ {q} : worker'[p] = worker[p]
    /\ worker'[q].queue = worker[q].queue
    /\ worker'[q].dequeued = worker[q].dequeued
    /\ worker'[q].up = worker[q].up
    /\ worker'[q].checking = (worker[q].checking \ (IF c = "checking" THEN {e} ELSE {}))
                                \cup (IF b = "checking" THEN F ELSE {})
    /\ worker'[q].running = (worker[q].running \ (IF c = "running" THEN {e} ELSE {}))
                                \cup (IF b = "running" THEN F ELSE {})
    /\ worker'[q].waiting = (worker[q].waiting \ (IF c = "waiting" THEN {e} ELSE {}))
                                \cup (IF b = "waiting" THEN F ELSE {})

\* The same of all places.
Moves(q, c, e, b, F) ==
    \A p \in Queues, d \in Places, x \in Item :
        In(p, d, x)' <=> \/ In(p, d, x) /\ ~(p = q /\ d = c /\ x = e)
                         \/ p = q /\ d = b /\ x \in F

SameQueues ==
    \A p \in Queues : /\ worker'[p].queue = worker[p].queue
                      /\ worker'[p].dequeued = worker[p].dequeued
                      /\ worker'[p].up = worker[p].up

\* A shift within one worker moves one entry, and leaves the queues alone.
LEMMA ShiftMoves ==
    ASSUME NEW q \in Queues, NEW c \in Baskets, NEW b \in Baskets, NEW e, NEW F,
           Shift(q, c, e, b, F)
    PROVE  Moves(q, c, e, b, F) /\ SameQueues
<1>1. SameQueues
  BY DEF Shift, SameQueues
<1>2. ASSUME NEW p \in Queues, NEW d \in Places, NEW x \in Item
      PROVE  In(p, d, x)' <=> \/ In(p, d, x) /\ ~(p = q /\ d = c /\ x = e)
                              \/ p = q /\ d = b /\ x \in F
  <2>1. CASE p # q
    BY <2>1 DEF Shift, In
  <2>2. CASE p = q
    BY <2>2 DEF Shift, In, Baskets, Places
  <2>3. QED
    BY <2>1, <2>2
<1>3. QED
  BY <1>1, <1>2 DEF Moves

\* Setting the memory of one worker leaves the others.
LEMMA WorkerSet ==
    ASSUME TypeInv, NEW q \in Queues, NEW m \in Memory, worker' = [worker EXCEPT ![q] = m]
    PROVE  /\ worker' \in [Queues -> Memory] /\ worker'[q] = m
           /\ \A p \in Queues \ {q} : worker'[p] = worker[p]
BY DEF TypeInv

\* What a worker holds is an entry.
LEMMA Held ==
    ASSUME TypeInv, NEW q \in Queues
    PROVE  /\ worker[q] \in Memory
           /\ \A e \in worker[q].checking : e \in Item /\ In(q, "checking", e)
           /\ \A e \in worker[q].running : e \in Item /\ In(q, "running", e)
           /\ \A e \in worker[q].waiting : e \in Item /\ In(q, "waiting", e)
           /\ \A i \in 1 .. Len(worker[q].queue) :
                 worker[q].queue[i] \in Item /\ In(q, "queue", worker[q].queue[i])
<1>1. worker[q] \in Memory
  BY DEF TypeInv
<1>2. QED
  BY <1>1 DEF Memory, In

\* A task over the rate limit leaves the worker.
LEMMA RateLimitShift ==
    ASSUME TypeInv, NEW q \in Queues, NEW e, ExceedRateLimit(q, e)
    PROVE  Shift(q, "checking", e, "checking", {})
<1>1. PICK m : m = [worker[q] EXCEPT !.checking = @ \ {e}]
  OBVIOUS
<1>2. worker' = [worker EXCEPT ![q] = m]
  BY <1>1 DEF ExceedRateLimit, TypeInv
<1>3. /\ m \in Memory /\ m.queue = worker[q].queue /\ m.dequeued = worker[q].dequeued
      /\ m.up = worker[q].up /\ m.checking = worker[q].checking \ {e}
      /\ m.running = worker[q].running /\ m.waiting = worker[q].waiting
  BY <1>1, Held DEF Memory
<1>4. QED
  BY <1>2, <1>3, WorkerSet DEF Shift

\* A task that has used up its retries leaves the worker.
LEMMA GiveUpShift ==
    ASSUME TypeInv, NEW q \in Queues, NEW e, GiveUp(q, e)
    PROVE  Shift(q, "waiting", e, "waiting", {})
<1>1. PICK m : m = [worker[q] EXCEPT !.waiting = @ \ {e}]
  OBVIOUS
<1>2. worker' = [worker EXCEPT ![q] = m]
  BY <1>1 DEF GiveUp, TypeInv
<1>3. /\ m \in Memory /\ m.queue = worker[q].queue /\ m.dequeued = worker[q].dequeued
      /\ m.up = worker[q].up /\ m.waiting = worker[q].waiting \ {e}
      /\ m.running = worker[q].running /\ m.checking = worker[q].checking
  BY <1>1, Held DEF Memory
<1>4. QED
  BY <1>2, <1>3, WorkerSet DEF Shift

\* A retry goes back to the rate limit with one retry more.
LEMMA RetryShift ==
    ASSUME TypeInv, NEW q \in Queues, NEW e, Idle(e), Retry(q, e)
    PROVE  \E f \in Item :
              /\ Shift(q, "waiting", e, "checking", {f}) /\ Idle(f)
              /\ f.task = e.task /\ f.id = e.id /\ f.type = e.type
              /\ f.stage = e.stage /\ f.tx = e.tx /\ f.retries = e.retries + 1
<1>1. e \in Item /\ e.retries < MaxRetries
  BY Held DEF Retry
<1>2. PICK f : f = [e EXCEPT !.retries = @ + 1]
  OBVIOUS
<1>3. /\ f \in Item /\ f.task = e.task /\ f.id = e.id /\ f.type = e.type
      /\ f.stage = e.stage /\ f.tx = e.tx /\ f.at = e.at /\ f.retries = e.retries + 1
  <2>1. e.retries + 1 \in 0 .. MaxRetries
    BY <1>1, QueueAssumption DEF Item
  <2>2. QED
    BY <1>1, <1>2, <2>1 DEF Item
<1>4. Idle(f)
  BY <1>3, RouteSame DEF Idle
<1>5. PICK m : m = [worker[q] EXCEPT !.waiting = @ \ {e}, !.checking = @ \cup {f}]
  OBVIOUS
<1>6. worker' = [worker EXCEPT ![q] = m]
  BY <1>2, <1>5 DEF Retry, TypeInv
<1>7. /\ m \in Memory /\ m.queue = worker[q].queue /\ m.dequeued = worker[q].dequeued
      /\ m.up = worker[q].up /\ m.waiting = worker[q].waiting \ {e}
      /\ m.running = worker[q].running /\ m.checking = worker[q].checking \cup {f}
  BY <1>3, <1>5, Held DEF Memory
<1>8. Shift(q, "waiting", e, "checking", {f})
  BY <1>6, <1>7, WorkerSet DEF Shift
<1>9. QED
  BY <1>3, <1>4, <1>8

\* A call that fails leaves its cause to wait for a retry.
LEMMA FailedShift ==
    ASSUME TypeInv, NEW q \in Queues, NEW e \in worker[q].running, Runs(e), Failed(q, e)
    PROVE  \E f \in Item :
              /\ Shift(q, "running", e, "waiting", {f}) /\ Idle(f)
              /\ f.task = e.task /\ f.id = e.id
              /\ f.type # "none" =>
                    f.stage = e.stage /\ f.tx = e.tx /\ f.retries = e.retries
<1>1. e \in Item
  BY Held
<1>2. PICK f \in Item : /\ f = Cause(e) /\ Idle(f) /\ f.task = e.task /\ f.id = e.id
                        /\ f.type # "none" =>
                              f.stage = e.stage /\ f.tx = e.tx /\ f.retries = e.retries
  BY <1>1, CauseIdles, QueueAssumption
<1>3. PICK m : m = [worker[q] EXCEPT !.running = @ \ {e}, !.waiting = @ \cup {f}]
  OBVIOUS
<1>4. worker' = [worker EXCEPT ![q] = m]
  BY <1>2, <1>3 DEF Failed, TypeInv
<1>5. /\ m \in Memory /\ m.queue = worker[q].queue /\ m.dequeued = worker[q].dequeued
      /\ m.up = worker[q].up /\ m.waiting = worker[q].waiting \cup {f}
      /\ m.running = worker[q].running \ {e} /\ m.checking = worker[q].checking
  BY <1>2, <1>3, Held DEF Memory
<1>6. Shift(q, "running", e, "waiting", {f})
  BY <1>4, <1>5, WorkerSet DEF Shift
<1>7. QED
  BY <1>2, <1>6

Children(e) == {Fresh(t, e.id) : t \in Outbox[e.task]}

\* The last call of a task leaves its children to be queued.
LEMMA AnsweredLastShift ==
    ASSUME TypeInv, NEW q \in Queues, NEW e \in worker[q].running, NEW next,
           IsLast(e), Answered(q, e, next)
    PROVE  Shift(q, "running", e, "checking", Children(e)) /\ Children(e) \subseteq Item
<1>1. e \in Item /\ e.id \in Nat /\ e.task \in Tasks
  BY Held DEF Item
<1>2. Children(e) \subseteq Item
  BY <1>1, FreshIdles, TaskAssumption DEF Children
<1>3. PICK m : m = [worker[q] EXCEPT !.running = @ \ {e}, !.checking = @ \cup Children(e)]
  OBVIOUS
<1>4. worker' = [worker EXCEPT ![q] = m]
  BY <1>3 DEF Answered, Children, TypeInv
<1>5. /\ m \in Memory /\ m.queue = worker[q].queue /\ m.dequeued = worker[q].dequeued
      /\ m.up = worker[q].up /\ m.checking = worker[q].checking \cup Children(e)
      /\ m.running = worker[q].running \ {e} /\ m.waiting = worker[q].waiting
  BY <1>2, <1>3, Held DEF Memory
<1>6. QED
  BY <1>2, <1>4, <1>5, WorkerSet DEF Shift

\* An answered call takes its task on to the next one.
LEMMA AnsweredShift ==
    ASSUME TypeInv, NEW q \in Queues, NEW e \in worker[q].running, NEW next \in Item,
           Runs(e), ~IsLast(e), Answered(q, e, next),
           next.task = e.task, next.type = e.type, next.stage = e.stage, next.id = e.id,
           next.at = e.at
    PROVE  \E f \in Item :
              /\ Shift(q, "running", e, "running", {f}) /\ Runs(f)
              /\ f.task = e.task /\ f.id = e.id /\ f.type = e.type /\ f.tx = next.tx
              /\ f.retries = next.retries
              /\ f.stage = IF Step(e) = e.stage THEN Route(e)[e.at + 1] ELSE e.stage
<1>1. e \in Item /\ Route(next) = Route(e)
  BY Held, RouteSame
<1>2. Runs(next) /\ ~IsLast(next) /\ Step(next) = Step(e)
  BY <1>1 DEF Runs, IsLast, Step
<1>3. PICK f \in Item :
         /\ f = Advance(next) /\ Runs(f)
         /\ f.task = next.task /\ f.type = next.type /\ f.id = next.id /\ f.tx = next.tx
         /\ f.retries = next.retries
         /\ f.stage = IF Step(next) = next.stage THEN Route(next)[next.at + 1] ELSE next.stage
  BY <1>2, AdvanceRuns
<1>4. PICK m : m = [worker[q] EXCEPT !.running = (@ \ {e}) \cup {f}]
  OBVIOUS
<1>5. /\ m \in Memory /\ m.queue = worker[q].queue /\ m.dequeued = worker[q].dequeued
      /\ m.up = worker[q].up /\ m.checking = worker[q].checking
      /\ m.running = (worker[q].running \ {e}) \cup {f} /\ m.waiting = worker[q].waiting
  BY <1>3, <1>4, Held DEF Memory
<1>6. worker' = [worker EXCEPT ![q] = [worker[q] EXCEPT
                    !.running = (@ \ {e}) \cup {f}, !.checking = @ \cup {}]]
  BY <1>3 DEF Answered, TypeInv
<1>7. worker' = [worker EXCEPT ![q] = m]
  BY <1>4, <1>6, Held DEF Memory
<1>8. Shift(q, "running", e, "running", {f})
  BY <1>5, <1>7, WorkerSet DEF Shift
<1>9. QED
  BY <1>1, <1>2, <1>3, <1>8

-----------------------------------------------------------------------------
(* What a move keeps.                                                      *)

\* Entries stay well-formed when those that come are.
LEMMA MoveEntries ==
    ASSUME TypeInv, EntryInv, NEW q \in Queues, NEW c \in Places, NEW b \in Places,
           NEW e, NEW F, Moves(q, c, e, b, F),
           nextId' \in Nat, nextId <= nextId', accepted \subseteq accepted',
           \A f \in F : /\ f.task \in accepted' /\ f.id < nextId'
                        /\ IF b = "running" THEN Runs(f) ELSE Idle(f)
                        /\ b = "queue" => f.id > 0
    PROVE  \A p \in Queues, d \in Places, x \in Item :
              In(p, d, x)' =>
                  /\ x.task \in accepted'
                  /\ x.id < nextId'
                  /\ IF d = "running" THEN Runs(x) ELSE Idle(x)
                  /\ d = "queue" => x.id > 0
<1> SUFFICES ASSUME NEW p \in Queues, NEW d \in Places, NEW x \in Item, In(p, d, x)'
             PROVE  /\ x.task \in accepted'
                    /\ x.id < nextId'
                    /\ IF d = "running" THEN Runs(x) ELSE Idle(x)
                    /\ d = "queue" => x.id > 0
  OBVIOUS
<1>1. CASE In(p, d, x)
  <2>1. /\ x.task \in accepted /\ x.id < nextId
        /\ IF d = "running" THEN Runs(x) ELSE Idle(x)
        /\ d = "queue" => x.id > 0
    BY <1>1 DEF EntryInv
  <2>2. x.id \in Nat /\ nextId \in Nat
    BY DEF Item, TypeInv
  <2>3. QED
    BY <2>1, <2>2
<1>2. CASE p = q /\ d = b /\ x \in F
  BY <1>2
<1>3. QED
  BY <1>1, <1>2 DEF Moves

\* The rest of EntryInv, when the queues and the table are as they were.
LEMMA MoveRows ==
    ASSUME TypeInv, EntryInv, IdInv, SameQueues, rows' = rows, nextId' = nextId,
           accepted \subseteq accepted'
    PROVE  /\ \A q \in Queues : worker'[q].dequeued \subseteq 1 .. nextId' - 1
           /\ \A r \in rows' : Saved(r.entry)'
           /\ IdInv'
           /\ RowInv => RowInv'
<1>1. \A q \in Queues : /\ worker'[q].dequeued \subseteq 1 .. nextId' - 1
                        /\ Len(worker'[q].queue) = Len(worker[q].queue)
  BY DEF EntryInv, SameQueues
<1>2. \A r \in rows' : Saved(r.entry)'
  BY DEF EntryInv, Saved
<1>3. IdInv'
  BY DEF IdInv, SameQueues
<1>4. ASSUME RowInv PROVE RowInv'
  BY <1>4 DEF RowInv, SameQueues
<1>5. QED
  BY <1>1, <1>2, <1>3, <1>4

\* A task that goes on is where its entry went.
LEMMA GoesOn ==
    ASSUME TypeInv, OnceInv, NEW q \in Queues, NEW c \in Places, NEW b \in Places,
           NEW e \in Item, In(q, c, e), NEW f \in Item, f.task = e.task,
           Moves(q, c, e, b, {f}),
           UNCHANGED <<accepted, Settled, finished, crashes>>
    PROVE  OnceInv' /\ \A t : InMemory(t) => InMemory(t)'
<1>1. \A t : InMemory(t) => InMemory(t)'
  <2> SUFFICES ASSUME NEW t, NEW p \in Queues, NEW d \in Places, NEW x \in Item,
                      In(p, d, x), x.task = t
               PROVE  InMemory(t)'
    BY DEF InMemory
  <2>1. CASE p = q /\ d = c /\ x = e
    <3>1. In(q, b, f)'
      BY DEF Moves
    <3>2. QED
      BY <2>1, <3>1 DEF InMemory
  <2>2. CASE ~(p = q /\ d = c /\ x = e)
    <3>1. In(p, d, x)'
      BY <2>2 DEF Moves
    <3>2. QED
      BY <3>1 DEF InMemory
  <2>3. QED
    BY <2>1, <2>2
<1>2. ASSUME crashes = 0 PROVE OnceInv'
  <2>1. \A p \in Queues, d \in Places, x \in Item :
           In(p, d, x)' => \/ In(p, d, x) /\ ~(p = q /\ d = c /\ x = e)
                           \/ p = q /\ d = b /\ x = f
    BY DEF Moves
  <2>2. \A p \in Queues, d \in Places, x \in Item : In(p, d, x)' => x.task \notin Settled'
    BY <1>2, <2>1 DEF OnceInv
  <2>3. ASSUME NEW p \in Queues, NEW r \in Queues, NEW d \in Places, NEW a \in Places,
               NEW x \in Item, NEW y \in Item, In(p, d, x)', In(r, a, y)', x.task = y.task
        PROVE  p = r /\ d = a /\ x = y
    BY <1>2, <2>1, <2>3 DEF OnceInv
  <2>4. QED
    BY <1>2, <2>2, <2>3 DEF OnceInv
<1>3. QED
  BY <1>1, <1>2 DEF OnceInv

\* A task that is settled is nowhere.
LEMMA Ends ==
    ASSUME TypeInv, OnceInv, NEW q \in Queues, NEW c \in Places, NEW b \in Places,
           NEW e \in Item, In(q, c, e), Moves(q, c, e, b, {}),
           Settled' = Settled \cup {e.task}, UNCHANGED <<accepted, finished, crashes>>
    PROVE  OnceInv' /\ \A t : InMemory(t) => InMemory(t)' \/ t = e.task
<1>1. \A t : InMemory(t) => InMemory(t)' \/ t = e.task
  <2> SUFFICES ASSUME NEW t, NEW p \in Queues, NEW d \in Places, NEW x \in Item,
                      In(p, d, x), x.task = t, t # e.task
               PROVE  InMemory(t)'
    BY DEF InMemory
  <2>1. In(p, d, x)'
    BY DEF Moves
  <2>2. QED
    BY <2>1 DEF InMemory
<1>2. ASSUME crashes = 0 PROVE OnceInv'
  <2>1. \A p \in Queues, d \in Places, x \in Item :
           In(p, d, x)' => In(p, d, x) /\ ~(p = q /\ d = c /\ x = e)
    BY DEF Moves
  <2>2. ASSUME NEW p \in Queues, NEW d \in Places, NEW x \in Item, In(p, d, x)'
        PROVE  x.task \notin Settled'
    <3>1. In(p, d, x) /\ ~(p = q /\ d = c /\ x = e)
      BY <2>1, <2>2
    <3>2. x.task # e.task /\ x.task \notin Settled
      BY <1>2, <3>1 DEF OnceInv
    <3>3. QED
      BY <3>2
  <2>3. QED
    BY <1>2, <2>1, <2>2 DEF OnceInv
<1>3. QED
  BY <1>1, <1>2 DEF OnceInv

\* A task that is finished leaves the tasks of its outbox, which nothing else
\* has brought.
LEMMA Finishes ==
    ASSUME TypeInv, EntryInv, OnceInv, NEW q \in Queues, NEW e \in Item,
           In(q, "running", e), Moves(q, "running", e, "checking", Children(e)),
           Children(e) \subseteq Item,
           finished' = finished \cup {e.task}, accepted' = accepted \cup Outbox[e.task],
           UNCHANGED <<refused, gaveUp, crashes>>
    PROVE  /\ OnceInv'
           /\ \A t : InMemory(t) => InMemory(t)' \/ t = e.task
           /\ \A t \in Outbox[e.task] : InMemory(t)'
<1> DEFINE s == e.task
<1>1. s \in Tasks /\ s \in accepted /\ e.id \in Nat
  BY DEF EntryInv, Item, Places
<1>2. \A t \in Outbox[s] : /\ t \in Tasks \ Roots /\ Fresh(t, e.id) \in Children(e)
                           /\ Fresh(t, e.id).task = t
  BY <1>1, TaskAssumption, OutboxAssumption, FreshIdles DEF Children
<1>3. \A t \in Outbox[s] : InMemory(t)'
  <2> SUFFICES ASSUME NEW t \in Outbox[s] PROVE InMemory(t)'
    OBVIOUS
  <2>1. In(q, "checking", Fresh(t, e.id))'
    BY <1>2 DEF Moves, Places
  <2>2. QED
    BY <1>2, <2>1 DEF InMemory, Places
<1>4. \A t : InMemory(t) => InMemory(t)' \/ t = s
  <2> SUFFICES ASSUME NEW t, NEW p \in Queues, NEW d \in Places, NEW x \in Item,
                      In(p, d, x), x.task = t, t # s
               PROVE  InMemory(t)'
    BY DEF InMemory
  <2>1. In(p, d, x)'
    BY DEF Moves
  <2>2. QED
    BY <2>1 DEF InMemory
<1>5. ASSUME crashes = 0 PROVE OnceInv'
  <2>1. \A p \in Queues, d \in Places, x \in Item :
           In(p, d, x)' => \/ In(p, d, x) /\ ~(p = q /\ d = "running" /\ x = e)
                           \/ p = q /\ d = "checking" /\ x \in Children(e)
    BY DEF Moves
  <2>2. s \notin Settled /\ s \notin finished
    BY <1>5 DEF OnceInv, Places, Settled
  <2>3. \A t \in Outbox[s] : t \notin accepted
    <3> SUFFICES ASSUME NEW t \in Outbox[s], t \in accepted PROVE FALSE
      OBVIOUS
    <3>1. PICK r \in finished : t \in Outbox[r]
      BY <1>2, <1>5 DEF OnceInv
    <3>2. r \in Tasks
      BY DEF TypeInv, Settled
    <3>3. r = s
      BY <1>1, <3>1, <3>2, OutboxAssumption
    <3>4. QED
      BY <2>2, <3>1, <3>3
  <2>4. \A x \in Children(e) : /\ x.task \in Outbox[s] /\ x.task \notin accepted
                               /\ x = Fresh(x.task, e.id)
    BY <1>2, <2>3 DEF Children
  <2>5. \A p \in Queues, d \in Places, x \in Item :
           In(p, d, x) => x.task \in accepted /\ x.task \notin Settled
    BY <1>5 DEF EntryInv, OnceInv
  <2>6. ASSUME NEW p \in Queues, NEW d \in Places, NEW x \in Item, In(p, d, x)'
        PROVE  x.task \notin Settled'
    <3>1. CASE In(p, d, x) /\ ~(p = q /\ d = "running" /\ x = e)
      <4>1. x.task # s
        BY <1>5, <3>1 DEF OnceInv, Places
      <4>2. QED
        BY <2>5, <3>1, <4>1 DEF Settled
    <3>2. CASE x \in Children(e)
      <4>1. x.task \notin accepted
        BY <2>4, <3>2
      <4>2. QED
        BY <1>1, <4>1 DEF TypeInv, Settled
    <3>3. QED
      BY <2>1, <2>6, <3>1, <3>2
  <2>7. ASSUME NEW p \in Queues, NEW r \in Queues, NEW d \in Places, NEW a \in Places,
               NEW x \in Item, NEW y \in Item, In(p, d, x)', In(r, a, y)', x.task = y.task
        PROVE  p = r /\ d = a /\ x = y
    <3>1. /\ \/ In(p, d, x)
             \/ p = q /\ d = "checking" /\ x \in Children(e)
          /\ \/ In(r, a, y)
             \/ r = q /\ a = "checking" /\ y \in Children(e)
      BY <2>1, <2>7
    <3>2. CASE In(p, d, x) /\ In(r, a, y)
      BY <1>5, <2>7, <3>2 DEF OnceInv
    <3>3. CASE x \in Children(e) \/ y \in Children(e)
      BY <2>4, <2>5, <2>7, <3>1, <3>3
    <3>4. QED
      BY <3>1, <3>2, <3>3
  <2>8. \A t \in accepted' \ Roots : \E r \in finished' : t \in Outbox[r]
    BY <1>5 DEF OnceInv
  <2>9. QED
    BY <1>5, <2>6, <2>7, <2>8 DEF OnceInv
<1>6. QED
  BY <1>3, <1>4, <1>5 DEF OnceInv

Base == TypeInv /\ EntryInv /\ IdInv /\ OnceInv /\ SentInv

Table == RowInv /\ KeptInv /\ LivesInv

\* What is sent for a task is known from its one entry.
LEMMA MoveSent ==
    ASSUME Base, NEW q \in Queues, NEW c \in Places, NEW b \in Places,
           NEW e \in Item, In(q, c, e), NEW F, Moves(q, c, e, b, F),
           accepted \subseteq accepted', crashes' = crashes,
           \A t \in Tasks \ {e.task} : sent'[t] = sent[t] /\ spawned'[t] = spawned[t],
           crashes = 0 => /\ SentOnce(e.task)'
                          /\ \A f \in F : f.type # "none" => SentFor(f)'
    PROVE  SentInv'
<1> SUFFICES ASSUME crashes = 0
             PROVE  /\ \A p \in Queues, d \in Places, x \in Item :
                          In(p, d, x)' /\ x.type # "none" => SentFor(x)'
                    /\ \A t \in Tasks :
                          SentOnce(t)' /\ (t \notin accepted' => sent'[t] = {} /\ spawned'[t] = 0)
  BY DEF SentInv
<1>1. ASSUME NEW p \in Queues, NEW d \in Places, NEW x \in Item,
             In(p, d, x)', x.type # "none"
      PROVE  SentFor(x)'
  <2>1. CASE In(p, d, x) /\ ~(p = q /\ d = c /\ x = e)
    <3>1. x.task # e.task /\ x.task \in Tasks
      BY <2>1 DEF Base, OnceInv, Item
    <3>2. SentFor(x)
      BY <1>1, <2>1 DEF Base, SentInv
    <3>3. QED
      BY <3>1, <3>2 DEF SentFor
  <2>2. CASE x \in F
    BY <1>1, <2>2
  <2>3. QED
    BY <1>1, <2>1, <2>2 DEF Moves
<1>2. ASSUME NEW t \in Tasks
      PROVE  SentOnce(t)' /\ (t \notin accepted' => sent'[t] = {} /\ spawned'[t] = 0)
  <2>1. SentOnce(t) /\ (t \notin accepted => sent[t] = {} /\ spawned[t] = 0)
    BY DEF Base, SentInv
  <2>2. CASE t = e.task
    <3>1. t \in accepted
      BY <2>2 DEF Base, EntryInv
    <3>2. QED
      BY <2>2, <3>1
  <2>3. CASE t # e.task
    BY <2>1, <2>3 DEF SentOnce
  <2>4. QED
    BY <2>2, <2>3
<1>3. QED
  BY <1>1, <1>2

\* The table keeps what the workers do not hold.
LEMMA MoveTable ==
    ASSUME Base, Table, SameQueues, rows' = rows, nextId' = nextId,
           accepted \subseteq accepted', atRisk' = atRisk, crashes' = crashes,
           \A t \in accepted' \ Settled' :
              \/ InMemory(t)'
              \/ t \in accepted \ Settled /\ ~InMemory(t)
    PROVE  Table'
<1>1. RowInv'
  BY MoveRows DEF Base, Table
<1>2. KeptInv'
  BY DEF Table, KeptInv, SameQueues
<1>3. LivesInv'
  <2>1. Dead' = Dead
    <3>1. \A r \in rows : r.queue \in Queues
      BY DEF Base, TypeInv
    <3>2. QED
      BY <3>1 DEF Dead, SameQueues
  <2>2. QED
    BY <2>1 DEF Table, LivesInv
<1>4. QED
  BY <1>1, <1>2, <1>3 DEF Table

NetworkType ==
    /\ built \in [Tasks -> Nat]
    /\ sent \in [Tasks -> SUBSET Nat]
    /\ spawned \in [Tasks -> Nat]
    /\ garbled \subseteq Tasks

\* An entry goes on in the memory of its worker.
LEMMA BasketGoesOn ==
    ASSUME Base, NEW q \in Queues, NEW c \in Baskets, NEW b \in Baskets,
           NEW e \in Item, In(q, c, e), NEW f \in Item, f.task = e.task, f.id = e.id,
           Shift(q, c, e, b, {f}), IF b = "running" THEN Runs(f) ELSE Idle(f),
           UNCHANGED <<dbVars, historyVars>>, NetworkType',
           \A t \in Tasks \ {e.task} : sent'[t] = sent[t] /\ spawned'[t] = spawned[t],
           crashes = 0 => SentOnce(e.task)' /\ (f.type # "none" => SentFor(f)')
    PROVE  Base' /\ (Table => Table')
<1>1. /\ c \in Places /\ b \in Places /\ b # "queue"
      /\ Moves(q, c, e, b, {f}) /\ SameQueues
  BY ShiftMoves DEF Baskets, Places
<1>2. /\ UNCHANGED <<rows, nextId, accepted, refused, finished, gaveUp, atRisk, reloaded,
                     crashes>>
      /\ Settled' = Settled
  BY DEF dbVars, historyVars, Settled
<1>3. TypeInv'
  BY <1>2 DEF Base, TypeInv, NetworkType, Shift
<1>4. OnceInv' /\ \A t : InMemory(t) => InMemory(t)'
  BY <1>1, <1>2, GoesOn DEF Base
<1>5. EntryInv'
  <2>1. e.task \in accepted /\ e.id < nextId /\ nextId \in Nat
    BY <1>1 DEF Base, EntryInv, TypeInv
  <2>2. \A p \in Queues, d \in Places, x \in Item :
           In(p, d, x)' =>
               /\ x.task \in accepted' /\ x.id < nextId'
               /\ IF d = "running" THEN Runs(x) ELSE Idle(x)
               /\ d = "queue" => x.id > 0
    BY <1>1, <1>2, <2>1, MoveEntries DEF Base
  <2>3. QED
    BY <1>1, <1>2, <2>2, MoveRows DEF Base, EntryInv
<1>6. IdInv'
  BY <1>1, <1>2, MoveRows DEF Base
<1>7. SentInv'
  BY <1>1, <1>2, MoveSent
<1>8. Table => Table'
  BY <1>1, <1>2, <1>4, MoveTable
<1>9. QED
  BY <1>3, <1>4, <1>5, <1>6, <1>7, <1>8 DEF Base

\* An entry leaves the memory, for its task is settled.
LEMMA BasketEnds ==
    ASSUME Base, NEW q \in Queues, NEW c \in Baskets,
           NEW e \in Item, In(q, c, e), Shift(q, c, e, c, {}),
           Settled' = Settled \cup {e.task},
           UNCHANGED <<dbVars, networkVars, accepted, finished, atRisk, reloaded, crashes>>
    PROVE  Base' /\ (Table => Table')
<1>1. c \in Places /\ Moves(q, c, e, c, {}) /\ SameQueues
  BY ShiftMoves DEF Baskets, Places
<1>2. UNCHANGED <<rows, nextId, built, sent, spawned, garbled>> /\ e.task \in accepted
  BY <1>1 DEF dbVars, networkVars, Base, EntryInv
<1>3. TypeInv'
  BY <1>2 DEF Base, TypeInv, Shift
<1>4. OnceInv' /\ \A t : InMemory(t) => InMemory(t)' \/ t = e.task
  BY <1>1, Ends DEF Base
<1>5. EntryInv'
  <2>1. nextId \in Nat
    BY DEF Base, TypeInv
  <2>2. \A p \in Queues, d \in Places, x \in Item :
           In(p, d, x)' =>
               /\ x.task \in accepted' /\ x.id < nextId'
               /\ IF d = "running" THEN Runs(x) ELSE Idle(x)
               /\ d = "queue" => x.id > 0
    BY <1>1, <1>2, <2>1, MoveEntries DEF Base
  <2>3. QED
    BY <1>1, <1>2, <2>2, MoveRows DEF Base, EntryInv
<1>6. IdInv'
  BY <1>1, <1>2, MoveRows DEF Base
<1>7. SentInv'
  <2>1. crashes = 0 => SentOnce(e.task)'
    BY <1>2 DEF Base, SentInv, SentOnce, Item
  <2>2. QED
    BY <1>1, <1>2, <2>1, MoveSent
<1>8. Table => Table'
  BY <1>1, <1>2, <1>4, MoveTable
<1>9. QED
  BY <1>3, <1>4, <1>5, <1>6, <1>7, <1>8 DEF Base

\* Until a restart, a task is handed on once: those of its outbox are new.
LEMMA ChildrenNew ==
    ASSUME Base, crashes = 0, NEW q \in Queues, NEW c \in Places, NEW e \in Item, In(q, c, e)
    PROVE  Outbox[e.task] \cap accepted = {}
<1> SUFFICES ASSUME NEW t \in Outbox[e.task], t \in accepted PROVE FALSE
  OBVIOUS
<1>1. e.task \in Tasks /\ e.task \notin Settled
  BY DEF Base, OnceInv, Item
<1>2. t \in accepted \ Roots
  BY <1>1, OutboxAssumption
<1>3. PICK r \in finished : t \in Outbox[r]
  BY <1>2 DEF Base, OnceInv
<1>4. r = e.task
  BY <1>1, <1>3, OutboxAssumption DEF Base, TypeInv, Settled
<1>5. QED
  BY <1>1, <1>3, <1>4 DEF Settled

\* A finished task hands on its outbox.
LEMMA BasketFinishes ==
    ASSUME Base, NEW q \in Queues, NEW e \in Item, In(q, "running", e),
           Shift(q, "running", e, "checking", Children(e)), Children(e) \subseteq Item,
           finished' = finished \cup {e.task}, accepted' = accepted \cup Outbox[e.task],
           UNCHANGED <<dbVars, refused, gaveUp, atRisk, reloaded, crashes>>, NetworkType',
           \A t \in Tasks \ {e.task} : sent'[t] = sent[t] /\ spawned'[t] = spawned[t],
           crashes = 0 => SentOnce(e.task)'
    PROVE  Base' /\ (Table => Table')
<1> DEFINE s == e.task
<1>1. /\ Moves(q, "running", e, "checking", Children(e)) /\ SameQueues
      /\ "running" \in Places /\ "checking" \in Places
  BY ShiftMoves DEF Baskets, Places
<1>2. UNCHANGED <<rows, nextId>> /\ Settled' = Settled \cup {s} /\ nextId \in Nat
  BY DEF dbVars, Settled, Base, TypeInv
<1>3. s \in accepted /\ s \in Tasks /\ Outbox[s] \subseteq Tasks /\ e.id < nextId /\ e.id \in Nat
  BY <1>1, TaskAssumption DEF Base, EntryInv, Item
<1>4. TypeInv'
  BY <1>2, <1>3 DEF Base, TypeInv, NetworkType, Shift
<1>5. /\ OnceInv' /\ \A t : InMemory(t) => InMemory(t)' \/ t = s
      /\ \A t \in Outbox[s] : InMemory(t)'
  BY <1>1, Finishes DEF Base
<1>6. \A f \in Children(e) : /\ f.task \in Outbox[s] /\ f.id = e.id /\ Idle(f)
                             /\ f.stage = "start" /\ f.type # "none"
  BY <1>3, FreshIdles DEF Children
<1>7. EntryInv'
  <2>1. \A p \in Queues, d \in Places, x \in Item :
           In(p, d, x)' =>
               /\ x.task \in accepted' /\ x.id < nextId'
               /\ IF d = "running" THEN Runs(x) ELSE Idle(x)
               /\ d = "queue" => x.id > 0
    BY <1>1, <1>2, <1>3, <1>6, MoveEntries DEF Base
  <2>2. QED
    BY <1>1, <1>2, <2>1, MoveRows DEF Base, EntryInv
<1>8. IdInv'
  BY <1>1, <1>2, MoveRows DEF Base
<1>9. SentInv'
  <2>1. ASSUME crashes = 0, NEW f \in Children(e) PROVE SentFor(f)'
    <3>1. f.task \in Tasks /\ f.task # s /\ f.task \notin accepted
      BY <1>3, <1>6, <2>1, ChildrenNew DEF Places
    <3>2. sent'[f.task] = {} /\ spawned'[f.task] = 0
      BY <2>1, <3>1 DEF Base, SentInv
    <3>3. QED
      BY <3>2 DEF SentFor
  <2>2. QED
    BY <1>1, <2>1, MoveSent
<1>10. Table => Table'
  BY <1>1, <1>2, <1>5, MoveTable
<1>11. QED
  BY <1>4, <1>5, <1>7, <1>8, <1>9, <1>10 DEF Base

-----------------------------------------------------------------------------
(* The steps that move an entry between the sets of a worker.              *)

\* What is known of an entry in a worker's memory.
LEMMA HeldBase ==
    ASSUME Base, NEW q \in Queues, NEW c \in Places, NEW e \in Item, In(q, c, e)
    PROVE  /\ e.task \in Tasks /\ e.task \in accepted /\ e.id \in Nat /\ e.id < nextId
           /\ IF c = "running" THEN Runs(e) ELSE Idle(e)
           /\ c = "queue" => e.id > 0
           /\ crashes = 0 => /\ SentOnce(e.task)
                             /\ e.type # "none" => SentFor(e)
BY DEF Base, EntryInv, SentInv, Item

\* A task refused by the rate limit, or given up, is settled.
LEMMA LimitStep ==
    ASSUME Base, NEW q \in Queues, NEW e, ExceedRateLimit(q, e) \/ GiveUp(q, e)
    PROVE  Base' /\ (Table => Table')
<1>1. CASE ExceedRateLimit(q, e)
  <2>1. e \in Item /\ In(q, "checking", e)
    BY <1>1, Held DEF ExceedRateLimit, Base
  <2>2. Shift(q, "checking", e, "checking", {})
    BY <1>1, RateLimitShift DEF Base
  <2>3. /\ Settled' = Settled \cup {e.task}
        /\ UNCHANGED <<dbVars, networkVars, accepted, finished, atRisk, reloaded, crashes>>
    BY <1>1 DEF ExceedRateLimit, Settled
  <2>4. QED
    BY <2>1, <2>2, <2>3, BasketEnds DEF Baskets
<1>2. CASE GiveUp(q, e)
  <2>1. e \in Item /\ In(q, "waiting", e)
    BY <1>2, Held DEF GiveUp, Base
  <2>2. Shift(q, "waiting", e, "waiting", {})
    BY <1>2, GiveUpShift DEF Base
  <2>3. /\ Settled' = Settled \cup {e.task}
        /\ UNCHANGED <<dbVars, networkVars, accepted, finished, atRisk, reloaded, crashes>>
    BY <1>2 DEF GiveUp, Settled
  <2>4. QED
    BY <2>1, <2>2, <2>3, BasketEnds DEF Baskets
<1>3. QED
  BY <1>1, <1>2

\* A retry keeps the invariant: the task stays where it is accounted for.
LEMMA RetryStep ==
    ASSUME Base, NEW q \in Queues, NEW e, Retry(q, e)
    PROVE  Base' /\ (Table => Table')
<1>1. e \in Item /\ In(q, "waiting", e)
  BY Held DEF Retry, Base
<1>2. Idle(e) /\ (crashes = 0 => SentOnce(e.task) /\ (e.type # "none" => SentFor(e)))
  BY <1>1, HeldBase DEF Places
<1>3. PICK f \in Item : /\ Shift(q, "waiting", e, "checking", {f}) /\ Idle(f)
                        /\ f.task = e.task /\ f.id = e.id /\ f.type = e.type
                        /\ f.stage = e.stage /\ f.tx = e.tx
  BY <1>2, RetryShift DEF Base
<1>4. /\ UNCHANGED <<dbVars, historyVars, built, sent, spawned, garbled>>
      /\ NetworkType'
  BY DEF Retry, networkVars, NetworkType, Base, TypeInv
<1>5. crashes = 0 => SentOnce(e.task)' /\ (f.type # "none" => SentFor(f)')
  BY <1>2, <1>3, <1>4 DEF SentOnce, SentFor
<1>6. QED
  BY <1>1, <1>3, <1>4, <1>5, BasketGoesOn DEF Baskets

\* A failure leaves an entry with what was sent for it.
LEMMA FailedStep ==
    ASSUME Base, NEW q \in Queues, NEW e \in worker[q].running, Failed(q, e),
           UNCHANGED <<dbVars, historyVars>>, NetworkType',
           \A t \in Tasks \ {e.task} : sent'[t] = sent[t] /\ spawned'[t] = spawned[t],
           crashes = 0 => SentOnce(e.task)' /\ SentFor(e)'
    PROVE  Base' /\ (Table => Table')
<1>1. e \in Item /\ In(q, "running", e)
  BY Held DEF Base
<1>2. Runs(e)
  BY <1>1, HeldBase DEF Places
<1>3. PICK f \in Item : /\ Shift(q, "running", e, "waiting", {f}) /\ Idle(f)
                        /\ f.task = e.task /\ f.id = e.id
                        /\ f.type # "none" => f.stage = e.stage /\ f.tx = e.tx
  BY <1>2, FailedShift DEF Base
<1>4. crashes = 0 => SentOnce(e.task)' /\ (f.type # "none" => SentFor(f)')
  BY <1>3 DEF SentFor
<1>5. QED
  BY <1>1, <1>3, <1>4, BasketGoesOn DEF Baskets

\* An answered task goes on, or is finished.
LEMMA AnsweredStep ==
    ASSUME Base, NEW q \in Queues, NEW e \in worker[q].running, NEW next \in Item,
           Answered(q, e, next), Done(e), UNCHANGED dbVars, NetworkType',
           next.task = e.task, next.type = e.type, next.stage = e.stage, next.id = e.id,
           next.at = e.at,
           \A t \in Tasks \ {e.task} : sent'[t] = sent[t] /\ spawned'[t] = spawned[t],
           crashes = 0 =>
              /\ SentOnce(e.task)'
              /\ ~IsLast(e) => \A f \in Item :
                    /\ f.task = e.task /\ f.tx = next.tx
                    /\ f.stage = IF Step(e) = e.stage THEN Route(e)[e.at + 1] ELSE e.stage
                    => SentFor(f)'
    PROVE  Base' /\ (Table => Table')
<1>1. e \in Item /\ In(q, "running", e)
  BY Held DEF Base
<1>2. Runs(e)
  BY <1>1, HeldBase DEF Places
<1>3. CASE IsLast(e)
  <2>1. Shift(q, "running", e, "checking", Children(e)) /\ Children(e) \subseteq Item
    BY <1>3, AnsweredLastShift DEF Base
  <2>2. /\ finished' = finished \cup {e.task} /\ accepted' = accepted \cup Outbox[e.task]
        /\ UNCHANGED <<refused, gaveUp, atRisk, reloaded, crashes>>
    BY <1>3 DEF Done
  <2>3. QED
    BY <1>1, <2>1, <2>2, BasketFinishes
<1>4. CASE ~IsLast(e)
  <2>1. PICK f \in Item :
          /\ Shift(q, "running", e, "running", {f}) /\ Runs(f)
          /\ f.task = e.task /\ f.id = e.id /\ f.type = e.type /\ f.tx = next.tx
          /\ f.stage = IF Step(e) = e.stage THEN Route(e)[e.at + 1] ELSE e.stage
    BY <1>2, <1>4, AnsweredShift DEF Base
  <2>2. UNCHANGED historyVars
    BY <1>4 DEF Done, historyVars
  <2>3. crashes = 0 => SentOnce(e.task)' /\ (f.type # "none" => SentFor(f)')
    BY <1>4, <2>1
  <2>4. QED
    BY <1>1, <2>1, <2>2, <2>3, BasketGoesOn DEF Baskets
<1>5. QED
  BY <1>3, <1>4

\* A call that signs nothing leaves its task on the same side of the signature.
LEMMA StageAfter ==
    ASSUME NEW e \in Item, Runs(e), ~IsLast(e), Step(e) \notin {"build-tx", "build-success-tx"}
    PROVE  LET next == Route(e)[e.at + 1]
               stage == IF Step(e) = e.stage THEN next ELSE e.stage
           IN  /\ stage \in Unbuilt <=> e.stage \in Unbuilt
               /\ next \notin {"start", "spawn-process"}
<1>1. e.type \in Types
  BY TypeOfKind
<1>2. e.at \in 1 .. Len(Route(e)) - 1
  BY <1>1, RouteIs DEF Runs, IsLast
<1>3. /\ Route(e)[e.at + 1] # "spawn-process"
      /\ Route(e)[e.at + 1] \in Unbuilt <=> Route(e)[e.at] \in Unbuilt
  BY <1>1, <1>2, RouteIs DEF Step
<1>4. Route(e)[e.at + 1] # "start"
  BY <1>1, <1>2, RouteIs
<1>5. QED
  BY <1>3, <1>4 DEF Step

\* Signing a message keeps the invariant.
LEMMA BuildStep ==
    ASSUME Base, NEW q \in Queues, NEW e, Build(q, e)
    PROVE  Base' /\ (Table => Table')
<1>1. /\ e \in worker[q].running /\ e \in Item /\ In(q, "running", e)
      /\ e.task \in Tasks /\ Runs(e)
      /\ crashes = 0 => SentOnce(e.task) /\ (e.type # "none" => SentFor(e))
  BY Held, HeldBase DEF Build, Base, Places
<1>2. e.type \in Types /\ e.type # "none"
  BY <1>1, TypeOfKind DEF Types
<1>3. Step(e) = e.stage /\ e.stage \in {"build-tx", "build-success-tx"}
  BY <1>1 DEF Build, Runs, Unchecked
<1>4. e.at \in 1 .. Len(Route(e)) - 1 /\ Route(e)[e.at + 1] \notin Unbuilt
  BY <1>1, <1>2, <1>3, RouteIs DEF Build, Runs, Step
<1>5. built' \in [Tasks -> Nat] /\ built'[e.task] \in Nat
  <2>1. built \in [Tasks -> Nat] /\ built' = [built EXCEPT ![e.task] = @ + 1]
    BY DEF Build, Base, TypeInv
  <2>2. built[e.task] + 1 \in Nat
    BY <1>1, <2>1
  <2>3. QED
    BY <1>1, <2>1, <2>2
<1>6. PICK n : n = [e EXCEPT !.tx = built'[e.task], !.parsed = FALSE]
  OBVIOUS
<1>7. /\ n \in Item /\ n.task = e.task /\ n.type = e.type /\ n.stage = e.stage
      /\ n.id = e.id /\ n.at = e.at
  BY <1>1, <1>5, <1>6 DEF Item
<1>8. Answered(q, e, n) /\ Done(e) /\ UNCHANGED <<dbVars, sent, spawned, garbled>>
  BY <1>6 DEF Build
<1>9. NetworkType'
  BY <1>5, <1>8 DEF NetworkType, Base, TypeInv
<1>10. ASSUME crashes = 0
       PROVE  /\ SentOnce(e.task)'
              /\ \A f \in Item : f.task = e.task /\ f.stage = Route(e)[e.at + 1] => SentFor(f)'
  <2>1. sent[e.task] = {}
    BY <1>1, <1>2, <1>3, <1>10 DEF SentFor, Unbuilt
  <2>2. Route(e)[e.at + 1] \notin {"start", "spawn-process"}
    BY <1>4 DEF Unbuilt
  <2>3. QED
    BY <1>1, <1>4, <1>8, <1>10, <2>1, <2>2 DEF SentOnce, SentFor
<1>11. QED
  BY <1>1, <1>3, <1>7, <1>8, <1>9, <1>10, AnsweredStep

\* Pulling a result keeps the invariant.
LEMMA ReadStep ==
    ASSUME Base, NEW q \in Queues, NEW e, Read(q, e)
    PROVE  Base' /\ (Table => Table')
<1>1. /\ e \in worker[q].running /\ e \in Item /\ In(q, "running", e)
      /\ e.task \in Tasks /\ Runs(e)
      /\ crashes = 0 => SentOnce(e.task) /\ (e.type # "none" => SentFor(e))
  BY Held, HeldBase DEF Read, Base, Places
<1>2. e.type \in Types /\ e.type # "none"
  BY <1>1, TypeOfKind DEF Types
<1>3. /\ Answered(q, e, e) /\ Done(e) /\ UNCHANGED <<dbVars, built, sent, spawned, garbled>>
      /\ Step(e) \notin {"build-tx", "build-success-tx"}
  BY DEF Read, networkVars
<1>4. NetworkType'
  BY <1>3 DEF NetworkType, Base, TypeInv
<1>5. ASSUME ~IsLast(e)
      PROVE  LET stage == IF Step(e) = e.stage THEN Route(e)[e.at + 1] ELSE e.stage
             IN  /\ stage \in Unbuilt <=> e.stage \in Unbuilt
                 /\ stage \in {"start", "spawn-process"} => stage = e.stage
  BY <1>1, <1>3, <1>5, StageAfter
<1>6. ASSUME crashes = 0
      PROVE  /\ SentOnce(e.task)'
             /\ ~IsLast(e) => \A f \in Item :
                  /\ f.task = e.task /\ f.tx = e.tx
                  /\ f.stage = IF Step(e) = e.stage THEN Route(e)[e.at + 1] ELSE e.stage
                  => SentFor(f)'
  BY <1>1, <1>2, <1>3, <1>5, <1>6 DEF SentOnce, SentFor
<1>7. QED
  BY <1>1, <1>3, <1>4, <1>6, AnsweredStep

\* A write that is taken, once: what is sent is what the entry carries.
LEMMA TakenOnce ==
    ASSUME Base, NEW q \in Queues, NEW e \in worker[q].running, Step(e) \in Writes, Taken(e)
    PROVE  /\ e \in Item /\ e.task \in Tasks /\ Runs(e) /\ e.type \in Types
           /\ Step(e) = e.stage /\ NetworkType'
           /\ \A t \in Tasks \ {e.task} : sent'[t] = sent[t] /\ spawned'[t] = spawned[t]
           /\ sent'[e.task] = sent[e.task] \cup
                 (IF e.stage \in {"write-message", "send-spawn-success"} THEN {e.tx} ELSE {})
           /\ crashes = 0 =>
                 /\ sent'[e.task] \subseteq IF e.stage \in Unbuilt THEN {} ELSE {e.tx}
                 /\ SentOnce(e.task)'
                 /\ e.stage # "spawn-process" => spawned'[e.task] = spawned[e.task]
<1>1. /\ e \in Item /\ In(q, "running", e) /\ e.task \in Tasks /\ Runs(e)
      /\ crashes = 0 => SentOnce(e.task) /\ (e.type # "none" => SentFor(e))
  BY Held, HeldBase DEF Base, Places
<1>2. e.type \in Types /\ e.type # "none" /\ e.tx \in Nat
  BY <1>1, TypeOfKind DEF Types, Item
<1>3. Step(e) = e.stage
  BY <1>1 DEF Writes, Runs, Unchecked
<1>4. /\ sent \in [Tasks -> SUBSET Nat] /\ spawned \in [Tasks -> Nat]
      /\ built \in [Tasks -> Nat] /\ garbled \subseteq Tasks
  BY DEF Base, TypeInv
<1>5. /\ sent' \in [Tasks -> SUBSET Nat]
      /\ \A t \in Tasks \ {e.task} : sent'[t] = sent[t]
      /\ sent'[e.task] = sent[e.task] \cup
            (IF e.stage \in {"write-message", "send-spawn-success"} THEN {e.tx} ELSE {})
  BY <1>1, <1>2, <1>3, <1>4 DEF Taken
<1>6. /\ spawned' \in [Tasks -> Nat]
      /\ \A t \in Tasks \ {e.task} : spawned'[t] = spawned[t]
      /\ spawned'[e.task] = IF e.stage = "spawn-process" THEN spawned[e.task] + 1
                            ELSE spawned[e.task]
  <2>1. spawned[e.task] + 1 \in Nat
    BY <1>1, <1>4
  <2>2. QED
    BY <1>1, <1>3, <1>4, <2>1 DEF Taken
<1>7. NetworkType'
  BY <1>4, <1>5, <1>6 DEF Taken, NetworkType
<1>8. ASSUME crashes = 0
      PROVE  /\ sent'[e.task] \subseteq IF e.stage \in Unbuilt THEN {} ELSE {e.tx}
             /\ SentOnce(e.task)'
  <2>1. SentOnce(e.task) /\ SentFor(e)
    BY <1>1, <1>2, <1>8
  <2>2. sent'[e.task] \subseteq IF e.stage \in Unbuilt THEN {} ELSE {e.tx}
    BY <1>5, <2>1 DEF SentFor, Unbuilt
  <2>3. "SPAWN" \notin LostAcks => spawned'[e.task] <= 1
    BY <1>1, <1>4, <1>6, <2>1 DEF SentOnce, SentFor
  <2>4. QED
    BY <1>2, <2>2, <2>3 DEF SentOnce
<1>9. QED
  BY <1>1, <1>2, <1>3, <1>5, <1>6, <1>7, <1>8

\* A write that is answered keeps the invariant.
LEMMA WriteStep ==
    ASSUME Base, NEW q \in Queues, NEW e, Write(q, e)
    PROVE  Base' /\ (Table => Table')
<1>1. /\ e \in worker[q].running /\ Step(e) \in Writes /\ Taken(e)
      /\ Answered(q, e, e) /\ Done(e) /\ UNCHANGED dbVars
  BY DEF Write, Taken
<1>2. /\ e \in Item /\ Runs(e) /\ e.type \in Types /\ Step(e) = e.stage /\ NetworkType'
      /\ \A t \in Tasks \ {e.task} : sent'[t] = sent[t] /\ spawned'[t] = spawned[t]
  BY <1>1, TakenOnce
<1>3. ASSUME ~IsLast(e)
      PROVE  LET stage == Route(e)[e.at + 1]
             IN  /\ stage \in Unbuilt <=> e.stage \in Unbuilt
                 /\ stage \notin {"start", "spawn-process"}
  <2>1. Step(e) \notin {"build-tx", "build-success-tx"}
    BY <1>1 DEF Writes
  <2>2. QED
    BY <1>2, <1>3, <2>1, StageAfter
<1>4. ASSUME crashes = 0
      PROVE  /\ SentOnce(e.task)'
             /\ ~IsLast(e) => \A f \in Item :
                  /\ f.task = e.task /\ f.tx = e.tx
                  /\ f.stage = IF Step(e) = e.stage THEN Route(e)[e.at + 1] ELSE e.stage
                  => SentFor(f)'
  <2>1. /\ SentOnce(e.task)'
        /\ sent'[e.task] \subseteq IF e.stage \in Unbuilt THEN {} ELSE {e.tx}
    BY <1>1, <1>4, TakenOnce
  <2>2. QED
    BY <1>2, <1>3, <2>1 DEF SentFor
<1>5. QED
  BY <1>1, <1>2, <1>4, AnsweredStep

\* A write whose answer is lost keeps the invariant: what waits is what was
\* written.
LEMMA LoseAckStep ==
    ASSUME Base, NEW q \in Queues, NEW e, LoseAck(q, e)
    PROVE  Base' /\ (Table => Table')
<1>1. /\ e \in worker[q].running /\ Step(e) \in Writes /\ Taken(e) /\ Failed(q, e)
      /\ e.type \in LostAcks /\ UNCHANGED <<dbVars, historyVars>>
  BY DEF LoseAck, Taken
<1>2. /\ e \in Item /\ Runs(e) /\ e.type \in Types /\ Step(e) = e.stage /\ NetworkType'
      /\ \A t \in Tasks \ {e.task} : sent'[t] = sent[t] /\ spawned'[t] = spawned[t]
  BY <1>1, TakenOnce
<1>3. e.stage = "spawn-process" => e.type = "SPAWN"
  BY <1>2 DEF Step, Runs, Route, Types
<1>4. e.stage # "start"
  BY <1>1, <1>2 DEF Writes
<1>5. ASSUME crashes = 0 PROVE SentOnce(e.task)' /\ SentFor(e)'
  BY <1>1, <1>3, <1>4, <1>5, TakenOnce DEF SentFor
<1>6. QED
  BY <1>1, <1>2, <1>5, FailedStep

\* A call that fails, or posts what nobody takes, keeps the invariant.
LEMMA FailStep ==
    ASSUME Base, NEW q \in Queues, NEW e, PostGarbled(q, e) \/ Fail(q, e)
    PROVE  Base' /\ (Table => Table')
<1>1. /\ e \in worker[q].running /\ Failed(q, e)
      /\ UNCHANGED <<dbVars, historyVars, built, sent, spawned>>
      /\ garbled' \in {garbled, garbled \cup {e.task}}
  BY DEF PostGarbled, Fail, networkVars
<1>2. /\ e.task \in Tasks /\ Runs(e)
      /\ crashes = 0 => SentOnce(e.task) /\ (e.type # "none" => SentFor(e))
  BY <1>1, Held, HeldBase DEF Base, Places
<1>3. e.type # "none"
  BY <1>1, <1>2, Held, TypeOfKind DEF Base, Types
<1>4. NetworkType'
  BY <1>1, <1>2 DEF NetworkType, Base, TypeInv
<1>5. ASSUME crashes = 0 PROVE SentOnce(e.task)' /\ SentFor(e)'
  BY <1>1, <1>2, <1>3, <1>5 DEF SentOnce, SentFor
<1>6. QED
  BY <1>1, <1>4, <1>5, FailedStep

-----------------------------------------------------------------------------
(* The steps that change a queue or the table.                             *)

\* Queueing a task moves its entry to the end of the queue, with an id of its own.
LEMMA EnqueueMoves ==
    ASSUME TypeInv, NEW q \in Queues, NEW e, Enqueue(q, e)
    PROVE  \E f \in Item, m \in Memory, s \in Seq(Item) :
              /\ f.id = nextId /\ f.task = e.task /\ f.type = e.type /\ f.at = e.at
              /\ f.stage = e.stage /\ f.tx = e.tx /\ f.retries = e.retries
              /\ s = worker[q].queue /\ Len(s) \in Nat
              /\ Append(s, f) \in Seq(Item) /\ Len(Append(s, f)) = Len(s) + 1
              /\ \A i \in 1 .. Len(s) : Append(s, f)[i] = s[i]
              /\ Append(s, f)[Len(s) + 1] = f
              /\ m.queue = Append(s, f) /\ m.dequeued = worker[q].dequeued
              /\ m.up = worker[q].up
              /\ worker' \in [Queues -> Memory] /\ worker'[q] = m
              /\ \A p \in Queues \ {q} : worker'[p] = worker[p]
              /\ rows' = rows \cup {[queue |-> q, entry |-> f]}
              /\ Moves(q, "checking", e, "queue", {f})
<1>1. /\ e \in worker[q].checking /\ e \in Item
      /\ nextId \in Nat \ {0} /\ worker[q] \in Memory
  BY Held DEF Enqueue, TypeInv
<1>2. PICK f : f = [e EXCEPT !.id = nextId]
  OBVIOUS
<1>3. /\ f \in Item /\ f.id = nextId /\ f.task = e.task /\ f.type = e.type
      /\ f.stage = e.stage /\ f.tx = e.tx /\ f.at = e.at /\ f.retries = e.retries
  BY <1>1, <1>2 DEF Item
<1>4. PICK m : m = [worker[q] EXCEPT !.checking = @ \ {e}, !.queue = Append(@, f)]
  OBVIOUS
<1>5. PICK s \in Seq(Item) : s = worker[q].queue
  BY <1>1 DEF Memory
<1>6. /\ Append(s, f) \in Seq(Item) /\ Len(Append(s, f)) = Len(s) + 1 /\ Len(s) \in Nat
      /\ \A i \in 1 .. Len(s) : Append(s, f)[i] = s[i]
      /\ Append(s, f)[Len(s) + 1] = f
  BY <1>3, AppendProperties
<1>7. /\ m \in Memory /\ m.queue = Append(s, f) /\ m.dequeued = worker[q].dequeued
      /\ m.up = worker[q].up /\ m.checking = worker[q].checking \ {e}
      /\ m.running = worker[q].running /\ m.waiting = worker[q].waiting
  BY <1>1, <1>4, <1>5, <1>6 DEF Memory
<1>8. worker' = [worker EXCEPT ![q] = m]
  BY <1>2, <1>4 DEF Enqueue, TypeInv
<1>9. /\ worker' \in [Queues -> Memory] /\ worker'[q] = m
      /\ \A p \in Queues \ {q} : worker'[p] = worker[p]
  BY <1>7, <1>8, WorkerSet
<1>10. Moves(q, "checking", e, "queue", {f})
  <2> SUFFICES ASSUME NEW p \in Queues, NEW d \in Places, NEW x \in Item
               PROVE  In(p, d, x)' <=>
                         \/ In(p, d, x) /\ ~(p = q /\ d = "checking" /\ x = e)
                         \/ p = q /\ d = "queue" /\ x \in {f}
    BY DEF Moves
  <2>1. CASE p # q
    BY <1>9, <2>1 DEF In
  <2>2. CASE p = q /\ d = "queue"
    <3>1. In(p, d, x)' <=> \E i \in 1 .. Len(s) + 1 : x = Append(s, f)[i]
      BY <1>6, <1>7, <1>9, <2>2 DEF In
    <3>2. In(p, d, x) <=> \E i \in 1 .. Len(s) : x = s[i]
      BY <1>5, <2>2 DEF In
    <3>3. 1 .. Len(s) + 1 = (1 .. Len(s)) \cup {Len(s) + 1}
      BY <1>6
    <3>4. QED
      BY <1>6, <2>2, <3>1, <3>2, <3>3
  <2>3. CASE p = q /\ d # "queue"
    BY <1>7, <1>9, <2>3 DEF In, Places
  <2>4. QED
    BY <2>1, <2>2, <2>3
<1>11. rows' = rows \cup {[queue |-> q, entry |-> f]}
  BY <1>2 DEF Enqueue
<1>12. QED
  BY <1>3, <1>5, <1>6, <1>7, <1>9, <1>10, <1>11

\* Queueing a task writes its row in the same tick.
LEMMA EnqueueStep ==
    ASSUME Base, NEW q \in Queues, NEW e, Enqueue(q, e)
    PROVE  Base' /\ (Table => Table')
<1>1. /\ e \in worker[q].checking /\ e \in Item /\ In(q, "checking", e)
      /\ e.task \in Tasks /\ e.task \in accepted /\ Idle(e)
      /\ crashes = 0 => SentOnce(e.task) /\ (e.type # "none" => SentFor(e))
      /\ nextId \in Nat \ {0}
  BY Held, HeldBase DEF Enqueue, Base, Places, TypeInv
<1>2. PICK f \in Item, m \in Memory, s \in Seq(Item) :
         /\ f.id = nextId /\ f.task = e.task /\ f.type = e.type /\ f.at = e.at
         /\ f.stage = e.stage /\ f.tx = e.tx /\ f.retries = e.retries
         /\ s = worker[q].queue /\ Len(s) \in Nat
         /\ Append(s, f) \in Seq(Item) /\ Len(Append(s, f)) = Len(s) + 1
         /\ \A i \in 1 .. Len(s) : Append(s, f)[i] = s[i]
         /\ Append(s, f)[Len(s) + 1] = f
         /\ m.queue = Append(s, f) /\ m.dequeued = worker[q].dequeued
         /\ m.up = worker[q].up
         /\ worker' \in [Queues -> Memory] /\ worker'[q] = m
         /\ \A p \in Queues \ {q} : worker'[p] = worker[p]
         /\ rows' = rows \cup {[queue |-> q, entry |-> f]}
         /\ Moves(q, "checking", e, "queue", {f})
  BY EnqueueMoves DEF Base
<1>3. Idle(f)
  BY <1>1, <1>2, RouteSame DEF Idle
<1>4. PICK r : r = [queue |-> q, entry |-> f]
  OBVIOUS
<1>5. /\ r.queue = q /\ r.entry = f /\ rows' = rows \cup {r} /\ nextId' = nextId + 1
      /\ UNCHANGED <<accepted, refused, finished, gaveUp, atRisk, reloaded, crashes, built,
                     sent, spawned, garbled>>
      /\ r \in [queue : Queues, entry : Item]
  BY <1>2, <1>4 DEF Enqueue, networkVars, historyVars
<1>6. TypeInv' /\ Settled' = Settled
  <2>1. IsFiniteSet(rows')
    BY <1>5, FS_AddElement DEF Base, TypeInv
  <2>2. nextId' \in Nat \ {0} /\ rows' \subseteq [queue : Queues, entry : Item]
    BY <1>1, <1>5 DEF Base, TypeInv
  <2>3. QED
    BY <1>2, <1>5, <2>1, <2>2 DEF Base, TypeInv, Settled
<1>7. OnceInv' /\ \A t : InMemory(t) => InMemory(t)'
  BY <1>1, <1>2, <1>5, <1>6, GoesOn DEF Base, Places
<1>8. \A p \in Queues : worker[p].dequeued \subseteq 1 .. nextId - 1
  BY DEF Base, EntryInv
<1>9. \A p \in Queues : worker'[p].dequeued = worker[p].dequeued
  BY <1>2
<1>10. EntryInv'
  <2>1. \A p \in Queues, d \in Places, x \in Item :
           In(p, d, x)' =>
               /\ x.task \in accepted' /\ x.id < nextId'
               /\ IF d = "running" THEN Runs(x) ELSE Idle(x)
               /\ d = "queue" => x.id > 0
    BY <1>1, <1>2, <1>3, <1>5, MoveEntries DEF Base, Places
  <2>2. \A y \in rows' : Saved(y.entry)'
    <3>1. Saved(f)'
      BY <1>1, <1>2, <1>3, <1>5 DEF Saved
    <3>2. \A y \in rows : Saved(y.entry)'
      <4>1. \A y \in rows : Saved(y.entry)
        BY DEF Base, EntryInv
      <4>2. QED
        BY <1>1, <1>5, <4>1 DEF Saved
    <3>3. QED
      BY <1>5, <3>1, <3>2
  <2>3. \A p \in Queues : worker'[p].dequeued \subseteq 1 .. nextId' - 1
    BY <1>1, <1>5, <1>8, <1>9
  <2>4. QED
    BY <2>1, <2>2, <2>3 DEF EntryInv
<1>11. \A y \in rows : y.entry.id # nextId
  BY <1>1 DEF Base, EntryInv, Saved
<1>12. \A p \in Queues : \A i \in 1 .. Len(worker[p].queue) : worker[p].queue[i].id < nextId
  BY Held DEF Base, EntryInv, Places
<1>13. IdInv'
  <2>1. \A y, z \in rows' : y.entry.id = z.entry.id => y = z
    BY <1>2, <1>5, <1>11 DEF Base, IdInv
  <2>2. ASSUME NEW p \in Queues, NEW i \in 1 .. Len(worker'[p].queue),
               NEW j \in 1 .. Len(worker'[p].queue),
               worker'[p].queue[i].id = worker'[p].queue[j].id
        PROVE  i = j
    <3>1. CASE p # q
      BY <1>2, <2>2, <3>1 DEF Base, IdInv
    <3>2. CASE p = q
      <4>1. \A k \in 1 .. Len(s) : s[k].id < nextId /\ s[k].id \in Nat
        <5>1. \A k \in 1 .. Len(s) : s[k] \in Item
          OBVIOUS
        <5>2. QED
          BY <1>2, <1>12, <5>1 DEF Item
      <4>2. /\ i \in 1 .. Len(s) + 1 /\ j \in 1 .. Len(s) + 1
            /\ Append(s, f)[i].id = Append(s, f)[j].id
        BY <1>2, <2>2, <3>2
      <4>3. \A k, l \in 1 .. Len(s) : s[k].id = s[l].id => k = l
        BY <1>2 DEF Base, IdInv
      <4>4. CASE i = Len(s) + 1
        <5>1. j = Len(s) + 1
          BY <1>2, <4>1, <4>2, <4>4
        <5>2. QED
          BY <4>4, <5>1
      <4>5. CASE j = Len(s) + 1
        <5>1. i = Len(s) + 1
          BY <1>2, <4>1, <4>2, <4>5
        <5>2. QED
          BY <4>5, <5>1
      <4>6. CASE i \in 1 .. Len(s) /\ j \in 1 .. Len(s)
        BY <1>2, <4>2, <4>3, <4>6
      <4>7. QED
        BY <1>2, <4>2, <4>4, <4>5, <4>6
    <3>3. QED
      BY <3>1, <3>2
  <2>3. QED
    BY <2>1, <2>2 DEF IdInv
<1>14. SentInv'
  <2>1. crashes = 0 => SentOnce(e.task)' /\ (f.type # "none" => SentFor(f)')
    BY <1>1, <1>2, <1>5 DEF SentOnce, SentFor
  <2>2. QED
    BY <1>1, <1>2, <1>5, <2>1, MoveSent DEF Places
<1>15. ASSUME Table PROVE Table'
  <2>1. RowInv'
    <3>1. ASSUME NEW p \in Queues, NEW i \in 1 .. Len(worker'[p].queue)
          PROVE  /\ worker'[p].queue[i].id \notin worker'[p].dequeued
                 /\ \E y \in rows' : /\ y.queue = p
                                     /\ y.entry.id = worker'[p].queue[i].id
                                     /\ y.entry.task = worker'[p].queue[i].task
                                     /\ y.entry.type = worker'[p].queue[i].type
      <4>1. CASE p = q /\ i = Len(s) + 1
        <5>1. worker'[p].queue[i] = f
          BY <1>2, <4>1
        <5>2. nextId \notin worker'[p].dequeued
          BY <1>1, <1>8, <1>9
        <5>3. r \in rows' /\ f.id = nextId
          BY <1>2, <1>5
        <5>4. QED
          BY <1>5, <4>1, <5>1, <5>2, <5>3
      <4>2. CASE ~(p = q /\ i = Len(s) + 1)
        <5>1. CASE p # q
          <6>1. worker'[p] = worker[p]
            BY <1>2, <5>1
          <6>2. QED
            BY <1>5, <1>9, <1>15, <3>1, <6>1 DEF Table, RowInv
        <5>2. CASE p = q
          <6>1. worker'[p].queue = Append(s, f) /\ worker[p].queue = s
            BY <1>2, <5>2
          <6>2. i \in 1 .. Len(s)
            BY <1>2, <3>1, <4>2, <5>2, <6>1
          <6>3. worker'[p].queue[i] = worker[p].queue[i]
            BY <1>2, <6>1, <6>2
          <6>4. i \in 1 .. Len(worker[p].queue)
            BY <6>1, <6>2
          <6>5. worker[p].queue[i].id \notin worker[p].dequeued
            BY <1>15, <6>4 DEF Table, RowInv
          <6>6. PICK y \in rows : /\ y.queue = p
                                  /\ y.entry.id = worker[p].queue[i].id
                                  /\ y.entry.task = worker[p].queue[i].task
                                  /\ y.entry.type = worker[p].queue[i].type
            BY <1>15, <6>4 DEF Table, RowInv
          <6>7. y \in rows'
            BY <1>5, <6>6
          <6>8. QED
            BY <1>9, <6>3, <6>5, <6>6, <6>7
        <5>3. QED
          BY <5>1, <5>2
      <4>3. QED
        BY <4>1, <4>2
    <3>2. ASSUME NEW p \in Queues, NEW y \in rows', y.entry.id \in worker'[p].dequeued
          PROVE  y.queue = p /\ y.entry.type # "none"
      <4>1. y # r
        BY <1>1, <1>2, <1>5, <1>8, <1>9, <3>2
      <4>2. QED
        BY <1>5, <1>9, <1>15, <3>2, <4>1 DEF Table, RowInv
    <3>3. QED
      BY <3>1, <3>2 DEF RowInv
  <2>2. KeptInv'
    <3> SUFFICES ASSUME NEW t \in accepted \ (Settled \cup atRisk), ~InMemory(t)
                 PROVE  \E y \in rows' :
                           /\ y.entry.task = t
                           /\ \A p \in Queues : y.entry.id \notin worker'[p].dequeued
      BY <1>5, <1>6, <1>7 DEF KeptInv
    <3>1. PICK y \in rows : /\ y.entry.task = t
                            /\ \A p \in Queues : y.entry.id \notin worker[p].dequeued
      BY <1>15 DEF Table, KeptInv
    <3>2. QED
      BY <1>5, <1>9, <3>1
  <2>3. LivesInv'
    <3>1. Dead \subseteq Dead'
      <4>1. \A p \in Queues : worker'[p].up = worker[p].up
        BY <1>2
      <4>2. \A y \in rows : y.queue \in Queues
        BY DEF Base, TypeInv
      <4>3. QED
        BY <1>5, <4>1, <4>2 DEF Dead
    <3>2. QED
      BY <1>5, <1>6, <1>7, <1>15, <3>1 DEF Table, LivesInv
  <2>4. QED
    BY <2>1, <2>2, <2>3 DEF Table
<1>16. QED
  BY <1>6, <1>7, <1>10, <1>13, <1>14, <1>15 DEF Base

\* What dequeuing an entry e does: it runs as f, and m is what its worker then holds.
Dequeued(q, e, f, m, s) ==
    /\ s = worker[q].queue /\ e = s[1] /\ Len(s) \in Nat \ {0}
    /\ Tail(s) \in Seq(Item) /\ Len(Tail(s)) = Len(s) - 1
    /\ \A i \in 1 .. Len(Tail(s)) : Tail(s)[i] = s[i + 1]
    /\ In(q, "queue", e) /\ Idle(e) /\ e.type \in Types /\ e.type # "none"
    /\ e.task \in Tasks /\ e.task \in accepted /\ e.id \in 1 .. nextId - 1
    /\ crashes = 0 => SentOnce(e.task) /\ SentFor(e)
    /\ Runs(f) /\ f.task = e.task /\ f.type = e.type /\ f.id = e.id
    /\ f.tx = e.tx /\ f.retries = e.retries
    /\ f.stage = IF e.stage = "start" THEN Route(e)[1] ELSE e.stage
    /\ m.queue = Tail(s) /\ m.dequeued = worker[q].dequeued \cup {e.id}
    /\ m.up = worker[q].up
    /\ worker' \in [Queues -> Memory] /\ worker'[q] = m
    /\ \A p \in Queues \ {q} : worker'[p] = worker[p]
    /\ Moves(q, "queue", e, "running", {f})

\* Dequeuing a task moves the first entry of the queue to those that run.
LEMMA DequeueMoves ==
    ASSUME Base, NEW q \in Queues, Dequeue(q)
    PROVE  \E e, f \in Item, m \in Memory, s \in Seq(Item) : Dequeued(q, e, f, m, s)
<1>1. worker[q] \in Memory /\ worker[q].queue # <<>>
  BY Held DEF Dequeue, Base
<1>2. PICK s \in Seq(Item) : s = worker[q].queue
  BY <1>1 DEF Memory
<1>3. /\ Len(s) \in Nat \ {0} /\ Head(s) = s[1]
      /\ Tail(s) \in Seq(Item) /\ Len(Tail(s)) = Len(s) - 1
      /\ \A i \in 1 .. Len(Tail(s)) : Tail(s)[i] = s[i + 1]
  <2>1. s # <<>>
    BY <1>1, <1>2
  <2>2. Len(s) \in Nat \ {0}
    BY <2>1, EmptySeq
  <2>3. QED
    BY <2>1, <2>2, HeadTailProperties
<1>4. PICK e \in Item : e = s[1]
  BY <1>3
<1>5. /\ In(q, "queue", e) /\ Idle(e) /\ e.type \in Types /\ e.type # "none"
      /\ e.task \in Tasks /\ e.task \in accepted /\ e.id \in 1 .. nextId - 1
      /\ crashes = 0 => SentOnce(e.task) /\ SentFor(e)
  <2>1. e.type \in Types /\ e.type # "none"
    BY <1>2, <1>3, <1>4 DEF Dequeue, Types
  <2>2. In(q, "queue", e)
    <3>1. 1 \in 1 .. Len(worker[q].queue) /\ e = worker[q].queue[1]
      BY <1>2, <1>3, <1>4
    <3>2. QED
      BY <3>1 DEF In
  <2>3. nextId \in Nat
    BY DEF Base, TypeInv
  <2>4. QED
    BY <2>1, <2>2, <2>3, HeldBase DEF Places
<1>6. PICK f \in Item : /\ f = Started(e) /\ Runs(f)
                        /\ f.task = e.task /\ f.type = e.type /\ f.id = e.id /\ f.tx = e.tx
                        /\ f.retries = e.retries
                        /\ f.stage = IF e.stage = "start" THEN Route(e)[1] ELSE e.stage
  BY <1>5, StartedRuns
<1>7. PICK m : m = [worker[q] EXCEPT !.queue = Tail(@), !.dequeued = @ \cup {e.id},
                                     !.running = @ \cup {f}]
  OBVIOUS
<1>8. /\ m \in Memory /\ m.queue = Tail(s) /\ m.dequeued = worker[q].dequeued \cup {e.id}
      /\ m.up = worker[q].up /\ m.checking = worker[q].checking
      /\ m.running = worker[q].running \cup {f} /\ m.waiting = worker[q].waiting
  <2>1. e.id \in Nat
    BY DEF Item
  <2>2. QED
    BY <1>1, <1>2, <1>3, <1>7, <2>1 DEF Memory
<1>9. worker' = [worker EXCEPT ![q] = m]
  BY <1>2, <1>3, <1>4, <1>6, <1>7 DEF Dequeue, Base, TypeInv
<1>10. /\ worker' \in [Queues -> Memory] /\ worker'[q] = m
       /\ \A p \in Queues \ {q} : worker'[p] = worker[p]
  BY <1>8, <1>9, WorkerSet DEF Base
<1>11. \A i, j \in 1 .. Len(s) : s[i].id = s[j].id => i = j
  BY <1>2 DEF Base, IdInv
<1>12. Moves(q, "queue", e, "running", {f})
  <2> SUFFICES ASSUME NEW p \in Queues, NEW d \in Places, NEW x \in Item
               PROVE  In(p, d, x)' <=>
                         \/ In(p, d, x) /\ ~(p = q /\ d = "queue" /\ x = e)
                         \/ p = q /\ d = "running" /\ x \in {f}
    BY DEF Moves
  <2>1. CASE p # q
    BY <1>10, <2>1 DEF In
  <2>2. CASE p = q /\ d = "queue"
    <3>1. In(p, d, x)' <=> \E i \in 1 .. Len(s) - 1 : x = s[i + 1]
      <4>1. PICK u : u = Tail(s)
        OBVIOUS
      <4>2. In(p, d, x)' <=> \E i \in 1 .. Len(u) : x = u[i]
        BY <1>8, <1>10, <2>2, <4>1 DEF In
      <4>3. QED
        BY <1>3, <4>1, <4>2
    <3>2. In(p, d, x) <=> \E i \in 1 .. Len(s) : x = s[i]
      BY <1>2, <2>2 DEF In
    <3>3. ASSUME NEW i \in 1 .. Len(s) - 1 PROVE s[i + 1] # e /\ i + 1 \in 1 .. Len(s)
      BY <1>3, <1>4, <1>11
    <3>4. ASSUME NEW i \in 1 .. Len(s), s[i] # e
          PROVE  i - 1 \in 1 .. Len(s) - 1 /\ s[i] = s[(i - 1) + 1]
      BY <1>3, <1>4, <3>4
    <3>5. QED
      BY <2>2, <3>1, <3>2, <3>3, <3>4
  <2>3. CASE p = q /\ d # "queue"
    BY <1>8, <1>10, <2>3 DEF In, Places
  <2>4. QED
    BY <2>1, <2>2, <2>3
<1>13. m \in Memory /\ Dequeued(q, e, f, m, s)
  BY <1>2, <1>3, <1>4, <1>5, <1>6, <1>8, <1>10, <1>12 DEF Dequeued
<1>14. QED
  BY <1>13

\* Dequeuing a task marks its row for removal.
LEMMA DequeueStep ==
    ASSUME Base, NEW q \in Queues, Dequeue(q)
    PROVE  Base' /\ (Table => Table')
<1>1. PICK e \in Item, f \in Item, m \in Memory, s \in Seq(Item) : Dequeued(q, e, f, m, s)
  BY DequeueMoves
<1> USE DEF Dequeued
<1>2. UNCHANGED <<rows, nextId, built, sent, spawned, garbled, accepted, refused, finished,
                   gaveUp, atRisk, reloaded, crashes, Settled>>
  BY DEF Dequeue, dbVars, networkVars, historyVars, Settled
<1>3. /\ s = worker[q].queue /\ e = s[1] /\ 1 \in 1 .. Len(s)
      /\ \A i, j \in 1 .. Len(s) : s[i].id = s[j].id => i = j
  <2>1. s = worker[q].queue /\ e = s[1] /\ Len(s) \in Nat \ {0}
    BY <1>1
  <2>2. QED
    BY <2>1 DEF Base, IdInv
<1>4. TypeInv'
  BY <1>1, <1>2 DEF Base, TypeInv
<1>5. OnceInv' /\ \A t : InMemory(t) => InMemory(t)'
  <2>1. In(q, "queue", e) /\ f.task = e.task /\ Moves(q, "queue", e, "running", {f})
    BY <1>1
  <2> HIDE DEF Dequeued
  <2>2. QED
    BY <1>2, <2>1, GoesOn DEF Base, Places
<1>6. \A p \in Queues : worker'[p].dequeued = worker[p].dequeued \cup (IF p = q THEN {e.id} ELSE {})
  BY <1>1
<1>7. EntryInv'
  <2>1. /\ nextId' \in Nat /\ nextId <= nextId' /\ f.id < nextId'
        /\ f.task \in accepted' /\ accepted' = accepted
        /\ Runs(f) /\ Moves(q, "queue", e, "running", {f})
    BY <1>1, <1>2 DEF Base, TypeInv
  <2>2. \A p \in Queues, d \in Places, x \in Item :
           In(p, d, x)' =>
               /\ x.task \in accepted' /\ x.id < nextId'
               /\ IF d = "running" THEN Runs(x) ELSE Idle(x)
               /\ d = "queue" => x.id > 0
    BY <2>1, MoveEntries DEF Base, Places
  <2>3. \A r \in rows' : Saved(r.entry)'
    BY <1>2 DEF Base, EntryInv, Saved
  <2>4. \A p \in Queues : worker'[p].dequeued \subseteq 1 .. nextId' - 1
    BY <1>1, <1>2, <1>6 DEF Base, EntryInv
  <2>5. QED
    BY <2>2, <2>3, <2>4 DEF EntryInv
<1>8. \A p \in Queues : \A i \in 1 .. Len(worker'[p].queue) :
          LET k == IF p = q THEN i + 1 ELSE i
          IN  k \in 1 .. Len(worker[p].queue) /\ worker'[p].queue[i] = worker[p].queue[k]
  <2> SUFFICES ASSUME NEW p \in Queues, NEW i \in 1 .. Len(worker'[p].queue)
               PROVE  LET k == IF p = q THEN i + 1 ELSE i
                      IN  /\ k \in 1 .. Len(worker[p].queue)
                          /\ worker'[p].queue[i] = worker[p].queue[k]
    OBVIOUS
  <2>1. CASE p = q
    <3>1. i \in 1 .. Len(Tail(s))
      BY <1>1, <2>1
    <3>2. i + 1 \in 1 .. Len(s) /\ Tail(s)[i] = s[i + 1]
      BY <1>1, <3>1
    <3>3. QED
      BY <1>1, <2>1, <3>2
  <2>2. CASE p # q
    BY <1>1, <2>2
  <2>3. QED
    BY <2>1, <2>2
<1>9. IdInv'
  <2>1. ASSUME NEW p \in Queues, NEW i \in 1 .. Len(worker'[p].queue),
               NEW j \in 1 .. Len(worker'[p].queue),
               worker'[p].queue[i].id = worker'[p].queue[j].id
        PROVE  i = j
    <3>1. PICK k \in 1 .. Len(worker[p].queue) :
             worker'[p].queue[i] = worker[p].queue[k] /\ k = IF p = q THEN i + 1 ELSE i
      BY <1>8
    <3>2. PICK l \in 1 .. Len(worker[p].queue) :
             worker'[p].queue[j] = worker[p].queue[l] /\ l = IF p = q THEN j + 1 ELSE j
      BY <1>8
    <3>3. k = l
      BY <2>1, <3>1, <3>2 DEF Base, IdInv
    <3>4. QED
      BY <3>1, <3>2, <3>3
  <2>2. QED
    BY <1>2, <2>1 DEF Base, IdInv
<1>10. SentInv'
  <2>1. e.stage = "start" => f.stage \in {"build-tx", "spawn-process", "locate-process-local"}
    BY <1>1 DEF Route, Types
  <2>2. crashes = 0 => SentOnce(e.task)' /\ (f.type # "none" => SentFor(f)')
    BY <1>1, <1>2, <2>1 DEF SentOnce, SentFor, Unbuilt
  <2>3. QED
    BY <1>1, <1>2, <2>2, MoveSent DEF Places
<1>11. ASSUME Table PROVE Table'
  <2>1. PICK r \in rows : /\ r.queue = q /\ r.entry.id = e.id /\ r.entry.task = e.task
                          /\ r.entry.type = e.type
    BY <1>3, <1>11 DEF Table, RowInv
  <2>2. \A y \in rows : y.entry.id = e.id => y = r
    BY <2>1 DEF Base, IdInv
  <2>3. RowInv'
    <3>1. ASSUME NEW p \in Queues, NEW i \in 1 .. Len(worker'[p].queue)
          PROVE  /\ worker'[p].queue[i].id \notin worker'[p].dequeued
                 /\ \E y \in rows' : /\ y.queue = p
                                     /\ y.entry.id = worker'[p].queue[i].id
                                     /\ y.entry.task = worker'[p].queue[i].task
                                     /\ y.entry.type = worker'[p].queue[i].type
      <4>1. PICK k \in 1 .. Len(worker[p].queue) :
               worker'[p].queue[i] = worker[p].queue[k] /\ (p = q => k = i + 1)
        BY <1>8
      <4>2. p = q => worker[p].queue[k].id # e.id
        <5>1. i >= 1
          BY <3>1
        <5>2. QED
          BY <1>3, <4>1, <5>1
      <4>3. QED
        BY <1>2, <1>6, <1>11, <4>1, <4>2 DEF Table, RowInv
    <3>2. ASSUME NEW p \in Queues, NEW y \in rows', y.entry.id \in worker'[p].dequeued
          PROVE  y.queue = p /\ y.entry.type # "none"
      <4>1. CASE p = q /\ y.entry.id = e.id
        <5>1. y = r
          BY <1>2, <2>2, <4>1
        <5>2. e.type # "none"
          BY <1>1
        <5>3. QED
          BY <2>1, <4>1, <5>1, <5>2
      <4>2. CASE ~(p = q /\ y.entry.id = e.id)
        BY <1>2, <1>6, <1>11, <3>2, <4>2 DEF Table, RowInv
      <4>3. QED
        BY <4>1, <4>2
    <3>3. QED
      BY <3>1, <3>2 DEF RowInv
  <2>4. KeptInv'
    <3> SUFFICES ASSUME NEW t \in accepted \ (Settled \cup atRisk), ~InMemory(t)
                 PROVE  \E y \in rows' :
                           /\ y.entry.task = t
                           /\ \A p \in Queues : y.entry.id \notin worker'[p].dequeued
      BY <1>2, <1>5 DEF KeptInv
    <3>1. PICK y \in rows : /\ y.entry.task = t
                            /\ \A p \in Queues : y.entry.id \notin worker[p].dequeued
      BY <1>11 DEF Table, KeptInv
    <3>2. y.entry.id # e.id
      <4>1. e.task # t
        BY <1>1 DEF InMemory, Places
      <4>2. QED
        BY <2>1, <2>2, <3>1, <4>1
    <3>3. QED
      BY <1>2, <1>6, <3>1, <3>2
  <2>5. LivesInv'
    <3>1. Dead' = Dead
      <4>1. \A p \in Queues : worker'[p].up = worker[p].up
        BY <1>1
      <4>2. \A y \in rows : y.queue \in Queues
        BY DEF Base, TypeInv
      <4>3. QED
        BY <1>2, <4>1, <4>2 DEF Dead
    <3>2. QED
      BY <1>2, <1>5, <1>11, <3>1 DEF Table, LivesInv
  <2>6. QED
    BY <2>3, <2>4, <2>5 DEF Table
<1>12. QED
  BY <1>4, <1>5, <1>7, <1>9, <1>10, <1>11 DEF Base

\* A new task is one entry more.
LEMMA CrankMoves ==
    ASSUME TypeInv, NEW t \in Tasks, NEW q \in Queues, Crank(t, q)
    PROVE  \E f \in Item :
              /\ f = Fresh(t, 0) /\ Idle(f) /\ f.task = t /\ f.id = 0
              /\ f.type # "none" /\ f.stage = "start"
              /\ worker' \in [Queues -> Memory]
              /\ worker'[q].queue = worker[q].queue
              /\ worker'[q].dequeued = worker[q].dequeued /\ worker'[q].up = TRUE
              /\ \A p \in Queues \ {q} : worker'[p] = worker[p]
              /\ Moves(q, "checking", f, "checking", {f})
<1>1. worker[q] \in Memory
  BY Held
<1>2. PICK f \in Item : /\ f = Fresh(t, 0) /\ Idle(f) /\ f.task = t /\ f.id = 0
                        /\ f.type # "none" /\ f.stage = "start"
  BY FreshIdles
<1>3. PICK m : m = [worker[q] EXCEPT !.up = TRUE, !.checking = @ \cup {f}]
  OBVIOUS
<1>4. /\ m \in Memory /\ m.queue = worker[q].queue /\ m.dequeued = worker[q].dequeued
      /\ m.up = TRUE /\ m.checking = worker[q].checking \cup {f}
      /\ m.running = worker[q].running /\ m.waiting = worker[q].waiting
  BY <1>1, <1>2, <1>3 DEF Memory
<1>5. worker' = [worker EXCEPT ![q] = m]
  BY <1>2, <1>3 DEF Crank, TypeInv
<1>6. /\ worker' \in [Queues -> Memory] /\ worker'[q] = m
      /\ \A p \in Queues \ {q} : worker'[p] = worker[p]
  BY <1>4, <1>5, WorkerSet
<1>7. \A p \in Queues, d \in Places, x \in Item :
         In(p, d, x)' <=> In(p, d, x) \/ (p = q /\ d = "checking" /\ x = f)
  <2> SUFFICES ASSUME NEW p \in Queues, NEW d \in Places, NEW x \in Item
               PROVE  In(p, d, x)' <=> In(p, d, x) \/ (p = q /\ d = "checking" /\ x = f)
    OBVIOUS
  <2>1. CASE p # q
    BY <1>6, <2>1 DEF In
  <2>2. CASE p = q
    BY <1>4, <1>6, <2>2 DEF In, Places
  <2>3. QED
    BY <2>1, <2>2
<1>8. Moves(q, "checking", f, "checking", {f})
  BY <1>7 DEF Moves
<1>9. QED
  BY <1>2, <1>4, <1>6, <1>8

\* A new task goes to a worker that is up, or has no rows.
LEMMA CrankStep ==
    ASSUME Base, NEW t \in Tasks, NEW q \in Queues, Crank(t, q)
    PROVE  Base' /\ (Table => Table')
<1>1. /\ worker[q] \in Memory /\ nextId \in Nat \ {0}
      /\ t \in Roots \ accepted /\ (worker[q].up \/ RowsOf(q) = {}) /\ TypeInv
  BY Held DEF Crank, Base, TypeInv
<1>2. PICK f \in Item :
         /\ f = Fresh(t, 0) /\ Idle(f) /\ f.task = t /\ f.id = 0
         /\ f.type # "none" /\ f.stage = "start"
         /\ worker' \in [Queues -> Memory]
         /\ worker'[q].queue = worker[q].queue
         /\ worker'[q].dequeued = worker[q].dequeued /\ worker'[q].up = TRUE
         /\ \A p \in Queues \ {q} : worker'[p] = worker[p]
         /\ Moves(q, "checking", f, "checking", {f})
  BY <1>1, CrankMoves, Zenon
<1>3. /\ UNCHANGED <<rows, nextId, built, sent, spawned, garbled, refused, finished, gaveUp,
                     atRisk, reloaded, crashes, Settled>>
      /\ accepted' = accepted \cup {t}
  BY DEF Crank, dbVars, networkVars, Settled
<1>4. \A p \in Queues : /\ worker'[p].queue = worker[p].queue
                        /\ worker'[p].dequeued = worker[p].dequeued
  BY <1>2
<1>5. \A p \in Queues, d \in Places, x \in Item :
         In(p, d, x)' <=> In(p, d, x) \/ (p = q /\ d = "checking" /\ x = f)
  BY <1>2 DEF Moves
<1>6. TypeInv'
  BY <1>2, <1>3 DEF Base, TypeInv
<1>7. \A p \in Queues, d \in Places, x \in Item :
          In(p, d, x) => /\ x.task \in accepted /\ x.id < nextId
                         /\ IF d = "running" THEN Runs(x) ELSE Idle(x)
                         /\ d = "queue" => x.id > 0
  BY DEF Base, EntryInv
<1>8. EntryInv'
  <2>1. \A p \in Queues, d \in Places, x \in Item :
           In(p, d, x)' =>
               /\ x.task \in accepted' /\ x.id < nextId'
               /\ IF d = "running" THEN Runs(x) ELSE Idle(x)
               /\ d = "queue" => x.id > 0
    BY <1>1, <1>2, <1>3, <1>5, <1>7
  <2>2. QED
    BY <1>3, <1>4, <2>1 DEF Base, EntryInv, Saved
<1>9. IdInv'
  BY <1>3, <1>4 DEF Base, IdInv
<1>10. OnceInv'
  <2> SUFFICES ASSUME crashes = 0
               PROVE  /\ \A p, r \in Queues, b, c \in Places, d, e \in Item :
                            In(p, b, d)' /\ In(r, c, e)' /\ d.task = e.task
                               => p = r /\ b = c /\ d = e
                      /\ \A p \in Queues, c \in Places, e \in Item :
                            In(p, c, e)' => e.task \notin Settled'
                      /\ \A u \in accepted' \ Roots : \E v \in finished' : u \in Outbox[v]
    BY <1>3 DEF OnceInv
  <2>1. t \notin Settled
    BY <1>1 DEF Base, TypeInv
  <2>2. \A p \in Queues, c \in Places, e \in Item : In(p, c, e)' => e.task \notin Settled'
    BY <1>2, <1>3, <1>5, <2>1 DEF Base, OnceInv
  <2>3. ASSUME NEW p \in Queues, NEW r \in Queues, NEW b \in Places, NEW c \in Places,
               NEW d \in Item, NEW e \in Item, In(p, b, d)', In(r, c, e)', d.task = e.task
        PROVE  p = r /\ b = c /\ d = e
    BY <1>1, <1>2, <1>5, <1>7, <2>3 DEF Base, OnceInv
  <2>4. QED
    BY <1>1, <1>3, <2>2, <2>3 DEF Base, OnceInv
<1>11. SentInv'
  <2> SUFFICES ASSUME crashes = 0
               PROVE  /\ \A p \in Queues, c \in Places, e \in Item :
                            In(p, c, e)' /\ e.type # "none" => SentFor(e)'
                      /\ \A u \in Tasks :
                            /\ SentOnce(u)'
                            /\ u \notin accepted' => sent'[u] = {} /\ spawned'[u] = 0
    BY <1>3 DEF SentInv
  <2>1. sent[t] = {} /\ spawned[t] = 0
    BY <1>1 DEF Base, SentInv
  <2>2. SentFor(f)'
    BY <1>2, <1>3, <2>1 DEF SentFor
  <2>3. QED
    BY <1>3, <1>5, <2>2 DEF Base, SentInv, SentFor, SentOnce
<1>12. \A u : InMemory(u) => InMemory(u)'
  BY <1>5 DEF InMemory
<1>13. InMemory(t)'
  BY <1>2, <1>5 DEF InMemory, Places
<1>14. ASSUME Table PROVE Table'
  <2>1. RowInv'
    BY <1>3, <1>4, <1>14 DEF Table, RowInv
  <2>2. KeptInv'
    BY <1>3, <1>4, <1>12, <1>13, <1>14 DEF Table, KeptInv
  <2>3. Dead \subseteq Dead'
    <3> SUFFICES ASSUME NEW r \in Dead PROVE r \in Dead'
      OBVIOUS
    <3>1. r \in rows /\ r.queue \in Queues /\ ~worker[r.queue].up /\ r.entry.type = "none"
      BY DEF Dead, Base, TypeInv
    <3>2. r.queue # q
      BY <1>1, <3>1 DEF RowsOf
    <3>3. QED
      BY <1>2, <1>3, <3>1, <3>2 DEF Dead
  <2>4. LivesInv'
    BY <1>3, <1>12, <1>13, <1>14, <2>3 DEF Table, LivesInv
  <2>5. QED
    BY <2>1, <2>2, <2>4 DEF Table
<1>15. QED
  BY <1>6, <1>8, <1>9, <1>10, <1>11, <1>14 DEF Base

\* Entries that go away, of no task that is settled or handed on, break nothing.
LEMMA FewerEntries ==
    ASSUME Base, UNCHANGED <<nextId, accepted, finished, Settled, sent, spawned, crashes>>,
           \A p \in Queues, d \in Places, x \in Item : In(p, d, x)' => In(p, d, x)
    PROVE  /\ OnceInv' /\ SentInv'
           /\ \A p \in Queues, d \in Places, x \in Item :
                 In(p, d, x)' =>
                     /\ x.task \in accepted' /\ x.id < nextId'
                     /\ IF d = "running" THEN Runs(x) ELSE Idle(x)
                     /\ d = "queue" => x.id > 0
<1>1. OnceInv'
  BY DEF Base, OnceInv
<1>2. SentInv'
  BY DEF Base, SentInv, SentFor, SentOnce
<1>3. QED
  BY <1>1, <1>2 DEF Base, EntryInv

\* A worker that dies loses its memory.
LEMMA DieMoves ==
    ASSUME TypeInv, NEW q \in Queues, Die(q)
    PROVE  /\ worker' \in [Queues -> Memory] /\ worker'[q] = Stopped
           /\ \A p \in Queues \ {q} : worker'[p] = worker[p]
           /\ \A p \in Queues, d \in Places, x \in Item : In(p, d, x)' <=> In(p, d, x) /\ p # q
<1>1. /\ Stopped \in Memory /\ Len(Stopped.queue) = 0 /\ Stopped.up = FALSE
      /\ Stopped.dequeued = {} /\ Stopped.checking = {} /\ Stopped.running = {}
      /\ Stopped.waiting = {}
  BY DEF Stopped, Memory
<1>2. /\ worker' \in [Queues -> Memory] /\ worker'[q] = Stopped
      /\ \A p \in Queues \ {q} : worker'[p] = worker[p]
  BY <1>1, WorkerSet DEF Die
<1>3. \A p \in Queues, d \in Places, x \in Item : In(p, d, x)' <=> In(p, d, x) /\ p # q
  <2> SUFFICES ASSUME NEW p \in Queues, NEW d \in Places, NEW x \in Item
               PROVE  In(p, d, x)' <=> In(p, d, x) /\ p # q
    OBVIOUS
  <2>1. CASE p # q
    BY <1>2, <2>1 DEF In
  <2>2. CASE p = q
    BY <1>1, <1>2, <2>2 DEF In
  <2>3. QED
    BY <2>1, <2>2
<1>4. QED
  BY <1>2, <1>3

\* A worker that dies leaves the rows of what it had queued.
LEMMA DieStep ==
    ASSUME Base, NEW q \in Queues, Die(q)
    PROVE  Base' /\ (Table => Table')
<1>1. worker[q] \in Memory /\ worker[q].queue # <<>>
  BY Held DEF Die, Base
<1>2. /\ Stopped \in Memory /\ Len(Stopped.queue) = 0 /\ Stopped.up = FALSE
      /\ Stopped.dequeued = {} /\ Stopped.checking = {} /\ Stopped.running = {}
      /\ Stopped.waiting = {}
  BY DEF Stopped, Memory
<1>3. /\ worker' \in [Queues -> Memory] /\ worker'[q] = Stopped
      /\ \A p \in Queues \ {q} : worker'[p] = worker[p]
      /\ \A p \in Queues, d \in Places, x \in Item : In(p, d, x)' <=> In(p, d, x) /\ p # q
  BY DieMoves DEF Base
<1>4. /\ UNCHANGED <<rows, nextId, built, sent, spawned, garbled, accepted, refused, finished,
                     gaveUp, reloaded, crashes, Settled>>
      /\ atRisk' = atRisk \cup InFlight(q)
  BY DEF Die, dbVars, networkVars, Settled
<1>5. InFlight(q) \subseteq accepted
  BY Held, HeldBase DEF InFlight, Base, Places
<1>6. TypeInv'
  BY <1>3, <1>4, <1>5 DEF Base, TypeInv
<1>7. OnceInv' /\ SentInv'
  BY <1>4, <1>3, FewerEntries
<1>8. EntryInv'
  <2>1. \A p \in Queues, d \in Places, x \in Item :
           In(p, d, x)' =>
               /\ x.task \in accepted' /\ x.id < nextId'
               /\ IF d = "running" THEN Runs(x) ELSE Idle(x)
               /\ d = "queue" => x.id > 0
    BY <1>4, <1>3, FewerEntries
  <2>2. QED
    BY <1>2, <1>3, <1>4, <2>1 DEF Base, EntryInv, Saved
<1>9. IdInv'
  BY <1>2, <1>3, <1>4 DEF Base, IdInv
<1>10. ASSUME Table PROVE Table'
  <2>1. RowInv'
    BY <1>2, <1>3, <1>4, <1>10 DEF Table, RowInv
  <2>2. KeptInv'
    <3> SUFFICES ASSUME NEW t \in accepted \ (Settled \cup atRisk'), ~InMemory(t)'
                 PROVE  \E y \in rows :
                           /\ y.entry.task = t
                           /\ \A p \in Queues : y.entry.id \notin worker'[p].dequeued
      BY <1>4 DEF KeptInv
    <3>1. \A p \in Queues : worker'[p].dequeued \subseteq worker[p].dequeued
      BY <1>2, <1>3
    <3>2. CASE InMemory(t)
      <4>1. PICK d \in Places, x \in Item : In(q, d, x) /\ x.task = t
        BY <1>3, <3>2 DEF InMemory
      <4>2. d = "queue"
        BY <1>4, <4>1 DEF In, InFlight
      <4>3. PICK i \in 1 .. Len(worker[q].queue) : x = worker[q].queue[i]
        BY <4>1, <4>2 DEF In
      <4>4. PICK y \in rows : y.queue = q /\ y.entry.id = x.id /\ y.entry.task = x.task
        BY <1>10, <4>3 DEF Table, RowInv
      <4>5. \A p \in Queues : y.entry.id \notin worker[p].dequeued
        BY <1>10, <4>3, <4>4 DEF Table, RowInv
      <4>6. QED
        BY <3>1, <4>1, <4>4, <4>5
    <3>3. CASE ~InMemory(t)
      <4>1. PICK y \in rows : /\ y.entry.task = t
                              /\ \A p \in Queues : y.entry.id \notin worker[p].dequeued
        BY <1>4, <1>10, <3>3 DEF Table, KeptInv
      <4>2. QED
        BY <3>1, <4>1
    <3>4. QED
      BY <3>2, <3>3
  <2>3. Dead' # {}
    <3>1. PICK s \in Seq(Item) : s = worker[q].queue
      BY <1>1 DEF Memory
    <3>2. 1 \in 1 .. Len(s) /\ Head(s) = s[1]
      BY <1>1, <3>1, EmptySeq
    <3>3. s[1].type = "none"
      <4>1. s[1] \in Item
        BY <3>2
      <4>2. s[1].type \notin Types
        BY <3>1, <3>2 DEF Die
      <4>3. QED
        BY <4>1, <4>2 DEF Item
    <3>4. PICK y \in rows : y.queue = q /\ y.entry.type = s[1].type
      BY <1>10, <3>1, <3>2 DEF Table, RowInv
    <3>5. y \in Dead'
      BY <1>2, <1>3, <1>4, <3>3, <3>4 DEF Dead
    <3>6. QED
      BY <3>5
  <2>4. QED
    BY <2>1, <2>2, <2>3 DEF Table, LivesInv
<1>11. QED
  BY <1>6, <1>7, <1>8, <1>9, <1>10 DEF Base

\* No row is an hour old if no hour passes.
LEMMA NoneOlder ==
    ASSUME Base, ~HourPasses, NEW last \in Hours
    PROVE  Older(last) = {}
BY DEF Hours, Older, Base, EntryInv, Saved

\* The removal of rows takes those of dequeued tasks only, within an hour.
LEMMA RemoveStep ==
    ASSUME Base, NEW q \in Queues, NEW last \in Hours, RemoveDequeued(q, last)
    PROVE  Base' /\ (~HourPasses /\ Table => Table')
<1>1. PICK m : m = [worker[q] EXCEPT !.dequeued = {}]
  OBVIOUS
<1>2. /\ m \in Memory /\ m.queue = worker[q].queue /\ m.dequeued = {}
      /\ m.up = worker[q].up /\ m.checking = worker[q].checking
      /\ m.running = worker[q].running /\ m.waiting = worker[q].waiting
  BY <1>1, Held DEF Memory, Base
<1>3. worker' = [worker EXCEPT ![q] = m]
  BY <1>1 DEF RemoveDequeued, Base, TypeInv
<1>4. /\ worker' \in [Queues -> Memory] /\ worker'[q] = m
      /\ \A p \in Queues \ {q} : worker'[p] = worker[p]
  BY <1>2, <1>3, WorkerSet DEF Base
<1>5. /\ UNCHANGED <<nextId, built, sent, spawned, garbled, accepted, refused, finished,
                     gaveUp, atRisk, reloaded, crashes, Settled>>
      /\ rows' = {r \in rows : r.entry.id \notin worker[q].dequeued} \ Older(last)
  BY DEF RemoveDequeued, networkVars, historyVars, Settled
<1>6. \A p \in Queues : /\ worker'[p].queue = worker[p].queue /\ worker'[p].up = worker[p].up
                        /\ worker'[p].dequeued \subseteq worker[p].dequeued
  BY <1>2, <1>4
<1>7. \A p \in Queues, d \in Places, x \in Item : In(p, d, x)' <=> In(p, d, x)
  <2> SUFFICES ASSUME NEW p \in Queues, NEW d \in Places, NEW x \in Item
               PROVE  In(p, d, x)' <=> In(p, d, x)
    OBVIOUS
  <2>1. CASE p # q
    BY <1>4, <2>1 DEF In
  <2>2. CASE p = q
    BY <1>2, <1>4, <2>2 DEF In
  <2>3. QED
    BY <2>1, <2>2
<1>8. TypeInv'
  <2>1. rows' \subseteq rows /\ IsFiniteSet(rows')
    BY <1>5, FS_Subset DEF Base, TypeInv
  <2>2. QED
    BY <1>4, <1>5, <2>1 DEF Base, TypeInv
<1>9. OnceInv' /\ SentInv'
  BY <1>5, <1>7, FewerEntries
<1>10. EntryInv'
  <2>1. \A p \in Queues, d \in Places, x \in Item :
           In(p, d, x)' =>
               /\ x.task \in accepted' /\ x.id < nextId'
               /\ IF d = "running" THEN Runs(x) ELSE Idle(x)
               /\ d = "queue" => x.id > 0
    BY <1>5, <1>7, FewerEntries
  <2>2. \A p \in Queues : worker'[p].dequeued \subseteq 1 .. nextId' - 1
    BY <1>5, <1>6 DEF Base, EntryInv
  <2>3. \A r \in rows' : Saved(r.entry)'
    BY <1>5 DEF Base, EntryInv, Saved
  <2>4. QED
    BY <2>1, <2>2, <2>3 DEF EntryInv
<1>11. IdInv'
  BY <1>5, <1>6 DEF Base, IdInv
<1>12. ASSUME ~HourPasses, Table PROVE Table'
  <2>1. rows' = {r \in rows : r.entry.id \notin worker[q].dequeued}
    BY <1>5, <1>12, NoneOlder
  <2>2. RowInv'
    <3>1. ASSUME NEW p \in Queues, NEW i \in 1 .. Len(worker[p].queue)
          PROVE  /\ worker[p].queue[i].id \notin worker'[p].dequeued
                 /\ \E y \in rows' : /\ y.queue = p
                                     /\ y.entry.id = worker[p].queue[i].id
                                     /\ y.entry.task = worker[p].queue[i].task
                                     /\ y.entry.type = worker[p].queue[i].type
      <4>1. /\ worker[p].queue[i].id \notin worker[p].dequeued
            /\ \E y \in rows : /\ y.queue = p
                               /\ y.entry.id = worker[p].queue[i].id
                               /\ y.entry.task = worker[p].queue[i].task
                               /\ y.entry.type = worker[p].queue[i].type
        BY <1>12 DEF Table, RowInv
      <4>2. PICK y \in rows : /\ y.queue = p
                              /\ y.entry.id = worker[p].queue[i].id
                              /\ y.entry.task = worker[p].queue[i].task
                              /\ y.entry.type = worker[p].queue[i].type
        BY <4>1
      <4>3. y.entry.id \notin worker[q].dequeued
        BY <1>12, <4>1, <4>2 DEF Table, RowInv
      <4>4. QED
        BY <1>6, <2>1, <4>1, <4>2, <4>3
    <3>2. QED
      BY <1>6, <1>12, <2>1, <3>1 DEF Table, RowInv
  <2>3. KeptInv'
    <3> SUFFICES ASSUME NEW t \in accepted \ (Settled \cup atRisk), ~InMemory(t)
                 PROVE  \E y \in rows' :
                           /\ y.entry.task = t
                           /\ \A p \in Queues : y.entry.id \notin worker'[p].dequeued
      BY <1>5, <1>7 DEF KeptInv, InMemory
    <3>1. PICK y \in rows : /\ y.entry.task = t
                            /\ \A p \in Queues : y.entry.id \notin worker[p].dequeued
      BY <1>12 DEF Table, KeptInv
    <3>2. QED
      BY <1>6, <2>1, <3>1
  <2>4. LivesInv'
    <3>1. Dead \subseteq Dead'
      <4> SUFFICES ASSUME NEW y \in Dead PROVE y \in Dead'
        OBVIOUS
      <4>1. y \in rows /\ y.queue \in Queues /\ ~worker[y.queue].up /\ y.entry.type = "none"
        BY DEF Dead, Base, TypeInv
      <4>2. y.entry.id \notin worker[q].dequeued
        BY <1>12, <4>1 DEF Table, RowInv
      <4>3. QED
        BY <1>6, <2>1, <4>1, <4>2 DEF Dead
    <3>2. QED
      BY <1>5, <1>7, <1>12, <3>1 DEF Table, LivesInv, InMemory
  <2>5. QED
    BY <2>2, <2>3, <2>4 DEF Table
<1>13. QED
  BY <1>8, <1>9, <1>10, <1>11, <1>12 DEF Base

-----------------------------------------------------------------------------
(* Restarts: the rows of a queue are read, with the latest first.          *)

LatestFirst(s) == \A i, j \in DOMAIN s : i < j => s[i].id > s[j].id

\* Finitely many entries are in the order of their ids in one way.
LEMMA Sorted ==
    ASSUME NEW S \in SUBSET Item, IsFiniteSet(S),
           \A d, e \in S : d.id = e.id => d = e
    PROVE  \E s \in [1 .. Cardinality(S) -> S] : LatestFirst(s)
<1> DEFINE Fits(T, n) == /\ IsFiniteSet(T) /\ Cardinality(T) = n
                         /\ \A d, e \in T : d.id = e.id => d = e
           Unsorted(T, n) == \A s \in [1 .. n -> T] : ~LatestFirst(s)
           bad == {n \in Nat : \E T \in SUBSET Item : Fits(T, n) /\ Unsorted(T, n)}
<1>1. Cardinality(S) \in Nat
  BY FS_CardinalityType
<1>2. SUFFICES ASSUME bad # {} PROVE FALSE
  BY <1>1
<1> HIDE DEF bad
<1>3. PICK n \in bad : \A m \in bad : n <= m
  <2>1. bad \in SUBSET Nat
    BY DEF bad
  <2>2. QED
    BY <1>2, <2>1, LeastNumber, Zenon
<1>4. PICK T \in SUBSET Item : n \in Nat /\ Fits(T, n) /\ Unsorted(T, n)
  BY <1>3 DEF bad
<1>5. n # 0
  <2> SUFFICES ASSUME n = 0 PROVE FALSE
    OBVIOUS
  <2>1. [i \in 1 .. 0 |-> i] \in [1 .. 0 -> T] /\ LatestFirst([i \in 1 .. 0 |-> i])
    BY DEF LatestFirst
  <2>2. QED
    BY <1>4, <2>1
<1>6. T # {}
  BY <1>4, <1>5, FS_EmptySet
<1>7. PICK e \in T : \A d \in T : e.id <= d.id
  <2> DEFINE ids == {d.id : d \in T}
  <2>1. ids \in SUBSET Nat /\ ids # {}
    BY <1>6 DEF Item
  <2> HIDE DEF ids
  <2>2. PICK k \in ids : \A l \in ids : k <= l
    BY <2>1, LeastNumber, Zenon
  <2>3. QED
    BY <2>2 DEF ids
<1>8. n - 1 \notin bad /\ n - 1 \in Nat
  BY <1>3, <1>4, <1>5
<1>9. Fits(T \ {e}, n - 1)
  BY <1>4, <1>7, FS_RemoveElement
<1>10. PICK t \in [1 .. n - 1 -> T \ {e}] : LatestFirst(t)
  <2>1. T \ {e} \in SUBSET Item
    BY <1>4
  <2>2. ~Unsorted(T \ {e}, n - 1)
    BY <1>8, <1>9, <2>1 DEF bad
  <2>3. QED
    BY <2>2
<1>11. PICK s : s = [i \in 1 .. n |-> IF i < n THEN t[i] ELSE e]
  OBVIOUS
<1>12. s \in [1 .. n -> T]
  <2>1. \A i \in 1 .. n : i < n => t[i] \in T
    BY <1>4, <1>10
  <2>2. QED
    BY <1>7, <1>11, <2>1
<1>13. LatestFirst(s)
  <2> SUFFICES ASSUME NEW i \in 1 .. n, NEW j \in 1 .. n, i < j PROVE s[i].id > s[j].id
    BY <1>12 DEF LatestFirst
  <2>1. i \in 1 .. n - 1 /\ s[i] = t[i] /\ t[i] \in T \ {e}
    BY <1>4, <1>10, <1>11
  <2>2. CASE j < n
    <3>1. j \in 1 .. n - 1 /\ s[j] = t[j]
      BY <1>4, <1>11, <2>2
    <3>2. QED
      BY <1>10, <2>1, <3>1 DEF LatestFirst
  <2>3. CASE j = n
    <3>1. s[j] = e
      BY <1>11, <2>3
    <3>2. t[i].id # e.id /\ e.id <= t[i].id /\ t[i] \in Item /\ e \in Item
      BY <1>4, <1>7, <2>1
    <3>3. t[i].id \in Nat /\ e.id \in Nat
      BY <3>2 DEF Item
    <3>4. QED
      BY <2>1, <3>1, <3>2, <3>3
  <2>4. QED
    BY <1>4, <2>2, <2>3
<1>14. QED
  BY <1>4, <1>12, <1>13

\* What a restart loads are the rows of the queue, all of them and each once.
LEMMA LoadedIs ==
    ASSUME Base, NEW q \in Queues, NEW last
    PROVE  /\ Loaded(q, last) \in Seq(Item)
           /\ \A i \in 1 .. Len(Loaded(q, last)) :
                 \E r \in rows \ Older(last) :
                    /\ r.queue = q
                    /\ Loaded(q, last)[i].id = r.entry.id
                    /\ Loaded(q, last)[i].task = r.entry.task
                    /\ Loaded(q, last)[i].type = r.entry.type
                    /\ Idle(Loaded(q, last)[i])
           /\ \A i, j \in 1 .. Len(Loaded(q, last)) :
                 Loaded(q, last)[i].id = Loaded(q, last)[j].id => i = j
           /\ \A r \in rows \ Older(last) : r.queue = q =>
                 \E i \in 1 .. Len(Loaded(q, last)) : Loaded(q, last)[i].id = r.entry.id
<1> DEFINE from == RowsOf(q) \ Older(last)
           saved == {Parsed(r.entry) : r \in from}
<1>1. \A r \in from : /\ r \in rows \ Older(last) /\ r.queue = q /\ r.entry \in Item /\ Idle(r.entry)
  BY DEF RowsOf, Base, TypeInv, EntryInv, Saved
<1>2. ASSUME NEW e \in Item, Idle(e)
      PROVE  /\ Parsed(e) \in Item /\ Parsed(e).id = e.id /\ Parsed(e).task = e.task
             /\ Parsed(e).type = e.type /\ Idle(Parsed(e))
  <2>1. PICK f : f = Parsed(e)
    OBVIOUS
  <2>2. /\ f \in Item /\ f.id = e.id /\ f.task = e.task /\ f.type = e.type
        /\ f.stage = e.stage /\ f.at = e.at
    BY <2>1 DEF Parsed, Item
  <2>3. Idle(f)
    BY <1>2, <2>2, RouteSame DEF Idle
  <2>4. QED
    BY <2>1, <2>2, <2>3
<1>3. saved \in SUBSET Item
  BY <1>1, <1>2
<1>4. IsFiniteSet(saved)
  <2>1. from \in SUBSET rows /\ IsFiniteSet(from)
    <3>1. from \in SUBSET rows
      BY <1>1
    <3>2. QED
      BY <3>1, FS_Subset DEF Base, TypeInv
  <2> DEFINE f == [r \in from |-> Parsed(r.entry)]
  <2>2. f \in Surjection(from, saved)
    BY DEF Surjection
  <2> HIDE DEF f, saved, from
  <2>3. QED
    BY <2>1, <2>2, FS_Surjection
<1>5. \A d, e \in saved : d.id = e.id => d = e
  BY <1>1, <1>2 DEF Base, IdInv
<1>6. Loaded(q, last) = CHOOSE s \in [1 .. Cardinality(saved) -> saved] : LatestFirst(s)
  BY DEF Loaded, LatestFirst
<1>7. Cardinality(saved) \in Nat
  BY <1>4, FS_CardinalityType
<1>8. \A e \in saved : \E r \in rows \ Older(last) :
         /\ r.queue = q /\ e.id = r.entry.id /\ e.task = r.entry.task
         /\ e.type = r.entry.type /\ Idle(e)
  BY <1>1, <1>2
<1>9. \A r \in rows \ Older(last) : r.queue = q => \E e \in saved : e.id = r.entry.id
  BY <1>1, <1>2 DEF RowsOf
<1> HIDE DEF saved
<1>10. Loaded(q, last) \in [1 .. Cardinality(saved) -> saved] /\ LatestFirst(Loaded(q, last))
  BY <1>3, <1>4, <1>5, <1>6, Sorted
<1>11. PICK s : s = Loaded(q, last)
  OBVIOUS
<1>12. s \in Seq(Item) /\ Len(s) = Cardinality(saved) /\ \A i \in 1 .. Len(s) : s[i] \in saved
  BY <1>3, <1>7, <1>10, <1>11
<1>13. \A i, j \in 1 .. Len(s) : s[i].id = s[j].id => i = j
  <2> SUFFICES ASSUME NEW i \in 1 .. Len(s), NEW j \in 1 .. Len(s), i < j, s[i].id = s[j].id
               PROVE  FALSE
    BY <1>7, <1>12
  <2>1. s[i].id > s[j].id
    BY <1>10, <1>11, <1>12 DEF LatestFirst
  <2>2. s[i].id \in Nat /\ s[j].id \in Nat
    <3>1. s[i] \in Item /\ s[j] \in Item
      BY <1>12
    <3>2. QED
      BY <3>1 DEF Item
  <2>3. QED
    BY <2>1, <2>2
<1>14. \A e \in saved : \E i \in 1 .. Len(s) : s[i] = e
  <2> DEFINE n == Cardinality(saved)
  <2>1. Cardinality(1 .. n) = n
    BY <1>7, FS_Interval
  <2> HIDE DEF n
  <2>2. s \in [1 .. n -> saved]
    BY <1>10, <1>11 DEF n
  <2>3. \A i, j \in 1 .. n : s[i] = s[j] => i = j
    BY <1>12, <1>13 DEF n
  <2>4. s \in Injection(1 .. n, saved)
    BY <2>2, <2>3 DEF Injection, IsInjective
  <2>5. s \in Surjection(1 .. n, saved)
    BY <1>4, <2>1, <2>4, FS_Injection DEF n
  <2>6. QED
    BY <1>12, <2>5 DEF Surjection, n
<1>15. \A i \in 1 .. Len(s) :
          \E r \in rows \ Older(last) :
             /\ r.queue = q /\ s[i].id = r.entry.id /\ s[i].task = r.entry.task
             /\ s[i].type = r.entry.type /\ Idle(s[i])
  BY <1>8, <1>12
<1>16. \A r \in rows \ Older(last) : r.queue = q =>
          \E i \in 1 .. Len(s) : s[i].id = r.entry.id
  BY <1>9, <1>14
<1>17. QED
  BY <1>11, <1>12, <1>13, <1>15, <1>16

\* After a restart the workers hold the rows that are not too old, each once, in
\* the queue that it belongs to.
LEMMA CrashLoads ==
    ASSUME Base, NEW last \in Hours, Crash(last)
    PROVE  /\ worker' \in [Queues -> Memory]
           /\ \A q \in Queues :
                 /\ worker'[q].dequeued = {} /\ worker'[q].checking = {}
                 /\ worker'[q].running = {} /\ worker'[q].waiting = {}
           /\ \A q \in Queues : \A i \in 1 .. Len(worker'[q].queue) :
                 \E r \in rows \ Older(last) :
                    /\ r.queue = q
                    /\ worker'[q].queue[i].id = r.entry.id
                    /\ worker'[q].queue[i].task = r.entry.task
                    /\ worker'[q].queue[i].type = r.entry.type
                    /\ Idle(worker'[q].queue[i])
           /\ \A q \in Queues : \A i, j \in 1 .. Len(worker'[q].queue) :
                 worker'[q].queue[i].id = worker'[q].queue[j].id => i = j
<1>1. \A q \in Queues :
         /\ worker'[q] \in Memory
         /\ worker'[q].dequeued = {} /\ worker'[q].checking = {} /\ worker'[q].running = {}
         /\ worker'[q].waiting = {}
         /\ worker'[q].queue = <<>> \/ worker'[q].queue = Loaded(q, last)
  <2> SUFFICES ASSUME NEW q \in Queues
               PROVE  /\ worker'[q] \in Memory
                      /\ worker'[q].dequeued = {} /\ worker'[q].checking = {}
                      /\ worker'[q].running = {} /\ worker'[q].waiting = {}
                      /\ worker'[q].queue = <<>> \/ worker'[q].queue = Loaded(q, last)
    OBVIOUS
  <2>1. PICK s \in Seq(Item) : s = Loaded(q, last)
    BY LoadedIs
  <2>2. \/ worker'[q] = Stopped
        \/ worker'[q] = [Stopped EXCEPT !.up = TRUE, !.queue = s]
    BY <2>1 DEF Crash, Restarted
  <2>3. CASE worker'[q] = Stopped
    BY <2>3 DEF Stopped, Memory
  <2>4. CASE worker'[q] = [Stopped EXCEPT !.up = TRUE, !.queue = s]
    <3>1. worker'[q] = [up |-> TRUE, queue |-> s, dequeued |-> {}, checking |-> {},
                        running |-> {}, waiting |-> {}]
      BY <2>4 DEF Stopped
    <3>2. QED
      BY <2>1, <3>1 DEF Memory
  <2>5. QED
    BY <2>2, <2>3, <2>4
<1>2. DOMAIN worker' = Queues /\ worker' = [q \in Queues |-> worker'[q]]
  BY DEF Crash, Restarted
<1>3. worker' \in [Queues -> Memory]
  BY <1>1, <1>2
<1>4. ASSUME NEW q \in Queues, NEW i \in 1 .. Len(worker'[q].queue)
      PROVE  \E r \in rows \ Older(last) :
                /\ r.queue = q
                /\ worker'[q].queue[i].id = r.entry.id
                /\ worker'[q].queue[i].task = r.entry.task
                /\ worker'[q].queue[i].type = r.entry.type
                /\ Idle(worker'[q].queue[i])
  <2>1. worker'[q].queue = Loaded(q, last)
    BY <1>1, <1>4
  <2>2. QED
    BY <1>4, <2>1, LoadedIs
<1>5. ASSUME NEW q \in Queues, NEW i \in 1 .. Len(worker'[q].queue),
             NEW j \in 1 .. Len(worker'[q].queue),
             worker'[q].queue[i].id = worker'[q].queue[j].id
      PROVE  i = j
  <2>1. worker'[q].queue = Loaded(q, last)
    BY <1>1, <1>5
  <2>2. QED
    BY <1>5, <2>1, LoadedIs
<1>6. QED
  BY <1>1, <1>3, <1>4, <1>5

\* A restart loads every queue from its rows.
LEMMA CrashStep ==
    ASSUME Base, NEW last \in Hours, Crash(last)
    PROVE  Base' /\ (~HourPasses /\ Table => Table')
<1>1. /\ UNCHANGED <<nextId, built, sent, spawned, garbled, accepted, refused, finished,
                     gaveUp, Settled>>
      /\ rows' = rows \ Older(last)
      /\ atRisk' = atRisk \cup UNION {InFlight(q) : q \in Queues}
      /\ crashes < MaxCrashes /\ crashes' = crashes + 1
  BY DEF Crash, networkVars, Settled
<1>2. /\ worker' \in [Queues -> Memory]
      /\ \A q \in Queues :
            /\ worker'[q].dequeued = {} /\ worker'[q].checking = {}
            /\ worker'[q].running = {} /\ worker'[q].waiting = {}
      /\ \A q \in Queues : \A i \in 1 .. Len(worker'[q].queue) :
            \E r \in rows \ Older(last) :
               /\ r.queue = q
               /\ worker'[q].queue[i].id = r.entry.id
               /\ worker'[q].queue[i].task = r.entry.task
               /\ worker'[q].queue[i].type = r.entry.type
               /\ Idle(worker'[q].queue[i])
      /\ \A q \in Queues : \A i, j \in 1 .. Len(worker'[q].queue) :
            worker'[q].queue[i].id = worker'[q].queue[j].id => i = j
  BY CrashLoads
<1>3. \A r \in rows : Saved(r.entry)
  BY DEF Base, EntryInv
<1>4. UNION {InFlight(q) : q \in Queues} \subseteq accepted
  <2>1. \A q \in Queues : InFlight(q) \subseteq accepted
    BY Held, HeldBase DEF InFlight, Base, Places
  <2>2. QED
    BY <2>1
<1>5. TypeInv'
  <2>1. rows' \subseteq rows /\ IsFiniteSet(rows')
    BY <1>1, FS_Subset DEF Base, TypeInv
  <2>2. crashes' \in 0 .. MaxCrashes
    BY <1>1, QueueAssumption DEF Base, TypeInv
  <2>3. atRisk' \subseteq accepted'
    BY <1>1, <1>4 DEF Base, TypeInv
  <2>4. reloaded' \in [Tasks -> Nat]
    <3> SUFFICES ASSUME NEW t \in Tasks
                 PROVE  Cardinality(Lively(t) \ Older(last)) \in Nat
      BY DEF Crash, Base, TypeInv
    <3>1. Lively(t) \ Older(last) \in SUBSET rows
      BY DEF Lively
    <3>2. QED
      BY <3>1, FS_Subset, FS_CardinalityType DEF Base, TypeInv
  <2>5. QED
    BY <1>1, <1>2, <2>1, <2>2, <2>3, <2>4 DEF Base, TypeInv
<1>6. EntryInv'
  <2>1. ASSUME NEW p \in Queues, NEW d \in Places, NEW x \in Item, In(p, d, x)'
        PROVE  /\ x.task \in accepted' /\ x.id < nextId'
               /\ IF d = "running" THEN Runs(x) ELSE Idle(x)
               /\ d = "queue" => x.id > 0
    <3>1. d = "queue" /\ \E i \in 1 .. Len(worker'[p].queue) : x = worker'[p].queue[i]
      BY <1>2, <2>1 DEF In
    <3>2. PICK r \in rows : x.id = r.entry.id /\ x.task = r.entry.task /\ Idle(x)
      BY <1>2, <3>1
    <3>3. nextId \in Nat /\ x.id \in 1 .. nextId - 1 /\ x.task \in accepted
      BY <1>3, <3>2 DEF Saved, Base, TypeInv
    <3>4. QED
      BY <1>1, <3>1, <3>2, <3>3
  <2>2. \A r \in rows' : Saved(r.entry)'
    BY <1>1, <1>3 DEF Saved
  <2>3. QED
    BY <1>2, <2>1, <2>2 DEF EntryInv
<1>7. IdInv'
  BY <1>1, <1>2 DEF Base, IdInv
<1>8. crashes' # 0
  BY <1>1 DEF Base, TypeInv
<1>9. OnceInv' /\ SentInv'
  BY <1>8 DEF OnceInv, SentInv
<1>10. ASSUME ~HourPasses, Table PROVE Table'
  <2>1. rows' = rows
    BY <1>1, <1>10, NoneOlder
  <2>2. RowInv'
    <3>1. ASSUME NEW q \in Queues, NEW i \in 1 .. Len(worker'[q].queue)
          PROVE  /\ worker'[q].queue[i].id \notin worker'[q].dequeued
                 /\ \E r \in rows' : /\ r.queue = q
                                     /\ r.entry.id = worker'[q].queue[i].id
                                     /\ r.entry.task = worker'[q].queue[i].task
                                     /\ r.entry.type = worker'[q].queue[i].type
      BY <1>2, <2>1
    <3>2. QED
      BY <1>2, <3>1 DEF RowInv
  <2>3. KeptInv'
    <3> SUFFICES ASSUME NEW t \in accepted \ (Settled \cup atRisk')
                 PROVE  \E y \in rows : y.entry.task = t
      BY <1>1, <1>2, <2>1 DEF KeptInv
    <3>1. CASE InMemory(t)
      <4>1. PICK p \in Queues, d \in Places, x \in Item : In(p, d, x) /\ x.task = t
        BY <3>1 DEF InMemory
      <4>2. d = "queue"
        BY <1>1, <4>1 DEF In, InFlight
      <4>3. PICK i \in 1 .. Len(worker[p].queue) : x = worker[p].queue[i]
        BY <4>1, <4>2 DEF In
      <4>4. QED
        BY <1>10, <4>1, <4>3 DEF Table, RowInv
    <3>2. CASE ~InMemory(t)
      BY <1>1, <1>10, <3>2 DEF Table, KeptInv
    <3>3. QED
      BY <3>1, <3>2
  <2>4. LivesInv'
    BY <1>8 DEF LivesInv
  <2>5. QED
    BY <2>2, <2>3, <2>4 DEF Table
<1>11. QED
  BY <1>5, <1>6, <1>7, <1>9, <1>10 DEF Base

-----------------------------------------------------------------------------
(* The invariants of the specification.                                    *)

\* A Messenger Unit without tasks.
LEMMA BaseInit == Init => Base /\ Table
<1> SUFFICES ASSUME Init PROVE Base /\ Table
  OBVIOUS
<1>1. /\ Stopped \in Memory /\ Len(Stopped.queue) = 0 /\ Stopped.dequeued = {}
      /\ Stopped.checking = {} /\ Stopped.running = {} /\ Stopped.waiting = {}
  BY DEF Stopped, Memory
<1>2. /\ worker \in [Queues -> Memory] /\ \A q \in Queues : worker[q] = Stopped
  BY <1>1 DEF Init
<1>3. \A q \in Queues, c \in Places, e \in Item : ~In(q, c, e)
  BY <1>1, <1>2 DEF In
<1>4. TypeInv
  <2>1. IsFiniteSet({})
    BY FS_EmptySet
  <2>2. built \in [Tasks -> Nat] /\ sent \in [Tasks -> SUBSET Nat] /\ spawned \in [Tasks -> Nat]
    BY DEF Init
  <2>3. QED
    BY <1>2, <2>1, <2>2, QueueAssumption DEF Init, TypeInv, Settled
<1>5. EntryInv /\ IdInv /\ OnceInv
  BY <1>1, <1>2, <1>3 DEF Init, EntryInv, IdInv, OnceInv
<1>6. SentInv
  <2>1. \A t \in Tasks : sent[t] = {} /\ spawned[t] = 0
    BY DEF Init
  <2>2. \A t \in Tasks : SentOnce(t)
    BY <2>1 DEF SentOnce
  <2>3. QED
    BY <1>3, <2>1, <2>2 DEF SentInv
<1>7. Table
  BY <1>1, <1>2 DEF Init, Table, RowInv, KeptInv, LivesInv
<1>8. QED
  BY <1>4, <1>5, <1>6, <1>7 DEF Base

\* Every step keeps the invariants.
LEMMA BaseNext == Base /\ [Next]_vars => Base' /\ (~HourPasses /\ Table => Table')
<1> SUFFICES ASSUME Base, [Next]_vars PROVE Base' /\ (~HourPasses /\ Table => Table')
  OBVIOUS
<1>1. ASSUME NEW t \in Tasks, NEW q \in Queues, Crank(t, q)
      PROVE  Base' /\ (Table => Table')
  BY <1>1, CrankStep
<1>2. ASSUME NEW q \in Queues, Work(q) PROVE Base' /\ (Table => Table')
  <2>1. ASSUME NEW e, Enqueue(q, e) PROVE Base' /\ (Table => Table')
    BY <2>1, EnqueueStep
  <2>2. ASSUME NEW e, ExceedRateLimit(q, e) \/ GiveUp(q, e) PROVE Base' /\ (Table => Table')
    BY <2>2, LimitStep
  <2>3. CASE Dequeue(q)
    BY <2>3, DequeueStep
  <2>4. CASE Die(q)
    BY <2>4, DieStep
  <2>5. ASSUME NEW e, Retry(q, e) PROVE Base' /\ (Table => Table')
    BY <2>5, RetryStep
  <2>6. CASE Process(q)
    BY <2>6, BuildStep, ReadStep, WriteStep, LoseAckStep, FailStep DEF Process
  <2>7. QED
    BY <1>2, <2>1, <2>2, <2>3, <2>4, <2>5, <2>6 DEF Work
<1>3. ASSUME NEW q \in Queues, NEW last \in Hours, RemoveDequeued(q, last)
      PROVE  Base' /\ (~HourPasses /\ Table => Table')
  BY <1>3, RemoveStep
<1>4. ASSUME NEW last \in Hours, Crash(last)
      PROVE  Base' /\ (~HourPasses /\ Table => Table')
  BY <1>4, CrashStep
<1>5. CASE UNCHANGED vars
  <2>1. UNCHANGED <<worker, rows, nextId, built, sent, spawned, garbled, accepted, refused,
                    finished, gaveUp, atRisk, reloaded, crashes>>
    BY <1>5 DEF vars, dbVars, networkVars, historyVars
  <2>2. \A q \in Queues, c \in Places, e \in Item : In(q, c, e)' <=> In(q, c, e)
    BY <2>1 DEF In
  <2>3. Settled' = Settled
    BY <2>1 DEF Settled
  <2>4. TypeInv' /\ IdInv'
    BY <2>1, <2>3 DEF Base, TypeInv, IdInv
  <2>5. EntryInv'
    BY <2>1, <2>2 DEF Base, EntryInv, Saved
  <2>6. OnceInv' /\ SentInv'
    BY <2>1, <2>2, <2>3, FewerEntries
  <2>7. Table => Table'
    BY <2>1, <2>2, <2>3 DEF Table, RowInv, KeptInv, LivesInv, Dead, InMemory
  <2>8. QED
    BY <2>4, <2>5, <2>6, <2>7 DEF Base
<1>6. QED
  BY <1>1, <1>2, <1>3, <1>4, <1>5 DEF Next

\* The invariants that hold however long the rows wait.
LEMMA BaseHolds == Spec => []Base
BY BaseInit, BaseNext, PTL DEF Spec

\* Within an hour the table covers the queues as well.
LEMMA TableHolds == ASSUME ~HourPasses PROVE Spec => [](Base /\ Table)
<1>1. Base /\ Table /\ [Next]_vars => (Base /\ Table)'
  BY BaseNext
<1>2. QED
  BY <1>1, BaseInit, PTL DEF Spec

-----------------------------------------------------------------------------
(* The theorems.                                                           *)

\* The copies of a task are its entries with a type.
LEMMA CopiesAre ==
    ASSUME TypeInv, NEW t
    PROVE  \A x : x \in Copies(t) <=>
              \E q \in Queues, c \in Places, e \in Item :
                 In(q, c, e) /\ e.task = t /\ e.type # "none" /\ x = <<q, e>>
<1>1. ASSUME NEW q \in Queues, NEW e
      PROVE  e \in worker[q].checking \cup worker[q].running \cup worker[q].waiting
                      \cup Range(worker[q].queue)
                <=> e \in Item /\ \E c \in Places : In(q, c, e)
  <2>1. PICK s \in Seq(Item) : s = worker[q].queue
    BY Held DEF Memory
  <2>2. e \in Range(s) <=> \E i \in 1 .. Len(s) : e = s[i]
    BY DEF Range
  <2>3. \A i \in 1 .. Len(s) : s[i] \in Item
    OBVIOUS
  <2>4. worker[q] \in Memory
    BY Held
  <2>5. QED
    BY <2>1, <2>2, <2>3, <2>4 DEF In, Places, Memory
<1>2. QED
  BY <1>1 DEF Copies

\* Whatever the tasks, the queues and the limits, every variable holds values
\* of its kind: ids are below the next one, retries within their limit, and only
\* tasks that were accepted are settled.
THEOREM TypeCorrect == Spec => []TypeOK
<1>1. Base => TypeOK
  <2> SUFFICES ASSUME Base PROVE TypeOK
    OBVIOUS
  <2>1. nextId \in Nat \ {0} /\ \A e \in Item : e.id < nextId => e \in Entry
    BY DEF Base, TypeInv, Item, Entry
  <2>2. ASSUME NEW q \in Queues
        PROVE  /\ worker[q].up \in BOOLEAN
               /\ worker[q].queue \in Seq(Entry)
               /\ worker[q].dequeued \subseteq 1 .. nextId - 1
               /\ worker[q].checking \cup worker[q].running \cup worker[q].waiting
                     \subseteq Entry
    <3>1. worker[q] \in Memory
      BY Held DEF Base
    <3>2. \A c \in Places, e \in Item : In(q, c, e) => e \in Entry
      BY <2>1 DEF Base, EntryInv
    <3>3. worker[q].queue \in Seq(Entry)
      <4>1. PICK s \in Seq(Item) : s = worker[q].queue
        BY <3>1 DEF Memory
      <4>2. \A i \in 1 .. Len(s) : s[i] \in Entry
        BY <3>2, <4>1, Held DEF Places, Base
      <4>3. s \in Seq(Entry)
        BY <4>2
      <4>4. QED
        BY <4>1, <4>3
    <3>4. worker[q].checking \cup worker[q].running \cup worker[q].waiting \subseteq Entry
      BY <3>2, Held DEF Places, Base
    <3>5. QED
      BY <3>1, <3>3, <3>4 DEF Memory, Base, EntryInv
  <2>3. rows \subseteq [queue : Queues, entry : Entry]
    <3> SUFFICES ASSUME NEW r \in rows PROVE r \in [queue : Queues, entry : Entry]
      OBVIOUS
    <3>1. r \in [queue : Queues, entry : Item] /\ r.entry.id \in 1 .. nextId - 1
      BY DEF Base, TypeInv, EntryInv, Saved
    <3>2. r.entry \in Entry
      BY <2>1, <3>1
    <3>3. QED
      BY <3>1, <3>2
  <2>4. QED
    BY <2>2, <2>3 DEF Base, TypeInv, TypeOK, Memory
<1>2. QED
  BY <1>1, BaseHolds, PTL

\* However often a task fails and is retried, one message is sent for it and one
\* process is spawned for it, until the MU stops.
THEOREM AlwaysWrittenOnce == Spec => []WrittenOnce
<1>1. Base => WrittenOnce
  <2> SUFFICES ASSUME Base, crashes = 0, NEW t \in Tasks
               PROVE  /\ Cardinality(sent[t]) <= 1
                      /\ "SPAWN" \notin LostAcks => spawned[t] <= 1
    BY DEF WrittenOnce
  <2>1. SentOnce(t)
    BY DEF Base, SentInv
  <2>2. PICK x \in Nat : sent[t] \subseteq {x}
    BY <2>1 DEF SentOnce
  <2>3. IsFiniteSet({x}) /\ Cardinality({x}) = 1
    BY FS_Singleton
  <2>4. Cardinality(sent[t]) <= 1
    BY <2>2, <2>3, FS_Subset
  <2>5. QED
    BY <2>1, <2>4 DEF SentOnce
<1>2. QED
  BY <1>1, BaseHolds, PTL

\* What waited in a queue when a worker or the MU stopped is in memory or in
\* the table, until it is settled, if nothing waits for longer than an hour.
THEOREM QueuedNotLost ==
    ASSUME ~HourPasses
    PROVE  Spec => []NothingQueuedLost
<1>1. Base /\ Table => NothingQueuedLost
  <2> SUFFICES ASSUME Base, Table, NEW t \in accepted \ (Settled \cup atRisk),
                      t \notin {r.entry.task : r \in rows}, ~(SpawnPush /\ Kind[t] = "SPAWN")
               PROVE  Copies(t) # {}
    BY DEF NothingQueuedLost
  <2>1. PICK q \in Queues, c \in Places, e \in Item : In(q, c, e) /\ e.task = t
    BY DEF Table, KeptInv, InMemory
  <2>2. e.type = Kind[e.task] \/ (SpawnPush /\ Kind[e.task] = "SPAWN")
    BY <2>1, HeldBase DEF Runs, Idle
  <2>3. Kind[t] \in {"MESSAGE", "SPAWN", "ASSIGN"} /\ e.task = t
    BY <2>1, TaskAssumption DEF Base, TypeInv, Types
  <2>4. e.type # "none"
    BY <2>2, <2>3
  <2>5. <<q, e>> \in Copies(t)
    BY <2>1, <2>4, CopiesAre DEF Base
  <2>6. QED
    BY <2>5
<1>2. QED
  BY <1>1, TableHolds, PTL

\* While the MU and its workers run, an accepted task is in exactly one place
\* until it is settled, if nothing waits for longer than an hour.
THEOREM AlwaysOnePlace ==
    ASSUME ~HourPasses
    PROVE  Spec => []ExactlyOnePlace
<1>1. Base /\ Table => ExactlyOnePlace
  <2> SUFFICES ASSUME Base, Table, AllUp, NEW t \in accepted,
                      ~(SpawnPush /\ Kind[t] = "SPAWN" /\ Copies(t) = {})
               PROVE  Cardinality(Copies(t)) = IF t \in Settled THEN 0 ELSE 1
    BY DEF ExactlyOnePlace
  <2>1. crashes = 0 /\ \A q \in Queues : worker[q].up
    BY DEF AllUp
  <2>2. CASE t \in Settled
    <3>1. Copies(t) = {}
      BY <2>1, <2>2, CopiesAre DEF Base, OnceInv
    <3>2. QED
      BY <2>2, <3>1, FS_EmptySet
  <2>3. CASE t \notin Settled
    <3>1. Dead = {}
      BY <2>1 DEF Dead, Base, TypeInv
    <3>2. PICK q \in Queues, c \in Places, e \in Item : In(q, c, e) /\ e.task = t
      BY <2>1, <2>3, <3>1 DEF Table, LivesInv, InMemory
    <3>3. \A p \in Queues, d \in Places, x \in Item : In(p, d, x) /\ x.task = t => p = q /\ x = e
      BY <2>1, <3>2 DEF Base, OnceInv
    <3>4. e.type # "none"
      <4> SUFFICES ASSUME e.type = "none" PROVE FALSE
        OBVIOUS
      <4>1. Copies(t) = {}
        BY <3>3, CopiesAre DEF Base
      <4>2. SpawnPush /\ Kind[t] = "SPAWN"
        BY <3>2, HeldBase, TaskAssumption DEF Runs, Idle, Types
      <4>3. QED
        BY <4>1, <4>2
    <3>5. Copies(t) = {<<q, e>>}
      BY <3>2, <3>3, <3>4, CopiesAre DEF Base
    <3>6. QED
      BY <2>3, <3>5, FS_Singleton
  <2>4. QED
    BY <2>2, <2>3
<1>2. QED
  BY <1>1, TableHolds, PTL

-----------------------------------------------------------------------------
(* The order of the queues.                                                *)

\* How a step may change a queue, but for a restart.
NextQueue(s, u) ==
    \/ u = s
    \/ s # <<>> /\ u = Tail(s)
    \/ u = <<>>
    \/ \E x \in Item : x.id = nextId /\ u = Append(s, x)

\* Between restarts a queue only grows at its end and shrinks at its head.
LEMMA QueueStep ==
    ASSUME Base, [Next]_vars, NEW p \in Queues,
           ~\E last \in Hours : Crash(last)
    PROVE  NextQueue(worker[p].queue, worker'[p].queue)
<1> USE DEF NextQueue
<1>1. /\ worker \in [Queues -> Memory]
      /\ \A q \in Queues : /\ \A e \in worker[q].checking : e \in Item
                           /\ \A e \in worker[q].running : e \in Item
  BY Held DEF Base, TypeInv
<1>2. ASSUME NEW t \in Tasks, NEW q \in Queues, Crank(t, q)
      PROVE  NextQueue(worker[p].queue, worker'[p].queue)
  BY <1>1, <1>2 DEF Crank, Memory
<1>3. ASSUME NEW q \in Queues, NEW last \in Hours, RemoveDequeued(q, last)
      PROVE  NextQueue(worker[p].queue, worker'[p].queue)
  BY <1>1, <1>3 DEF RemoveDequeued, Memory
<1>4. ASSUME NEW q \in Queues, NEW e \in worker[q].checking, Enqueue(q, e)
      PROVE  NextQueue(worker[p].queue, worker'[p].queue)
  <2>1. PICK f : f = [e EXCEPT !.id = nextId]
    OBVIOUS
  <2>2. f \in Item /\ f.id = nextId
    BY <1>1, <2>1 DEF Item, Base, TypeInv
  <2>3. worker'[p].queue = IF p = q THEN Append(worker[p].queue, f) ELSE worker[p].queue
    BY <1>1, <1>4, <2>1 DEF Enqueue, Memory
  <2>4. QED
    BY <2>2, <2>3
<1>5. ASSUME NEW q \in Queues, NEW e, ExceedRateLimit(q, e) \/ Retry(q, e) \/ GiveUp(q, e)
      PROVE  worker'[p].queue = worker[p].queue
  <2>1. CASE ExceedRateLimit(q, e)
    BY <2>1, RateLimitShift DEF Base, Shift
  <2>2. CASE GiveUp(q, e)
    BY <2>2, GiveUpShift DEF Base, Shift
  <2>3. CASE Retry(q, e)
    <3>1. e \in Item /\ In(q, "waiting", e)
      BY <2>3, Held DEF Retry, Base
    <3>2. Idle(e)
      BY <3>1, HeldBase DEF Places
    <3>3. PICK f \in Item : Shift(q, "waiting", e, "checking", {f})
      BY <2>3, <3>2, RetryShift DEF Base
    <3>4. QED
      BY <3>3 DEF Shift
  <2>4. QED
    BY <1>5, <2>1, <2>2, <2>3
<1>6. ASSUME NEW q \in Queues, Dequeue(q)
      PROVE  NextQueue(worker[p].queue, worker'[p].queue)
  BY <1>1, <1>6 DEF Dequeue, Memory
<1>7. ASSUME NEW q \in Queues, Die(q)
      PROVE  NextQueue(worker[p].queue, worker'[p].queue)
  BY <1>1, <1>7 DEF Die, Stopped, Memory
<1>8. ASSUME NEW q \in Queues, NEW e, Failed(q, e) \/ \E next : Answered(q, e, next)
      PROVE  worker'[p].queue = worker[p].queue
  <2>1. worker[p] \in Memory
    BY <1>1
  <2>2. CASE Failed(q, e)
    <3>1. PICK A, B : worker' = [worker EXCEPT ![q].running = A, ![q].waiting = B]
      BY <2>2 DEF Failed
    <3>2. worker'[p] = IF p = q THEN [worker[p] EXCEPT !.running = A, !.waiting = B]
                                ELSE worker[p]
      BY <1>1, <3>1
    <3>3. QED
      BY <2>1, <3>2 DEF Memory
  <2>3. ASSUME NEW next, Answered(q, e, next) PROVE worker'[p].queue = worker[p].queue
    <3>1. PICK A, B : worker' = [worker EXCEPT ![q].running = A, ![q].checking = B]
      BY <2>3 DEF Answered
    <3>2. worker'[p] = IF p = q THEN [worker[p] EXCEPT !.running = A, !.checking = B]
                                ELSE worker[p]
      BY <1>1, <3>1
    <3>3. QED
      BY <2>1, <3>2 DEF Memory
  <2>4. QED
    BY <1>8, <2>2, <2>3
<1>9. ASSUME NEW q \in Queues, Process(q)
      PROVE  NextQueue(worker[p].queue, worker'[p].queue)
  <2>1. PICK e \in worker[q].running : Failed(q, e) \/ \E next : Answered(q, e, next)
    BY <1>9, Zenon DEF Process, Build, Read, Write, LoseAck, PostGarbled, Fail
  <2>2. QED
    BY <1>8, <2>1
<1>10. CASE UNCHANGED vars
  BY <1>10 DEF vars
<1>11. ASSUME NEW q \in Queues, Work(q)
       PROVE  NextQueue(worker[p].queue, worker'[p].queue)
  BY <1>4, <1>5, <1>6, <1>7, <1>9, <1>11 DEF Work
<1>12. QED
  BY <1>2, <1>3, <1>10, <1>11 DEF Next

OrderInv == crashes = 0 => QueuedInOrder

\* Every step keeps the queues in the order of their ids.
LEMMA OrderNext == Base /\ OrderInv /\ [Next]_vars => OrderInv'
<1> SUFFICES ASSUME Base, OrderInv, [Next]_vars, crashes' = 0, NEW q \in Queues
             PROVE  \A i, j \in 1 .. Len(worker'[q].queue) :
                       i < j => worker'[q].queue[i].id < worker'[q].queue[j].id
  BY DEF OrderInv, QueuedInOrder
<1>1. crashes \in Nat /\ ~\E last \in Hours : Crash(last)
  BY DEF Crash, Base, TypeInv
<1>2. crashes = 0
  <2>1. ASSUME NEW p \in Queues, Work(p) PROVE crashes' = crashes
    <3>1. ASSUME NEW e, Enqueue(p, e) \/ ExceedRateLimit(p, e) \/ Retry(p, e) \/ GiveUp(p, e)
          PROVE  crashes' = crashes
      BY <3>1 DEF Enqueue, ExceedRateLimit, Retry, GiveUp, historyVars
    <3>2. CASE Dequeue(p) \/ Die(p)
      BY <3>2 DEF Dequeue, Die, historyVars
    <3>3. ASSUME NEW e, \/ Build(p, e) \/ Read(p, e) \/ Write(p, e)
                        \/ LoseAck(p, e) \/ PostGarbled(p, e) \/ Fail(p, e)
          PROVE  crashes' = crashes
      BY <3>3 DEF Build, Read, Write, LoseAck, PostGarbled, Fail, Done, historyVars
    <3>4. QED
      BY <2>1, <3>1, <3>2, <3>3 DEF Work, Process
  <2>2. QED
    BY <1>1, <2>1 DEF Next, Crank, RemoveDequeued, vars, historyVars
<1>3. PICK s \in Seq(Item) : s = worker[q].queue
  BY Held DEF Memory, Base
<1>4. PICK u : u = worker'[q].queue
  OBVIOUS
<1>5. \A i, j \in 1 .. Len(s) : i < j => s[i].id < s[j].id
  BY <1>2, <1>3 DEF OrderInv, QueuedInOrder
<1>6. nextId \in Nat /\ \A i \in 1 .. Len(s) : s[i].id \in Nat /\ s[i].id < nextId
  BY <1>3, Held, HeldBase DEF Base, TypeInv, Places
<1>7. NextQueue(s, u)
  BY <1>1, <1>3, <1>4, QueueStep
<1>8. CASE s # <<>> /\ u = Tail(s)
  <2>1. Len(u) = Len(s) - 1 /\ \A i \in 1 .. Len(u) : u[i] = s[i + 1] /\ i + 1 \in 1 .. Len(s)
    <3>1. Len(s) \in Nat \ {0} /\ Len(u) = Len(s) - 1
      BY <1>3, <1>8
    <3>2. \A i \in 1 .. Len(u) : i + 1 \in 1 .. Len(s)
      BY <3>1
    <3>3. \A i \in 1 .. Len(u) : u[i] = s[i + 1]
      BY <1>3, <1>8, <3>1
    <3>4. QED
      BY <3>1, <3>2, <3>3
  <2>2. ASSUME NEW i \in 1 .. Len(u), NEW j \in 1 .. Len(u), i < j PROVE u[i].id < u[j].id
    <3>1. i + 1 \in 1 .. Len(s) /\ j + 1 \in 1 .. Len(s) /\ i + 1 < j + 1
      BY <2>1, <2>2
    <3>2. u[i] = s[i + 1] /\ u[j] = s[j + 1]
      BY <2>1
    <3>3. QED
      BY <1>5, <3>1, <3>2
  <2>3. QED
    BY <1>4, <2>2
<1>9. ASSUME NEW x \in Item, x.id = nextId, u = Append(s, x)
      PROVE  \A i, j \in 1 .. Len(u) : i < j => u[i].id < u[j].id
  <2>1. /\ Len(u) = Len(s) + 1 /\ Len(s) \in Nat /\ u[Len(s) + 1] = x
        /\ \A i \in 1 .. Len(s) : u[i] = s[i]
    BY <1>9, AppendProperties
  <2>2. \A i \in 1 .. Len(u) : i \in 1 .. Len(s) \/ i = Len(s) + 1
    BY <2>1
  <2>3. ASSUME NEW i \in 1 .. Len(u), NEW j \in 1 .. Len(u), i < j
        PROVE  u[i].id < u[j].id
    <3>1. i \in 1 .. Len(s)
      BY <2>1, <2>2, <2>3
    <3>2. CASE j \in 1 .. Len(s)
      BY <1>5, <2>1, <2>3, <3>1, <3>2
    <3>3. CASE j = Len(s) + 1
      BY <1>6, <1>9, <2>1, <3>1, <3>3
    <3>4. QED
      BY <2>2, <3>2, <3>3
  <2>4. QED
    BY <2>3
<1>10. CASE \E x \in Item : x.id = nextId /\ u = Append(s, x)
  BY <1>4, <1>9, <1>10
<1>11. CASE u = s \/ u = <<>>
  BY <1>4, <1>5, <1>11
<1>12. QED
  BY <1>7, <1>8, <1>10, <1>11 DEF NextQueue

\* Until the MU stops, tasks are dequeued in the order in which they were queued.
THEOREM AlwaysQueuedInOrder == Spec => [](crashes = 0 => QueuedInOrder)
<1>1. Init => OrderInv
  BY DEF Init, OrderInv, QueuedInOrder, Stopped
<1>2. QED
  BY <1>1, BaseHolds, OrderNext, PTL DEF Spec, OrderInv

-----------------------------------------------------------------------------
(* What the table holds.                                                   *)

\* A worker that is not running holds nothing; the rows of one that is are those
\* it has queued and those it has dequeued, and it has dequeued no others.
OwnInv ==
    /\ \A q \in Queues : ~worker[q].up =>
          /\ worker[q].queue = <<>> /\ worker[q].dequeued = {}
          /\ worker[q].checking = {} /\ worker[q].running = {} /\ worker[q].waiting = {}
    /\ \A r \in rows : worker[r.queue].up =>
          \/ r.entry.id \in worker[r.queue].dequeued
          \/ \E i \in 1 .. Len(worker[r.queue].queue) :
                worker[r.queue].queue[i].id = r.entry.id
    /\ \A q \in Queues : \A k \in worker[q].dequeued :
          \E r \in rows : r.queue = q /\ r.entry.id = k

\* The calls and timers of a worker leave its queue and what it dequeued alone.
LEMMA QueuesApart ==
    ASSUME Base, NEW q \in Queues, NEW e,
           \/ ExceedRateLimit(q, e) \/ Retry(q, e) \/ GiveUp(q, e)
           \/ e \in worker[q].running /\ (Failed(q, e) \/ \E next : Answered(q, e, next))
    PROVE  /\ SameQueues
           /\ \A p \in Queues \ {q} : worker'[p] = worker[p]
           /\ e \in worker[q].checking \cup worker[q].running \cup worker[q].waiting
<1>1. worker \in [Queues -> Memory]
  BY DEF Base, TypeInv
<1>2. \A p \in Queues : worker[p] \in Memory
  BY <1>1
<1>3. ASSUME NEW A, \/ worker' = [worker EXCEPT ![q].checking = A]
                    \/ worker' = [worker EXCEPT ![q].waiting = A]
      PROVE  SameQueues /\ \A p \in Queues \ {q} : worker'[p] = worker[p]
  BY <1>1, <1>2, <1>3 DEF SameQueues, Memory
<1>4. ASSUME NEW A, NEW B, \/ worker' = [worker EXCEPT ![q].waiting = A, ![q].checking = B]
                           \/ worker' = [worker EXCEPT ![q].running = A, ![q].checking = B]
                           \/ worker' = [worker EXCEPT ![q].running = A, ![q].waiting = B]
      PROVE  SameQueues /\ \A p \in Queues \ {q} : worker'[p] = worker[p]
  <2>1. ASSUME worker' = [worker EXCEPT ![q].waiting = A, ![q].checking = B]
        PROVE  SameQueues /\ \A p \in Queues \ {q} : worker'[p] = worker[p]
    <3>1. \A p \in Queues : worker'[p] = IF p = q
             THEN [worker[p] EXCEPT !.waiting = A, !.checking = B] ELSE worker[p]
      BY <1>1, <2>1
    <3>2. QED
      BY <1>2, <3>1 DEF SameQueues, Memory
  <2>2. ASSUME worker' = [worker EXCEPT ![q].running = A, ![q].checking = B]
        PROVE  SameQueues /\ \A p \in Queues \ {q} : worker'[p] = worker[p]
    <3>1. \A p \in Queues : worker'[p] = IF p = q
             THEN [worker[p] EXCEPT !.running = A, !.checking = B] ELSE worker[p]
      BY <1>1, <2>2
    <3>2. QED
      BY <1>2, <3>1 DEF SameQueues, Memory
  <2>3. ASSUME worker' = [worker EXCEPT ![q].running = A, ![q].waiting = B]
        PROVE  SameQueues /\ \A p \in Queues \ {q} : worker'[p] = worker[p]
    <3>1. \A p \in Queues : worker'[p] = IF p = q
             THEN [worker[p] EXCEPT !.running = A, !.waiting = B] ELSE worker[p]
      BY <1>1, <2>3
    <3>2. QED
      BY <1>2, <3>1 DEF SameQueues, Memory
  <2>4. QED
    BY <1>4, <2>1, <2>2, <2>3
<1>5. CASE ExceedRateLimit(q, e)
  <2>1. \E A : worker' = [worker EXCEPT ![q].checking = A]
    BY <1>5 DEF ExceedRateLimit
  <2>2. QED
    BY <1>3, <1>5, <2>1 DEF ExceedRateLimit
<1>6. CASE GiveUp(q, e)
  <2>1. \E A : worker' = [worker EXCEPT ![q].waiting = A]
    BY <1>6 DEF GiveUp
  <2>2. QED
    BY <1>3, <1>6, <2>1 DEF GiveUp
<1>7. CASE Retry(q, e)
  <2>1. \E A, B : worker' = [worker EXCEPT ![q].waiting = A, ![q].checking = B]
    BY <1>7 DEF Retry
  <2>2. QED
    BY <1>4, <1>7, <2>1 DEF Retry
<1>8. CASE e \in worker[q].running /\ Failed(q, e)
  <2>1. \E A, B : worker' = [worker EXCEPT ![q].running = A, ![q].waiting = B]
    BY <1>8 DEF Failed
  <2>2. QED
    BY <1>4, <1>8, <2>1
<1>9. CASE e \in worker[q].running /\ \E next : Answered(q, e, next)
  <2>1. \E A, B : worker' = [worker EXCEPT ![q].running = A, ![q].checking = B]
    BY <1>9 DEF Answered
  <2>2. QED
    BY <1>4, <1>9, <2>1
<1>10. QED
  BY <1>5, <1>6, <1>7, <1>8, <1>9

\* Every step keeps the table and the queues together.
LEMMA OwnNext ==
    ASSUME ~HourPasses, Base, Table, OwnInv, [Next]_vars
    PROVE  OwnInv'
<1>1. /\ worker \in [Queues -> Memory] /\ \A q \in Queues : worker[q] \in Memory
      /\ rows \subseteq [queue : Queues, entry : Item]
  BY DEF Base, TypeInv
<1>2. ASSUME NEW t \in Tasks, NEW q \in Queues, Crank(t, q) PROVE OwnInv'
  <2>1. /\ \A p \in Queues \ {q} : worker'[p] = worker[p]
        /\ worker'[q].up /\ worker'[q].queue = worker[q].queue
        /\ worker'[q].dequeued = worker[q].dequeued
        /\ rows' = rows
    BY <1>1, <1>2 DEF Crank, Memory, dbVars
  <2>2. worker[q].up \/ \A r \in rows : r.queue # q
    BY <1>2 DEF Crank, RowsOf
  <2>3. QED
    BY <1>1, <2>1, <2>2 DEF OwnInv
<1>3. ASSUME NEW q \in Queues, NEW e, Enqueue(q, e) PROVE OwnInv'
  <2>1. PICK f : f = [e EXCEPT !.id = nextId]
    OBVIOUS
  <2>2. e \in worker[q].checking /\ e \in Item /\ f.id = nextId /\ f \in Item
    <3>1. e \in worker[q].checking /\ e \in Item
      BY <1>3, Held DEF Enqueue, Base
    <3>2. nextId \in Nat
      BY DEF Base, TypeInv
    <3>3. QED
      BY <2>1, <3>1, <3>2 DEF Item
  <2>3. PICK s \in Seq(Item) : s = worker[q].queue
    BY <1>1 DEF Memory
  <2>4. /\ \A p \in Queues \ {q} : worker'[p] = worker[p]
        /\ worker'[q].up = worker[q].up /\ worker'[q].queue = Append(s, f)
        /\ worker'[q].dequeued = worker[q].dequeued
        /\ rows' = rows \cup {[queue |-> q, entry |-> f]}
    BY <1>1, <1>3, <2>1, <2>3 DEF Enqueue, Memory
  <2>5. /\ Len(s) \in Nat /\ Len(Append(s, f)) = Len(s) + 1
        /\ Append(s, f)[Len(s) + 1] = f
        /\ \A i \in 1 .. Len(s) : Append(s, f)[i] = s[i]
    BY <2>2, <2>3
  <2>6. worker[q].up
    BY <2>2 DEF OwnInv
  <2>7. ASSUME NEW r \in rows', worker'[r.queue].up
        PROVE  \/ r.entry.id \in worker'[r.queue].dequeued
               \/ \E i \in 1 .. Len(worker'[r.queue].queue) :
                     worker'[r.queue].queue[i].id = r.entry.id
    <3>1. CASE r \in rows /\ r.queue # q
      <4>1. worker'[r.queue] = worker[r.queue]
        BY <1>1, <2>4, <3>1
      <4>2. QED
        BY <2>7, <3>1, <4>1 DEF OwnInv
    <3>2. CASE r \in rows /\ r.queue = q
      <4>1. r.entry.id \in worker[q].dequeued \/ \E i \in 1 .. Len(s) : s[i].id = r.entry.id
        BY <2>3, <2>6, <3>2 DEF OwnInv
      <4>2. \A i \in 1 .. Len(s) : i \in 1 .. Len(Append(s, f))
        BY <2>5
      <4>3. QED
        BY <2>4, <2>5, <3>2, <4>1, <4>2
    <3>3. CASE r = [queue |-> q, entry |-> f]
      <4>1. Len(s) + 1 \in 1 .. Len(Append(s, f))
        BY <2>5
      <4>2. QED
        BY <2>4, <2>5, <3>3, <4>1
    <3>4. QED
      BY <2>4, <3>1, <3>2, <3>3
  <2>8. ASSUME NEW p \in Queues, NEW k \in worker'[p].dequeued
        PROVE  \E r \in rows' : r.queue = p /\ r.entry.id = k
    <3>1. k \in worker[p].dequeued /\ rows \subseteq rows'
      BY <2>4, <2>8
    <3>2. QED
      BY <3>1 DEF OwnInv
  <2>9. \A p \in Queues : ~worker'[p].up => p # q
    BY <2>4, <2>6
  <2>10. \A p \in Queues : ~worker'[p].up =>
           /\ worker'[p].queue = <<>> /\ worker'[p].dequeued = {}
           /\ worker'[p].checking = {} /\ worker'[p].running = {} /\ worker'[p].waiting = {}
    BY <2>4, <2>9 DEF OwnInv
  <2>11. QED
    BY <2>7, <2>8, <2>10 DEF OwnInv
<1>4. ASSUME NEW q \in Queues, Dequeue(q) PROVE OwnInv'
  <2>1. PICK s \in Seq(Item) : s = worker[q].queue /\ s # <<>>
    BY <1>1, <1>4 DEF Memory, Dequeue
  <2>2. /\ \A p \in Queues \ {q} : worker'[p] = worker[p]
        /\ worker'[q].up = worker[q].up /\ worker'[q].queue = Tail(s)
        /\ worker'[q].dequeued = worker[q].dequeued \cup {s[1].id}
        /\ rows' = rows
    BY <1>1, <1>4, <2>1 DEF Dequeue, Memory, dbVars
  <2>3. /\ Len(s) \in Nat \ {0} /\ Len(Tail(s)) = Len(s) - 1
        /\ \A i \in 2 .. Len(s) : i - 1 \in 1 .. Len(Tail(s)) /\ Tail(s)[i - 1] = s[i]
    BY <2>1
  <2>4. worker[q].up
    BY <2>1 DEF OwnInv
  <2>5. \E r \in rows : r.queue = q /\ r.entry.id = s[1].id
    BY <2>1, <2>3 DEF Table, RowInv
  <2>6. ASSUME NEW r \in rows, r.queue = q
        PROVE  \/ r.entry.id \in worker'[q].dequeued
               \/ \E i \in 1 .. Len(Tail(s)) : Tail(s)[i].id = r.entry.id
    <3>1. r.entry.id \in worker[q].dequeued \/ \E i \in 1 .. Len(s) : s[i].id = r.entry.id
      BY <2>1, <2>4, <2>6 DEF OwnInv
    <3>2. ASSUME NEW i \in 1 .. Len(s), i # 1
          PROVE  \E j \in 1 .. Len(Tail(s)) : Tail(s)[j] = s[i]
      BY <2>3, <3>2
    <3>3. CASE r.entry.id \in worker[q].dequeued
      BY <2>2, <3>3
    <3>4. ASSUME NEW i \in 1 .. Len(s), s[i].id = r.entry.id
          PROVE  \/ r.entry.id \in worker'[q].dequeued
                 \/ \E j \in 1 .. Len(Tail(s)) : Tail(s)[j].id = r.entry.id
      <4>1. CASE i = 1
        <5>1. s[1].id \in worker'[q].dequeued
          BY <2>2
        <5>2. QED
          BY <3>4, <4>1, <5>1
      <4>2. CASE i # 1
        <5>1. PICK j \in 1 .. Len(Tail(s)) : Tail(s)[j] = s[i]
          BY <3>2, <4>2
        <5>2. QED
          BY <3>4, <5>1
      <4>3. QED
        BY <4>1, <4>2
    <3>5. QED
      BY <3>1, <3>3, <3>4
  <2>7. \A r \in rows' : worker'[r.queue].up =>
           \/ r.entry.id \in worker'[r.queue].dequeued
           \/ \E i \in 1 .. Len(worker'[r.queue].queue) :
                 worker'[r.queue].queue[i].id = r.entry.id
    <3> SUFFICES ASSUME NEW r \in rows, worker'[r.queue].up
                 PROVE  \/ r.entry.id \in worker'[r.queue].dequeued
                        \/ \E i \in 1 .. Len(worker'[r.queue].queue) :
                              worker'[r.queue].queue[i].id = r.entry.id
      BY <2>2
    <3>1. CASE r.queue = q
      BY <2>2, <2>6, <3>1
    <3>2. CASE r.queue # q
      <4>1. worker'[r.queue] = worker[r.queue]
        BY <1>1, <2>2, <3>2
      <4>2. QED
        BY <4>1 DEF OwnInv
    <3>3. QED
      BY <3>1, <3>2
  <2>8. \A p \in Queues : \A k \in worker'[p].dequeued :
           \E r \in rows' : r.queue = p /\ r.entry.id = k
    BY <2>2, <2>5 DEF OwnInv
  <2>9. \A p \in Queues : ~worker'[p].up => p # q
    BY <2>2, <2>4
  <2>10. \A p \in Queues : ~worker'[p].up =>
           /\ worker'[p].queue = <<>> /\ worker'[p].dequeued = {}
           /\ worker'[p].checking = {} /\ worker'[p].running = {} /\ worker'[p].waiting = {}
    BY <2>2, <2>9 DEF OwnInv
  <2>11. QED
    BY <2>7, <2>8, <2>10 DEF OwnInv
<1>5. ASSUME NEW q \in Queues, Die(q) PROVE OwnInv'
  <2>1. /\ \A p \in Queues \ {q} : worker'[p] = worker[p]
        /\ worker'[q] = Stopped /\ rows' = rows
    BY <1>1, <1>5 DEF Die, dbVars
  <2>2. QED
    BY <1>1, <2>1 DEF OwnInv, Stopped
<1>6. ASSUME NEW q \in Queues, NEW last \in Hours, RemoveDequeued(q, last) PROVE OwnInv'
  <2>1. /\ \A p \in Queues \ {q} : worker'[p] = worker[p]
        /\ worker'[q].up = worker[q].up /\ worker'[q].queue = worker[q].queue
        /\ worker'[q].dequeued = {} /\ worker'[q].checking = worker[q].checking
        /\ worker'[q].running = worker[q].running /\ worker'[q].waiting = worker[q].waiting
    BY <1>1, <1>6 DEF RemoveDequeued, Memory
  <2>2. rows' = {r \in rows : r.entry.id \notin worker[q].dequeued}
    BY <1>6, NoneOlder DEF RemoveDequeued
  <2>3. \A r \in rows : r.entry.id \in worker[q].dequeued => r.queue = q
    BY DEF Table, RowInv
  <2>4. QED
    BY <1>1, <2>1, <2>2, <2>3 DEF OwnInv
<1>7. ASSUME NEW last \in Hours, Crash(last) PROVE OwnInv'
  <2>1. rows' = rows /\ Older(last) = {}
    BY <1>7, NoneOlder DEF Crash
  <2>2. \A q \in Queues :
           worker'[q] = IF RowsOf(q) = {} THEN Stopped
                        ELSE [Stopped EXCEPT !.up = TRUE, !.queue = Loaded(q, last)]
    BY <1>7 DEF Crash, Restarted
  <2>3. \A q \in Queues :
           /\ worker'[q].dequeued = {} /\ worker'[q].checking = {}
           /\ worker'[q].running = {} /\ worker'[q].waiting = {}
           /\ worker'[q].up \/ worker'[q].queue = <<>>
           /\ worker'[q].up => worker'[q].queue = Loaded(q, last)
    <3> SUFFICES ASSUME NEW q \in Queues
                 PROVE  /\ worker'[q].dequeued = {} /\ worker'[q].checking = {}
                        /\ worker'[q].running = {} /\ worker'[q].waiting = {}
                        /\ worker'[q].up \/ worker'[q].queue = <<>>
                        /\ worker'[q].up => worker'[q].queue = Loaded(q, last)
      OBVIOUS
    <3>1. CASE worker'[q] = Stopped
      BY <3>1 DEF Stopped
    <3>2. CASE worker'[q] = [Stopped EXCEPT !.up = TRUE, !.queue = Loaded(q, last)]
      <4>1. worker'[q] = [up |-> TRUE, queue |-> Loaded(q, last), dequeued |-> {},
                          checking |-> {}, running |-> {}, waiting |-> {}]
        BY <3>2 DEF Stopped
      <4>2. QED
        BY <4>1
    <3>3. QED
      BY <2>2, <3>1, <3>2
  <2>4. \A q \in Queues, r \in rows : r.queue = q =>
           \E i \in 1 .. Len(Loaded(q, last)) : Loaded(q, last)[i].id = r.entry.id
    BY <2>1, LoadedIs
  <2>5. QED
    BY <1>1, <2>1, <2>3, <2>4 DEF OwnInv
<1>8. ASSUME NEW q \in Queues, NEW e, SameQueues, rows' = rows,
             \A p \in Queues \ {q} : worker'[p] = worker[p],
             e \in worker[q].checking \cup worker[q].running \cup worker[q].waiting
      PROVE  OwnInv'
  <2>1. worker[q].up
    BY <1>8 DEF OwnInv
  <2>2. QED
    BY <1>1, <1>8, <2>1 DEF OwnInv, SameQueues
<1>9. ASSUME NEW q \in Queues, NEW e, ExceedRateLimit(q, e) \/ Retry(q, e) \/ GiveUp(q, e)
      PROVE  OwnInv'
  <2>1. rows' = rows
    BY <1>9 DEF ExceedRateLimit, Retry, GiveUp, dbVars
  <2>2. QED
    BY <1>8, <1>9, <2>1, QueuesApart
<1>10. ASSUME NEW q \in Queues, Process(q) PROVE OwnInv'
  <2>1. PICK e \in worker[q].running : Failed(q, e) \/ \E next : Answered(q, e, next)
    BY <1>10, Zenon DEF Process, Build, Read, Write, LoseAck, PostGarbled, Fail
  <2>2. rows' = rows
    BY <1>10 DEF Process, Build, Read, Write, Taken, LoseAck, PostGarbled, Fail, dbVars
  <2>3. QED
    BY <1>8, <2>1, <2>2, QueuesApart
<1>11. CASE UNCHANGED vars
  BY <1>11 DEF vars, dbVars, OwnInv
<1>12. ASSUME NEW q \in Queues, Work(q) PROVE OwnInv'
  BY <1>3, <1>4, <1>5, <1>9, <1>10, <1>12 DEF Work
<1>13. QED
  BY <1>2, <1>6, <1>7, <1>11, <1>12 DEF Next

\* Whatever workers stop, restart and delete from the table they share, the rows
\* of one that runs are the tasks it has queued, and those it dequeued since its
\* last removal, if nothing waits for longer than an hour.
THEOREM AlwaysTableMatches ==
    ASSUME ~HourPasses
    PROVE  Spec => []TableMatches
<1>1. Init => OwnInv
  BY DEF Init, OwnInv, Stopped
<1>2. Base /\ Table /\ OwnInv /\ [Next]_vars => OwnInv'
  BY OwnNext
<1>3. Base /\ Table /\ OwnInv => TableMatches
  <2> SUFFICES ASSUME Base, Table, OwnInv, NEW q \in Queues, worker[q].up, NEW k
               PROVE  (\E r \in RowsOf(q) : k = r.entry.id) <=>
                         \/ \E e \in Range(worker[q].queue) : k = e.id
                         \/ k \in worker[q].dequeued
    BY DEF TableMatches
  <2>1. PICK s \in Seq(Item) : s = worker[q].queue
    BY Held DEF Base, Memory
  <2>2. \A e : e \in Range(s) <=> \E i \in 1 .. Len(s) : e = s[i]
    BY DEF Range
  <2>3. ASSUME NEW r \in RowsOf(q)
        PROVE  \/ \E i \in 1 .. Len(s) : s[i].id = r.entry.id
               \/ r.entry.id \in worker[q].dequeued
    BY <2>1, <2>3 DEF RowsOf, OwnInv
  <2>4. ASSUME NEW i \in 1 .. Len(s) PROVE \E r \in RowsOf(q) : r.entry.id = s[i].id
    BY <2>1, <2>4 DEF Table, RowInv, RowsOf
  <2>5. ASSUME k \in worker[q].dequeued PROVE \E r \in RowsOf(q) : r.entry.id = k
    BY <2>5 DEF OwnInv, RowsOf
  <2>6. QED
    BY <2>1, <2>2, <2>3, <2>4, <2>5
<1>4. QED
  BY <1>1, <1>2, <1>3, TableHolds, PTL DEF Spec

-----------------------------------------------------------------------------
(* How often a restart repeats a message.                                  *)

\* An entry may be sent as another message than those that were.
Open(e) == e.type # "none" /\ (e.stage \in Unbuilt \/ e.tx \notin sent[e.task])

\* What goes on from an entry has its retries, or one more where it is checked
\* again, and is not to be sent if the entry was not, or just was.
Follows(f, e, b) ==
    /\ f.task = e.task
    /\ f.type # "none" => /\ e.type # "none"
                          /\ f.retries = e.retries + IF b = "checking" THEN 1 ELSE 0
    /\ Open(f)' => Open(e) /\ sent'[e.task] = sent[e.task]

Pays(e) ==
    /\ \A t \in Tasks \ {e.task} : sent'[t] = sent[t]
    /\ \/ sent'[e.task] = sent[e.task]
       \/ Open(e) /\ \E k : sent'[e.task] = sent[e.task] \cup {k}

\* What the steps of a worker have in common: one entry is replaced, and a row
\* is written of what is queued.
Replaces(q, c, e, b, F) ==
    /\ In(q, c, e) /\ Moves(q, c, e, b, F)
    /\ \/ F = {}
       \/ \E f \in Item : F = {f} /\ Follows(f, e, b)
       \/ b = "checking" /\ F = Children(e)
    /\ b = "queue" => c = "checking"
    /\ rows' = rows \cup (IF b = "queue" THEN {[queue |-> q, entry |-> f] : f \in F} ELSE {})
    /\ Pays(e)

Replacement(q) == \E c, b \in Places, e \in Item, F \in SUBSET Item : Replaces(q, c, e, b, F)

\* An entry on the same side of its signature is as open as it was before.
LEMMA SameSide ==
    ASSUME NEW e, e.type # "none",
           \A t \in Tasks \ {e.task} : sent'[t] = sent[t],
           \/ sent'[e.task] = sent[e.task]
           \/ e.stage \notin Unbuilt /\ sent'[e.task] = sent[e.task] \cup {e.tx}
    PROVE  /\ Pays(e)
           /\ \A f : /\ f.task = e.task /\ f.tx = e.tx
                     /\ f.stage \in Unbuilt => e.stage \in Unbuilt
                     /\ Open(f)'
                     => Open(e) /\ sent'[e.task] = sent[e.task]
<1>1. CASE sent'[e.task] = sent[e.task]
  BY <1>1 DEF Pays, Open
<1>2. CASE e.stage \notin Unbuilt /\ sent'[e.task] = sent[e.task] \cup {e.tx}
  <2>1. CASE e.tx \in sent[e.task]
    <3>1. sent'[e.task] = sent[e.task]
      BY <1>2, <2>1
    <3>2. QED
      BY <1>1, <3>1
  <2>2. CASE e.tx \notin sent[e.task]
    BY <1>2, <2>2 DEF Pays, Open
  <2>3. QED
    BY <2>1, <2>2
<1>3. QED
  BY <1>1, <1>2

\* A failure replaces an entry by its cause.
LEMMA FailedReplaces ==
    ASSUME Base, NEW q \in Queues, NEW e \in worker[q].running, Failed(q, e), rows' = rows,
           \A t \in Tasks \ {e.task} : sent'[t] = sent[t],
           \/ sent'[e.task] = sent[e.task]
           \/ e.stage \notin Unbuilt /\ sent'[e.task] = sent[e.task] \cup {e.tx}
    PROVE  Replacement(q)
<1>1. e \in Item /\ In(q, "running", e)
  BY Held DEF Base
<1>2. Runs(e)
  BY <1>1, HeldBase DEF Places
<1>3. e.type # "none" /\ e.retries \in Nat
  BY <1>1, <1>2, TypeOfKind DEF Types, Item
<1>4. PICK f \in Item : /\ Shift(q, "running", e, "waiting", {f}) /\ Idle(f)
                        /\ f.task = e.task /\ f.id = e.id
                        /\ f.type # "none" =>
                              f.stage = e.stage /\ f.tx = e.tx /\ f.retries = e.retries
  BY <1>2, FailedShift DEF Base
<1>5. Moves(q, "running", e, "waiting", {f})
  BY <1>4, ShiftMoves DEF Baskets
<1>6. Pays(e)
  BY <1>3, SameSide
<1>7. Follows(f, e, "waiting")
  <2>1. Open(f)' => f.type # "none"
    BY DEF Open
  <2>2. Open(f)' => Open(e) /\ sent'[e.task] = sent[e.task]
    BY <1>3, <1>4, <2>1, SameSide
  <2>3. QED
    BY <1>3, <1>4, <2>2 DEF Follows
<1>8. Replaces(q, "running", e, "waiting", {f})
  BY <1>1, <1>5, <1>6, <1>7 DEF Replaces
<1>9. QED
  BY <1>1, <1>8 DEF Replacement, Places

\* An answer replaces an entry by itself, further on, or by its children.
LEMMA AnsweredReplaces ==
    ASSUME Base, NEW q \in Queues, NEW e \in worker[q].running, NEW next \in Item,
           Answered(q, e, next), rows' = rows,
           next.task = e.task, next.type = e.type, next.stage = e.stage, next.id = e.id,
           next.at = e.at, next.retries = e.retries,
           Pays(e),
           ~IsLast(e) => \A f \in Item :
              /\ f.task = e.task /\ f.tx = next.tx
              /\ f.stage = IF Step(e) = e.stage THEN Route(e)[e.at + 1] ELSE e.stage
              /\ Open(f)'
              => Open(e) /\ sent'[e.task] = sent[e.task]
    PROVE  Replacement(q)
<1>1. e \in Item /\ In(q, "running", e)
  BY Held DEF Base
<1>2. Runs(e)
  BY <1>1, HeldBase DEF Places
<1>3. e.type # "none" /\ e.retries \in Nat
  BY <1>1, <1>2, TypeOfKind DEF Types, Item
<1>4. CASE IsLast(e)
  <2>1. Shift(q, "running", e, "checking", Children(e)) /\ Children(e) \in SUBSET Item
    BY <1>4, AnsweredLastShift DEF Base
  <2>2. Moves(q, "running", e, "checking", Children(e))
    BY <2>1, ShiftMoves DEF Baskets
  <2>3. Replaces(q, "running", e, "checking", Children(e))
    BY <1>1, <2>2 DEF Replaces
  <2>4. QED
    BY <1>1, <2>1, <2>3 DEF Replacement, Places
<1>5. CASE ~IsLast(e)
  <2>1. PICK f \in Item :
          /\ Shift(q, "running", e, "running", {f}) /\ Runs(f)
          /\ f.task = e.task /\ f.id = e.id /\ f.type = e.type /\ f.tx = next.tx
          /\ f.retries = next.retries
          /\ f.stage = IF Step(e) = e.stage THEN Route(e)[e.at + 1] ELSE e.stage
    BY <1>2, <1>5, AnsweredShift DEF Base
  <2>2. Moves(q, "running", e, "running", {f})
    BY <2>1, ShiftMoves DEF Baskets
  <2>3. Follows(f, e, "running")
    BY <1>3, <1>5, <2>1 DEF Follows
  <2>4. Replaces(q, "running", e, "running", {f})
    BY <1>1, <2>2, <2>3 DEF Replaces
  <2>5. QED
    BY <1>1, <2>4 DEF Replacement, Places
<1>6. QED
  BY <1>4, <1>5

\* A call replaces the entry that runs.
LEMMA ProcessReplaces ==
    ASSUME Base, NEW q \in Queues, Process(q)
    PROVE  Replacement(q)
<1>1. PICK e \in worker[q].running :
         \/ Build(q, e) \/ Read(q, e) \/ Write(q, e)
         \/ LoseAck(q, e) \/ PostGarbled(q, e) \/ Fail(q, e)
  BY DEF Process
<1>2. e \in Item /\ In(q, "running", e)
  BY Held DEF Base
<1>3. Runs(e) /\ e.task \in Tasks
  BY <1>2, HeldBase DEF Places
<1>4. e.type \in Types /\ e.type # "none"
  BY <1>2, <1>3, TypeOfKind DEF Types
<1>5. CASE Build(q, e)
  <2>1. built \in [Tasks -> Nat]
    BY DEF Base, TypeInv
  <2>2. built'[e.task] \in Nat
    BY <1>3, <1>5, <2>1 DEF Build
  <2>3. PICK n : n = [e EXCEPT !.tx = built'[e.task], !.parsed = FALSE]
    OBVIOUS
  <2>4. /\ n \in Item /\ n.task = e.task /\ n.type = e.type /\ n.stage = e.stage
        /\ n.id = e.id /\ n.at = e.at /\ n.retries = e.retries
    BY <1>2, <2>2, <2>3 DEF Item
  <2>5. Answered(q, e, n) /\ rows' = rows /\ sent' = sent
    BY <1>5, <2>3 DEF Build, dbVars
  <2>6. e.stage \in {"build-tx", "build-success-tx"}
    BY <1>3, <1>5 DEF Build, Runs, Unchecked
  <2>7. Open(e) /\ Pays(e)
    BY <1>4, <2>5, <2>6 DEF Open, Pays, Unbuilt
  <2>8. QED
    BY <2>4, <2>5, <2>7, AnsweredReplaces
<1>6. ASSUME Answered(q, e, e), rows' = rows, Step(e) \notin {"build-tx", "build-success-tx"},
             \A t \in Tasks \ {e.task} : sent'[t] = sent[t],
             \/ sent'[e.task] = sent[e.task]
             \/ e.stage \notin Unbuilt /\ sent'[e.task] = sent[e.task] \cup {e.tx}
      PROVE  Replacement(q)
  <2>1. Pays(e)
    BY <1>4, <1>6, SameSide
  <2>2. ASSUME ~IsLast(e), NEW f \in Item, f.task = e.task, f.tx = e.tx,
               f.stage = IF Step(e) = e.stage THEN Route(e)[e.at + 1] ELSE e.stage, Open(f)'
        PROVE  Open(e) /\ sent'[e.task] = sent[e.task]
    <3>1. f.stage \in Unbuilt => e.stage \in Unbuilt
      BY <1>2, <1>3, <1>6, <2>2, StageAfter
    <3>2. QED
      BY <1>4, <1>6, <2>2, <3>1, SameSide
  <2>3. QED
    BY <1>2, <1>6, <2>1, <2>2, AnsweredReplaces
<1>7. CASE Read(q, e)
  BY <1>6, <1>7 DEF Read, dbVars, networkVars
<1>8. ASSUME Step(e) \in Writes, Taken(e)
      PROVE  /\ \A t \in Tasks \ {e.task} : sent'[t] = sent[t]
             /\ \/ sent'[e.task] = sent[e.task]
                \/ e.stage \notin Unbuilt /\ sent'[e.task] = sent[e.task] \cup {e.tx}
  <2>1. /\ \A t \in Tasks \ {e.task} : sent'[t] = sent[t]
        /\ sent'[e.task] = sent[e.task] \cup
              (IF e.stage \in {"write-message", "send-spawn-success"} THEN {e.tx} ELSE {})
    BY <1>8, TakenOnce
  <2>2. QED
    BY <2>1 DEF Unbuilt
<1>9. CASE Write(q, e)
  <2>1. /\ Step(e) \in Writes /\ Taken(e) /\ Answered(q, e, e) /\ rows' = rows
        /\ Step(e) \notin {"build-tx", "build-success-tx"}
    BY <1>9 DEF Write, Taken, Writes, dbVars
  <2>2. QED
    BY <1>6, <1>8, <2>1
<1>10. CASE LoseAck(q, e)
  <2>1. Step(e) \in Writes /\ Taken(e) /\ Failed(q, e) /\ rows' = rows
    BY <1>10 DEF LoseAck, Taken, dbVars
  <2>2. QED
    BY <1>8, <2>1, FailedReplaces
<1>11. CASE PostGarbled(q, e) \/ Fail(q, e)
  <2>1. Failed(q, e) /\ rows' = rows /\ sent' = sent
    BY <1>11 DEF PostGarbled, Fail, dbVars, networkVars
  <2>2. QED
    BY <2>1, FailedReplaces
<1>12. QED
  BY <1>1, <1>5, <1>7, <1>9, <1>10, <1>11

\* So does every step of a worker that lives on.
LEMMA WorkReplaces ==
    ASSUME Base, NEW q \in Queues, Work(q)
    PROVE  Die(q) \/ Replacement(q)
<1>1. ASSUME NEW e \in worker[q].checking, Enqueue(q, e) PROVE Replacement(q)
  <2>1. e \in Item /\ In(q, "checking", e) /\ TypeInv /\ e.retries \in Nat
    BY Held DEF Base, Item
  <2>2. PICK f \in Item :
           /\ f.task = e.task /\ f.type = e.type /\ f.stage = e.stage /\ f.tx = e.tx
           /\ f.retries = e.retries
           /\ rows' = rows \cup {[queue |-> q, entry |-> f]}
           /\ Moves(q, "checking", e, "queue", {f})
    BY <1>1, <2>1, EnqueueMoves
  <2>3. sent' = sent
    BY <1>1 DEF Enqueue, networkVars
  <2>4. Follows(f, e, "queue") /\ Pays(e)
    BY <2>1, <2>2, <2>3 DEF Follows, Pays, Open
  <2>5. rows' = rows \cup {[queue |-> q, entry |-> g] : g \in {f}}
    BY <2>2
  <2>6. Replaces(q, "checking", e, "queue", {f})
    BY <2>1, <2>2, <2>4, <2>5 DEF Replaces
  <2>7. QED
    BY <2>1, <2>6 DEF Replacement, Places
<1>2. ASSUME NEW c \in Baskets, NEW e \in Item, In(q, c, e), Shift(q, c, e, c, {}),
             rows' = rows, sent' = sent
      PROVE  Replacement(q)
  <2>1. Moves(q, c, e, c, {}) /\ c \in Places /\ c # "queue"
    BY <1>2, ShiftMoves DEF Baskets, Places
  <2>2. Replaces(q, c, e, c, {})
    BY <1>2, <2>1 DEF Replaces, Pays
  <2>3. QED
    BY <2>1, <2>2 DEF Replacement
<1>3. ASSUME NEW e \in worker[q].checking, ExceedRateLimit(q, e) PROVE Replacement(q)
  <2>1. e \in Item /\ In(q, "checking", e) /\ Shift(q, "checking", e, "checking", {})
    BY <1>3, Held, RateLimitShift DEF Base
  <2>2. rows' = rows /\ sent' = sent
    BY <1>3 DEF ExceedRateLimit, dbVars, networkVars
  <2>3. QED
    BY <1>2, <2>1, <2>2 DEF Baskets
<1>4. ASSUME NEW e \in worker[q].waiting, GiveUp(q, e) PROVE Replacement(q)
  <2>1. e \in Item /\ In(q, "waiting", e) /\ Shift(q, "waiting", e, "waiting", {})
    BY <1>4, Held, GiveUpShift DEF Base
  <2>2. rows' = rows /\ sent' = sent
    BY <1>4 DEF GiveUp, dbVars, networkVars
  <2>3. QED
    BY <1>2, <2>1, <2>2 DEF Baskets
<1>5. ASSUME NEW e \in worker[q].waiting, Retry(q, e) PROVE Replacement(q)
  <2>1. e \in Item /\ In(q, "waiting", e) /\ e.retries \in Nat
    BY Held DEF Base, Item
  <2>2. Idle(e)
    BY <2>1, HeldBase DEF Places
  <2>3. PICK f \in Item :
           /\ Shift(q, "waiting", e, "checking", {f})
           /\ f.task = e.task /\ f.id = e.id /\ f.type = e.type
           /\ f.stage = e.stage /\ f.tx = e.tx /\ f.retries = e.retries + 1
    BY <1>5, <2>2, RetryShift DEF Base
  <2>4. Moves(q, "waiting", e, "checking", {f})
    BY <2>3, ShiftMoves DEF Baskets
  <2>5. rows' = rows /\ sent' = sent
    BY <1>5 DEF Retry, dbVars, networkVars
  <2>6. Follows(f, e, "checking") /\ Pays(e)
    BY <2>1, <2>3, <2>5 DEF Follows, Pays, Open
  <2>7. Replaces(q, "waiting", e, "checking", {f})
    BY <2>1, <2>4, <2>5, <2>6 DEF Replaces
  <2>8. QED
    BY <2>1, <2>7 DEF Replacement, Places
<1>6. CASE Dequeue(q)
  <2>1. PICK e \in Item, f \in Item, m \in Memory, s \in Seq(Item) : Dequeued(q, e, f, m, s)
    BY <1>6, DequeueMoves
  <2> USE DEF Dequeued
  <2>2. rows' = rows /\ sent' = sent
    BY <1>6 DEF Dequeue, dbVars, networkVars
  <2>3. Open(f)' => Open(e)
    BY <2>1, <2>2 DEF Open, Unbuilt
  <2>4. Follows(f, e, "running") /\ Pays(e)
    <3>1. e.retries \in Nat
      BY DEF Item
    <3>2. f.task = e.task /\ f.type = e.type /\ f.retries = e.retries
      BY <2>1
    <3>3. QED
      BY <2>2, <2>3, <3>1, <3>2 DEF Follows, Pays
  <2>5. Replaces(q, "queue", e, "running", {f})
    BY <2>1, <2>2, <2>4 DEF Replaces
  <2>6. QED
    BY <2>1, <2>5 DEF Replacement, Places
<1>7. QED
  BY <1>1, <1>3, <1>4, <1>5, <1>6, ProcessReplaces DEF Work

-----------------------------------------------------------------------------

\* Where a message may still be sent for a task.
Opens(t) == {x \in Queues \X Places \X Item : In(x[1], x[2], x[3]) /\ x[3].task = t /\ Open(x[3])}

\* What is sent for a task is paid for by its first entry, or by a row that was
\* read again; and so is each entry that may still send.
RepeatInv ==
    \A t \in Roots :
        /\ IsFiniteSet(Opens(t)) /\ IsFiniteSet(sent[t])
        /\ Cardinality(sent[t]) + Cardinality(Opens(t)) <= 1 + reloaded[t]
        /\ t \notin accepted => sent[t] = {}

\* Until a restart, the rows of a task are of different retries, and those of an
\* entry in memory are no fewer.
LadderInv ==
    /\ crashes = 0 =>
          /\ \A r, s \in rows :
                /\ r.entry.task = s.entry.task /\ r.entry.retries = s.entry.retries
                /\ r.entry.type # "none" /\ s.entry.type # "none"
                => r = s
          /\ \A q \in Queues, c \in Places, e \in Item, r \in rows :
                /\ In(q, c, e) /\ r.entry.task = e.task
                /\ e.type # "none" /\ r.entry.type # "none"
                => r.entry.retries + (IF c = "checking" THEN 1 ELSE 0) <= e.retries
    /\ crashes <= 1 => \A t \in Tasks : reloaded[t] <= crashes * (1 + MaxRetries)

\* A set with one member more has at most one more.
LEMMA OneMore ==
    ASSUME NEW S, NEW x, IsFiniteSet(S)
    PROVE  /\ IsFiniteSet(S \cup {x}) /\ Cardinality(S \cup {x}) \in Nat
           /\ Cardinality(S \cup {x}) <= Cardinality(S) + 1
<1>1. IsFiniteSet(S \cup {x}) /\ Cardinality(S) \in Nat
  BY FS_AddElement, FS_CardinalityType
<1>2. Cardinality(S \cup {x}) = IF x \in S THEN Cardinality(S) ELSE Cardinality(S) + 1
  BY FS_AddElement
<1>3. QED
  BY <1>1, <1>2

\* A set without one of its members has one less.
LEMMA OneLess ==
    ASSUME NEW S, NEW x, IsFiniteSet(S)
    PROVE  /\ IsFiniteSet(S \ {x}) /\ Cardinality(S \ {x}) \in Nat
           /\ Cardinality(S \ {x}) <= Cardinality(S)
           /\ x \in S => Cardinality(S \ {x}) = Cardinality(S) - 1
<1>1. IsFiniteSet(S \ {x}) /\ Cardinality(S) \in Nat /\ Cardinality(S \ {x}) \in Nat
  BY FS_RemoveElement, FS_CardinalityType
<1>2. Cardinality(S \ {x}) = IF x \in S THEN Cardinality(S) - 1 ELSE Cardinality(S)
  BY FS_RemoveElement
<1>3. QED
  BY <1>1, <1>2

\* With fewer entries, less is to be sent.
LEMMA FewerOpen ==
    ASSUME TypeInv, RepeatInv, UNCHANGED <<sent, accepted, reloaded>>,
           \A p \in Queues, d \in Places, x \in Item : In(p, d, x)' => In(p, d, x)
    PROVE  RepeatInv'
<1> SUFFICES ASSUME NEW t \in Roots
             PROVE  /\ IsFiniteSet(Opens(t)') /\ IsFiniteSet(sent'[t])
                    /\ Cardinality(sent'[t]) + Cardinality(Opens(t)') <= 1 + reloaded'[t]
                    /\ t \notin accepted' => sent'[t] = {}
  BY DEF RepeatInv
<1>1. Opens(t)' \in SUBSET Opens(t)
  BY DEF Opens, Open
<1>2. IsFiniteSet(Opens(t)') /\ Cardinality(Opens(t)') <= Cardinality(Opens(t))
  BY <1>1, FS_Subset DEF RepeatInv
<1>3. /\ IsFiniteSet(sent[t]) /\ IsFiniteSet(Opens(t))
      /\ Cardinality(sent[t]) + Cardinality(Opens(t)) <= 1 + reloaded[t]
  BY DEF RepeatInv
<1>4. /\ Cardinality(sent[t]) \in Nat /\ Cardinality(Opens(t)) \in Nat
      /\ Cardinality(Opens(t)') \in Nat
  BY <1>2, <1>3, FS_CardinalityType
<1>5. reloaded[t] \in Nat /\ reloaded'[t] = reloaded[t] /\ sent'[t] = sent[t]
  BY TaskAssumption DEF TypeInv
<1>6. Cardinality(sent'[t]) + Cardinality(Opens(t)') <= 1 + reloaded'[t]
  BY <1>2, <1>3, <1>4, <1>5
<1>7. QED
  BY <1>2, <1>3, <1>5, <1>6 DEF RepeatInv

\* What replaces an entry sends no more than the entry would.
LEMMA ReplacedOpen ==
    ASSUME Base, RepeatInv, NEW q \in Queues, Replacement(q),
           accepted \subseteq accepted', reloaded' = reloaded
    PROVE  RepeatInv'
<1>1. PICK c \in Places, b \in Places, e \in Item, F \in SUBSET Item : Replaces(q, c, e, b, F)
  BY DEF Replacement
<1>2. e.task \in Tasks /\ e.task \in accepted
  BY <1>1, HeldBase DEF Replaces
<1> SUFFICES ASSUME NEW t \in Roots
             PROVE  /\ IsFiniteSet(Opens(t)') /\ IsFiniteSet(sent'[t])
                    /\ Cardinality(sent'[t]) + Cardinality(Opens(t)') <= 1 + reloaded'[t]
                    /\ t \notin accepted' => sent'[t] = {}
  BY DEF RepeatInv
<1>3. /\ t \in Tasks /\ reloaded[t] \in Nat
      /\ \A s \in Tasks : t \notin Outbox[s]
  BY TaskAssumption, OutboxAssumption DEF Base, TypeInv
<1>4. /\ IsFiniteSet(sent[t]) /\ IsFiniteSet(Opens(t))
      /\ Cardinality(sent[t]) + Cardinality(Opens(t)) <= 1 + reloaded[t]
      /\ t \notin accepted => sent[t] = {}
  BY DEF RepeatInv
<1>5. Cardinality(sent[t]) \in Nat /\ Cardinality(Opens(t)) \in Nat
  BY <1>4, FS_CardinalityType
<1>6. \A p \in Queues, d \in Places, x \in Item :
         In(p, d, x)' => \/ In(p, d, x) /\ ~(p = q /\ d = c /\ x = e)
                         \/ p = q /\ d = b /\ x \in F
  BY <1>1 DEF Replaces, Moves
<1>7. \A f \in F : f.task = t => t = e.task /\ F = {f} /\ Follows(f, e, b)
  <2>1. \A f \in Children(e) : f.task # t
    BY <1>2, <1>3 DEF Children, Fresh
  <2>2. QED
    BY <1>1, <2>1 DEF Replaces, Follows
<1>8. sent[t] \subseteq sent'[t]
  BY <1>1, <1>3 DEF Replaces, Pays
<1>9. CASE t # e.task
  <2>1. sent'[t] = sent[t]
    BY <1>1, <1>3, <1>9 DEF Replaces, Pays
  <2>2. Opens(t)' \in SUBSET Opens(t)
    BY <1>6, <1>7, <1>9, <2>1 DEF Opens, Open
  <2>3. /\ IsFiniteSet(Opens(t)') /\ Cardinality(Opens(t)') <= Cardinality(Opens(t))
        /\ Cardinality(Opens(t)') \in Nat
    BY <1>4, <2>2, FS_Subset, FS_CardinalityType
  <2>4. QED
    BY <1>3, <1>4, <1>5, <2>1, <2>3
<1>10. CASE t = e.task
  <2> DEFINE w == <<q, c, e>>
  <2>1. IsFiniteSet(Opens(t) \ {w}) /\ Cardinality(Opens(t) \ {w}) \in Nat
    BY <1>4, OneLess
  <2>2. \A x \in Opens(t)' : x \in Opens(t) \ {w} \/ (x = <<q, b, x[3]>> /\ x[3] \in F)
    <3> SUFFICES ASSUME NEW p \in Queues, NEW d \in Places, NEW x \in Item,
                        In(p, d, x)', x.task = t, Open(x)'
                 PROVE  \/ <<p, d, x>> \in Opens(t) \ {w}
                        \/ p = q /\ d = b /\ x \in F
      BY DEF Opens
    <3>1. CASE In(p, d, x) /\ ~(p = q /\ d = c /\ x = e)
      <4>1. Open(x)
        BY <1>8 DEF Open
      <4>2. QED
        BY <3>1, <4>1 DEF Opens
    <3>2. QED
      BY <1>6, <3>1
  <2>3. CASE \E f \in F : f.task = t /\ Open(f)'
    <3>1. PICK f \in F : f.task = t /\ Open(f)'
      BY <2>3
    <3>2. F = {f} /\ Open(e) /\ sent'[t] = sent[t]
      BY <1>7, <1>10, <3>1 DEF Follows
    <3>3. w \in Opens(t)
      BY <1>1, <1>10, <3>2 DEF Opens, Replaces
    <3> DEFINE V == (Opens(t) \ {w}) \cup {<<q, b, f>>}
    <3>4. Cardinality(Opens(t) \ {w}) = Cardinality(Opens(t)) - 1
      BY <1>4, <3>3, OneLess
    <3>5. IsFiniteSet(V) /\ Cardinality(V) \in Nat /\ Cardinality(V) <= Cardinality(Opens(t))
      <4>1. /\ IsFiniteSet(V) /\ Cardinality(V) \in Nat
            /\ Cardinality(V) <= Cardinality(Opens(t) \ {w}) + 1
        BY <2>1, OneMore
      <4> HIDE DEF V
      <4>2. QED
        BY <1>5, <3>4, <4>1
    <3>6. Opens(t)' \in SUBSET V
      BY <2>2, <3>2
    <3> HIDE DEF V
    <3>7. /\ IsFiniteSet(Opens(t)') /\ Cardinality(Opens(t)') <= Cardinality(V)
          /\ Cardinality(Opens(t)') \in Nat
      BY <3>5, <3>6, FS_Subset, FS_CardinalityType
    <3>8. QED
      BY <1>2, <1>3, <1>4, <1>5, <1>10, <3>2, <3>5, <3>7
  <2>4. CASE ~\E f \in F : f.task = t /\ Open(f)'
    <3>1. Opens(t)' \in SUBSET (Opens(t) \ {w})
      BY <2>2, <2>4 DEF Opens
    <3>2. /\ IsFiniteSet(Opens(t)') /\ Cardinality(Opens(t)') \in Nat
          /\ Cardinality(Opens(t)') <= Cardinality(Opens(t) \ {w})
      BY <2>1, <3>1, FS_Subset, FS_CardinalityType
    <3>3. CASE sent'[t] = sent[t]
      <4>1. Cardinality(Opens(t) \ {w}) <= Cardinality(Opens(t))
        BY <1>4, OneLess
      <4>2. QED
        BY <1>2, <1>3, <1>4, <1>5, <1>10, <2>1, <3>2, <3>3, <4>1
    <3>4. CASE Open(e) /\ \E k : sent'[t] = sent[t] \cup {k}
      <4>1. w \in Opens(t)
        BY <1>1, <1>10, <3>4 DEF Opens, Replaces
      <4>2. Cardinality(Opens(t) \ {w}) = Cardinality(Opens(t)) - 1
        BY <1>4, <4>1, OneLess
      <4>3. PICK k : sent'[t] = sent[t] \cup {k}
        BY <3>4
      <4>4. IsFiniteSet(sent'[t]) /\ Cardinality(sent'[t]) <= Cardinality(sent[t]) + 1
        BY <1>4, <4>3, OneMore
      <4>5. Cardinality(sent'[t]) \in Nat
        BY <4>4, FS_CardinalityType
      <4>6. QED
        BY <1>2, <1>3, <1>4, <1>5, <1>10, <2>1, <3>2, <4>2, <4>4, <4>5
    <3>5. QED
      BY <1>1, <1>10, <3>3, <3>4 DEF Replaces, Pays
  <2>5. QED
    BY <2>3, <2>4
<1>11. QED
  BY <1>9, <1>10

\* A task that is cranked may be sent once.
LEMMA CrankOpen ==
    ASSUME Base, RepeatInv, NEW u \in Tasks, NEW q \in Queues, Crank(u, q)
    PROVE  RepeatInv'
<1>1. TypeInv /\ u \in Roots /\ u \notin accepted
  BY DEF Crank, Base
<1>2. PICK f \in Item : f.task = u /\ Moves(q, "checking", f, "checking", {f})
  BY <1>1, CrankMoves
<1>3. \A p \in Queues, d \in Places, x \in Item :
         In(p, d, x)' => In(p, d, x) \/ (p = q /\ d = "checking" /\ x = f)
  BY <1>2 DEF Moves
<1>4. sent' = sent /\ accepted' = accepted \cup {u} /\ reloaded' = reloaded
  BY DEF Crank, networkVars
<1> SUFFICES ASSUME NEW t \in Roots
             PROVE  /\ IsFiniteSet(Opens(t)') /\ IsFiniteSet(sent'[t])
                    /\ Cardinality(sent'[t]) + Cardinality(Opens(t)') <= 1 + reloaded'[t]
                    /\ t \notin accepted' => sent'[t] = {}
  BY DEF RepeatInv
<1>5. /\ IsFiniteSet(sent[t]) /\ IsFiniteSet(Opens(t))
      /\ Cardinality(sent[t]) + Cardinality(Opens(t)) <= 1 + reloaded[t]
      /\ t \notin accepted => sent[t] = {}
  BY DEF RepeatInv
<1>6. reloaded[t] \in Nat /\ Cardinality(sent[t]) \in Nat /\ Cardinality(Opens(t)) \in Nat
  BY <1>5, TaskAssumption, FS_CardinalityType DEF Base, TypeInv
<1>7. CASE t # u
  <2>1. Opens(t)' \in SUBSET Opens(t)
    BY <1>2, <1>3, <1>4, <1>7 DEF Opens, Open
  <2>2. /\ IsFiniteSet(Opens(t)') /\ Cardinality(Opens(t)') <= Cardinality(Opens(t))
        /\ Cardinality(Opens(t)') \in Nat
    BY <1>5, <2>1, FS_Subset, FS_CardinalityType
  <2>3. QED
    BY <1>4, <1>5, <1>6, <2>2
<1>8. CASE t = u
  <2> DEFINE V == {} \cup {<<q, "checking", f>>}
  <2>1. Opens(t)' \in SUBSET V
    <3>1. \A p \in Queues, d \in Places, x \in Item : In(p, d, x) => x.task # t
      BY <1>1, <1>8, HeldBase
    <3>2. QED
      BY <1>3, <3>1 DEF Opens
  <2>2. IsFiniteSet(V) /\ Cardinality(V) \in Nat /\ Cardinality(V) <= 1
    <3>1. IsFiniteSet({}) /\ Cardinality({}) = 0
      BY FS_EmptySet
    <3>2. IsFiniteSet(V) /\ Cardinality(V) \in Nat /\ Cardinality(V) <= Cardinality({}) + 1
      BY <3>1, OneMore
    <3> HIDE DEF V
    <3>3. QED
      BY <3>1, <3>2
  <2> HIDE DEF V
  <2>3. IsFiniteSet(Opens(t)') /\ Cardinality(Opens(t)') <= 1 /\ Cardinality(Opens(t)') \in Nat
    BY <2>1, <2>2, FS_Subset, FS_CardinalityType
  <2>4. sent'[t] = {} /\ Cardinality(sent'[t]) = 0
    BY <1>1, <1>4, <1>5, <1>8, FS_EmptySet
  <2>5. QED
    BY <1>1, <1>4, <1>5, <1>6, <1>8, <2>3, <2>4
<1>9. QED
  BY <1>7, <1>8

\* After a restart a task may be sent once for each row that was read.
LEMMA CrashOpen ==
    ASSUME Base, RepeatInv, NEW last \in Hours, Crash(last)
    PROVE  RepeatInv'
<1>1. /\ \A q \in Queues :
            /\ worker'[q].checking = {} /\ worker'[q].running = {} /\ worker'[q].waiting = {}
      /\ \A q \in Queues : \A i \in 1 .. Len(worker'[q].queue) :
            \E r \in rows \ Older(last) :
               /\ r.queue = q
               /\ worker'[q].queue[i].id = r.entry.id
               /\ worker'[q].queue[i].task = r.entry.task
               /\ worker'[q].queue[i].type = r.entry.type
      /\ \A q \in Queues : \A i, j \in 1 .. Len(worker'[q].queue) :
            worker'[q].queue[i].id = worker'[q].queue[j].id => i = j
  BY CrashLoads
<1> SUFFICES ASSUME NEW t \in Roots
             PROVE  /\ IsFiniteSet(Opens(t)') /\ IsFiniteSet(sent'[t])
                    /\ Cardinality(sent'[t]) + Cardinality(Opens(t)') <= 1 + reloaded'[t]
                    /\ t \notin accepted' => sent'[t] = {}
  BY DEF RepeatInv
<1> DEFINE L == Lively(t) \ Older(last)
           Row(x) == CHOOSE r \in L : r.queue = x[1] /\ r.entry.id = x[3].id
           h == [x \in Opens(t)' |-> Row(x)]
<1>2. /\ t \in Tasks /\ sent' = sent /\ accepted' = accepted
      /\ reloaded'[t] = reloaded[t] + Cardinality(L)
  BY TaskAssumption DEF Crash, networkVars
<1>3. IsFiniteSet(L) /\ Cardinality(L) \in Nat
  <2>1. L \in SUBSET rows
    BY DEF Lively
  <2>2. QED
    BY <2>1, FS_Subset, FS_CardinalityType DEF Base, TypeInv
<1>4. /\ IsFiniteSet(sent[t]) /\ IsFiniteSet(Opens(t))
      /\ Cardinality(sent[t]) + Cardinality(Opens(t)) <= 1 + reloaded[t]
      /\ t \notin accepted => sent[t] = {}
  BY DEF RepeatInv
<1>5. reloaded[t] \in Nat /\ Cardinality(sent[t]) \in Nat /\ Cardinality(Opens(t)) \in Nat
  BY <1>2, <1>4, FS_CardinalityType DEF Base, TypeInv
<1>6. \A x \in Opens(t)' :
         /\ x = <<x[1], "queue", x[3]>> /\ x[1] \in Queues
         /\ \E i \in 1 .. Len(worker'[x[1]].queue) : x[3] = worker'[x[1]].queue[i]
         /\ \E r \in L : r.queue = x[1] /\ r.entry.id = x[3].id
  <2> SUFFICES ASSUME NEW p \in Queues, NEW d \in Places, NEW x \in Item,
                      In(p, d, x)', x.task = t, Open(x)'
               PROVE  /\ d = "queue"
                      /\ \E i \in 1 .. Len(worker'[p].queue) : x = worker'[p].queue[i]
                      /\ \E r \in L : r.queue = p /\ r.entry.id = x.id
    BY DEF Opens
  <2>1. d = "queue" /\ \E i \in 1 .. Len(worker'[p].queue) : x = worker'[p].queue[i]
    BY <1>1 DEF In
  <2>2. x.type # "none"
    BY DEF Open
  <2>3. QED
    BY <1>1, <2>1, <2>2 DEF Lively
<1>7. \A x \in Opens(t)' : h[x] \in L /\ h[x].queue = x[1] /\ h[x].entry.id = x[3].id
  BY <1>6
<1>8. ASSUME NEW x \in Opens(t)', NEW y \in Opens(t)', h[x] = h[y] PROVE x = y
  <2>1. x[1] = y[1] /\ x[3].id = y[3].id
    BY <1>7, <1>8
  <2>2. x[3] = y[3]
    BY <1>1, <1>6, <2>1
  <2>3. QED
    BY <1>6, <2>1, <2>2
<1>9. h \in Injection(Opens(t)', L)
  BY <1>7, <1>8 DEF Injection, IsInjective
<1> HIDE DEF L, h
<1>10. IsFiniteSet(Opens(t)') /\ Cardinality(Opens(t)') <= Cardinality(L)
  BY <1>3, <1>9, FS_Injection
<1>11. Cardinality(Opens(t)') \in Nat
  BY <1>10, FS_CardinalityType
<1>12. QED
  BY <1>2, <1>3, <1>4, <1>5, <1>10, <1>11

-----------------------------------------------------------------------------

\* Fewer entries and rows are as many steps of the ladder.
LEMMA FewerSteps ==
    ASSUME LadderInv, rows' \subseteq rows, UNCHANGED <<reloaded, crashes>>,
           \A p \in Queues, d \in Places, x \in Item : In(p, d, x)' => In(p, d, x)
    PROVE  LadderInv'
BY DEF LadderInv

\* What replaces an entry is above its rows, and so is the row it leaves.
LEMMA ReplacedSteps ==
    ASSUME Base, Base', LadderInv, NEW q \in Queues, Replacement(q),
           UNCHANGED <<reloaded, crashes>>
    PROVE  LadderInv'
<1>1. PICK c \in Places, b \in Places, e \in Item, F \in SUBSET Item : Replaces(q, c, e, b, F)
  BY DEF Replacement
<1>2. crashes <= 1 => \A t \in Tasks : reloaded[t] <= crashes * (1 + MaxRetries)
  BY DEF LadderInv
<1> SUFFICES ASSUME crashes = 0
             PROVE  /\ \A r, s \in rows' :
                          /\ r.entry.task = s.entry.task /\ r.entry.retries = s.entry.retries
                          /\ r.entry.type # "none" /\ s.entry.type # "none"
                          => r = s
                    /\ \A p \in Queues, d \in Places, x \in Item, r \in rows' :
                          /\ In(p, d, x)' /\ r.entry.task = x.task
                          /\ x.type # "none" /\ r.entry.type # "none"
                          => r.entry.retries + (IF d = "checking" THEN 1 ELSE 0) <= x.retries
  BY <1>2 DEF LadderInv
<1>3. /\ In(q, c, e) /\ Moves(q, c, e, b, F)
      /\ b = "queue" => c = "checking"
      /\ rows' = rows \cup (IF b = "queue" THEN {[queue |-> q, entry |-> f] : f \in F} ELSE {})
  BY <1>1 DEF Replaces
<1>4. \A r \in rows : r.entry.retries \in Nat /\ r.entry.task \in accepted
  BY DEF Base, TypeInv, EntryInv, Saved, Item
<1>5. \A r \in rows : /\ r.entry.task = e.task /\ e.type # "none" /\ r.entry.type # "none"
                      => r.entry.retries + (IF c = "checking" THEN 1 ELSE 0) <= e.retries
  BY <1>3 DEF LadderInv
<1>6. \A f \in F : \/ F = {f} /\ Follows(f, e, b)
                   \/ b = "checking" /\ f.task \notin accepted
  <2>1. Outbox[e.task] \cap accepted = {}
    BY <1>3, ChildrenNew
  <2>2. \A f \in Children(e) : f.task \notin accepted
    BY <2>1 DEF Children, Fresh
  <2>3. QED
    BY <1>1, <2>2 DEF Replaces
<1>7. ASSUME NEW s \in rows', s \notin rows
      PROVE  \E f \in F : /\ F = {f} /\ Follows(f, e, b) /\ b = "queue"
                          /\ s.queue = q /\ s.entry = f /\ In(q, "queue", f)'
  <2>1. PICK f \in F : b = "queue" /\ s = [queue |-> q, entry |-> f]
    BY <1>3, <1>7
  <2>2. QED
    BY <1>3, <1>6, <2>1 DEF Moves, Places
<1>8. ASSUME NEW r \in rows, NEW s \in rows', s \notin rows,
             r.entry.task = s.entry.task, r.entry.type # "none", s.entry.type # "none"
      PROVE  r.entry.retries # s.entry.retries
  <2>1. PICK f \in F : Follows(f, e, b) /\ b = "queue" /\ s.entry = f
    BY <1>7, <1>8
  <2>2. e.type # "none" /\ r.entry.task = e.task /\ f.retries = e.retries + 0
    BY <1>8, <2>1 DEF Follows
  <2>3. r.entry.retries + 1 <= e.retries /\ e.retries \in Nat
    BY <1>3, <1>5, <1>8, <2>1, <2>2 DEF Item
  <2>4. QED
    BY <1>4, <2>1, <2>2, <2>3
<1>9. ASSUME NEW r \in rows', NEW s \in rows',
             r.entry.task = s.entry.task, r.entry.retries = s.entry.retries,
             r.entry.type # "none", s.entry.type # "none"
      PROVE  r = s
  <2>1. CASE r \in rows /\ s \in rows
    BY <1>9, <2>1 DEF LadderInv
  <2>2. CASE r \notin rows /\ s \notin rows
    BY <1>3, <1>7, <2>2
  <2>3. CASE r \in rows /\ s \notin rows
    BY <1>8, <1>9, <2>3
  <2>4. CASE r \notin rows /\ s \in rows
    BY <1>8, <1>9, <2>4
  <2>5. QED
    BY <2>1, <2>2, <2>3, <2>4
<1>10. ASSUME NEW p \in Queues, NEW d \in Places, NEW x \in Item, NEW r \in rows',
              In(p, d, x)', r.entry.task = x.task, x.type # "none", r.entry.type # "none"
       PROVE  r.entry.retries + (IF d = "checking" THEN 1 ELSE 0) <= x.retries
  <2>1. CASE r \notin rows
    <3>1. In(q, "queue", r.entry)' /\ r.entry \in Item
      BY <1>7, <2>1
    <3>2. d = "queue" /\ x = r.entry
      BY <1>10, <3>1 DEF Base, OnceInv, Places
    <3>3. QED
      BY <3>2 DEF Item
  <2>2. CASE r \in rows /\ In(p, d, x)
    BY <1>10, <2>2 DEF LadderInv
  <2>3. CASE r \in rows /\ d = b /\ x \in F
    <3>1. Follows(x, e, b)
      BY <1>4, <1>6, <1>10, <2>3
    <3>2. e.type # "none" /\ r.entry.task = e.task
      BY <1>10, <3>1 DEF Follows
    <3>3. x.retries = e.retries + IF b = "checking" THEN 1 ELSE 0
      BY <1>10, <3>1 DEF Follows
    <3>4. r.entry.retries \in Nat /\ r.entry.retries <= e.retries /\ e.retries \in Nat
      BY <1>4, <1>5, <1>10, <2>3, <3>2 DEF Item
    <3>5. QED
      BY <2>3, <3>3, <3>4
  <2>4. QED
    BY <1>3, <1>10, <2>1, <2>2, <2>3 DEF Moves
<1>11. QED
  BY <1>9, <1>10

\* A task that is cranked has no rows yet.
LEMMA CrankSteps ==
    ASSUME Base, LadderInv, NEW u \in Tasks, NEW q \in Queues, Crank(u, q)
    PROVE  LadderInv'
<1>1. TypeInv /\ u \notin accepted /\ UNCHANGED <<rows, reloaded, crashes>>
  BY DEF Crank, Base, dbVars
<1>2. PICK f \in Item : f.task = u /\ Moves(q, "checking", f, "checking", {f})
  BY <1>1, CrankMoves
<1>3. \A p \in Queues, d \in Places, x \in Item : In(p, d, x)' => In(p, d, x) \/ x = f
  BY <1>2 DEF Moves
<1>4. \A r \in rows : r.entry.task # u
  BY <1>1 DEF Base, EntryInv, Saved
<1>5. QED
  BY <1>1, <1>2, <1>3, <1>4 DEF LadderInv

\* A first restart reads a row for each number of retries at most.
LEMMA CrashSteps ==
    ASSUME Base, LadderInv, NEW last \in Hours, Crash(last)
    PROVE  LadderInv'
<1>1. crashes \in Nat /\ crashes' = crashes + 1
  BY DEF Crash, Base, TypeInv
<1> SUFFICES ASSUME crashes = 0, NEW t \in Tasks PROVE reloaded'[t] <= 1 + MaxRetries
  <2>1. CASE crashes = 0
    <3>1. crashes' = 1 /\ 1 * (1 + MaxRetries) = 1 + MaxRetries
      BY <1>1, <2>1, QueueAssumption
    <3>2. QED
      BY <2>1, <3>1 DEF LadderInv
  <2>2. CASE crashes # 0
    <3>1. ~(crashes' <= 1) /\ crashes' # 0
      BY <1>1, <2>2
    <3>2. QED
      BY <3>1 DEF LadderInv
  <2>3. QED
    BY <2>1, <2>2
<1> DEFINE L == Lively(t) \ Older(last)
           h == [r \in L |-> r.entry.retries]
<1>2. reloaded[t] = 0
  <2>1. 0 * (1 + MaxRetries) = 0 /\ 0 <= 1
    BY QueueAssumption
  <2>2. reloaded[t] <= 0 * (1 + MaxRetries)
    BY <2>1 DEF LadderInv
  <2>3. reloaded[t] \in Nat
    BY DEF Base, TypeInv
  <2>4. QED
    BY <2>1, <2>2, <2>3
<1>3. \A r \in L : r \in rows /\ r.entry.task = t /\ r.entry.type # "none"
  BY DEF Lively
<1>4. h \in Injection(L, 0 .. MaxRetries)
  <2>1. \A r \in L : h[r] \in 0 .. MaxRetries
    BY <1>3 DEF Base, TypeInv, Item
  <2>2. \A r, s \in L : h[r] = h[s] => r = s
    BY <1>3 DEF LadderInv
  <2>3. QED
    BY <2>1, <2>2 DEF Injection, IsInjective
<1>5. IsFiniteSet(0 .. MaxRetries) /\ Cardinality(0 .. MaxRetries) = MaxRetries + 1
  BY QueueAssumption, FS_Interval
<1> HIDE DEF L, h
<1>6. Cardinality(L) <= MaxRetries + 1
  BY <1>4, <1>5, FS_Injection
<1>7. reloaded'[t] = 0 + Cardinality(L) /\ Cardinality(L) \in Nat
  <2>1. L \in SUBSET rows
    BY <1>3
  <2>2. Cardinality(L) \in Nat
    BY <2>1, FS_Subset, FS_CardinalityType DEF Base, TypeInv
  <2>3. QED
    BY <1>2, <2>2 DEF Crash, L
<1>8. QED
  BY <1>6, <1>7, QueueAssumption

-----------------------------------------------------------------------------

\* Every step keeps what may be sent within what was paid for.
LEMMA RepeatNext ==
    Base /\ RepeatInv /\ LadderInv /\ [Next]_vars => RepeatInv' /\ LadderInv'
<1> SUFFICES ASSUME Base, RepeatInv, LadderInv, [Next]_vars PROVE RepeatInv' /\ LadderInv'
  OBVIOUS
<1>1. Base'
  BY BaseNext
<1>2. ASSUME NEW u \in Tasks, NEW q \in Queues, Crank(u, q) PROVE RepeatInv' /\ LadderInv'
  BY <1>2, CrankOpen, CrankSteps
<1>3. ASSUME NEW q \in Queues, Work(q) PROVE RepeatInv' /\ LadderInv'
  <2>1. CASE Die(q)
    <3>1. UNCHANGED <<rows, sent, accepted, reloaded, crashes>>
      BY <2>1 DEF Die, dbVars, networkVars
    <3>2. \A p \in Queues, d \in Places, x \in Item : In(p, d, x)' => In(p, d, x)
      BY <2>1, DieMoves DEF Base
    <3>3. QED
      BY <3>1, <3>2, FewerOpen, FewerSteps DEF Base
  <2>2. CASE Replacement(q) /\ ~Die(q)
    <3>1. ASSUME NEW e, \/ Enqueue(q, e) \/ ExceedRateLimit(q, e) \/ Retry(q, e)
                        \/ GiveUp(q, e)
          PROVE  UNCHANGED <<reloaded, crashes, accepted>>
      BY <3>1 DEF Enqueue, ExceedRateLimit, Retry, GiveUp, historyVars
    <3>2. ASSUME Dequeue(q) PROVE UNCHANGED <<reloaded, crashes, accepted>>
      BY <3>2 DEF Dequeue, historyVars
    <3>3. ASSUME Process(q) PROVE UNCHANGED <<reloaded, crashes>> /\ accepted \subseteq accepted'
      BY <3>3 DEF Process, Build, Read, Write, LoseAck, PostGarbled, Fail, Done, historyVars
    <3>4. UNCHANGED <<reloaded, crashes>> /\ accepted \subseteq accepted'
      BY <1>3, <2>2, <3>1, <3>2, <3>3 DEF Work
    <3>5. QED
      BY <1>1, <2>2, <3>4, ReplacedOpen, ReplacedSteps
  <2>3. QED
    BY <1>3, <2>1, <2>2, WorkReplaces
<1>4. ASSUME NEW q \in Queues, NEW last \in Hours, RemoveDequeued(q, last)
      PROVE  RepeatInv' /\ LadderInv'
  <2>1. UNCHANGED <<sent, accepted, reloaded, crashes>> /\ rows' \subseteq rows
    BY <1>4 DEF RemoveDequeued, networkVars, historyVars
  <2>2. \A p \in Queues : /\ worker'[p].queue = worker[p].queue
                          /\ worker'[p].checking = worker[p].checking
                          /\ worker'[p].running = worker[p].running
                          /\ worker'[p].waiting = worker[p].waiting
    BY <1>4, Held DEF RemoveDequeued, Base, TypeInv, Memory
  <2>3. \A p \in Queues, d \in Places, x \in Item : In(p, d, x)' => In(p, d, x)
    BY <2>2 DEF In
  <2>4. QED
    BY <2>1, <2>3, FewerOpen, FewerSteps DEF Base
<1>5. ASSUME NEW last \in Hours, Crash(last) PROVE RepeatInv' /\ LadderInv'
  BY <1>5, CrashOpen, CrashSteps
<1>6. CASE UNCHANGED vars
  <2>1. UNCHANGED <<worker, rows, sent, accepted, reloaded, crashes>>
    BY <1>6 DEF vars, dbVars, networkVars, historyVars
  <2>2. \A p \in Queues, d \in Places, x \in Item : In(p, d, x)' => In(p, d, x)
    BY <2>1 DEF In
  <2>3. QED
    BY <2>1, <2>2, FewerOpen, FewerSteps DEF Base
<1>7. QED
  BY <1>2, <1>3, <1>4, <1>5, <1>6 DEF Next

\* Initially nothing was sent, and nothing is to be sent.
LEMMA RepeatInit == Init => RepeatInv /\ LadderInv
<1> SUFFICES ASSUME Init PROVE RepeatInv /\ LadderInv
  OBVIOUS
<1>1. ASSUME NEW t \in Roots
      PROVE  /\ IsFiniteSet(Opens(t)) /\ IsFiniteSet(sent[t])
             /\ Cardinality(sent[t]) + Cardinality(Opens(t)) <= 1 + reloaded[t]
             /\ t \notin accepted => sent[t] = {}
  <2>1. sent[t] = {} /\ reloaded[t] = 0
    BY TaskAssumption DEF Init
  <2>2. Opens(t) = {}
    <3>1. \A q \in Queues, c \in Places, e \in Item : ~In(q, c, e)
      BY BaseInit, HeldBase DEF Init
    <3>2. QED
      BY <3>1 DEF Opens
  <2>3. QED
    BY <2>1, <2>2, FS_EmptySet
<1>2. LadderInv
  <2>1. 0 * (1 + MaxRetries) = 0
    BY QueueAssumption
  <2>2. QED
    BY <2>1 DEF Init, LadderInv
<1>3. QED
  BY <1>1, <1>2 DEF RepeatInv

\* A restart repeats what the rows in the table say: a message is sent once more
\* for each row of its task that a restart has read, at most; and the first restart
\* reads the first row of a task and the row of each of its retries, at most.
THEOREM AlwaysRepeatsBounded == Spec => []RepeatsBounded
<1>1. Base /\ RepeatInv /\ LadderInv => RepeatsBounded
  <2> SUFFICES ASSUME Base, RepeatInv, LadderInv, NEW t \in Roots
               PROVE  /\ Cardinality(sent[t]) <= 1 + reloaded[t]
                      /\ crashes <= 1 => reloaded[t] <= crashes * (1 + MaxRetries)
    BY DEF RepeatsBounded
  <2>1. /\ IsFiniteSet(Opens(t)) /\ IsFiniteSet(sent[t])
        /\ Cardinality(sent[t]) + Cardinality(Opens(t)) <= 1 + reloaded[t]
    BY DEF RepeatInv
  <2>2. t \in Tasks /\ reloaded[t] \in Nat
    BY TaskAssumption DEF Base, TypeInv
  <2>3. Cardinality(Opens(t)) \in Nat /\ Cardinality(sent[t]) \in Nat
    BY <2>1, FS_CardinalityType
  <2>4. QED
    BY <2>1, <2>2, <2>3 DEF LadderInv
<1>2. RepeatInv /\ LadderInv /\ Base /\ [Next]_vars => (RepeatInv /\ LadderInv)'
  BY RepeatNext
<1>3. QED
  BY <1>1, <1>2, RepeatInit, BaseHolds, PTL DEF Spec

=============================================================================
