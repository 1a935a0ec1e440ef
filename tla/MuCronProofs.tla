---------------------------- MODULE MuCronProofs ----------------------------
(***************************************************************************)
(* Proofs about the cron monitors of a Messenger Unit, for any processes,  *)
(* results, callers and pages, and whatever calls fail.                    *)
(***************************************************************************)
EXTENDS MuCron, FiniteSetTheorems, NaturalsInduction, WellFoundedInduction, TLAPS

MonitorType ==
    [process : Processes, ticking : BOOLEAN,
     job : {"none", "cursor", "fetch", "stuck"},
     from : 0 .. MaxResults, seen : 0 .. MaxResults]

\* What is said of a process holds until it has two monitors at once.
OneAlive(p) ==
    p \notin twins => \A m, n \in AliveOf(p) : m = n

\* Only a monitor that found no cursor asks for one, and the results that it
\* fetches are those after the cursor of the row.
FromCursor(p) ==
    p \notin twins =>
        \A m \in Monitors : monitors[m].process = p =>
            /\ monitors[m].job = "cursor" => ~ Saved(p)
            /\ monitors[m].job = "fetch" /\ Saved(p) => monitors[m].from = rows[p]

\* What was cranked is before every cursor from which results are fetched, and
\* was there when a monitor asked for its first cursor.
CrankedBefore(p) ==
    p \notin twins \cup rewound =>
        \A r \in Results : cranked[p][r] > 0 =>
            /\ r <= made[p]
            /\ r \notin Erroneous
            /\ Saved(p) => r <= rows[p]
            /\ \A m \in Monitors : monitors[m].process = p =>
                  /\ monitors[m].job = "cursor" => r <= monitors[m].seen
                  /\ monitors[m].job = "fetch" => r <= monitors[m].from

\* CrankedOnce and NothingSkipped, of one process.
CrankedOnceOf(p) ==
    p \notin twins \cup rewound => \A r \in Results : cranked[p][r] <= 1

NothingSkippedOf(p) ==
    p \in DOMAIN rows \ twins =>
        \A r \in floor[p] + 1 .. rows[p] : Wanted(r) => cranked[p][r] > 0

CursorInv(p) ==
    /\ OneAlive(p)
    /\ FromCursor(p)
    /\ CrankedBefore(p)
    /\ CrankedOnceOf(p)
    /\ NothingSkippedOf(p)

CronInv == TypeOK /\ RowsMonitored /\ \A p \in Processes : CursorInv(p)

-----------------------------------------------------------------------------
(* The pages of a Compute Unit.                                            *)

\* A set of numbers has a least one.
LEMMA LeastNumber ==
    ASSUME NEW S \in SUBSET Nat, S # {}
    PROVE  \E n \in S : \A m \in S : n <= m
<1> DEFINE less == {ss \in Nat \X Nat : ss[1] < ss[2]}
<1>1. OpToRel(<, Nat) = less
  BY Zenon DEF OpToRel
<1>2. IsWellFoundedOn(less, Nat)
  BY <1>1, NatLessThanWellFounded, Zenon
<1> HIDE DEF less
<1>3. PICK n \in S : \A m \in S : ~(<<m, n>> \in less)
  BY <1>2, WFMin, Zenon
<1>4. \A m \in S : ~(m < n)
  BY <1>3 DEF less
<1>5. QED
  BY <1>4

\* A set of results that is not empty has a last one, which Max is.
LEMMA LastResult ==
    ASSUME NEW S \in SUBSET Results, S # {}
    PROVE  /\ Max(S) \in S
           /\ \A r \in S : r <= Max(S)
<1> DEFINE rest == {MaxResults - r : r \in S}
<1>1. MaxResults \in Nat /\ \A r \in S : r \in 1 .. MaxResults
  BY CronAssumption DEF Results
<1>2. rest \in SUBSET Nat /\ rest # {}
  BY <1>1
<1>3. PICK n \in rest : \A k \in rest : n <= k
  <2> HIDE DEF rest
  <2>1. QED  BY <1>2, LeastNumber
<1>4. PICK s \in S : n = MaxResults - s
  BY <1>3
<1>5. \A r \in S : r <= s
  BY <1>1, <1>3, <1>4
<1>6. \A r \in S : s >= r
  BY <1>1, <1>5
<1>7. Max(S) \in S /\ \A r \in S : Max(S) >= r
  BY <1>6 DEF Max
<1>8. QED
  BY <1>1, <1>7

\* The first results leave none out before them.
LEMMA EarliestIs ==
    ASSUME NEW S \in SUBSET Results, NEW n \in Nat
    PROVE  /\ Earliest(n, S) \subseteq S
           /\ \A r \in Earliest(n, S), q \in S : q < r => q \in Earliest(n, S)
<1>1. SUFFICES ASSUME NEW r \in Earliest(n, S), NEW q \in S, q < r
               PROVE  q \in Earliest(n, S)
  BY DEF Earliest
<1> DEFINE upto(x) == {y \in S : y < x}
<1>2. r \in S /\ S \subseteq Nat /\ Cardinality(upto(r)) < n
  BY <1>1, CronAssumption DEF Earliest, Results
<1>3. IsFiniteSet(Results)
  BY CronAssumption, FS_Interval DEF Results
<1>4. IsFiniteSet(upto(r)) /\ upto(q) \subseteq upto(r)
  <2>1. upto(r) \subseteq Results
    OBVIOUS
  <2>2. upto(q) \subseteq upto(r)
    <3>1. r \in Nat /\ q \in Nat
      BY <1>1, <1>2
    <3>2. \A y \in S : y \in Nat /\ (y < q => y < r)
      BY <1>1, <1>2, <3>1
    <3>3. QED
      BY <3>2
  <2>3. QED
    BY <1>3, <2>1, <2>2, FS_Subset
<1>5. /\ Cardinality(upto(q)) <= Cardinality(upto(r))
      /\ Cardinality(upto(q)) \in Nat /\ Cardinality(upto(r)) \in Nat
  BY <1>4, FS_Subset, FS_CardinalityType
<1>6. Cardinality(upto(q)) < n
  BY <1>2, <1>5
<1>7. QED
  BY <1>6 DEF Earliest

\* A page has the cron results after its cursor, errors left out, up to its end.
LEMMA PageIs ==
    ASSUME NEW from \in 0 .. MaxResults, NEW upTo \in 0 .. MaxResults,
           NEW edges, edges = Page(from, upTo)
    PROVE  /\ edges \subseteq Results
           /\ \A r \in edges : from < r /\ r <= upTo /\ r \notin Erroneous
           /\ edges # {} =>
                 /\ Max(edges) \in edges
                 /\ \A r \in edges : r <= Max(edges)
                 /\ \A r \in Results : Wanted(r) /\ from < r /\ r <= Max(edges)
                                          => r \in edges
<1> DEFINE crons == CronResults(from, upTo)
           found == Found(from, upTo)
<1>1. /\ crons \subseteq Results /\ Limit \in Nat /\ Limit + 1 \in Nat
      /\ \A r \in Results : r \in Nat
  BY CronAssumption DEF CronResults, Results
<1>2. /\ found \subseteq crons
      /\ \A r \in found, q \in crons : q < r => q \in found
  BY <1>1, EarliestIs DEF Found
<1>3. /\ edges \subseteq Valid(found) /\ Valid(found) \subseteq Results
      /\ \A r \in edges, q \in Valid(found) : q < r => q \in edges
  BY <1>1, <1>2, EarliestIs DEF Page, Valid
<1>4. \A r \in edges : r \in Results /\ from < r /\ r <= upTo /\ r \notin Erroneous
  BY <1>2, <1>3 DEF Valid, CronResults
<1>5. ASSUME edges # {}
      PROVE  /\ Max(edges) \in edges
             /\ \A r \in edges : r <= Max(edges)
             /\ \A r \in Results : Wanted(r) /\ from < r /\ r <= Max(edges)
                                      => r \in edges
  <2>1. Max(edges) \in edges /\ \A r \in edges : r <= Max(edges)
    BY <1>4, <1>5, LastResult
  <2>2. ASSUME NEW r \in Results, Wanted(r), from < r, r < Max(edges)
        PROVE  r \in edges
    <3>1. r <= upTo
      BY <1>1, <1>4, <2>1, <2>2
    <3>2. r \in crons
      BY <2>2, <3>1 DEF CronResults, Wanted
    <3>3. r \in Valid(found)
      BY <1>2, <1>3, <2>1, <2>2, <3>2 DEF Valid, Wanted
    <3>4. QED
      BY <1>3, <2>1, <2>2, <3>3
  <2>3. \A r \in Results : r <= Max(edges) => r < Max(edges) \/ r = Max(edges)
    BY <1>1, <1>4, <2>1
  <2>4. QED
    BY <2>1, <2>2, <2>3
<1>6. QED
  BY <1>4, <1>5

\* The first cursor has no result after it, up to the last one there was, that
\* is not an error; unless there is none to be had.
LEMMA LatestCursorIs ==
    ASSUME NEW upTo \in 0 .. MaxResults
    PROVE  /\ LatestCursor(upTo) \in 0 .. MaxResults
           /\ LatestCursor(upTo) # 0 \/ upTo = 0 =>
                 \A r \in Results \ Erroneous : r <= upTo => r <= LatestCursor(upTo)
<1> DEFINE valid == {r \in {upTo - 1, upTo} \cap Results : r \notin Erroneous}
<1>1. MaxResults \in Nat /\ upTo \in Nat /\ \A r \in Results : r \in 1 .. MaxResults
  BY CronAssumption DEF Results
<1>2. LatestCursor(upTo) = IF upTo \in valid THEN upTo
                           ELSE IF valid = {} THEN 0 ELSE upTo - 1
  BY DEF LatestCursor
<1>3. CASE upTo \in valid
  BY <1>1, <1>2, <1>3
<1>4. CASE upTo \notin valid /\ valid = {}
  BY <1>1, <1>2, <1>4
<1>5. CASE upTo \notin valid /\ valid # {}
  <2>1. upTo - 1 \in valid /\ LatestCursor(upTo) = upTo - 1
    BY <1>2, <1>5
  <2>2. ASSUME NEW r \in Results \ Erroneous, r <= upTo PROVE r <= upTo - 1
    <3>1. r # upTo
      BY <1>5, <2>2
    <3>2. QED
      BY <1>1, <2>2, <3>1
  <2>3. QED
    BY <1>1, <2>1, <2>2
<1>6. QED
  BY <1>3, <1>4, <1>5

-----------------------------------------------------------------------------
(* Steps that leave the cursors of a process as they are.                  *)

\* The values that the variables hold, one by one.
LEMMA Types ==
    ASSUME TypeOK
    PROVE  /\ monitors \in Seq(MonitorType)
           /\ Monitors = 1 .. Len(monitors) /\ Len(monitors) \in Nat
           /\ \A m \in Monitors : monitors[m] \in MonitorType
           /\ \A p \in DOMAIN rows : p \in Processes /\ rows[p] \in 0 .. MaxResults
           /\ \A p \in Processes : /\ running[p] \in 0 .. Len(monitors)
                                  /\ made[p] \in 0 .. MaxResults
                                  /\ floor[p] \in 0 .. MaxResults
           /\ \A p \in Processes, r \in Results : cranked[p][r] \in 0 .. MaxCranks
           /\ MaxResults \in Nat /\ MaxCranks \in Nat \ {0}
<1>1. monitors \in Seq(MonitorType)
  BY DEF TypeOK, MonitorType
<1>2. /\ Monitors = 1 .. Len(monitors) /\ Len(monitors) \in Nat
      /\ \A m \in Monitors : monitors[m] \in MonitorType
  <2> HIDE DEF MonitorType
  <2>1. QED  BY <1>1 DEF Monitors
<1>3. \A p \in DOMAIN rows : p \in Processes /\ rows[p] \in 0 .. MaxResults
  BY DEF TypeOK
<1>4. \A p \in Processes : /\ running[p] \in 0 .. Len(monitors)
                          /\ made[p] \in 0 .. MaxResults
                          /\ floor[p] \in 0 .. MaxResults
  BY DEF TypeOK
<1>5. \A p \in Processes, r \in Results : cranked[p][r] \in 0 .. MaxCranks
  BY DEF TypeOK
<1>6. QED
  BY <1>1, <1>2, <1>3, <1>4, <1>5, CronAssumption

\* No monitor of a process comes to life.
LEMMA NoneRevived ==
    ASSUME NEW p \in Processes, OneAlive(p), twins \subseteq twins',
           AliveOf(p)' \subseteq AliveOf(p)
    PROVE  OneAlive(p)'
  BY DEF OneAlive

\* No job of a process is begun, none of its results is cranked, and its cursor
\* stays or is lost.
LEMMA Unmoved ==
    ASSUME NEW p \in Processes, TypeOK, CursorInv(p), OneAlive(p)',
           twins \subseteq twins', rewound \subseteq rewound',
           made[p] <= made'[p], made'[p] \in Nat, cranked'[p] = cranked[p],
           floor'[p] \in Nat,
           \/ ~ Saved(p)'
           \/ Saved(p) /\ Saved(p)' /\ rows'[p] = rows[p] /\ floor'[p] = floor[p],
           \A m \in Monitors' :
              monitors'[m].process = p /\ monitors'[m].job \in {"cursor", "fetch"} =>
                 /\ m \in Monitors
                 /\ monitors'[m].process = monitors[m].process
                 /\ monitors'[m].job = monitors[m].job
                 /\ monitors'[m].from = monitors[m].from
                 /\ monitors'[m].seen = monitors[m].seen
    PROVE  CursorInv(p)'
<1> USE Types
<1>1. FromCursor(p)'
  BY DEF CursorInv, FromCursor
<1>2. CrankedBefore(p)'
  <2> SUFFICES ASSUME p \notin twins' \cup rewound',
                      NEW r \in Results, cranked'[p][r] > 0
               PROVE  /\ r <= made'[p]
                      /\ r \notin Erroneous
                      /\ Saved(p)' => r <= rows'[p]
                      /\ \A m \in Monitors' : monitors'[m].process = p =>
                            /\ monitors'[m].job = "cursor" => r <= monitors'[m].seen
                            /\ monitors'[m].job = "fetch" => r <= monitors'[m].from
    BY DEF CrankedBefore
  <2>1. p \notin twins \cup rewound /\ cranked[p][r] > 0
    OBVIOUS
  <2>2. /\ r <= made[p] /\ r \notin Erroneous
        /\ Saved(p) => r <= rows[p]
        /\ \A m \in Monitors : monitors[m].process = p =>
              /\ monitors[m].job = "cursor" => r <= monitors[m].seen
              /\ monitors[m].job = "fetch" => r <= monitors[m].from
    BY <2>1 DEF CursorInv, CrankedBefore
  <2>3. r <= made'[p]
    BY <2>2 DEF Results
  <2>4. QED
    BY <2>2, <2>3
<1>3. CrankedOnceOf(p)'
  BY DEF CursorInv, CrankedOnceOf
<1>4. NothingSkippedOf(p)'
  <2>1. CASE Saved(p) /\ Saved(p)' /\ rows'[p] = rows[p] /\ floor'[p] = floor[p]
    BY <2>1 DEF CursorInv, NothingSkippedOf, Saved, Wanted
  <2>2. CASE ~ Saved(p)'
    BY <2>2 DEF NothingSkippedOf, Saved
  <2>3. QED
    BY <2>1, <2>2
<1>5. QED
  BY <1>1, <1>2, <1>3, <1>4 DEF CursorInv

\* Steps that move no monitor, cursor or count.
LEMMA Unchanged ==
    ASSUME TypeOK, \A p \in Processes : CursorInv(p),
           UNCHANGED <<rows, monitors, made, cranked, floor, twins, rewound>>
    PROVE  \A p \in Processes : CursorInv(p)'
<1> SUFFICES ASSUME NEW p \in Processes PROVE CursorInv(p)'
  OBVIOUS
<1>1. CursorInv(p)
  OBVIOUS
<1>2. QED
  BY <1>1 DEF CursorInv, OneAlive, AliveOf, Alive, FromCursor, CrankedBefore,
              CrankedOnceOf, NothingSkippedOf, Monitors, Saved

-----------------------------------------------------------------------------
(* Steps that start and stop monitors.                                     *)

\* At first there are no monitors and no rows.
LEMMA CronInit == Init => CronInv
<1> SUFFICES ASSUME Init PROVE CronInv
  OBVIOUS
<1>1. TypeOK
  <2>1. IsFiniteSet(DOMAIN rows) /\ DOMAIN rows = {}
    BY FS_EmptySet DEF Init
  <2>2. QED
    BY <2>1, CronAssumption DEF Init, TypeOK
<1>2. RowsMonitored
  BY DEF Init, RowsMonitored
<1>3. Monitors = {} /\ DOMAIN rows = {}
  BY DEF Init, Monitors
<1>4. \A p \in Processes, r \in Results : cranked[p][r] = 0
  BY DEF Init
<1>5. \A p \in Processes : CursorInv(p)
  BY <1>3, <1>4 DEF CursorInv, OneAlive, AliveOf, FromCursor, CrankedBefore,
                    CrankedOnceOf, NothingSkippedOf
<1>6. QED
  BY <1>1, <1>2, <1>5 DEF CronInv

LEMMA MonitorStep ==
    ASSUME CronInv, NEW p \in Processes, NEW c \in Callers \cup {"startup"}, Monitor(p, c),
           \/ c \in Callers /\ startup' = startup
           \/ c = "startup" /\ startup' = startup \ {p}
    PROVE  CronInv'
<1>1. /\ starting' = starting \cup {Starting(p, c)}
      /\ UNCHANGED <<rows, running, monitors, gauge, made, cranked, historyVars>>
  BY DEF Monitor
<1>2. /\ Starting(p, c) \in [process : Processes, caller : Callers \cup {"startup"}]
      /\ Starting(p, c).process = p /\ Starting(p, c).caller = c
  BY DEF Starting
<1>3. TypeOK'
  BY <1>1, <1>2 DEF CronInv, TypeOK, historyVars
<1>4. RowsMonitored'
  BY <1>1, <1>2 DEF CronInv, RowsMonitored, historyVars
<1>5. \A q \in Processes : CursorInv(q)'
  BY <1>1, Unchanged DEF CronInv, historyVars
<1>6. QED
  BY <1>3, <1>4, <1>5 DEF CronInv

LEMMA ResumeStep ==
    ASSUME CronInv, NEW p \in Processes, Resume(p)
    PROVE  CronInv'
<1>1. CASE Monitor(p, "startup")
  BY <1>1, MonitorStep DEF Resume
<1>2. CASE ~Monitor(p, "startup")
  <2>1. /\ startup' = startup \ {p} /\ running[p] # 0
        /\ UNCHANGED <<rows, running, monitors, starting, gauge, made, cranked, historyVars>>
    BY <1>2 DEF Resume
  <2>2. TypeOK'
    BY <2>1 DEF CronInv, TypeOK, historyVars
  <2>3. RowsMonitored'
    BY <2>1 DEF CronInv, RowsMonitored, historyVars
  <2>4. \A q \in Processes : CursorInv(q)'
    BY <2>1, Unchanged DEF CronInv, historyVars
  <2>5. QED
    BY <2>2, <2>3, <2>4 DEF CronInv
<1>3. QED
  BY <1>1, <1>2

LEMMA OwnerFailsStep ==
    ASSUME CronInv, NEW s \in starting, OwnerFails(s)
    PROVE  CronInv'
<1>1. /\ starting' = starting \ {s}
      /\ unstarted' = IF s.caller = "startup" /\ running[s.process] = 0
                      THEN unstarted \cup {s.process} ELSE unstarted
      /\ UNCHANGED <<rows, running, monitors, startup, gauge, made, cranked, floor, twins,
                     rewound, crashes>>
  BY DEF OwnerFails
<1>2. TypeOK'
  BY <1>1 DEF CronInv, TypeOK
<1>3. RowsMonitored'
  <2>1. ASSUME NEW p \in DOMAIN rows
        PROVE  \/ running[p] # 0 \/ p \in startup \/ p \in unstarted'
               \/ \E t \in starting' : t.caller = "startup" /\ t.process = p
    <3>1. \/ running[p] # 0 \/ p \in startup \/ p \in unstarted
          \/ \E t \in starting : t.caller = "startup" /\ t.process = p
      BY <2>1 DEF CronInv, RowsMonitored
    <3>2. QED
      BY <1>1, <3>1
  <2>2. QED
    BY <1>1, <2>1 DEF CronInv, TypeOK, RowsMonitored
<1>4. \A q \in Processes : CursorInv(q)'
  BY <1>1, Unchanged DEF CronInv
<1>5. QED
  BY <1>2, <1>3, <1>4 DEF CronInv

\* A monitor that is started after another one of its process makes twins, also
\* when the other was stopped but is still to use what it asked for.
LEMMA StartedStep ==
    ASSUME CronInv, NEW s \in starting, Started(s)
    PROVE  CronInv'
<1> DEFINE p == s.process
<1>1. /\ p \in Processes
      /\ starting' = starting \ {s}
      /\ monitors' = Append(monitors, Idle(p))
      /\ running' = [running EXCEPT ![p] = Len(monitors')]
      /\ rows' = [q \in DOMAIN rows \cup {p} |-> IF q \in DOMAIN rows THEN rows[q] ELSE 0]
      /\ gauge' = gauge + 1
      /\ twins' = IF AliveOf(p) # {} THEN twins \cup {p} ELSE twins
      /\ unstarted' = unstarted \ {p}
      /\ UNCHANGED <<startup, made, cranked, floor, rewound, crashes>>
  BY DEF Started, CronInv, TypeOK
<1>2. TypeOK
  BY DEF CronInv
<1>3. Idle(p) \in MonitorType
  BY <1>1, <1>2, Types DEF Idle, MonitorType
<1>4. /\ monitors' \in Seq(MonitorType)
      /\ Len(monitors') = Len(monitors) + 1
      /\ Monitors' = Monitors \cup {Len(monitors')} /\ Len(monitors') \notin Monitors
      /\ \A m \in Monitors : monitors'[m] = monitors[m]
      /\ monitors'[Len(monitors')] = Idle(p)
  <2> HIDE DEF MonitorType, p
  <2>1. QED  BY <1>1, <1>2, <1>3, Types DEF Monitors
<1>5. TypeOK'
  <2>1. running' \in [Processes -> 0 .. Len(monitors')]
    <3>1. \A q \in Processes : running[q] \in 0 .. Len(monitors')
      BY <1>2, <1>4, Types
    <3>2. QED
      BY <1>1, <1>2, <1>4, <3>1, Types DEF TypeOK
  <2>2. /\ DOMAIN rows' \subseteq Processes /\ IsFiniteSet(DOMAIN rows')
        /\ \A q \in DOMAIN rows' : rows'[q] \in 0 .. MaxResults
    <3>1. IsFiniteSet(DOMAIN rows \cup {p})
      BY <1>2, FS_AddElement DEF TypeOK
    <3>2. DOMAIN rows' = DOMAIN rows \cup {p}
      BY <1>1
    <3>3. QED
      BY <1>1, <1>2, <3>1, <3>2, Types
  <2>3. (twins \cup rewound \cup unstarted)' \subseteq Processes
    BY <1>1, <1>2 DEF TypeOK
  <2>4. monitors' \in Seq(MonitorType) /\ starting' \subseteq starting /\ gauge' \in Int
    BY <1>1, <1>2, <1>4 DEF TypeOK
  <2>5. QED
    BY <1>1, <1>2, <2>1, <2>2, <2>3, <2>4 DEF TypeOK, MonitorType
<1>6. RowsMonitored'
  <2>1. running'[p] # 0 /\ \A q \in Processes \ {p} : running'[q] = running[q]
    BY <1>1, <1>2, <1>4, Types DEF TypeOK
  <2>2. \A q \in Processes : running'[q] # 0 => q \in DOMAIN rows'
    BY <1>1, <2>1 DEF CronInv, RowsMonitored
  <2>3. ASSUME NEW q \in DOMAIN rows', q # p
        PROVE  \/ running'[q] # 0 \/ q \in startup' \/ q \in unstarted'
               \/ \E t \in starting' : t.caller = "startup" /\ t.process = q
    <3>1. q \in DOMAIN rows /\ q \in Processes
      BY <1>1, <1>2, <2>3, Types
    <3>2. \/ running[q] # 0 \/ q \in startup \/ q \in unstarted
          \/ \E t \in starting : t.caller = "startup" /\ t.process = q
      BY <3>1 DEF CronInv, RowsMonitored
    <3>3. QED
      BY <1>1, <2>1, <2>3, <3>1, <3>2
  <2>4. DOMAIN rows' \subseteq Processes
    BY <1>5 DEF TypeOK
  <2>5. QED
    BY <1>1, <2>1, <2>2, <2>3, <2>4 DEF RowsMonitored
<1>7. ASSUME NEW q \in Processes PROVE CursorInv(q)'
  <2>1. CursorInv(q) /\ twins \subseteq twins'
    BY <1>1 DEF CronInv
  <2>2. \A m \in Monitors : Alive(m)' = Alive(m)
    BY <1>4 DEF Alive
  <2>3. OneAlive(q)'
    <3>1. CASE q # p
      <4>1. AliveOf(q)' \subseteq AliveOf(q)
        BY <1>4, <2>2, <3>1 DEF AliveOf, Idle
      <4>2. QED
        BY <2>1, <4>1, NoneRevived DEF CursorInv
    <3>2. CASE q = p /\ q \notin twins'
      <4>1. AliveOf(q) = {}
        BY <1>1, <3>2
      <4>2. AliveOf(q)' \subseteq {Len(monitors')}
        BY <1>4, <2>2, <4>1 DEF AliveOf
      <4>3. QED
        BY <4>2 DEF OneAlive
    <3>3. QED
      BY <3>1, <3>2 DEF OneAlive
  <2>4. \/ ~ Saved(q)'
        \/ Saved(q) /\ Saved(q)' /\ rows'[q] = rows[q] /\ floor'[q] = floor[q]
    BY <1>1 DEF Saved
  <2>5. \A m \in Monitors' :
           monitors'[m].process = q /\ monitors'[m].job \in {"cursor", "fetch"} =>
              /\ m \in Monitors
              /\ monitors'[m].process = monitors[m].process
              /\ monitors'[m].job = monitors[m].job
              /\ monitors'[m].from = monitors[m].from
              /\ monitors'[m].seen = monitors[m].seen
    <3>1. monitors'[Len(monitors')].job = "none"
      BY <1>4 DEF Idle
    <3>2. QED
      BY <1>4, <3>1
  <2>6. /\ made[q] <= made'[q] /\ made'[q] \in Nat
        /\ cranked'[q] = cranked[q] /\ floor'[q] \in Nat /\ rewound \subseteq rewound'
    BY <1>1, <1>2, Types
  <2>7. QED
    BY <1>2, <2>1, <2>3, <2>4, <2>5, <2>6, Unmoved
<1>8. QED
  BY <1>5, <1>6, <1>7 DEF CronInv

\* A stop takes the row with it; what the monitor has asked for is still used.
LEMMA KillStep ==
    ASSUME CronInv, NEW p \in Processes, Kill(p)
    PROVE  CronInv'
<1>1. /\ running[p] # 0
      /\ monitors' = [monitors EXCEPT ![running[p]].ticking = FALSE]
      /\ running' = [running EXCEPT ![p] = 0]
      /\ rows' = [q \in DOMAIN rows \ {p} |-> rows[q]]
      /\ gauge' = gauge - 1
      /\ floor' = [floor EXCEPT ![p] = 0]
      /\ UNCHANGED <<starting, startup, made, cranked, twins, rewound, unstarted, crashes>>
  <2>1. DOMAIN rows \cap (DOMAIN rows \ {p}) = DOMAIN rows \ {p}
    OBVIOUS
  <2>2. QED
    BY <2>1 DEF Kill, Restrict
<1>2. TypeOK
  BY DEF CronInv
<1>3. /\ monitors' \in Seq(MonitorType) /\ Len(monitors') = Len(monitors)
      /\ Monitors' = Monitors
      /\ \A m \in Monitors : /\ monitors'[m].process = monitors[m].process
                             /\ monitors'[m].job = monitors[m].job
                             /\ monitors'[m].from = monitors[m].from
                             /\ monitors'[m].seen = monitors[m].seen
                             /\ monitors'[m].ticking => monitors[m].ticking
  <2>1. \A m \in Monitors : monitors[m] \in MonitorType
    BY <1>2, Types
  <2>2. \A m \in Monitors : [monitors[m] EXCEPT !.ticking = FALSE] \in MonitorType
    BY <2>1 DEF MonitorType
  <2>3. Monitors' = Monitors /\ Len(monitors') = Len(monitors)
    <3> HIDE DEF MonitorType
    <3>1. QED  BY <1>1, <1>2, Types DEF Monitors
  <2>4. \A m \in Monitors : monitors'[m] = monitors[m]
                            \/ monitors'[m] = [monitors[m] EXCEPT !.ticking = FALSE]
    BY <1>1 DEF Monitors
  <2>5. monitors' \in Seq(MonitorType)
    <3> HIDE DEF MonitorType
    <3>1. QED  BY <1>1, <1>2, <2>1, <2>2, Types DEF Monitors
  <2>6. QED
    BY <2>1, <2>3, <2>4, <2>5 DEF MonitorType
<1>4. TypeOK'
  <2>1. running' \in [Processes -> 0 .. Len(monitors')]
    BY <1>1, <1>2, <1>3, Types DEF TypeOK
  <2>2. /\ DOMAIN rows' \subseteq Processes /\ IsFiniteSet(DOMAIN rows')
        /\ \A q \in DOMAIN rows' : rows'[q] \in 0 .. MaxResults
    <3>1. IsFiniteSet(DOMAIN rows \ {p})
      BY <1>2, FS_Subset DEF TypeOK
    <3>2. DOMAIN rows' = DOMAIN rows \ {p}
      BY <1>1
    <3>3. QED
      BY <1>1, <1>2, <3>1, <3>2, Types
  <2>3. floor' \in [Processes -> 0 .. MaxResults]
    <3>1. 0 \in 0 .. MaxResults /\ floor \in [Processes -> 0 .. MaxResults]
      BY <1>2, CronAssumption DEF TypeOK
    <3>2. QED
      BY <1>1, <3>1
  <2>4. gauge' \in Int
    BY <1>1, <1>2 DEF TypeOK
  <2>5. QED
    BY <1>1, <1>2, <1>3, <2>1, <2>2, <2>3, <2>4 DEF TypeOK, MonitorType
<1>5. RowsMonitored'
  <2>1. running'[p] = 0 /\ \A q \in Processes \ {p} : running'[q] = running[q]
    BY <1>1, <1>2 DEF TypeOK
  <2>2. \A q \in Processes : running'[q] # 0 => q \in DOMAIN rows'
    BY <1>1, <2>1 DEF CronInv, RowsMonitored
  <2>3. ASSUME NEW q \in DOMAIN rows'
        PROVE  \/ running'[q] # 0 \/ q \in startup' \/ q \in unstarted'
               \/ \E t \in starting' : t.caller = "startup" /\ t.process = q
    <3>1. q \in DOMAIN rows /\ q \in Processes /\ q # p
      BY <1>1, <1>2, <2>3, Types
    <3>2. QED
      BY <1>1, <2>1, <3>1 DEF CronInv, RowsMonitored
  <2>4. QED
    BY <1>4, <2>2, <2>3 DEF RowsMonitored, TypeOK
<1>6. ASSUME NEW q \in Processes PROVE CursorInv(q)'
  <2>1. CursorInv(q)
    BY DEF CronInv
  <2>2. AliveOf(q)' \subseteq AliveOf(q)
    BY <1>3 DEF AliveOf, Alive
  <2>3. OneAlive(q)'
    BY <1>1, <2>1, <2>2, NoneRevived DEF CursorInv
  <2>4. \/ ~ Saved(q)'
        \/ Saved(q) /\ Saved(q)' /\ rows'[q] = rows[q] /\ floor'[q] = floor[q]
    BY <1>1, <1>2 DEF Saved, TypeOK
  <2>5. made[q] <= made'[q] /\ made'[q] \in Nat /\ cranked'[q] = cranked[q]
        /\ floor'[q] \in Nat /\ twins \subseteq twins' /\ rewound \subseteq rewound'
    BY <1>1, <1>2, <1>4, Types DEF TypeOK
  <2>6. QED
    BY <1>2, <1>3, <2>1, <2>3, <2>4, <2>5, Unmoved
<1>7. QED
  BY <1>4, <1>5, <1>6 DEF CronInv

\* A restart forgets the monitors, and some cursors, but no row.
LEMMA RestartStep ==
    ASSUME CronInv, Restart
    PROVE  CronInv'
<1>1. PICK stale \in SUBSET {p \in DOMAIN rows : rows[p] # 0} :
         /\ rows' = [p \in DOMAIN rows |-> IF p \in stale THEN 0 ELSE rows[p]]
         /\ floor' = [p \in Processes |-> IF p \in stale THEN 0 ELSE floor[p]]
  BY DEF Restart
<1>2. /\ crashes < MaxCrashes /\ crashes' = crashes + 1
      /\ startup' = DOMAIN rows
      /\ gauge' = Cardinality(DOMAIN rows)
      /\ running' = [p \in Processes |-> 0]
      /\ monitors' = <<>>
      /\ starting' = {}
      /\ unstarted' = {}
      /\ UNCHANGED <<made, cranked, twins, rewound>>
  BY DEF Restart
<1>3. TypeOK
  BY DEF CronInv
<1>4. IsFiniteSet(DOMAIN rows) /\ gauge' \in Nat
  BY <1>2, <1>3, FS_CardinalityType DEF TypeOK
<1>5. TypeOK'
  <2>1. \A p \in DOMAIN rows' : rows'[p] \in 0 .. MaxResults
    BY <1>1, <1>3, Types
  <2>2. floor' \in [Processes -> 0 .. MaxResults]
    BY <1>1, <1>3, Types
  <2>3. running' \in [Processes -> 0 .. Len(monitors')] /\ monitors' \in Seq(MonitorType)
    BY <1>2
  <2>4. crashes' \in 0 .. MaxCrashes
    BY <1>2, <1>3, CronAssumption DEF TypeOK
  <2>5. QED
    BY <1>1, <1>2, <1>3, <1>4, <2>1, <2>2, <2>3, <2>4 DEF TypeOK, MonitorType
<1>6. RowsMonitored'
  BY <1>1, <1>2 DEF RowsMonitored
<1>7. ASSUME NEW q \in Processes PROVE CursorInv(q)'
  <2>1. CursorInv(q)
    BY DEF CronInv
  <2>2. Monitors' = {}
    BY <1>2 DEF Monitors
  <2>3. OneAlive(q)'
    BY <2>2 DEF OneAlive, AliveOf
  <2>4. \/ ~ Saved(q)'
        \/ Saved(q) /\ Saved(q)' /\ rows'[q] = rows[q] /\ floor'[q] = floor[q]
    BY <1>1 DEF Saved
  <2>5. /\ made[q] <= made'[q] /\ made'[q] \in Nat /\ cranked'[q] = cranked[q]
        /\ floor'[q] \in Nat /\ twins \subseteq twins' /\ rewound \subseteq rewound'
    BY <1>1, <1>2, <1>3, Types
  <2>6. QED
    BY <1>3, <2>1, <2>2, <2>3, <2>4, <2>5, Unmoved
<1>8. QED
  BY <1>5, <1>6, <1>7 DEF CronInv

-----------------------------------------------------------------------------
(* Steps of a monitor.                                                     *)

\* A step that replaces one monitor by one of the same process, that leaves the
\* rows' processes as they are.
LEMMA OneMonitor ==
    ASSUME TypeOK, NEW m \in Monitors, NEW new \in MonitorType,
           monitors' = [monitors EXCEPT ![m] = new],
           new.process = monitors[m].process
    PROVE  /\ monitors' \in Seq(MonitorType) /\ Len(monitors') = Len(monitors)
           /\ Monitors' = Monitors
           /\ monitors'[m] = new
           /\ \A n \in Monitors \ {m} : monitors'[n] = monitors[n]
<1> HIDE DEF MonitorType
<1>1. QED
  BY Types DEF Monitors

\* It does nothing to the other processes.
LEMMA OtherProcesses ==
    ASSUME TypeOK, NEW m \in Monitors, NEW new \in MonitorType,
           monitors' = [monitors EXCEPT ![m] = new],
           new.process = monitors[m].process,
           NEW q \in Processes, q # new.process, CursorInv(q),
           made' = made, twins' = twins, rewound \subseteq rewound',
           cranked'[q] = cranked[q], floor'[q] = floor[q],
           q \in DOMAIN rows' <=> q \in DOMAIN rows,
           q \in DOMAIN rows => rows'[q] = rows[q]
    PROVE  CursorInv(q)'
<1>1. /\ Monitors' = Monitors
      /\ monitors'[m] = new
      /\ \A n \in Monitors \ {m} : monitors'[n] = monitors[n]
  BY OneMonitor
<1>2. \A n \in Monitors' : monitors'[n].process = q => monitors'[n] = monitors[n]
  BY <1>1
<1>3. AliveOf(q)' \subseteq AliveOf(q)
  BY <1>1, <1>2 DEF AliveOf, Alive
<1>4. OneAlive(q)'
  BY <1>3, NoneRevived DEF CursorInv
<1>5. \/ ~ Saved(q)'
      \/ Saved(q) /\ Saved(q)' /\ rows'[q] = rows[q] /\ floor'[q] = floor[q]
  BY DEF Saved
<1>6. made[q] <= made'[q] /\ made'[q] \in Nat /\ floor'[q] \in Nat
  BY Types
<1>7. QED
  BY <1>1, <1>2, <1>4, <1>5, <1>6, Unmoved

\* A tick goes on from the cursor of the row, or asks for one.
LEMMA TickStep ==
    ASSUME CronInv, NEW m \in Monitors, Tick(m)
    PROVE  CronInv'
<1>1. /\ TypeOK /\ monitors[m] \in MonitorType
      /\ \E p \in Processes : p = monitors[m].process
  BY Types DEF CronInv, MonitorType
<1> PICK p \in Processes : p = monitors[m].process
  BY <1>1
<1>2. PICK new : new = IF Saved(p)
                       THEN [monitors[m] EXCEPT !.job = "fetch", !.from = rows[p],
                                                !.seen = made[p]]
                       ELSE [monitors[m] EXCEPT !.job = "cursor", !.ticking = FALSE,
                                                !.seen = made[p]]
  OBVIOUS
<1>3. /\ monitors[m].ticking /\ monitors[m].job = "none"
      /\ monitors' = [monitors EXCEPT ![m] = new]
      /\ UNCHANGED <<rows, running, starting, startup, gauge, made, cranked, historyVars>>
  BY <1>2 DEF Tick, Monitors
<1>4. /\ new \in MonitorType /\ new.process = p
      /\ new.job = IF Saved(p) THEN "fetch" ELSE "cursor"
      /\ Saved(p) => new.from = rows[p]
      /\ ~ Saved(p) => new.seen = made[p]
  BY <1>2, <1>1, Types DEF MonitorType, Saved
<1>5. /\ monitors' \in Seq(MonitorType) /\ Len(monitors') = Len(monitors)
      /\ Monitors' = Monitors
      /\ monitors'[m] = new
      /\ \A n \in Monitors \ {m} : monitors'[n] = monitors[n]
  BY <1>3, <1>1, <1>4, OneMonitor
<1>6. TypeOK'
  BY <1>3, <1>1, <1>5 DEF TypeOK, MonitorType, historyVars
<1>7. RowsMonitored'
  BY <1>3 DEF CronInv, RowsMonitored, historyVars
<1>8. CursorInv(p)'
  <2>1. CursorInv(p)
    BY <1>1 DEF CronInv
  <2>2. AliveOf(p)' \subseteq AliveOf(p)
    BY <1>3, <1>5 DEF AliveOf, Alive
  <2>3. OneAlive(p)'
    BY <1>3, <1>1, <2>1, <2>2, NoneRevived DEF CursorInv, historyVars
  <2>4. p \notin twins =>
           \A n \in Monitors : n # m /\ monitors[n].process = p
                                 => monitors[n].job \notin {"cursor", "fetch"}
    BY <1>3, <1>1, <2>1 DEF CursorInv, OneAlive, AliveOf, Alive
  <2>5. FromCursor(p)'
    <3>1. Saved(p)' <=> Saved(p)
      BY <1>3 DEF Saved
    <3>2. SUFFICES ASSUME p \notin twins', NEW n \in Monitors', monitors'[n].process = p
                   PROVE  /\ monitors'[n].job = "cursor" => ~ Saved(p)'
                          /\ monitors'[n].job = "fetch" /\ Saved(p)'
                                => monitors'[n].from = rows'[p]
      BY <1>3 DEF FromCursor
    <3>3. CASE n = m
      BY <1>3, <1>4, <1>5, <3>1, <3>3
    <3>4. CASE n # m
      BY <1>3, <1>5, <2>4, <3>2, <3>4 DEF historyVars
    <3>5. QED
      BY <3>3, <3>4
  <2>6. CrankedBefore(p)'
    <3> SUFFICES ASSUME p \notin twins \cup rewound, NEW r \in Results, cranked[p][r] > 0
                 PROVE  /\ r <= made[p] /\ r \notin Erroneous
                        /\ Saved(p) => r <= rows[p]
                        /\ \A n \in Monitors : monitors'[n].process = p =>
                              /\ monitors'[n].job = "cursor" => r <= monitors'[n].seen
                              /\ monitors'[n].job = "fetch" => r <= monitors'[n].from
      BY <1>3, <1>5 DEF CrankedBefore, Saved, historyVars
    <3>1. r <= made[p] /\ r \notin Erroneous /\ (Saved(p) => r <= rows[p])
      BY <2>1 DEF CursorInv, CrankedBefore
    <3>2. /\ monitors'[m].job = "cursor" => r <= monitors'[m].seen
          /\ monitors'[m].job = "fetch" => r <= monitors'[m].from
      BY <1>4, <1>5, <3>1
    <3>3. \A n \in Monitors \ {m} : monitors'[n].process = p
                                      => monitors'[n].job \notin {"cursor", "fetch"}
      BY <1>5, <2>4
    <3>4. QED
      BY <3>1, <3>2, <3>3
  <2>7. CrankedOnceOf(p)' /\ NothingSkippedOf(p)'
    BY <1>3, <2>1 DEF CursorInv, CrankedOnceOf, NothingSkippedOf, historyVars
  <2>8. QED
    BY <2>3, <2>5, <2>6, <2>7 DEF CursorInv
<1>9. ASSUME NEW q \in Processes, q # p PROVE CursorInv(q)'
  BY <1>3, <1>1, <1>4, <1>9, OtherProcesses DEF CronInv, historyVars
<1>10. QED
  BY <1>6, <1>7, <1>8, <1>9 DEF CronInv

\* The first cursor is behind no result that was cranked.
LEMMA LocatedStep ==
    ASSUME CronInv, NEW m \in Monitors, Located(m)
    PROVE  CronInv'
<1>1. /\ TypeOK /\ monitors[m] \in MonitorType
      /\ \E p \in Processes : p = monitors[m].process
  BY Types DEF CronInv, MonitorType
<1> PICK p \in Processes : p = monitors[m].process
  BY <1>1
<1>2. PICK upTo \in monitors[m].seen .. made[p], ok \in {TRUE, ~ BadAnswers} :
         LET cursor == IF ok THEN LatestCursor(upTo) ELSE 0
         IN  /\ monitors' = [monitors EXCEPT ![m] =
                   [@ EXCEPT !.job = "fetch", !.ticking = TRUE, !.from = cursor,
                             !.seen = made[p]]]
             /\ rewound' = IF cursor = 0 /\ upTo > 0 THEN rewound \cup {p} ELSE rewound
  BY DEF Located
<1>3. PICK cursor : cursor = IF ok THEN LatestCursor(upTo) ELSE 0
  OBVIOUS
<1>4. /\ cursor \in {0, LatestCursor(upTo)}
      /\ monitors' = [monitors EXCEPT ![m] =
            [@ EXCEPT !.job = "fetch", !.ticking = TRUE, !.from = cursor, !.seen = made[p]]]
      /\ rewound' = IF cursor = 0 /\ upTo > 0 THEN rewound \cup {p} ELSE rewound
  BY <1>2, <1>3
<1>5. PICK new : new = [monitors[m] EXCEPT !.job = "fetch", !.ticking = TRUE,
                                           !.from = cursor, !.seen = made[p]]
  OBVIOUS
<1>6. /\ monitors[m].job = "cursor"
      /\ monitors' = [monitors EXCEPT ![m] = new]
      /\ UNCHANGED <<rows, running, starting, startup, gauge, made, cranked, floor, twins,
                     unstarted, crashes>>
  BY <1>4, <1>5 DEF Located, Monitors
<1>7. /\ monitors[m].seen \in Nat /\ upTo \in 0 .. MaxResults
      /\ cursor \in 0 .. MaxResults
      /\ cursor # 0 \/ upTo = 0 =>
            \A r \in Results \ Erroneous : r <= upTo => r <= cursor
  <2>1. monitors[m].seen \in Nat /\ upTo \in 0 .. MaxResults
    BY <1>1, <1>4, Types DEF MonitorType
  <2>2. /\ LatestCursor(upTo) \in 0 .. MaxResults
        /\ LatestCursor(upTo) # 0 \/ upTo = 0 =>
              \A r \in Results \ Erroneous : r <= upTo => r <= LatestCursor(upTo)
    BY <2>1, LatestCursorIs
  <2>3. 0 \in 0 .. MaxResults
    BY <1>1, Types
  <2>4. CASE upTo = 0
    BY <1>4, <2>1, <2>2, <2>3, <2>4 DEF Results
  <2>5. CASE upTo # 0
    BY <1>4, <2>1, <2>2, <2>3, <2>5
  <2>6. QED
    BY <2>4, <2>5
<1>8. /\ new \in MonitorType /\ new.process = p
      /\ new.job = "fetch" /\ new.from = cursor
  BY <1>1, <1>5, <1>7, Types DEF MonitorType
<1>9. /\ monitors' \in Seq(MonitorType) /\ Len(monitors') = Len(monitors)
      /\ Monitors' = Monitors
      /\ monitors'[m] = new
      /\ \A n \in Monitors \ {m} : monitors'[n] = monitors[n]
  BY <1>1, <1>6, <1>8, OneMonitor
<1>10. TypeOK' /\ rewound \subseteq rewound'
  BY <1>1, <1>4, <1>6, <1>9 DEF TypeOK, MonitorType
<1>11. RowsMonitored'
  BY <1>6 DEF CronInv, RowsMonitored
<1>12. CursorInv(p)'
  <2>1. CursorInv(p)
    BY DEF CronInv
  <2>2. AliveOf(p)' \subseteq AliveOf(p)
    BY <1>6, <1>9 DEF AliveOf, Alive
  <2>3. OneAlive(p)'
    BY <1>6, <2>1, <2>2, NoneRevived DEF CursorInv
  <2>4. p \notin twins =>
           \A n \in Monitors : n # m /\ monitors[n].process = p
                                 => monitors[n].job \notin {"cursor", "fetch"}
    BY <1>6, <2>1 DEF CursorInv, OneAlive, AliveOf, Alive
  <2>5. FromCursor(p)'
    <3>1. p \notin twins => ~ Saved(p)
      BY <1>6, <2>1 DEF CursorInv, FromCursor
    <3>2. p \notin twins => ~ Saved(p)'
      BY <1>6, <3>1 DEF Saved
    <3>3. QED
      BY <1>6, <3>2 DEF FromCursor
  <2>6. CrankedBefore(p)'
    <3> SUFFICES ASSUME p \notin twins \cup rewound', NEW r \in Results, cranked[p][r] > 0
                 PROVE  /\ r <= made[p] /\ r \notin Erroneous
                        /\ Saved(p) => r <= rows[p]
                        /\ \A n \in Monitors : monitors'[n].process = p =>
                              /\ monitors'[n].job = "cursor" => r <= monitors'[n].seen
                              /\ monitors'[n].job = "fetch" => r <= monitors'[n].from
      BY <1>6, <1>9 DEF CrankedBefore, Saved
    <3>1. /\ r <= made[p] /\ r \notin Erroneous /\ (Saved(p) => r <= rows[p])
          /\ r <= monitors[m].seen
      BY <1>6, <1>10, <2>1 DEF CursorInv, CrankedBefore
    <3>2. r <= cursor
      <4>1. cursor # 0 \/ ~ upTo > 0
        BY <1>4
      <4>2. r <= upTo
        BY <1>4, <1>7, <3>1 DEF Results
      <4>3. QED
        BY <1>7, <3>1, <4>1, <4>2
    <3>3. \A n \in Monitors \ {m} : monitors'[n].process = p
                                      => monitors'[n].job \notin {"cursor", "fetch"}
      BY <1>9, <2>4
    <3>4. QED
      BY <1>8, <1>9, <3>1, <3>2, <3>3
  <2>7. CrankedOnceOf(p)' /\ NothingSkippedOf(p)'
    BY <1>6, <1>10, <2>1 DEF CursorInv, CrankedOnceOf, NothingSkippedOf
  <2>8. QED
    BY <2>3, <2>5, <2>6, <2>7 DEF CursorInv
<1>13. ASSUME NEW q \in Processes, q # p PROVE CursorInv(q)'
  BY <1>1, <1>6, <1>8, <1>10, <1>13, OtherProcesses DEF CronInv
<1>14. QED
  BY <1>10, <1>11, <1>12, <1>13 DEF CronInv

\* A job that ends without results moves nothing.
LEMMA EndedStep ==
    ASSUME CronInv, NEW m \in Monitors, NEW job \in {"none", "stuck"},
           monitors' = Ended(m, job),
           UNCHANGED <<rows, running, starting, startup, gauge, made, cranked, historyVars>>
    PROVE  CronInv'
<1>1. TypeOK /\ monitors[m] \in MonitorType
  BY Types DEF CronInv
<1>2. PICK new : new = [monitors[m] EXCEPT !.job = job, !.from = 0, !.seen = 0]
  OBVIOUS
<1>3. /\ new \in MonitorType /\ new.process = monitors[m].process /\ new.job = job
      /\ new.ticking = monitors[m].ticking
  <2>1. 0 \in 0 .. MaxResults /\ job \in {"none", "cursor", "fetch", "stuck"}
    BY <1>1, Types
  <2>2. QED
    BY <1>1, <1>2, <2>1 DEF MonitorType
<1>4. monitors' = [monitors EXCEPT ![m] = new]
  BY <1>1, <1>2 DEF Ended, MonitorType, Monitors
<1>5. /\ monitors' \in Seq(MonitorType) /\ Len(monitors') = Len(monitors)
      /\ Monitors' = Monitors
      /\ monitors'[m] = new
      /\ \A n \in Monitors \ {m} : monitors'[n] = monitors[n]
  BY <1>1, <1>3, <1>4, OneMonitor
<1>6. TypeOK'
  BY <1>1, <1>5 DEF TypeOK, MonitorType, historyVars
<1>7. RowsMonitored'
  BY DEF CronInv, RowsMonitored, historyVars
<1>8. ASSUME NEW q \in Processes PROVE CursorInv(q)'
  <2>1. CursorInv(q)
    BY DEF CronInv
  <2>2. AliveOf(q)' \subseteq AliveOf(q)
    BY <1>3, <1>5 DEF AliveOf, Alive
  <2>3. OneAlive(q)'
    BY <2>1, <2>2, NoneRevived DEF CursorInv, historyVars
  <2>4. \A n \in Monitors' : monitors'[n].job \in {"cursor", "fetch"}
                                => monitors'[n] = monitors[n]
    BY <1>3, <1>5
  <2>5. made[q] <= made'[q] /\ made'[q] \in Nat /\ floor'[q] \in Nat
    BY <1>1, Types DEF historyVars
  <2>6. Saved(q)' <=> Saved(q)
    BY DEF Saved
  <2>7. QED
    BY <1>1, <1>5, <2>1, <2>3, <2>4, <2>5, <2>6, Unmoved DEF historyVars
<1>9. QED
  BY <1>6, <1>7, <1>8 DEF CronInv

\* Another message is evaluated.
LEMMA EvaluateStep ==
    ASSUME CronInv, NEW p \in Processes, Evaluate(p)
    PROVE  CronInv'
<1>1. /\ TypeOK /\ made[p] < MaxResults /\ made' = [made EXCEPT ![p] = @ + 1]
      /\ UNCHANGED <<rows, running, monitors, starting, startup, gauge, cranked, historyVars>>
  BY DEF CronInv, Evaluate
<1>2. made' \in [Processes -> 0 .. MaxResults] /\ \A q \in Processes : made[q] <= made'[q]
  BY <1>1, Types DEF TypeOK
<1>3. TypeOK'
  BY <1>1, <1>2 DEF TypeOK, historyVars
<1>4. RowsMonitored'
  BY <1>1 DEF CronInv, RowsMonitored, historyVars
<1>5. ASSUME NEW q \in Processes PROVE CursorInv(q)'
  <2>1. CursorInv(q)
    BY DEF CronInv
  <2>2. Monitors' = Monitors /\ AliveOf(q)' = AliveOf(q)
    BY <1>1 DEF AliveOf, Alive, Monitors
  <2>3. OneAlive(q)'
    BY <1>1, <2>1, <2>2, NoneRevived DEF CursorInv, historyVars
  <2>4. made[q] <= made'[q] /\ made'[q] \in Nat /\ floor'[q] \in Nat
    BY <1>1, <1>2, Types DEF historyVars
  <2>5. Saved(q)' <=> Saved(q)
    BY <1>1 DEF Saved
  <2>6. QED
    BY <1>1, <2>1, <2>2, <2>3, <2>4, <2>5, Unmoved DEF historyVars
<1>6. QED
  BY <1>3, <1>4, <1>5 DEF CronInv

\* A page begins after the cursor, which everything that was cranked is before,
\* and leaves nothing out before its last result, which the cursor becomes.
LEMMA FetchedStep ==
    ASSUME CronInv, NEW m \in Monitors, Fetched(m)
    PROVE  CronInv'
<1>1. /\ TypeOK /\ monitors[m] \in MonitorType
      /\ \E p \in Processes : p = monitors[m].process
  BY Types DEF CronInv, MonitorType
<1>2. PICK p \in Processes : p = monitors[m].process
  BY <1>1
<1>3. PICK from \in 0 .. MaxResults : from = monitors[m].from
  BY <1>1 DEF MonitorType
<1>4. PICK upTo \in monitors[m].seen .. made[p] :
         LET edges == Page(from, upTo)
         IN  /\ IF edges # {} /\ p \in DOMAIN rows
                THEN /\ rows' = [rows EXCEPT ![p] = Max(edges)]
                     /\ floor' = IF rows[p] = 0 THEN [floor EXCEPT ![p] = from] ELSE floor
                ELSE UNCHANGED <<rows, floor>>
             /\ cranked' = [cranked EXCEPT ![p] =
                   [r \in Results |-> IF r \in edges /\ @[r] < MaxCranks
                                      THEN @[r] + 1 ELSE @[r]]]
  BY <1>2, <1>3 DEF Fetched
<1>5. PICK edges : edges = Page(from, upTo)
  OBVIOUS
<1>6. PICK new : new = [monitors[m] EXCEPT !.job = "none", !.from = 0, !.seen = 0]
  OBVIOUS
<1>7. /\ monitors[m].job = "fetch"
      /\ monitors' = [monitors EXCEPT ![m] = new]
      /\ UNCHANGED <<running, starting, startup, gauge, made, twins, rewound, unstarted,
                     crashes>>
  BY <1>6 DEF Fetched, Ended, Monitors
<1>8. /\ IF edges # {} /\ p \in DOMAIN rows
         THEN /\ rows' = [rows EXCEPT ![p] = Max(edges)]
              /\ floor' = IF rows[p] = 0 THEN [floor EXCEPT ![p] = from] ELSE floor
         ELSE UNCHANGED <<rows, floor>>
      /\ cranked' = [cranked EXCEPT ![p] =
            [r \in Results |-> IF r \in edges /\ cranked[p][r] < MaxCranks
                               THEN cranked[p][r] + 1 ELSE cranked[p][r]]]
  BY <1>1, <1>4, <1>5 DEF TypeOK
<1>9. upTo \in 0 .. MaxResults /\ upTo <= made[p]
  <2>1. upTo \in monitors[m].seen .. made[p]
    BY <1>4
  <2>2. monitors[m].seen \in Nat /\ made[p] \in 0 .. MaxResults /\ MaxResults \in Nat
    BY <1>1, Types DEF MonitorType
  <2>3. QED
    BY <2>1, <2>2
<1>10. /\ edges \subseteq Results /\ edges \subseteq 1 .. MaxResults
       /\ \A r \in edges : from < r /\ r <= made[p] /\ r \notin Erroneous
       /\ edges # {} =>
             /\ Max(edges) \in edges
             /\ \A r \in edges : r <= Max(edges)
             /\ \A r \in Results : Wanted(r) /\ from < r /\ r <= Max(edges) => r \in edges
  <2>1. /\ edges \subseteq Results
        /\ \A r \in edges : from < r /\ r <= upTo /\ r \notin Erroneous
        /\ edges # {} =>
              /\ Max(edges) \in edges
              /\ \A r \in edges : r <= Max(edges)
              /\ \A r \in Results : Wanted(r) /\ from < r /\ r <= Max(edges) => r \in edges
    BY <1>5, <1>9, PageIs
  <2>2. \A r \in edges : r \in Int /\ r <= made[p]
    BY <1>1, <1>9, <2>1, Types DEF Results
  <2>3. QED
    BY <2>1, <2>2 DEF Results
<1>11. /\ new \in MonitorType /\ new.process = p /\ new.job = "none"
       /\ new.ticking = monitors[m].ticking
  <2>1. 0 \in 0 .. MaxResults
    BY <1>1, Types
  <2>2. QED
    BY <1>1, <1>2, <1>6, <2>1 DEF MonitorType
<1>12. /\ monitors' \in Seq(MonitorType) /\ Len(monitors') = Len(monitors)
       /\ Monitors' = Monitors
       /\ monitors'[m] = new
       /\ \A n \in Monitors \ {m} : monitors'[n] = monitors[n]
  BY <1>1, <1>2, <1>7, <1>11, OneMonitor
<1>13. /\ cranked' \in [Processes -> [Results -> 0 .. MaxCranks]]
       /\ \A r \in Results : /\ r \in edges => cranked'[p][r] > 0
                             /\ cranked[p][r] > 0 => cranked'[p][r] > 0
                             /\ r \notin edges => cranked'[p][r] = cranked[p][r]
                             /\ cranked[p][r] = 0 => cranked'[p][r] <= 1
  <2>1. PICK row : row = [r \in Results |-> IF r \in edges /\ cranked[p][r] < MaxCranks
                                            THEN cranked[p][r] + 1 ELSE cranked[p][r]]
    OBVIOUS
  <2>2. /\ row \in [Results -> 0 .. MaxCranks]
        /\ \A r \in Results : /\ r \in edges => row[r] > 0
                              /\ cranked[p][r] > 0 => row[r] > 0
                              /\ r \notin edges => row[r] = cranked[p][r]
                              /\ cranked[p][r] = 0 => row[r] <= 1
    BY <1>1, <2>1, Types
  <2>3. cranked' = [cranked EXCEPT ![p] = row] /\ cranked'[p] = row
    BY <1>1, <1>8, <2>1 DEF TypeOK
  <2>4. QED
    BY <1>1, <2>2, <2>3 DEF TypeOK
<1>14. /\ DOMAIN rows' = DOMAIN rows
       /\ \A q \in DOMAIN rows : rows'[q] \in 0 .. MaxResults
       /\ \A q \in DOMAIN rows \ {p} : rows'[q] = rows[q]
       /\ p \in DOMAIN rows => rows'[p] = IF edges = {} THEN rows[p] ELSE Max(edges)
  <2>1. edges # {} => Max(edges) \in 0 .. MaxResults
    BY <1>10
  <2>2. \A q \in DOMAIN rows : rows[q] \in 0 .. MaxResults
    BY <1>1, Types
  <2>3. QED
    BY <1>8, <2>1, <2>2
<1>15. /\ floor' \in [Processes -> 0 .. MaxResults]
       /\ \A q \in Processes \ {p} : floor'[q] = floor[q]
       /\ p \in DOMAIN rows /\ edges # {} => floor'[p] = IF rows[p] = 0 THEN from ELSE floor[p]
       /\ edges = {} => floor'[p] = floor[p]
  BY <1>1, <1>8 DEF TypeOK
<1>16. TypeOK'
  <2>1. \A q \in DOMAIN rows' : rows'[q] \in 0 .. MaxResults
    BY <1>14
  <2>2. QED
    BY <1>1, <1>7, <1>12, <1>13, <1>14, <1>15, <2>1 DEF TypeOK, MonitorType
<1>17. RowsMonitored'
  BY <1>7, <1>14 DEF CronInv, RowsMonitored
<1>18. CursorInv(p)'
  <2>1. CursorInv(p)
    BY DEF CronInv
  <2>2. AliveOf(p)' \subseteq AliveOf(p)
    BY <1>2, <1>7, <1>11, <1>12 DEF AliveOf, Alive
  <2>3. OneAlive(p)'
    BY <1>7, <2>1, <2>2, NoneRevived DEF CursorInv
  <2>4. p \notin twins =>
           \A n \in Monitors : monitors'[n].process = p
                                 => monitors'[n].job \notin {"cursor", "fetch"}
    <3>1. p \notin twins =>
             \A n \in Monitors : n # m /\ monitors[n].process = p
                                   => monitors[n].job \notin {"cursor", "fetch"}
      BY <1>2, <1>7, <2>1 DEF CursorInv, OneAlive, AliveOf, Alive
    <3>2. QED
      BY <1>11, <1>12, <3>1
  <2>5. FromCursor(p)'
    BY <1>7, <1>12, <2>4 DEF FromCursor
  <2>6. p \notin twins \cup rewound => \A r \in Results : cranked[p][r] > 0 =>
           r <= made[p] /\ r \notin Erroneous /\ (Saved(p) => r <= rows[p]) /\ r <= from
    BY <1>2, <1>3, <1>7, <2>1 DEF CursorInv, CrankedBefore
  <2>7. CrankedBefore(p)'
    <3> SUFFICES ASSUME p \notin twins \cup rewound, NEW r \in Results, cranked'[p][r] > 0
                 PROVE  r <= made[p] /\ r \notin Erroneous /\ (Saved(p)' => r <= rows'[p])
      BY <1>7, <1>12, <2>4 DEF CrankedBefore
    <3>1. CASE r \in edges
      BY <1>10, <1>14, <3>1 DEF Saved
    <3>2. CASE r \notin edges
      <4>1. r <= made[p] /\ r \notin Erroneous /\ (Saved(p) => r <= rows[p]) /\ r <= from
        BY <1>13, <2>6, <3>2
      <4>2. ASSUME p \in DOMAIN rows, edges # {} PROVE r <= rows'[p]
        <5>1. rows'[p] = Max(edges) /\ from < Max(edges) /\ Max(edges) \in 1 .. MaxResults
          BY <1>10, <1>14, <4>2
        <5>2. r \in Int /\ from \in Int /\ MaxResults \in Nat
          BY <1>1, Types DEF Results
        <5>3. QED
          BY <4>1, <5>1, <5>2
      <4>3. QED
        BY <1>14, <4>1, <4>2 DEF Saved
    <3>3. QED
      BY <3>1, <3>2
  <2>8. CrankedOnceOf(p)'
    <3> SUFFICES ASSUME p \notin twins \cup rewound, NEW r \in Results
                 PROVE  cranked'[p][r] <= 1
      BY <1>7 DEF CrankedOnceOf
    <3>1. CASE r \in edges
      <4>1. ~ (r <= from)
        BY <1>10, <3>1
      <4>2. cranked[p][r] = 0
        BY <1>1, <2>6, <4>1, Types
      <4>3. QED
        BY <1>13, <4>2
    <3>2. CASE r \notin edges
      BY <1>13, <2>1, <3>2 DEF CursorInv, CrankedOnceOf
    <3>3. QED
      BY <3>1, <3>2
  <2>9. NothingSkippedOf(p)'
    <3> SUFFICES ASSUME p \in DOMAIN rows, p \notin twins,
                        NEW r \in floor'[p] + 1 .. rows'[p], Wanted(r)
                 PROVE  cranked'[p][r] > 0
      BY <1>7, <1>14 DEF NothingSkippedOf
    <3>1. /\ r \in Int /\ floor'[p] < r /\ r <= rows'[p]
          /\ floor'[p] \in Nat /\ rows[p] \in Nat /\ floor[p] \in Nat
          /\ rows'[p] \in 0 .. MaxResults /\ MaxResults \in Nat
      BY <1>1, <1>14, <1>15, Types
    <3>2. r \in Results
      BY <3>1 DEF Results
    <3>3. ASSUME floor[p] < r, r <= rows[p] PROVE cranked[p][r] > 0
      BY <2>1, <3>1, <3>3 DEF CursorInv, NothingSkippedOf
    <3>4. CASE edges = {}
      BY <1>13, <1>14, <1>15, <3>1, <3>2, <3>3, <3>4
    <3>5. CASE edges # {} /\ from < r
      BY <1>10, <1>13, <1>14, <3>1, <3>2, <3>5
    <3>6. CASE edges # {} /\ r <= from
      <4>1. rows[p] # 0
        BY <1>15, <3>1, <3>6
      <4>2. from = rows[p] /\ floor'[p] = floor[p]
        BY <1>2, <1>3, <1>7, <1>15, <2>1, <3>6, <4>1 DEF CursorInv, FromCursor, Saved
      <4>3. QED
        BY <1>13, <3>1, <3>2, <3>3, <3>6, <4>2
    <3>7. QED
      BY <3>1, <3>4, <3>5, <3>6
  <2>10. QED
    BY <2>3, <2>5, <2>7, <2>8, <2>9 DEF CursorInv
<1>19. ASSUME NEW q \in Processes, q # p PROVE CursorInv(q)'
  <2>1. cranked'[q] = cranked[q] /\ floor'[q] = floor[q]
    BY <1>1, <1>8, <1>15, <1>19 DEF TypeOK
  <2>2. /\ q \in DOMAIN rows' <=> q \in DOMAIN rows
        /\ q \in DOMAIN rows => rows'[q] = rows[q]
    BY <1>14, <1>19
  <2>3. CursorInv(q)
    BY DEF CronInv
  <2>4. QED
    BY <1>1, <1>2, <1>7, <1>11, <1>19, <2>1, <2>2, <2>3, OtherProcesses
<1>20. QED
  BY <1>16, <1>17, <1>18, <1>19 DEF CronInv

-----------------------------------------------------------------------------
(* The theorems.                                                           *)

\* Every step keeps the invariant.
LEMMA CronNext == CronInv /\ [Next]_vars => CronInv'
<1> SUFFICES ASSUME CronInv, [Next]_vars PROVE CronInv'
  OBVIOUS
<1>1. ASSUME NEW p \in Processes, NEW c \in Callers, MonitorRequested(p, c) PROVE CronInv'
  BY <1>1, MonitorStep DEF MonitorRequested
<1>2. ASSUME NEW p \in Processes, Resume(p) \/ Kill(p) \/ Evaluate(p) PROVE CronInv'
  BY <1>2, ResumeStep, KillStep, EvaluateStep
<1>3. ASSUME NEW s \in starting, Started(s) \/ OwnerFails(s) PROVE CronInv'
  BY <1>3, StartedStep, OwnerFailsStep
<1>4. ASSUME NEW m \in Monitors, Job(m) PROVE CronInv'
  <2>1. CASE Tick(m) \/ Located(m) \/ Fetched(m)
    BY <1>4, <2>1, TickStep, LocatedStep, FetchedStep
  <2>2. CASE LocateFails(m) \/ FetchFails(m)
    BY <1>4, <2>2, EndedStep DEF LocateFails, FetchFails
  <2>3. QED
    BY <1>4, <2>1, <2>2 DEF Job
<1>5. CASE Restart
  BY <1>5, RestartStep
<1>6. CASE UNCHANGED vars
  <2>1. TypeOK' /\ RowsMonitored'
    BY <1>6 DEF CronInv, TypeOK, RowsMonitored, vars, historyVars
  <2>2. \A p \in Processes : CursorInv(p)'
    BY <1>6, Unchanged DEF CronInv, vars, historyVars
  <2>3. QED
    BY <2>1, <2>2 DEF CronInv
<1>7. QED
  BY <1>1, <1>2, <1>3, <1>4, <1>5, <1>6 DEF Next

\* The invariant holds of every behaviour.
LEMMA CronInvariant == Spec => []CronInv
<1>1. QED
  BY CronInit, CronNext, PTL DEF Spec

\* Every variable holds values of its kind, and a running monitor is one of those
\* that were made.
THEOREM TypeCorrect == Spec => []TypeOK
<1>1. CronInv => TypeOK
  BY DEF CronInv
<1>2. QED
  BY <1>1, CronInvariant, PTL

\* initCronProcs, startMonitoredProcess and killMonitoredProcess keep the table
\* and the monitors in step: every monitor has its row, and every row has, or is
\* about to have, a monitor, but for those that failed to start.
THEOREM AlwaysRowsMonitored == Spec => []RowsMonitored
<1>1. CronInv => RowsMonitored
  BY DEF CronInv
<1>2. QED
  BY <1>1, CronInvariant, PTL

\* checkCron and publishCron crank no result twice, whatever calls fail and
\* whenever the MU restarts, unless a process got two monitors or a monitor found
\* no cursor among results that there were.
THEOREM AlwaysCrankedOnce == Spec => []CrankedOnce
<1>1. CronInv => CrankedOnce
  BY DEF CronInv, CursorInv, CrankedOnceOf, CrankedOnce
<1>2. QED
  BY <1>1, CronInvariant, PTL

\* setCursor moves a row's cursor past no cron result that was not cranked, also
\* when its page was cut short by errors.
THEOREM NeverSkipped == Spec => []NothingSkipped
<1>1. CronInv => NothingSkipped
  <2> SUFFICES ASSUME CronInv, NEW p \in DOMAIN rows \ twins PROVE NothingSkippedOf(p)
    BY DEF NothingSkipped, NothingSkippedOf
  <2>1. p \in Processes
    BY DEF CronInv, TypeOK
  <2>2. QED
    BY <2>1 DEF CronInv, CursorInv
<1>2. QED
  BY <1>1, CronInvariant, PTL
=============================================================================
