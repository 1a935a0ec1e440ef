------------------------------- MODULE MuCron -------------------------------
(***************************************************************************)
(* The cron monitors of the Messenger Unit: every ten seconds a monitor    *)
(* asks the Compute Unit for the results of a process after its cursor and *)
(* cranks them; the cursors outlive a restart in a table.                  *)
(*   src/servers/mu/src/domain/clients/{cron,cu}.js                        *)
(*   src/servers/mu/src/domain/api/{monitorProcess,stopMonitorProcess}.js  *)
(* A cursor is the place of a result among the results of its process.     *)
(***************************************************************************)
EXTENDS Integers, Sequences, FiniteSets, FiniteSetsExt, Functions

CONSTANTS
    Processes,
    MaxResults,    \* bound on the results of a process
    Scheduled,     \* the results of scheduled messages, no cron results
    Erroneous,     \* the results that are errors
    Limit,         \* the size of a page
    Callers,       \* requests to monitor that may be under way at a time
    Stoppable,     \* whether monitors are stopped
    BadAnswers,    \* whether a CU may answer with something else than results
    CallsFail,     \* whether calls may fail altogether
    MaxCranks,     \* where the count of cranks of a result ends
    MaxMonitors,   \* bound on the monitors between two restarts
    MaxCrashes     \* bound on the restarts

Results == 1 .. MaxResults

ASSUME CronAssumption ==
    /\ MaxResults \in Nat
    /\ Scheduled \subseteq Results
    /\ Erroneous \subseteq Results
    /\ Limit \in Nat \ {0}
    /\ "startup" \notin Callers
    /\ {Stoppable, BadAnswers, CallsFail} \subseteq BOOLEAN
    /\ MaxCranks \in Nat \ {0, 1}
    /\ MaxMonitors \in Nat
    /\ MaxCrashes \in Nat

VARIABLES
    rows,      \* the table of monitored processes: their cursors, 0 for null
    running,   \* cronsRunning: the monitor of a process, 0 for none
    monitors,  \* every monitor that was made since the start
    starting,  \* starts that wait for the owner of the process
    startup,   \* rows that initCronProcs has yet to start
    gauge,     \* running_cron_monitor
    made,      \* how many results the CU has evaluated
    cranked,   \* how often the results of a process were cranked, up to MaxCranks
    floor,     \* history: the cursor a row's first results came after
    twins,     \* processes that had two monitors at once,
    rewound,   \* those with results that a monitor took from the beginning,
    unstarted, \* those with a row that failed to start
    crashes    \* how often the MU was restarted

historyVars == <<floor, twins, rewound, unstarted, crashes>>
vars == <<rows, running, monitors, starting, startup, gauge, made, cranked,
          historyVars>>

Monitors == DOMAIN monitors

Idle(p) ==
    [process |-> p, ticking |-> TRUE, job |-> "none", from |-> 0, seen |-> 0]

\* The job of a monitor ends, well or not.
Ended(m, job) == [monitors EXCEPT ![m].job = job, ![m].from = 0, ![m].seen = 0]

\* A monitor that will tick, or is about to use what it asked for.
Alive(m) == monitors[m].ticking \/ monitors[m].job \in {"cursor", "fetch"}

AliveOf(p) == {m \in Monitors : monitors[m].process = p /\ Alive(m)}

-----------------------------------------------------------------------------
(* What the CU answers.                                                    *)

\* The first n of some results, in their order.
Earliest(n, results) ==
    {r \in results : Cardinality({q \in results : q < r}) < n}

CronResults(from, upTo) == {r \in Results \ Scheduled : from < r /\ r <= upTo}

\* What findEvaluations reads for a page, to know whether there is another one.
Found(from, upTo) == Earliest(Limit + 1, CronResults(from, upTo))

\* gatherResults leaves out what evaluates to an error.
Valid(results) == results \ Erroneous

\* Faulty: the page is cut before the errors are left out.
PageCutFirst(from, upTo) == Valid(Earliest(Limit, Found(from, upTo)))

\* Faulty: the cursor itself is in the range.
PageInclusive(from, upTo) == Earliest(Limit, Valid(Found(from - 1, upTo)))

\* Faulty: in the order of the first cursor, which is descending.
PageDescending(from, upTo) ==
    LET valid == Valid(CronResults(from, upTo))
    IN  {r \in valid : Cardinality({q \in valid : q > r}) < Limit}

\* The cron results after a cursor: one more than a page is searched, errors
\* are left out, and then the page is cut.
Page(from, upTo) == Earliest(Limit, Valid(Found(from, upTo)))

\* Faulty: the place after the latest result.
LatestCursorAfter(upTo) == upTo + 1

\* getCursor without a row's cursor: the latest of the last two results.
LatestCursor(upTo) ==
    LET valid == {r \in {upTo - 1, upTo} \cap Results : r \notin Erroneous}
    IN  IF upTo \in valid THEN upTo ELSE IF valid = {} THEN 0 ELSE upTo - 1

Init ==
    /\ rows = <<>>
    /\ running = [p \in Processes |-> 0]
    /\ monitors = <<>>
    /\ starting = {}
    /\ startup = {}
    /\ gauge = 0
    /\ made = [p \in Processes |-> 0]
    /\ cranked = [p \in Processes |-> [r \in Results |-> 0]]
    /\ floor = [p \in Processes |-> 0]
    /\ twins = {}
    /\ rewound = {}
    /\ unstarted = {}
    /\ crashes = 0

-----------------------------------------------------------------------------
(* Monitors are started and stopped.                                       *)

Starting(p, c) == [process |-> p, caller |-> c]

\* startMonitoredProcess up to the await of the process' owner.
Monitor(p, c) ==
    /\ running[p] = 0
    /\ c \notin {s.caller : s \in starting}
    /\ Len(monitors) + Cardinality(starting) < MaxMonitors
    /\ starting' = starting \cup {Starting(p, c)}
    /\ UNCHANGED <<rows, running, monitors, gauge, made, cranked, historyVars>>

MonitorRequested(p, c) == c \in Callers /\ Monitor(p, c) /\ UNCHANGED startup

\* initCronProcs starts the rows one by one, and passes over an error.
Resume(p) ==
    /\ p \in startup
    /\ startup' = startup \ {p}
    /\ \/ Monitor(p, "startup")
       \/ /\ running[p] # 0
          /\ "startup" \notin {s.caller : s \in starting}
          /\ UNCHANGED <<rows, running, monitors, starting, gauge, made,
                         cranked, historyVars>>

\* The owner is known: the monitor is scheduled, registered and saved. It is
\* not checked again whether the process has got one in the meantime.
Started(s) ==
    LET p == s.process
    IN  /\ s \in starting
        /\ starting' = starting \ {s}
        /\ monitors' = Append(monitors, Idle(p))
        /\ running' = [running EXCEPT ![p] = Len(monitors')]
        /\ rows' = [q \in DOMAIN rows \cup {p} |->
                       IF q \in DOMAIN rows THEN rows[q] ELSE 0]
        /\ gauge' = gauge + 1
        /\ twins' = IF AliveOf(p) # {} THEN twins \cup {p} ELSE twins
        /\ unstarted' = unstarted \ {p}
        /\ UNCHANGED <<startup, made, cranked, floor, rewound, crashes>>

OwnerFails(s) ==
    /\ CallsFail
    /\ s \in starting
    /\ starting' = starting \ {s}
    /\ unstarted' = IF s.caller = "startup" /\ running[s.process] = 0
                    THEN unstarted \cup {s.process} ELSE unstarted
    /\ UNCHANGED <<rows, running, monitors, startup, gauge, made, cranked,
                   floor, twins, rewound, crashes>>

\* Faulty: the row stays.
KillKeepingRow(p) ==
    /\ Stoppable
    /\ running[p] # 0
    /\ monitors' = [monitors EXCEPT ![running[p]].ticking = FALSE]
    /\ running' = [running EXCEPT ![p] = 0]
    /\ gauge' = gauge - 1
    /\ UNCHANGED <<rows, starting, startup, made, cranked, historyVars>>

\* killMonitoredProcess, whatever its monitor is waiting for.
Kill(p) ==
    /\ Stoppable
    /\ running[p] # 0
    /\ monitors' = [monitors EXCEPT ![running[p]].ticking = FALSE]
    /\ running' = [running EXCEPT ![p] = 0]
    /\ rows' = Restrict(rows, DOMAIN rows \ {p})
    /\ gauge' = gauge - 1
    /\ floor' = [floor EXCEPT ![p] = 0]
    /\ UNCHANGED <<starting, startup, made, cranked, twins, rewound,
                   unstarted, crashes>>

-----------------------------------------------------------------------------
(* A monitor ticks.                                                        *)

Saved(p) == p \in DOMAIN rows /\ rows[p] # 0

\* A tick that finds a cursor goes on to fetch within one turn of the loop; one
\* that finds none asks the CU first, and is not scheduled until it knows.
Tick(m) ==
    LET p == monitors[m].process
    IN  /\ monitors[m].ticking
        /\ monitors[m].job = "none"
        /\ monitors' = [monitors EXCEPT ![m] =
               IF Saved(p)
               THEN [@ EXCEPT !.job = "fetch", !.from = rows[p], !.seen = made[p]]
               ELSE [@ EXCEPT !.job = "cursor", !.ticking = FALSE, !.seen = made[p]]]
        /\ UNCHANGED <<rows, running, starting, startup, gauge, made, cranked,
                       historyVars>>

\* The first cursor is known, and the monitor is scheduled again, also when it
\* was stopped. An answer that has no results counts as no cursor.
Located(m) ==
    LET p == monitors[m].process
    IN  /\ monitors[m].job = "cursor"
        /\ \E upTo \in monitors[m].seen .. made[p], ok \in {TRUE, ~ BadAnswers} :
             LET cursor == IF ok THEN LatestCursor(upTo) ELSE 0
             IN  /\ monitors' = [monitors EXCEPT ![m] =
                        [@ EXCEPT !.job = "fetch", !.ticking = TRUE,
                                  !.from = cursor, !.seen = made[p]]]
                 /\ rewound' = IF cursor = 0 /\ upTo > 0 THEN rewound \cup {p}
                               ELSE rewound
        /\ UNCHANGED <<rows, running, starting, startup, gauge, made, cranked,
                       floor, twins, unstarted, crashes>>

\* The call is rejected: nothing resets isJobRunning, nor resumes the monitor.
LocateFails(m) ==
    /\ CallsFail
    /\ monitors[m].job = "cursor"
    /\ monitors' = Ended(m, "stuck")
    /\ UNCHANGED <<rows, running, starting, startup, gauge, made, cranked,
                   historyVars>>

\* fetchCron is answered: setCursor, and then publishCron hands every
\* edge to the pool of workers, whose failures are only logged.
Fetched(m) ==
    LET p == monitors[m].process
    IN  /\ monitors[m].job = "fetch"
        /\ monitors' = Ended(m, "none")
        /\ \E upTo \in monitors[m].seen .. made[p] :
             LET edges == Page(monitors[m].from, upTo)
             IN  /\ IF edges # {} /\ p \in DOMAIN rows
                    THEN /\ rows' = [rows EXCEPT ![p] = Max(edges)]
                         /\ floor' = IF rows[p] = 0
                                     THEN [floor EXCEPT ![p] = monitors[m].from]
                                     ELSE floor
                    ELSE UNCHANGED <<rows, floor>>
                 /\ cranked' = [cranked EXCEPT ![p] =
                        [r \in Results |-> IF r \in edges /\ @[r] < MaxCranks
                                           THEN @[r] + 1 ELSE @[r]]]
        /\ UNCHANGED <<running, starting, startup, gauge, made, twins, rewound,
                       unstarted, crashes>>

FetchFails(m) ==
    /\ CallsFail
    /\ monitors[m].job = "fetch"
    /\ monitors' = Ended(m, "none")
    /\ UNCHANGED <<rows, running, starting, startup, gauge, made, cranked,
                   historyVars>>

\* Reads of any client make the CU evaluate another message.
Evaluate(p) ==
    /\ made[p] < MaxResults
    /\ made' = [made EXCEPT ![p] = @ + 1]
    /\ UNCHANGED <<rows, running, monitors, starting, startup, gauge, cranked,
                   historyVars>>

\* The MU stops and starts again; initCronProcs clears the cursors that are old.
Restart ==
    /\ crashes < MaxCrashes
    /\ crashes' = crashes + 1
    /\ \E stale \in SUBSET {p \in DOMAIN rows : rows[p] # 0} :
         /\ rows' = [p \in DOMAIN rows |-> IF p \in stale THEN 0 ELSE rows[p]]
         /\ floor' = [p \in Processes |-> IF p \in stale THEN 0 ELSE floor[p]]
    /\ startup' = DOMAIN rows
    /\ gauge' = Cardinality(DOMAIN rows)
    /\ running' = [p \in Processes |-> 0]
    /\ monitors' = <<>>
    /\ starting' = {}
    /\ unstarted' = {}
    /\ UNCHANGED <<made, cranked, twins, rewound>>

-----------------------------------------------------------------------------
\* What the MU does of itself.
Job(m) == Tick(m) \/ Located(m) \/ LocateFails(m) \/ Fetched(m) \/ FetchFails(m)

Next ==
    \/ \E p \in Processes : \/ \E c \in Callers : MonitorRequested(p, c)
                            \/ Resume(p)
                            \/ Kill(p)
                            \/ Evaluate(p)
    \/ \E s \in starting : Started(s) \/ OwnerFails(s)
    \/ \E m \in Monitors : Job(m)
    \/ Restart

Spec == Init /\ [][Next]_vars

\* Timers fire, and of the calls that are made again and again one succeeds.
Fairness ==
    /\ \A m \in 1 .. MaxMonitors :
         /\ WF_vars(m \in Monitors /\ (Tick(m) \/ Located(m)))
         /\ SF_vars(m \in Monitors /\ Fetched(m))

FairSpec == Spec /\ Fairness

-----------------------------------------------------------------------------
(* Properties.                                                             *)

Wanted(r) == r \notin Scheduled \cup Erroneous

\* Every variable holds values of its kind.
TypeOK ==
    /\ DOMAIN rows \subseteq Processes /\ IsFiniteSet(DOMAIN rows)
    /\ \A p \in DOMAIN rows : rows[p] \in 0 .. MaxResults
    /\ running \in [Processes -> 0 .. Len(monitors)]
    /\ monitors \in Seq([process : Processes, ticking : BOOLEAN,
                         job : {"none", "cursor", "fetch", "stuck"},
                         from : 0 .. MaxResults, seen : 0 .. MaxResults])
    /\ starting \subseteq [process : Processes, caller : Callers \cup {"startup"}]
    /\ startup \subseteq Processes
    /\ gauge \in Int
    /\ made \in [Processes -> 0 .. MaxResults]
    /\ cranked \in [Processes -> [Results -> 0 .. MaxCranks]]
    /\ floor \in [Processes -> 0 .. MaxResults]
    /\ twins \cup rewound \cup unstarted \subseteq Processes
    /\ crashes \in 0 .. MaxCrashes

\* Every monitored process is in the table, and every row is monitored, or will
\* be: a stop, a restart and a start that overtakes another leave no monitor that
\* a restart would forget, and no row behind, unless its start failed at startup.
RowsMonitored ==
    LET monitored == {p \in Processes : running[p] # 0}
        resumed == {s.process : s \in {t \in starting : t.caller = "startup"}}
    IN  /\ monitored \subseteq DOMAIN rows
        /\ DOMAIN rows \subseteq monitored \cup startup \cup resumed \cup unstarted

\* No cron result is pushed twice, whatever calls fail and whenever the MU
\* restarts: only two monitors of a process, or one that found no cursor and
\* began with the first result, push a result again.
CrankedOnce ==
    \A p \in Processes \ (twins \cup rewound) : \A r \in Results :
        cranked[p][r] <= 1

\* The cursor of a row passes over no cron result: those between the first
\* cursor and the present one were handed on, also when pages are short of
\* errors and when the monitor went on after a restart.
NothingSkipped ==
    \A p \in DOMAIN rows \ twins : \A r \in floor[p] + 1 .. rows[p] :
        Wanted(r) => cranked[p][r] > 0

\* A monitor that has a cursor reaches every cron result, although the calls to
\* the CU fail now and then, unless it hangs from an earlier failure.
CatchesUp ==
    \A p \in Processes : \A n \in {r \in Results : Wanted(r)} :
        (Saved(p) /\ running[p] # 0 /\ made[p] >= n)
            ~> \/ ~ Saved(p)
               \/ rows[p] >= n
               \/ running[p] = 0
               \/ monitors[running[p]].job = "stuck"

\* "stop monitoring it" (cron.js:299): what ticks can be stopped.
OnlyKnownTick ==
    \A m \in Monitors : monitors[m].ticking => running[monitors[m].process] = m

\* "The number of cron monitors running" (index.js:102).
GaugeCounts == gauge = Cardinality({m \in Monitors : Alive(m)})
=============================================================================
