------------------------------- MODULE Routing -------------------------------
(***************************************************************************)
(* How a process is given one Scheduler Unit, and how what is written to   *)
(* it and read of it finds that one.                                       *)
(*                                                                         *)
(* A Scheduler Unit in router mode (core/router.rs) keeps two tables: the  *)
(* schedulers, with the number of processes each was given, and the        *)
(* scheduler of each process. A process posted to it is given a scheduler, *)
(* a message is redirected to that of its target.                          *)
(*                                                                         *)
(* Reads come through a Router Unit (ur), which chooses a Compute Unit by  *)
(* the hash of the process and fails over to the next. The Compute Unit    *)
(* locates the scheduler of the process (scheduler-utils), and keeps what  *)
(* it found.                                                               *)
(*                                                                         *)
(* Requests is the set of the requests that are made, each once; a process *)
(* posted again is a request of its own, and one may also be posted to a   *)
(* scheduler without the router. A store call of the router is one step;   *)
(* its handlers run on several threads.                                    *)
(*                                                                         *)
(* The router writes to its database and reads from a replica of it, which *)
(* may be behind. A row of process_schedulers never changes, so that of a  *)
(* late replica is there as it was written, or missing; the count of a     *)
(* scheduler is an older one.                                              *)
(***************************************************************************)
EXTENDS Naturals, Sequences, FiniteSets, Functions

CONSTANTS
    Schedulers,   \* the rows of the schedulers table
    Processes,
    None,         \* no scheduler, no host
    Router,       \* the url of the router, where a scheduler's is expected
    Owner,        \* Owner[p]: who signs process p
    Wallets,      \* Wallets[s]: wallets_to_route, owners whose processes go to s
    WalletsOnly,  \* the schedulers that take the processes of their wallets only
    NoRoute,      \* the schedulers that are given no process any more
    RouterCheck,  \* whether the schedulers ask the router before they save a process:
                  \* ENABLE_ROUTER_CHECK, and ENABLE_PROCESS_ASSIGNMENT
    Hosts,        \* HOSTS of the Router Unit: a sequence of Compute Units
    Hash,         \* Hash[p]: computeHashSumFromProcessId
    Bailout,      \* Bailout[p]: the host configured for the owner of p, or None
    Requests,
    Kind,         \* what each request is
    About         \* the process it is about

Units == Range(Hosts)

ASSUME RoutingAssumption ==
    /\ None \notin Schedulers \cup Units /\ Router \notin Schedulers \cup {None}
    /\ WalletsOnly \cup NoRoute \subseteq Schedulers
    /\ Hosts \in Seq(Units) /\ Hosts # <<>>
    /\ Hash \in [Processes -> Nat]
    /\ Bailout \in [Processes -> Units \cup {None}]
    /\ Kind \in [Requests -> {"Process", "Spawn", "Message", "Assignment", "Read"}]
    /\ About \in [Requests -> Processes]
    /\ RouterCheck \in BOOLEAN

VARIABLES
    process_count,  \* of each scheduler: column of the table schedulers
    shown,          \* the process_count that the replica shows
    home,           \* process_schedulers: the scheduler of a process, or None
    held,           \* the processes that each scheduler has saved
    unrouted,       \* <<s, p>>: s saved p when the router knew of no row of p
    scheduled,      \* the requests that each scheduler gave a slot
    located,        \* the cache of scheduler-utils in each Compute Unit
    ownerKnown,     \* processToOwnerCache of the Router Unit
    phase,          \* where a request is
    to,             \* the scheduler, or the Compute Unit, it is sent to; of a read or
                    \* a message that is answered, the scheduler it ended at
    seen,           \* the process_count the router read for it
    tried           \* the Compute Units it could not reach, until it is answered

routerVars == <<process_count, shown, home, seen>>
suVars     == <<held, unrouted, scheduled>>
cuVars     == <<located, ownerKnown, tried>>
vars == <<routerVars, suVars, cuVars, phase, to>>

Init ==
    /\ process_count = [s \in Schedulers |-> 0]
    /\ shown = process_count
    /\ home = [p \in Processes |-> None]
    /\ held = [s \in Schedulers |-> {}]
    /\ unrouted = {}
    /\ scheduled = [s \in Schedulers |-> {}]
    /\ located = [u \in Units |-> [p \in Processes |-> None]]
    /\ ownerKnown = {}
    /\ phase = [r \in Requests |-> "new"]
    /\ to = [r \in Requests |-> None]
    /\ seen = [r \in Requests |-> 0]
    /\ tried = [r \in Requests |-> <<>>]

Goes(r, before, after) == phase[r] = before /\ phase' = [phase EXCEPT ![r] = after]

-----------------------------------------------------------------------------
(***************************************************************************)
(* The router.                                                             *)
(***************************************************************************)

\* The replica catches up.
Replicate ==
    /\ shown' = process_count
    /\ UNCHANGED <<process_count, home, seen, suVars, cuVars, phase, to>>

\* The schedulers a new process may be given: one with a wallet that is its
\* owner's, or else the one with the fewest processes. Where there are several the
\* code takes the first row of the table; here it is any of them.
Candidates(p) ==
    LET routed  == {s \in Schedulers \ NoRoute : Owner[p] \in Wallets[s]}
        general == Schedulers \ (NoRoute \cup WalletsOnly)
    IN  IF routed # {} THEN routed
        ELSE {s \in general : \A t \in general : shown[s] <= shown[t]}

\* redirect_data_item, a process: the schedulers are read,
ChooseScheduler(r) ==
    /\ Kind[r] = "Process"
    /\ Goes(r, "new", "counting")
    /\ \E s \in Candidates(About[r]) :
           /\ to' = [to EXCEPT ![r] = s]
           /\ seen' = [seen EXCEPT ![r] = shown[s]]
    /\ UNCHANGED <<process_count, shown, home, suVars, cuVars>>

\* the chosen one is written back with one process more than was read,
UpdateScheduler(r) ==
    /\ Goes(r, "counting", "placing")
    /\ process_count' = [process_count EXCEPT ![to[r]] = seen[r] + 1]
    /\ seen' = [seen EXCEPT ![r] = 0]
    /\ UNCHANGED <<shown, home, suVars, cuVars, to>>

\* Faulty: the row of a process that is posted again is overwritten.
UpsertProcessScheduler(r) ==
    /\ Goes(r, "placing", "redirected")
    /\ home' = [home EXCEPT ![About[r]] = to[r]]
    /\ UNCHANGED <<process_count, shown, seen, suVars, cuVars, to>>

\* and the process' row is inserted, if there is none. The redirect goes to the
\* chosen scheduler either way.
SaveProcessScheduler(r) ==
    /\ Goes(r, "placing", "redirected")
    /\ home' = [home EXCEPT ![About[r]] = IF @ = None THEN to[r] ELSE @]
    /\ UNCHANGED <<process_count, shown, seen, suVars, cuVars, to>>

\* redirect_data_item, a message or an assignment: to the scheduler of the process.
RedirectMessage(r) ==
    /\ Kind[r] = "Message"
    /\ home[About[r]] # None
    /\ Goes(r, "new", "redirected")
    /\ to' = [to EXCEPT ![r] = home[About[r]]]
    /\ UNCHANGED <<routerVars, suVars, cuVars>>

\* A process is posted to a scheduler without the router: any that its owner names.
PostDirectly(r) ==
    /\ Kind[r] = "Spawn"
    /\ Goes(r, "new", "redirected")
    /\ \E s \in Schedulers : to' = [to EXCEPT ![r] = s]
    /\ UNCHANGED <<routerVars, suVars, cuVars>>

\* The router stops, a store call of it fails, no scheduler is left for a process,
\* and one that has no row, or whose row the replica has not, is not found. An assignment that a Messenger Unit writes
\* ends here when it is redirected, too: writeAssignment takes every answer that is
\* not ok for an error before it looks for a redirect.
RouterRefuses(r) ==
    /\ \/ Kind[r] \in {"Message", "Assignment"} /\ Goes(r, "new", "refused")
       \/ Kind[r] = "Process" /\ \/ Goes(r, "new", "refused")
                                 \/ Goes(r, "counting", "refused")
                                 \/ Goes(r, "placing", "refused")
    /\ to' = [to EXCEPT ![r] = None]
    /\ seen' = [seen EXCEPT ![r] = 0]
    /\ UNCHANGED <<process_count, shown, home, suVars, cuVars>>

-----------------------------------------------------------------------------
(***************************************************************************)
(* The scheduler a write is redirected to.                                 *)
(***************************************************************************)

\* get_routed_assignment, the router's answer about a process: its scheduler, or that
\* there is none. What is not a redirect is taken for the second, whether the process
\* has no row, the replica has not got it yet, or the router's own store call failed.
RouterAnswers(p) == {home[p], None}

\* Faulty: the scheduler takes every process.
BelongsAnywhere(answer, s) == TRUE

\* A process that the router knows must be this scheduler's.
BelongsHere(answer, s) == RouterCheck => answer \in {s, None}

SpawnProcess(r) ==
    /\ Kind[r] \in {"Process", "Spawn"}
    /\ Goes(r, "redirected", "answered")
    /\ \E answer \in RouterAnswers(About[r]) :
           /\ BelongsHere(answer, to[r])
           /\ unrouted' = unrouted \cup (IF answer = None THEN {<<to[r], About[r]>>} ELSE {})
    /\ held' = [held EXCEPT ![to[r]] = @ \cup {About[r]}]
    /\ to' = [to EXCEPT ![r] = None]
    /\ UNCHANGED <<routerVars, scheduled, cuVars>>

\* A message is scheduled also when its target is not known here.
ScheduleMessage(r) ==
    /\ Kind[r] = "Message"
    /\ Goes(r, "redirected", "answered")
    /\ scheduled' = [scheduled EXCEPT ![to[r]] = @ \cup {r}]
    /\ UNCHANGED <<routerVars, held, unrouted, cuVars, to>>

\* The scheduler is not reached, refuses the process, cannot reach the router, or fails.
SchedulerRefuses(r) ==
    /\ Kind[r] # "Read"
    /\ Goes(r, "redirected", "refused")
    /\ to' = [to EXCEPT ![r] = None]
    /\ UNCHANGED <<routerVars, suVars, cuVars>>

-----------------------------------------------------------------------------
(***************************************************************************)
(* A read: the Router Unit, and the Compute Unit it proxies to.            *)
(***************************************************************************)

Attempt(r) == Len(tried[r])

DefaultHost(r) == Hosts[((Hash[About[r]] + Attempt(r)) % Len(Hosts)) + 1]

\* bailout: the host of the process' owner, whom the scheduler is asked for. When
\* that fails the process has the default host.
DetermineHost(r) ==
    LET p == About[r] IN
    \/ Bailout[p] = None /\ to' = [to EXCEPT ![r] = DefaultHost(r)] /\ UNCHANGED ownerKnown
    \/ /\ Bailout[p] # None
       /\ to' = [to EXCEPT ![r] = Bailout[p]]
       /\ ownerKnown' = ownerKnown \cup {p}
    \/ /\ Bailout[p] # None /\ p \notin ownerKnown
       /\ to' = [to EXCEPT ![r] = DefaultHost(r)]
       /\ UNCHANGED ownerKnown

\* Faulty: one host less than there are.
ExhaustedEarly(r) == Attempt(r) >= Len(Hosts) - 1

Exhausted(r) == Attempt(r) >= Len(Hosts)

\* revProxy: the next attempt.
Proxy(r) ==
    /\ Kind[r] = "Read"
    /\ phase[r] \in {"new", "failingOver"}
    /\ ~Exhausted(r)
    /\ DetermineHost(r)
    /\ phase' = [phase EXCEPT ![r] = "proxied"]
    /\ UNCHANGED <<routerVars, suVars, located, tried>>

\* No host is left: the last error is answered.
Bubble(r) ==
    /\ Exhausted(r)
    /\ Goes(r, "failingOver", "failed")
    /\ UNCHANGED <<routerVars, suVars, cuVars, to>>

\* The connection to the Compute Unit fails, at once or while it works; this may
\* happen at any time.
HostUnreachable(r) ==
    /\ Goes(r, "proxied", "failingOver")
    /\ tried' = [tried EXCEPT ![r] = Append(@, to[r])]
    /\ to' = [to EXCEPT ![r] = None]
    /\ UNCHANGED <<routerVars, suVars, located, ownerKnown>>

\* checkForRedirect: the scheduler the router names; the router itself, if it
\* answers with an error, as it does when its replica has not got the row.
Redirected(p) == {Router} \cup (IF home[p] = None THEN {} ELSE {home[p]})

\* locate: the cached url of the process, or the one the router redirects to.
Location(u, p) == IF located[u][p] # None THEN {located[u][p]} ELSE Redirected(p)

\* Faulty: what is located for a process is kept for its scheduler's address, which
\* all schedulers behind the router share.
KeepByAddress(u, p, url) == [located EXCEPT ![u] = [q \in Processes |-> url]]

Keep(u, p, url) == [located EXCEPT ![u][p] = url]

\* The Compute Unit locates the scheduler, reads the schedule there, through the
\* router if that is what it has located, and answers.
Answer(r) ==
    /\ Goes(r, "proxied", "answered")
    /\ \E url \in Location(to[r], About[r]) :
           LET s == IF url = Router THEN home[About[r]] ELSE url IN
           /\ s # None
           /\ located' = Keep(to[r], About[r], url)
           /\ to' = [to EXCEPT ![r] = s]
    /\ tried' = [tried EXCEPT ![r] = <<>>]
    /\ UNCHANGED <<routerVars, suVars, ownerKnown>>

\* Locating or reading fails: an error is an answer, too, and not failed over.
AnswerError(r) ==
    /\ Goes(r, "proxied", "refused")
    /\ \/ UNCHANGED located
       \/ \E url \in Location(to[r], About[r]) : located' = Keep(to[r], About[r], url)
    /\ to' = [to EXCEPT ![r] = None]
    /\ tried' = [tried EXCEPT ![r] = <<>>]
    /\ UNCHANGED <<routerVars, suVars, ownerKnown>>

\* The time to live of a location ends, the cache is full, or (for each process in
\* turn) the Compute Unit restarts.
Expire(u, p) ==
    /\ located[u][p] # None
    /\ located' = [located EXCEPT ![u][p] = None]
    /\ UNCHANGED <<routerVars, suVars, ownerKnown, tried, phase, to>>

-----------------------------------------------------------------------------

Write(r) ==
    \/ ChooseScheduler(r) \/ UpdateScheduler(r) \/ SaveProcessScheduler(r)
    \/ RedirectMessage(r) \/ PostDirectly(r) \/ RouterRefuses(r)
    \/ SpawnProcess(r) \/ ScheduleMessage(r) \/ SchedulerRefuses(r)

Read(r) ==
    \/ Proxy(r) \/ Bubble(r) \/ HostUnreachable(r)
    \/ Answer(r) \/ AnswerError(r)

Next ==
    \/ Replicate
    \/ \E r \in Requests : Write(r) \/ Read(r)
    \/ \E u \in Units, p \in Processes : Expire(u, p)

Spec == Init /\ [][Next]_vars

-----------------------------------------------------------------------------

\* Every variable has values of its kind.
TypeOK ==
    /\ process_count \in [Schedulers -> Nat] /\ shown \in [Schedulers -> Nat]
    /\ home \in [Processes -> Schedulers \cup {None}]
    /\ held \in [Schedulers -> SUBSET Processes]
    /\ unrouted \subseteq Schedulers \X Processes
    /\ scheduled \in [Schedulers -> SUBSET Requests]
    /\ located \in [Units -> [Processes -> Schedulers \cup {Router, None}]]
    /\ ownerKnown \subseteq Processes
    /\ phase \in [Requests -> {"new", "counting", "placing", "redirected", "proxied",
                               "failingOver", "answered", "refused", "failed"}]
    /\ to \in [Requests -> Schedulers \cup Units \cup {None}]
    /\ seen \in [Requests -> Nat]
    /\ tried \in [Requests -> Seq(Units)]

\* A scheduler that has a process is that of its row, or the router knew of no row
\* when the scheduler asked (the replica was behind, the process was posted to the
\* scheduler first, the router failed): never does one take a process that it was
\* told is another's, wherever the router redirected it to, and what it was told
\* stays true, for the row of a process is never replaced.
HeldAtHome ==
    \A s \in Schedulers : \A p \in held[s] : home[p] = s \/ <<s, p>> \in unrouted

\* A process that has a row is taken by the scheduler of the row only, whatever that
\* one was told: su flows.rs:563-565, "This process was spawned on another SU through
\* the router so we should not allow it to be spawned here as well."
TakenAtHome ==
    [][\A s \in Schedulers : \A p \in held'[s] \ held[s] : home[p] \in {s, None}]_vars

\* Writers and readers of a process meet: its messages are scheduled, and its
\* schedule is read, at one scheduler, through whatever caches and redirects.
OneSchedule ==
    \A r \in Requests :
        phase[r] = "answered" /\ Kind[r] \in {"Message", "Read"} => to[r] = home[About[r]]

\* A read fails only after each Compute Unit was unreachable for it, unless a host
\* of its own is configured for the process.
FailedOver ==
    \A r \in Requests :
        phase[r] = "failed" /\ Bailout[About[r]] = None => Range(tried[r]) = Units

\* The same, of every process: ur/README.md:5, "If, for whatever reason, the
\* underlying host cannot be reached".
AlwaysFailedOver ==
    \A r \in Requests : phase[r] = "failed" => Range(tried[r]) = Units

\* A scheduler's count is at least the number of the processes it was given.
NoneUncounted ==
    \A s \in Schedulers :
        process_count[s] >= Cardinality({p \in Processes : home[p] = s})
=============================================================================
