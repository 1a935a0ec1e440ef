------------------------------- MODULE MuPush -------------------------------
(***************************************************************************)
(* What the Messenger Unit does with a request: it forwards the item to a  *)
(* Scheduler Unit, answers, pulls the result from the Compute Unit and     *)
(* cranks it; the messages whose result it does not get are kept in a      *)
(* table, from which a cron job recovers them.                             *)
(*   src/servers/mu/src/domain/api/{sendDataItem,sendAssign,pushMsg}.js    *)
(***************************************************************************)
EXTENDS Integers, Sequences, FiniteSets, SequencesExt

CONSTANTS
    Requests,
    Kind,           \* what each request is
    OfMessage,      \* the request whose message a push is about
    SpawnPush,      \* SPAWN_PUSH_ENABLED
    Recovery,       \* ENABLE_MESSAGE_RECOVERY
    MaxPulls,       \* GET_RESULT_MAX_RETRIES
    MaxRecoveries,  \* MESSAGE_RECOVERY_MAX_RETRIES
    MaxRestarts     \* bound on the restarts of the MU

Kinds == {"message", "process", "assign", "push"}

ASSUME PushAssumption ==
    /\ Kind \in [Requests -> Kinds]
    /\ OfMessage \in [{r \in Requests : Kind[r] = "push"} ->
                      {r \in Requests : Kind[r] # "push"}]
    /\ {SpawnPush, Recovery} \subseteq BOOLEAN
    /\ {MaxPulls, MaxRecoveries, MaxRestarts} \subseteq Nat

VARIABLES
    phase,      \* where a request is
    attempts,   \* pullResultAttempts of a request
    written,    \* the requests that a scheduler took
    table,      \* messages: id and retries, by timestamp
    due,        \* how many of these rows have a timestamp in the past
    job,        \* the recovery job: its row, its step, its attempts
    cranked,    \* how often the results of a request were handed to the pool
    redone,     \* history: how often a restart came between a crank and its row's end
    restarts    \* how often the MU was restarted

requestVars == <<phase, attempts, written>>
tableVars == <<table, due>>
historyVars == <<redone, restarts>>
vars == <<requestVars, tableVars, job, cranked, historyVars>>

Phases == {"new", "pulling", "cranking", "cranked", "saved",
           "refused", "lost", "givenUp"}

NoJob == [step |-> "idle", attempts |-> 0]

Init ==
    /\ phase = [r \in Requests |-> "new"]
    /\ attempts = [r \in Requests |-> 0]
    /\ written = {}
    /\ table = <<>>
    /\ due = 0
    /\ job = NoJob
    /\ cranked = [r \in Requests |-> 0]
    /\ redone = [r \in Requests |-> 0]
    /\ restarts = 0

To(r, p) == phase' = [phase EXCEPT ![r] = p]

-----------------------------------------------------------------------------
(* A request, up to its answer.                                            *)

\* It does not verify, exceeds a rate limit, is forbidden, has no scheduler, or
\* the scheduler refuses it.
Refuse(r) ==
    /\ phase[r] = "new"
    /\ To(r, "refused")
    /\ UNCHANGED <<attempts, written, tableVars, job, cranked, historyVars>>

\* The scheduler takes the item, and the request is answered unless the answer
\* of the scheduler is lost. A new process has a result to pull if it is pushed.
Write(r) ==
    /\ phase[r] = "new"
    /\ Kind[r] # "push"
    /\ written' = written \cup {r}
    /\ \/ To(r, IF Kind[r] = "process" /\ ~ SpawnPush THEN "cranking" ELSE "pulling")
       \/ To(r, "refused")
    /\ UNCHANGED <<attempts, tableVars, job, cranked, historyVars>>

\* pushMsg finds the message on its scheduler, and answers after it has pulled.
Check(r) ==
    /\ phase[r] = "new"
    /\ Kind[r] = "push"
    /\ OfMessage[r] \in written
    /\ To(r, "pulling")
    /\ UNCHANGED <<attempts, written, tableVars, job, cranked, historyVars>>

-----------------------------------------------------------------------------
(* The result of a request.                                                *)

\* The result is there. A process is cranked in any case, with an assignment of
\* the process to its target if it has one.
Pull(r) ==
    /\ phase[r] = "pulling"
    /\ To(r, "cranking")
    /\ UNCHANGED <<attempts, written, tableVars, job, cranked, historyVars>>

Recovered(r) == Recovery /\ Kind[r] = "message"

\* getResult waits, and tries again.
PullAgain(r) ==
    /\ phase[r] = "pulling"
    /\ Recovered(r)
    /\ attempts[r] < MaxPulls
    /\ attempts' = [attempts EXCEPT ![r] = @ + 1]
    /\ UNCHANGED <<phase, written, tableVars, job, cranked, historyVars>>

\* Faulty: a message that cannot be pulled is not kept.
SaveNothing(r) ==
    /\ phase[r] = "pulling"
    /\ Recovered(r)
    /\ attempts[r] >= MaxPulls
    /\ To(r, "saved")
    /\ UNCHANGED <<attempts, written, tableVars, job, cranked, historyVars>>

\* insertMessage: after the rows that are due, before those that wait.
Save(r) ==
    /\ phase[r] = "pulling"
    /\ Recovered(r)
    /\ attempts[r] >= MaxPulls
    /\ To(r, "saved")
    /\ table' = InsertAt(table, due + 1, [request |-> r, retries |-> 0])
    /\ UNCHANGED <<attempts, written, due, job, cranked, historyVars>>

\* The MU stops and starts: what it had in memory is gone.
Stops(down) ==
    /\ phase' = [r \in Requests |->
           CASE r \in down -> "lost"
             [] phase[r] \in {"pulling", "cranking"} ->
                   IF Kind[r] = "push" /\ phase[r] = "pulling" THEN "refused" ELSE "lost"
             [] OTHER -> phase[r]]
    /\ redone' = [r \in Requests |->
           IF job.step = "delete" /\ job.row.request = r THEN redone[r] + 1 ELSE redone[r]]
    /\ job' = NoJob
    /\ restarts' = restarts + 1

\* Without recovery nothing keeps a result that was not pulled. The handler of
\* a failed crank expects a process where the failure of a pull brings an error,
\* and throws out of a promise that nobody waits for: that may end the MU.
PullFails(r) ==
    /\ phase[r] = "pulling"
    /\ ~ Recovered(r)
    /\ \/ /\ To(r, IF Kind[r] = "push" THEN "refused" ELSE "lost")
          /\ UNCHANGED <<job, redone, restarts>>
       \/ /\ Kind[r] = "process"
          /\ restarts < MaxRestarts
          /\ Stops({r})
    /\ UNCHANGED <<attempts, written, tableVars, cranked>>

\* The pool enqueues the results.
Crank(r) ==
    /\ phase[r] = "cranking"
    /\ To(r, "cranked")
    /\ cranked' = [cranked EXCEPT ![r] = @ + 1]
    /\ UNCHANGED <<attempts, written, tableVars, job, historyVars>>

CrankFails(r) ==
    /\ phase[r] = "cranking"
    /\ To(r, "lost")
    /\ UNCHANGED <<attempts, written, tableVars, job, cranked, historyVars>>

-----------------------------------------------------------------------------
(* The recovery of messages.                                               *)

\* The timestamp of the next row has passed.
BecomeDue ==
    /\ due < Len(table)
    /\ due' = due + 1
    /\ UNCHANGED <<requestVars, table, job, cranked, historyVars>>

\* A tick takes the oldest row that is due, if there is one.
Select ==
    /\ Recovery
    /\ job.step = "idle"
    /\ due > 0
    /\ job' = [step |-> "pull", attempts |-> 0, row |-> Head(table)]
    /\ UNCHANGED <<requestVars, tableVars, cranked, historyVars>>

RecoverPull ==
    /\ job.step = "pull"
    /\ job' = [job EXCEPT !.step = "crank"]
    /\ UNCHANGED <<requestVars, tableVars, cranked, historyVars>>

RecoverPullAgain ==
    /\ job.step = "pull"
    /\ job.attempts < MaxPulls
    /\ job' = [job EXCEPT !.attempts = @ + 1]
    /\ UNCHANGED <<requestVars, tableVars, cranked, historyVars>>

RecoverCrank ==
    /\ job.step = "crank"
    /\ job' = [job EXCEPT !.step = "delete"]
    /\ cranked' = [cranked EXCEPT ![job.row.request] = @ + 1]
    /\ UNCHANGED <<requestVars, tableVars, historyVars>>

\* DELETE ... WHERE id = ?: ids are unique.
OtherRows ==
    RemoveAt(table, CHOOSE i \in DOMAIN table : table[i].request = job.row.request)

\* Faulty: the row is left for a later look.
RecoverKeep ==
    /\ job.step = "delete"
    /\ job' = NoJob
    /\ To(job.row.request, "cranked")
    /\ UNCHANGED <<attempts, written, tableVars, cranked, historyVars>>

\* deleteMessage, after the crank.
RecoverDelete ==
    /\ job.step = "delete"
    /\ job' = NoJob
    /\ table' = OtherRows
    /\ due' = due - 1
    /\ To(job.row.request, "cranked")
    /\ UNCHANGED <<attempts, written, cranked, historyVars>>

OutOfRetries == job.row.retries > MaxRecoveries

\* Faulty: isJobRunning is not reset.
RecoverFailsHanging ==
    /\ \/ job.step = "pull" /\ job.attempts >= MaxPulls
       \/ job.step = "crank"
    /\ \E i \in due .. Len(table) :
         table' = InsertAt(OtherRows, i, [job.row EXCEPT !.retries = @ + 1])
    /\ due' = due - 1
    /\ job' = [job EXCEPT !.step = "hung"]
    /\ UNCHANGED <<requestVars, cranked, historyVars>>

\* updateMessageTimestamp: the row waits behind those that are due, for a delay
\* that grows, unless it is out of retries.
RecoverFails ==
    /\ \/ job.step = "pull" /\ job.attempts >= MaxPulls
       \/ job.step = "crank"
    /\ job' = NoJob
    /\ due' = due - 1
    /\ IF OutOfRetries
       THEN table' = OtherRows /\ To(job.row.request, "givenUp")
       ELSE /\ \E i \in due .. Len(table) :
                  table' = InsertAt(OtherRows, i, [job.row EXCEPT !.retries = @ + 1])
            /\ UNCHANGED phase
    /\ UNCHANGED <<attempts, written, cranked, historyVars>>

Restart ==
    /\ restarts < MaxRestarts
    /\ Stops({})
    /\ UNCHANGED <<attempts, written, tableVars, cranked>>

-----------------------------------------------------------------------------
Recover == \/ Select \/ RecoverPull \/ RecoverPullAgain
           \/ RecoverCrank \/ RecoverDelete \/ RecoverFails

Serve(r) == \/ Pull(r) \/ PullAgain(r) \/ Save(r) \/ PullFails(r)
            \/ Crank(r) \/ CrankFails(r)

Next ==
    \/ \E r \in Requests : Refuse(r) \/ Write(r) \/ Check(r) \/ Serve(r)
    \/ BecomeDue
    \/ Recover
    \/ Restart

Spec == Init /\ [][Next]_vars

\* Time passes, the cron job ticks, and calls return.
Fairness ==
    /\ WF_vars(BecomeDue)
    /\ WF_vars(Recover)
    /\ \A r \in Requests : WF_vars(Serve(r))

FairSpec == Spec /\ Fairness

-----------------------------------------------------------------------------
(* Properties.                                                             *)

Rows == ToSet(table)

\* Every variable holds values of its kind, and due is a part of the table.
TypeOK ==
    /\ phase \in [Requests -> Phases]
    /\ attempts \in [Requests -> 0 .. MaxPulls]
    /\ written \subseteq Requests
    /\ \A row \in Rows : row.request \in Requests /\ row.retries \in 0 .. MaxRecoveries + 1
    /\ due \in 0 .. Len(table)
    /\ job.step \in {"idle", "pull", "crank", "delete"}
    /\ job.attempts \in 0 .. MaxPulls
    /\ {cranked, redone} \subseteq [Requests -> Nat]

\* The results of a request are cranked at most once, by its request or by the
\* recovery, except when the MU stops between a recovered crank and the deletion
\* of its row.
CrankedOnce == \A r \in Requests : cranked[r] <= 1 + redone[r]

\* A message that waits for its recovery has its one row, also while the job
\* works on it, moves it or is stopped; no other request has one.
SavedHasRow ==
    /\ {r \in Requests : phase[r] = "saved"} = {row.request : row \in Rows}
    /\ Cardinality({row.request : row \in Rows}) = Len(table)

\* Every message that a scheduler took, and whose request was answered, is in
\* the end cranked or given up: the job does not hang, and no row is starved by
\* others, whatever the CU fails.
EventuallySettled ==
    \A r \in Requests :
        phase[r] \in {"pulling", "saved"} ~>
            phase[r] \in {"cranked", "givenUp", "lost", "refused"}
=============================================================================
