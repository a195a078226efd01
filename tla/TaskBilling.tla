----------------------------- MODULE TaskBilling -----------------------------
(***************************************************************************)
(* The charge of an asynchronous task (video, music, image) after its row  *)
(* is durable: the pollers, the timeout sweep and the client's fetch race  *)
(* for the row, and the winner of the status CAS settles or refunds the    *)
(* charge (service/task_polling.go, service/task_billing.go,               *)
(* model/task.go, relay/relay_task.go).                                    *)
(*                                                                         *)
(* A worker is one pass over one task: it loads the row, asks upstream,    *)
(* and writes its whole copy of the row back.  Passes of several nodes     *)
(* overlap when a lease is lost, so workers interleave freely; the         *)
(* settlement of the submission, which comes after the insert, is one more *)
(* concurrent step.  Upstream answers are arbitrary.                       *)
(***************************************************************************)
EXTENDS Integers

CONSTANTS
    Tasks,            \* rows of the tasks table
    Workers,          \* concurrent passes: poll, sweep or fetch
    Quotas,           \* what a task may cost
    RealtimeTasks,    \* tasks of Gemini and Vertex channels: fetch asks upstream
    OrphanTasks,      \* tasks whose channel, or upstream id, may be missing
    MaxPollFailures,  \* TASK_POLL_MAX_FAILURES, 0 is disabled
    MaxPolls,         \* bound on polls and fetches of a task
    MaxFaults,        \* bound on failing database and ledger writes
    MaxCrashes        \* bound on restarts

ASSUME TaskAssumption ==
    /\ Quotas \subseteq Nat
    /\ RealtimeTasks \subseteq Tasks /\ OrphanTasks \subseteq Tasks
    /\ MaxPollFailures \in Nat /\ MaxPolls \in Nat
    /\ MaxFaults \in Nat /\ MaxCrashes \in Nat

Pending  == {"SUBMITTED", "IN_PROGRESS"}
Terminal == {"SUCCESS", "FAILURE"}

\* The columns billing depends on; complete is progress = "100%".
Task == [status : Pending \cup Terminal, complete : BOOLEAN, quota : Nat,
         failures : Nat]
NoCopy == [status |-> "SUBMITTED", complete |-> FALSE, quota |-> 0,
           failures |-> 0]

VARIABLES
    row,                    \* the tasks table
    legacy,                 \* submitted before TaskRefundLegacyCutoff
    pc, role, job, copy,    \* each worker, its task and its copy of the row
    target,                 \* the charge a worker is settling its task for
    charged, tokenCharged,  \* what the user and the token have paid
    surplus,                \* reserved above the quota, not settled yet
    polls, faults, crashes,
    due,                    \* history: the final charge, once it is decided
    bypassed,               \* history: a terminal write without billing
    lost                    \* history: a billing write failed, only logged

workerVars == <<pc, role, job, copy, target>>
ledgerVars == <<charged, tokenCharged, surplus>>
boundVars  == <<polls, faults, crashes>>
histVars   == <<due, bypassed, lost>>
vars == <<row, legacy, workerVars, ledgerVars, boundVars, histVars>>

Undecided == -1
Billing == {"finalize", "funding", "token", "quota"}

\* A task is inserted with its quoted quota, after the reservation covered it.
\* An immediate result inserts the status and progress it reports; an
\* immediate failure is free.
Init ==
    /\ row \in [Tasks -> [status : Pending \cup Terminal, complete : BOOLEAN,
                          quota : Quotas \cup {0}, failures : {0}]]
    /\ \A t \in Tasks : row[t].status = "FAILURE" => row[t].quota = 0
    /\ legacy \in [Tasks -> BOOLEAN]
    /\ surplus \in [Tasks -> Quotas \cup {0}]
    /\ charged = [t \in Tasks |-> row[t].quota + surplus[t]]
    /\ tokenCharged = charged
    /\ pc = [w \in Workers |-> "idle"]
    /\ role = [w \in Workers |-> "none"]
    /\ job \in [Workers -> Tasks]
    /\ copy = [w \in Workers |-> NoCopy]
    /\ target = [w \in Workers |-> 0]
    /\ polls = [t \in Tasks |-> 0]
    /\ faults = 0 /\ crashes = 0
    /\ due = [t \in Tasks |-> IF row[t].status \in Terminal
                              THEN row[t].quota ELSE Undecided]
    /\ bypassed = [t \in Tasks |-> FALSE]
    /\ lost = [t \in Tasks |-> FALSE]

Succeeds == UNCHANGED faults
Fails == faults < MaxFaults /\ faults' = faults + 1

Goto(w, point) == pc' = [pc EXCEPT ![w] = point]

\* The worker is through with its task.
Leave(w) ==
    /\ Goto(w, "idle")
    /\ role' = [role EXCEPT ![w] = "none"]
    /\ copy' = [copy EXCEPT ![w] = NoCopy]
    /\ target' = [target EXCEPT ![w] = 0]
    /\ UNCHANGED job

-----------------------------------------------------------------------------
(* The rows.                                                               *)

\* Mutant: the queries select the tasks that have not started.
NotStarted(t) == ~row[t].complete /\ row[t].status = "SUBMITTED"

\* GetAllUnFinishSyncTasks and GetTimedOutUnfinishedTasks select on both the
\* progress and the status.
Unfinished(t) == ~row[t].complete /\ row[t].status \in Pending

\* A pass loads a row: a poll or a sweep an unfinished one, a fetch any row.
Load(w, t, kind) ==
    /\ pc[w] = "idle"
    /\ \/ kind = "sweep" /\ Unfinished(t) /\ UNCHANGED polls
       \/ /\ polls[t] < MaxPolls
          /\ \/ kind = "poll" /\ Unfinished(t)
             \/ kind = "fetch" /\ t \in RealtimeTasks
          /\ polls' = [polls EXCEPT ![t] = @ + 1]
    /\ Goto(w, "loaded")
    /\ role' = [role EXCEPT ![w] = kind]
    /\ job' = [job EXCEPT ![w] = t]
    /\ copy' = [copy EXCEPT ![w] = row[t]]
    /\ UNCHANGED <<row, legacy, target, ledgerVars, faults, crashes, histVars>>

\* Mutant: the status predicate of the UPDATE is missing.
WonAlways(w) == TRUE

\* UpdateWithStatus matches the row: its status is the one that was loaded.
Won(w) == row[job[w]].status = copy[w].status

\* UpdateWithStatus writes every column of the worker's copy.
UpdateWithStatus(w, new) ==
    row' = IF Won(w) THEN [row EXCEPT ![job[w]] = new] ELSE row

\* The task leaves its pending status; the winner of the CAS bills it.
Finish(w, new) ==
    \/ /\ Succeeds
       /\ UpdateWithStatus(w, new)
       /\ IF Won(w)
          THEN /\ Goto(w, "finalize")
               /\ copy' = [copy EXCEPT ![w] = new]
               /\ UNCHANGED <<role, job, target>>
          ELSE Leave(w)
    \/ Fails /\ Leave(w) /\ UNCHANGED row

\* The task stays as the worker found it, up to progress and failures.
Refresh(w, new) ==
    /\ \/ Succeeds /\ UpdateWithStatus(w, new)
       \/ Fails /\ UNCHANGED row
    /\ Leave(w)

\* Mutant: a status upstream invents is not recognized as a poll failure.
PollUnrecognized(w) ==
    /\ pc[w] = "loaded" /\ role[w] = "poll"
    /\ \E s \in Pending \cup {"UNKNOWN"}, c \in BOOLEAN :
         Refresh(w, [copy[w] EXCEPT !.status = s, !.complete = c,
                                    !.failures = 0])
    /\ UNCHANGED <<legacy, ledgerVars, polls, crashes, histVars>>

\* updateVideoSingleTask, updateBatchTasks: upstream reports a pending
\* status, with any progress.
PollPending(w) ==
    /\ pc[w] = "loaded" /\ role[w] = "poll"
    /\ \E s \in Pending, c \in BOOLEAN :
         Refresh(w, [copy[w] EXCEPT !.status = s, !.complete = c,
                                    !.failures = 0])
    /\ UNCHANGED <<legacy, ledgerVars, polls, crashes, histVars>>

\* Upstream reports a terminal status, or does not know the task any more.
PollTerminal(w) ==
    /\ pc[w] = "loaded" /\ role[w] = "poll"
    /\ \E s \in Terminal, c \in BOOLEAN :
         /\ s = "FAILURE" => c
         /\ Finish(w, [copy[w] EXCEPT !.status = s, !.complete = c])
    /\ UNCHANGED <<legacy, ledgerVars, polls, crashes, histVars>>

\* recordPollFailure: too many failures in a row fail the task.
PollFails(w) ==
    /\ pc[w] = "loaded" /\ role[w] = "poll"
    /\ LET failures == copy[w].failures + 1 IN
         IF MaxPollFailures > 0 /\ failures >= MaxPollFailures
         THEN Finish(w, [copy[w] EXCEPT !.status = "FAILURE",
                                        !.complete = TRUE,
                                        !.failures = failures])
         ELSE Refresh(w, [copy[w] EXCEPT !.failures = failures])
    /\ UNCHANGED <<legacy, ledgerVars, polls, crashes, histVars>>

\* The pass is cancelled, or nothing changed, before the row is written.
Skip(w) ==
    /\ pc[w] = "loaded" /\ role[w] # "sweep"
    /\ Leave(w)
    /\ UNCHANGED <<row, legacy, ledgerVars, boundVars, histVars>>

\* TaskBulkUpdateByID, when the channel or the upstream id is missing: no
\* CAS, and no refund.
BulkFail(w) ==
    /\ pc[w] = "loaded" /\ role[w] = "poll"
    /\ job[w] \in OrphanTasks
    /\ \/ /\ Succeeds
          /\ row' = [row EXCEPT ![job[w]].status = "FAILURE",
                                ![job[w]].complete = TRUE]
          /\ bypassed' = [bypassed EXCEPT ![job[w]] = TRUE]
       \/ Fails /\ UNCHANGED <<row, bypassed>>
    /\ Leave(w)
    /\ UNCHANGED <<legacy, ledgerVars, polls, crashes, due, lost>>

\* tryRealtimeFetch: whatever upstream reports is written over whatever the
\* row was, terminal or not, and nothing is billed.
FetchStatus(w) ==
    /\ pc[w] = "loaded" /\ role[w] = "fetch"
    /\ \E s \in Pending \cup Terminal, c \in BOOLEAN :
         /\ Refresh(w, [copy[w] EXCEPT !.status = s, !.complete = c])
         /\ bypassed' = [bypassed EXCEPT ![job[w]] =
                           @ \/ (/\ row' # row
                                 /\ {s, copy[w].status} \cap Terminal # {})]
    /\ UNCHANGED <<legacy, ledgerVars, polls, crashes, due, lost>>

-----------------------------------------------------------------------------
(* Billing a finished task.                                                *)

\* The charge of the task is now meant to become q; the adjustments follow
\* unless the row already says so.
Bill(w, task, q) ==
    /\ due' = [due EXCEPT ![job[w]] = q]
    /\ IF q = task.quota
       THEN Leave(w)
       ELSE /\ Goto(w, "funding")
            /\ target' = [target EXCEPT ![w] = q]
            /\ copy' = [copy EXCEPT ![w] = task]
            /\ UNCHANGED <<role, job>>

\* Mutant: a timed-out task is refunded whoever has finished it.
SweepRegardless(w) ==
    /\ pc[w] = "loaded" /\ role[w] = "sweep"
    /\ LET new == [copy[w] EXCEPT !.status = "FAILURE", !.complete = TRUE]
       IN \/ Succeeds /\ UpdateWithStatus(w, new) /\ Bill(w, new, 0)
          \/ Fails /\ Leave(w) /\ UNCHANGED <<row, due>>
    /\ UNCHANGED <<legacy, ledgerVars, polls, crashes, bypassed, lost>>

\* sweepTimedOutTasks: the winner refunds; a legacy task keeps its charge and
\* its row forgets it.
Sweep(w) ==
    /\ pc[w] = "loaded" /\ role[w] = "sweep"
    /\ LET t == job[w]
           new == [copy[w] EXCEPT !.status = "FAILURE", !.complete = TRUE,
                                  !.quota = IF legacy[t] THEN 0 ELSE @]
       IN \/ /\ Succeeds
             /\ UpdateWithStatus(w, new)
             /\ IF Won(w) /\ ~legacy[t]
                THEN Bill(w, new, 0)
                ELSE /\ due' = [due EXCEPT ![t] =
                                  IF Won(w) THEN copy[w].quota ELSE @]
                     /\ Leave(w)
          \/ Fails /\ Leave(w) /\ UNCHANGED <<row, due>>
    /\ UNCHANGED <<legacy, ledgerVars, polls, crashes, bypassed, lost>>

\* finalizeTerminalTask: the task is settled for the usage upstream reports,
\* if it does; otherwise a failure is refunded and a success stays charged.
Finalize(w) ==
    /\ pc[w] = "finalize"
    /\ \/ \E q \in Quotas \cup {0} : Bill(w, copy[w], q)
       \/ Bill(w, copy[w], IF copy[w].status = "FAILURE" THEN 0
                                                         ELSE copy[w].quota)
    /\ UNCHANGED <<row, legacy, ledgerVars, boundVars, bypassed, lost>>

Delta(w) == target[w] - copy[w].quota

\* taskAdjustFunding; when it fails the charge and the row's quota stay.
AdjustFunding(w) ==
    /\ pc[w] = "funding"
    /\ \/ /\ Succeeds
          /\ charged' = [charged EXCEPT ![job[w]] = @ + Delta(w)]
          /\ Goto(w, "token")
          /\ UNCHANGED <<role, job, copy, target, lost>>
       \/ /\ Fails
          /\ lost' = [lost EXCEPT ![job[w]] = TRUE]
          /\ Leave(w)
          /\ UNCHANGED charged
    /\ UNCHANGED <<row, legacy, tokenCharged, surplus, polls, crashes, due,
                   bypassed>>

\* taskAdjustTokenQuota; its error is logged.
AdjustToken(w) ==
    /\ pc[w] = "token"
    /\ \/ /\ Succeeds
          /\ tokenCharged' = [tokenCharged EXCEPT ![job[w]] = @ + Delta(w)]
          /\ UNCHANGED lost
       \/ /\ Fails
          /\ lost' = [lost EXCEPT ![job[w]] = TRUE]
          /\ UNCHANGED tokenCharged
    /\ Goto(w, "quota")
    /\ UNCHANGED <<row, legacy, role, job, copy, target, charged, surplus,
                   polls, crashes, due, bypassed>>

\* Mutant: the row is not told.
KeepQuota(w) ==
    /\ pc[w] = "quota"
    /\ Leave(w)
    /\ UNCHANGED <<row, legacy, ledgerVars, boundVars, due, bypassed, lost>>

\* UpdateQuota writes the one column, without looking at the status.
UpdateQuota(w) ==
    /\ pc[w] = "quota"
    /\ \/ /\ Succeeds
          /\ row' = [row EXCEPT ![job[w]].quota = target[w]]
          /\ UNCHANGED lost
       \/ /\ Fails
          /\ lost' = [lost EXCEPT ![job[w]] = TRUE]
          /\ UNCHANGED row
    /\ Leave(w)
    /\ UNCHANGED <<legacy, ledgerVars, polls, crashes, due, bypassed>>

\* Mutant: the settlement takes what the row holds now, not its own delta.
SettleAll(t) ==
    /\ surplus[t] > 0
    /\ Succeeds
    /\ charged' = [charged EXCEPT ![t] = row[t].quota]
    /\ tokenCharged' = [tokenCharged EXCEPT ![t] = row[t].quota]
    /\ surplus' = [surplus EXCEPT ![t] = 0]
    /\ UNCHANGED <<row, legacy, workerVars, polls, crashes, histVars>>

\* The submission settles what it had reserved above the quota; the row is
\* already durable, so a worker may have finished the task before.
SettleSubmission(t) ==
    /\ surplus[t] > 0
    /\ \/ /\ Succeeds
          /\ charged' = [charged EXCEPT ![t] = @ - surplus[t]]
          /\ tokenCharged' = [tokenCharged EXCEPT ![t] = @ - surplus[t]]
          /\ UNCHANGED lost
       \/ /\ Fails
          /\ lost' = [lost EXCEPT ![t] = TRUE]
          /\ UNCHANGED <<charged, tokenCharged>>
    /\ surplus' = [surplus EXCEPT ![t] = 0]
    /\ UNCHANGED <<row, legacy, workerVars, polls, crashes, due, bypassed>>

\* The node of a worker restarts.
Crash(w) ==
    /\ pc[w] # "idle" /\ crashes < MaxCrashes
    /\ crashes' = crashes + 1
    /\ lost' = [lost EXCEPT ![job[w]] = @ \/ pc[w] \in Billing]
    /\ Leave(w)
    /\ UNCHANGED <<row, legacy, ledgerVars, polls, faults, due, bypassed>>

-----------------------------------------------------------------------------
Step(w) ==
    \/ PollPending(w) \/ PollTerminal(w) \/ PollFails(w) \/ Skip(w)
    \/ BulkFail(w) \/ FetchStatus(w) \/ Sweep(w) \/ Finalize(w)
    \/ AdjustFunding(w) \/ AdjustToken(w) \/ UpdateQuota(w)

Terminated ==
    /\ \A w \in Workers : pc[w] = "idle"
    /\ \A t \in Tasks : ~Unfinished(t) /\ surplus[t] = 0
    /\ UNCHANGED vars

Next ==
    \/ \E w \in Workers :
         \/ \E t \in Tasks, kind \in {"poll", "sweep", "fetch"} : Load(w, t, kind)
         \/ Step(w) \/ Crash(w)
    \/ \E t \in Tasks : SettleSubmission(t)
    \/ Terminated

Spec == Init /\ [][Next]_vars

\* A pass that has begun goes on, the scheduler sweeps every 15 seconds, and
\* the submission's goroutine is scheduled.
FairSpec ==
    /\ Spec
    /\ \A w \in Workers : WF_vars(Step(w))
    /\ \A t \in Tasks :
         /\ WF_vars(\E w \in Workers : Load(w, t, "sweep"))
         /\ WF_vars(SettleSubmission(t))

-----------------------------------------------------------------------------
(* Properties.                                                             *)

\* Type correctness of the rows, the workers and the ledgers.
TypeOK ==
    /\ row \in [Tasks -> Task]
    /\ legacy \in [Tasks -> BOOLEAN]
    /\ pc \in [Workers -> {"idle", "loaded"} \cup Billing]
    /\ role \in [Workers -> {"none", "poll", "sweep", "fetch"}]
    /\ job \in [Workers -> Tasks]
    /\ copy \in [Workers -> Task]
    /\ target \in [Workers -> Nat]
    /\ charged \in [Tasks -> Int] /\ tokenCharged \in [Tasks -> Int]
    /\ surplus \in [Tasks -> Nat]
    /\ polls \in [Tasks -> 0..MaxPolls]
    /\ faults \in 0..MaxFaults /\ crashes \in 0..MaxCrashes
    /\ due \in [Tasks -> Nat \cup {Undecided}]
    /\ bypassed \in [Tasks -> BOOLEAN]
    /\ lost \in [Tasks -> BOOLEAN]

AtRest(t) == \A w \in Workers : job[w] = t => pc[w] \notin Billing

\* However many passes hold a copy of a task, at most one of them, the winner
\* of UpdateWithStatus, ever bills it at a time, and only a finished task,
\* also when restarts and failed writes interrupt the others.
OneFinalizer ==
    \A w \in Workers :
        pc[w] \in Billing /\ ~bypassed[job[w]] =>
            /\ row[job[w]].status = copy[w].status
            /\ copy[w].status \in Terminal
            /\ \A v \in Workers \ {w} : job[v] = job[w] => pc[v] \notin Billing

\* The quota in a task's row is what its user and its token have been charged
\* for it, so that the delta of the next settlement, or the refund, is right,
\* although the row is written from stale copies and the submission settles
\* concurrently.
RowHoldsCharge ==
    \A t \in Tasks :
        AtRest(t) /\ ~bypassed[t] /\ ~lost[t] /\ ~legacy[t] =>
            /\ row[t].quota = charged[t] - surplus[t]
            /\ row[t].quota = tokenCharged[t] - surplus[t]

\* A finished task has been billed: its final charge was decided and both
\* ledgers show it.
Billed(t) ==
    /\ due[t] # Undecided
    /\ charged[t] - surplus[t] = due[t]
    /\ tokenCharged[t] - surplus[t] = due[t]

\* finalizeTerminalTask runs "exactly once, called by the winner of the
\* status CAS": a finished task at rest has been billed.
TerminalIsBilled ==
    \A t \in Tasks :
        row[t].status \in Terminal /\ AtRest(t) /\ ~lost[t] => Billed(t)

\* The same, for the tasks whose terminal status neither tryRealtimeFetch nor
\* TaskBulkUpdateByID has written.
TerminalIsBilledUnlessBypassed ==
    \A t \in Tasks :
        row[t].status \in Terminal /\ AtRest(t) /\ ~lost[t] /\ ~bypassed[t]
            => Billed(t)

\* No worker, however old its copy, takes a finished task out of its status,
\* nor changes the charge once it was decided and reached.
FinalIsFinal ==
    [][\A t \in Tasks :
         row[t].status \in Terminal /\ ~bypassed'[t] =>
            /\ row'[t].status = row[t].status
            /\ due[t] # Undecided => due'[t] = due[t]]_vars

\* The sweep is a backstop: every task ends for good, its charge settled or
\* refunded, or a billing write known to be lost or bypassed, unless upstream
\* reported it pending at 100%, which no query selects any more.
EveryTaskEnds ==
    \A t \in Tasks :
        <>[](\/ row[t].status \in Pending /\ row[t].complete
             \/ /\ row[t].status \in Terminal /\ AtRest(t)
                /\ surplus[t] = 0
                /\ Billed(t) \/ lost[t] \/ bypassed[t])
=============================================================================
