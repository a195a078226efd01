------------------------- MODULE TaskBillingProofs -------------------------
(***************************************************************************)
(* Proofs about TaskBilling, for any number of tasks and of overlapping    *)
(* passes, any quotas, and any number of failures and restarts.            *)
(*                                                                         *)
(* The invariant IInv says, for a task no write has bypassed: while its    *)
(* row is pending the charge is undecided and every copy in flight agrees  *)
(* with the row on the quota; once it is finished, either one worker bills *)
(* it, and at each of its steps the two ledgers are where that step has    *)
(* brought them, or no worker does and the ledgers show the final charge.  *)
(***************************************************************************)
EXTENDS TaskBilling, TLAPS

-----------------------------------------------------------------------------
(* The inductive invariant.                                                *)

\* What the user and the token have paid for t, the surplus apart.
UserPaid(t)  == charged[t] - surplus[t]
TokenPaid(t) == tokenCharged[t] - surplus[t]

\* A copy in flight: polls and sweeps loaded a pending row, and a copy that
\* may still win the CAS on a pending row has the quota of the row.
CopyInv(w) ==
    pc[w] = "loaded" =>
        /\ role[w] \in {"poll", "sweep"} => copy[w].status \in Pending
        /\ (/\ ~bypassed[job[w]]
            /\ copy[w].status \in Pending /\ row[job[w]].status \in Pending)
           => copy[w].quota = row[job[w]].quota

\* A worker that bills has the finished row to itself.
OwnerInv(w) ==
    pc[w] \in Billing /\ ~bypassed[job[w]] =>
        /\ row[job[w]] = copy[w]
        /\ copy[w].status \in Terminal
        /\ \A v \in Workers : job[v] = job[w] /\ pc[v] \in Billing => v = w
        /\ IF pc[w] = "finalize" THEN due[job[w]] = Undecided
                                 ELSE due[job[w]] = target[w]

\* How far the worker has brought the two ledgers.
ProgressInv(w) ==
    pc[w] \in Billing /\ ~bypassed[job[w]] /\ ~lost[job[w]] =>
        /\ UserPaid(job[w]) = IF pc[w] \in {"token", "quota"} THEN target[w]
                                                            ELSE copy[w].quota
        /\ TokenPaid(job[w]) = IF pc[w] = "quota" THEN target[w]
                                                ELSE copy[w].quota

\* A pending task is charged what its row says, and nothing is decided.
PendingInv(t) ==
    ~bypassed[t] /\ row[t].status \in Pending =>
        /\ due[t] = Undecided
        /\ ~lost[t] => UserPaid(t) = row[t].quota /\ TokenPaid(t) = row[t].quota

\* A finished task at rest is charged what was decided.
FinishedInv(t) ==
    ~bypassed[t] /\ ~lost[t] /\ row[t].status \in Terminal /\ AtRest(t) =>
        /\ due[t] # Undecided
        /\ UserPaid(t) = due[t] /\ TokenPaid(t) = due[t]
        /\ ~legacy[t] => row[t].quota = due[t]

WorkerInv(w) == CopyInv(w) /\ OwnerInv(w) /\ ProgressInv(w)
TaskInv(t) == PendingInv(t) /\ FinishedInv(t)

IInv ==
    /\ TypeOK
    /\ \A w \in Workers : WorkerInv(w)
    /\ \A t \in Tasks : TaskInv(t)

-----------------------------------------------------------------------------
(* Every action preserves the invariant.                                   *)

\* The bounds are natural numbers, and so is whatever a task may cost.
LEMMA Bounds ==
    /\ MaxPolls \in Nat /\ MaxFaults \in Nat /\ MaxCrashes \in Nat
    /\ \A q \in Quotas \cup {0} : q \in Nat
BY TaskAssumption DEF TaskAssumption

\* What the writes make of a copy is a row again, and keeps the other columns.
LEMMA Columns ==
    ASSUME NEW c \in Task, NEW s \in Pending \cup Terminal, NEW b \in BOOLEAN,
           NEW f \in Nat, NEW q \in Nat
    PROVE  /\ [c EXCEPT !.status = s, !.complete = b, !.failures = f] \in Task
           /\ [c EXCEPT !.status = s, !.complete = b, !.quota = q] \in Task
           /\ [c EXCEPT !.status = s, !.complete = b] \in Task
           /\ [c EXCEPT !.failures = f] \in Task
           /\ [c EXCEPT !.quota = q] \in Task
BY DEF Task, Pending, Terminal

\* The copy of a worker that has none is a row.
LEMMA NoCopyType ==
    NoCopy \in Task
BY DEF Task, NoCopy, Pending, Terminal

\* A worker's amounts are numbers, by TypeOK.
LEMMA Numbers ==
    ASSUME TypeOK, NEW w \in Workers
    PROVE  /\ job[w] \in Tasks
           /\ copy[w].quota \in Nat /\ target[w] \in Nat /\ Delta(w) \in Int
BY DEF TypeOK, Task, Delta

USE DEF workerVars, ledgerVars, boundVars, histVars, Goto, Pending, Terminal,
        Undecided, Billing

\* A pass that loads a row agrees with it.
LEMMA LoadInv ==
    ASSUME IInv, NEW w \in Workers, NEW t \in Tasks,
           NEW kind \in {"poll", "sweep", "fetch"}, Load(w, t, kind)
    PROVE  IInv'
<1>1. TypeOK'
  BY Bounds DEF IInv, TypeOK, Load
<1>2. ASSUME NEW v \in Workers PROVE WorkerInv(v)'
  BY DEF IInv, TypeOK, Load, Unfinished, WorkerInv, CopyInv, OwnerInv,
     ProgressInv, UserPaid, TokenPaid
<1>3. ASSUME NEW u \in Tasks PROVE TaskInv(u)'
  BY DEF IInv, TypeOK, Load, TaskInv, PendingInv, FinishedInv, AtRest,
     UserPaid, TokenPaid
<1> QED
  BY <1>1, <1>2, <1>3 DEF IInv

\* A pass that ends without having written anything, or that is cut short
\* before it bills.
LEMMA LeaveInv ==
    ASSUME IInv, NEW w \in Workers, pc[w] = "loaded", Leave(w),
           UNCHANGED <<row, legacy, ledgerVars, polls, histVars>>,
           faults' \in 0..MaxFaults, crashes' \in 0..MaxCrashes
    PROVE  IInv'
<1>1. TypeOK'
  BY NoCopyType DEF IInv, TypeOK, Leave
<1>2. ASSUME NEW v \in Workers PROVE WorkerInv(v)'
  BY DEF IInv, TypeOK, Leave, WorkerInv, CopyInv, OwnerInv, ProgressInv,
     UserPaid, TokenPaid
<1>3. ASSUME NEW u \in Tasks PROVE TaskInv(u)'
  BY DEF IInv, TypeOK, Leave, TaskInv, PendingInv, FinishedInv, AtRest,
     UserPaid, TokenPaid
<1> QED
  BY <1>1, <1>2, <1>3 DEF IInv

\* The pass is cancelled.
LEMMA SkipInv ==
    ASSUME IInv, NEW w \in Workers, Skip(w)
    PROVE  IInv'
<1>1. faults' \in 0..MaxFaults /\ crashes' \in 0..MaxCrashes
  BY DEF IInv, TypeOK, Skip
<1> QED
  BY <1>1, LeaveInv DEF Skip

\* While the row of a task is pending nobody bills it.
LEMMA PendingUnowned ==
    ASSUME IInv, NEW t \in Tasks, ~bypassed[t], row[t].status \in Pending
    PROVE  AtRest(t)
BY DEF IInv, TypeOK, WorkerInv, OwnerInv, AtRest

\* A write that leaves the task pending: it only wins over a pending row, and
\* writes back the quota it found there.
LEMMA RefreshInv ==
    ASSUME IInv, NEW w \in Workers, pc[w] = "loaded", role[w] = "poll",
           NEW new \in Task, new.status \in Pending, new.quota = copy[w].quota,
           Refresh(w, new),
           UNCHANGED <<legacy, ledgerVars, polls, crashes, histVars>>
    PROVE  IInv'
<1>1. TypeOK'
  BY Bounds, NoCopyType DEF IInv, TypeOK, Refresh, UpdateWithStatus, Succeeds, Fails,
     Leave
<1>2. ASSUME NEW v \in Workers PROVE WorkerInv(v)'
  BY DEF IInv, TypeOK, Refresh, UpdateWithStatus, Won, Leave, WorkerInv,
     CopyInv, OwnerInv, ProgressInv, UserPaid, TokenPaid
<1>3. ASSUME NEW u \in Tasks PROVE TaskInv(u)'
  BY DEF IInv, TypeOK, Refresh, UpdateWithStatus, Won, Leave, WorkerInv,
     CopyInv, TaskInv, PendingInv, FinishedInv, AtRest, UserPaid, TokenPaid
<1> QED
  BY <1>1, <1>2, <1>3 DEF IInv

\* A write that finishes the task: the winner found a pending row, so nobody
\* bills the task yet and its charge is the quota of the row.
LEMMA FinishInv ==
    ASSUME IInv, NEW w \in Workers, pc[w] = "loaded", role[w] = "poll",
           NEW new \in Task, new.status \in Terminal, new.quota = copy[w].quota,
           Finish(w, new),
           UNCHANGED <<legacy, ledgerVars, polls, crashes, histVars>>
    PROVE  IInv'
<1>1. TypeOK'
  BY Bounds, NoCopyType DEF IInv, TypeOK, Finish, UpdateWithStatus, Succeeds, Fails,
     Leave
<1>2. ASSUME NEW v \in Workers PROVE WorkerInv(v)'
  BY DEF IInv, TypeOK, Finish, UpdateWithStatus, Won, Leave, WorkerInv,
     CopyInv, OwnerInv, ProgressInv, TaskInv, PendingInv, UserPaid, TokenPaid
<1>3. ASSUME NEW u \in Tasks PROVE TaskInv(u)'
  BY DEF IInv, TypeOK, Finish, UpdateWithStatus, Won, Leave, WorkerInv,
     CopyInv, TaskInv, PendingInv, FinishedInv, AtRest, UserPaid, TokenPaid
<1> QED
  BY <1>1, <1>2, <1>3 DEF IInv

\* Upstream reports a pending task.
LEMMA PollPendingInv ==
    ASSUME IInv, NEW w \in Workers, PollPending(w)
    PROVE  IInv'
<1>1. copy[w] \in Task
  BY DEF IInv, TypeOK
<1>2. PICK new \in Task : /\ new.status \in Pending
                          /\ new.quota = copy[w].quota
                          /\ Refresh(w, new)
  <2>1. PICK s \in Pending, c \in BOOLEAN :
          Refresh(w, [copy[w] EXCEPT !.status = s, !.complete = c, !.failures = 0])
    BY DEF PollPending
  <2> DEFINE new == [copy[w] EXCEPT !.status = s, !.complete = c, !.failures = 0]
  <2>2. new \in Task
    BY <1>1, Columns
  <2>3. new.status \in Pending /\ new.quota = copy[w].quota
    BY <1>1 DEF Task
  <2> QED
    BY <2>1, <2>2, <2>3
<1> QED
  BY <1>2, RefreshInv DEF PollPending

\* Upstream reports a finished task.
LEMMA PollTerminalInv ==
    ASSUME IInv, NEW w \in Workers, PollTerminal(w)
    PROVE  IInv'
<1>1. copy[w] \in Task
  BY DEF IInv, TypeOK
<1>2. PICK new \in Task : /\ new.status \in Terminal
                          /\ new.quota = copy[w].quota
                          /\ Finish(w, new)
  <2>1. PICK s \in Terminal, c \in BOOLEAN :
          Finish(w, [copy[w] EXCEPT !.status = s, !.complete = c])
    BY DEF PollTerminal
  <2> DEFINE new == [copy[w] EXCEPT !.status = s, !.complete = c]
  <2>2. new \in Task
    BY <1>1, Columns
  <2>3. new.status \in Terminal /\ new.quota = copy[w].quota
    BY <1>1 DEF Task
  <2> QED
    BY <2>1, <2>2, <2>3
<1> QED
  BY <1>2, FinishInv DEF PollTerminal

\* A failed poll is counted, or fails the task.
LEMMA PollFailsInv ==
    ASSUME IInv, NEW w \in Workers, PollFails(w)
    PROVE  IInv'
<1> DEFINE failures == copy[w].failures + 1
           ended == [copy[w] EXCEPT !.status = "FAILURE", !.complete = TRUE,
                                    !.failures = failures]
           counted == [copy[w] EXCEPT !.failures = failures]
<1>1. copy[w] \in Task /\ pc[w] = "loaded" /\ role[w] = "poll"
  BY DEF IInv, TypeOK, PollFails
<1>2. copy[w].status \in Pending
  BY <1>1 DEF IInv, WorkerInv, CopyInv
<1>3. failures \in Nat
  BY <1>1 DEF Task
<1>4. CASE Finish(w, ended)
  <2>1. ended \in Task
    BY <1>1, <1>3, Columns
  <2>2. PICK new \in Task : /\ new.status \in Terminal
                            /\ new.quota = copy[w].quota
                            /\ Finish(w, new)
    BY <1>1, <1>4, <2>1 DEF Task
  <2> QED
    BY <1>1, <2>2, FinishInv DEF PollFails
<1>5. CASE Refresh(w, counted)
  <2>1. counted \in Task
    BY <1>1, <1>3, Columns
  <2>2. PICK new \in Task : /\ new.status \in Pending
                            /\ new.quota = copy[w].quota
                            /\ Refresh(w, new)
    BY <1>1, <1>2, <1>5, <2>1 DEF Task
  <2> QED
    BY <1>1, <2>2, RefreshInv DEF PollFails
<1> QED
  BY <1>4, <1>5 DEF PollFails

\* A bulk failure bypasses the billing of its task, for good.
LEMMA BulkFailInv ==
    ASSUME IInv, NEW w \in Workers, BulkFail(w)
    PROVE  IInv'
<1>1. TypeOK'
  <2>1. row' \in [Tasks -> Task]
    <3> DEFINE failed == [row[job[w]] EXCEPT !.status = "FAILURE",
                                             !.complete = TRUE]
    <3>1. failed \in Task
      BY Columns DEF IInv, TypeOK
    <3>2. row' = row \/ row' = [row EXCEPT ![job[w]] = failed]
      BY DEF IInv, TypeOK, BulkFail
    <3> QED
      BY <3>1, <3>2 DEF IInv, TypeOK
  <2>2. bypassed' \in [Tasks -> BOOLEAN]
    BY DEF IInv, TypeOK, BulkFail
  <2> QED
    BY <2>1, <2>2, Bounds, NoCopyType DEF IInv, TypeOK, BulkFail, Succeeds,
       Fails, Leave
<1>2. ASSUME NEW v \in Workers PROVE WorkerInv(v)'
  BY DEF IInv, TypeOK, BulkFail, Leave, WorkerInv, CopyInv, OwnerInv,
     ProgressInv, UserPaid, TokenPaid
<1>3. ASSUME NEW u \in Tasks PROVE TaskInv(u)'
  BY DEF IInv, TypeOK, BulkFail, Leave, TaskInv, PendingInv, FinishedInv,
     AtRest, UserPaid, TokenPaid
<1> QED
  BY <1>1, <1>2, <1>3 DEF IInv

\* A client's fetch either leaves a pending task pending, or changes nothing,
\* or bypasses the billing of its task.
LEMMA FetchStatusInv ==
    ASSUME IInv, NEW w \in Workers, FetchStatus(w)
    PROVE  IInv'
<1>1. PICK s \in Pending \cup Terminal, c \in BOOLEAN :
        /\ Refresh(w, [copy[w] EXCEPT !.status = s, !.complete = c])
        /\ bypassed' = [bypassed EXCEPT ![job[w]] =
                          @ \/ (/\ row' # row
                                /\ {s, copy[w].status} \cap Terminal # {})]
  BY DEF FetchStatus
<1> DEFINE t == job[w]
           new == [copy[w] EXCEPT !.status = s, !.complete = c]
           taken == /\ copy[w].status \in Pending /\ s \in Pending
                    /\ row[t].status = copy[w].status
                    /\ row' = [row EXCEPT ![t] = new]
<1>2. copy[w] \in Task /\ new \in Task /\ t \in Tasks
  BY Columns DEF IInv, TypeOK
<1>3. new.status = s /\ new.quota = copy[w].quota
  BY <1>2 DEF Task
<1>4. row' \in [Tasks -> Task]
  BY <1>1, <1>2 DEF IInv, TypeOK, Refresh, UpdateWithStatus
<1>5. bypassed' \in [Tasks -> BOOLEAN]
  BY <1>1 DEF IInv, TypeOK
<1>6. TypeOK'
  BY <1>1, <1>4, <1>5, Bounds, NoCopyType DEF IInv, TypeOK, FetchStatus,
     Refresh, Succeeds, Fails, Leave
<1>7. \A u \in Tasks : u # t => row'[u] = row[u] /\ bypassed'[u] = bypassed[u]
  BY <1>1 DEF IInv, TypeOK, Refresh, UpdateWithStatus
<1>8. bypassed[t] => bypassed'[t]
  BY <1>1, <1>2 DEF IInv, TypeOK
<1>9. ~bypassed'[t] => row' = row \/ taken
  BY <1>1, <1>2 DEF IInv, TypeOK, Task, Refresh, UpdateWithStatus, Won
<1>10. ASSUME NEW v \in Workers PROVE WorkerInv(v)'
  <2>1. CASE job[v] # t
    BY <1>1, <1>7, <2>1 DEF IInv, TypeOK, FetchStatus, Refresh, Leave,
       WorkerInv, CopyInv, OwnerInv, ProgressInv, UserPaid, TokenPaid
  <2>2. CASE job[v] = t /\ bypassed'[t]
    BY <1>1, <2>2 DEF IInv, TypeOK, FetchStatus, Refresh, Leave, WorkerInv,
       CopyInv, OwnerInv, ProgressInv
  <2>3. CASE job[v] = t /\ ~bypassed'[t] /\ row' = row
    BY <1>1, <1>8, <2>3 DEF IInv, TypeOK, FetchStatus, Refresh, Leave,
       WorkerInv, CopyInv, OwnerInv, ProgressInv, UserPaid, TokenPaid
  <2>4. CASE job[v] = t /\ ~bypassed'[t] /\ taken
    <3>1. pc'[v] \notin Billing
      BY <1>1, <1>2, <1>8, <2>4, PendingUnowned DEF IInv, TypeOK, Refresh,
         Leave, AtRest
    <3>2. CopyInv(v)'
      BY <1>1, <1>2, <1>3, <1>8, <2>4 DEF IInv, TypeOK, FetchStatus, Refresh,
         Leave, WorkerInv, CopyInv
    <3> QED
      BY <3>1, <3>2 DEF WorkerInv, OwnerInv, ProgressInv
  <2> QED
    BY <1>9, <2>1, <2>2, <2>3, <2>4
<1>11. ASSUME NEW u \in Tasks PROVE TaskInv(u)'
  <2>1. CASE u # t
    BY <1>1, <1>7, <2>1 DEF IInv, TypeOK, FetchStatus, Refresh, Leave,
       TaskInv, PendingInv, FinishedInv, AtRest, UserPaid, TokenPaid
  <2>2. CASE u = t /\ bypassed'[t]
    BY <2>2 DEF TaskInv, PendingInv, FinishedInv
  <2>3. CASE u = t /\ ~bypassed'[t] /\ row' = row
    BY <1>1, <1>2, <1>8, <2>3 DEF IInv, TypeOK, FetchStatus, Refresh, Leave,
       TaskInv, PendingInv, FinishedInv, AtRest, UserPaid, TokenPaid
  <2>4. CASE u = t /\ ~bypassed'[t] /\ taken
    <3>1. row'[t].status \in Pending /\ row'[t].quota = row[t].quota
      BY <1>2, <1>3, <1>8, <2>4 DEF IInv, TypeOK, FetchStatus, WorkerInv,
         CopyInv
    <3> QED
      BY <1>2, <1>8, <2>4, <3>1 DEF IInv, TypeOK, FetchStatus, TaskInv,
         PendingInv, FinishedInv, UserPaid, TokenPaid
  <2> QED
    BY <1>9, <2>1, <2>2, <2>3, <2>4
<1> QED
  BY <1>6, <1>10, <1>11 DEF IInv

\* The sweep that wins found a pending row: it bills the task, or settles a
\* legacy task for what it has paid.
LEMMA SweepInv ==
    ASSUME IInv, NEW w \in Workers, Sweep(w)
    PROVE  IInv'
<1> DEFINE t == job[w]
           new == [copy[w] EXCEPT !.status = "FAILURE", !.complete = TRUE,
                                  !.quota = IF legacy[t] THEN 0 ELSE @]
<1>1. /\ copy[w] \in Task /\ t \in Tasks /\ copy[w].status \in Pending
      /\ copy[w].quota \in Nat
  BY DEF IInv, TypeOK, Task, Sweep, WorkerInv, CopyInv
<1>2. new \in Task
  BY <1>1, Columns
<1>3. /\ new.status = "FAILURE"
      /\ new.quota = IF legacy[t] THEN 0 ELSE copy[w].quota
  BY <1>1 DEF Task
<1>4. CASE UNCHANGED <<row, due>> /\ Leave(w)
  <2>1. faults' \in 0..MaxFaults /\ crashes' \in 0..MaxCrashes
    BY Bounds DEF IInv, TypeOK, Sweep, Succeeds, Fails
  <2> QED
    BY <1>4, <2>1, LeaveInv DEF Sweep
<1>5. CASE /\ Won(w) /\ legacy[t] /\ Succeeds /\ Leave(w)
           /\ row' = [row EXCEPT ![t] = new]
           /\ due' = [due EXCEPT ![t] = copy[w].quota]
  <2>1. TypeOK'
    BY <1>1, <1>2, <1>5, NoCopyType DEF IInv, TypeOK, Sweep, Succeeds, Leave
  <2>2. ASSUME NEW v \in Workers PROVE WorkerInv(v)'
    BY <1>1, <1>3, <1>5, PendingUnowned DEF IInv, TypeOK, Sweep, Won, Leave,
       AtRest, WorkerInv, CopyInv, OwnerInv, ProgressInv, UserPaid, TokenPaid
  <2>3. ASSUME NEW u \in Tasks PROVE TaskInv(u)'
    BY <1>1, <1>3, <1>5 DEF IInv, TypeOK, Sweep, Won, Leave, WorkerInv,
       CopyInv, TaskInv, PendingInv, FinishedInv, AtRest, UserPaid, TokenPaid
  <2> QED
    BY <2>1, <2>2, <2>3 DEF IInv
<1>6. CASE /\ Won(w) /\ ~legacy[t] /\ Succeeds /\ Bill(w, new, 0)
           /\ row' = [row EXCEPT ![t] = new]
  <2>1. TypeOK'
    BY <1>1, <1>2, <1>6, NoCopyType DEF IInv, TypeOK, Sweep, Succeeds, Bill,
       Leave
  <2>2. ASSUME NEW v \in Workers PROVE WorkerInv(v)'
    <3>1. CASE v = w /\ copy[w].quota = 0
      BY <1>1, <1>3, <1>6, <3>1 DEF IInv, TypeOK, Bill, Leave, WorkerInv,
         CopyInv, OwnerInv, ProgressInv
    <3>2. CASE v = w /\ copy[w].quota # 0
      <4>1. /\ pc'[w] = "funding" /\ copy'[w] = new /\ row'[t] = new
            /\ target'[w] = 0 /\ due'[t] = 0 /\ job' = job
        BY <1>1, <1>3, <1>6, <3>2 DEF IInv, TypeOK, Bill
      <4>2. ~bypassed[t] => AtRest(t)
        BY <1>1, <1>6, PendingUnowned DEF Won
      <4>3. OwnerInv(w)'
        BY <1>1, <1>3, <1>6, <3>2, <4>1, <4>2 DEF IInv, TypeOK, Sweep, Bill,
           AtRest, OwnerInv
      <4>4. ProgressInv(w)'
        BY <1>1, <1>3, <1>6, <4>1 DEF IInv, TypeOK, Sweep, Won, WorkerInv,
           CopyInv, ProgressInv, TaskInv, PendingInv, UserPaid, TokenPaid
      <4> QED
        BY <3>2, <4>1, <4>3, <4>4 DEF WorkerInv, CopyInv
    <3>3. CASE v # w
      BY <1>1, <1>3, <1>6, <3>3, PendingUnowned DEF IInv, TypeOK, Sweep, Won,
         Bill, Leave, AtRest, WorkerInv, CopyInv, OwnerInv, ProgressInv,
         UserPaid, TokenPaid
    <3> QED
      BY <1>1, <3>1, <3>2, <3>3
  <2>3. ASSUME NEW u \in Tasks PROVE TaskInv(u)'
    BY <1>1, <1>3, <1>6 DEF IInv, TypeOK, Sweep, Won, Bill, Leave, WorkerInv,
       CopyInv, TaskInv, PendingInv, FinishedInv, AtRest, UserPaid, TokenPaid
  <2> QED
    BY <2>1, <2>2, <2>3 DEF IInv
<1> QED
  BY <1>1, <1>4, <1>5, <1>6 DEF IInv, TypeOK, Sweep, UpdateWithStatus

\* The user is charged the difference, or the charge is known to be lost.
LEMMA AdjustFundingInv ==
    ASSUME IInv, NEW w \in Workers, AdjustFunding(w)
    PROVE  IInv'
<1> DEFINE t == job[w]
<1>1. /\ t \in Tasks /\ copy[w].quota \in Nat /\ target[w] \in Nat
      /\ Delta(w) \in Int
  BY Numbers DEF IInv
<1>2. /\ UserPaid(t) \in Int /\ TokenPaid(t) \in Int
      /\ surplus[t] \in Nat /\ charged[t] \in Int /\ tokenCharged[t] \in Int
  BY <1>1 DEF IInv, TypeOK, UserPaid, TokenPaid
<1>3. TypeOK'
  <2>1. lost' \in [Tasks -> BOOLEAN]
    BY DEF IInv, TypeOK, AdjustFunding
  <2>2. charged' \in [Tasks -> Int]
    BY <1>1, <1>2 DEF IInv, TypeOK, AdjustFunding
  <2> QED
    BY <2>1, <2>2, Bounds, NoCopyType DEF IInv, TypeOK, AdjustFunding,
       Succeeds, Fails, Leave
<1>4. ASSUME NEW v \in Workers PROVE WorkerInv(v)'
  <2>1. CASE v = w
    BY <1>1, <1>2, <2>1 DEF IInv, TypeOK, AdjustFunding, Leave, WorkerInv, CopyInv,
       OwnerInv, ProgressInv, UserPaid, TokenPaid, Delta
  <2>2. CASE v # w
    BY <1>1, <2>2 DEF IInv, TypeOK, AdjustFunding, Leave, WorkerInv, CopyInv,
       OwnerInv, ProgressInv, UserPaid, TokenPaid
  <2> QED
    BY <2>1, <2>2
<1>5. ASSUME NEW u \in Tasks PROVE TaskInv(u)'
  <2>1. CASE u = t
    BY <1>1, <1>2, <2>1 DEF IInv, TypeOK, AdjustFunding, Leave, WorkerInv, OwnerInv,
       ProgressInv, TaskInv, PendingInv, FinishedInv, AtRest, UserPaid,
       TokenPaid, Delta
  <2>2. CASE u # t
    BY <1>1, <2>2 DEF IInv, TypeOK, AdjustFunding, Leave, TaskInv, PendingInv,
       FinishedInv, AtRest, UserPaid, TokenPaid
  <2> QED
    BY <2>1, <2>2
<1> QED
  BY <1>3, <1>4, <1>5 DEF IInv

\* The token is charged the difference.
LEMMA AdjustTokenInv ==
    ASSUME IInv, NEW w \in Workers, AdjustToken(w)
    PROVE  IInv'
<1> DEFINE t == job[w]
<1>1. /\ t \in Tasks /\ copy[w].quota \in Nat /\ target[w] \in Nat
      /\ Delta(w) \in Int
  BY Numbers DEF IInv
<1>2. /\ UserPaid(t) \in Int /\ TokenPaid(t) \in Int
      /\ surplus[t] \in Nat /\ charged[t] \in Int /\ tokenCharged[t] \in Int
  BY <1>1 DEF IInv, TypeOK, UserPaid, TokenPaid
<1>3. TypeOK'
  <2>1. lost' \in [Tasks -> BOOLEAN]
    BY DEF IInv, TypeOK, AdjustToken
  <2>2. tokenCharged' \in [Tasks -> Int]
    BY <1>1, <1>2 DEF IInv, TypeOK, AdjustToken
  <2> QED
    BY <2>1, <2>2, Bounds DEF IInv, TypeOK, AdjustToken, Succeeds, Fails
<1>4. ASSUME NEW v \in Workers PROVE WorkerInv(v)'
  <2>1. CASE v = w
    BY <1>1, <1>2, <2>1 DEF IInv, TypeOK, AdjustToken, WorkerInv, CopyInv,
       OwnerInv, ProgressInv, UserPaid, TokenPaid, Delta
  <2>2. CASE v # w
    BY <1>1, <2>2 DEF IInv, TypeOK, AdjustToken, WorkerInv, CopyInv,
       OwnerInv, ProgressInv, UserPaid, TokenPaid
  <2> QED
    BY <2>1, <2>2
<1>5. ASSUME NEW u \in Tasks PROVE TaskInv(u)'
  <2>1. CASE u = t
    BY <1>1, <1>2, <2>1 DEF IInv, TypeOK, AdjustToken, WorkerInv, OwnerInv,
       ProgressInv, TaskInv, PendingInv, FinishedInv, AtRest, UserPaid,
       TokenPaid, Delta
  <2>2. CASE u # t
    BY <1>1, <2>2 DEF IInv, TypeOK, AdjustToken, TaskInv, PendingInv,
       FinishedInv, AtRest, UserPaid, TokenPaid
  <2> QED
    BY <2>1, <2>2
<1> QED
  BY <1>3, <1>4, <1>5 DEF IInv

\* The row is told what its task was charged.
LEMMA UpdateQuotaInv ==
    ASSUME IInv, NEW w \in Workers, UpdateQuota(w)
    PROVE  IInv'
<1> DEFINE t == job[w]
<1>1. /\ t \in Tasks /\ copy[w].quota \in Nat /\ target[w] \in Nat
      /\ Delta(w) \in Int
  BY Numbers DEF IInv
<1>2. /\ UserPaid(t) \in Int /\ TokenPaid(t) \in Int
      /\ surplus[t] \in Nat /\ charged[t] \in Int /\ tokenCharged[t] \in Int
  BY <1>1 DEF IInv, TypeOK, UserPaid, TokenPaid
<1> DEFINE new == [row[t] EXCEPT !.quota = target[w]]
<1>6. new \in Task
  BY <1>1, Columns DEF IInv, TypeOK
<1>7. new.quota = target[w] /\ new.status = row[t].status
  BY <1>1 DEF IInv, TypeOK, Task
<1>8. \/ row' = [row EXCEPT ![t] = new] /\ UNCHANGED lost
      \/ row' = row /\ lost' = [lost EXCEPT ![t] = TRUE]
  BY <1>1 DEF IInv, TypeOK, UpdateQuota
<1>9. \A u \in Tasks : u # t => row'[u] = row[u] /\ (lost'[u] <=> lost[u])
  BY <1>8 DEF IInv, TypeOK
<1>10. row'[t].status = row[t].status
  BY <1>1, <1>7, <1>8 DEF IInv, TypeOK
<1>11. ~lost'[t] => ~lost[t] /\ row'[t].quota = target[w]
  BY <1>1, <1>7, <1>8 DEF IInv, TypeOK
<1>12. ~bypassed[t] => row[t].status \in Terminal
  BY DEF IInv, UpdateQuota, WorkerInv, OwnerInv
<1>3. TypeOK'
  <2>1. lost' \in [Tasks -> BOOLEAN]
    BY <1>8 DEF IInv, TypeOK
  <2>2. row' \in [Tasks -> Task]
    BY <1>6, <1>8 DEF IInv, TypeOK
  <2> QED
    BY <2>1, <2>2, Bounds, NoCopyType DEF IInv, TypeOK, UpdateQuota, Succeeds, Fails,
       Leave
<1>4. ASSUME NEW v \in Workers PROVE WorkerInv(v)'
  <2>1. CASE v = w
    BY <2>1 DEF IInv, TypeOK, UpdateQuota, Leave, WorkerInv, CopyInv,
       OwnerInv, ProgressInv
  <2>2. CASE v # w /\ job[v] # t
    BY <1>9, <2>2 DEF IInv, TypeOK, UpdateQuota, Leave, WorkerInv, CopyInv,
       OwnerInv, ProgressInv, UserPaid, TokenPaid
  <2>3. CASE v # w /\ job[v] = t
    BY <1>10, <1>12, <2>3 DEF IInv, TypeOK, UpdateQuota, Leave, WorkerInv,
       CopyInv, OwnerInv, ProgressInv
  <2> QED
    BY <2>1, <2>2, <2>3
<1>5. ASSUME NEW u \in Tasks PROVE TaskInv(u)'
  <2>1. CASE u = t
    <3>1. PendingInv(u)'
      BY <2>1, <1>1, <1>10, <1>12 DEF UpdateQuota, PendingInv
    <3>2. FinishedInv(u)'
      BY <2>1, <1>1, <1>2, <1>11 DEF IInv, UpdateQuota, WorkerInv, OwnerInv,
         ProgressInv, FinishedInv, UserPaid, TokenPaid
    <3> QED
      BY <3>1, <3>2 DEF TaskInv
  <2>2. CASE u # t
    BY <1>1, <1>9, <2>2 DEF IInv, TypeOK, UpdateQuota, Leave, TaskInv,
       PendingInv, FinishedInv, AtRest, UserPaid, TokenPaid
  <2> QED
    BY <2>1, <2>2
<1> QED
  BY <1>3, <1>4, <1>5 DEF IInv

\* A restart in the middle of the billing is a loss; elsewhere it is nothing.
LEMMA CrashInv ==
    ASSUME IInv, NEW w \in Workers, Crash(w)
    PROVE  IInv'
<1> DEFINE t == job[w]
<1>1. t \in Tasks /\ crashes' \in 0..MaxCrashes /\ faults' \in 0..MaxFaults
  BY Bounds DEF IInv, TypeOK, Crash
<1>2. CASE pc[w] = "loaded"
  <2>1. UNCHANGED lost
    BY <1>1, <1>2 DEF IInv, TypeOK, Crash
  <2> QED
    BY <1>1, <1>2, <2>1, LeaveInv DEF Crash
<1>3. CASE pc[w] \in Billing
  <2>1. lost' = [lost EXCEPT ![t] = TRUE]
    BY <1>3 DEF IInv, TypeOK, Crash
  <2>2. lost' \in [Tasks -> BOOLEAN]
    BY <2>1 DEF IInv, TypeOK
  <2>3. lost'[t] /\ \A u \in Tasks : u # t => (lost'[u] <=> lost[u])
    BY <1>1, <2>1 DEF IInv, TypeOK
  <2>4. TypeOK'
    BY <1>1, <2>2, NoCopyType DEF IInv, TypeOK, Crash, Leave
  <2>5. ASSUME NEW v \in Workers PROVE WorkerInv(v)'
    BY <1>1, <2>3 DEF IInv, TypeOK, Crash, Leave, WorkerInv, CopyInv,
       OwnerInv, ProgressInv, UserPaid, TokenPaid
  <2>6. ASSUME NEW u \in Tasks PROVE TaskInv(u)'
    BY <1>1, <2>3 DEF IInv, TypeOK, Crash, Leave, TaskInv, PendingInv,
       FinishedInv, AtRest, UserPaid, TokenPaid
  <2> QED
    BY <2>4, <2>5, <2>6 DEF IInv
<1> QED
  BY <1>2, <1>3 DEF IInv, TypeOK, Crash

\* The final charge is decided once, by the worker that owns the row.
LEMMA FinalizeInv ==
    ASSUME IInv, NEW w \in Workers, Finalize(w)
    PROVE  IInv'
<1> DEFINE t == job[w]
<1>1. /\ t \in Tasks /\ copy[w].quota \in Nat /\ target[w] \in Nat
      /\ Delta(w) \in Int
  BY Numbers DEF IInv
<1>2. /\ UserPaid(t) \in Int /\ TokenPaid(t) \in Int
      /\ surplus[t] \in Nat /\ charged[t] \in Int /\ tokenCharged[t] \in Int
  BY <1>1 DEF IInv, TypeOK, UserPaid, TokenPaid
<1>6. PICK q \in Nat : Bill(w, copy[w], q)
  BY <1>1, Bounds DEF Finalize
<1>3. TypeOK'
  <2>1. /\ UNCHANGED <<row, legacy, ledgerVars, boundVars, bypassed, lost, job>>
        /\ due' = [due EXCEPT ![t] = q]
    BY <1>6 DEF Finalize, Bill, Leave
  <2>2. CASE q = copy[w].quota
    BY <1>1, <1>6, <2>1, <2>2, NoCopyType DEF IInv, TypeOK, Bill, Leave
  <2>3. CASE q # copy[w].quota
    BY <1>1, <1>6, <2>1, <2>3 DEF IInv, TypeOK, Bill
  <2> QED
    BY <2>2, <2>3
<1>4. ASSUME NEW v \in Workers PROVE WorkerInv(v)'
  <2>1. CASE v = w
    BY <1>1, <1>2, <1>6, <2>1 DEF IInv, TypeOK, Finalize, Bill, Leave, WorkerInv, CopyInv,
       OwnerInv, ProgressInv, UserPaid, TokenPaid, Delta
  <2>2. CASE v # w
    BY <1>1, <1>6, <2>2 DEF IInv, TypeOK, Finalize, Bill, Leave, WorkerInv, CopyInv,
       OwnerInv, ProgressInv, UserPaid, TokenPaid
  <2> QED
    BY <2>1, <2>2
<1>5. ASSUME NEW u \in Tasks PROVE TaskInv(u)'
  <2>1. CASE u = t
    BY <1>1, <1>2, <1>6, <2>1 DEF IInv, TypeOK, Finalize, Bill, Leave, WorkerInv, OwnerInv,
       ProgressInv, TaskInv, PendingInv, FinishedInv, AtRest, UserPaid,
       TokenPaid, Delta
  <2>2. CASE u # t
    BY <1>1, <1>6, <2>2 DEF IInv, TypeOK, Finalize, Bill, Leave, TaskInv, PendingInv,
       FinishedInv, AtRest, UserPaid, TokenPaid
  <2> QED
    BY <2>1, <2>2
<1> QED
  BY <1>3, <1>4, <1>5 DEF IInv

\* The submission settles its surplus: what was paid apart from it stays.
LEMMA SettleSubmissionInv ==
    ASSUME IInv, NEW t \in Tasks, SettleSubmission(t)
    PROVE  IInv'
<1>1. TypeOK'
  <2>1. lost' \in [Tasks -> BOOLEAN]
    BY DEF IInv, TypeOK, SettleSubmission
  <2>2. charged' \in [Tasks -> Int] /\ tokenCharged' \in [Tasks -> Int]
    BY DEF IInv, TypeOK, SettleSubmission
  <2>3. surplus' \in [Tasks -> Nat]
    BY DEF IInv, TypeOK, SettleSubmission
  <2> QED
    BY <2>1, <2>2, <2>3, Bounds DEF IInv, TypeOK, SettleSubmission, Succeeds,
       Fails
<1>2. ASSUME NEW v \in Workers PROVE WorkerInv(v)'
  BY DEF IInv, TypeOK, SettleSubmission, WorkerInv, CopyInv, OwnerInv,
     ProgressInv, UserPaid, TokenPaid
<1>3. ASSUME NEW u \in Tasks PROVE TaskInv(u)'
  BY DEF IInv, TypeOK, SettleSubmission, TaskInv, PendingInv, FinishedInv,
     AtRest, UserPaid, TokenPaid
<1> QED
  BY <1>1, <1>2, <1>3 DEF IInv

-----------------------------------------------------------------------------
(* The theorems.                                                           *)

\* A task is inserted with the quota that was reserved for it.
LEMMA InitInv ==
    Init => IInv
<1> SUFFICES ASSUME Init PROVE IInv
  OBVIOUS
<1>1. TypeOK
  <2>1. row \in [Tasks -> Task]
    BY Bounds DEF Init, Task
  <2>2. \A t \in Tasks : row[t].quota \in Nat /\ surplus[t] \in Nat
    BY <2>1, Bounds DEF Init, Task
  <2> QED
    BY <2>1, <2>2, Bounds, NoCopyType DEF Init, TypeOK
<1>2. ASSUME NEW v \in Workers PROVE WorkerInv(v)
  BY DEF Init, WorkerInv, CopyInv, OwnerInv, ProgressInv
<1>3. ASSUME NEW u \in Tasks PROVE TaskInv(u)
  BY <1>1 DEF TypeOK, Task, Init, TaskInv, PendingInv, FinishedInv, UserPaid, TokenPaid
<1> QED
  BY <1>1, <1>2, <1>3 DEF IInv

\* The invariant reads only the variables.
LEMMA StutterInv ==
    ASSUME IInv, UNCHANGED vars
    PROVE  IInv'
<1>1. TypeOK'
  BY DEF IInv, TypeOK, vars
<1>2. ASSUME NEW v \in Workers PROVE WorkerInv(v)'
  BY DEF IInv, vars, WorkerInv, CopyInv, OwnerInv, ProgressInv, UserPaid,
     TokenPaid
<1>3. ASSUME NEW u \in Tasks PROVE TaskInv(u)'
  BY DEF IInv, vars, TaskInv, PendingInv, FinishedInv, AtRest, UserPaid,
     TokenPaid
<1> QED
  BY <1>1, <1>2, <1>3 DEF IInv

\* Every step preserves the invariant: one case per action.
LEMMA NextInv ==
    IInv /\ [Next]_vars => IInv'
<1> SUFFICES ASSUME IInv, [Next]_vars PROVE IInv'
  OBVIOUS
<1>1. ASSUME NEW w \in Workers, NEW t \in Tasks,
             NEW kind \in {"poll", "sweep", "fetch"}, Load(w, t, kind)
      PROVE  IInv'
  BY <1>1, LoadInv
<1>2. ASSUME NEW w \in Workers, Step(w) PROVE IInv'
  BY <1>2, PollPendingInv, PollTerminalInv, PollFailsInv, SkipInv,
     BulkFailInv, FetchStatusInv, SweepInv, FinalizeInv, AdjustFundingInv,
     AdjustTokenInv, UpdateQuotaInv DEF Step
<1>3. ASSUME NEW w \in Workers, Crash(w) PROVE IInv'
  BY <1>3, CrashInv
<1>4. ASSUME NEW t \in Tasks, SettleSubmission(t) PROVE IInv'
  BY <1>4, SettleSubmissionInv
<1>5. CASE Terminated \/ UNCHANGED vars
  BY <1>5, StutterInv DEF Terminated
<1> QED
  BY <1>1, <1>2, <1>3, <1>4, <1>5 DEF Next

\* For every task that no write has bypassed, the row, the copies in flight,
\* the worker that bills it and the two ledgers agree: the inductive
\* invariant.
THEOREM TaskAccounting ==
    Spec => []IInv
BY InitInv, NextInv, PTL DEF Spec

\* Type correctness of the rows, the workers and the ledgers.
THEOREM TypeCorrect ==
    Spec => []TypeOK
<1>1. IInv => TypeOK
  BY DEF IInv
<1> QED
  BY <1>1, TaskAccounting, PTL

\* The winner of UpdateWithStatus is the only worker that bills its task,
\* however many passes overlap, fail or restart.
THEOREM SingleFinalizer ==
    Spec => []OneFinalizer
<1>1. IInv => OneFinalizer
  BY DEF IInv, TypeOK, WorkerInv, OwnerInv, OneFinalizer
<1> QED
  BY <1>1, TaskAccounting, PTL

\* While no worker bills a task its row holds what user and token have been
\* charged for it, so the delta of the next settlement or refund is right.
THEOREM RowIsCharge ==
    Spec => []RowHoldsCharge
<1>1. IInv => RowHoldsCharge
  <2> SUFFICES ASSUME IInv, NEW t \in Tasks, AtRest(t), ~bypassed[t],
                      ~lost[t], ~legacy[t]
               PROVE  row[t].quota = UserPaid(t) /\ row[t].quota = TokenPaid(t)
    BY DEF RowHoldsCharge, UserPaid, TokenPaid
  <2>1. row[t].status \in Pending \cup Terminal
    BY DEF IInv, TypeOK, Task
  <2> QED
    BY <2>1 DEF IInv, TaskInv, PendingInv, FinishedInv
<1> QED
  BY <1>1, TaskAccounting, PTL

\* A finished task at rest has been billed: its charge was decided, and the
\* user and the token have paid it, unless the terminal status came from
\* tryRealtimeFetch or TaskBulkUpdateByID.
THEOREM FinishedIsBilled ==
    Spec => []TerminalIsBilledUnlessBypassed
<1>1. IInv => TerminalIsBilledUnlessBypassed
  BY DEF IInv, TaskInv, FinishedInv, TerminalIsBilledUnlessBypassed, Billed,
     UserPaid, TokenPaid
<1> QED
  BY <1>1, TaskAccounting, PTL

\* A copy in flight never takes a finished row out of its status: it wins only
\* over a pending row.
LEMMA StaleCopyLoses ==
    ASSUME IInv, NEW w \in Workers, pc[w] = "loaded",
           role[w] \in {"poll", "sweep"}, row[job[w]].status \in Terminal
    PROVE  ~Won(w)
BY DEF IInv, WorkerInv, CopyInv, Won

\* What every step leaves of a finished task.
LEMMA StepIsFinal ==
    ASSUME IInv, [Next]_vars, NEW t \in Tasks,
           row[t].status \in Terminal, ~bypassed'[t]
    PROVE  /\ row'[t].status = row[t].status
           /\ due[t] # Undecided => due'[t] = due[t]
<1> DEFINE Goal == /\ row'[t].status = row[t].status
                   /\ due[t] # Undecided => due'[t] = due[t]
<1>1. ASSUME NEW w \in Workers, NEW u \in Tasks,
             NEW kind \in {"poll", "sweep", "fetch"}, Load(w, u, kind)
      PROVE  Goal
  BY <1>1 DEF Load
<1>2. ASSUME NEW w \in Workers,
             PollPending(w) \/ PollTerminal(w) \/ PollFails(w)
      PROVE  Goal
  <2>1. row'[t] = row[t]
    BY <1>2, StaleCopyLoses DEF IInv, TypeOK, PollPending, PollTerminal,
       PollFails, Refresh, Finish, UpdateWithStatus
  <2> QED
    BY <1>2, <2>1 DEF PollPending, PollTerminal, PollFails
<1>3. ASSUME NEW w \in Workers, Sweep(w) PROVE Goal
  <2>1. CASE job[w] = t
    BY <1>3, <2>1, StaleCopyLoses DEF IInv, TypeOK, Sweep, UpdateWithStatus
  <2>2. CASE job[w] # t
    BY <1>3, <2>2 DEF IInv, TypeOK, Sweep, UpdateWithStatus, Bill
  <2> QED
    BY <2>1, <2>2
<1>4. ASSUME NEW w \in Workers, BulkFail(w) PROVE Goal
  BY <1>4 DEF IInv, TypeOK, BulkFail
<1>5. ASSUME NEW w \in Workers, FetchStatus(w) PROVE Goal
  BY <1>5 DEF IInv, TypeOK, FetchStatus, Refresh, UpdateWithStatus, Won
<1>6. ASSUME NEW w \in Workers, Finalize(w) PROVE Goal
  BY <1>6 DEF IInv, TypeOK, Finalize, Bill, WorkerInv, OwnerInv
<1>7. ASSUME NEW w \in Workers, UpdateQuota(w) PROVE Goal
  <2> DEFINE new == [row[job[w]] EXCEPT !.quota = target[w]]
  <2>1. job[w] \in Tasks /\ new.status = row[job[w]].status
    BY DEF IInv, TypeOK, Task
  <2>2. row' = row \/ row' = [row EXCEPT ![job[w]] = new]
    BY <1>7 DEF IInv, TypeOK, UpdateQuota
  <2> QED
    BY <1>7, <2>1, <2>2 DEF IInv, TypeOK, UpdateQuota
<1>8. ASSUME NEW w \in Workers,
             Skip(w) \/ AdjustFunding(w) \/ AdjustToken(w) \/ Crash(w)
      PROVE  Goal
  BY <1>8 DEF Skip, AdjustFunding, AdjustToken, Crash
<1>9. ASSUME NEW u \in Tasks, SettleSubmission(u) PROVE Goal
  BY <1>9 DEF SettleSubmission
<1>10. CASE Terminated \/ UNCHANGED vars
  BY <1>10 DEF Terminated, vars
<1> QED
  BY <1>1, <1>2, <1>3, <1>4, <1>5, <1>6, <1>7, <1>8, <1>9, <1>10
     DEF Next, Step

\* A finished task keeps its status, and its charge once it was decided,
\* whatever copies of it are still in flight.
THEOREM FinishedStays ==
    Spec => FinalIsFinal
<1>1. IInv /\ [Next]_vars =>
        [\A t \in Tasks :
           row[t].status \in Terminal /\ ~bypassed'[t] =>
              /\ row'[t].status = row[t].status
              /\ due[t] # Undecided => due'[t] = due[t]]_vars
  BY StepIsFinal
<1> QED
  BY <1>1, TaskAccounting, PTL DEF Spec, FinalIsFinal
=============================================================================
