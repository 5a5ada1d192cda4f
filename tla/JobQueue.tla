------------------------------ MODULE JobQueue ------------------------------
(***************************************************************************)
(* The PostgreSQL-backed job queue (server/jobs) and the worker processes  *)
(* that drain it.  A row of sync_jobs is claimed under a lease, run by a   *)
(* worker, and completed, retried or reclaimed.  The number of the claim   *)
(* (the column "attempts") is the fencing token: runJob() on the claim     *)
(* number a of row j is the run <<j, a>>.                                  *)
(*                                                                         *)
(* Time is kept as what is left until an instant, on the database clock:   *)
(* leaseExpiresAt[j] > 0 reads "leaseExpiresAt > now()".  Worker w's own   *)
(* clock is Skew[w] ticks ahead of the database.                           *)
(***************************************************************************)
EXTENDS Integers, FiniteSets

CONSTANTS MaxJobs,       \* bound: rows ever created, numbered in creation order
          Accounts,      \* AWS accounts
          Types,         \* job types, with a handler or without one
          HandledTypes,  \* job types registerAllJobHandlers() has a handler for
          Workers,       \* worker processes, one identity per process life
          Callers,       \* enqueueJob() calls that may be in flight at once
          NoWorker,      \* SQL NULL in lockedBy
          Skew,          \* clock of a worker minus the clock of the database
          LeaseTicks,    \* LEASE_MS
          BackoffTicks,  \* the delays retryOrFailJob() may draw
          MaxAttempts,   \* maxAttempts of a row
          Concurrency,   \* WORKER_CONCURRENCY
          MaxClaims,     \* bound: claims of one row
          Outcomes,      \* the results a handler returns
          MaxDown,       \* bound: worker processes that stop or die
          Deletable,     \* bound: accounts that may be deleted
          Floor          \* an instant so long past that no guard tells it from an older one

Keys     == Accounts \X Types
NoKey    == <<>>
Jobs     == 1..MaxJobs
Attempts == 1..MaxClaims

ASSUME ConstantsAssumption ==
  /\ MaxJobs \in Nat /\ MaxClaims \in Nat
  /\ HandledTypes \subseteq Types
  /\ NoWorker \notin Workers
  /\ Skew \in [Workers -> Int]
  /\ LeaseTicks \in Nat
  /\ BackoffTicks \subseteq Nat
  /\ Outcomes \subseteq {"SUCCEEDED", "PARTIAL", "FAILED"}
  /\ MaxDown \in Nat /\ Deletable \subseteq Accounts
  /\ MaxAttempts \in Nat \ {0} /\ Concurrency \in Nat
  /\ Floor \in Int /\ Floor < 0 /\ \A w \in Workers : Floor <= Skew[w]

VARIABLES
  \* columns of sync_jobs
  status, key, attempts, lockedBy, leaseExpiresAt, runAfter,
  rowLock,     \* the attempt whose open transaction holds the row FOR UPDATE, 0 if none
  \* runJob() invocations, per row and attempt
  pc, runner,
  leaseLost,   \* the runner's local flag of the same name
  worker,      \* life of each worker process
  call,        \* enqueueJob() calls in flight
  gone,        \* accounts whose row has been deleted
  \* the last job data committed for a key: the row and the attempt that wrote it
  dataJob, dataAttempt

rowVars  == <<status, key, attempts, lockedBy, leaseExpiresAt, runAfter>>
dataVars == <<dataJob, dataAttempt>>
runVars  == <<pc, runner, leaseLost>>
vars     == <<rowVars, rowLock, runVars, worker, call, gone, dataVars>>

Active   == {"QUEUED", "RUNNING"}
Ended    == {"SUCCEEDED", "PARTIAL", "FAILED"}
Statuses == {"none", "deleted"} \cup Active \cup Ended

\* Where a runJob() invocation can be.
Renewing == {"handling", "writing", "completing", "retrying", "failing"}
Live     == {"started", "reporting"} \cup Renewing
PCs      == {"none", "done"} \cup Live

Idle  == [pc |-> "idle", key |-> NoKey]
Calls == {Idle} \cup [pc : {"looking", "threw"}, key : Keys]

RowTypes ==
  /\ status \in [Jobs -> Statuses]
  /\ key \in [Jobs -> Keys \cup {NoKey}]
  /\ attempts \in [Jobs -> 0..MaxClaims]
  /\ lockedBy \in [Jobs -> Workers \cup {NoWorker}]
  /\ leaseExpiresAt \in [Jobs -> Int]
  /\ runAfter \in [Jobs -> Int]
  /\ rowLock \in [Jobs -> 0..MaxClaims]

RunTypes ==
  /\ pc \in [Jobs -> [Attempts -> PCs]]
  /\ runner \in [Jobs -> [Attempts -> Workers \cup {NoWorker}]]
  /\ leaseLost \in [Jobs -> [Attempts -> BOOLEAN]]

OtherTypes ==
  /\ worker \in [Workers -> {"up", "stopping", "exited", "dead"}]
  /\ call \in [Callers -> Calls]
  /\ gone \subseteq Accounts
  /\ dataJob \in [Keys -> 0..MaxJobs]
  /\ dataAttempt \in [Keys -> 0..MaxClaims]

LockedByWhileRunning ==
  \A j \in Jobs : status[j] # "deleted" => (lockedBy[j] \in Workers <=> status[j] = "RUNNING")

RunnerWhileLive ==
  \A j \in Jobs, a \in Attempts : runner[j][a] \in Workers <=> pc[j][a] \in Live

\* The types of the columns and of the runs' locals; a row names a worker exactly while
\* it is RUNNING, a run has one exactly while it lives.
TypeOK == RowTypes /\ RunTypes /\ OtherTypes /\ LockedByWhileRunning /\ RunnerWhileLive

Init ==
  /\ status = [j \in Jobs |-> "none"]
  /\ key = [j \in Jobs |-> NoKey]
  /\ attempts = [j \in Jobs |-> 0]
  /\ lockedBy = [j \in Jobs |-> NoWorker]
  /\ leaseExpiresAt = [j \in Jobs |-> Floor]
  /\ runAfter = [j \in Jobs |-> 0]
  /\ rowLock = [j \in Jobs |-> 0]
  /\ pc = [j \in Jobs |-> [a \in Attempts |-> "none"]]
  /\ runner = [j \in Jobs |-> [a \in Attempts |-> NoWorker]]
  /\ leaseLost = [j \in Jobs |-> [a \in Attempts |-> FALSE]]
  /\ worker = [w \in Workers |-> "up"]
  /\ call = [c \in Callers |-> Idle]
  /\ gone = {}
  /\ dataJob = [k \in Keys |-> 0]
  /\ dataAttempt = [k \in Keys |-> 0]

-----------------------------------------------------------------------------
(* What the WHERE clauses of the queue test for the run <<j, a>>.          *)

LockedByRunner(j, a) == status[j] = "RUNNING" /\ lockedBy[j] = runner[j][a]

\* "attempts" tells the claim from an older one of the same worker.
Claims(j, a) == LockedByRunner(j, a) /\ attempts[j] = a

\* heartbeat(), completeJob(), retryOrFailJob(): leaseExpiresAt > new Date()
HoldsByAppClock(j, a) == Claims(j, a) /\ leaseExpiresAt[j] > Skew[runner[j][a]]

\* jobWriteFence(): leaseExpiresAt > clock_timestamp()
HoldsByDbClock(j, a) == Claims(j, a) /\ leaseExpiresAt[j] > 0

\* Mutant: a unique index that forgets RUNNING rows.
ActiveForQueuedOnly(k) == {j \in Jobs : key[j] = k /\ status[j] = "QUEUED"}

ActiveFor(k) == {j \in Jobs : key[j] = k /\ status[j] \in Active}

At(j, a, label)   == pc[j][a] = label

\* The invocation moves on; leaseLost and its worker are locals that go with it.
Goto(j, a, label) ==
  /\ pc' = [pc EXCEPT ![j][a] = label]
  /\ leaseLost' = [leaseLost EXCEPT ![j][a] = leaseLost[j][a] /\ label \in Renewing]
  /\ runner' = [runner EXCEPT ![j][a] = IF label = "done" THEN NoWorker ELSE runner[j][a]]

InFlight(w) == {r \in Jobs \X Attempts : runner[r[1]][r[2]] = w}

-----------------------------------------------------------------------------
(* enqueueJob(): an INSERT the partial unique index may refuse, then a     *)
(* separate lookup of the row it collided with.                            *)

NextRow == {j \in Jobs : status[j] = "none" /\ \A i \in Jobs : i < j => status[i] # "none"}

EnqueueInsert(c, k) ==
  /\ call[c] = Idle
  /\ k[1] \notin gone
  /\ ActiveFor(k) = {}
  /\ \E j \in NextRow :
       /\ status' = [status EXCEPT ![j] = "QUEUED"]
       /\ key' = [key EXCEPT ![j] = k]
  /\ UNCHANGED <<attempts, lockedBy, leaseExpiresAt, runAfter, rowLock, runVars,
                 worker, call, gone, dataVars>>

\* P2002: the index refuses the row.
EnqueueConflict(c, k) ==
  /\ call[c] = Idle
  /\ ActiveFor(k) # {}
  /\ call' = [call EXCEPT ![c] = [pc |-> "looking", key |-> k]]
  /\ UNCHANGED <<rowVars, rowLock, runVars, worker, gone, dataVars>>

\* findFirst of the active row: returned as deduplicated, or the P2002 is rethrown.
EnqueueLookup(c) ==
  /\ call[c].pc = "looking"
  /\ call' = [call EXCEPT ![c] = IF ActiveFor(call[c].key) # {}
                                 THEN Idle
                                 ELSE [pc |-> "threw", key |-> call[c].key]]
  /\ UNCHANGED <<rowVars, rowLock, runVars, worker, gone, dataVars>>

\* The caller handles the error; the call is over.
EnqueueGiveUp(c) ==
  /\ call[c].pc = "threw"
  /\ call' = [call EXCEPT ![c] = Idle]
  /\ UNCHANGED <<rowVars, rowLock, runVars, worker, gone, dataVars>>

-----------------------------------------------------------------------------
(* claimNextJob() and the start of runJob().                               *)

\* Mutant: expired leases are never reclaimed.
ClaimableWhenQueued(j) == status[j] = "QUEUED" /\ runAfter[j] <= 0 /\ rowLock[j] = 0

Claimable(j) ==
  /\ \/ status[j] = "QUEUED" /\ runAfter[j] <= 0
     \/ status[j] = "RUNNING" /\ leaseExpiresAt[j] < 0
  /\ rowLock[j] = 0                                        \* SKIP LOCKED

ClaimNextJob(w, j) ==
  /\ worker[w] = "up"
  /\ Cardinality(InFlight(w)) < Concurrency
  /\ Claimable(j)
  /\ \A i \in Jobs : Claimable(i) => runAfter[j] <= runAfter[i]  \* ORDER BY runAfter
  /\ attempts[j] < MaxClaims                                \* bound
  /\ status' = [status EXCEPT ![j] = "RUNNING"]
  /\ lockedBy' = [lockedBy EXCEPT ![j] = w]
  /\ leaseExpiresAt' = [leaseExpiresAt EXCEPT ![j] = LeaseTicks + Skew[w]]
  /\ attempts' = [attempts EXCEPT ![j] = attempts[j] + 1]
  /\ pc' = [pc EXCEPT ![j][attempts[j] + 1] = "started"]
  /\ runner' = [runner EXCEPT ![j][attempts[j] + 1] = w]
  /\ UNCHANGED <<key, runAfter, rowLock, leaseLost, worker, call, gone, dataVars>>

StartRun(j, a) ==
  /\ At(j, a, "started")
  /\ key[j][2] \in HandledTypes
  /\ Goto(j, a, "handling")
  /\ UNCHANGED <<rowVars, rowLock, worker, call, gone, dataVars>>

\* What completeJob(), retryOrFailJob() leave in a row they matched.
EndRow(j, s) ==
  /\ status' = [status EXCEPT ![j] = s]
  /\ lockedBy' = [lockedBy EXCEPT ![j] = NoWorker]
  /\ leaseExpiresAt' = [leaseExpiresAt EXCEPT ![j] = Floor]
  /\ UNCHANGED <<key, attempts>>

\* No handler for the type: completeJob(FAILED) without the attempt in its WHERE.
RefuseRun(j, a) ==
  /\ At(j, a, "started")
  /\ key[j][2] \notin HandledTypes
  /\ rowLock[j] = 0
  /\ IF LockedByRunner(j, a) /\ leaseExpiresAt[j] > Skew[runner[j][a]]
     THEN EndRow(j, "FAILED") /\ UNCHANGED runAfter
     ELSE UNCHANGED rowVars
  /\ Goto(j, a, "done")
  /\ UNCHANGED <<rowLock, worker, call, gone, dataVars>>

-----------------------------------------------------------------------------
(* renew(): heartbeat() from the 30 s timer or from the handler.  It waits *)
(* for the row while a transaction has it locked.                          *)

Renew(j, a) ==
  /\ pc[j][a] \in Renewing
  /\ ~ leaseLost[j][a]
  /\ rowLock[j] = 0
  /\ IF HoldsByAppClock(j, a)
     THEN /\ leaseExpiresAt' = [leaseExpiresAt EXCEPT ![j] = LeaseTicks + Skew[runner[j][a]]]
          /\ UNCHANGED leaseLost
     ELSE /\ leaseLost' = [leaseLost EXCEPT ![j][a] = TRUE]
          /\ UNCHANGED leaseExpiresAt
  /\ UNCHANGED <<status, key, attempts, lockedBy, runAfter, rowLock, pc, runner,
                 worker, call, gone, dataVars>>

\* heartbeat() throws: the run takes its lease for lost.
RenewError(j, a) ==
  /\ pc[j][a] \in Renewing
  /\ ~ leaseLost[j][a]
  /\ leaseLost' = [leaseLost EXCEPT ![j][a] = TRUE]
  /\ UNCHANGED <<rowVars, rowLock, pc, runner, worker, call, gone, dataVars>>

-----------------------------------------------------------------------------
(* The handler: transactions that begin with the write fence.              *)

\* Mutant: the fence reads the row without FOR UPDATE.
FenceWriteUnlocked(j, a) ==
  /\ At(j, a, "handling")
  /\ ~ leaseLost[j][a]
  /\ HoldsByDbClock(j, a)
  /\ Goto(j, a, "writing")
  /\ UNCHANGED <<rowVars, rowLock, worker, call, gone, dataVars>>

FenceWrite(j, a) ==
  /\ At(j, a, "handling")
  /\ ~ leaseLost[j][a]
  /\ rowLock[j] = 0
  /\ HoldsByDbClock(j, a)
  /\ rowLock' = [rowLock EXCEPT ![j] = a]
  /\ Goto(j, a, "writing")
  /\ UNCHANGED <<rowVars, worker, call, gone, dataVars>>

\* LeaseLostError, from the local flag or from the SELECT: the run ends in silence.
FenceLost(j, a) ==
  /\ At(j, a, "handling")
  /\ leaseLost[j][a] \/ (rowLock[j] = 0 /\ ~ HoldsByDbClock(j, a))
  /\ Goto(j, a, "done")
  /\ UNCHANGED <<rowVars, rowLock, worker, call, gone, dataVars>>

CommitWrite(j, a) ==
  /\ At(j, a, "writing")
  /\ dataJob' = [dataJob EXCEPT ![key[j]] = j]
  /\ dataAttempt' = [dataAttempt EXCEPT ![key[j]] = a]
  /\ rowLock' = [rowLock EXCEPT ![j] = 0]
  /\ Goto(j, a, "handling")
  /\ UNCHANGED <<rowVars, worker, call, gone>>

\* The transaction fails or times out and is rolled back.
AbortWrite(j, a) ==
  /\ At(j, a, "writing")
  /\ rowLock' = [rowLock EXCEPT ![j] = 0]
  /\ Goto(j, a, "handling")
  /\ UNCHANGED <<rowVars, worker, call, gone, dataVars>>

HandlerReturns(j, a) ==
  /\ At(j, a, "handling")
  /\ Goto(j, a, IF leaseLost[j][a] THEN "done" ELSE "completing")
  /\ UNCHANGED <<rowVars, rowLock, worker, call, gone, dataVars>>

\* retryOrFailJob() tests the attempt it was claimed with, not the row.
AfterError(a, retryable) ==
  IF retryable /\ a < MaxAttempts THEN "retrying" ELSE "failing"

HandlerThrows(j, a) ==
  /\ At(j, a, "handling")
  /\ \E retryable \in BOOLEAN :
       Goto(j, a, IF leaseLost[j][a] THEN "done" ELSE AfterError(a, retryable))
  /\ UNCHANGED <<rowVars, rowLock, worker, call, gone, dataVars>>

-----------------------------------------------------------------------------
(* completeJob(), retryOrFailJob() and the report of a failure.            *)

CompleteJob(j, a) ==
  /\ At(j, a, "completing")
  /\ rowLock[j] = 0
  /\ IF HoldsByAppClock(j, a)
     THEN \E s \in Outcomes : EndRow(j, s) /\ UNCHANGED runAfter
     ELSE UNCHANGED rowVars
  /\ Goto(j, a, "done")
  /\ UNCHANGED <<rowLock, worker, call, gone, dataVars>>

\* completeJob() throws, before or after the database applied it.  The catch
\* block asks leaseLost again and otherwise retries or fails the job.
CompleteError(j, a) ==
  /\ At(j, a, "completing")
  /\ \/ UNCHANGED rowVars
     \/ /\ rowLock[j] = 0
        /\ HoldsByAppClock(j, a)
        /\ \E s \in Outcomes : EndRow(j, s)
        /\ UNCHANGED runAfter
  /\ Goto(j, a, IF leaseLost[j][a] THEN "done" ELSE AfterError(a, TRUE))
  /\ UNCHANGED <<rowLock, worker, call, gone, dataVars>>

RetryJob(j, a) ==
  /\ At(j, a, "retrying")
  /\ rowLock[j] = 0
  /\ IF HoldsByAppClock(j, a)
     THEN /\ EndRow(j, "QUEUED")
          /\ \E d \in BackoffTicks : runAfter' = [runAfter EXCEPT ![j] = d + Skew[runner[j][a]]]
          /\ Goto(j, a, "done")
     ELSE /\ UNCHANGED rowVars
          /\ Goto(j, a, "failing")
  /\ UNCHANGED <<rowLock, worker, call, gone, dataVars>>

\* Mutant: failing a job waits until its row is matched.
FailJobWhenMatched(j, a) ==
  /\ At(j, a, "failing")
  /\ rowLock[j] = 0
  /\ HoldsByAppClock(j, a)
  /\ EndRow(j, "FAILED")
  /\ Goto(j, a, "reporting")
  /\ UNCHANGED <<runAfter, rowLock, worker, call, gone, dataVars>>

\* completeJob(FAILED), whose result retryOrFailJob() ignores.
FailJob(j, a) ==
  /\ At(j, a, "failing")
  /\ rowLock[j] = 0
  /\ IF HoldsByAppClock(j, a)
     THEN EndRow(j, "FAILED") /\ UNCHANGED runAfter
     ELSE UNCHANGED rowVars
  /\ Goto(j, a, "reporting")
  /\ UNCHANGED <<rowLock, worker, call, gone, dataVars>>

\* The SYNC_FAILED audit entry and the unfenced write to the account.
ReportFailure(j, a) ==
  /\ At(j, a, "reporting")
  /\ Goto(j, a, "done")
  /\ UNCHANGED <<rowVars, rowLock, worker, call, gone, dataVars>>

-----------------------------------------------------------------------------
(* Worker processes, account deletion, time.                               *)

MayGoDown == Cardinality({w \in Workers : worker[w] # "up"}) < MaxDown   \* bound

\* The process dies: its transactions are rolled back, its runs are gone.
Crash(w) ==
  /\ worker[w] = "stopping" \/ (worker[w] = "up" /\ MayGoDown)
  /\ worker' = [worker EXCEPT ![w] = "dead"]
  /\ pc' = [j \in Jobs |-> [a \in Attempts |->
              IF runner[j][a] = w THEN "done" ELSE pc[j][a]]]
  /\ leaseLost' = [j \in Jobs |-> [a \in Attempts |->
              leaseLost[j][a] /\ runner[j][a] # w]]
  /\ runner' = [j \in Jobs |-> [a \in Attempts |->
              IF runner[j][a] = w THEN NoWorker ELSE runner[j][a]]]
  /\ rowLock' = [j \in Jobs |->
              IF rowLock[j] # 0 /\ runner[j][rowLock[j]] = w THEN 0 ELSE rowLock[j]]
  /\ UNCHANGED <<rowVars, call, gone, dataVars>>

\* SIGTERM: stop claiming, let the runs in flight finish.
Stop(w) ==
  /\ worker[w] = "up" /\ MayGoDown
  /\ worker' = [worker EXCEPT ![w] = "stopping"]
  /\ UNCHANGED <<rowVars, rowLock, runVars, call, gone, dataVars>>

Exit(w) ==
  /\ worker[w] = "stopping"
  /\ InFlight(w) = {}
  /\ worker' = [worker EXCEPT ![w] = "exited"]
  /\ UNCHANGED <<rowVars, rowLock, runVars, call, gone, dataVars>>

\* Deleting the account deletes its rows; the DELETE waits for locked ones.
DeleteAccount(acct) ==
  /\ acct \in Deletable \ gone
  /\ \A j \in Jobs : status[j] # "none" /\ key[j][1] = acct => rowLock[j] = 0
  /\ gone' = gone \cup {acct}
  /\ status' = [j \in Jobs |-> IF status[j] # "none" /\ key[j][1] = acct
                               THEN "deleted" ELSE status[j]]
  /\ UNCHANGED <<key, attempts, lockedBy, leaseExpiresAt, runAfter, rowLock, runVars,
                 worker, call, dataVars>>

\* One unit of time.  Only active rows are ever compared with the clock.
Sooner(t) == IF t > Floor THEN t - 1 ELSE t

Tick ==
  /\ leaseExpiresAt' = [j \in Jobs |-> IF status[j] = "RUNNING"
                                       THEN Sooner(leaseExpiresAt[j]) ELSE leaseExpiresAt[j]]
  /\ runAfter' = [j \in Jobs |-> IF status[j] \in Active
                                 THEN Sooner(runAfter[j]) ELSE runAfter[j]]
  /\ UNCHANGED <<status, key, attempts, lockedBy, rowLock, runVars, worker, call, gone,
                 dataVars>>

-----------------------------------------------------------------------------
Enqueue ==
  \E c \in Callers :
    \/ \E k \in Keys : EnqueueInsert(c, k) \/ EnqueueConflict(c, k)
    \/ EnqueueLookup(c)
    \/ EnqueueGiveUp(c)

\* One step of the run <<j, a>>.
RunStep(j, a) ==
  \/ StartRun(j, a)     \/ RefuseRun(j, a)
  \/ Renew(j, a)        \/ RenewError(j, a)
  \/ FenceWrite(j, a)   \/ FenceLost(j, a)
  \/ CommitWrite(j, a)  \/ AbortWrite(j, a)
  \/ HandlerReturns(j, a) \/ HandlerThrows(j, a)
  \/ CompleteJob(j, a)  \/ CompleteError(j, a)
  \/ RetryJob(j, a)     \/ FailJob(j, a)
  \/ ReportFailure(j, a)

Next ==
  \/ Enqueue
  \/ \E w \in Workers : (\E j \in Jobs : ClaimNextJob(w, j)) \/ Crash(w) \/ Stop(w) \/ Exit(w)
  \/ \E j \in Jobs, a \in Attempts : RunStep(j, a)
  \/ \E acct \in Accounts : DeleteAccount(acct)
  \/ Tick

Spec == Init /\ [][Next]_vars
-----------------------------------------------------------------------------
(* What must hold.                                                         *)

MayWrite(j, a) ==
  \/ At(j, a, "writing")
  \/ At(j, a, "handling") /\ ~ leaseLost[j][a] /\ HoldsByDbClock(j, a)

\* Of all the runs there ever were for one account and job type, over every row and
\* every claim, at most one can still get a data transaction past its fence: what the
\* unique index, the claim and jobWriteFence() achieve only together.
OneWriterPerKey ==
  \A j1, j2 \in Jobs, a1, a2 \in Attempts :
    /\ key[j1] = key[j2]
    /\ MayWrite(j1, a1)
    /\ MayWrite(j2, a2)
    => j1 = j2 /\ a1 = a2

\* While a data transaction is open its row stays RUNNING under the claim that opened
\* it: no reclaim, completion or account deletion slips between the fence and the commit.
LockedRowIsClaimed ==
  \A j \in Jobs : rowLock[j] # 0 => status[j] = "RUNNING" /\ attempts[j] = rowLock[j]

\* A job goes back to the queue only while retryOrFailJob()'s budget lasts.
RetryWithinBudget ==
  \A j \in Jobs : status[j] = "QUEUED" => attempts[j] < MaxAttempts

DataNoOlder(k) ==
  \/ dataJob'[k] > dataJob[k]
  \/ dataJob'[k] = dataJob[k] /\ dataAttempt'[k] >= dataAttempt[k]

\* The data committed for an account and a job type never goes back to an older job or
\* to an older claim of the same job, however late a reclaimed run wakes up.
NoStaleOverwrite == [][\A k \in Keys : DataNoOlder(k)]_vars

\* A claim ends in a result or a retry only by a step of the run that holds it; a run
\* whose lease was reclaimed cannot complete, fail or requeue its successor's row.  Without
\* a handler runJob() leaves the attempt out of its WHERE, and its own stale run may.
OnlyHolderEndsClaim ==
  [][\A j \in Jobs :
       /\ key[j] \in Accounts \X HandledTypes
       /\ status[j] = "RUNNING"
       /\ status'[j] \in Ended \cup {"QUEUED"}
       => pc'[j][attempts[j]] # pc[j][attempts[j]]]_vars

-----------------------------------------------------------------------------
(* Why it holds: an inductive invariant.                                   *)

\* A row is locked by a run in its data transaction that holds the row's last claim, and
\* a run in its data transaction has the row locked.
LockInv ==
  /\ \A j \in Jobs : rowLock[j] # 0 =>
       status[j] = "RUNNING" /\ attempts[j] = rowLock[j] /\ pc[j][rowLock[j]] = "writing"
  /\ \A j \in Jobs, a \in Attempts : pc[j][a] = "writing" => rowLock[j] = a

\* Rows are created in order, for one key; the active row of a key is its newest.
RowInv ==
  /\ \A i, j \in Jobs : i < j /\ status[j] # "none" => status[i] # "none"
  /\ \A j \in Jobs : status[j] # "none" => key[j] \in Keys
  /\ \A j \in Jobs : status[j] = "none" => attempts[j] = 0
  /\ \A i, j \in Jobs : status[j] \in Active /\ status[i] # "none" /\ key[i] = key[j] => i <= j

\* Runs come from claims, and retry within the budget.
RunInv ==
  /\ \A j \in Jobs, a \in Attempts : pc[j][a] # "none" => a <= attempts[j]
  /\ \A j \in Jobs, a \in Attempts : pc[j][a] = "retrying" => a < MaxAttempts
  /\ RetryWithinBudget

\* The data of a key was written by a row of that key, under a claim it has had.
DataInv ==
  \A k \in Keys : dataJob[k] # 0 =>
    /\ status[dataJob[k]] # "none"
    /\ key[dataJob[k]] = k
    /\ dataAttempt[k] <= attempts[dataJob[k]]

\* The invariant the proofs rest on.
IInv == TypeOK /\ LockInv /\ RowInv /\ RunInv /\ DataInv

-----------------------------------------------------------------------------
(* The queue implements the abstract lease.                                *)

AbstractState(s) ==
  CASE s = "none"    -> "absent"
    [] s = "QUEUED"  -> "waiting"
    [] s = "RUNNING" -> "held"
    [] OTHER         -> "over"

Lease == INSTANCE JobLease WITH
           state  <- [j \in Jobs |-> AbstractState(status[j])],
           jobKey <- key,
           claim  <- attempts

\* Workers, clocks, row locks and the order of the runner's awaits implement the
\* abstract lease: every step is a step of JobLease or changes nothing it sees.
ImplementsLease == Lease!Spec

-----------------------------------------------------------------------------
(* Fairness: the poll loop of a live worker keeps claiming, a handler does *)
(* finitely many writes before it returns or throws, every other step of a *)
(* run is an awaited call that answers.                                    *)

RunFairness(j, a) ==
  /\ WF_vars(StartRun(j, a) \/ RefuseRun(j, a))
  /\ WF_vars(CommitWrite(j, a) \/ AbortWrite(j, a))
  /\ SF_vars(HandlerReturns(j, a) \/ HandlerThrows(j, a))
  /\ WF_vars(CompleteJob(j, a) \/ CompleteError(j, a))
  /\ WF_vars(RetryJob(j, a))
  /\ WF_vars(FailJob(j, a))
  /\ WF_vars(ReportFailure(j, a))

Fairness ==
  /\ WF_vars(Tick)
  /\ \A w \in Workers : WF_vars(\E j \in Jobs : ClaimNextJob(w, j)) /\ WF_vars(Exit(w))
  /\ \A j \in Jobs, a \in Attempts : RunFairness(j, a)

FairSpec == Spec /\ Fairness

\* While some worker stays up, no job stays active for ever: it is run to a result,
\* retried until its budget is gone, or reclaimed after its worker died.  The second
\* alternative is the bound on claims: a job that loses every lease is reclaimed again
\* and again.
JobsEnd ==
  [](\E w \in Workers : worker[w] = "up")
  => \A j \in Jobs : status[j] \in Active ~> status[j] \notin Active \/ attempts[j] = MaxClaims

\* A graceful shutdown ends: every run in flight comes to its end, those that lost their
\* lease included.
StopTerminates ==
  \A w \in Workers : worker[w] = "stopping" ~> worker[w] \in {"exited", "dead"}
=============================================================================
