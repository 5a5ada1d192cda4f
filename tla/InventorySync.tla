---------------------------- MODULE InventorySync ----------------------------
(***************************************************************************)
(* The inventory synchronisation of one AWS account (server/sync): a       *)
(* claimed job lists the account's resources, a task for each collector    *)
(* and region, upserts what it lists, marks what it no longer sees as      *)
(* deleted, and reports a status.                                          *)
(*                                                                         *)
(* The jobs are those of JobLease, which JobQueue implements: a run is a   *)
(* claim of a job, a transaction that begins with the write fence is a     *)
(* step of the claim that holds the job.  A run that lost its job goes on  *)
(* until it notices, and the writes without a fence are still its to make. *)
(***************************************************************************)
EXTENDS Integers, FiniteSets, CollectorContract

CONSTANTS Resources,
          Tasks,         \* (collector, region) pairs
          TaskOf,        \* the task that lists a resource
          Regional,      \* tasks of regional collectors: done before the global ones
          Provisionable, \* resources that provisioning may record as well
          Account, Type,
          MaxJobs, MaxClaims   \* bounds

ASSUME InventoryAssumption ==
  /\ IsFiniteSet(Resources) /\ IsFiniteSet(Tasks)
  /\ TaskOf \in [Resources -> Tasks]
  /\ Regional \subseteq Tasks
  /\ Provisionable \subseteq Resources
  /\ MaxJobs \in Nat /\ MaxClaims \in Nat

VARIABLES
  state, jobKey, claim, dataJob, dataAttempt,   \* the jobs, see JobLease
  exists,        \* what there is in AWS
  changedAt,     \* when a resource last came or went there
  row,           \* aws_resources: deletedAt set or not
  seen,          \* its lastSeenAt
  history,       \* resource_changes: the last event on the row's presence
  syncStatus,    \* of the account
  queuing,       \* triggerSync() is about to write QUEUED
  runPc, started, \* of each run; syncStartedAt
  task,          \* where its tasks are
  verified,      \* what a provisioning plan has verified in AWS and will record
  todo,          \* what it has listed and not yet upserted
  result,        \* what it will report
  clock,         \* the number of runs started so far: time, as far as it is compared
  \* history variables
  by,            \* the run behind syncStatus
  observed,      \* what it did not skip and what was neither changed nor recorded late
                 \* since it began
  gone,          \* resources that were absent at some time since their row was confirmed
  lateAt         \* when provisioning last recorded a resource that was no longer there

leaseVars == <<state, jobKey, claim, dataJob, dataAttempt>>
invVars   == <<row, seen, history>>
runVars   == <<runPc, started, task, todo, result>>
outVars   == <<exists, changedAt, verified, lateAt>>   \* AWS and provisioning
ghostVars == <<by, observed>>
syncVars  == <<leaseVars, invVars, runVars, outVars, syncStatus, queuing, clock, ghostVars, gone>>

Lease == INSTANCE JobLease WITH Accounts <- {Account}, Types <- {Type}

Runs  == (1..MaxJobs) \X (1..MaxClaims)
NoRun == <<0, 0>>

Results  == {"SUCCEEDED", "PARTIAL", "FAILED"}
Events   == {"none", "DISCOVERED", "REAPPEARED", "DELETED"}
Failures == {"denied", "failed"}
Finished == {"none", "ok", "skipped"} \cup Failures
PCs == {"idle", "claimed", "beginning", "opening", "collecting", "analysing", "bumping",
        "finalizing", "completing", "failing", "reporting", "over"}
Live == PCs \ {"idle", "over"}

\* Everything has its type.
SyncTypes ==
  /\ exists \subseteq Resources /\ gone \subseteq Resources
  /\ row \in [Resources -> {"none", "visible", "deleted"}]
  /\ seen \in [Resources -> Nat] /\ history \in [Resources -> Events]
  /\ syncStatus \in {"NEVER", "QUEUED", "RUNNING"} \cup Results
  /\ queuing \in BOOLEAN
  /\ runPc \in [Runs -> PCs] /\ started \in [Runs -> Nat]
  /\ task \in [Runs -> [Tasks -> {"todo", "storing"} \cup Finished]]
  /\ todo \in [Runs -> SUBSET Resources]
  /\ result \in [Runs -> {"none"} \cup Results]
  /\ clock \in Nat /\ changedAt \in [Resources -> Nat]
  /\ by \in Runs \cup {NoRun} /\ observed \subseteq Resources
  /\ verified \subseteq Provisionable /\ lateAt \in [Resources -> Nat]

\* The account is new, or some earlier run that is over left rows behind; AWS has
\* changed since.
SyncInit ==
  /\ Lease!Init
  /\ exists \in SUBSET Resources /\ gone = Resources
  /\ changedAt = [r \in Resources |-> 0]
  /\ row \in [Resources -> {"none", "visible", "deleted"}]
  /\ seen = [r \in Resources |-> 0]
  /\ history = [r \in Resources |-> CASE row[r] = "none"    -> "none"
                                       [] row[r] = "visible" -> "DISCOVERED"
                                       [] row[r] = "deleted" -> "DELETED"]
  /\ syncStatus = (IF \A r \in Resources : row[r] = "none" THEN "NEVER" ELSE "SUCCEEDED")
  /\ queuing = FALSE
  /\ runPc = [x \in Runs |-> "idle"]
  /\ started = [x \in Runs |-> 0]
  /\ task = [x \in Runs |-> [t \in Tasks |-> "todo"]]
  /\ todo = [x \in Runs |-> {}]
  /\ result = [x \in Runs |-> "none"]
  /\ clock = 0 /\ by = NoRun /\ observed = {}
  /\ verified = {} /\ lateAt = [r \in Resources |-> 0]

Holds(x) == state[x[1]] = "held" /\ claim[x[1]] = x[2]

\* A transaction of x that begins with the fence.
Fenced(x) == Holds(x) /\ Lease!Write(x[1])

RunGoto(x, label) == runPc' = [runPc EXCEPT ![x] = label]

\* An UPDATE of the account by x.
SetStatus(x, s, stored) == syncStatus' = s /\ by' = x /\ observed' = stored

\* runInventorySync() is left: its variables are gone.
Leave(x, label) ==
  /\ RunGoto(x, label)
  /\ started' = [started EXCEPT ![x] = 0]
  /\ task' = [task EXCEPT ![x] = [t \in Tasks |-> "todo"]]
  /\ todo' = [todo EXCEPT ![x] = {}]
  /\ result' = [result EXCEPT ![x] = "none"]

KeepStatus == UNCHANGED <<syncStatus, ghostVars>>
KeepRun    == UNCHANGED <<started, task, todo, result>>
KeepRest   == UNCHANGED <<outVars, queuing, clock>>

-----------------------------------------------------------------------------
(* The queue's side: enqueue, claim, and the column that says QUEUED.      *)

\* triggerSync() then writes QUEUED, the scheduler does not.
Enqueue(j) ==
  /\ Lease!Submit(j, <<Account, Type>>)
  /\ queuing' \in {queuing, TRUE}
  /\ UNCHANGED <<invVars, runVars, outVars, syncStatus, clock, ghostVars, gone>>

MarkQueued ==
  /\ queuing
  /\ queuing' = FALSE
  /\ syncStatus' = "QUEUED"
  /\ UNCHANGED <<leaseVars, invVars, runVars, outVars, clock, ghostVars, gone>>

Claim(x) ==
  /\ Lease!Grant(x[1])
  /\ claim'[x[1]] = x[2]
  /\ RunGoto(x, "claimed")
  /\ UNCHANGED <<invVars, gone>> /\ KeepStatus /\ KeepRun /\ KeepRest

-----------------------------------------------------------------------------
(* runInventorySync().                                                     *)

\* "started" is taken before the first write.
Start(x) ==
  /\ runPc[x] = "claimed"
  /\ clock' = clock + 1
  /\ started' = [started EXCEPT ![x] = clock + 1]
  /\ RunGoto(x, "beginning")
  /\ UNCHANGED <<leaseVars, invVars, task, todo, result, outVars, queuing, gone>> /\ KeepStatus

Begin(x) ==
  /\ runPc[x] = "beginning"
  /\ Fenced(x)
  /\ SetStatus(x, "RUNNING", {})
  /\ RunGoto(x, "opening")
  /\ UNCHANGED <<invVars, gone>> /\ KeepRun /\ KeepRest

\* openAwsSession(); there may be no enabled region.
OpenRunSession(x) ==
  /\ runPc[x] = "opening"
  /\ \E planned \in {Tasks, Tasks \ Regional} :
       task' = [task EXCEPT ![x] = [t \in Tasks |-> IF t \in planned THEN "todo" ELSE "none"]]
  /\ RunGoto(x, "collecting")
  /\ UNCHANGED <<leaseVars, invVars, started, todo, result, gone>> /\ KeepStatus /\ KeepRest

\* It fails: the account is FAILED at once, without the fence, and the error goes on.
OpenFails(x) ==
  /\ runPc[x] = "opening"
  /\ SetStatus(x, "FAILED", {})
  /\ Leave(x, "failing")
  /\ UNCHANGED <<leaseVars, invVars, gone>> /\ KeepRest

MayRun(x, t) ==
  /\ runPc[x] = "collecting"
  /\ task[x][t] = "todo"
  /\ t \notin Regional => \A u \in Regional : task[x][u] \in Finished

SetTask(x, t, s) == task' = [task EXCEPT ![x][t] = s]

Listed(t)  == {r \in Resources : TaskOf[r] = t}
Changed(x) == {r \in Resources : started[x] <= changedAt[r]}
Late(x)    == {r \in Resources : started[x] <= lateAt[r]}

\* collector.collect(), which reads page by page while AWS changes.
Collect(x, t) ==
  /\ MayRun(x, t)
  /\ SetTask(x, t, "storing")
  /\ \E returned \in SUBSET Listed(t) :
       /\ MayReturn(exists \cap Listed(t), Changed(x), returned)
       /\ todo' = [todo EXCEPT ![x] = @ \cup returned]
  /\ UNCHANGED <<leaseVars, invVars, runPc, started, result, gone>> /\ KeepStatus /\ KeepRest

\* It is denied, throttled, the region is not enabled, ...
CollectFails(x, t) ==
  /\ MayRun(x, t)
  /\ \E s \in {"skipped"} \cup Failures : SetTask(x, t, s)
  /\ UNCHANGED <<leaseVars, invVars, runPc, started, todo, result, gone>> /\ KeepStatus /\ KeepRest

\* Mutant: a row that comes back is not told apart from one that stayed.
EventWithoutReturn(r) == IF row[r] = "none" THEN "DISCOVERED" ELSE history[r]

\* The change recorded by an upsert.
Event(r) ==
  CASE row[r] = "none"    -> "DISCOVERED"
    [] row[r] = "deleted" -> "REAPPEARED"
    [] OTHER              -> history[r]

\* The row is confirmed, the event recorded, in one transaction.
Record(r, event) ==
  /\ row' = [row EXCEPT ![r] = "visible"]
  /\ seen' = [seen EXCEPT ![r] = clock]
  /\ history' = [history EXCEPT ![r] = event]
  /\ gone' = IF r \in exists THEN gone \ {r} ELSE gone \cup {r}

\* A batch of persistCollectorResult(): of one resource, the smallest.
Upsert(x, r) ==
  /\ r \in todo[x]
  /\ Fenced(x)
  /\ Record(r, Event(r))
  /\ todo' = [todo EXCEPT ![x] = @ \ {r}]
  /\ UNCHANGED <<runPc, started, task, result>> /\ KeepStatus /\ KeepRest

Stored(x, t) == task[x][t] = "storing" /\ \A r \in todo[x] : TaskOf[r] # t

\* Mutant: rows this run has confirmed itself are taken for stale.
StaleOrFresh(x, r) == row[r] = "visible" /\ seen[r] <= started[x]

\* lastSeenAt < syncStartedAt.
Stale(x, r) == row[r] = "visible" /\ seen[r] < started[x]

\* The last transaction of persistCollectorResult(); its reply may be lost.
MarkStale(x, t) ==
  LET vanished == {r \in Resources : TaskOf[r] = t /\ Stale(x, r)} IN
  /\ Stored(x, t)
  /\ Fenced(x)
  /\ row' = [r \in Resources |-> IF r \in vanished THEN "deleted" ELSE row[r]]
  /\ history' = [r \in Resources |-> IF r \in vanished THEN "DELETED" ELSE history[r]]
  /\ SetTask(x, t, "ok") \/ SetTask(x, t, "failed")
  /\ UNCHANGED <<seen, runPc, started, todo, result, gone>> /\ KeepStatus /\ KeepRest

\* A transaction fails: the task failed, what it had stored stays.
StoreFails(x, t) ==
  /\ runPc[x] = "collecting" /\ task[x][t] = "storing"
  /\ SetTask(x, t, "failed")
  /\ todo' = [todo EXCEPT ![x] = {r \in @ : TaskOf[r] # t}]
  /\ UNCHANGED <<leaseVars, invVars, runPc, started, result, gone>> /\ KeepStatus /\ KeepRest

TasksIn(x, statuses) == {t \in Tasks : task[x][t] \in statuses}

\* Mutant: a denied task is taken for a skipped one.
SummaryWithoutDenials(x, analysisFailed) ==
  LET failed    == TasksIn(x, {"failed"})
      attempted == TasksIn(x, {"ok", "failed"})
      lost      == Cardinality(failed) + (IF analysisFailed THEN 1 ELSE 0)
      all       == Cardinality(attempted) + (IF analysisFailed THEN 1 ELSE 0)
  IN CASE all > 0 /\ lost = all -> "FAILED"
       [] lost = 0              -> "SUCCEEDED"
       [] OTHER                 -> "PARTIAL"

\* summarize(): a failed analysis is one more failed task.
Summary(x, analysisFailed) ==
  LET failed    == TasksIn(x, Failures)
      attempted == TasksIn(x, {"ok"} \cup Failures)
      lost      == Cardinality(failed) + (IF analysisFailed THEN 1 ELSE 0)
      all       == Cardinality(attempted) + (IF analysisFailed THEN 1 ELSE 0)
  IN CASE all > 0 /\ lost = all -> "FAILED"
       [] lost = 0              -> "SUCCEEDED"
       [] OTHER                 -> "PARTIAL"

Regionless(x) == Regional # {} /\ \A t \in Regional : task[x][t] = "none"

Settle(x) ==
  LET s == IF Regionless(x) THEN "FAILED" ELSE Summary(x, FALSE) IN
  /\ runPc[x] = "collecting"
  /\ \A t \in Tasks : task[x][t] \in Finished
  /\ Fenced(x)
  /\ SetStatus(x, s, {r \in Resources \ (Changed(x) \cup Late(x)) : task[x][TaskOf[r]] # "skipped"})
  /\ result' = [result EXCEPT ![x] = s]
  /\ RunGoto(x, IF s = "FAILED" THEN "bumping" ELSE "analysing")
  /\ UNCHANGED <<invVars, started, task, todo, gone>> /\ KeepRest

\* runPostSyncAnalyzers(): each one is tried; then the summary is made again.
Analyse(x) ==
  /\ runPc[x] = "analysing"
  /\ \E failed \in BOOLEAN : result' = [result EXCEPT ![x] = Summary(x, failed)]
  /\ RunGoto(x, "bumping")
  /\ UNCHANGED <<leaseVars, invVars, started, task, todo, gone>> /\ KeepStatus /\ KeepRest

\* inventoryVersion + 1.
Bump(x) ==
  /\ runPc[x] = "bumping"
  /\ Fenced(x)
  /\ RunGoto(x, "finalizing")
  /\ UNCHANGED <<invVars, gone>> /\ KeepStatus /\ KeepRun /\ KeepRest

\* The final status is written if it is not the one the tasks gave.
Finalize(x) ==
  /\ runPc[x] = "finalizing"
  /\ \/ /\ Regionless(x) \/ result[x] = Summary(x, FALSE)
        /\ UNCHANGED leaseVars
        /\ KeepStatus
     \/ /\ ~ (Regionless(x) \/ result[x] = Summary(x, FALSE))
        /\ Fenced(x)
        /\ SetStatus(x, result[x], {})
  /\ RunGoto(x, "completing")
  /\ UNCHANGED <<invVars, gone>> /\ KeepRun /\ KeepRest

-----------------------------------------------------------------------------
(* runJob() around it.                                                     *)

\* completeJob(), whose reply may be lost.
Complete(x) ==
  /\ runPc[x] = "completing"
  /\ Holds(x)
  /\ Lease!End(x[1])
  /\ Leave(x, "over") \/ Leave(x, "failing")
  /\ UNCHANGED <<invVars, gone>> /\ KeepStatus /\ KeepRest

\* A transaction or completeJob() throws something else than LeaseLostError.
Throw(x) ==
  /\ \/ runPc[x] \in {"beginning", "opening", "bumping", "finalizing", "completing"}
     \/ runPc[x] = "collecting" /\ \A t \in Tasks : task[x][t] \in Finished
  /\ Leave(x, "failing")
  /\ UNCHANGED <<leaseVars, invVars, gone>> /\ KeepStatus /\ KeepRest

\* The fence, a heartbeat or completeJob() tells the run that its job is lost.
LoseLease(x) ==
  /\ runPc[x] \in Live \ {"opening", "reporting"}
  /\ ~ Holds(x)
  /\ Leave(x, "over")
  /\ UNCHANGED <<leaseVars, invVars, gone>> /\ KeepStatus /\ KeepRest

\* retryOrFailJob().  A job that is no longer x's is not touched, and still counts as
\* failed.
Retry(x) ==
  /\ runPc[x] = "failing"
  /\ Holds(x) /\ x[2] < MaxClaims
  /\ Lease!GiveBack(x[1])
  /\ Leave(x, "over")
  /\ UNCHANGED <<invVars, gone>> /\ KeepStatus /\ KeepRest

Fail(x) ==
  /\ runPc[x] = "failing"
  /\ \/ Holds(x) /\ Lease!End(x[1])
     \/ ~ Holds(x) /\ UNCHANGED leaseVars
  /\ RunGoto(x, "reporting")
  /\ UNCHANGED <<invVars, gone>> /\ KeepStatus /\ KeepRun /\ KeepRest

\* The account is FAILED, without the fence.
Report(x) ==
  /\ runPc[x] = "reporting"
  /\ SetStatus(x, "FAILED", {})
  /\ Leave(x, "over")
  /\ UNCHANGED <<leaseVars, invVars, gone>> /\ KeepRest

\* The worker dies.
RunDies(x) ==
  /\ runPc[x] \in Live
  /\ Leave(x, "over")
  /\ UNCHANGED <<leaseVars, invVars, gone>> /\ KeepStatus /\ KeepRest

-----------------------------------------------------------------------------
(* AWS, and the other writer of the inventory.                             *)

Change(r) ==
  /\ exists' = IF r \in exists THEN exists \ {r} ELSE exists \cup {r}
  /\ gone' = gone \cup {r}
  /\ changedAt' = [changedAt EXCEPT ![r] = clock]
  /\ observed' = observed \ {r}
  /\ UNCHANGED <<leaseVars, invVars, runVars, syncStatus, queuing, clock, by, verified, lateAt>>

\* verifyResource() of a provisioning plan sees the resource.
VerifyResource(r) ==
  /\ r \in Provisionable \cap exists
  /\ verified' = verified \cup {r}
  /\ UNCHANGED <<leaseVars, invVars, runVars, syncStatus, queuing, clock, ghostVars, exists, changedAt, lateAt, gone>>

\* finishVerified(), some time later: the upsert without an event, of what may be gone by
\* now.  Another call may have verified the same resource.
Provisioned(r) ==
  /\ r \in verified
  /\ verified' \in {verified, verified \ {r}}
  /\ Record(r, history[r])
  /\ IF r \in exists THEN UNCHANGED <<lateAt, observed>>
     ELSE lateAt' = [lateAt EXCEPT ![r] = clock] /\ observed' = observed \ {r}
  /\ UNCHANGED <<leaseVars, runVars, syncStatus, queuing, clock, by, exists, changedAt>>

-----------------------------------------------------------------------------
RunStep(x) ==
  \/ Claim(x)       \/ Start(x)  \/ Begin(x)  \/ OpenRunSession(x) \/ OpenFails(x)
  \/ \E t \in Tasks : Collect(x, t) \/ CollectFails(x, t) \/ MarkStale(x, t) \/ StoreFails(x, t)
  \/ \E r \in Resources : Upsert(x, r)
  \/ Settle(x)      \/ Analyse(x) \/ Bump(x)  \/ Finalize(x)
  \/ Complete(x)    \/ Throw(x)   \/ LoseLease(x)
  \/ Retry(x)       \/ Fail(x)    \/ Report(x)
  \/ RunDies(x)

SyncNext ==
  \/ \E j \in 1..MaxJobs : Enqueue(j)
  \/ MarkQueued
  \/ \E x \in Runs : RunStep(x)
  \/ \E r \in Resources : Change(r) \/ VerifyResource(r) \/ Provisioned(r)

SyncSpec == SyncInit /\ [][SyncNext]_syncVars

-----------------------------------------------------------------------------
(* What must hold.                                                         *)

\* A row becomes deleted only if its resource was absent from AWS at some time since the
\* row was last confirmed, by a run or by provisioning: neither a failing region, nor a
\* slow run, nor a resource created behind a listing ever hides a live resource.
DeletionIsTruthful ==
  [][\A r \in Resources : row[r] = "visible" /\ row'[r] = "deleted" => r \in gone]_syncVars

\* An account that says SUCCEEDED shows of every resource that did not come or go since
\* the run began whether it is in AWS, whatever else changed meanwhile and whatever
\* earlier runs left half done.  The one exception is a resource that provisioning had
\* verified and recorded since then when it was gone (finishVerified() looks no second
\* time): its row is right again with the next run.
FreshAfterSuccess ==
  syncStatus = "SUCCEEDED" => \A r \in observed : (row[r] = "visible" <=> r \in exists)

\* What a successful run shows as present or deleted is what the resource's history says
\* ("discovery, reappearance and confirmed deletion events from successful collector
\* scopes"), but for what provisioning showed as present without an event.
HistoryTold ==
  syncStatus = "SUCCEEDED" => \A r \in observed :
    CASE row[r] = "none"    -> history[r] = "none"
      [] row[r] = "visible" -> history[r] \in {"DISCOVERED", "REAPPEARED"} \/ r \in Provisionable
      [] row[r] = "deleted" -> history[r] = "DELETED"

RowOlder(x, y) == x[1] < y[1] \/ (x[1] = y[1] /\ x[2] < y[2])

\* The status of the account never goes back from a run to an older one ("a worker whose
\* lease was reclaimed cannot overwrite the new owner's result").
ResultKept == [][~ RowOlder(by', by)]_syncVars

=============================================================================
