# Verification of the AWS management system

The repository is a multi-tenant web application (Next.js, Prisma, PostgreSQL) with a
separate worker process. A workspace connects AWS accounts; a job queue in PostgreSQL
collects their inventory, cost, security and optimisation data; members ask for, approve and
execute changes; notifications go out by mail. These TLA+ modules model the parts of it where
several processes, lost answers and crashes meet, the TLC configurations check them on small
instances, and for several of them (section 7) TLAPS proves their safety properties for every
instance.

All paths below are relative to `src/src/` unless they begin with `docs/` or `tests/`.

## 1. The system

### 1.1 Components

| Component | Code | State | Operations |
|---|---|---|---|
| Job queue | `server/jobs/queue.ts`, `lease.ts`, `prisma/schema.prisma` | rows of `sync_jobs` | enqueue, claim, heartbeat, write fence, complete, retry or fail |
| Job runner, worker process | `server/jobs/runner.ts`, `worker/index.ts` | runs in flight, each with a timer and a flag `leaseLost`; a shutdown flag | poll, run, renew, stop on SIGTERM |
| Scheduler | `server/jobs/scheduler.ts` | none of its own | finds accounts that are due, enqueues |
| Manual and initial sync | `server/services/sync-service.ts` | `syncStatus` of the account | enqueue, write QUEUED |
| Inventory synchronisation | `server/sync/inventory-sync.ts`, `persist.ts`, `post-sync.ts` | `aws_resources`, `resource_changes`, the account's status | collect, upsert in batches, mark stale, summarise, analyse, finalise |
| Provisioning | `server/aws/provisioning/service.ts`, `adapters.ts` | `provisioning_plans` | plan, apply, checkpoint, verify, reconcile |
| Connections | `server/services/connection-service.ts`, `aws-session-service.ts`, `server/aws/sts.ts` | `aws_accounts` | connect, validate, diagnose, disconnect |
| Operation plans | `server/services/operation-plan-service.ts` | `operation_plans`, action mode | create, approve, reject, cancel, execute, run what is due |
| Membership | `server/services/organization-service.ts`, `lib/rbac.ts` | memberships, invitations | create a workspace, invite, revoke, accept, change a role, remove |
| Notifications | `server/services/notification-service.ts` | `notification_deliveries` | queue, test, deliver |
| Findings | `server/sync/security-sync.ts`, `optimization-sync.ts`, `server/services/findings-service.ts` | findings with a user status | upsert, resolve what is no longer found |
| Costs | `server/sync/cost-sync.ts` | cost records of days and months | replace a window in one transaction |
| Alerts | `server/services/alert-service.ts` | rules; alerts with a dedupe key | evaluate after a sync, acknowledge, resolve |
| Direct resource actions | `server/services/resource-mutation-service.ts` | the resource's row, patched after the AWS call | start, stop, reboot, resize, tag, configure a bucket |
| Other clouds | `server/services/cloud-service.ts`, `server/cloud/adapters.ts` | connections, cached resources | connect, refresh |
| Tenant cache, live updates | `server/cache/tenant-cache.ts`, `server/services/live-service.ts` | entries under a version that every sync bumps | read, evict, bump |
| Rate limiter | `server/security/rate-limit.ts` | fixed windows | consume |
| Collectors | `server/aws/collectors/`, `paginate.ts`, `retry.ts`, `concurrency.ts`, `errors.ts` | one collector run | list, read details, classify, retry, throw |
| Provisioning set-up | `provisioning/service.ts`, `template.ts`, `components/aws/provisioning-setup.tsx` | external id, guardrails, the owner's stack | prepare, download, enable, disable, save guardrails |
| Dialogs and pages | `components/aws/connect-wizard.tsx`, `create-resource.tsx`, `components/resource/*-actions.tsx`, `tag-editor-dialog.tsx` | steps, forms and copies of rows | connect, plan and confirm, edit |
| Workspace records | `server/services/operations-service.ts`, `simple-service.ts` | items with a version, help requests, projects | save, delete, ask for help, complete |
| Request pipeline | `proxy.ts`, `server/http/route.ts`, `authz/guard.ts` | none of its own | check, authorise, count, answer |
| Platform identity | `server/aws/platform-credentials.ts`, `platform-identity.ts`, `services/platform-setup-service.ts` | one encrypted row, a cache in each process | look up, save, clear, boot |
| Pure libraries | `lib/cidr.ts`, `lib/*` | none | parsing, arithmetic |

`PROJECT.json` lists these with their files and their status, the parts that are not modelled
included.

### 1.2 How they interact

* Everything that writes data for an account in the background does so inside a job. The
  scheduler, the button "sync now" and the connection wizard only *enqueue*. Jobs of one
  account and one type are serialised by a partial unique index over QUEUED and RUNNING rows.
* A worker claims a row under a lease and a number (`attempts`). Each data transaction of the
  handler begins with `jobWriteFence()`, a `SELECT ... FOR UPDATE` of the row that demands
  the worker, the number and an unexpired lease. That is the only thing between a run whose
  lease was reclaimed and the data of its successor.
* The inventory has two writers: the collectors' runs and `finishVerified()` of a
  provisioning plan, which does not go through the queue.
* Provisioning reserves an account with a partial unique index of its own (APPLYING and
  UNKNOWN). Disconnecting counts such plans and then deletes the account, and its jobs with it.
* Operation plans are executed by an HTTP request and by the worker, with a role check
  of the requester and the approver before every command; roles change by membership requests.
* The worker loop runs, one after another and after the claims: the scheduler, due operation plans, and
  notification deliveries.

### 1.3 What is hard about it

Workers and requests interleave at every `await`; a lease runs out while its run still goes on; the
application's clock and the database's are both compared with the same column; replies of AWS,
SMTP and the database are lost after they took effect; a process dies between any two steps;
state read before an await (roles, counts, attempts, a listing) is acted on after it. The
list with one line of code each is under `hazards` in `PROJECT.json`; section 6 names those
that no property covers.

### 1.4 What makes each component correct

* **Queue**: one run at a time may write for a key; an older run or claim never overwrites a
  newer one; only the holder ends its claim; retries are within the budget; no job is stuck.
* **Inventory**: a collector returns everything or throws; a row is marked deleted only if its resource
  really was absent; a success shows what there is; the history agrees with the rows.
* **Findings and alerts**: a finding is resolved only by a scan that could have seen it, and a
  suppression survives scans; what the row keeps as unknown never passes for safe (a plain value may, see 5); an evaluation that failed is made up for by one in full.
* **Costs**: what is called available is complete; zeros of unprepared data never pass for totals.
* **Provisioning**: one creation at a time for an account and the limit holds in the regions that are counted; FAILED means that
  nothing is there, SUCCEEDED that all of it is, and (but for buckets, see 5) that the plan made it; no reservation
  stays for ever; new networks of one region are disjoint; every template handed out works; a form submitted twice makes one plan.
* **Connections**: what is called usable was proven for this very row; a first success gets its first jobs.
* **Direct edits**: a row never shows what never was in AWS.
* **Operation plans**: each command goes out at most once, only after a second person approved
  it, and no longer than both still may; SUCCEEDED means every command took effect.
* **Membership and records**: an owner remains; only owners make and unmake owners and administrators;
  an invitation lets one person in, once; no saved note is lost; help goes to who may read; a project is one save.
* **Notifications**: one sender at a time for a delivery, bounded retries, an end.
* **Requests**: the limit holds in each window, but for requests that count themselves after its row was removed; a cached answer is never older than its version; a page
  follows the stream.
* **Platform identity**: what a process remembers was stored a short while ago.

## 2. The modules

```
JobLease <- refined by -- JobQueue              Rbac <-- Membership, OperationPlan, Workspace,
         <- composed in -- InventorySync                 ResourceEdit <-- ResourcePage
CollectorContract <- kept by -- Collection      CollectorContract <- relied on by -- InventorySync
Connection <-- ConnectWizard                    Provisioning   Creation   CreateDialog
ProvisioningSetup   Findings   FindingRules     CostData   Platform
Requests   CloudConnections   Notification
```

An arrow to the left is EXTENDS unless it says otherwise; both sides of `CollectorContract` extend it, so
that what the one proves is word for word what the other assumes. The others stand alone: what one of them
needs of another it takes as an environment that may do more than the other allows, so that a
property of the one does not rest on the other. Each module has its own Init, Next and
Spec.

`MCJobQueue`, `MCInventorySync`, `MCProvisioning` and `MCCostData` give constants to one module.
`MCTwoJobs` restricts the queue to two families of behaviours (its variable `few`). `MCSync`,
`MCWorker`, `MCAccounts` and `MCWorkspace` put components that share no variable into one run: a
behaviour is one of one component, the variable `part` says of which, and the others rest in an initial
state. So such a run is several independent model checks, and its states are their sum, not their
product. The modules that end in `Proofs` hold theorems (section 7). Operators under the comment "Mutant" are
weakened forms of a definition, with which the property they are meant for fails.

### 2.1 JobLease: what the queue promises

The abstract specification: jobs that are absent, waiting, held or over, numbered claims, and the
job and claim behind the data of each key. Only the claim that holds a job writes, gives back or
ends; a key has at most one open job. There are no clocks, locks, workers or messages.

### 2.2 JobQueue: the queue and the runner

| TLA+ | Code |
|---|---|
| `status`, `key`, `attempts`, `lockedBy`, `leaseExpiresAt`, `runAfter` | columns of `SyncJob` |
| `rowLock` | the `FOR UPDATE` lock a fenced transaction holds |
| `pc`, `runner`, `leaseLost` | one `runJob()` call for each claim |
| `EnqueueInsert`, `EnqueueConflict`, `EnqueueLookup`, `EnqueueGiveUp` | `enqueueJob()`: the insert the index may refuse, then a lookup in a statement of its own |
| `ClaimNextJob` | `claimNextJob()`: one UPDATE over a `SKIP LOCKED` subquery |
| `Renew`, `RenewError` | `renew()`, from the timer or the handler |
| `FenceWrite`, `FenceLost`, `CommitWrite`, `AbortWrite` | a handler's transaction under `jobWriteFence()` |
| `CompleteJob`, `CompleteError`, `RetryJob`, `FailJob`, `ReportFailure` | the end of `runJob()`, with a `completeJob()` whose reply is lost |
| `RefuseRun` | no handler for the type: `completeJob()` without the attempt in its WHERE |
| `Crash`, `Stop`, `Exit` | a worker dies, gets SIGTERM, exits when nothing is in flight |
| `DeleteAccount` | `ON DELETE CASCADE` |

The end of a lease is kept as what is left of it on the database's clock; a worker's clock is `Skew[w]` ticks
ahead. The claim and the fence compare with the database's clock, heartbeat and
completion with the worker's, as in the code. `Floor` is an instant so long past that no guard
tells it from an older one, which keeps the model finite. `Claimable` takes `leaseExpiresAt < 0` for a
reclaim and the fence `> 0`: the instant of expiry itself belongs to neither.

### 2.3 InventorySync: the queue's main customer

Composed with the queue through `JobLease`: a run is a claim of a job, a fenced transaction is
`Lease!Write` of the claim that holds the job, and losing the job is `Lease!Grant` by another. A run that lost its
job goes on until it notices. Tasks are (collector, region) pairs; `Collect` is what a collector returns in the
end, which is no snapshot: by `MayReturn` (`CollectorContract`) it holds every resource that stayed there since the
run began and none that stayed away, and may or may not hold those that came or went;
`Upsert` is a batch (of one resource: any larger batch is several of them with nothing in
between); `MarkStale` is the last transaction of `persistCollectorResult()`, `Settle`,
`Analyse`, `Bump` and `Finalize` are the four steps after collection. `OpenFails` and
`Report` write the account's status without the fence, as the code does. `Change` is AWS. `VerifyResource` and
`Provisioned` are the other writer, a plan that verifies its resource in AWS and writes the row later, in
`finishVerified()`, without another look; `verified` is what is on its way between the two. `by`, `observed`, `gone` and `lateAt`
(when a row was last recorded of a resource that had been removed in between) are history variables that no
guard reads; `changedAt` is read only by what a listing may return. The lease is used, not fairness: the run questions are all safety.

### 2.4 Provisioning

One `applyPlan()` call for each plan (more than one cannot get past the reservation), any number of
`reconcilePlan()` calls, and AWS as the adapters see it: a create request takes effect at most
once (its client token), while the session it was signed with lives, and shows in reads at most
`VisibleTicks` later. `RecordFailure`, `Finish` and `FinishRec` write whatever status
the row has by then, as the code does; `Checkpoint` and `ReleaseAbsent` are conditional, as the code's
are. The owner may remove what was created (`Removable`), and `disconnectAccount()` may count, then delete,
while plans come and go (`Disconnectable`). Instances and VPCs are counted in the regions that were in `effective` when the call read its
connection, as `countInstances()` and `countVpcs()` do; `SetRegions` changes them at any time (an administrator's allowlist, or a validation that finds other
regions enabled). `counted` is the history variable with the regions every count of the account has looked
at, and `WithinLimit` speaks of those. `ProvisioningAssumption` says
what the 30 minutes of the code must cover: expiry (10) + session (15) + visibility + lag. `Diligent` are the
administrators of whom liveness assumes that they try again until a reconciliation gets through.

### 2.5 Rbac, Membership

`Rbac` is the role matrix and `canAssignRole()`, literally. `Membership` splits every request into its
authorisation, which remembers the role, and its execution. `Manage` is one step because
`changeMemberRole()` and `removeMember()` lock the workspace's row first and read the
actor again under the lock; `CheckInvite` and `CreateInvite` are two steps because nothing locks.

### 2.6 OperationPlan

`executeOperation()` split at each await that matters to it: `Load`, the three reads of `Check` (the requester, the approver,
action mode), `Claim`, then for each resource, in one order, the three reads of `Recheck`, `Send` or
`SendFails`, `Record`, and `Finish`. (`Load` takes the worker's own authorisation of the requester with the read of the plan:
`Check` reads that fact again.) As the reads follow one another, the three facts need never hold together:
remove the requester after the first read, restore the approver before the second, and one command goes out for each.
`RevocationStops` therefore counts what goes out while *one* fact fails, for each fact of its own. Any number of calls, by HTTP (`Execute`) or by the worker (`Select`,
whose refusal ends in `Block`). Time is three windows against `scheduledAt` and `expiresAt`, and one flag for
"unwritten for 30 minutes". `OrgChanges` lets every role and the action mode change in one step: it
over-approximates `Membership`, so that the properties do not rest on what `Membership` forbids.

### 2.7 Notification

One pass of `deliverNotifications()` per worker, one row per pass: scan, claim, mail, then SENT or the
catch block. `Fails` stands for an entitlement that is gone, a refusal of SMTP, or a failed write.
`Interrupt` is the first statement of a pass. The history variable `overtaken` marks a row one of whose claims found more attempts
than its scan had: only such a row may be left PENDING with its attempts used up (`LeftBehind`, section 5). Every other
delivery has to end, given up after its third attempt if need be.


### 2.8 Collection, FindingRules, Findings

`Collection` is one collector of the inventory: pages of parallel listings, then the details of each
resource under a limit, then everything or an exception. It keeps `MayReturn`, on which `InventorySync` relies. What tells the nineteen collectors apart is their
`Shape`: the listings, the states left out, what is read of each resource and whether
its failure is fatal, and how failures are settled. `ClassOf` is the classification of errors with its order of
families. `ThrowError` is `withRetry()`, which begins again from nothing. `Vanish` and `Appear` change AWS meanwhile.

`FindingRules` has every rule of the two rule files as an operator from an observation to a set of findings. Its
only actions let an attribute that could not be read turn out to have a value; so the
property is a relation between an observation and every completion of it. The attributes are those that the row keeps as
`{ ok: false }` (`KeptUnknown`) and the signals of the account. Tags, the critical vulnerabilities of an image and the encryption of a queue are plain values
in the row, read or not: the rules take `{}`, null and "unknown" as they are, and so do the operators.

`Findings` is the account's life over several runs: collect, scan, analyse, evaluate alerts, in that order, each
of which may throw, with a worker that dies anywhere and starts the job again, and users who
suppress, resolve and reopen meanwhile. Of a subject it keeps its kind, which says where the scan looks for it: the attributes of a resource,
a row of plain values, the signals of the account, what AWS reports itself, the optimisation. `Observations` says what a read may come to: of a plain value that could not be read
it is the same as that the rule does not apply. `confirmed` are the rows that were seen in this run, `rewritten` says that somebody wrote the
resource's row since: `EditRow` is a direct edit, which writes back what it had read before its commands with the bare values it sent, `RecordProvisioned` a plan that
records its resource. The rule for findings `Taken` takes at most `AlertLimit` fresh ones (200 in the code), or none when it throws, and raises alerts for those
`Watched`; a run that dies may have raised some (`RaiseSome`). The alert about failed syncs is left out. `wasSafe`, `wasBad`, `rewritten`, `evaluated`,
`pending`, `lapses` and `baseline` are history variables.

### 2.9 CostData

One run of the cost synchronisation: it decides from what is stored how far back to fetch, fetches a series at a
time while AWS prepares and restates, and replaces the windows in one transaction. `Coverage` is what
readers are told, `CostSummary` the comparison of the overview. The calendar is a constant (`MonthStart`), with months of different length; of last month are
taken as many days as this one has complete, or all it has, as `Math.min(prevEnd, ...)` does. Amounts are 0 or a small number, since the code tells only zero from the rest.

### 2.10 Connection, ConnectWizard

A validation is split at its awaits: read the row, assume the role, list the regions, probe, write, then the first
jobs and the recommended rules one by one. Access keys go the same way. `SyncMarks` is the
mark a failing synchronisation leaves on the connection, `DisconnectAccount` and `StartConnection` change the row under
everybody's feet, and the customer makes, mends and breaks roles. `ConnectWizard` EXTENDS it with the pages of
the dialog, whose steps are steps of `Connection` (theorem `WizardImplementsConnection`).

### 2.11 ProvisioningSetup, Creation, CreateDialog

`ProvisioningSetup` is the administrators' panel with `prepare`, `download`, `enable`, `disable` and saving the
guardrails, several panels at once; the external id is written once. `Creation` is the content of a plan: guardrails,
the checks before the first change, the calls each service makes in their order, and the search for a resource
whose creation was not answered; its addresses are real CIDR arithmetic over `AddressBits` bits. The time and
the failures of the row are in `Provisioning`. `CreateDialog` is the form with its idempotency
key, which a reload, a lost answer or a second click must not use for something else.

### 2.12 ResourceEdit, ResourcePage

`ResourceEdit` sends the commands of one call in order and then writes the row from what it read at the start,
beside other calls, the synchronisation (which copies what it reads and writes it later) and people at the AWS
console. The bare value a call stores differs from the observed one a collector stores, as in the code.
`ResourcePage` EXTENDS it with pages whose forms start from the row as it was then.

### 2.13 Platform

The row with the encrypted identity, and the cache of each process: a lookup reads, decrypts
and remembers in steps, and a save invalidates the cache of its own process only. `BeginSync` to `LabelSync`
follow a synchronisation through the mode it was opened under and the one it is labelled with.

### 2.14 Requests

A request through proxy, session, rate limit, permission, body and cache to its answer, in the order of the code,
with the purge of past windows, and a page that reads the version stream. The data is a
count of writes; `dataAt` is the history variable that says which data a version announced. A request counts itself in the
window its clock said when it came, which may be over by then: `admitted` counts who was let in under each window, `rounds` how often the row
of a window that had ended was removed. The clocks of the processes are taken to agree.

### 2.15 Workspace

Saved items under the version the client saw, deletions, help requests and projects under the row lock of the
workspace. A transaction is one step per statement, with the lock between them; role changes take the same
lock (`ChangeRole`). `accepted` is the list of notes whose saving succeeded.

### 2.16 CloudConnections

Connecting collects first and writes if the row is still the one it saw; refreshing claims the row under a token and a
lease and writes only while the token is there. Calls stall past their lease. Each listing is page
by page and whole or nothing, so a snapshot is a moment and the credentials it was collected with.

## 3. What the runs show

| Run | What is checked | Bounds |
|---|---|---|
| `JobQueue_two_jobs` | `OneWriterPerKey`, `NoStaleOverwrite`: no run of an older job or claim writes past a newer one | 2 rows of one key, 2 claims each, 2 symmetric workers with 2 runs each; or 1 run each, with retries and deletion |
| `JobQueue_liveness` | `JobsEnd`, `StopTerminates`, and `ImplementsLease` (refinement) | 1 row, 3 claims, budget 2, a type with and one without a handler, 2 workers with clocks a tick apart, one may die or stop, the account may be deleted |
| `Provisioning_one_plan` | `FailedHasNothing`, `SucceededIsComplete`, `ReservationEnds` | 1 plan, 2 administrators of whom one is diligent, expiry 1, session 2, visibility 1, lag 1, wait 5; the resource may be removed, the account disconnected |
| `Sync` | `DeletionIsTruthful`, `FreshAfterSuccess`, `HistoryTold` (one task claimed twice with provisioning; two tasks claimed once); `WithinLimit`, `OneCreation` (two plans in two regions, one of which the allowlist may leave out, room for one resource); `AvailableIsComplete` (costs) | 1 resource, 1 task, 2 claims, or 2 resources, 2 tasks, 1 claim; 3 cost series over days 6 to 8, months of 2, 2, 1, 3 and 3 days, 3 runs, 1 restatement |
| `Worker` | `ReturnsAreComplete`; `StatusIsBacked`, `MissedEvaluationIsMadeUp`; `VerdictsSurviveUnknowns` | five of the nineteen collectors, with every kind of call between them, 3 resources, 2 pages, 2 tries, 1 resource that comes or goes; 2 subjects over 3 runs (two of one resource, one of AWS and an optimisation, one of a plain value and one of the account), 1 change, an evaluation that takes 1 of them, the first of which is the one watched; every sample of `AllSamples` |
| `Accounts` | `UsableIsProven`, `RowsShowWhatWas`, `EveryTemplateWorks`, `PlannedVpcsDisjoint`, `SucceededIsItsOwn`, `OnePlanPerForm`, `MemoryIsRecent` | 2 calls and 3 connection operations with a wizard; a page with three buttons and an API client, 2 edits; 2 symmetric panels, 5 clicks; 2 symmetric plans in a space of 4 address bits; a dialog of 4 steps; 2 symmetric lookups, lifetime 1 |
| `Workspace` | `AlwaysAnOwner`, `PrivilegedByOwner`; `NotesAreKept`, `HelpGoesToReaders`, `ProjectIsOneSave`; `CacheHasItsVersion`, `LimitHolds`, `PageFollowsStream`; `ConnectedIsOneCollection` | 3 users, 2 symmetric requests, 1 invitation; 1 item, 3 asks; 2 windows, 2 writes, limit 1; 6 moments, 2 pages of 2 marks |
| `OperationPlan` | `SentAtMostOnce`, `OnlyApprovedReachesAws`, `RevocationStops`, `PlansEnd` | 1 plan, 2 resources, 2 people, 2 calls |
| `Notification` | `OneSender`, `DeliveriesEnd` | 1 delivery, 3 workers |
| `Notification_replay` | is an interrupted send never replayed? **No**, see 5 | 1 delivery, 2 workers |
| `InventorySync_result` | does a reclaimed run leave its successor's result alone? **No**, see 5 | 1 task, 1 resource, 2 claims |
| `CostData_zeros` | do zeros of unprepared data never pass for totals? **No**, see 5 | as the cost part of `Sync` |

Why these bounds make the interesting cases happen: two rows of a key are needed for an older *job*,
two claims for an older *claim*, and a third claim lets a job be reclaimed after its budget; two workers are the holder
and the reclaimer. A second task is needed for a partial failure, a second resource for a listing
that mixes them. With one resource of room, the second plan is the one that must not create. Two requests
in flight are the two owners that demote each other. Three passes are the least in which a stale scan is claimed
after somebody else's retry, twice. In `Provisioning_one_plan` the wait is exactly the sum of the other times, so
that one tick less would fail. Three runs are the least in which an alert is missed by one evaluation
and made up by the next; two subjects and a limit of one let the watched one be left out. Days 6 and 7 lie in a month of three days that follows a month of one, so that the
comparison runs out of days, and day 8 begins another month. Four address bits hold two private ranges, a VPC and a part of it. Two writes let a cached answer be
behind one version and ahead of another; six moments let a refresh be overtaken by a connection and another
refresh. What is bounded only for TLC is marked `bound` where the constant is declared.

Symmetry is used for workers, the plans of `Creation`, panels, lookups, requests, members and the resources of a collector, in runs of
safety only and for sets no definition tells apart.

Deadlock is checked where the system cannot stop; `CHECK_DEADLOCK FALSE` stands in the runs of `Notification`, `Sync`, `Worker`,
`Accounts`, `Workspace` and `CostData`, whose components really end (a row that is sent, a collector
that returned, an observation that is complete) or reach a bound.

## 4. Fairness

* `JobQueue!FairSpec`: time passes; the poll loop of a live worker claims (weak); each step of a run is an
  awaited call that answers or throws (weak); the handler returns or throws (strong, since it goes in and out of
  transactions). Nothing forces a heartbeat, so a live run may lose its lease, which is why `JobsEnd` has
  the alternative that the bound on claims is reached: the code has no bound on claims by expiry.
  `JobsEnd` assumes that some worker stays up.
* `Provisioning!FairSpec`: time passes; *one* diligent administrator tries again until a
  reconciliation gets through (strong: attempts may fail in between), the others need not come back, but their last
  statement does not hang for ever; a partial bucket is repaired in the end. Nothing is assumed of the applying
  call, which may die at any time. `ReservationEnds` has two alternatives, both real, see 5: the resource
  was removed in AWS, or the account was disconnected.
* `OperationPlan!FairSpec`: time passes and the worker loop comes round to expire plans and set interrupted ones
  to CHECK_REQUIRED. Nothing is assumed of the executing calls.
* `Notification!FairDeliverySpec`: time passes, the loops come round (strong: a row is out of PENDING while
  another pass has it), SMTP has timeouts so a pass goes on, and a worker does not die every time between its
  scan and its claim.

All other specifications state safety only and assume no fairness.

## 5. Where the code disagrees with itself or its documents

With a run that shows it:

1. **A reclaimed run overwrites its successor's result** (`InventorySync_result`).
   `server/jobs/queue.ts:15` says that a worker whose lease was reclaimed cannot overwrite the new
   owner's result. The data transactions and `completeJob()` keep that promise; the
   status FAILED that `runInventorySync()` writes when it cannot open a session
   (`server/sync/inventory-sync.ts:85`) and the one `runJob()` writes after a failure have no fence.
2. **An interrupted send is replayed** (`Notification_replay`). `notification-service.ts:38` says that an
   interrupted send is never replayed automatically; the catch block (`:60`) writes PENDING
   whatever the row says, CHECK_REQUIRED included.
3. **Old zeros pass for totals** (`CostData_zeros`). `server/sync/cost-sync.ts:40` says that all zeros make
   a run fetch everything again, and `cost-service.ts:93` that "available" would present a misleading 0.00.
   Usable history is counted over all dimensions (`cost-sync.ts:42`), so when AWS finishes
   between two series of one run the zeros of the first stay.

Seen while modelling, without a run of their own. The models contain these behaviours unless a line says otherwise.

*Queue, inventory, collectors*

* `enqueueJob()` looks the colliding row up after the insert failed; if that job ended in between, the caller gets the
  unique violation (`server/jobs/queue.ts:59`).
* A row whose workers die is claimed again with no limit; only errors count against `maxAttempts` (`queue.ts:82`, `:121`).
* A failed analysis turns a sync whose tasks were all skipped into FAILED (`inventory-sync.ts:155`).
* A final PARTIAL may be written after the version was raised (`inventory-sync.ts:157`): a page waits for the next one.
* The account is labelled with the mode at the *end* of its sync (`inventory-sync.ts:145`), while the comment
  before it and the layout speak of the mode its data came from.
* What provisioning shows has no DISCOVERED event (`provisioning/service.ts:645`); `HistoryTold` exempts it.
* `finishVerified()` does not look at AWS again (`provisioning/service.ts:558`, `:747`, then `:615-690`): a resource that is removed between the verification
  and the row's write, with a synchronisation passing in between, stays active after SUCCEEDED until the next run. `FreshAfterSuccess` exempts it.
* A table or cluster deleted between List and Describe fails its whole collector; ECR stops at 20 pages of images.
* `docs/ARCHITECTURE.md` (lines 64, 76, 110) describes deduplication by advisory locks; the code uses a
  partial unique index. `docs/RBAC.md` does not list the role PROVISIONER.

*Findings and alerts*

* The baseline (`server/jobs/register.ts:22`) is the start of the last job: two evaluations that fail one after
  the other, or one that fails after a job that was given up, lose alerts for good. `MissedEvaluationIsMadeUp` is
  therefore about one missed evaluation; section 7.6 tells how a proof attempt found the bound in its first form.
* Some collectors keep an attribute they could not read as a plain value: `{}` for tags, null for the scan of an image (`collectors/services.ts:270-285`), "unknown"
  for the encryption of a queue (`:449`). A direct edit stores bare values in place of observations (`resource-mutation-service.ts:424`, `:460`). For neither does the rule
  apply, and nothing says that it was not read: an open finding is resolved with no observation behind it. The comment of
  `hasUnknownObservation()` (`security-sync.ts:11`) promises that unknown never resolves, of the observations it can see. `StatusIsBacked` leaves both cases out, and the model has them.
* An evaluation takes 200 findings at most, in no order (`alert-service.ts:140`), and a rule that throws is logged and passed over while the job goes on to
  SUCCEEDED (`:203-205`). What was not taken is made up for only by the next evaluation, and only if that one is in full; after two that were not, it is lost.
* A reopened finding never alerts again; optimisation findings resolve on unknown data; `enableRecommendedRules()`
  checks and then creates, so two calls may create each rule twice.

*Costs*

* NoRegion is merged into "global" and `skipDuplicates` then drops one of the amounts (`cost-explorer.ts:68`; not modelled).
* A gap longer than 45 days is never filled; comparing two months needs only one day of each (`cost-service.ts:155`).
* "Same days of last month" are all of last month when it has fewer (`Math.min(prevEnd, ...)`, `cost-service.ts:140`), while the comment (`:131`) and the
  page speak of the first N days: on 31 March thirty complete days are compared with twenty-eight.

*Provisioning*

* A plan whose saved resource was removed in AWS is verified without success for ever and keeps its
  account reserved (`provisioning/service.ts:713`).
* `disconnectAccount()` counts reserved plans and then deletes in another statement
  (`connection-service.ts:382`): a plan reserved in between goes on creating in an account the application has forgotten.
  The version is raised in a third statement.
* The verification of a VPC (`network.ts:230`) never reads the DNS attributes its review promises (line 259 of the repository's `README.md`).
* In us-east-1 CreateBucket adopts a bucket the owner already has; and reconciliation goes by a bucket's name alone
  (`adapters.ts:569-578`): a plan whose process died before its request can end SUCCEEDED with the bucket of the owner,
  or of an earlier plan with the same name and tags. `SucceededIsItsOwn` names both as its exceptions.
* VPCs are compared with those of the plan's region only (`network.ts:69`), as its comment says; ranges of two regions may overlap.
* The limit is counted in the regions that are in effect (`adapters.ts:276-315`, `network.ts:317`): once the allowlist is narrowed (`connection-service.ts:361`), what the account
  has in the other regions no longer counts, and the account as a whole may have more than its limit. `WithinLimit` speaks of the regions that every count has looked at.
* DescribeVpcs and DescribeSubnets read one page; the owner may create a VPC between the check and the creation.
* A late "enable" overrides a "disable" (`service.ts:249`); saved guardrails overwrite another administrator's;
  after "Guardrails saved" the panel keeps the old template although it asks to download the new one.
* The dialog keeps the tick for a public resource through "Edit configuration"; reopening it ends "busy" while a call is in flight.

*Connections and the platform*

* After a first PERMISSION_PROBLEM the initial sync and the recommended rules are never enqueued; connecting by
  access key enqueues none; a late mark of a failing sync, or a late failed validation, overwrites a newer CONNECTED.
* The set-up effect of the wizard is never retried (`connect-wizard.tsx:31`); "Back" during a verification jumps
  forward when the answer comes; every new row has a new external id, so an old role must be made anew.
* A lookup in flight remembers a removed key again (until its lifetime is over); a process that has not
  asked yet answers from fixtures.

*Direct edits and pages*

* A direct edit stores bare values where the page and `lib/resource-types.ts:73` expect observed ones: after it
  the S3 form starts from "off" and Apply suspends the versioning (`resource-mutation-service.ts:417`).
* For kinds without a command (`other`) the row takes the tags although nothing was sent, contrary to the comment at `resource-mutation-service.ts:115`
  ("any resource"); the model has the behaviour, and `RowsShowWhatWas` speaks of the kinds that get commands. "start" on a running instance shows "pending".
* Forms and the tag editor start from the row as it was when the page opened (`s3-actions.tsx:47`,
  `ec2-actions.tsx:52`, `tag-editor-dialog.tsx:45`).

*Workspace, requests, plans, mail*

* The first snapshot of the stream is not compared with what the page was rendered from (`live-updates.tsx:42`).
* `route.ts` validates before it authorises, against its own comment (`:18`).
* Two saves may each see room for the five hundredth item; `completeHelp()` may reopen a request beside another open
  one; deleting an item needs no version; a second budget rule may be created.
* A notification row whose attempts were used up by overlapping scans stays PENDING for ever.
* A request that read its clock in one window and counts itself after that window has ended and the worker has removed its row
  begins the count at 1 again (`rate-limit.ts:58`, `:68`, `:92`): `LimitHolds` allows the limit once more for each such removal.
* An operation run that stalls past 30 minutes goes on sending after its plan was set to CHECK_REQUIRED; each
  command still goes out once at most.

## 6. Hazards no property covers

Three of the hazards in `PROJECT.json` have none:

* `components/resource/s3-actions.tsx:48`: the form starts from what the page read. Nothing in the repository states
  what the form must show; the model has the behaviour, and `RowsShowWhatWas` holds around it.
* `server/services/connection-service.ts:213`: a validation that fails late overwrites a newer CONNECTED. The
  connection is then unusable until it is validated again; `UsableIsProven` speaks of usable ones.
* `server/services/operations-service.ts:88`: items are counted before one is created. Counting is abstracted to a refusal
  that may come at any time.

## 7. What is proved

Eight modules hold the proofs. Every theorem is of the form `Spec => []Inv`, `Spec => [][A]_vars` or
`Spec => AbstractSpec`, for all values of the constants that satisfy the named assumptions of the modules. These
say that sets and bounds are what their names say (a number, a non-empty set, a marker that is none of the things it
stands in for), and in four cases more:

* `ProvisioningAssumption`: the 30 minutes of the code cover expiry (10), session (15), visibility and lag.
  `FailedLeftNothing` needs it: with a tick less the model has a counterexample.
* `SizesAssumption` (`Creation`): the size of a larger CIDR block is a multiple of a smaller one's. That is a fact
  about powers of two that takes induction to prove; TLC evaluates it.
* `CostAssumption` (`CostData`): a later run fetches so far back that it meets what AWS may have restated since
  the last (`ShortBack`, 45 days in the code; `MaxGap` is how long a run may stay away), and the backfill reaches
  to the beginning of last month (395 days in the code), so that it can be compared. Of the calendar it says that
  months follow each other and that every day is in one.
* `SamplesAssumption` (`FindingRules`): a sample has the fields that the rules of its type read, and no more is assumed of it. The theorem speaks of the
  attributes that the row keeps as unknown; tags, the result of an image scan and a queue's encryption are plain values, a failed read of
  which passes for a known one (section 5), and nothing is said of what they turn out to be.

For each component the properties are not inductive as they stand; an invariant `...Inv` strengthens them, holds
initially, is kept by every action (a lemma each) and implies them. The symmetric sets, bounds and `part` of the
runs play no role in the proofs. Clocks need not agree, lists need not be short, and the number of
processes, calls, people and runs is arbitrary.

### 7.1 The queue (`JobQueueProofs`)

| Theorem | States |
|---|---|
| `TypeCorrect`, `Inductive` | types, and `IInv` |
| `LockedRows`, `Budget` | a row in a fenced transaction is RUNNING under its claim; retries within the budget |
| `OneWriter` | `OneWriterPerKey` |
| `NoStale` | `NoStaleOverwrite` |
| `HolderEnds` | a claim is ended only by the run that holds it |
| `Refinement` | `ImplementsLease`: the queue implements `JobLease` |

`IInv` adds to the types: `LockInv` (a row is locked exactly by the run in its data transaction, and that run has the
row's last claim; kept by reclaims because they skip locked rows, by completions and deletions because
they wait), `RowInv` (rows are created in order, and the active row of a key is its newest: the partial unique
index seen over time), `RunInv` (a run exists only of a claim that was made) and `DataInv` (the data of a key comes
from a row of that key, under a claim it has had). `RunStepShape` says once what a step of a run can do to
its row; every other lemma uses it in place of the fifteen actions. `Refinement` maps each action to one of `JobLease`
or to a stutter, lemma by lemma. The order of the clocks is no assumption: safety does not rest
on synchronised clocks, only the time until a job is reclaimed does.

### 7.2 The two synchronisations (`SyncProofs`)

`SyncTypeCorrect`, `SuccessIsFresh` (`FreshAfterSuccess`), `HistoryIsToldRight` (`HistoryTold`) and
`DeletionsAreTruthful` (`DeletionIsTruthful`), for any resources, tasks, jobs and claims.

`SyncInv` has the jobs as `JobLease` leaves them (`LeaseInv`: a job has one holder), time (`WorldInv`), rows written
together with their history (`HistoryInv`), and for each run: where it may be (`RunShape`), that what it did not list or has
stored is gone or was confirmed since it began (`Confirmed`), that, *of every resource that has not come or gone since it
began*, it lists what there is, rows it stored are fresh and rows it marked are gone (`AsListed`), and that the run that holds
the job has withdrawn the last success before it stores anything (`Withdrawn`). `Confirmed` holds of
reclaimed runs too and gives the deletions; `AsListed` and `Withdrawn` are about the holder
only, which is why a step that moves the job must show that no run but the new one holds it (`LeaseGranted`).

A listing that is read while AWS changes needs one fact more, in `WorldInv`: what came or went since its
row was confirmed is `gone`. What a plan records late, of a resource that is no longer there, is the one thing a run's batches cannot vouch for: `Late`
takes it out of what `AsListed` says of the run. Whatever such a listing lacks, a row that was confirmed behind it is younger than the run
and stays, and any other was absent for a while.

`AvailableStaysComplete` (`AvailableIsComplete`) is about `CostData`, for any series, windows, days between runs and
restatements. `RowsInv` says what the last good run left: every period from its backfill to its day is stored, with what
AWS charges unless that was restated since the run began (`CostsStored`), or everything is zero, and no
restatement is older than `Restatable` allows. `CostRunInv` says the same of what a run
has fetched so far. The step that matters is `CommitCosts`: what is replaced and what is left must meet
(`WindowsMeet`), which is where `CostAssumption` is used. `MonthFacts`, `MonthsGoOn` and `DayFacts` are what the proof needs of a calendar: the
month of a day is one and holds it, months do not go back, and this month and the last lie in the days that are stored. The sums need no induction: a total over the same days of the
same amounts is the same total (`SumOverCharges`); only the number of days is counted (an interval has a cardinality).

### 7.3 Provisioning (`ProvisioningProofs`)

`ProvisioningTypeCorrect`, `OneMayCreate` (`OneCreation`), `LimitIsNotExceeded` (`WithinLimit`), `FailedLeftNothing`
(`FailedHasNothing`), `SuccessIsComplete` (`SucceededIsComplete`).

The argument has two halves. *Time*: `InTime` says that as long as a creation may still take effect the age of the plan plus what
is left of its session lies below the age at which anybody may give it up, and that what was created shows
before then; hence a reconciliation that found nothing is right or will find the plan too young (`RecInv`).
*Room*: `OneReserved` is the index; `RoomForOne` says that whoever may still create has found room among everything that
is there in the regions that every count has looked at (`Made`), which is kept because nobody else may create meanwhile and because these regions
only become fewer (`Narrows`), whatever the allowlist does. The limit follows from both and a lemma on
the cardinality of a set with one element more.

### 7.4 Accounts (`AccountsProofs`)

| Component | Theorems | What the invariant adds |
|---|---|---|
| `ProvisioningSetup` | `SetupTypeCorrect`, `TemplatesWork` | `HasExternalId`: a request that is about to answer has an external id stored; `HeldTemplatesWork`: of templates shown, downloaded or deployed |
| `Connection`, `ConnectWizard` | `ConnectionTypeCorrect`, `UsableMeansProven`, `WizardImplementsConnection` | `CallsFit`: a call past its check carries a credential shown to be of the account for this row; `KeyIsProven`: needed since a role that is written later leaves the method of the row as it was |
| `Creation` | `CreationTypeCorrect`, `SuccessIsOwn`, `PlannedVpcsStayDisjoint` | `OneInProgress`: the reservation; `VpcsAreApart`: a plan whose checks passed, or that created, is apart from all that created in its region: kept because nobody else may create in between; `ResourcesAreWhose`: whose each resource is, and that a bucket that appears between the checks and the request of a plan is the owner's, never another plan's. Disjointness of addresses then follows from the arithmetic of blocks |
| `CreateDialog` | `DialogTypeCorrect`, `OneFormOnePlan` | `OneKeyPerForm`: keys in flight or stored and the forms they stem from determine each other; `KeysAreUnique`: the unique index |
| `Platform` | `MemoryStaysRecent` | `StoredUntilNow`, `MemoryWasStored`: what a cache holds, or a lookup will remember, was stored at the time it is dated from |
| `ResourceEdit`, `ResourcePage` | `EditTypeCorrect`, `RowsShowTheCloud`, `PagesShowTheCloud` | `RestIsLeft`: whatever a call asks for either has a command left or was the resource's at some time |

The last three hold for every set of kinds. `RowsShowWhatWas` speaks of resources whose kind gets commands (`resKind # "other"`): the code
writes the rows of the others without sending anything (section 5).

### 7.5 The workspace (`WorkspaceProofs`)

| Component | Theorems | What the invariant adds |
|---|---|---|
| `Requests` | `RequestsTypeCorrect`, `CacheIsNeverBehind`, `LimitIsKept`, `PageIsNeverBehind` | `VersionsFollowWrites`, `ComputedAfterVersion`: whoever computes has read its version before the data; `BucketsCount`: who was let in under a window is counted in its row, or was counted in one that was removed after the window had ended |
| `Workspace` | `WorkspaceTypeCorrect`, `TimelinesAreWhole`, `HelpIsAskedOfReaders`, `ProjectsAreOneSave` | `LockHeld`; `RecipientReads`, `ProjectChecked`: what a transaction found still holds, because roles and projects change under the same lock; `SaveRemembers`: notes read under a version are that version's |
| `CloudConnections` | `CloudTypeCorrect`, `OneCollectionPerConnection`, `NoLifeAfterDisconnect`, `LaterSnapshotsStay` | `RowIsDated`, `ReadIsYounger`, `ClaimIsMine`: a claim whose token is still in the row has the row's credentials; listings of a claim are younger than what is stored |
| `Membership` | `MembersTypeCorrect`, `OwnerRemains`, `PrivilegedChanges`, `SingleUse` | `AcceptsOwn`, `Targets`: what a request authorised earlier carries. `AlwaysAnOwner` itself is inductive but for the types, because `Manage` counts under the lock; `OnlyOwnerAssigns` is the fact about the role matrix behind `PrivilegedChanges` |

### 7.6 The worker's jobs (`WorkerProofs`)

| Component | Theorems | What the invariant adds |
|---|---|---|
| `Findings` | `FindingsTypeCorrect`, `ChangesAreBacked` (`StatusIsBacked`), `EvaluationMakesUp` (`MissedEvaluationIsMadeUp`) | `RunRemembers`, `ObservedThen`: what a run holds was so at some time during it, unless somebody wrote the row since (`ObservedOf` has the exception of plain values); `EvaluatedAtEnd`: an evaluation in full leaves nothing behind; `PendingOfThisJob`, `PendingOfLastJob`: what waits for an evaluation is as young as the job of the lapse |
| `FindingRules` | `VerdictsStand` (`VerdictsSurviveUnknowns`) | nothing: it is a step property of any samples that have what the rules read. By type and field: what the rules say of a resource of which less is known (`AccountVerdicts`, `BucketVerdicts`, `ResourceVerdicts`, `AdviceStands`) |
| `Collection` | `ReturnsStayComplete` (`ReturnsAreComplete`) | `StayingIsListed`: what stayed there has been listed or is still to come, and what stayed away has not; `SettledWell`: "gone" means absent for a while, and what could not be read was not merely throttled. `PromiseOfAnAttempt`: the promise of a retried attempt is the one `InventorySync` relies on |

`MissedEvaluationIsMadeUp` used to take every job that ended alike. The proof of `PendingOfLastJob` then failed: the baseline
that `register.ts` reads is the start of the last job that *completed*, and a history of four runs, one more
than TLC's bound, with a job that was given up in it, loses an alert for good. The condition of the property is now what
the code can keep (`lapses.completed <= 1`: no job but the last completed one had ended since the last
evaluation), and section 5 lists the rest as a behaviour of the code.

### 7.7 Operation plans and notifications

| Module | Theorems |
|---|---|
| `OperationPlanProofs` | `TypeCorrect`, `AtMostOnce` (`SentAtMostOnce`), `OnlyApproved` (`OnlyApprovedReachesAws`), `Accepted`, `Revocation` (`RevocationStops`) |
| `NotificationProofs` | `TypeCorrect`, `SingleSender` (`OneSender`), `Retries` |

* **Operation plans.** `OneExecution`: the claim leaves APPROVED for good, so two calls past it have
  different plans. `ExecutionInv`: an executing call's plan is RUNNING or was given up, and its list of results
  agrees with what was sent. With `FreshInv` (nothing is sent for a plan that has not run) this gives `AtMostOnce`, also for a
  call that goes on after its plan was interrupted. `ApprovalInv` carries the second person from the approval to the
  end. `LateInv` says that a command is counted against a fact only while the fact does not hold, so that the read
  before the next one must see it; `Knows` says of a call that has read a fact that nothing is counted against it, until it sends.
* **Notifications.** `SenderRow`: the row of a pass in the middle of sending is not PENDING, hence not claimable.
  `Paid`: each message was preceded by an attempt of its own. `Bounded` adds to the attempts the passes that have
  scanned the row and not yet claimed it; the sum stays below the budget plus the number of workers,
  which are therefore assumed to be finitely many.

### 7.8 Only model-checked

Every safety property of the passing runs is a theorem. What TLC alone checks:

* Liveness (`JobsEnd`, `StopTerminates`, `ReservationEnds`, `PlansEnd`, `DeliveriesEnd`): it rests on fairness and ENABLED,
  which the prover does not have.

## 8. What is not modelled

* The contents of AWS resources, costs, findings, mails and reports; wording, formatting and layout.
* The audit trail (append-only, its failures are swallowed), reports, exports, search and diagnostics (reads),
  fixtures (test data), walkthroughs.
* Sign-up, passwords and sessions (the Better Auth library), encryption itself, request signing.
* Prices, quotas, the choice of images, estimates and projections, savings goals; budgets but for their rule.
* Which account is due for the scheduler, and the order of the periodic duties of the worker loop.
* The parts of the user interface that keep no state between requests.

## 9. Plan

Done: the queue with its refinement; provisioning, inventory, membership, operation plans, notifications; then
collectors, findings, rules, costs, connections, set-up, creation, dialogs, direct edits, platform identity,
requests, workspace records, other clouds; the proofs of section 7.

Left: the walkthroughs and the diagnostic assistant (`components/guides`, `diagnostic-assistant-service.ts`), which keep
state of their own; the order of the worker loop's periodic duties; of the proofs, that the environments of modules that
stand alone (section 2) allow what the other module does, step by step, as `MayReturn` does for
the collectors and `JobLease` for the queue.
