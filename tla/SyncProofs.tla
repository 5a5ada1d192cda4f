----------------------------- MODULE SyncProofs -----------------------------
(***************************************************************************)
(* Proofs about the two synchronisations of an account.  InventorySync,    *)
(* for any resources, tasks, jobs and claims: what a deleted row, a        *)
(* successful run and a resource's history say.  CostData, for any series, *)
(* windows and days: costs that are reported as available are complete.    *)
(***************************************************************************)
EXTENDS InventorySync, CostData, FiniteSetTheorems, SequenceTheorems, TLAPS

-----------------------------------------------------------------------------
(* The inventory.                                                          *)

Jobs == 1..MaxJobs

\* Where a run has no "started" yet, or none any more.
Outside == {"idle", "claimed", "failing", "reporting", "over"}

\* Where it has listed nothing.
Before == Outside \cup {"beginning", "opening"}

-----------------------------------------------------------------------------
(* The invariant.                                                          *)

\* One job is open at a time: its key has no other.
LeaseInv ==
  /\ state \in [Jobs -> {"absent", "waiting", "held", "over"}]
  /\ claim \in [Jobs -> 0..MaxClaims]
  /\ jobKey \in [Jobs -> {<<>>, <<Account, Type>>}]
  /\ \A j \in Jobs : state[j] # "absent" => jobKey[j] = <<Account, Type>>
  /\ \A i, j \in Jobs : state[i] \in {"waiting", "held"} /\ state[j] \in {"waiting", "held"} => i = j

\* What is absent is known to have been, and so is what came or went since its row was
\* confirmed; nothing lies in the future.
WorldInv ==
  /\ Resources \ exists \subseteq gone
  /\ \A r \in Resources : r \notin gone => changedAt[r] <= seen[r]
  /\ \A r \in Resources : seen[r] <= clock /\ changedAt[r] <= clock

\* A row and its history are written together.
HistoryInv ==
  \A r \in Resources :
    CASE row[r] = "none"    -> history[r] = "none"
      [] row[r] = "visible" -> history[r] \in {"DISCOVERED", "REAPPEARED"} \/ r \in Provisionable
      [] row[r] = "deleted" -> history[r] = "DELETED"

\* The control state of a run, and its tasks.
RunShape(x) ==
  /\ claim[x[1]] < x[2] => runPc[x] = "idle"
  /\ runPc[x] \in Outside => started[x] = 0
  /\ runPc[x] \in Before => todo[x] = {} /\ \A t \in Tasks : task[x][t] = "todo"
  /\ \A t \in Tasks : task[x][t] = "storing" => runPc[x] = "collecting"
  /\ \A r \in todo[x] : runPc[x] = "collecting" /\ task[x][TaskOf[r]] = "storing"
  /\ \A t \in Tasks : task[x][t] = "none" =>
       t \in Regional /\ \A u \in Regional : task[x][u] = "none"
  /\ started[x] <= clock
  /\ runPc[x] \in {"analysing", "bumping", "finalizing"} => result[x] \in Results

\* What the run did not list, or has stored, is gone or was confirmed since it started.
Confirmed(x) ==
  \A r \in Resources :
    task[x][TaskOf[r]] = "storing" /\ r \notin todo[x] /\ r \notin gone => started[x] <= seen[r]

\* A resource that did not come or go since the run that holds the job began, and was not
\* recorded late, is listed if it is there; then its row is fresh once it is stored, and not visible otherwise once
\* its task is done.
AsListed(x) ==
  Holds(x) =>
    \A r \in Resources \ (Changed(x) \cup Late(x)) :
      /\ r \in todo[x] => r \in exists
      /\ r \notin exists => ~ (row[r] = "visible" /\ started[x] <= seen[r])
      /\ r \in exists /\ r \notin todo[x] /\ task[x][TaskOf[r]] \in {"storing", "ok"} =>
           row[r] = "visible" /\ started[x] <= seen[r]
      /\ r \notin exists /\ task[x][TaskOf[r]] = "ok" => row[r] # "visible"

\* The run that holds the job has withdrawn the last success before it stores anything.
Withdrawn(x) ==
  Holds(x) /\ runPc[x] \in {"opening", "collecting"} => syncStatus # "SUCCEEDED"

RunInv(x) == RunShape(x) /\ Confirmed(x) /\ AsListed(x) /\ Withdrawn(x)

SyncInv ==
  /\ SyncTypes /\ LeaseInv /\ WorldInv /\ HistoryInv /\ FreshAfterSuccess
  /\ \A x \in Runs : RunInv(x)

-----------------------------------------------------------------------------
(* The jobs.                                                               *)

\* Two runs of one job and one claim are one run.
LEMMA SameRun ==
  ASSUME NEW x \in Runs, NEW y \in Runs, x[1] = y[1], x[2] = y[2]
  PROVE  x = y
BY DEF Runs

LEMMA RunParts ==
  ASSUME NEW x \in Runs
  PROVE  x[1] \in Jobs /\ x[2] \in 1..MaxClaims
BY DEF Runs, Jobs

\* At most one run holds a job.
LEMMA OneHolder ==
  ASSUME LeaseInv, NEW x \in Runs, NEW y \in Runs, Holds(x), Holds(y)
  PROVE  x = y
<1>1. x[1] = y[1]
  BY RunParts DEF LeaseInv, Holds
<1> QED
  BY <1>1, SameRun DEF Holds

\* No step of the jobs but a claim gives a job to a run.
LEMMA LeaseKept ==
  ASSUME LeaseInv, NEW j \in Jobs,
         \/ Lease!Submit(j, <<Account, Type>>) \/ Lease!Write(j)
         \/ Lease!GiveBack(j) \/ Lease!End(j) \/ UNCHANGED leaseVars
  PROVE  /\ LeaseInv' /\ claim' = claim
         /\ \A x \in Runs : Holds(x)' => Holds(x)
<1>1. CASE Lease!Submit(j, <<Account, Type>>)
  <2>1. LeaseInv'
    BY <1>1 DEF Lease!Submit, Lease!Jobs, Lease!Open, LeaseInv, Jobs
  <2>2. \A x \in Runs : Holds(x)' => Holds(x)
    BY <1>1, RunParts DEF Lease!Submit, LeaseInv, Holds
  <2> QED
    BY <1>1, <2>1, <2>2 DEF Lease!Submit
<1>2. CASE Lease!Write(j) \/ UNCHANGED leaseVars
  BY <1>2 DEF Lease!Write, leaseVars, LeaseInv, Holds
<1>3. CASE Lease!GiveBack(j) \/ Lease!End(j)
  <2>1. LeaseInv'
    BY <1>3 DEF Lease!GiveBack, Lease!End, LeaseInv
  <2>2. \A x \in Runs : Holds(x)' => Holds(x)
    BY <1>3, RunParts DEF Lease!GiveBack, Lease!End, LeaseInv, Holds
  <2> QED
    BY <1>3, <2>1, <2>2 DEF Lease!GiveBack, Lease!End
<1> QED
  BY <1>1, <1>2, <1>3

\* A claim takes the job from every other run.
LEMMA LeaseGranted ==
  ASSUME LeaseInv, InventoryAssumption, NEW x \in Runs, Lease!Grant(x[1]), claim'[x[1]] = x[2]
  PROVE  /\ LeaseInv' /\ claim[x[1]] < x[2]
         /\ \A y \in Runs : claim'[y[1]] < y[2] => claim[y[1]] < y[2]
         /\ \A y \in Runs : Holds(y)' => y = x
<1>1. x[1] \in Jobs
  BY RunParts
<1>2. LeaseInv' /\ claim'[x[1]] = claim[x[1]] + 1
  BY <1>1, InventoryAssumption DEF Lease!Grant, Lease!Open, LeaseInv
<1>3. ASSUME NEW y \in Runs
      PROVE  (claim'[y[1]] < y[2] => claim[y[1]] < y[2]) /\ (Holds(y)' => y = x)
  <2>1. y[1] \in Jobs /\ y[2] \in 1..MaxClaims
    BY RunParts
  <2>2. claim'[y[1]] < y[2] => claim[y[1]] < y[2]
    BY <1>1, <1>2, <2>1, InventoryAssumption DEF Lease!Grant, LeaseInv
  <2>3. Holds(y)' => y[1] = x[1]
    BY <1>1, <1>2, <2>1 DEF Lease!Grant, LeaseInv, Holds
  <2>4. Holds(y)' => y = x
    BY <2>3, SameRun DEF Holds
  <2> QED
    BY <2>2, <2>4
<1> QED
  BY <1>1, <1>2, <1>3, InventoryAssumption DEF LeaseInv

-----------------------------------------------------------------------------
(* What a step does to the runs that do not take it.                       *)

\* A run keeps its invariant while its variables stay, no job comes to it, and rows
\* change, if it holds the job, only by being confirmed while they are in AWS.
LEMMA Undisturbed ==
  ASSUME SyncTypes, WorldInv, NEW x \in Runs, RunInv(x),
         runPc'[x] = runPc[x], started'[x] = started[x], task'[x] = task[x], todo'[x] = todo[x],
         result'[x] = result[x],
         claim'[x[1]] < x[2] => claim[x[1]] < x[2],
         Holds(x)' => Holds(x),
         clock' \in Nat, clock <= clock',
         \A r \in Resources : \/ seen'[r] = seen[r] /\ (r \in gone => r \in gone')
                              \/ seen'[r] = clock,
         \/ ~ Holds(x)'
         \/ \A r \in Resources :
              \/ changedAt'[r] = clock
              \/ lateAt'[r] = clock
              \/ /\ (r \in exists' <=> r \in exists) /\ changedAt'[r] = changedAt[r]
                 /\ lateAt'[r] = lateAt[r]
                 /\ \/ row'[r] = row[r] /\ seen'[r] = seen[r]
                    \/ r \in exists /\ row'[r] = "visible" /\ seen'[r] = clock,
         ~ Holds(x)' \/ syncStatus' = syncStatus \/ syncStatus' # "SUCCEEDED"
  PROVE  RunInv(x)'
<1> DEFINE s == started[x]
<1>1. s \in Nat /\ clock \in Nat /\ s <= clock /\ s' = s /\ changedAt \in [Resources -> Nat]
      /\ lateAt \in [Resources -> Nat]
  BY DEF SyncTypes, RunInv, RunShape
<1>2. RunShape(x)'
  BY <1>1 DEF RunInv, RunShape
<1>3. Confirmed(x)'
  <2> SUFFICES ASSUME NEW r \in Resources,
                      task[x][TaskOf[r]] = "storing", r \notin todo[x], r \notin gone'
               PROVE  s <= seen'[r]
    BY DEF Confirmed
  <2> QED
    BY <1>1 DEF RunInv, Confirmed, SyncTypes
<1>4. AsListed(x)'
  <2> SUFFICES ASSUME Holds(x)', NEW r \in Resources, ~ s <= changedAt'[r], ~ s <= lateAt'[r]
               PROVE  /\ r \in todo[x] => r \in exists'
                      /\ r \notin exists' => ~ (row'[r] = "visible" /\ s <= seen'[r])
                      /\ r \in exists' /\ r \notin todo[x] /\ task[x][TaskOf[r]] \in {"storing", "ok"} =>
                           row'[r] = "visible" /\ s <= seen'[r]
                      /\ r \notin exists' /\ task[x][TaskOf[r]] = "ok" => row'[r] # "visible"
    BY <1>1 DEF AsListed, Changed, Late
  <2>1. (r \in exists' <=> r \in exists) /\ r \notin Changed(x) \cup Late(x) /\ Holds(x)
    BY <1>1 DEF Changed, Late
  <2>2. \/ row'[r] = row[r] /\ seen'[r] = seen[r]
        \/ r \in exists /\ row'[r] = "visible" /\ seen'[r] = clock
    BY <1>1
  <2> QED
    BY <1>1, <2>1, <2>2 DEF RunInv, AsListed
<1>5. Withdrawn(x)'
  BY DEF RunInv, Withdrawn
<1> QED
  BY <1>2, <1>3, <1>4, <1>5 DEF RunInv

\* A run that has left runInventorySync() has nothing to keep.
LEMMA Left ==
  ASSUME SyncTypes, NEW x \in Runs, NEW label \in {"over", "failing"}, Leave(x, label),
         ~ claim[x[1]] < x[2], claim' = claim, clock' = clock, changedAt' = changedAt, lateAt' = lateAt
  PROVE  /\ RunInv(x)'
         /\ \A y \in Runs \ {x} : /\ runPc'[y] = runPc[y] /\ started'[y] = started[y]
                                  /\ task'[y] = task[y] /\ todo'[y] = todo[y] /\ result'[y] = result[y]
         /\ runPc' \in [Runs -> PCs] /\ started' \in [Runs -> Nat]
         /\ task' \in [Runs -> [Tasks -> {"todo", "storing"} \cup Finished]]
         /\ todo' \in [Runs -> SUBSET Resources]
         /\ result' \in [Runs -> {"none"} \cup Results]
<1>1. runPc'[x] = label /\ started'[x] = 0 /\ todo'[x] = {} /\ task'[x] = [t \in Tasks |-> "todo"]
  BY DEF Leave, RunGoto, SyncTypes
<1>2. RunShape(x)'
  BY <1>1 DEF RunShape, Outside, Before, SyncTypes
<1>3. Confirmed(x)' /\ Withdrawn(x)'
  BY <1>1, InventoryAssumption DEF Confirmed, Withdrawn
<1>4. AsListed(x)'
  BY <1>1 DEF AsListed, Changed, Late, SyncTypes
<1> QED
  BY <1>2, <1>3, <1>4 DEF RunInv, Leave, RunGoto, SyncTypes, PCs

\* A run is claimed before it does anything.
LEMMA Claimed ==
  ASSUME SyncInv, NEW x \in Runs, runPc[x] # "idle"
  PROVE  ~ claim[x[1]] < x[2]
BY DEF SyncInv, RunInv, RunShape

LEMMA StepLeaves ==
  ASSUME SyncInv, NEW x \in Runs, NEW label \in {"over", "failing"}, Leave(x, label),
         runPc[x] # "idle", LeaseInv', claim' = claim, \A y \in Runs : Holds(y)' => Holds(y),
         UNCHANGED <<invVars, gone>>, KeepRest,
         KeepStatus \/ SetStatus(x, "FAILED", {})
  PROVE  SyncInv'
<1> USE DEF KeepRest, KeepStatus, SetStatus, invVars, outVars, ghostVars
<1>1. SyncTypes
  BY DEF SyncInv
<1>2. /\ RunInv(x)'
      /\ \A y \in Runs \ {x} : /\ runPc'[y] = runPc[y] /\ started'[y] = started[y]
                               /\ task'[y] = task[y] /\ todo'[y] = todo[y] /\ result'[y] = result[y]
      /\ runPc' \in [Runs -> PCs] /\ started' \in [Runs -> Nat]
      /\ task' \in [Runs -> [Tasks -> {"todo", "storing"} \cup Finished]]
      /\ todo' \in [Runs -> SUBSET Resources]
      /\ result' \in [Runs -> {"none"} \cup Results]
  BY <1>1, Claimed, Left
<1>3. SyncTypes'
  BY <1>1, <1>2 DEF SyncTypes, Results
<1>4. WorldInv' /\ FreshAfterSuccess'
  BY DEF SyncInv, WorldInv, FreshAfterSuccess
<1>5. HistoryInv'
  BY DEF SyncInv, HistoryInv
<1>6. ASSUME NEW y \in Runs \ {x}
      PROVE  RunInv(y)'
  <2>1. RunInv(y) /\ WorldInv /\ clock' = clock /\ clock \in Nat /\ UNCHANGED <<row, seen, gone, exists, changedAt>>
    BY <1>1 DEF SyncInv, SyncTypes
  <2>2. syncStatus' = syncStatus \/ syncStatus' # "SUCCEEDED"
    OBVIOUS
  <2> QED
    BY <1>1, <1>2, <2>1, <2>2, Undisturbed
<1> QED
  BY <1>2, <1>3, <1>4, <1>5, <1>6 DEF SyncInv

-----------------------------------------------------------------------------
(* The steps.                                                              *)

LEMMA OpenFailsKeeps ==
  ASSUME SyncInv, NEW x \in Runs, OpenFails(x)
  PROVE  SyncInv'
<1>1. LeaseInv' /\ claim' = claim /\ \A y \in Runs : Holds(y)' => Holds(y)
  BY RunParts, LeaseKept DEF OpenFails, SyncInv
<1> QED
  BY <1>1, StepLeaves DEF OpenFails

LEMMA CompleteKeeps ==
  ASSUME SyncInv, NEW x \in Runs, Complete(x)
  PROVE  SyncInv'
<1>1. LeaseInv' /\ claim' = claim /\ \A y \in Runs : Holds(y)' => Holds(y)
  BY RunParts, LeaseKept DEF Complete, SyncInv
<1> QED
  BY <1>1, StepLeaves DEF Complete

LEMMA ThrowKeeps ==
  ASSUME SyncInv, NEW x \in Runs, Throw(x)
  PROVE  SyncInv'
<1>1. LeaseInv' /\ claim' = claim /\ \A y \in Runs : Holds(y)' => Holds(y)
  BY RunParts, LeaseKept DEF Throw, SyncInv
<1> QED
  BY <1>1, StepLeaves DEF Throw

LEMMA LoseLeaseKeeps ==
  ASSUME SyncInv, NEW x \in Runs, LoseLease(x)
  PROVE  SyncInv'
<1>1. LeaseInv' /\ claim' = claim /\ \A y \in Runs : Holds(y)' => Holds(y)
  BY RunParts, LeaseKept DEF LoseLease, SyncInv
<1> QED
  BY <1>1, StepLeaves DEF LoseLease, Live

LEMMA RetryKeeps ==
  ASSUME SyncInv, NEW x \in Runs, Retry(x)
  PROVE  SyncInv'
<1>1. LeaseInv' /\ claim' = claim /\ \A y \in Runs : Holds(y)' => Holds(y)
  BY RunParts, LeaseKept DEF Retry, SyncInv
<1> QED
  BY <1>1, StepLeaves DEF Retry

LEMMA ReportKeeps ==
  ASSUME SyncInv, NEW x \in Runs, Report(x)
  PROVE  SyncInv'
<1>1. LeaseInv' /\ claim' = claim /\ \A y \in Runs : Holds(y)' => Holds(y)
  BY RunParts, LeaseKept DEF Report, SyncInv
<1> QED
  BY <1>1, StepLeaves DEF Report

LEMMA RunDiesKeeps ==
  ASSUME SyncInv, NEW x \in Runs, RunDies(x)
  PROVE  SyncInv'
<1>1. LeaseInv' /\ claim' = claim /\ \A y \in Runs : Holds(y)' => Holds(y)
  BY RunParts, LeaseKept DEF RunDies, SyncInv
<1> QED
  BY <1>1, StepLeaves DEF RunDies, Live

\* A step of a run that leaves the rows and AWS alone.
LEMMA StepStays ==
  ASSUME SyncInv, NEW x \in Runs, SyncTypes', LeaseInv', RunInv(x)', FreshAfterSuccess',
         \A y \in Runs \ {x} : /\ runPc'[y] = runPc[y] /\ started'[y] = started[y]
                              /\ task'[y] = task[y] /\ todo'[y] = todo[y] /\ result'[y] = result[y]
                              /\ (claim'[y[1]] < y[2] => claim[y[1]] < y[2])
                              /\ (Holds(y)' => Holds(y)),
         UNCHANGED <<invVars, gone, outVars>>, clock' \in {clock, clock + 1},
         syncStatus' = syncStatus \/ syncStatus' # "SUCCEEDED" \/ Holds(x)
  PROVE  SyncInv'
<1> USE DEF invVars, outVars
<1>1. SyncTypes /\ clock \in Nat /\ clock <= clock' /\ clock' \in Nat
  BY DEF SyncInv, SyncTypes
<1>2. HistoryInv'
  BY DEF SyncInv, HistoryInv
<1>3. WorldInv'
  <2>1. changedAt \in [Resources -> Nat] /\ seen \in [Resources -> Nat]
    BY <1>1 DEF SyncTypes
  <2> QED
    BY <1>1, <2>1 DEF SyncInv, WorldInv
<1>4. ASSUME NEW y \in Runs \ {x}
      PROVE  RunInv(y)'
  <2>1. ~ Holds(y)' \/ syncStatus' = syncStatus \/ syncStatus' # "SUCCEEDED"
    BY OneHolder DEF SyncInv
  <2> QED
    BY <1>1, <2>1, Undisturbed DEF SyncInv
<1> QED
  BY <1>2, <1>3, <1>4 DEF SyncInv

LEMMA ClaimKeeps ==
  ASSUME SyncInv, NEW x \in Runs, Claim(x)
  PROVE  SyncInv'
<1> USE DEF Claim, KeepRest, KeepStatus, KeepRun, RunGoto
<1>1. /\ LeaseInv' /\ claim[x[1]] < x[2]
      /\ \A y \in Runs : claim'[y[1]] < y[2] => claim[y[1]] < y[2]
      /\ \A y \in Runs : Holds(y)' => y = x
  BY InventoryAssumption, LeaseGranted DEF SyncInv
<1>2. x[2] \in 1..MaxClaims /\ runPc[x] = "idle" /\ runPc'[x] = "claimed"
  BY <1>1, RunParts DEF SyncInv, RunInv, RunShape, SyncTypes
<1>3. SyncTypes'
  BY DEF SyncInv, SyncTypes, PCs, ghostVars, outVars, invVars
<1>4. RunShape(x)'
  BY <1>1, <1>2, InventoryAssumption DEF SyncInv, RunInv, RunShape, Outside, Before, outVars
<1>5. Confirmed(x)' /\ Withdrawn(x)'
  BY <1>2 DEF SyncInv, RunInv, Confirmed, Withdrawn, invVars
<1>6. AsListed(x)'
  BY <1>2 DEF SyncInv, SyncTypes, RunInv, RunShape, Outside, AsListed, Changed, Late, outVars
<1> QED
  BY <1>1, <1>3, <1>4, <1>5, <1>6, StepStays
  DEF SyncInv, RunInv, SyncTypes, FreshAfterSuccess, invVars, outVars, ghostVars

LEMMA StartKeeps ==
  ASSUME SyncInv, NEW x \in Runs, Start(x)
  PROVE  SyncInv'
<1> USE DEF Start, KeepStatus, RunGoto
<1>1. LeaseInv' /\ claim' = claim /\ \A y \in Runs : Holds(y)' => Holds(y)
  BY RunParts, LeaseKept DEF SyncInv
<1>2. /\ runPc'[x] = "beginning" /\ started'[x] = clock + 1 /\ clock' = clock + 1 /\ clock \in Nat
      /\ todo'[x] = {} /\ \A t \in Tasks : task'[x][t] = "todo"
      /\ \A r \in Resources : /\ seen[r] \in Nat /\ seen[r] <= clock
                              /\ changedAt[r] \in Nat /\ changedAt[r] <= clock
  BY DEF SyncInv, SyncTypes, WorldInv, RunInv, RunShape, Before, Outside
<1>3. SyncTypes'
  BY <1>2 DEF SyncInv, SyncTypes, PCs, ghostVars, outVars, invVars
<1>4. RunShape(x)'
  BY <1>1, <1>2, Claimed DEF RunShape, Outside, Before
<1>5. Confirmed(x)' /\ Withdrawn(x)' /\ AsListed(x)'
  BY <1>2, InventoryAssumption DEF Confirmed, Withdrawn, AsListed, Changed, Late, invVars
<1> QED
  BY <1>1, <1>2, <1>3, <1>4, <1>5, StepStays
  DEF SyncInv, RunInv, SyncTypes, FreshAfterSuccess, invVars, outVars, ghostVars

LEMMA BeginKeeps ==
  ASSUME SyncInv, NEW x \in Runs, Begin(x)
  PROVE  SyncInv'
<1> USE DEF Begin, KeepRun, KeepRest, SetStatus, Fenced, RunGoto
<1>1. LeaseInv' /\ claim' = claim /\ \A y \in Runs : Holds(y)' => Holds(y)
  BY RunParts, LeaseKept DEF SyncInv
<1>2. runPc'[x] = "opening"
  BY DEF SyncInv, SyncTypes
<1>3. SyncTypes'
  BY <1>2 DEF SyncInv, SyncTypes, PCs, ghostVars, outVars, invVars
<1>4. RunShape(x)'
  BY <1>1, <1>2, Claimed DEF SyncInv, RunInv, RunShape, Outside, Before
<1>5. Confirmed(x)' /\ Withdrawn(x)' /\ AsListed(x)'
  BY <1>1, <1>2 DEF SyncInv, RunInv, Confirmed, Withdrawn, AsListed, Changed, Late, invVars, outVars
<1> QED
  BY <1>1, <1>2, <1>3, <1>4, <1>5, StepStays
  DEF SyncInv, RunInv, SyncTypes, FreshAfterSuccess, invVars, outVars, ghostVars

LEMMA OpenRunSessionKeeps ==
  ASSUME SyncInv, NEW x \in Runs, OpenRunSession(x)
  PROVE  SyncInv'
<1> USE DEF OpenRunSession, KeepStatus, KeepRest, RunGoto
<1>1. LeaseInv' /\ claim' = claim /\ \A y \in Runs : Holds(y)' => Holds(y)
  BY RunParts, LeaseKept DEF SyncInv
<1>2. PICK planned \in {Tasks, Tasks \ Regional} :
        task' = [task EXCEPT ![x] = [t \in Tasks |-> IF t \in planned THEN "todo" ELSE "none"]]
  OBVIOUS
<1>3. /\ runPc'[x] = "collecting" /\ todo'[x] = {}
      /\ task'[x] = [t \in Tasks |-> IF t \in planned THEN "todo" ELSE "none"]
      /\ \A r \in Resources : TaskOf[r] \in Tasks
  BY <1>2, InventoryAssumption DEF SyncInv, SyncTypes, RunInv, RunShape, Before
<1>4. SyncTypes'
  BY <1>2, <1>3 DEF SyncInv, SyncTypes, PCs, Finished, ghostVars, outVars, invVars
<1>5. RunShape(x)'
  BY <1>1, <1>3, Claimed, InventoryAssumption DEF SyncInv, RunInv, RunShape, Outside, Before, outVars
<1>6. Confirmed(x)' /\ Withdrawn(x)'
  BY <1>1, <1>3 DEF SyncInv, RunInv, Confirmed, Withdrawn, ghostVars
<1>7. AsListed(x)'
  BY <1>1, <1>3 DEF SyncInv, RunInv, AsListed, Changed, Late, invVars, outVars
<1> QED
  BY <1>1, <1>2, <1>3, <1>4, <1>5, <1>6, <1>7, StepStays
  DEF SyncInv, RunInv, SyncTypes, FreshAfterSuccess, invVars, outVars, ghostVars

LEMMA CollectKeeps ==
  ASSUME SyncInv, NEW x \in Runs, NEW t \in Tasks, Collect(x, t)
  PROVE  SyncInv'
<1>1. LeaseInv' /\ claim' = claim /\ \A y \in Runs : Holds(y)' => Holds(y)
  BY RunParts, LeaseKept DEF SyncInv, Collect
<1>2. PICK returned \in SUBSET Listed(t) :
        /\ MayReturn(exists \cap Listed(t), Changed(x), returned)
        /\ todo' = [todo EXCEPT ![x] = @ \cup returned]
  BY DEF Collect
<1>3. /\ UNCHANGED <<row, seen, history, runPc, started, result, gone, syncStatus, by, observed>>
      /\ UNCHANGED <<exists, changedAt, verified, lateAt, queuing, clock>>
  BY DEF Collect, invVars, KeepStatus, KeepRest, outVars, ghostVars
<1>4. /\ runPc[x] = "collecting" /\ task[x][t] = "todo" /\ task' = [task EXCEPT ![x][t] = "storing"]
      /\ \A r \in Resources : TaskOf[r] \in Tasks
      /\ SyncTypes /\ WorldInv /\ RunInv(x)
  BY InventoryAssumption DEF Collect, MayRun, SetTask, SyncInv
<1>5. /\ todo' \in [Runs -> SUBSET Resources] /\ todo'[x] = todo[x] \cup returned
      /\ \A y \in Runs \ {x} : todo'[y] = todo[y]
      /\ \A r \in returned : r \in Resources /\ TaskOf[r] = t
  BY <1>2, <1>4 DEF SyncTypes, Listed
<1>6. \A r \in Resources \ Changed(x) : TaskOf[r] = t => (r \in returned <=> r \in exists)
  BY <1>2 DEF MayReturn, Listed
<1>7. \A r \in Resources : TaskOf[r] = t /\ r \notin returned => r \in Changed(x) \/ r \notin exists
  BY <1>6
<1>8. /\ task' \in [Runs -> [Tasks -> {"todo", "storing"} \cup Finished]]
      /\ task'[x][t] = "storing" /\ (\A u \in Tasks \ {t} : task'[x][u] = task[x][u])
      /\ \A y \in Runs \ {x} : task'[y] = task[y]
  BY <1>4 DEF SyncTypes
<1>9. SyncTypes'
  BY <1>3, <1>4, <1>5, <1>8 DEF SyncTypes
<1>10. RunShape(x)'
  BY <1>1, <1>3, <1>4, <1>5, <1>8, Claimed, InventoryAssumption
  DEF RunInv, RunShape, Outside, Before
<1>11. Confirmed(x)'
  <2> SUFFICES ASSUME NEW r \in Resources, task'[x][TaskOf[r]] = "storing", r \notin todo'[x], r \notin gone
               PROVE  started[x] <= seen[r]
    BY <1>3 DEF Confirmed
  <2>1. CASE TaskOf[r] # t
    BY <2>1, <1>4, <1>5, <1>8 DEF RunInv, Confirmed
  <2>2. CASE TaskOf[r] = t
    <3>1. r \in Changed(x) /\ changedAt[r] <= seen[r]
      BY <2>2, <1>4, <1>5, <1>7 DEF WorldInv
    <3>2. started[x] \in Nat /\ changedAt[r] \in Nat /\ seen[r] \in Nat /\ started[x] <= changedAt[r]
      BY <1>4, <3>1 DEF SyncTypes, Changed, Late
    <3> QED
      BY <3>1, <3>2
  <2> QED
    BY <2>1, <2>2
<1>12. Withdrawn(x)'
  BY <1>1, <1>3, <1>4 DEF RunInv, Withdrawn
<1>13. AsListed(x)'
  <2> SUFFICES ASSUME Holds(x)', NEW r \in Resources \ (Changed(x) \cup Late(x))
               PROVE  /\ r \in todo'[x] => r \in exists
                      /\ r \notin exists => ~ (row[r] = "visible" /\ started[x] <= seen[r])
                      /\ r \in exists /\ r \notin todo'[x] /\ task'[x][TaskOf[r]] \in {"storing", "ok"} =>
                           row[r] = "visible" /\ started[x] <= seen[r]
                      /\ r \notin exists /\ task'[x][TaskOf[r]] = "ok" => row[r] # "visible"
    BY <1>3 DEF AsListed, Changed, Late
  <2>1. /\ r \in todo[x] => r \in exists
        /\ r \notin exists => ~ (row[r] = "visible" /\ started[x] <= seen[r])
        /\ r \in exists /\ r \notin todo[x] /\ task[x][TaskOf[r]] \in {"storing", "ok"} =>
             row[r] = "visible" /\ started[x] <= seen[r]
        /\ r \notin exists /\ task[x][TaskOf[r]] = "ok" => row[r] # "visible"
    BY <1>1, <1>4 DEF RunInv, AsListed
  <2>2. CASE TaskOf[r] = t
    BY <2>1, <2>2, <1>5, <1>6, <1>8
  <2>3. CASE TaskOf[r] # t
    BY <2>1, <2>3, <1>4, <1>5, <1>8
  <2> QED
    BY <2>2, <2>3
<1>14. RunInv(x)' /\ FreshAfterSuccess'
  BY <1>3, <1>10, <1>11, <1>12, <1>13 DEF RunInv, FreshAfterSuccess, SyncInv
<1> QED
  BY <1>1, <1>3, <1>5, <1>8, <1>9, <1>14, StepStays DEF SyncInv, invVars, outVars

\* A task fails, is skipped, or is given up half way.
LEMMA TaskFailsKeeps ==
  ASSUME SyncInv, NEW x \in Runs, NEW t \in Tasks, CollectFails(x, t) \/ StoreFails(x, t)
  PROVE  SyncInv'
<1> USE DEF CollectFails, StoreFails, MayRun, SetTask, KeepStatus, KeepRest
<1>1. LeaseInv' /\ claim' = claim /\ \A y \in Runs : Holds(y)' => Holds(y)
  BY RunParts, LeaseKept DEF SyncInv
<1>2. PICK s \in {"skipped", "denied", "failed"} : task' = [task EXCEPT ![x][t] = s]
  BY DEF Failures
<1>3. /\ runPc'[x] = "collecting" /\ runPc[x] = "collecting" /\ started'[x] = started[x]
      /\ task'[x] = [task[x] EXCEPT ![t] = s] /\ task[x][t] \in {"todo", "storing"}
      /\ task'[x][t] = s /\ \A u \in Tasks \ {t} : task'[x][u] = task[x][u]
      /\ \A r \in Resources : TaskOf[r] \in Tasks
  BY <1>2, InventoryAssumption DEF SyncInv, SyncTypes
<1>4. /\ todo' \in [Runs -> SUBSET Resources] /\ todo'[x] \subseteq todo[x]
      /\ \A r \in todo'[x] : TaskOf[r] # t
      /\ \A r \in todo[x] : r \in todo'[x] \/ TaskOf[r] = t
      /\ \A y \in Runs \ {x} : todo'[y] = todo[y]
  <2>1. \A r \in todo[x] : task[x][TaskOf[r]] = "storing"
    BY DEF SyncInv, RunInv, RunShape
  <2>2. CASE CollectFails(x, t)
    BY <2>1, <2>2 DEF SyncInv, SyncTypes
  <2>3. CASE StoreFails(x, t)
    BY <2>3 DEF SyncInv, SyncTypes
  <2> QED
    BY <2>2, <2>3
<1>5. SyncTypes'
  BY <1>2, <1>3, <1>4 DEF SyncInv, SyncTypes, Finished, Failures, ghostVars, outVars, invVars
<1>6. RunShape(x)'
  <2>1. \A r \in todo'[x] : r \in todo[x] /\ TaskOf[r] \in Tasks \ {t}
    BY <1>3, <1>4 DEF SyncInv, SyncTypes
  <2> QED
    BY <1>1, <1>3, <1>4, <2>1, Claimed, InventoryAssumption
    DEF SyncInv, RunInv, RunShape, Outside, Before, outVars
<1>7. Confirmed(x)'
  BY <1>3, <1>4 DEF SyncInv, RunInv, Confirmed, invVars
<1>8. Withdrawn(x)'
  BY <1>1, <1>3 DEF SyncInv, RunInv, Withdrawn
<1>9. AsListed(x)'
  BY <1>1, <1>3, <1>4 DEF SyncInv, RunInv, AsListed, Changed, Late, invVars, outVars
<1> QED
  BY <1>1, <1>2, <1>3, <1>4, <1>5, <1>6, <1>7, <1>8, <1>9, StepStays
  DEF SyncInv, RunInv, SyncTypes, FreshAfterSuccess, invVars, outVars, ghostVars

\* summarize() names a result, and success only if no task failed or was denied.
LEMMA SummaryTold ==
  ASSUME NEW x \in Runs, NEW failed \in BOOLEAN
  PROVE  /\ Summary(x, failed) \in Results
         /\ Summary(x, failed) = "SUCCEEDED" => \A t \in Tasks : task[x][t] \notin Failures
<1> DEFINE F == TasksIn(x, Failures)
<1>1. IsFiniteSet(F) /\ Cardinality(F) \in Nat
  BY InventoryAssumption, FS_Subset, FS_CardinalityType DEF TasksIn
<1>2. Cardinality(F) = 0 => \A t \in Tasks : task[x][t] \notin Failures
  BY <1>1, FS_EmptySet DEF TasksIn
<1> HIDE DEF F
<1>3. Summary(x, failed) = "SUCCEEDED" => Cardinality(F) = 0
  BY <1>1 DEF Summary, F
<1> QED
  BY <1>2, <1>3 DEF Summary, Results

LEMMA SettleKeeps ==
  ASSUME SyncInv, NEW x \in Runs, Settle(x)
  PROVE  SyncInv'
<1> DEFINE s == IF Regionless(x) THEN "FAILED" ELSE Summary(x, FALSE)
           found == {r \in Resources \ (Changed(x) \cup Late(x)) : task[x][TaskOf[r]] # "skipped"}
<1> USE DEF Fenced, KeepRest, RunGoto, SetStatus
<1>1. LeaseInv' /\ claim' = claim /\ (\A y \in Runs : Holds(y)' => Holds(y)) /\ Holds(x)
  BY RunParts, LeaseKept DEF SyncInv, Settle
<1>2. s \in Results
  BY SummaryTold DEF Results
<1>3. /\ runPc'[x] \in {"bumping", "analysing"} /\ runPc[x] = "collecting"
      /\ started' = started /\ task' = task /\ todo' = todo
      /\ todo[x] = {} /\ (\A t \in Tasks : task[x][t] \in Finished)
      /\ \A r \in Resources : TaskOf[r] \in Tasks
  <2>1. runPc'[x] \in {"bumping", "analysing"} /\ \A t \in Tasks : task[x][t] # "storing"
    BY DEF Settle, SyncInv, SyncTypes, Finished, Failures
  <2>2. todo[x] = {}
    BY <2>1, InventoryAssumption DEF SyncInv, SyncTypes, RunInv, RunShape
  <2> QED
    BY <2>1, <2>2, InventoryAssumption DEF Settle
<1>4. syncStatus' = s /\ observed' = found /\ by' = x /\ row' = row /\ exists' = exists
  BY DEF Settle, invVars, outVars
<1>5. SyncTypes'
  <2>1. found \subseteq Resources /\ runPc' \in [Runs -> PCs] /\ result' \in [Runs -> {"none"} \cup Results]
    BY <1>2 DEF Settle, SyncInv, SyncTypes, PCs
  <2>2. UNCHANGED <<invVars, started, task, todo, outVars, queuing, clock, gone>>
    BY DEF Settle
  <2> HIDE DEF s, found
  <2> QED
    BY <1>2, <1>4, <2>1, <2>2 DEF SyncInv, SyncTypes, outVars, invVars
<1>6. RunShape(x)'
  <2>1. clock' = clock /\ RunShape(x) /\ ~ claim[x[1]] < x[2]
    BY <1>3, Claimed DEF Settle, SyncInv, RunInv
  <2>2. \A t \in Tasks : task[x][t] # "storing"
    BY <1>3 DEF Finished, Failures
  <2>3. result'[x] = s
    BY DEF Settle, SyncInv, SyncTypes
  <2> HIDE DEF s
  <2> QED
    BY <1>1, <1>2, <1>3, <2>1, <2>2, <2>3 DEF RunShape, Outside, Before
<1>7. Confirmed(x)' /\ Withdrawn(x)' /\ AsListed(x)'
  BY <1>1, <1>3 DEF Settle, SyncInv, RunInv, Confirmed, Withdrawn, AsListed, Changed, Late, invVars, outVars
<1>8. FreshAfterSuccess'
  <2> SUFFICES ASSUME s = "SUCCEEDED", NEW r \in found
               PROVE  row[r] = "visible" <=> r \in exists
    BY <1>4 DEF FreshAfterSuccess
  <2>1. ~ Regionless(x) /\ \A t \in Tasks : task[x][t] \notin Failures
    BY SummaryTold
  <2>2. \A t \in Tasks : task[x][t] # "none"
    BY <2>1, <1>3 DEF Regionless, SyncInv, RunInv, RunShape
  <2>3. task[x][TaskOf[r]] = "ok"
    BY <2>1, <2>2, <1>3 DEF Finished
  <2> QED
    BY <2>3, <1>1, <1>3 DEF SyncInv, RunInv, AsListed
<1> HIDE DEF s, found
<1> QED
  BY <1>1, <1>3, <1>5, <1>6, <1>7, <1>8, StepStays
  DEF Settle, SyncInv, RunInv, SyncTypes, invVars, outVars

LEMMA AnalyseKeeps ==
  ASSUME SyncInv, NEW x \in Runs, Analyse(x)
  PROVE  SyncInv'
<1> USE DEF Analyse, KeepStatus, KeepRest, RunGoto
<1>1. LeaseInv' /\ claim' = claim /\ \A y \in Runs : Holds(y)' => Holds(y)
  BY RunParts, LeaseKept DEF SyncInv
<1>2. PICK failed \in BOOLEAN : result' = [result EXCEPT ![x] = Summary(x, failed)]
  OBVIOUS
<1>3. runPc'[x] = "bumping" /\ result' \in [Runs -> {"none"} \cup Results] /\ result'[x] \in Results
  BY <1>2, SummaryTold DEF SyncInv, SyncTypes
<1>4. SyncTypes'
  BY <1>3 DEF SyncInv, SyncTypes, PCs, ghostVars, outVars, invVars
<1>5. RunShape(x)'
  BY <1>1, <1>3, Claimed DEF SyncInv, RunInv, RunShape, Outside, Before
<1>6. Confirmed(x)' /\ Withdrawn(x)' /\ AsListed(x)'
  BY <1>1, <1>3 DEF SyncInv, RunInv, Confirmed, Withdrawn, AsListed, Changed, Late, invVars, outVars
<1> QED
  BY <1>1, <1>3, <1>4, <1>5, <1>6, StepStays
  DEF SyncInv, RunInv, SyncTypes, FreshAfterSuccess, invVars, outVars, ghostVars

LEMMA BumpKeeps ==
  ASSUME SyncInv, NEW x \in Runs, Bump(x)
  PROVE  SyncInv'
<1> USE DEF Bump, Fenced, KeepStatus, KeepRun, KeepRest, RunGoto
<1>1. LeaseInv' /\ claim' = claim /\ \A y \in Runs : Holds(y)' => Holds(y)
  BY RunParts, LeaseKept DEF SyncInv
<1>2. runPc'[x] = "finalizing"
  BY DEF SyncInv, SyncTypes
<1>3. SyncTypes'
  BY DEF SyncInv, SyncTypes, PCs, ghostVars, outVars, invVars
<1>4. RunShape(x)'
  BY <1>1, <1>2, Claimed DEF SyncInv, RunInv, RunShape, Outside, Before
<1>5. Confirmed(x)' /\ Withdrawn(x)' /\ AsListed(x)'
  BY <1>1, <1>2 DEF SyncInv, RunInv, Confirmed, Withdrawn, AsListed, Changed, Late, invVars, outVars
<1> QED
  BY <1>1, <1>2, <1>3, <1>4, <1>5, StepStays
  DEF SyncInv, RunInv, SyncTypes, FreshAfterSuccess, invVars, outVars, ghostVars

LEMMA FinalizeKeeps ==
  ASSUME SyncInv, NEW x \in Runs, Finalize(x)
  PROVE  SyncInv'
<1> USE DEF Finalize, Fenced, KeepRun, KeepRest, RunGoto
<1>1. LeaseInv' /\ claim' = claim /\ \A y \in Runs : Holds(y)' => Holds(y)
  BY RunParts, LeaseKept DEF SyncInv
<1>2. runPc[x] = "finalizing" /\ runPc'[x] = "completing"
  BY DEF SyncInv, SyncTypes
<1>3. \/ UNCHANGED <<syncStatus, by, observed>>
      \/ Holds(x) /\ syncStatus' = result[x] /\ by' = x /\ observed' = {}
  BY DEF KeepStatus, ghostVars, SetStatus
<1>4. result[x] \in Results
  BY <1>2 DEF SyncInv, RunInv, RunShape
<1>5. SyncTypes'
  <2>1. runPc' \in [Runs -> PCs] /\ UNCHANGED <<invVars, gone, started, task, todo, result, outVars, queuing, clock>>
    BY DEF SyncInv, SyncTypes, PCs
  <2> QED
    BY <1>3, <1>4, <2>1 DEF SyncInv, SyncTypes, outVars, invVars
<1>6. RunShape(x)'
  BY <1>1, <1>2, Claimed DEF SyncInv, RunInv, RunShape, Outside, Before
<1>7. Confirmed(x)' /\ Withdrawn(x)' /\ AsListed(x)'
  BY <1>1, <1>2 DEF SyncInv, RunInv, Confirmed, Withdrawn, AsListed, Changed, Late, invVars, outVars
<1>8. FreshAfterSuccess'
  BY <1>3 DEF SyncInv, FreshAfterSuccess, invVars, outVars
<1> QED
  BY <1>1, <1>2, <1>3, <1>5, <1>6, <1>7, <1>8, StepStays
  DEF SyncInv, RunInv, SyncTypes, invVars, outVars

LEMMA FailKeeps ==
  ASSUME SyncInv, NEW x \in Runs, Fail(x)
  PROVE  SyncInv'
<1> USE DEF Fail, KeepStatus, KeepRun, KeepRest, RunGoto
<1>1. LeaseInv' /\ claim' = claim /\ \A y \in Runs : Holds(y)' => Holds(y)
  BY RunParts, LeaseKept DEF SyncInv
<1>2. runPc'[x] = "reporting"
  BY DEF SyncInv, SyncTypes
<1>3. SyncTypes'
  BY DEF SyncInv, SyncTypes, PCs, ghostVars, outVars, invVars
<1>4. RunShape(x)'
  BY <1>1, <1>2, Claimed DEF SyncInv, RunInv, RunShape, Outside, Before
<1>5. Confirmed(x)' /\ Withdrawn(x)' /\ AsListed(x)'
  BY <1>1, <1>2 DEF SyncInv, RunInv, Confirmed, Withdrawn, AsListed, Changed, Late, invVars, outVars
<1> QED
  BY <1>1, <1>2, <1>3, <1>4, <1>5, StepStays
  DEF SyncInv, RunInv, SyncTypes, FreshAfterSuccess, invVars, outVars, ghostVars

LEMMA QueueKeeps ==
  ASSUME SyncInv, (\E j \in Jobs : Enqueue(j)) \/ MarkQueued
  PROVE  SyncInv'
<1>1. LeaseInv' /\ claim' = claim /\ \A y \in Runs : Holds(y)' => Holds(y)
  <2>1. ASSUME NEW j \in Jobs, Enqueue(j)
        PROVE  LeaseInv' /\ claim' = claim /\ \A y \in Runs : Holds(y)' => Holds(y)
    BY <2>1, LeaseKept DEF Enqueue, SyncInv
  <2>2. CASE MarkQueued
    BY <2>2 DEF MarkQueued, leaseVars, SyncInv, LeaseInv, Holds
  <2> QED
    BY <2>1, <2>2
<1>2. /\ UNCHANGED <<row, seen, history, runPc, started, task, todo, result, exists, changedAt, clock, by, observed, gone,
                verified, lateAt>>
      /\ syncStatus' \in {syncStatus, "QUEUED"} /\ queuing' \in {queuing, TRUE, FALSE}
  BY DEF Enqueue, MarkQueued, invVars, runVars, outVars, ghostVars
<1>3. SyncTypes'
  BY <1>2 DEF SyncInv, SyncTypes
<1>4. WorldInv' /\ HistoryInv' /\ FreshAfterSuccess'
  BY <1>2 DEF SyncInv, WorldInv, HistoryInv, FreshAfterSuccess
<1>5. ASSUME NEW y \in Runs
      PROVE  RunInv(y)'
  BY <1>1, <1>2, Undisturbed DEF SyncInv, SyncTypes
<1> QED
  BY <1>1, <1>3, <1>4, <1>5 DEF SyncInv

LEMMA ChangeKeeps ==
  ASSUME SyncInv, NEW r \in Resources, Change(r)
  PROVE  SyncInv'
<1> USE DEF Change, invVars, runVars
<1>1. LeaseInv' /\ claim' = claim /\ \A y \in Runs : Holds(y)' => Holds(y)
  BY DEF SyncInv, LeaseInv, leaseVars, Holds
<1>2. SyncTypes'
  BY DEF SyncInv, SyncTypes
<1>3. WorldInv'
  BY DEF SyncInv, SyncTypes, WorldInv
<1>4. HistoryInv'
  BY DEF SyncInv, HistoryInv
<1>5. FreshAfterSuccess'
  BY DEF SyncInv, FreshAfterSuccess
<1>6. ASSUME NEW y \in Runs
      PROVE  RunInv(y)'
  BY <1>1, Undisturbed DEF SyncInv, SyncTypes
<1> QED
  BY <1>1, <1>2, <1>3, <1>4, <1>5, <1>6 DEF SyncInv

\* A row is confirmed: what becomes of the world and of the history.
LEMMA Recorded ==
  ASSUME SyncInv, NEW r \in Resources, NEW event, Record(r, event), UNCHANGED <<exists, changedAt, clock>>,
         event \in {"DISCOVERED", "REAPPEARED"} \/ (event \in Events /\ r \in Provisionable)
  PROVE  /\ WorldInv' /\ HistoryInv'
         /\ row' \in [Resources -> {"none", "visible", "deleted"}]
         /\ seen' \in [Resources -> Nat] /\ history' \in [Resources -> Events] /\ gone' \subseteq Resources
         /\ row'[r] = "visible" /\ seen'[r] = clock
         /\ \A o \in Resources \ {r} :
              row'[o] = row[o] /\ seen'[o] = seen[o] /\ (o \in gone => o \in gone')
<1> USE DEF Record
<1>1. SyncTypes
  BY DEF SyncInv
<1>2. /\ row' \in [Resources -> {"none", "visible", "deleted"}]
      /\ seen' \in [Resources -> Nat] /\ history' \in [Resources -> Events] /\ gone' \subseteq Resources
      /\ row'[r] = "visible" /\ seen'[r] = clock /\ history'[r] = event
      /\ \A o \in Resources \ {r} :
           row'[o] = row[o] /\ seen'[o] = seen[o] /\ history'[o] = history[o] /\ (o \in gone => o \in gone')
  BY <1>1 DEF SyncTypes, Events
<1>3. WorldInv'
  BY <1>1, <1>2 DEF SyncInv, WorldInv, SyncTypes
<1>4. HistoryInv'
  <2> SUFFICES ASSUME NEW o \in Resources
               PROVE  CASE row'[o] = "none"    -> history'[o] = "none"
                        [] row'[o] = "visible" -> history'[o] \in {"DISCOVERED", "REAPPEARED"} \/ o \in Provisionable
                        [] row'[o] = "deleted" -> history'[o] = "DELETED"
    BY DEF HistoryInv
  <2>1. CASE o = r
    BY <2>1, <1>2
  <2>2. CASE o # r
    BY <2>2, <1>2 DEF SyncInv, HistoryInv
  <2> QED
    BY <2>1, <2>2
<1> QED
  BY <1>2, <1>3, <1>4

LEMMA VerifyKeeps ==
  ASSUME SyncInv, NEW r \in Resources, VerifyResource(r)
  PROVE  SyncInv'
<1> USE DEF VerifyResource, invVars, runVars, ghostVars
<1>1. LeaseInv' /\ claim' = claim /\ \A y \in Runs : Holds(y)' => Holds(y)
  BY DEF SyncInv, LeaseInv, leaseVars, Holds
<1>2. SyncTypes'
  BY DEF SyncInv, SyncTypes
<1>3. WorldInv' /\ HistoryInv' /\ FreshAfterSuccess'
  BY DEF SyncInv, WorldInv, HistoryInv, FreshAfterSuccess
<1>4. ASSUME NEW y \in Runs
      PROVE  RunInv(y)'
  BY <1>1, Undisturbed DEF SyncInv, SyncTypes
<1> QED
  BY <1>1, <1>2, <1>3, <1>4 DEF SyncInv

LEMMA ProvisionedKeeps ==
  ASSUME SyncInv, NEW r \in Resources, Provisioned(r)
  PROVE  SyncInv'
<1> USE DEF Provisioned, runVars
<1>1. LeaseInv' /\ claim' = claim /\ \A y \in Runs : Holds(y)' => Holds(y)
  BY DEF SyncInv, LeaseInv, leaseVars, Holds
<1>2. /\ WorldInv' /\ HistoryInv'
      /\ row' \in [Resources -> {"none", "visible", "deleted"}]
      /\ seen' \in [Resources -> Nat] /\ history' \in [Resources -> Events] /\ gone' \subseteq Resources
      /\ row'[r] = "visible" /\ seen'[r] = clock
      /\ \A o \in Resources \ {r} :
           row'[o] = row[o] /\ seen'[o] = seen[o] /\ (o \in gone => o \in gone')
  BY Recorded DEF SyncInv, SyncTypes
<1>3. SyncTypes'
  BY <1>2 DEF SyncInv, SyncTypes
<1>4. FreshAfterSuccess'
  BY <1>2 DEF SyncInv, SyncTypes, FreshAfterSuccess
<1>5. ASSUME NEW y \in Runs
      PROVE  RunInv(y)'
  BY <1>1, <1>2, Undisturbed DEF SyncInv, SyncTypes
<1> QED
  BY <1>1, <1>2, <1>3, <1>4, <1>5 DEF SyncInv

LEMMA UpsertKeeps ==
  ASSUME SyncInv, NEW x \in Runs, NEW r \in Resources, Upsert(x, r)
  PROVE  SyncInv'
<1> USE DEF Upsert, Fenced, KeepStatus, KeepRest, outVars, ghostVars
<1>1. LeaseInv' /\ claim' = claim /\ (\A y \in Runs : Holds(y)' => Holds(y)) /\ Holds(x)
  BY RunParts, LeaseKept DEF SyncInv
<1>2. /\ SyncTypes /\ RunInv(x) /\ WorldInv /\ runPc[x] = "collecting"
      /\ started[x] \in Nat /\ clock \in Nat /\ started[x] <= clock
  BY DEF SyncInv, SyncTypes, RunInv, RunShape
<1>3. Event(r) \in {"DISCOVERED", "REAPPEARED"} \/ (Event(r) \in Events /\ r \in Provisionable)
  BY DEF SyncInv, SyncTypes, HistoryInv, Event
<1>4. /\ WorldInv' /\ HistoryInv'
      /\ row' \in [Resources -> {"none", "visible", "deleted"}]
      /\ seen' \in [Resources -> Nat] /\ history' \in [Resources -> Events] /\ gone' \subseteq Resources
      /\ row'[r] = "visible" /\ seen'[r] = clock
      /\ \A o \in Resources \ {r} :
           row'[o] = row[o] /\ seen'[o] = seen[o] /\ (o \in gone => o \in gone')
  BY <1>3, Recorded
<1>5. /\ todo' \in [Runs -> SUBSET Resources] /\ todo'[x] = todo[x] \ {r}
      /\ \A y \in Runs \ {x} : todo'[y] = todo[y]
  BY <1>2 DEF SyncTypes
<1>6. SyncTypes'
  BY <1>2, <1>4, <1>5 DEF SyncTypes
<1>7. syncStatus # "SUCCEEDED"
  BY <1>1, <1>2 DEF RunInv, Withdrawn
<1>8. FreshAfterSuccess'
  BY <1>7 DEF FreshAfterSuccess
<1>9. RunInv(x)'
  <2>1. RunShape(x)'
    BY <1>1, <1>2, <1>5 DEF RunInv, RunShape
  <2>2. Confirmed(x)'
    BY <1>2, <1>4, <1>5 DEF RunInv, Confirmed
  <2>3. AsListed(x)'
    <3> SUFFICES ASSUME NEW o \in Resources \ (Changed(x) \cup Late(x))
                 PROVE  /\ o \in todo'[x] => o \in exists
                        /\ o \notin exists => ~ (row'[o] = "visible" /\ started[x] <= seen'[o])
                        /\ o \in exists /\ o \notin todo'[x] /\ task[x][TaskOf[o]] \in {"storing", "ok"} =>
                             row'[o] = "visible" /\ started[x] <= seen'[o]
                        /\ o \notin exists /\ task[x][TaskOf[o]] = "ok" => row'[o] # "visible"
      BY DEF AsListed, Changed, Late
    <3>1. o = r => r \in exists
      BY <1>1, <1>2 DEF RunInv, AsListed
    <3>2. CASE o = r
      BY <3>1, <3>2, <1>2, <1>4, <1>5
    <3>3. CASE o # r
      BY <3>3, <1>1, <1>2, <1>4, <1>5 DEF RunInv, AsListed
    <3> QED
      BY <3>2, <3>3
  <2>4. Withdrawn(x)'
    BY <1>7 DEF Withdrawn
  <2> QED
    BY <2>1, <2>2, <2>3, <2>4 DEF RunInv
<1>10. ASSUME NEW y \in Runs \ {x}
       PROVE  RunInv(y)'
  <2>1. ~ Holds(y)'
    BY <1>1, OneHolder DEF SyncInv
  <2>2. RunInv(y)
    BY DEF SyncInv
  <2> QED
    BY <1>1, <1>2, <1>4, <1>5, <2>1, <2>2, Undisturbed
<1> QED
  BY <1>1, <1>4, <1>6, <1>8, <1>9, <1>10 DEF SyncInv

\* What a run marks as deleted was gone since its row was confirmed.
LEMMA MarksTruthfully ==
  ASSUME SyncInv, NEW x \in Runs, NEW t \in Tasks, Stored(x, t),
         NEW r \in Resources, TaskOf[r] = t, Stale(x, r)
  PROVE  r \in gone
BY DEF SyncInv, SyncTypes, RunInv, Confirmed, Stored, Stale

LEMMA MarkStaleKeeps ==
  ASSUME SyncInv, NEW x \in Runs, NEW t \in Tasks, MarkStale(x, t)
  PROVE  SyncInv'
<1> DEFINE vanished == {r \in Resources : TaskOf[r] = t /\ Stale(x, r)}
<1> USE DEF Fenced, KeepStatus, KeepRest, SetTask, outVars, ghostVars
<1>1. LeaseInv' /\ claim' = claim /\ (\A y \in Runs : Holds(y)' => Holds(y)) /\ Holds(x)
  BY RunParts, LeaseKept DEF SyncInv, MarkStale
<1>2. /\ row' = [r \in Resources |-> IF r \in vanished THEN "deleted" ELSE row[r]]
      /\ history' = [r \in Resources |-> IF r \in vanished THEN "DELETED" ELSE history[r]]
      /\ Stored(x, t) /\ UNCHANGED <<seen, runPc, started, todo, result, gone, syncStatus, by, observed>>
      /\ UNCHANGED <<exists, changedAt, verified, lateAt, queuing, clock>>
  BY DEF MarkStale
<1>3. PICK s \in {"ok", "failed"} : task' = [task EXCEPT ![x][t] = s]
  BY DEF MarkStale
<1>4. /\ SyncTypes /\ RunInv(x) /\ WorldInv /\ runPc[x] = "collecting" /\ task[x][t] = "storing"
      /\ \A r \in todo[x] : TaskOf[r] # t
      /\ \A r \in Resources : r \in vanished <=> TaskOf[r] = t /\ row[r] = "visible" /\ seen[r] < started[x]
      /\ \A r \in Resources : TaskOf[r] \in Tasks
      /\ \A r \in todo[x] : r \in Resources
  BY <1>2, InventoryAssumption DEF SyncInv, SyncTypes, RunInv, RunShape, Stored, Stale
<1> HIDE DEF vanished
<1>5. /\ task' \in [Runs -> [Tasks -> {"todo", "storing"} \cup Finished]]
      /\ task'[x][t] = s /\ (\A u \in Tasks \ {t} : task'[x][u] = task[x][u])
      /\ \A y \in Runs \ {x} : task'[y] = task[y]
  BY <1>3, <1>4 DEF SyncTypes, Finished, Failures
<1>6. SyncTypes'
  BY <1>2, <1>4, <1>5 DEF SyncTypes, Events
<1>7. WorldInv'
  BY <1>2, <1>4 DEF WorldInv
<1>8. HistoryInv'
  BY <1>2 DEF SyncInv, HistoryInv
<1>9. FreshAfterSuccess'
  BY <1>1, <1>2, <1>4 DEF FreshAfterSuccess, RunInv, Withdrawn
<1>10. RunInv(x)'
  <2>1. RunShape(x)'
    <3>1. \A u \in Regional : u \in Tasks
      BY InventoryAssumption
    <3>2. ~ claim'[x[1]] < x[2]
      BY <1>1, <1>4, Claimed
    <3> QED
      BY <1>2, <1>4, <1>5, <3>1, <3>2 DEF RunInv, RunShape, Outside, Before
  <2>2. Confirmed(x)'
    BY <1>2, <1>4, <1>5 DEF RunInv, Confirmed
  <2>3. AsListed(x)'
    <3> SUFFICES ASSUME NEW o \in Resources \ (Changed(x) \cup Late(x))
                 PROVE  /\ o \in todo[x] => o \in exists
                        /\ o \notin exists => ~ (row'[o] = "visible" /\ started[x] <= seen[o])
                        /\ o \in exists /\ o \notin todo[x] /\ task'[x][TaskOf[o]] \in {"storing", "ok"} =>
                             row'[o] = "visible" /\ started[x] <= seen[o]
                        /\ o \notin exists /\ task'[x][TaskOf[o]] = "ok" => row'[o] # "visible"
      BY <1>2 DEF AsListed, Changed, Late
    <3>1. /\ o \in todo[x] => o \in exists
          /\ o \notin exists => ~ (row[o] = "visible" /\ started[x] <= seen[o])
          /\ o \in exists /\ o \notin todo[x] /\ task[x][TaskOf[o]] \in {"storing", "ok"} =>
               row[o] = "visible" /\ started[x] <= seen[o]
          /\ o \notin exists /\ task[x][TaskOf[o]] = "ok" => row[o] # "visible"
      BY <1>1, <1>4 DEF RunInv, AsListed
    <3>2. started[x] \in Nat /\ seen[o] \in Nat
      BY <1>4 DEF SyncTypes
    <3>3. CASE TaskOf[o] = t
      BY <3>1, <3>2, <3>3, <1>2, <1>4, <1>5
    <3>4. CASE TaskOf[o] # t
      BY <3>1, <3>2, <3>4, <1>2, <1>4, <1>5
    <3> QED
      BY <3>3, <3>4
  <2>4. Withdrawn(x)'
    BY <1>1, <1>2, <1>4 DEF RunInv, Withdrawn
  <2> QED
    BY <2>1, <2>2, <2>3, <2>4 DEF RunInv
<1>11. ASSUME NEW y \in Runs \ {x}
       PROVE  RunInv(y)'
  <2>1. ~ Holds(y)'
    BY <1>1, OneHolder DEF SyncInv
  <2>2. RunInv(y) /\ clock \in Nat
    BY DEF SyncInv, SyncTypes
  <2> QED
    BY <1>1, <1>2, <1>4, <1>5, <2>1, <2>2, Undisturbed
<1> QED
  BY <1>1, <1>6, <1>7, <1>8, <1>9, <1>10, <1>11 DEF SyncInv

-----------------------------------------------------------------------------
(* The theorems.                                                           *)

LEMMA SyncInitKeeps ==
  ASSUME SyncInit
  PROVE  SyncInv
<1> USE DEF SyncInit
<1>1. SyncTypes
  <2>1. history \in [Resources -> Events]
    BY DEF Events
  <2>2. syncStatus \in {"NEVER", "SUCCEEDED"}
    OBVIOUS
  <2> QED
    BY <2>1, <2>2 DEF SyncTypes, PCs, Results, NoRun
<1>2. LeaseInv
  BY InventoryAssumption DEF Lease!Init, Lease!Jobs, Lease!NoKey, LeaseInv, Jobs
<1>3. WorldInv /\ FreshAfterSuccess
  BY DEF WorldInv, FreshAfterSuccess
<1>4. HistoryInv
  BY DEF HistoryInv
<1>5. ASSUME NEW x \in Runs
      PROVE  RunInv(x)
  <2>1. RunShape(x)
    BY DEF RunShape, Outside, Before
  <2>2. Confirmed(x) /\ Withdrawn(x)
    BY InventoryAssumption DEF Confirmed, Withdrawn
  <2>3. AsListed(x)
    BY DEF AsListed, Changed, Late
  <2> QED
    BY <2>1, <2>2, <2>3 DEF RunInv
<1> QED
  BY <1>1, <1>2, <1>3, <1>4, <1>5 DEF SyncInv

LEMMA SyncNextKeeps ==
  ASSUME SyncInv, [SyncNext]_syncVars
  PROVE  SyncInv'
<1>1. CASE UNCHANGED syncVars
  <2> USE <1>1 DEF syncVars, leaseVars, invVars, runVars, outVars, ghostVars
  <2>1. SyncTypes' /\ LeaseInv' /\ WorldInv' /\ FreshAfterSuccess'
    BY DEF SyncInv, SyncTypes, LeaseInv, WorldInv, FreshAfterSuccess
  <2>2. HistoryInv'
    BY DEF SyncInv, HistoryInv
  <2>3. ASSUME NEW x \in Runs
        PROVE  RunInv(x)'
    BY DEF SyncInv, RunInv, RunShape, Confirmed, AsListed, Changed, Late, Withdrawn, Holds
  <2> QED
    BY <2>1, <2>2, <2>3 DEF SyncInv
<1>2. CASE (\E j \in 1..MaxJobs : Enqueue(j)) \/ MarkQueued
  BY <1>2, QueueKeeps DEF Jobs
<1>3. ASSUME NEW x \in Runs, RunStep(x)
      PROVE  SyncInv'
  BY <1>3, ClaimKeeps, StartKeeps, BeginKeeps, OpenRunSessionKeeps, OpenFailsKeeps, CollectKeeps, TaskFailsKeeps,
     MarkStaleKeeps, UpsertKeeps, SettleKeeps, AnalyseKeeps, BumpKeeps, FinalizeKeeps, CompleteKeeps, ThrowKeeps,
     LoseLeaseKeeps, RetryKeeps, FailKeeps, ReportKeeps, RunDiesKeeps DEF RunStep
<1>4. ASSUME NEW r \in Resources, Change(r) \/ VerifyResource(r) \/ Provisioned(r)
      PROVE  SyncInv'
  BY <1>4, ChangeKeeps, VerifyKeeps, ProvisionedKeeps
<1> QED
  BY <1>1, <1>2, <1>3, <1>4 DEF SyncNext

LEMMA SyncInvHolds == SyncSpec => []SyncInv
<1> QED
  BY SyncInitKeeps, SyncNextKeeps, PTL DEF SyncSpec

\* Rows, runs, their tasks and the account's status keep their types (inventory-sync.ts,
\* persist.ts).
THEOREM SyncTypeCorrect == SyncSpec => []SyncTypes
<1>1. SyncInv => SyncTypes
  BY DEF SyncInv
<1> QED
  BY <1>1, SyncInvHolds, PTL

\* An account that says SUCCEEDED shows of every resource that did not come or go since
\* the run began whether it is in AWS, whatever reclaimed and failed runs left behind; but
\* for a resource that a plan recorded late, verified before it was removed.
THEOREM SuccessIsFresh == SyncSpec => []FreshAfterSuccess
<1>1. SyncInv => FreshAfterSuccess
  BY DEF SyncInv
<1> QED
  BY <1>1, SyncInvHolds, PTL

\* A resource's history ends where its row does.
THEOREM HistoryIsToldRight == SyncSpec => []HistoryTold
<1>1. SyncInv => HistoryTold
  BY DEF SyncInv, SyncTypes, HistoryInv, HistoryTold
<1> QED
  BY <1>1, SyncInvHolds, PTL

\* A row becomes deleted only if its resource was absent since the row was confirmed: no
\* failing region, slow or reclaimed run hides a live resource.
THEOREM DeletionsAreTruthful == SyncSpec => DeletionIsTruthful
<1>1. ASSUME SyncInv, [SyncNext]_syncVars, NEW r \in Resources, row[r] = "visible", row'[r] = "deleted"
      PROVE  r \in gone
  <2>1. CASE \E x \in Runs, t \in Tasks : MarkStale(x, t)
    BY <1>1, <2>1, MarksTruthfully DEF MarkStale
  <2>2. CASE \E x \in Runs, o \in Resources : Upsert(x, o)
    BY <1>1, <2>2 DEF Upsert, Record, SyncInv, SyncTypes
  <2>3. CASE \E o \in Resources : Provisioned(o)
    BY <1>1, <2>3 DEF Provisioned, Record, SyncInv, SyncTypes
  <2>4. CASE row' = row
    BY <1>1, <2>4
  <2>5. ASSUME NEW x \in Runs, RunStep(x),
               ~ (\E t \in Tasks : MarkStale(x, t)), ~ (\E o \in Resources : Upsert(x, o))
        PROVE  row' = row
    BY <2>5 DEF RunStep, Claim, Start, Begin, OpenRunSession, OpenFails, Collect, CollectFails, StoreFails, Settle,
                Analyse, Bump, Finalize, Complete, Throw, LoseLease, Retry, Fail, Report, RunDies, invVars
  <2> QED
    BY <1>1, <2>1, <2>2, <2>3, <2>4, <2>5 DEF SyncNext, Enqueue, MarkQueued, Change, VerifyResource, syncVars, invVars
<1>2. SyncInv /\ [SyncNext]_syncVars =>
        [\A r \in Resources : row[r] = "visible" /\ row'[r] = "deleted" => r \in gone]_syncVars
  BY <1>1
<1> QED
  BY <1>2, SyncInvHolds, PTL DEF SyncSpec, DeletionIsTruthful

-----------------------------------------------------------------------------
(* The costs.                                                              *)

\* What is stored of a series, or fetched: periods with amounts.
Figures == UNION {[D -> Nat] : D \in SUBSET Nat}

RunSteps == {"idle", "fetch", "invoices", "commit"}
CostRunTypes == [step : RunSteps, back : [Granularities -> Nat], backfill : BOOLEAN,
                 day : {NoDay} \cup Nat, out : Seq(Figures),
                 invoices : {"kept", "fetched", "failed"},
                 changed : SUBSET (Granularities \X Nat), flipped : BOOLEAN, ready : BOOLEAN]
ToldTypes == [since : [Granularities -> Nat], asOf : {NoDay} \cup Nat,
              unseen : SUBSET (Granularities \X Nat), split : BOOLEAN, ready : BOOLEAN,
              lapsed : BOOLEAN, restates : Nat, runs : Nat]

\* Everything has its type.
CostTypes ==
    /\ today \in FirstDay..LastDay /\ prepared \in BOOLEAN
    /\ bill \in [Granularities -> Figures]
    /\ \A g \in Granularities : bill[g] \in [Periods(g) -> Nat]
    /\ costRows \in [Series -> Figures]
    /\ scope \in [version : {0, 1}, invoiceError : BOOLEAN, invoices : BOOLEAN]
    /\ run \in CostRunTypes
    /\ costJob \in [status : {"none", "RUNNING", "QUEUED", "FAILED", "SUCCEEDED"},
                    okDay : {NoDay} \cup Nat]
    /\ told \in ToldTypes

-----------------------------------------------------------------------------
(* The invariant.                                                          *)

AllZero == \A s \in Series : \A p \in DOMAIN costRows[s] : costRows[s][p] = 0

\* Every period since the backfill has its row, with what AWS charges unless it was
\* restated since the run that stored it began.
CostsStored ==
    \A s \in Series : \A p \in told.since[s.g]..PeriodOf(s.g, told.asOf) :
      /\ p \in DOMAIN costRows[s]
      /\ <<s.g, p>> \notin told.unseen => costRows[s][p] = bill[s.g][p]

\* No restatement since day reaches further back than AWS restates.
Recent(changes, day) ==
    \A c \in changes : PeriodOf(c[1], day) - Restatable[c[1]] <= c[2]

\* What a good run left behind.
RowsInv ==
    /\ scope.version = 0 <=> told.asOf = NoDay
    /\ scope.version = 1 =>
         /\ told.asOf \in FirstDay..today
         /\ \A g \in Granularities : told.since[g] + LongBack[g] <= PeriodOf(g, told.asOf)
         /\ Recent(told.unseen, told.asOf)
         /\ ~told.lapsed /\ ~told.split => AllZero \/ CostsStored
         /\ ~prepared => AllZero

\* Figures fetched from what AWS had prepared are its own.
Fetched(i) ==
    /\ DOMAIN run.out[i] = WindowOf(run, CostPlan[i].g)
    /\ \A p \in WindowOf(run, CostPlan[i].g) :
         <<CostPlan[i].g, p>> \notin run.changed => run.out[i][p] = bill[CostPlan[i].g][p]

\* What the run in progress has found out.
CostRunInv ==
    run.step # "idle" =>
      /\ run.day \in FirstDay..today /\ told.asOf <= run.day
      /\ run.back = IF run.backfill THEN LongBack ELSE ShortBack
      /\ ~run.backfill => HasHistory
      /\ ~run.ready => run.backfill
      /\ ~run.flipped => run.ready = prepared
      /\ Recent(run.changed, run.day)
      /\ run.step = "fetch" => Len(run.out) < Len(CostPlan)
      /\ run.step # "fetch" => Len(run.out) = Len(CostPlan)
      /\ run.step = "commit" => run.invoices # "kept"
      /\ prepared /\ ~run.flipped => \A i \in 1..Len(run.out) : Fetched(i)
      /\ ~prepared => \A i \in 1..Len(run.out) : \A p \in DOMAIN run.out[i] : run.out[i][p] = 0

CostInv == CostTypes /\ RowsInv /\ CostRunInv

-----------------------------------------------------------------------------
(* Days, months and windows.                                               *)

\* The month of a day, and its first day.
LEMMA MonthFacts ==
    ASSUME NEW d \in 0..LastDay
    PROVE  /\ MonthOf(d) \in 1..Len(MonthStart) - 1 /\ MonthOf(d) \in Nat /\ LastDay \in Nat
           /\ MonthStart[MonthOf(d)] \in Nat /\ MonthStart[MonthOf(d) + 1] \in Nat
           /\ MonthStart[MonthOf(d)] <= d /\ d < MonthStart[MonthOf(d) + 1]
<1>1. /\ MonthStart \in Seq(Nat) /\ LastDay \in Nat
      /\ \E m \in 1..Len(MonthStart) - 1 : MonthStart[m] <= d /\ d < MonthStart[m + 1]
    BY CostAssumption
<1>2. MonthOf(d) \in 1..Len(MonthStart) - 1 /\ MonthStart[MonthOf(d)] <= d /\ d < MonthStart[MonthOf(d) + 1]
    BY <1>1 DEF MonthOf
<1>3. Len(MonthStart) \in Nat
    BY <1>1
<1>4. MonthOf(d) \in 1..Len(MonthStart) /\ MonthOf(d) + 1 \in 1..Len(MonthStart) /\ MonthOf(d) \in Nat
    BY <1>2, <1>3
<1> QED
    BY <1>1, <1>2, <1>4, ElementOfSeq

\* Months do not go back.
LEMMA MonthsGoOn ==
    ASSUME NEW d \in 0..LastDay, NEW e \in 0..LastDay, d <= e
    PROVE  MonthOf(d) <= MonthOf(e)
<1>1. /\ MonthOf(d) \in 1..Len(MonthStart) - 1 /\ MonthOf(d) \in Nat
      /\ MonthStart[MonthOf(d)] \in Nat /\ MonthStart[MonthOf(d)] <= d
    BY MonthFacts
<1>2. /\ MonthOf(e) \in 1..Len(MonthStart) - 1 /\ MonthOf(e) \in Nat
      /\ MonthStart[MonthOf(e) + 1] \in Nat /\ e < MonthStart[MonthOf(e) + 1]
    BY MonthFacts
<1>3. Len(MonthStart) \in Nat
    BY CostAssumption
<1>4. SUFFICES ASSUME MonthOf(e) + 1 <= MonthOf(d) PROVE FALSE
    BY <1>1, <1>2
<1>5. MonthStart[MonthOf(e) + 1] <= MonthStart[MonthOf(d)]
  <2>1. CASE MonthOf(e) + 1 = MonthOf(d)
    BY <1>1, <2>1
  <2>2. CASE MonthOf(e) + 1 # MonthOf(d)
    <3>1. \A m, n \in 1..Len(MonthStart) : m < n => MonthStart[m] < MonthStart[n]
      BY CostAssumption
    <3>2. /\ MonthOf(e) + 1 \in 1..Len(MonthStart) /\ MonthOf(d) \in 1..Len(MonthStart)
          /\ MonthOf(e) + 1 < MonthOf(d)
      BY <1>1, <1>2, <1>3, <1>4, <2>2
    <3>3. MonthStart[MonthOf(e) + 1] < MonthStart[MonthOf(d)]
      BY <3>1, <3>2
    <3> QED
      BY <1>1, <1>2, <3>3
  <2> QED
    BY <2>1, <2>2
<1> QED
    BY <1>1, <1>2, <1>5

LEMMA PeriodFacts ==
    ASSUME NEW g \in Granularities, NEW d \in 0..LastDay, NEW e \in 0..LastDay, d <= e
    PROVE  PeriodOf(g, d) \in Nat /\ PeriodOf(g, d) <= PeriodOf(g, e)
<1>1. CASE g = "DAILY"
    BY <1>1 DEF PeriodOf
<1>2. CASE g # "DAILY"
    BY <1>2, MonthFacts, MonthsGoOn DEF PeriodOf
<1> QED
    BY <1>1, <1>2

\* The days of the model are days of the calendar, and their periods are periods.
LEMMA DayFacts ==
    /\ FirstDay \in Nat /\ LastDay \in Nat /\ 0 \in 0..LastDay
    /\ FirstDay..LastDay \subseteq 0..LastDay /\ FirstDay \in 0..LastDay /\ LastDay \in 0..LastDay
    /\ \A g \in Granularities : /\ PeriodOf(g, 0) \in Nat /\ PeriodOf(g, FirstDay) \in Nat
                                 /\ PeriodOf(g, LastDay) \in Nat /\ Periods(g) \in SUBSET Nat
<1>1. FirstDay \in Nat /\ LastDay \in Nat /\ FirstDay <= LastDay
    BY CostAssumption
<1>2. 0 \in 0..LastDay /\ FirstDay..LastDay \subseteq 0..LastDay /\ FirstDay \in 0..LastDay /\ LastDay \in 0..LastDay
    BY <1>1
<1>3. \A g \in Granularities : PeriodOf(g, 0) \in Nat /\ PeriodOf(g, FirstDay) \in Nat /\ PeriodOf(g, LastDay) \in Nat
    BY <1>1, <1>2, PeriodFacts
<1>4. \A g \in Granularities : Periods(g) \in SUBSET Nat
    BY <1>3 DEF Periods
<1> QED
    BY <1>1, <1>2, <1>3, <1>4

\* A later run that is not too late reaches back to what may have been restated since the
\* earlier one.
LEMMA WindowsMeet ==
    ASSUME NEW g \in Granularities, NEW d \in FirstDay..LastDay, NEW e \in FirstDay..LastDay,
           d <= e, e - d <= MaxGap
    PROVE  PeriodOf(g, e) - ShortBack[g] <= PeriodOf(g, d) - Restatable[g]
<1>1. PeriodOf(g, e) - PeriodOf(g, d) + Restatable[g] <= ShortBack[g]
    BY CostAssumption
<1>2. ShortBack[g] \in Nat /\ Restatable[g] \in Nat
    BY CostAssumption
<1>3. PeriodOf(g, d) \in Nat /\ PeriodOf(g, e) \in Nat
    BY DayFacts, PeriodFacts
<1> QED
    BY <1>1, <1>2, <1>3

LEMMA PlanFacts ==
    /\ \A s \in Series : s.g \in Granularities
    /\ \A i \in 1..Len(CostPlan) : CostPlan[i] \in Series /\ CostPlan[i].g \in Granularities
    /\ DailyTotal \in Series
<1> DEFINE S == [g : Granularities, d : STRING]
<1>1. CostPlan \in Seq(S) /\ DailyTotal \in Series
    BY CostAssumption
<1>2. \A i \in 1..Len(CostPlan) : CostPlan[i] \in S
    BY <1>1, ElementOfSeq
<1> QED
    BY <1>1, <1>2 DEF Series

\* Nothing before the first period is fetched, and nothing after the last.
LEMMA WindowInPeriods ==
    ASSUME CostTypes, NEW g \in Granularities, run.day \in FirstDay..today,
           run.back = LongBack \/ run.back = ShortBack
    PROVE  /\ run.back[g] \in Nat /\ run.back[g] <= LongBack[g]
           /\ PeriodOf(g, run.day) - run.back[g] \in Nat
           /\ PeriodOf(g, run.day) \in Nat
           /\ WindowOf(run, g) \subseteq Periods(g)
<1>1. /\ today \in Nat /\ run.day \in Nat /\ FirstDay <= run.day /\ run.day <= LastDay
      /\ run.day \in 0..LastDay
    BY DayFacts DEF CostTypes
<1>2. /\ ShortBack[g] \in Nat /\ LongBack[g] \in Nat /\ ShortBack[g] <= LongBack[g]
      /\ PeriodOf(g, FirstDay) >= PeriodOf(g, 0) + LongBack[g]
    BY CostAssumption
<1>3. /\ PeriodOf(g, FirstDay) \in Nat /\ PeriodOf(g, run.day) \in Nat /\ PeriodOf(g, LastDay) \in Nat
      /\ PeriodOf(g, FirstDay) <= PeriodOf(g, run.day)
      /\ PeriodOf(g, run.day) <= PeriodOf(g, LastDay) /\ PeriodOf(g, 0) \in Nat
    BY <1>1, DayFacts, PeriodFacts
<1>4. run.back[g] \in Nat /\ run.back[g] <= LongBack[g]
    BY <1>2
<1> QED
    BY <1>2, <1>3, <1>4 DEF WindowOf, Periods

\* A function from periods to amounts is a set of figures, and so is nothing.
LEMMA FiguresFacts ==
    /\ \A D \in SUBSET Nat : \A f \in [D -> Nat] : f \in Figures
    /\ \A f \in Figures : DOMAIN f \in SUBSET Nat /\ \A p \in DOMAIN f : f[p] \in Nat
    /\ <<>> \in Figures /\ DOMAIN <<>> = {}
<1>1. <<>> \in [{} -> Nat] /\ DOMAIN <<>> = {}
    OBVIOUS
<1>2. ASSUME NEW D \in SUBSET Nat, NEW f \in [D -> Nat]
      PROVE  f \in Figures
    BY <1>2 DEF Figures
<1>3. ASSUME NEW f \in Figures
      PROVE  DOMAIN f \in SUBSET Nat /\ \A p \in DOMAIN f : f[p] \in Nat
  <2>1. PICK D \in SUBSET Nat : f \in [D -> Nat]
      BY <1>3 DEF Figures
  <2> QED
      BY <2>1
<1> QED
    BY <1>1, <1>2, <1>3

-----------------------------------------------------------------------------
(* The first state, and the steps that leave the rows alone.               *)

LEMMA CostInitInv == CostInit => CostInv
<1> SUFFICES ASSUME CostInit PROVE CostInv
    OBVIOUS
<1> USE DEF CostInit, NoCostRun, NoDay
<1>0. /\ FirstDay \in Nat /\ LastDay \in Nat /\ FirstDay <= LastDay
      /\ \A g \in Granularities : PeriodOf(g, FirstDay) \in Nat /\ Periods(g) \in SUBSET Nat
    BY CostAssumption, DayFacts
<1>1. bill \in [Granularities -> Figures] /\ \A g \in Granularities : bill[g] \in [Periods(g) -> Nat]
    BY <1>0, FiguresFacts
<1>2. costRows \in [Series -> Figures]
  <2>1. Legacy \in Figures
    BY <1>0, FiguresFacts DEF Legacy, Granularities
  <2> QED
    BY <2>1, FiguresFacts
<1>3. run \in CostRunTypes
    BY DEF CostRunTypes, RunSteps
<1>4. told \in ToldTypes
    BY DEF ToldTypes
<1>5. CostTypes
    BY <1>0, <1>1, <1>2, <1>3, <1>4 DEF CostTypes
<1>6. RowsInv /\ CostRunInv
    BY DEF RowsInv, CostRunInv
<1> QED
    BY <1>5, <1>6 DEF CostInv

LEMMA CostTypeFacts ==
    ASSUME CostTypes
    PROVE  /\ FirstDay \in Nat /\ today \in Nat /\ LastDay \in Nat
           /\ today \in 0..LastDay
           /\ \A g \in Granularities : ShortBack[g] \in Nat /\ LongBack[g] \in Nat /\ Restatable[g] \in Nat
<1>1. FirstDay \in Nat /\ LastDay \in Nat
    BY CostAssumption
<1>2. \A g \in Granularities : ShortBack[g] \in Nat /\ LongBack[g] \in Nat /\ Restatable[g] \in Nat
    BY CostAssumption
<1> QED
    BY <1>1, <1>2 DEF CostTypes

LEMMA NextDayKeeps ==
    ASSUME CostInv, NextDay
    PROVE  CostInv'
<1> USE CostTypeFacts DEF CostInv, NextDay
<1>1. CostTypes'
    BY DEF CostTypes, Periods
<1>2. RowsInv'
    BY DEF CostTypes, RowsInv, AllZero, CostsStored, Recent, ToldTypes, NoDay
<1>3. CostRunInv'
  <2>1. /\ \A i \in 1..Len(run.out) : Fetched(i)' <=> Fetched(i)
        /\ HasHistory' <=> HasHistory
        /\ Recent(run.changed, run.day)' <=> Recent(run.changed, run.day)
    BY DEF Fetched, WindowOf, HasHistory, Recent
  <2>2. run.day \in FirstDay..today => run.day \in FirstDay..today'
    BY DEF CostTypes
  <2> QED
    BY <2>1, <2>2 DEF CostRunInv
<1> QED
    BY <1>1, <1>2, <1>3

LEMMA PrepareKeeps ==
    ASSUME CostInv, Prepare
    PROVE  CostInv'
<1> USE DEF CostInv, Prepare
<1>1. CostTypes'
    BY DEF CostTypes, CostRunTypes, Periods
<1>2. RowsInv'
    BY DEF RowsInv, AllZero, CostsStored, Recent
<1>3. CostRunInv'
  <2>1. /\ run'.step = run.step /\ run'.out = run.out /\ run'.day = run.day /\ run'.back = run.back
        /\ run'.backfill = run.backfill /\ run'.ready = run.ready /\ run'.changed = run.changed
        /\ run'.invoices = run.invoices
        /\ run.step # "idle" => run'.flipped
    BY DEF CostTypes, CostRunTypes
  <2> QED
    BY <2>1 DEF CostRunInv, HasHistory, Recent
<1> QED
    BY <1>1, <1>2, <1>3

\* What AWS restates is not counted as stored, and reaches no further back than it may.
LEMMA RestateKeeps ==
    ASSUME CostInv, NEW g \in Granularities, NEW p \in Periods(g), Restate(g, p)
    PROVE  CostInv'
<1> USE DEF CostInv, Restate
<1>0. /\ FirstDay \in Nat /\ today \in Nat /\ Restatable[g] \in Nat /\ PeriodOf(g, today) \in Nat
      /\ p \in Nat /\ PeriodOf(g, today) - Restatable[g] <= p /\ today <= LastDay /\ LastDay \in Nat
    BY CostTypeFacts, PeriodFacts, DayFacts
<1>1. /\ \A h \in Granularities : \A q \in Periods(h) :
           <<h, q>> # <<g, p>> => bill'[h][q] = bill[h][q]
      /\ bill' \in [Granularities -> Figures]
      /\ \A h \in Granularities : bill'[h] \in [Periods(h) -> Nat]
  <2>1. bill[g] \in [Periods(g) -> Nat] /\ bill[g][p] + 1 \in Nat
    BY DEF CostTypes
  <2> QED
    BY <2>1, DayFacts, FiguresFacts DEF CostTypes
<1>2. /\ run'.changed \subseteq run.changed \cup {<<g, p>>} /\ run.changed \subseteq run'.changed
      /\ run.step # "idle" => <<g, p>> \in run'.changed
      /\ run' = [run EXCEPT !.changed = run'.changed]
      /\ run'.changed \in SUBSET (Granularities \X Nat)
  <2>1. <<g, p>> \in Granularities \X Nat /\ run.changed \in SUBSET (Granularities \X Nat)
    BY <1>0 DEF CostTypes, CostRunTypes
  <2>2. CASE run.step = "idle"
    BY <2>1, <2>2 DEF CostTypes, CostRunTypes
  <2>3. CASE run.step # "idle"
    <3>1. run' = [run EXCEPT !.changed = run.changed \cup {<<g, p>>}]
      BY <2>3
    <3>2. run'.changed = run.changed \cup {<<g, p>>}
      BY <3>1 DEF CostTypes, CostRunTypes
    <3> QED
      BY <2>1, <3>1, <3>2
  <2> QED
    BY <2>2, <2>3
<1>3. /\ told' = [told EXCEPT !.restates = told.restates + 1, !.unseen = told.unseen \cup {<<g, p>>}]
      /\ told'.unseen = told.unseen \cup {<<g, p>>}
      /\ told'.asOf = told.asOf /\ told'.since = told.since
      /\ told'.lapsed = told.lapsed /\ told'.split = told.split
    BY DEF CostTypes, ToldTypes
<1>4. CostTypes'
  <2>1. run' \in CostRunTypes
    BY <1>2 DEF CostTypes, CostRunTypes
  <2>2. told' \in ToldTypes
    <3>1. told.unseen \cup {<<g, p>>} \in SUBSET (Granularities \X Nat) /\ told.restates + 1 \in Nat
      BY <1>0 DEF CostTypes, ToldTypes
    <3> QED
      BY <1>3, <3>1 DEF CostTypes, ToldTypes
  <2> QED
    BY <1>1, <2>1, <2>2 DEF CostTypes, Periods
<1>5. RowsInv'
  <2>1. ASSUME scope.version = 1
        PROVE  Recent(told.unseen, told.asOf)'
    <3>1. told.asOf \in 0..LastDay /\ today \in 0..LastDay /\ told.asOf <= today
      BY <1>0, <2>1 DEF RowsInv
    <3>2. PeriodOf(g, told.asOf) \in Nat /\ PeriodOf(g, told.asOf) <= PeriodOf(g, today)
      BY <3>1, PeriodFacts
    <3>3. PeriodOf(g, told.asOf) - Restatable[g] <= p
      BY <1>0, <3>2
    <3> QED
      BY <1>3, <2>1, <3>3 DEF RowsInv, Recent
  <2>2. ASSUME scope.version = 1, CostsStored
        PROVE  CostsStored'
    <3>1. ASSUME NEW s \in Series, NEW q \in told.since[s.g]..PeriodOf(s.g, told.asOf),
                 <<s.g, q>> \notin told'.unseen
          PROVE  bill'[s.g][q] = bill[s.g][q]
      <4>1. s.g \in Granularities /\ <<s.g, q>> # <<g, p>>
        BY <1>3, <3>1, PlanFacts
      <4> QED
        BY <4>1 DEF CostTypes
    <3>2. ASSUME NEW s \in Series, NEW q \in told.since[s.g]..PeriodOf(s.g, told.asOf)
          PROVE  /\ q \in DOMAIN costRows'[s]
                 /\ <<s.g, q>> \notin told'.unseen => costRows'[s][q] = bill'[s.g][q]
      BY <1>3, <2>2, <3>1, <3>2 DEF CostsStored
    <3> QED
      BY <1>3, <3>2 DEF CostsStored
  <2> QED
    BY <1>3, <2>1, <2>2 DEF RowsInv, AllZero
<1>6. CostRunInv'
  <2>1. ASSUME run.step # "idle"
        PROVE  Recent(run.changed, run.day)'
    <3>1. run.day \in 0..LastDay /\ today \in 0..LastDay /\ run.day <= today
      BY <1>0, <2>1 DEF CostRunInv
    <3>2. PeriodOf(g, run.day) \in Nat /\ PeriodOf(g, run.day) <= PeriodOf(g, today)
      BY <3>1, PeriodFacts
    <3>3. run'.day = run.day /\ PeriodOf(g, run.day) - Restatable[g] <= p
      BY <1>0, <1>2, <3>2 DEF CostTypes, CostRunTypes
    <3> QED
      BY <1>2, <2>1, <3>3 DEF CostRunInv, Recent
  <2>2. ASSUME run.step # "idle", NEW i \in 1..Len(run.out), Fetched(i), i \in 1..Len(CostPlan)
        PROVE  Fetched(i)'
    <3>1. run'.out = run.out /\ run'.day = run.day /\ run'.back = run.back
      BY <1>2 DEF CostTypes, CostRunTypes
    <3>2. WindowOf(run', CostPlan[i].g) = WindowOf(run, CostPlan[i].g)
      BY <3>1 DEF WindowOf
    <3>3. ASSUME NEW q \in WindowOf(run, CostPlan[i].g), <<CostPlan[i].g, q>> \notin run'.changed
          PROVE  bill'[CostPlan[i].g][q] = bill[CostPlan[i].g][q]
      <4>1. CostPlan[i].g \in Granularities /\ <<CostPlan[i].g, q>> # <<g, p>>
        BY <1>2, <2>2, <3>3, PlanFacts
      <4> QED
        BY <4>1 DEF CostTypes
    <3> QED
      BY <1>2, <2>2, <3>1, <3>2, <3>3 DEF Fetched
  <2>3. /\ run'.step = run.step /\ run'.out = run.out /\ run'.day = run.day /\ run'.back = run.back
        /\ run'.backfill = run.backfill /\ run'.ready = run.ready /\ run'.flipped = run.flipped
        /\ run'.invoices = run.invoices
    BY <1>2 DEF CostTypes, CostRunTypes
  <2>4. run.step # "idle" => Len(run.out) <= Len(CostPlan) /\ Len(run.out) \in Nat /\ Len(CostPlan) \in Nat
    <3>1. CostPlan \in Seq([g : Granularities, d : STRING]) /\ run.out \in Seq(Figures)
      BY CostAssumption DEF CostTypes, CostRunTypes
    <3>2. Len(run.out) \in Nat /\ Len(CostPlan) \in Nat
      BY <3>1
    <3> QED
      BY <3>2 DEF CostRunInv
  <2> QED
    BY <1>3, <2>1, <2>2, <2>3, <2>4 DEF CostRunInv, HasHistory
<1> QED
    BY <1>4, <1>5, <1>6

\* A run that is over has nothing to be right about.
LEMMA RunOverKeeps ==
    ASSUME CostInv, run' = NoCostRun, costJob' \in [status : {"none", "RUNNING", "QUEUED", "FAILED", "SUCCEEDED"},
                                                   okDay : {NoDay} \cup Nat],
           UNCHANGED <<today, prepared, bill, costRows, scope, told>>
    PROVE  CostInv'
<1> USE DEF CostInv
<1>1. NoCostRun \in CostRunTypes /\ NoCostRun.step = "idle"
    BY DEF NoCostRun, CostRunTypes, RunSteps
<1>2. CostTypes'
    BY <1>1 DEF CostTypes, Periods
<1>3. RowsInv'
    BY DEF RowsInv, AllZero, CostsStored, Recent
<1>4. CostRunInv'
    BY <1>1 DEF CostRunInv
<1> QED
    BY <1>2, <1>3, <1>4

LEMMA FetchFailsKeeps ==
    ASSUME CostInv, NEW err \in CostErrors, FetchFails(err)
    PROVE  CostInv'
<1>1. PICK status \in {"QUEUED", "FAILED"} : costJob' = [costJob EXCEPT !.status = status]
    BY DEF FetchFails
<1>2. costJob' \in [status : {"none", "RUNNING", "QUEUED", "FAILED", "SUCCEEDED"}, okDay : {NoDay} \cup Nat]
    BY <1>1 DEF CostInv, CostTypes
<1> QED
    BY <1>2, RunOverKeeps DEF FetchFails

LEMMA CostRunLostKeeps ==
    ASSUME CostInv, CostRunLost
    PROVE  CostInv'
<1>1. costJob' \in [status : {"none", "RUNNING", "QUEUED", "FAILED", "SUCCEEDED"}, okDay : {NoDay} \cup Nat]
    BY DEF CostInv, CostTypes, CostRunLost
<1> QED
    BY <1>1, RunOverKeeps DEF CostRunLost

\* While AWS prepares the data there is no history, and the run is a backfill.
LEMMA BeginCostRunKeeps ==
    ASSUME CostInv, BeginCostRun
    PROVE  CostInv'
<1> USE DEF CostInv, BeginCostRun
<1> DEFINE backfill == ~HasHistory
           back == Back(HasHistory)
<1>1. /\ run'.step = "fetch" /\ run'.day = today /\ run'.backfill = backfill
      /\ run'.back = back /\ run'.ready = prepared /\ run'.flipped = FALSE
      /\ run'.out = <<>> /\ run'.changed = {} /\ run'.invoices = "kept"
      /\ run' \in CostRunTypes
  <2>1. backfill \in BOOLEAN
    BY DEF HasHistory
  <2>2. back \in [Granularities -> Nat]
    BY CostAssumption DEF Back
  <2>3. today \in Nat /\ prepared \in BOOLEAN
    BY CostTypeFacts DEF CostTypes
  <2>4. run' = [NoCostRun EXCEPT !.step = "fetch", !.back = back, !.backfill = backfill,
                                 !.day = today, !.ready = prepared]
    OBVIOUS
  <2>5. <<>> \in Seq(Figures)
    OBVIOUS
  <2> HIDE DEF backfill, back, CostInv, BeginCostRun
  <2>6. run' = [step |-> "fetch", back |-> back, backfill |-> backfill, day |-> today, out |-> <<>>,
                invoices |-> "kept", changed |-> {}, flipped |-> FALSE, ready |-> prepared]
    BY <2>4 DEF NoCostRun
  <2>7. run' \in CostRunTypes
    BY Zenon, <2>1, <2>2, <2>3, <2>5, <2>6 DEF CostRunTypes, RunSteps
  <2> QED
    BY Zenon, <2>6, <2>7
<1>2. /\ told' = [told EXCEPT !.runs = told.runs + 1] /\ told' \in ToldTypes
      /\ told'.asOf = told.asOf /\ told'.since = told.since /\ told'.unseen = told.unseen
      /\ told'.lapsed = told.lapsed /\ told'.split = told.split
    BY DEF CostTypes, ToldTypes
<1>3. CostTypes'
    BY <1>1, <1>2 DEF CostTypes, Periods
<1>4. RowsInv'
    BY <1>2 DEF RowsInv, AllZero, CostsStored, Recent
<1>5. CostRunInv'
  <2>1. today \in FirstDay..today /\ told.asOf <= today
    BY CostTypeFacts DEF CostTypes, RowsInv, ToldTypes, NoDay
  <2>2. ~prepared => ~HasHistory
    BY DEF HasHistory, RowsInv, AllZero
  <2>3. 0 < Len(CostPlan)
    <3>1. DailyTotal \in Series /\ CostPlan \in Seq([g : Granularities, d : STRING])
      BY CostAssumption
    <3> QED
      BY <3>1 DEF Series
  <2>4. HasHistory' = HasHistory
    BY DEF HasHistory
  <2>5. /\ run'.back = IF run'.backfill THEN LongBack ELSE ShortBack
        /\ ~run'.backfill => HasHistory'
        /\ ~run'.ready => run'.backfill
    BY <1>1, <2>2, <2>4 DEF Back
  <2>6. Len(run'.out) = 0 /\ 1..Len(run'.out) = {} /\ Recent(run'.changed, run'.day)
    BY <1>1 DEF Recent
  <2> QED
    BY <1>1, <1>2, <2>1, <2>3, <2>5, <2>6 DEF CostRunInv, Recent
<1> QED
    BY <1>3, <1>4, <1>5

LEMMA FetchInvoicesKeeps ==
    ASSUME CostInv, FetchInvoices
    PROVE  CostInv'
<1> USE DEF CostInv, FetchInvoices
<1>1. PICK found \in {"fetched", "failed"} :
        run' = [run EXCEPT !.invoices = found, !.step = "commit"]
    OBVIOUS
<1>2. /\ run'.step = "commit" /\ run'.out = run.out /\ run'.day = run.day /\ run'.back = run.back
      /\ run'.backfill = run.backfill /\ run'.ready = run.ready /\ run'.changed = run.changed
      /\ run'.flipped = run.flipped /\ run'.invoices # "kept" /\ run' \in CostRunTypes
    BY <1>1 DEF CostTypes, CostRunTypes, RunSteps
<1>3. CostTypes'
    BY <1>2 DEF CostTypes, Periods
<1>4. RowsInv'
    BY DEF RowsInv, AllZero, CostsStored, Recent
<1>5. CostRunInv'
  <2>1. \A g : WindowOf(run', g) = WindowOf(run, g)
    BY <1>2 DEF WindowOf
  <2>2. \A i \in 1..Len(run.out) : Fetched(i) => Fetched(i)'
    BY <1>2, <2>1 DEF Fetched
  <2> QED
    BY <1>2, <2>2 DEF CostRunInv, HasHistory, Recent
<1> QED
    BY <1>3, <1>4, <1>5

\* What is fetched of a series now.
LEMMA RowsNowFacts ==
    ASSUME CostInv, run.step = "fetch", NEW s \in Series
    PROVE  /\ RowsNow(s) \in Figures
           /\ prepared => /\ DOMAIN RowsNow(s) = WindowOf(run, s.g)
                          /\ \A p \in WindowOf(run, s.g) : RowsNow(s)[p] = bill[s.g][p]
           /\ ~prepared => \A p \in DOMAIN RowsNow(s) : RowsNow(s)[p] = 0
<1> USE DEF CostInv
<1>1. s.g \in Granularities /\ run.day \in FirstDay..today /\ (run.back = LongBack \/ run.back = ShortBack)
    BY PlanFacts DEF CostRunInv
<1>2. WindowOf(run, s.g) \subseteq Periods(s.g) /\ Periods(s.g) \in SUBSET Nat
    BY <1>1, WindowInPeriods, DayFacts
<1>3. CASE prepared
  <2>1. RowsNow(s) = [p \in WindowOf(run, s.g) |-> bill[s.g][p]]
    BY <1>3 DEF RowsNow
  <2>2. \A p \in WindowOf(run, s.g) : bill[s.g][p] \in Nat
    BY <1>1, <1>2 DEF CostTypes
  <2> QED
    BY <1>2, <1>3, <2>1, <2>2, FiguresFacts
<1>4. CASE ~prepared
  <2>1. RowsNow(s) = [p \in WindowOf(run, s.g) |-> 0] \/ RowsNow(s) = <<>>
    BY <1>4 DEF RowsNow
  <2> QED
    BY <1>2, <1>4, <2>1, FiguresFacts
<1> QED
    BY <1>3, <1>4

LEMMA FetchSeriesKeeps ==
    ASSUME CostInv, FetchSeries
    PROVE  CostInv'
<1> DEFINE n == Len(run.out) + 1
           rows == RowsNow(CostPlan[n])
<1>1. /\ run \in CostRunTypes /\ run.out \in Seq(Figures) /\ run.step = "fetch"
      /\ Len(run.out) \in Nat /\ Len(CostPlan) \in Nat /\ Len(run.out) < Len(CostPlan)
  <2>1. CostPlan \in Seq([g : Granularities, d : STRING]) /\ run.out \in Seq(Figures)
    BY CostAssumption DEF CostInv, CostTypes, CostRunTypes
  <2>2. Len(run.out) \in Nat /\ Len(CostPlan) \in Nat
    BY <2>1
  <2> QED
    BY <2>1, <2>2 DEF CostInv, CostTypes, CostRunInv, FetchSeries
<1>2. n \in 1..Len(CostPlan) /\ CostPlan[n] \in Series /\ CostPlan[n].g \in Granularities
    BY <1>1, PlanFacts
<1>3. /\ rows \in Figures
      /\ prepared => /\ DOMAIN rows = WindowOf(run, CostPlan[n].g)
                     /\ \A p \in WindowOf(run, CostPlan[n].g) : rows[p] = bill[CostPlan[n].g][p]
      /\ ~prepared => \A p \in DOMAIN rows : rows[p] = 0
    BY <1>1, <1>2, RowsNowFacts
<1> HIDE DEF rows
<1>4. /\ Append(run.out, rows) \in Seq(Figures) /\ Len(Append(run.out, rows)) = n
      /\ \A i \in 1..Len(run.out) : Append(run.out, rows)[i] = run.out[i]
      /\ Append(run.out, rows)[n] = rows
    BY <1>1, <1>3
<1>5. /\ run'.out = Append(run.out, rows) /\ run'.step = IF n = Len(CostPlan) THEN "invoices" ELSE "fetch"
      /\ run'.day = run.day /\ run'.back = run.back
      /\ run'.backfill = run.backfill /\ run'.ready = run.ready /\ run'.changed = run.changed
      /\ run'.flipped = run.flipped /\ run' \in CostRunTypes
  <2>1. run' = [run EXCEPT !.out = Append(run.out, rows),
                           !.step = IF n = Len(CostPlan) THEN "invoices" ELSE "fetch"]
    BY <1>4 DEF FetchSeries, rows
  <2> QED
    BY <1>1, <1>4, <2>1 DEF CostRunTypes, RunSteps
<1>6. UNCHANGED <<today, prepared, bill, costRows, scope, costJob, told>>
    BY DEF FetchSeries
<1>7. CostTypes'
    BY <1>5, <1>6 DEF CostInv, CostTypes, Periods
<1>8. RowsInv'
    BY <1>6 DEF CostInv, RowsInv, AllZero, CostsStored, Recent
<1>9. CostRunInv'
  <2>1. \A g : WindowOf(run, g)' = WindowOf(run, g)
    BY <1>5 DEF WindowOf
  <2>2. \A i \in 1..n : i \in 1..Len(run.out) \/ i = n
    BY <1>1
  <2>3. ASSUME prepared, ~run.flipped, NEW i \in 1..n
        PROVE  Fetched(i)'
    <3>1. CASE i = n
      BY <1>3, <1>4, <1>5, <1>6, <2>1, <2>3, <3>1 DEF Fetched
    <3>2. CASE i \in 1..Len(run.out)
      BY <1>1, <1>4, <1>5, <1>6, <2>1, <2>3, <3>2 DEF Fetched, CostInv, CostRunInv
    <3> QED
      BY <2>2, <3>1, <3>2
  <2>4. ASSUME ~prepared, NEW i \in 1..n
        PROVE  \A p \in DOMAIN run'.out[i] : run'.out[i][p] = 0
    <3>1. CASE i = n
      BY <1>3, <1>4, <1>5, <2>4, <3>1
    <3>2. CASE i \in 1..Len(run.out)
      BY <1>1, <1>4, <1>5, <2>4, <3>2 DEF CostInv, CostRunInv
    <3> QED
      BY <2>2, <3>1, <3>2
  <2>5. /\ run'.step # "idle"
        /\ run'.step = "fetch" => n < Len(CostPlan)
        /\ run'.step # "fetch" => n = Len(CostPlan)
    BY <1>1, <1>5
  <2>6. HasHistory' = HasHistory /\ Recent(run.changed, run.day)' = Recent(run.changed, run.day)
    BY <1>5, <1>6 DEF HasHistory, Recent
  <2>7. Len(run'.out) = n
    BY <1>4, <1>5
  <2> HIDE DEF n
  <2> QED
    BY <1>1, <1>5, <1>6, <2>3, <2>4, <2>5, <2>6, <2>7 DEF CostInv, CostRunInv
<1> QED
    BY <1>7, <1>8, <1>9 DEF CostInv

-----------------------------------------------------------------------------
(* The transaction.                                                        *)

\* The place of a series in the plan.
Place(s) == CHOOSE i \in 1..Len(CostPlan) : CostPlan[i] = s

LEMMA PlaceFacts ==
    ASSUME NEW s \in Series
    PROVE  Place(s) \in 1..Len(CostPlan) /\ CostPlan[Place(s)] = s
<1>1. \E i \in 1..Len(CostPlan) : CostPlan[i] = s
    BY DEF Series
<1> QED
    BY <1>1 DEF Place

\* The rows of a series after the transaction.
LEMMA CommittedRows ==
    ASSUME CostInv, CommitCosts, NEW s \in Series
    PROVE  LET new == run.out[Place(s)] IN
           /\ costRows' \in [Series -> Figures]
           /\ new \in Figures
           /\ \A p \in DOMAIN new : p \in DOMAIN costRows'[s] /\ costRows'[s][p] = new[p]
           /\ \A p \in DOMAIN costRows[s] :
                scope.version = 1 /\ p < PeriodOf(s.g, run.day) - run.back[s.g] /\ p \notin DOMAIN new =>
                  p \in DOMAIN costRows'[s] /\ costRows'[s][p] = costRows[s][p]
           /\ \A p \in DOMAIN costRows'[s] :
                \/ p \in DOMAIN new /\ costRows'[s][p] = new[p]
                \/ scope.version = 1 /\ p \in DOMAIN costRows[s] /\ costRows'[s][p] = costRows[s][p]
<1> USE DEF CostInv
<1>1. ASSUME NEW t \in Series
      PROVE  run.out[Place(t)] \in Figures /\ costRows[t] \in Figures
  <2>1. run.out \in Seq(Figures) /\ Len(run.out) = Len(CostPlan)
    BY DEF CommitCosts, CostTypes, CostRunTypes, CostRunInv
  <2> QED
    BY <2>1, PlaceFacts DEF CostTypes
<1>2. costRows' = [t \in Series |-> Replaced(t, run.out[Place(t)])]
    BY DEF CommitCosts, Place
<1>3. ASSUME NEW t \in Series
      PROVE  Replaced(t, run.out[Place(t)]) \in Figures
  <2> DEFINE new == run.out[Place(t)]
             old == {p \in DOMAIN costRows[t] :
                       scope.version = 1 /\ p < PeriodOf(t.g, run.day) - run.back[t.g]}
             f == [p \in old \cup DOMAIN new |-> IF p \in DOMAIN new THEN new[p] ELSE costRows[t][p]]
  <2>1. old \cup DOMAIN new \in SUBSET Nat
    BY <1>1, FiguresFacts
  <2>2. \A p \in old \cup DOMAIN new : f[p] \in Nat
    BY <1>1, FiguresFacts
  <2>3. f \in [old \cup DOMAIN new -> Nat]
    BY <2>2
  <2>4. Replaced(t, new) = f
    BY DEF Replaced
  <2> HIDE DEF f, old, new
  <2>5. f \in Figures
    BY <2>1, <2>3, FiguresFacts
  <2> QED
    BY <2>4, <2>5 DEF new
<1>4. costRows' \in [Series -> Figures] /\ costRows'[s] = Replaced(s, run.out[Place(s)])
    BY <1>2, <1>3
<1> QED
    BY <1>1, <1>4 DEF Replaced

\* What the history remembers of the transaction.
LEMMA CommittedHistory ==
    ASSUME CostInv, CommitCosts
    PROVE  /\ run.day \in Nat /\ run.day \in FirstDay..today
           /\ told'.asOf = run.day /\ told'.unseen = run.changed
           /\ told'.since = IF run.backfill THEN [g \in Granularities |-> PeriodOf(g, run.day) - run.back[g]]
                                             ELSE told.since
           /\ ~told'.lapsed => run.backfill \/ (~told.lapsed /\ run.day - told.asOf <= MaxGap)
           /\ ~told'.split => ~run.flipped /\ (run.backfill \/ ~told.split)
           /\ told' \in ToldTypes
<1> USE DEF CostInv
<1>1. run.day \in Nat /\ run.day \in FirstDay..today /\ (run.back = LongBack \/ run.back = ShortBack)
    BY CostTypeFacts DEF CommitCosts, CostRunInv
<1>2. \A g \in Granularities : PeriodOf(g, run.day) - run.back[g] \in Nat
    BY <1>1, WindowInPeriods
<1> DEFINE since == IF run.backfill THEN [g \in Granularities |-> PeriodOf(g, run.day) - run.back[g]]
                                    ELSE told.since
           lapsed == ~run.backfill /\ (told.lapsed \/ run.day - told.asOf > MaxGap)
           split == run.flipped \/ (told.split /\ ~run.backfill)
<1>3. since \in [Granularities -> Nat]
    BY <1>2 DEF CostTypes, ToldTypes
<1>4. lapsed \in BOOLEAN /\ split \in BOOLEAN /\ told \in ToldTypes /\ run \in CostRunTypes
    BY DEF CostTypes, CostRunTypes, ToldTypes
<1>5. told' = [told EXCEPT !.since = since, !.lapsed = lapsed, !.split = split,
                           !.asOf = run.day, !.unseen = run.changed, !.ready = run.ready]
    BY DEF CommitCosts
<1>6. /\ ~lapsed => run.backfill \/ (~told.lapsed /\ ~(run.day - told.asOf > MaxGap))
      /\ ~split => ~run.flipped /\ (run.backfill \/ ~told.split)
    OBVIOUS
<1>7. ~(run.day - told.asOf > MaxGap) => run.day - told.asOf <= MaxGap
  <2>1. MaxGap \in Nat /\ told.asOf \in Int
    BY CostAssumption DEF CostTypes, ToldTypes, NoDay
  <2> QED
    BY <1>1, <2>1
<1> HIDE DEF since, lapsed, split
<1>8. /\ told'.asOf = run.day /\ told'.unseen = run.changed /\ told'.since = since
      /\ told'.lapsed = lapsed /\ told'.split = split
    BY Zenon, <1>4, <1>5 DEF ToldTypes
<1>9. told' \in ToldTypes
  <2>1. run.changed \in SUBSET (Granularities \X Nat) /\ run.ready \in BOOLEAN
    BY <1>4 DEF CostRunTypes
  <2> HIDE DEF CostInv
  <2> QED
    BY <1>1, <1>3, <1>4, <1>5, <2>1 DEF ToldTypes
<1> QED
    BY <1>1, <1>6, <1>7, <1>8, <1>9 DEF since

\* A transaction of what AWS had prepared throughout leaves every period stored: its
\* windows are as fetched, and what is older is as the last good run left it.
LEMMA CommitStores ==
    ASSUME CostInv, CommitCosts, prepared, ~run.flipped,
           run.backfill \/ (CostsStored /\ scope.version = 1 /\ run.day - told.asOf <= MaxGap)
    PROVE  CostsStored'
<1> USE DEF CostInv
<1>0. /\ run.day \in Nat /\ told'.asOf = run.day /\ told'.unseen = run.changed
      /\ told'.since = IF run.backfill THEN [g \in Granularities |-> PeriodOf(g, run.day) - run.back[g]]
                                        ELSE told.since
      /\ bill' = bill
    BY CommittedHistory DEF CommitCosts
<1>1. SUFFICES ASSUME NEW s \in Series, NEW p \in told'.since[s.g]..PeriodOf(s.g, run.day)
               PROVE  /\ p \in DOMAIN costRows'[s]
                      /\ <<s.g, p>> \notin run.changed => costRows'[s][p] = bill[s.g][p]
    BY <1>0 DEF CostsStored
<1> DEFINE new == run.out[Place(s)]
           first == PeriodOf(s.g, run.day) - run.back[s.g]
<1>2. /\ s.g \in Granularities /\ run.day \in FirstDay..today
      /\ run.back = IF run.backfill THEN LongBack ELSE ShortBack
      /\ run.step # "idle" /\ Len(run.out) = Len(CostPlan)
    BY PlanFacts DEF CommitCosts, CostRunInv
<1>3. first \in Nat /\ run.back[s.g] \in Nat /\ PeriodOf(s.g, run.day) \in Nat /\ told'.since[s.g] \in Nat
  <2>1. told' \in ToldTypes
    BY CommittedHistory
  <2> QED
    BY <1>2, <2>1, WindowInPeriods DEF ToldTypes
<1>4. /\ DOMAIN new = first..PeriodOf(s.g, run.day)
      /\ \A q \in DOMAIN new : <<s.g, q>> \notin run.changed => new[q] = bill[s.g][q]
  <2>1. Fetched(Place(s)) /\ CostPlan[Place(s)] = s
    BY <1>2, PlaceFacts DEF CostRunInv
  <2> QED
    BY <2>1 DEF Fetched, WindowOf
<1>5. CASE p >= first
  <2>1. p \in DOMAIN new
    BY <1>1, <1>3, <1>4, <1>5
  <2> QED
    BY <1>4, <2>1, CommittedRows
<1>6. CASE ~(p >= first)
  <2>1. ~run.backfill /\ told'.since[s.g] = told.since[s.g]
    <3>1. run.backfill => told'.since[s.g] = first
      BY <1>0, <1>2
    <3>2. told'.since[s.g] <= p
      BY <1>1, <1>3
    <3> QED
      BY <1>0, <1>3, <1>6, <3>1, <3>2
  <2>2. /\ told.asOf \in FirstDay..LastDay /\ run.day \in FirstDay..LastDay /\ told.asOf \in 0..LastDay
        /\ told.asOf <= run.day /\ run.day - told.asOf <= MaxGap
    <3>1. told.asOf \in FirstDay..today /\ today \in 0..LastDay
      BY <2>1, CostTypeFacts DEF RowsInv
    <3>2. told.asOf <= run.day /\ run.day - told.asOf <= MaxGap
      BY <1>2, <2>1 DEF CostRunInv
    <3> QED
      BY <1>2, <3>1, <3>2, DayFacts
  <2>3. first <= PeriodOf(s.g, told.asOf) - Restatable[s.g]
    BY <1>0, <1>2, <2>1, <2>2, WindowsMeet
  <2>4. PeriodOf(s.g, told.asOf) \in Nat /\ Restatable[s.g] \in Nat
    <3>1. PeriodOf(s.g, told.asOf) \in Nat
      BY <1>2, <2>2, PeriodFacts
    <3>2. Restatable[s.g] \in Nat
      BY <1>2, CostTypeFacts
    <3> QED
      BY <3>1, <3>2
  <2>5. p \in told.since[s.g]..PeriodOf(s.g, told.asOf)
    BY <1>1, <1>3, <1>6, <2>1, <2>3, <2>4
  <2>6. <<s.g, p>> \notin told.unseen
    BY <1>1, <1>3, <1>6, <2>1, <2>3, <2>4 DEF RowsInv, Recent
  <2>7. p \in DOMAIN costRows[s] /\ costRows[s][p] = bill[s.g][p]
    BY <2>1, <2>5, <2>6 DEF CostsStored
  <2>8. p \notin DOMAIN new /\ p < first
    BY <1>1, <1>3, <1>4, <1>6
  <2> QED
    BY <2>1, <2>7, <2>8, CommittedRows
<1> QED
    BY <1>5, <1>6

LEMMA CommitCostsKeeps ==
    ASSUME CostInv, CommitCosts
    PROVE  CostInv'
<1>1. /\ UNCHANGED <<today, prepared, bill>> /\ run' = NoCostRun /\ scope'.version = 1
      /\ scope' \in [version : {0, 1}, invoiceError : BOOLEAN, invoices : BOOLEAN]
      /\ costJob' \in [status : {"none", "RUNNING", "QUEUED", "FAILED", "SUCCEEDED"},
                       okDay : {NoDay} \cup Nat]
  <2>1. run.invoices \in {"fetched", "failed"}
    BY DEF CommitCosts, CostInv, CostTypes, CostRunTypes, CostRunInv
  <2> QED
    BY <2>1, CostTypeFacts DEF CommitCosts, CostInv, CostTypes
<1>2. NoCostRun \in CostRunTypes /\ NoCostRun.step = "idle"
    BY DEF NoCostRun, CostRunTypes, RunSteps
<1>3. costRows' \in [Series -> Figures]
    BY CommittedRows, PlanFacts
<1>4. CostTypes'
    BY <1>1, <1>2, <1>3, CommittedHistory DEF CostInv, CostTypes, Periods
<1>5. RowsInv'
  <2>1. /\ told'.asOf = run.day /\ run.day \in FirstDay..today /\ run.day # NoDay
        /\ told'.unseen = run.changed
    BY CommittedHistory DEF NoDay
  <2>2. run.step # "idle" /\ CostRunInv /\ RowsInv /\ run.back = IF run.backfill THEN LongBack ELSE ShortBack
    BY DEF CommitCosts, CostInv, CostRunInv
  <2>3. Recent(told.unseen, told.asOf)'
    BY <2>1, <2>2 DEF CostRunInv, Recent
  <2>4. \A g \in Granularities : told'.since[g] + LongBack[g] <= PeriodOf(g, run.day)
    <3>1. SUFFICES ASSUME NEW g \in Granularities
                   PROVE  told'.since[g] + LongBack[g] <= PeriodOf(g, run.day)
      OBVIOUS
    <3>2. PeriodOf(g, run.day) \in Nat /\ LongBack[g] \in Nat
      BY <2>1, <2>2, WindowInPeriods, CostTypeFacts DEF CostInv
    <3>3. CASE run.backfill
      BY <2>2, <3>2, <3>3, CommittedHistory
    <3>4. CASE ~run.backfill
      <4>1. told'.since = told.since /\ told.since[g] \in Nat
        BY <3>4, CommittedHistory DEF CostInv, CostTypes, ToldTypes
      <4>2. told.asOf \in Nat /\ told.asOf <= run.day /\ told.since[g] + LongBack[g] <= PeriodOf(g, told.asOf)
        BY <2>2, <3>4, CostTypeFacts DEF CostRunInv, RowsInv, HasHistory, CostInv
      <4>3. told.asOf \in 0..LastDay /\ run.day \in 0..LastDay
        BY <2>1, <4>2, CostTypeFacts, DayFacts DEF CostInv
      <4>4. PeriodOf(g, told.asOf) \in Nat /\ PeriodOf(g, told.asOf) <= PeriodOf(g, run.day)
        BY <4>2, <4>3, PeriodFacts
      <4> QED
        BY <3>2, <4>1, <4>2, <4>4
    <3> QED
      BY <3>3, <3>4
  <2>5. ASSUME ~prepared
        PROVE  AllZero'
    <3>1. ASSUME NEW s \in Series, NEW p \in DOMAIN costRows'[s]
          PROVE  costRows'[s][p] = 0
      <4>1. Len(run.out) = Len(CostPlan) /\ Place(s) \in 1..Len(run.out)
        BY <2>2, PlaceFacts DEF CommitCosts, CostRunInv
      <4>2. \A q \in DOMAIN run.out[Place(s)] : run.out[Place(s)][q] = 0
        BY <2>2, <2>5, <4>1 DEF CostRunInv
      <4>3. scope.version = 1 => \A q \in DOMAIN costRows[s] : costRows[s][q] = 0
        BY <2>2, <2>5 DEF RowsInv, AllZero
      <4> QED
        BY <4>2, <4>3, CommittedRows
    <3> QED
      BY <3>1 DEF AllZero
  <2>6. ASSUME ~told'.lapsed, ~told'.split, prepared
        PROVE  CostsStored'
    <3>1. CASE run.backfill
      BY <2>6, <3>1, CommittedHistory, CommitStores
    <3>2. CASE ~run.backfill
      <4>1. scope.version = 1 /\ ~AllZero
        <5>1. HasHistory
          BY <2>2, <3>2 DEF CostRunInv
        <5> QED
          BY <5>1 DEF HasHistory, AllZero
      <4>2. ~told.lapsed /\ ~told.split /\ run.day - told.asOf <= MaxGap /\ ~run.flipped
        BY <2>6, <3>2, CommittedHistory
      <4>3. CostsStored
        BY <2>2, <4>1, <4>2 DEF RowsInv
      <4> QED
        BY <2>6, <4>1, <4>2, <4>3, CommitStores
    <3> QED
      BY <3>1, <3>2
  <2> QED
    BY <1>1, <2>1, <2>3, <2>4, <2>5, <2>6 DEF RowsInv
<1>6. CostRunInv'
    BY <1>1, <1>2 DEF CostRunInv
<1> QED
    BY <1>4, <1>5, <1>6 DEF CostInv

LEMMA CostStepInv == CostInv /\ [CostNext]_costVars => CostInv'
<1> SUFFICES ASSUME CostInv, [CostNext]_costVars PROVE CostInv'
    OBVIOUS
<1>1. CASE UNCHANGED costVars
    BY <1>1 DEF costVars, CostInv, CostTypes, RowsInv, CostRunInv, AllZero, CostsStored, Recent, Fetched,
                HasHistory, WindowOf, Periods
<1>2. CASE NextDay
    BY <1>2, NextDayKeeps
<1>3. CASE Prepare
    BY <1>3, PrepareKeeps
<1>4. CASE \E g \in Granularities : \E p \in Periods(g) : Restate(g, p)
    BY <1>4, RestateKeeps
<1>5. CASE BeginCostRun
    BY <1>5, BeginCostRunKeeps
<1>6. CASE FetchSeries
    BY <1>6, FetchSeriesKeeps
<1>7. CASE \E err \in CostErrors : FetchFails(err)
    BY <1>7, FetchFailsKeeps
<1>8. CASE FetchInvoices
    BY <1>8, FetchInvoicesKeeps
<1>9. CASE CommitCosts
    BY <1>9, CommitCostsKeeps
<1>10. CASE CostRunLost
    BY <1>10, CostRunLostKeeps
<1> QED
    BY <1>1, <1>2, <1>3, <1>4, <1>5, <1>6, <1>7, <1>8, <1>9, <1>10 DEF CostNext

LEMMA CostInvAlways == CostSpec => []CostInv
    BY CostInitInv, CostStepInv, PTL DEF CostSpec

-----------------------------------------------------------------------------
(* What readers are told.                                                  *)

\* An account reported as available has all that was stored by its good runs.
LEMMA AvailableIsStored ==
    ASSUME CostInv, Coverage = "available", ~told.lapsed, ~told.split
    PROVE  CostsStored /\ scope.version = 1
<1>1. scope.version = 1 /\ Charged
    BY DEF Coverage
<1> QED
    BY <1>1 DEF CostInv, RowsInv, Charged, AllZero

\* The days that have a row are all days of an interval that lies in what is stored.
LEMMA SumOverAll ==
    ASSUME CostInv, CostsStored, scope.version = 1, NEW first \in Nat, NEW last \in Int,
           told.since["DAILY"] <= first, last <= told.asOf, first <= last + 1
    PROVE  /\ {p \in DOMAIN DailyTotals : first <= p /\ p <= last} = first..last
           /\ SumOver(first, last).days = last - first + 1
           /\ SumOver(first, last).amount = AmountOf([p \in first..last |-> DailyTotals[p]])
<1>1. /\ DailyTotals = costRows[DailyTotal] /\ DailyTotal \in Series /\ DailyTotal.g = "DAILY"
      /\ DOMAIN DailyTotals \subseteq Nat /\ told.since["DAILY"] \in Nat /\ told.asOf \in Int
    BY PlanFacts, FiguresFacts DEF DailyTotals, DailyTotal, CostInv, CostTypes, ToldTypes, Granularities, NoDay
<1>2. \A p \in told.since["DAILY"]..told.asOf : p \in DOMAIN DailyTotals
    BY <1>1 DEF CostsStored, PeriodOf
<1> DEFINE days == {p \in DOMAIN DailyTotals : first <= p /\ p <= last}
<1>3. days = first..last
    BY <1>1, <1>2
<1>4. Cardinality(first..last) = last - first + 1
    BY FS_Interval
<1>5. SumOver(first, last) = [amount |-> AmountOf([p \in days |-> DailyTotals[p]]), days |-> Cardinality(days)]
    BY DEF SumOver
<1>6. SumOver(first, last) = [amount |-> AmountOf([p \in first..last |-> DailyTotals[p]]),
                              days |-> last - first + 1]
    BY <1>3, <1>4, <1>5
<1>7. /\ SumOver(first, last).days = last - first + 1
      /\ SumOver(first, last).amount = AmountOf([p \in first..last |-> DailyTotals[p]])
    BY <1>6
<1> QED
    BY <1>3, <1>7

\* The amount of such an interval is what AWS charges, if nothing was restated since.
LEMMA SumOverCharges ==
    ASSUME CostInv, CostsStored, scope.version = 1, NEW first \in Nat, NEW last \in Int,
           told.since["DAILY"] <= first, last <= told.asOf, first <= last + 1, told.unseen = {}
    PROVE  SumOver(first, last).amount = Charges(first, last)
<1>1. ASSUME NEW p \in first..last PROVE DailyTotals[p] = bill["DAILY"][p]
  <2>1. /\ DailyTotals = costRows[DailyTotal] /\ DailyTotal \in Series /\ DailyTotal.g = "DAILY"
        /\ PeriodOf("DAILY", told.asOf) = told.asOf
    BY PlanFacts DEF DailyTotals, DailyTotal, PeriodOf
  <2>2. told.since["DAILY"] \in Nat /\ told.asOf \in Int
    BY DEF CostInv, CostTypes, ToldTypes, Granularities, NoDay
  <2>3. p \in told.since["DAILY"]..told.asOf
    BY <2>2
  <2> QED
    BY <2>1, <2>3 DEF CostsStored
<1>2. [p \in first..last |-> DailyTotals[p]] = [p \in first..last |-> bill["DAILY"][p]]
    BY <1>1
<1>3. SumOver(first, last).amount = AmountOf([p \in first..last |-> DailyTotals[p]])
    BY SumOverAll
<1> QED
    BY <1>2, <1>3 DEF Charges

\* Costs reported as available are complete (cost-sync.ts, cost-service.ts), for any
\* calendar, series, windows, gaps between runs and restatements: every period since the
\* last backfill has its amount, and the overview compares this month with equally many
\* days of the last one, or with the whole of it if it has fewer.
THEOREM AvailableStaysComplete == CostSpec => []AvailableIsComplete
<1>1. ASSUME CostInv, Coverage = "available", ~told.lapsed, ~told.split
      PROVE  AvailableIsComplete
  <2>1. CostsStored /\ scope.version = 1 /\ RowsInv
    BY <1>1, AvailableIsStored DEF CostInv
  <2> DEFINE start == ThisMonth
             prev == LastMonth
             elapsed == today - start
             same == IF prev + elapsed - 1 <= start - 1 THEN prev + elapsed - 1 ELSE start - 1
  <2>2. /\ today \in Nat /\ start \in Nat /\ start <= today /\ elapsed \in Nat
        /\ prev \in Nat /\ prev < start /\ today - LongBack["DAILY"] <= prev
    <3>1. today \in FirstDay..LastDay /\ today \in 0..LastDay /\ today \in Nat
      BY <1>1, CostTypeFacts DEF CostInv, CostTypes
    <3>2. /\ MonthOf(today) \in 1..Len(MonthStart) - 1 /\ MonthOf(today) \in Nat
          /\ start \in Nat /\ start <= today
      BY <3>1, MonthFacts DEF ThisMonth
    <3>3. MonthOf(today) > 1 /\ today - LongBack["DAILY"] <= prev
      BY <3>1, CostAssumption DEF LastMonth
    <3>4. MonthStart \in Seq(Nat) /\ \A m, n \in 1..Len(MonthStart) : m < n => MonthStart[m] < MonthStart[n]
      BY CostAssumption
    <3>5. Len(MonthStart) \in Nat
      BY <3>4
    <3>6. MonthOf(today) - 1 \in 1..Len(MonthStart) /\ MonthOf(today) \in 1..Len(MonthStart)
          /\ MonthOf(today) - 1 < MonthOf(today)
      BY <3>2, <3>3, <3>5
    <3>7. prev \in Nat /\ prev < start
      BY <3>4, <3>6, ElementOfSeq DEF ThisMonth, LastMonth
    <3> HIDE DEF start, prev
    <3> QED
      BY <3>1, <3>2, <3>3, <3>7
  <2>3. /\ CostSummary.comparedDays = elapsed
        /\ CostSummary.mtdComplete = SumOver(start, today - 1)
        /\ CostSummary.prevSame = SumOver(prev, same)
        /\ ThisMonth = start /\ LastMonth = prev
    BY DEF CostSummary
  <2> HIDE DEF start, prev
  <2>4. /\ told.asOf \in Nat /\ told.asOf <= today /\ told.since["DAILY"] \in Nat
        /\ told.since["DAILY"] + LongBack["DAILY"] <= told.asOf
        /\ LongBack["DAILY"] \in Nat
    <3>1. "DAILY" \in Granularities
      BY DEF Granularities
    <3>2. told.asOf \in Nat /\ told.asOf <= today /\ told.since["DAILY"] \in Nat
      BY <1>1, <2>1, <3>1, CostTypeFacts DEF RowsInv, CostInv, CostTypes, ToldTypes
    <3>3. told.since["DAILY"] + LongBack["DAILY"] <= told.asOf
      BY <2>1, <3>1 DEF RowsInv, PeriodOf
    <3> QED
      BY <1>1, <3>1, <3>2, <3>3, CostTypeFacts DEF CostInv
  <2>5. ASSUME told.asOf >= today - 1
        PROVE  /\ SumOver(start, today - 1).days = elapsed
               /\ elapsed <= start - prev => SumOver(prev, same).days = elapsed
               /\ elapsed > start - prev => SumOver(prev, same).days = start - prev
               /\ told.unseen = {} =>
                    /\ SumOver(start, today - 1).amount = Charges(start, today - 1)
                    /\ SumOver(prev, same).amount = Charges(prev, prev + SumOver(prev, same).days - 1)
    <3>1. /\ told.since["DAILY"] <= start /\ today - 1 <= told.asOf /\ start <= today - 1 + 1
          /\ today - 1 \in Int /\ today - 1 - start + 1 = elapsed
      BY <2>2, <2>4, <2>5
    <3>2. /\ same \in Int /\ told.since["DAILY"] <= prev /\ same <= told.asOf /\ prev <= same + 1
          /\ elapsed <= start - prev => same - prev + 1 = elapsed
          /\ elapsed > start - prev => same - prev + 1 = start - prev
          /\ same = prev + (same - prev + 1) - 1
      BY <2>2, <2>4, <2>5
    <3> HIDE DEF same
    <3>3. SumOver(start, today - 1).days = today - 1 - start + 1
      BY <1>1, <2>1, <2>2, <3>1, SumOverAll
    <3>4. SumOver(prev, same).days = same - prev + 1
      BY <1>1, <2>1, <2>2, <3>2, SumOverAll
    <3>5. ASSUME told.unseen = {}
          PROVE  /\ SumOver(start, today - 1).amount = Charges(start, today - 1)
                 /\ SumOver(prev, same).amount = Charges(prev, same)
      BY <1>1, <2>1, <2>2, <3>1, <3>2, <3>5, SumOverCharges
    <3> QED
      BY <3>1, <3>2, <3>3, <3>4, <3>5
  <2> HIDE DEF elapsed, same
  <2> QED
    BY <2>1, <2>3, <2>5 DEF AvailableIsComplete, CostsStored
<1>2. CostInv => AvailableIsComplete
    BY <1>1 DEF AvailableIsComplete
<1> QED
    BY <1>2, CostInvAlways, PTL
============================================================================
