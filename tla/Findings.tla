------------------------------ MODULE Findings ------------------------------
(***************************************************************************)
(* The findings of one AWS account and the alerts raised for them          *)
(* (server/sync/security-sync.ts, sync/optimization-sync.ts, jobs/         *)
(* register.ts, services/alert-service.ts, services/findings-service.ts).  *)
(*                                                                         *)
(* An inventory synchronisation collects what AWS shows, then runs three   *)
(* analyzers in a row: the security scan, the optimisation analysis and    *)
(* the evaluation of the alert rules.  Any analyzer may throw: the next    *)
(* one still runs and the job ends PARTIAL.  The worker may die at any     *)
(* point: the job is claimed again and runs from its beginning, with the   *)
(* startedAt of its first claim.                                           *)
(*                                                                         *)
(* A subject is what one fingerprint stands for.  Its kind says where the  *)
(* scan looks for it: in the attributes of a resource row, in a row that   *)
(* keeps plain values (queues, image repositories), in the signals of the  *)
(* account, in the findings AWS itself reports, or in the facts of the     *)
(* optimisation rules.  The content of the rules is in FindingRules; here  *)
(* a rule either finds its subject or not, and its observation is          *)
(* conclusive or not.  Time is the number of the run.                      *)
(* Fencing against a second worker is the subject of JobQueue.             *)
(***************************************************************************)
EXTENDS Naturals, FiniteSets

CONSTANTS
    Subjects,     \* fingerprints
    Layouts,      \* the kinds the subjects may have: functions on Subjects
    Watched,      \* the subjects of at least the severity the alert rule asks for
    AlertLimit,   \* the findings one evaluation of the rule takes (200 in the code)
    MaxRuns,      \* bound: runs of inventory jobs
    MaxChanges    \* bound: changes of the AWS account and decisions of users

RowKinds == {"resource", "plain"}
Kinds == RowKinds \cup {"account", "external", "optimisation"}

ASSUME FindingsAssumption ==
    /\ IsFiniteSet(Subjects)
    /\ Layouts \subseteq [Subjects -> Kinds]
    /\ Layouts # {}
    /\ Watched \subseteq Subjects /\ AlertLimit \in Nat
    /\ MaxRuns \in Nat /\ MaxChanges \in Nat

VARIABLES
    kind,         \* kind[s]: where the scan looks for s
    bad,          \* the subjects AWS would show now
    obs,          \* obs[s]: what this run observed of s
    confirmed,    \* the rows the scan takes as seen in this run (lastSeenAt, security-sync.ts)
    rewritten,    \* history: an edit or a plan wrote the resource row since this run did
    finding,      \* finding[s]: status and run of creation (firstSeenAt)
    alert,        \* alert[s]: the alert whose dedupe key is finding:<s>
    stage,        \* where the inventory job stands
    round,        \* number of the current run
    jobStart,     \* startedAt of the current job
    lastStart,    \* startedAt of the last completed job, 0 when there is none
    shownStatus,  \* aws_accounts.syncStatus
    failed,       \* an analyzer of this run threw
    evaluated,    \* history: this run evaluated the rule for findings, and in full
    changes,      \* bound
    wasSafe,      \* history: subjects safe at some time during this run
    wasBad,       \* history: subjects bad at some time during this run
    pending,      \* history: findings created since the rules last were evaluated
    lapses,       \* history: jobs that ended since then; as many as at the last completion
    baseline      \* history: findings there when the first job completed

rowVars == <<obs, confirmed, rewritten>>
jobVars == <<stage, round, jobStart, lastStart, shownStatus, failed, evaluated>>
worldVars == <<kind, bad, wasSafe, wasBad>>
findingsVars == <<kind, bad, obs, confirmed, rewritten, finding, alert, stage,
                  round, jobStart, lastStart, shownStatus, failed, evaluated, changes,
                  wasSafe, wasBad, pending, lapses, baseline>>

OfKind(k) == {s \in Subjects : kind[s] = k}

FindingStatus == {"NONE", "OPEN", "SUPPRESSED", "RESOLVED"}
NoFinding == [status |-> "NONE", first |-> 0]
Unseen == [found |-> FALSE, conclusive |-> FALSE]
NoLapses == [ended |-> 0, completed |-> 0]

FindingsInit ==
    /\ kind \in Layouts
    /\ bad \in SUBSET Subjects
    /\ obs = [s \in Subjects |-> Unseen]
    /\ confirmed = {} /\ rewritten = FALSE
    /\ finding = [s \in Subjects |-> NoFinding]
    /\ alert = [s \in Subjects |-> "NONE"]
    /\ stage = "idle" /\ round = 0 /\ jobStart = 0 /\ lastStart = 0
    /\ shownStatus = "NEVER_SYNCED" /\ failed = FALSE /\ evaluated = FALSE
    /\ changes = 0
    /\ wasSafe = {} /\ wasBad = {}
    /\ pending = {} /\ lapses = NoLapses /\ baseline = {}

-----------------------------------------------------------------------------
(* What the scan may see of a subject: the truth, nothing (access denied,  *)
(* throttled, the service is disabled), or, for the findings of GuardDuty, *)
(* some pages before an error.  A plain value says "unknown" or null when  *)
(* it could not be read: its rule does not apply, and nothing says why.    *)
Truth(s) == [found |-> s \in bad, conclusive |-> TRUE]
FoundInPart == [found |-> TRUE, conclusive |-> FALSE]
NotApplied == [found |-> FALSE, conclusive |-> TRUE]

Observations(s) ==
    {Truth(s)} \cup CASE kind[s] = "plain" -> {NotApplied}
                      [] kind[s] = "external" /\ s \in bad -> {Unseen, FoundInPart}
                      [] OTHER -> {Unseen}

Observe(S) ==
    obs' \in {f \in [Subjects -> [found : BOOLEAN, conclusive : BOOLEAN]] :
                \A s \in Subjects : IF s \in S THEN f[s] \in Observations(s)
                                               ELSE f[s] = obs[s]}

\* What persist leaves of a finding the rules produced again.
Persisted(f) ==
    CASE f.status = "NONE"     -> [status |-> "OPEN", first |-> round]
      [] f.status = "RESOLVED" -> [f EXCEPT !.status = "OPEN"]
      [] OTHER                 -> f

\* A finding that was not produced: resolved when the check is known to have run.
Settled(f) == IF f.status = "OPEN" THEN [f EXCEPT !.status = "RESOLVED"] ELSE f

(* One transaction over the subjects S, of which those in ran may be       *)
(* resolved.                                                               *)
UpsertFindings(S, ran) ==
    /\ finding' = [s \in Subjects |->
                     IF s \notin S THEN finding[s]
                     ELSE IF obs[s].found THEN Persisted(finding[s])
                     ELSE IF s \in ran THEN Settled(finding[s])
                     ELSE finding[s]]
    /\ pending' = pending \cup {s \in S : finding[s].status = "NONE" /\ obs[s].found}

-----------------------------------------------------------------------------
(* The inventory job.                                                      *)

\* Nothing asks for what was observed, or for what was seen, once the scan is over.
ForgetScan ==
    /\ obs' = [s \in Subjects |-> Unseen]
    /\ confirmed' = {} /\ rewritten' = FALSE

\* What a run holds in memory, and what is recorded of it, ends with it.
ForgetRun ==
    /\ ForgetScan
    /\ failed' = FALSE /\ evaluated' = FALSE
    /\ wasSafe' = {} /\ wasBad' = {}

\* A job is claimed: for the first time, or again after its worker died.
BeginRun(start) ==
    /\ round < MaxRuns
    /\ round' = round + 1
    /\ stage' = "collect"
    /\ jobStart' = start
    /\ shownStatus' = "RUNNING"
    /\ wasSafe' = Subjects \ bad /\ wasBad' = bad
    /\ UNCHANGED <<kind, bad, failed, evaluated, finding, alert,
                   lastStart, changes, pending, lapses, baseline>>
    /\ UNCHANGED rowVars

ClaimSync == stage = "idle" /\ BeginRun(round + 1)
ReclaimSync == stage = "crashed" /\ BeginRun(jobStart)

\* The collectors ran: each row was confirmed, or its task failed.
Collected(status) ==
    /\ stage = "collect"
    /\ shownStatus' = status
    /\ UNCHANGED <<finding, alert, round, lastStart, pending, baseline>>
    /\ UNCHANGED <<kind, bad, changes>>

Rows == {kind[s] : s \in Subjects} \cap RowKinds

Confirm(rows) ==
    /\ Observe({s \in Subjects : kind[s] \in rows})
    /\ confirmed' = confirmed \cup rows
    /\ rewritten' = (rewritten /\ "resource" \notin rows)

CollectResources ==
    /\ Confirm(Rows)
    /\ Collected("SUCCEEDED")
    /\ stage' = "signals"
    /\ UNCHANGED <<jobStart, failed, evaluated, wasSafe, wasBad, lapses>>

CollectPartly ==
    /\ \E rows \in SUBSET Rows : Confirm(rows)
    /\ Collected("PARTIAL")
    /\ stage' = "signals"
    /\ UNCHANGED <<jobStart, failed, evaluated, wasSafe, wasBad, lapses>>

\* Every task failed: the job ends FAILED and no analyzer runs.
CollectNothing ==
    /\ Collected("FAILED")
    /\ stage' = "idle" /\ jobStart' = 0
    /\ ForgetRun
    /\ lapses' = [lapses EXCEPT !.ended = @ + 1]

\* collectSecuritySignals, before anything is written.
CollectSignals ==
    /\ stage = "signals"
    /\ Observe(OfKind("account") \cup OfKind("external"))
    /\ stage' = "pages"
    /\ UNCHANGED <<confirmed, rewritten, finding, alert, round, jobStart,
                   lastStart, shownStatus, failed, evaluated, changes, pending, lapses,
                   baseline>>
    /\ UNCHANGED worldVars

\* Mutant: an unknown attribute does not keep the findings of its row open.
WholeRow == OfKind("resource")

(* The page of the rows.  A row not seen since this run began is skipped;  *)
(* one unknown attribute keeps every finding of the resource's row open.   *)
(* A plain value is never unknown.                                         *)
ResolvableInRow ==
    LET S == OfKind("resource")
    IN IF \A s \in S : obs[s].conclusive THEN S ELSE {}

ScanPage ==
    /\ stage = "pages"
    /\ stage' = "scanned"
    /\ UpsertFindings({s \in Subjects : kind[s] \in confirmed}, ResolvableInRow \cup OfKind("plain"))
    /\ UNCHANGED <<alert, round, jobStart, lastStart,
                   shownStatus, failed, evaluated, changes, lapses, baseline>>
    /\ UNCHANGED <<rowVars, worldVars>>

\* The signals of the account and the findings AWS reports, in one transaction.
ScanAccount ==
    LET S == OfKind("account") \cup OfKind("external")
    IN /\ stage = "scanned"
       /\ stage' = "optimise"
       /\ UpsertFindings(S, {s \in S : obs[s].conclusive})
       /\ ForgetScan
       /\ UNCHANGED <<alert, round, jobStart, lastStart,
                      shownStatus, failed, evaluated, changes, lapses, baseline>>
       /\ UNCHANGED worldVars

(* The optimisation analysis reads its facts and writes in one transaction;*)
(* whatever is not produced, safe or not read, is resolved.                *)
Optimise ==
    LET S == OfKind("optimisation")
    IN /\ stage = "optimise"
       /\ stage' = "alerts"
       /\ \E found \in SUBSET (S \cap bad) :
            finding' = [s \in Subjects |->
                          IF s \notin S THEN finding[s]
                          ELSE IF s \in found THEN Persisted(finding[s])
                                              ELSE Settled(finding[s])]
       /\ UNCHANGED <<alert, round, jobStart, lastStart,
                      shownStatus, failed, evaluated, changes, pending, lapses, baseline>>
       /\ UNCHANGED <<rowVars, worldVars>>

-----------------------------------------------------------------------------
(* Alerts.                                                                 *)

\* Security findings that are open and were first seen at or after since.
Fresh(since) ==
    {s \in Subjects \ OfKind("optimisation") :
        finding[s].status = "OPEN" /\ finding[s].first >= since}

(* The rule for findings takes fresh ones up to its limit, in no order, or *)
(* throws and takes none; the other rules are evaluated all the same.      *)
Taken(since) ==
    {T \in SUBSET Fresh(since) :
        /\ Cardinality(T) <= AlertLimit
        /\ T = {} \/ T = Fresh(since) \/ Cardinality(T) = AlertLimit}

\* Existing dedupe keys are skipped.
Raise(T) ==
    alert' = [s \in Subjects |->
                IF s \in T \cap Watched /\ alert[s] = "NONE" THEN "OPEN" ELSE alert[s]]

EvaluateSince(since, T) ==
    /\ T \in Taken(since)
    /\ Raise(T)

\* Mutant: "new" is since the start of this job.
SinceThisJob == jobStart

(* "New" is since the start of the last completed job; with none yet it is *)
(* the present instant, which no finding of this run reaches.              *)
SinceLastJob == IF lastStart = 0 THEN round + 1 ELSE lastStart

EvaluateAlerts(T) ==
    /\ stage = "alerts"
    /\ EvaluateSince(SinceLastJob, T)
    /\ stage' = "ending"
    /\ evaluated' = (T = Fresh(SinceLastJob))
    /\ IF evaluated' THEN pending' = {} /\ lapses' = NoLapses
                     ELSE UNCHANGED <<pending, lapses>>
    /\ UNCHANGED <<finding, round, jobStart, lastStart, shownStatus,
                   failed, changes, baseline>>
    /\ UNCHANGED <<rowVars, worldVars>>

\* A cost synchronisation evaluates the rules too, for what is new right now.
EvaluateAfterCost ==
    /\ EvaluateSince(round + 1, {})
    /\ UNCHANGED <<finding, changes, pending, lapses, baseline>>
    /\ UNCHANGED <<rowVars, jobVars, worldVars>>

\* The alerts are created one by one: an evaluation may stop between two of them.
RaiseSome ==
    IF stage = "alerts"
    THEN \E T \in Taken(SinceLastJob), made \in SUBSET Subjects : made \subseteq T /\ Raise(made)
    ELSE UNCHANGED alert

-----------------------------------------------------------------------------
\* A failing analyzer does not stop the next one.
AnalyzerThrows ==
    /\ stage \in {"signals", "pages", "scanned", "optimise", "alerts"}
    /\ stage' = CASE stage = "optimise" -> "alerts"
                  [] stage = "alerts"   -> "ending"
                  [] OTHER              -> "optimise"
    /\ failed' = TRUE
    /\ RaiseSome
    /\ ForgetScan
    /\ UNCHANGED <<finding, round, jobStart, lastStart, shownStatus, evaluated, changes,
                   pending, lapses, baseline>>
    /\ UNCHANGED worldVars

\* The job ends; an analyzer that threw makes it PARTIAL.
FinishSync ==
    /\ stage = "ending"
    /\ stage' = "idle"
    /\ shownStatus' = IF failed THEN "PARTIAL" ELSE shownStatus
    /\ lastStart' = jobStart /\ jobStart' = 0
    /\ ForgetRun
    /\ lapses' = IF evaluated THEN lapses
                 ELSE [ended |-> lapses.ended + 1, completed |-> lapses.ended + 1]
    /\ baseline' = IF lastStart = 0
                   THEN {s \in Subjects : finding[s].status # "NONE"} ELSE baseline
    /\ UNCHANGED <<kind, bad, changes, finding, alert, round, pending>>

\* The worker dies; the lease of the job will expire.
WorkerDies ==
    /\ stage \notin {"idle", "crashed"}
    /\ stage' = "crashed"
    /\ ForgetRun
    /\ RaiseSome
    /\ UNCHANGED <<kind, bad, changes, finding, round, jobStart,
                   lastStart, shownStatus, pending, lapses, baseline>>

\* The job is out of attempts: it fails without having completed.
GiveUpSync ==
    /\ stage = "crashed"
    /\ stage' = "idle" /\ jobStart' = 0
    /\ shownStatus' = "FAILED"
    /\ lapses' = [lapses EXCEPT !.ended = @ + 1]
    /\ UNCHANGED <<finding, alert, round, lastStart,
                   failed, evaluated, changes, pending, baseline>>
    /\ UNCHANGED <<rowVars, worldVars>>

-----------------------------------------------------------------------------
(* People, and the account itself.                                         *)

\* A finding that is open or suppressed is set to one of the two.
SetStatus(s, status) ==
    /\ changes < MaxChanges
    /\ finding[s].status \in {"OPEN", "SUPPRESSED"}
    /\ finding' = [finding EXCEPT ![s].status = status]
    /\ changes' = changes + 1
    /\ UNCHANGED <<alert, pending, lapses, baseline>>
    /\ UNCHANGED <<rowVars, jobVars, worldVars>>

SetFindingState(s, status) == kind[s] # "optimisation" /\ SetStatus(s, status)

\* A recommendation is dismissed or reopened.
SetOptimizationState(s, status) == kind[s] = "optimisation" /\ SetStatus(s, status)

SetAlertState(s, status) ==
    /\ changes < MaxChanges
    /\ alert[s] \in {"OPEN", "ACKNOWLEDGED"}
    /\ alert' = [alert EXCEPT ![s] = status]
    /\ changes' = changes + 1
    /\ UNCHANGED <<finding, pending, lapses, baseline>>
    /\ UNCHANGED <<rowVars, jobVars, worldVars>>

\* A person writes the resource's row between two steps of a run.
RewriteRow(seen) ==
    /\ changes < MaxChanges
    /\ obs' \in {f \in [Subjects -> [found : BOOLEAN, conclusive : BOOLEAN]] :
                    \A s \in Subjects : IF kind[s] = "resource" THEN f[s] \in seen \cup {Unseen}
                                                                ELSE f[s] = obs[s]}
    /\ rewritten' = TRUE
    /\ changes' = changes + 1
    /\ UNCHANGED <<finding, alert, pending, lapses, baseline>>
    /\ UNCHANGED <<jobVars, worldVars>>

(* A direct edit writes back the attributes it read before its commands,   *)
(* with the bare values it sent in place of observations: a rule takes     *)
(* them as not observed or as off, and nothing marks them as unknown.      *)
EditRow ==
    /\ stage \in {"signals", "pages"} /\ "resource" \in confirmed
    /\ RewriteRow([found : BOOLEAN, conclusive : {TRUE}])
    /\ UNCHANGED confirmed

\* A plan that succeeds records its resource as seen now; part of it was not read.
RecordProvisioned ==
    /\ stage \in {"collect", "signals", "pages"} /\ "resource" \in Rows
    /\ RewriteRow({FoundInPart})
    /\ confirmed' = confirmed \cup {"resource"}

\* Somebody changes the account in AWS.
AccountChanges(s) ==
    /\ changes < MaxChanges
    /\ changes' = changes + 1
    /\ bad' = IF s \in bad THEN bad \ {s} ELSE bad \cup {s}
    /\ IF stage \in {"idle", "crashed"} THEN UNCHANGED <<wasSafe, wasBad>>
       ELSE IF s \in bad THEN wasSafe' = wasSafe \cup {s} /\ UNCHANGED wasBad
       ELSE wasBad' = wasBad \cup {s} /\ UNCHANGED wasSafe
    /\ UNCHANGED <<kind, finding, alert, pending, lapses, baseline>>
    /\ UNCHANGED <<rowVars, jobVars>>

FindingsNext ==
    \/ ClaimSync \/ ReclaimSync \/ CollectResources \/ CollectPartly \/ CollectNothing
    \/ CollectSignals \/ ScanPage \/ ScanAccount \/ Optimise
    \/ \E T \in SUBSET Subjects : EvaluateAlerts(T)
    \/ EvaluateAfterCost \/ AnalyzerThrows \/ FinishSync \/ WorkerDies \/ GiveUpSync
    \/ EditRow \/ RecordProvisioned
    \/ \E s \in Subjects, v \in {"OPEN", "SUPPRESSED"} :
         SetFindingState(s, v) \/ SetOptimizationState(s, v)
    \/ \E s \in Subjects, v \in {"ACKNOWLEDGED", "RESOLVED"} : SetAlertState(s, v)
    \/ \E s \in Subjects : AccountChanges(s)

FindingsSpec == FindingsInit /\ [][FindingsNext]_findingsVars

-----------------------------------------------------------------------------
(* Properties.                                                             *)

FindingsTypes ==
    /\ kind \in [Subjects -> Kinds]
    /\ bad \subseteq Subjects
    /\ obs \in [Subjects -> [found : BOOLEAN, conclusive : BOOLEAN]]
    /\ confirmed \subseteq RowKinds /\ rewritten \in BOOLEAN
    /\ failed \in BOOLEAN /\ evaluated \in BOOLEAN
    /\ finding \in [Subjects -> [status : FindingStatus, first : 0..round]]
    /\ alert \in [Subjects -> {"NONE", "OPEN", "ACKNOWLEDGED", "RESOLVED"}]
    /\ round \in 0..MaxRuns /\ jobStart \in 0..round /\ lastStart \in 0..round

\* Every change the scan makes to the status of a security finding is backed: it is
\* resolved only when the subject was safe at some time during this run, created or
\* reopened only when it was bad at some time during this run, and a suppression is left
\* to people (persist and the updateMany calls of security-sync.ts, with stale rows,
\* unknown observations, failed analyzers and reclaimed runs in between).  Two cases are
\* left out, in which the code resolves with no observation behind it, whatever the
\* comment of hasUnknownObservation says: a plain value that could not be read, of which
\* only the row is known to be there, and a row that an edit or a plan wrote after this
\* run had read it.
StatusIsBacked ==
    [][\A s \in Subjects :
         LET was == finding[s].status
             is  == finding'[s].status
             own == ~(kind[s] = "resource" /\ rewritten)
         IN (kind[s] # "optimisation" /\ was # is /\ changes' = changes) =>
               /\ kind[s] \in RowKinds => kind[s] \in confirmed
               /\ \/ /\ was = "OPEN" /\ is = "RESOLVED"
                     /\ own /\ kind[s] # "plain" => s \in wasSafe
                  \/ /\ was \in {"NONE", "RESOLVED"} /\ is = "OPEN"
                     /\ own => s \in wasBad]_findingsVars

\* An evaluation in full (the rule for findings does not throw, and no more findings are
\* fresh than it takes) makes up for one that was not: after it, every open finding of
\* the severity asked for that was created since the last one has its alert, even when
\* jobs in between failed or were reclaimed, or one completed without evaluating in full
\* and none had failed before it (register.ts takes the startedAt of the last completed
\* job; the very first job only sets the baseline).
MissedEvaluationIsMadeUp ==
    [][\A T \in SUBSET Subjects :
         (EvaluateAlerts(T) /\ evaluated' /\ lapses.completed <= 1 /\ lastStart # 0) =>
            \A s \in (pending \ baseline) \cap Watched :
               finding[s].status = "OPEN" => alert'[s] # "NONE"]_findingsVars
=============================================================================
