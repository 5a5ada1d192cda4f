---------------------------- MODULE WorkerProofs ----------------------------
(***************************************************************************)
(* Proofs about what the jobs of a worker leave behind.  Findings: what    *)
(* changes the status of a finding, and when a missed evaluation of the    *)
(* alert rules is made up for.  Collection: that what a collector returns  *)
(* is complete.  FindingRules: that what is read later changes no verdict. *)
(* The three share no variable; each part is about one of them.            *)
(***************************************************************************)
EXTENDS Findings, FindingRules, Collection, TLAPS

-----------------------------------------------------------------------------
(* The invariant of Findings.                                              *)

Stages == {"idle", "collect", "signals", "pages", "scanned", "optimise", "alerts",
           "ending", "crashed"}

\* No run is in progress.
Between == stage \in {"idle", "crashed"}

FindingsTyped ==
    /\ FindingsTypes
    /\ stage \in Stages
    /\ lapses \in [ended : Nat, completed : Nat]
    /\ changes \in Nat
    /\ pending \subseteq Subjects

\* What a run remembers of the account is what was so at some time during the run.
RunRemembers ==
    IF Between THEN obs = [s \in Subjects |-> Unseen]
    ELSE bad \subseteq wasBad /\ Subjects \ bad \subseteq wasSafe

\* Unless somebody wrote the row since it was read; a plain value may not have been read.
ObservedOf(s) ==
    /\ obs[s].found => s \in wasBad
    /\ obs[s].conclusive /\ ~obs[s].found /\ kind[s] # "plain" => s \in wasSafe

ObservedThen ==
    \A s \in Subjects : (kind[s] = "resource" => ~rewritten) => ObservedOf(s)

\* What waits for an evaluation is a security finding that was created.
PendingIsThere ==
    \A s \in pending : kind[s] # "optimisation" /\ finding[s].status # "NONE"

\* A run that ends with its evaluation left nothing behind.
EvaluatedAtEnd ==
    evaluated => stage = "ending" /\ pending = {} /\ lapses = NoLapses

\* No job has ended since the last evaluation: what waits is of this job.
PendingOfThisJob ==
    lapses.ended = 0 =>
        IF stage = "idle" THEN pending = {}
        ELSE \A s \in pending : finding[s].first >= jobStart

\* One job has completed without an evaluation: what waits is not older than it.
PendingOfLastJob ==
    (lastStart # 0 /\ lapses.completed <= 1) =>
        \A s \in pending \ baseline : finding[s].first >= lastStart

PendingInv == PendingIsThere /\ EvaluatedAtEnd /\ PendingOfThisJob /\ PendingOfLastJob

FindingsInv == FindingsTyped /\ RunRemembers /\ ObservedThen /\ PendingInv

LEMMA FindingsInitInv == FindingsInit => FindingsInv
<1> SUFFICES ASSUME FindingsInit PROVE FindingsInv
    OBVIOUS
<1>1. FindingsTyped
  <2>1. Unseen \in [found : BOOLEAN, conclusive : BOOLEAN]
      BY DEF Unseen
  <2>2. NoFinding \in [status : FindingStatus, first : 0..0]
      BY DEF NoFinding, FindingStatus
  <2>3. NoLapses \in [ended : Nat, completed : Nat]
      BY DEF NoLapses
  <2>4. /\ kind \in [Subjects -> Kinds] /\ bad \subseteq Subjects /\ confirmed \subseteq RowKinds
        /\ rewritten \in BOOLEAN /\ failed \in BOOLEAN /\ evaluated \in BOOLEAN
        /\ obs \in [Subjects -> [found : BOOLEAN, conclusive : BOOLEAN]]
        /\ alert \in [Subjects -> {"NONE", "OPEN", "ACKNOWLEDGED", "RESOLVED"}]
      BY <2>1, FindingsAssumption DEF FindingsInit
  <2>5. finding \in [Subjects -> [status : FindingStatus, first : 0..round]]
      BY <2>2 DEF FindingsInit
  <2>6. /\ round \in 0..MaxRuns /\ jobStart \in 0..round /\ lastStart \in 0..round
        /\ stage \in Stages /\ changes \in Nat /\ pending \subseteq Subjects
      BY FindingsAssumption DEF FindingsInit, Stages
  <2> QED
      BY <2>3, <2>4, <2>5, <2>6 DEF FindingsInit, FindingsTyped, FindingsTypes
<1>2. RunRemembers /\ ObservedThen /\ PendingInv
    BY DEF FindingsInit, RunRemembers, ObservedThen, ObservedOf, PendingInv, PendingIsThere, EvaluatedAtEnd,
       PendingOfThisJob, PendingOfLastJob, Between, Unseen
<1> QED
    BY <1>1, <1>2 DEF FindingsInv

-----------------------------------------------------------------------------
(* What is written of a finding.                                           *)

\* Once created, a finding keeps its first sight (persist, security-sync.ts).
FindingsStay ==
    \A s \in Subjects :
        finding[s].status # "NONE" =>
            finding'[s].status # "NONE" /\ finding'[s].first = finding[s].first

LEMMA PersistedKeeps ==
    ASSUME FindingsTyped, NEW s \in Subjects
    PROVE  /\ Persisted(finding[s]) \in [status : FindingStatus, first : 0..round]
           /\ Persisted(finding[s]).status # "NONE"
           /\ finding[s].status # "NONE" => Persisted(finding[s]).first = finding[s].first
           /\ finding[s].status = "NONE" => Persisted(finding[s]).first = round
           /\ Persisted(finding[s]).status # finding[s].status =>
                finding[s].status \in {"NONE", "RESOLVED"} /\ Persisted(finding[s]).status = "OPEN"
<1> DEFINE f == finding[s]
<1>1. f \in [status : FindingStatus, first : 0..round] /\ round \in Nat
    BY FindingsAssumption DEF FindingsTyped, FindingsTypes
<1> HIDE DEF f
<1>2. /\ Persisted(f) \in [status : FindingStatus, first : 0..round]
      /\ Persisted(f).status # "NONE"
      /\ f.status # "NONE" => Persisted(f).first = f.first
      /\ f.status = "NONE" => Persisted(f).first = round
      /\ Persisted(f).status # f.status =>
           f.status \in {"NONE", "RESOLVED"} /\ Persisted(f).status = "OPEN"
  <2>1. CASE f.status = "NONE"
      BY <1>1, <2>1 DEF Persisted, FindingStatus
  <2>2. CASE f.status = "RESOLVED"
      BY <1>1, <2>2 DEF Persisted, FindingStatus
  <2>3. CASE f.status \notin {"NONE", "RESOLVED"}
      BY <1>1, <2>3 DEF Persisted, FindingStatus
  <2> QED
      BY <2>1, <2>2, <2>3
<1> QED
    BY <1>2 DEF f

LEMMA SettledKeeps ==
    ASSUME FindingsTyped, NEW s \in Subjects
    PROVE  /\ Settled(finding[s]) \in [status : FindingStatus, first : 0..round]
           /\ Settled(finding[s]).first = finding[s].first
           /\ finding[s].status # "NONE" => Settled(finding[s]).status # "NONE"
           /\ Settled(finding[s]).status # finding[s].status =>
                finding[s].status = "OPEN" /\ Settled(finding[s]).status = "RESOLVED"
<1>1. finding[s] \in [status : FindingStatus, first : 0..round]
    BY DEF FindingsTyped, FindingsTypes
<1> QED
    BY <1>1 DEF Settled, FindingStatus
-----------------------------------------------------------------------------
(* What waits for an evaluation.                                           *)

\* Findings are created in a run; nothing else about what waits changes.
LEMMA PendingGrows ==
    ASSUME FindingsInv, FindingsStay, pending' \subseteq Subjects,
           UNCHANGED <<kind, lapses, baseline, lastStart, jobStart>>,
           pending \subseteq pending',
           \A s \in pending' \ pending : /\ kind[s] # "optimisation"
                                         /\ finding'[s].status # "NONE"
                                         /\ finding'[s].first = round,
           stage' = "idle" <=> stage = "idle",
           stage = "idle" => pending' = pending,
           \/ ~evaluated'
           \/ /\ UNCHANGED evaluated
              /\ stage = "ending" => stage' = "ending" /\ UNCHANGED pending
    PROVE  PendingInv'
<1>1. /\ round \in Nat /\ jobStart \in 0..round /\ lastStart \in 0..round
      /\ pending \subseteq Subjects
      /\ \A s \in Subjects : finding[s].first \in 0..round
    BY FindingsAssumption DEF FindingsInv, FindingsTyped, FindingsTypes
<1>2. PendingInv
    BY DEF FindingsInv
<1>3. PendingIsThere'
    BY <1>1, <1>2 DEF PendingInv, PendingIsThere, FindingsStay
<1>4. EvaluatedAtEnd'
    BY <1>2 DEF PendingInv, EvaluatedAtEnd
<1>5. \A s \in pending : finding'[s].first = finding[s].first
    BY <1>1, <1>2 DEF PendingInv, PendingIsThere, FindingsStay
<1>6. PendingOfThisJob'
    BY <1>1, <1>2, <1>5 DEF PendingInv, PendingOfThisJob
<1>7. PendingOfLastJob'
    BY <1>1, <1>2, <1>5 DEF PendingInv, PendingOfLastJob
<1> QED
    BY <1>3, <1>4, <1>6, <1>7 DEF PendingInv

LEMMA NothingWritten ==
    ASSUME UNCHANGED finding
    PROVE  FindingsStay
BY DEF FindingsStay

-----------------------------------------------------------------------------
(* The job.                                                                *)

LEMMA BeginRunKeeps ==
    ASSUME FindingsInv, NEW start \in 0..round + 1, Between, BeginRun(start)
    PROVE  FindingsTyped' /\ RunRemembers' /\ ObservedThen'
<1>1. FindingsTyped'
    BY FindingsAssumption DEF FindingsInv, FindingsTyped, FindingsTypes, BeginRun, Stages, rowVars
<1>2. RunRemembers'
    BY DEF FindingsInv, FindingsTyped, FindingsTypes, RunRemembers, Between, BeginRun
<1>3. ObservedThen'
    BY DEF FindingsInv, RunRemembers, ObservedThen, ObservedOf, Between, BeginRun, Unseen, rowVars
<1> QED
    BY <1>1, <1>2, <1>3

LEMMA ClaimSyncKeeps ==
    ASSUME FindingsInv, ClaimSync
    PROVE  FindingsInv'
<1>1. round \in Nat /\ Between
    BY FindingsAssumption DEF FindingsInv, FindingsTyped, FindingsTypes, ClaimSync, Between
<1>2. FindingsTyped' /\ RunRemembers' /\ ObservedThen'
    BY <1>1, BeginRunKeeps DEF ClaimSync
<1>3. PendingInv'
    BY DEF FindingsInv, PendingInv, PendingIsThere, EvaluatedAtEnd, PendingOfThisJob, PendingOfLastJob,
           ClaimSync, BeginRun
<1> QED
    BY <1>2, <1>3 DEF FindingsInv

LEMMA ReclaimSyncKeeps ==
    ASSUME FindingsInv, ReclaimSync
    PROVE  FindingsInv'
<1>1. jobStart \in 0..round + 1 /\ Between
    BY FindingsAssumption DEF FindingsInv, FindingsTyped, FindingsTypes, ReclaimSync, Between
<1>2. FindingsTyped' /\ RunRemembers' /\ ObservedThen'
    BY <1>1, BeginRunKeeps DEF ReclaimSync
<1>3. FindingsStay
    BY NothingWritten DEF ReclaimSync, BeginRun
<1>4. PendingInv'
    BY <1>3, PendingGrows DEF FindingsInv, FindingsTyped, ReclaimSync, BeginRun
<1> QED
    BY <1>2, <1>4 DEF FindingsInv

\* A run observes the account as it is (Observations).
LEMMA ObservationsAreTrue ==
    ASSUME FindingsInv, ~Between, NEW s \in Subjects, NEW o \in Observations(s)
    PROVE  /\ o \in [found : BOOLEAN, conclusive : BOOLEAN]
           /\ o.found => s \in wasBad
           /\ o.conclusive /\ ~o.found /\ kind[s] # "plain" => s \in wasSafe
<1>1. bad \subseteq wasBad /\ Subjects \ bad \subseteq wasSafe
    BY DEF FindingsInv, RunRemembers
<1>2. CASE o = Truth(s)
  <2> DEFINE b == s \in bad
  <2>1. b \in BOOLEAN /\ Truth(s) = [found |-> b, conclusive |-> TRUE]
      BY DEF Truth
  <2> HIDE DEF b
  <2>2. Truth(s) \in [found : BOOLEAN, conclusive : BOOLEAN] /\ Truth(s).found = b
      BY <2>1
  <2>3. b => s \in wasBad
      BY <1>1 DEF b
  <2>4. ~b => s \in wasSafe
      BY <1>1 DEF b
  <2> QED
      BY <1>2, <2>2, <2>3, <2>4
<1>3. CASE kind[s] = "plain" /\ o = NotApplied
    BY <1>3 DEF NotApplied
<1>4. CASE s \in bad /\ o = FoundInPart
    BY <1>1, <1>4 DEF FoundInPart
<1>5. CASE o = Unseen
    BY <1>5 DEF Unseen
<1> QED
    BY <1>2, <1>3, <1>4, <1>5 DEF Observations

LEMMA ObserveKeeps ==
    ASSUME FindingsInv, NEW S \in SUBSET Subjects, Observe(S), ~Between,
           UNCHANGED <<kind, bad, wasSafe, wasBad>>,
           \/ UNCHANGED rewritten
           \/ \A s \in Subjects : kind[s] = "resource" => s \in S
    PROVE  /\ ObservedThen'
           /\ obs' \in [Subjects -> [found : BOOLEAN, conclusive : BOOLEAN]]
<1>1. PICK f \in [Subjects -> [found : BOOLEAN, conclusive : BOOLEAN]] :
          /\ obs' = f
          /\ \A s \in Subjects : IF s \in S THEN f[s] \in Observations(s) ELSE f[s] = obs[s]
    BY DEF Observe
<1>2. ASSUME NEW s \in Subjects, s \in S
      PROVE  ObservedOf(s)'
    BY <1>1, <1>2, ObservationsAreTrue DEF ObservedOf
<1>3. ASSUME NEW s \in Subjects, s \notin S, kind'[s] = "resource" => ~rewritten'
      PROVE  ObservedOf(s)'
  <2>1. obs'[s] = obs[s] /\ (kind[s] = "resource" => ~rewritten)
      BY <1>1, <1>3
  <2>2. ObservedOf(s)
      BY <2>1 DEF FindingsInv, ObservedThen
  <2> QED
      BY <2>1, <2>2 DEF ObservedOf
<1> QED
    BY <1>1, <1>2, <1>3 DEF ObservedThen

\* The collectors read some of the rows.
LEMMA ConfirmKeeps ==
    ASSUME FindingsInv, NEW rows \in SUBSET RowKinds, Confirm(rows), ~Between,
           UNCHANGED <<kind, bad, wasSafe, wasBad>>
    PROVE  /\ ObservedThen'
           /\ obs' \in [Subjects -> [found : BOOLEAN, conclusive : BOOLEAN]]
           /\ confirmed' \subseteq RowKinds /\ rewritten' \in BOOLEAN
<1> DEFINE S == {s \in Subjects : kind[s] \in rows}
<1>1. S \in SUBSET Subjects /\ Observe(S)
    BY DEF Confirm
<1>2. UNCHANGED rewritten \/ \A s \in Subjects : kind[s] = "resource" => s \in S
    BY DEF Confirm, FindingsInv, FindingsTyped, FindingsTypes
<1> HIDE DEF S
<1>3. /\ ObservedThen'
      /\ obs' \in [Subjects -> [found : BOOLEAN, conclusive : BOOLEAN]]
    BY <1>1, <1>2, ObserveKeeps
<1>4. confirmed' \subseteq RowKinds /\ rewritten' \in BOOLEAN
    BY DEF Confirm, FindingsInv, FindingsTyped, FindingsTypes
<1> QED
    BY <1>3, <1>4

LEMMA CollectResourcesKeeps ==
    ASSUME FindingsInv, CollectResources
    PROVE  FindingsInv'
<1>1. ~Between /\ UNCHANGED <<kind, bad, wasSafe, wasBad>> /\ Rows \in SUBSET RowKinds
    BY DEF CollectResources, Collected, Between, Rows
<1>2. /\ ObservedThen'
      /\ obs' \in [Subjects -> [found : BOOLEAN, conclusive : BOOLEAN]]
      /\ confirmed' \subseteq RowKinds /\ rewritten' \in BOOLEAN
    BY <1>1, ConfirmKeeps DEF CollectResources
<1>3. FindingsTyped'
    BY <1>2 DEF FindingsInv, FindingsTyped, FindingsTypes, CollectResources, Collected, Stages
<1>4. RunRemembers'
    BY <1>1 DEF FindingsInv, RunRemembers, Between, CollectResources, Collected
<1>5. PendingInv'
    BY NothingWritten, PendingGrows DEF FindingsInv, FindingsTyped, CollectResources, Collected
<1> QED
    BY <1>2, <1>3, <1>4, <1>5 DEF FindingsInv

LEMMA CollectPartlyKeeps ==
    ASSUME FindingsInv, CollectPartly
    PROVE  FindingsInv'
<1>1. PICK rows \in SUBSET Rows : Confirm(rows)
    BY DEF CollectPartly
<1>2. ~Between /\ UNCHANGED <<kind, bad, wasSafe, wasBad>> /\ rows \in SUBSET RowKinds
    BY DEF CollectPartly, Collected, Between, Rows
<1>3. /\ ObservedThen'
      /\ obs' \in [Subjects -> [found : BOOLEAN, conclusive : BOOLEAN]]
      /\ confirmed' \subseteq RowKinds /\ rewritten' \in BOOLEAN
    BY <1>1, <1>2, ConfirmKeeps
<1>4. FindingsTyped'
    BY <1>3 DEF FindingsInv, FindingsTyped, FindingsTypes, CollectPartly, Collected, Stages
<1>5. RunRemembers'
    BY <1>2 DEF FindingsInv, RunRemembers, Between, CollectPartly, Collected
<1>6. PendingInv'
    BY NothingWritten, PendingGrows DEF FindingsInv, FindingsTyped, CollectPartly, Collected
<1> QED
    BY <1>3, <1>4, <1>5, <1>6 DEF FindingsInv

LEMMA ForgetScanKeeps ==
    ASSUME ForgetScan
    PROVE  /\ ObservedThen'
           /\ confirmed' \subseteq RowKinds /\ rewritten' \in BOOLEAN
           /\ obs' \in [Subjects -> [found : BOOLEAN, conclusive : BOOLEAN]]
<1>1. Unseen \in [found : BOOLEAN, conclusive : BOOLEAN]
    BY DEF Unseen
<1>2. /\ confirmed' \subseteq RowKinds /\ rewritten' \in BOOLEAN
      /\ obs' \in [Subjects -> [found : BOOLEAN, conclusive : BOOLEAN]]
    BY <1>1 DEF ForgetScan
<1>3. ObservedThen'
    BY DEF ForgetScan, ObservedThen, ObservedOf, Unseen
<1> QED
    BY <1>2, <1>3

LEMMA ForgetRunKeeps ==
    ASSUME ForgetRun, stage' \in {"idle", "crashed"}
    PROVE  /\ RunRemembers' /\ ObservedThen'
           /\ confirmed' \subseteq RowKinds /\ rewritten' \in BOOLEAN
           /\ failed' \in BOOLEAN /\ evaluated' \in BOOLEAN
           /\ obs' \in [Subjects -> [found : BOOLEAN, conclusive : BOOLEAN]]
<1>1. RunRemembers'
    BY DEF ForgetRun, ForgetScan, RunRemembers, Between
<1> QED
    BY <1>1, ForgetScanKeeps DEF ForgetRun

\* A job ends, or is given up, without its evaluation: nothing waits of the next one.
LEMMA CollectNothingKeeps ==
    ASSUME FindingsInv, CollectNothing
    PROVE  FindingsInv'
<1>1. /\ RunRemembers' /\ ObservedThen'
      /\ confirmed' \subseteq RowKinds /\ rewritten' \in BOOLEAN
      /\ failed' \in BOOLEAN /\ evaluated' \in BOOLEAN
      /\ obs' \in [Subjects -> [found : BOOLEAN, conclusive : BOOLEAN]]
    BY ForgetRunKeeps DEF CollectNothing
<1>2. lapses' \in [ended : Nat, completed : Nat] /\ lapses'.ended # 0
      /\ lapses'.completed = lapses.completed
    BY DEF FindingsInv, FindingsTyped, CollectNothing
<1>3. FindingsTyped'
  <2>1. jobStart' \in 0..round'
      BY FindingsAssumption DEF FindingsInv, FindingsTyped, FindingsTypes, CollectNothing, Collected
  <2> QED
      BY <1>1, <1>2, <2>1 DEF FindingsInv, FindingsTyped, FindingsTypes, CollectNothing, Collected, Stages
<1>4. PendingInv'
    BY <1>2 DEF FindingsInv, PendingInv, PendingIsThere, EvaluatedAtEnd, PendingOfThisJob,
                PendingOfLastJob, CollectNothing, Collected, ForgetRun
<1> QED
    BY <1>1, <1>3, <1>4 DEF FindingsInv

LEMMA GiveUpSyncKeeps ==
    ASSUME FindingsInv, GiveUpSync
    PROVE  FindingsInv'
<1>1. lapses' \in [ended : Nat, completed : Nat] /\ lapses'.ended # 0
      /\ lapses'.completed = lapses.completed
    BY DEF FindingsInv, FindingsTyped, GiveUpSync
<1>2. FindingsTyped'
  <2>1. jobStart' \in 0..round'
      BY FindingsAssumption DEF FindingsInv, FindingsTyped, FindingsTypes, GiveUpSync
  <2> QED
      BY <1>1, <2>1 DEF FindingsInv, FindingsTyped, FindingsTypes, GiveUpSync, rowVars, worldVars, Stages
<1>3. RunRemembers' /\ ObservedThen'
    BY DEF FindingsInv, RunRemembers, ObservedThen, ObservedOf, Between, GiveUpSync, rowVars, worldVars
<1>4. PendingInv'
    BY <1>1 DEF FindingsInv, PendingInv, PendingIsThere, EvaluatedAtEnd, PendingOfThisJob,
                PendingOfLastJob, GiveUpSync, rowVars, worldVars
<1> QED
    BY <1>2, <1>3, <1>4 DEF FindingsInv

LEMMA CollectSignalsKeeps ==
    ASSUME FindingsInv, CollectSignals
    PROVE  FindingsInv'
<1> DEFINE S == OfKind("account") \cup OfKind("external")
<1>1. ~Between /\ UNCHANGED <<kind, bad, wasSafe, wasBad>> /\ S \in SUBSET Subjects /\ Observe(S)
      /\ UNCHANGED rewritten
    BY DEF CollectSignals, Between, OfKind, worldVars
<1> HIDE DEF S
<1>2. /\ ObservedThen'
      /\ obs' \in [Subjects -> [found : BOOLEAN, conclusive : BOOLEAN]]
    BY <1>1, ObserveKeeps
<1>3. FindingsTyped'
    BY <1>2 DEF FindingsInv, FindingsTyped, FindingsTypes, CollectSignals, worldVars, Stages
<1>4. RunRemembers'
    BY <1>1 DEF FindingsInv, RunRemembers, Between, CollectSignals
<1>5. PendingInv'
    BY NothingWritten, PendingGrows DEF FindingsInv, FindingsTyped, CollectSignals, worldVars
<1> QED
    BY <1>2, <1>3, <1>4, <1>5 DEF FindingsInv

-----------------------------------------------------------------------------
(* The analyzers.                                                          *)

\* One transaction over the subjects S, none of an optimisation rule.
LEMMA UpsertKeeps ==
    ASSUME FindingsInv, NEW S \in SUBSET Subjects, NEW ran, UpsertFindings(S, ran),
           \A s \in S : kind[s] # "optimisation"
    PROVE  /\ finding' \in [Subjects -> [status : FindingStatus, first : 0..round]]
           /\ FindingsStay
           /\ pending \subseteq pending' /\ pending' \subseteq Subjects
           /\ \A s \in pending' \ pending : /\ kind[s] # "optimisation"
                                            /\ finding'[s].status # "NONE"
                                            /\ finding'[s].first = round
<1>1. \A s \in Subjects : finding'[s] = IF s \notin S THEN finding[s]
                                       ELSE IF obs[s].found THEN Persisted(finding[s])
                                       ELSE IF s \in ran THEN Settled(finding[s])
                                       ELSE finding[s]
    BY DEF UpsertFindings
<1>2. FindingsTyped /\ finding \in [Subjects -> [status : FindingStatus, first : 0..round]]
    BY DEF FindingsInv, FindingsTyped, FindingsTypes
<1>3. \A s \in Subjects : finding'[s] \in [status : FindingStatus, first : 0..round]
    BY <1>1, <1>2, PersistedKeeps, SettledKeeps
<1>4. finding' \in [Subjects -> [status : FindingStatus, first : 0..round]]
    BY <1>1, <1>3 DEF UpsertFindings
<1>5. FindingsStay
    BY <1>1, <1>2, PersistedKeeps, SettledKeeps DEF FindingsStay
<1>6. pending' = pending \cup {s \in S : finding[s].status = "NONE" /\ obs[s].found}
    BY DEF UpsertFindings
<1>7. \A s \in pending' \ pending : finding'[s].status # "NONE" /\ finding'[s].first = round
    BY <1>1, <1>2, <1>6, PersistedKeeps
<1> QED
    BY <1>2, <1>4, <1>5, <1>6, <1>7 DEF FindingsTyped

LEMMA ScanPageKeeps ==
    ASSUME FindingsInv, ScanPage
    PROVE  FindingsInv'
<1> DEFINE S == {s \in Subjects : kind[s] \in confirmed}
<1>1. /\ S \in SUBSET Subjects /\ \A s \in S : kind[s] # "optimisation"
      /\ UpsertFindings(S, ResolvableInRow \cup OfKind("plain"))
    BY DEF FindingsInv, FindingsTyped, FindingsTypes, RowKinds, ScanPage
<1> HIDE DEF S
<1>2. /\ finding' \in [Subjects -> [status : FindingStatus, first : 0..round]]
      /\ FindingsStay
      /\ pending \subseteq pending' /\ pending' \subseteq Subjects
      /\ \A s \in pending' \ pending : /\ kind[s] # "optimisation"
                                       /\ finding'[s].status # "NONE"
                                       /\ finding'[s].first = round
    BY <1>1, UpsertKeeps
<1>3. FindingsTyped'
    BY <1>2 DEF FindingsInv, FindingsTyped, FindingsTypes, ScanPage, rowVars, worldVars, Stages
<1>4. RunRemembers' /\ ObservedThen'
    BY DEF FindingsInv, RunRemembers, ObservedThen, ObservedOf, Between, ScanPage, rowVars, worldVars
<1>5. PendingInv'
    BY <1>2, PendingGrows DEF ScanPage, worldVars
<1> QED
    BY <1>3, <1>4, <1>5 DEF FindingsInv

LEMMA ScanAccountKeeps ==
    ASSUME FindingsInv, ScanAccount
    PROVE  FindingsInv'
<1> DEFINE S == OfKind("account") \cup OfKind("external")
<1>1. /\ S \in SUBSET Subjects /\ \A s \in S : kind[s] # "optimisation"
      /\ UpsertFindings(S, {s \in S : obs[s].conclusive})
    BY DEF OfKind, ScanAccount
<1> HIDE DEF S
<1>2. /\ finding' \in [Subjects -> [status : FindingStatus, first : 0..round]]
      /\ FindingsStay
      /\ pending \subseteq pending' /\ pending' \subseteq Subjects
      /\ \A s \in pending' \ pending : /\ kind[s] # "optimisation"
                                       /\ finding'[s].status # "NONE"
                                       /\ finding'[s].first = round
    BY <1>1, UpsertKeeps
<1>3. FindingsTyped'
    BY <1>2, ForgetScanKeeps DEF FindingsInv, FindingsTyped, FindingsTypes, ScanAccount, worldVars, Stages
<1>4. RunRemembers' /\ ObservedThen'
    BY ForgetScanKeeps DEF FindingsInv, RunRemembers, Between, ScanAccount, worldVars
<1>5. PendingInv'
    BY <1>2, PendingGrows DEF ScanAccount, rowVars, worldVars
<1> QED
    BY <1>3, <1>4, <1>5 DEF FindingsInv

LEMMA OptimiseKeeps ==
    ASSUME FindingsInv, Optimise
    PROVE  FindingsInv'
<1> DEFINE S == OfKind("optimisation")
<1>1. PICK found : finding' = [s \in Subjects |->
                                 IF s \notin S THEN finding[s]
                                 ELSE IF s \in found THEN Persisted(finding[s])
                                 ELSE Settled(finding[s])]
    BY DEF Optimise
<1> HIDE DEF S
<1>2. FindingsTyped /\ finding \in [Subjects -> [status : FindingStatus, first : 0..round]]
    BY DEF FindingsInv, FindingsTyped, FindingsTypes
<1>3. \A s \in Subjects : finding'[s] = IF s \notin S THEN finding[s]
                                       ELSE IF s \in found THEN Persisted(finding[s])
                                       ELSE Settled(finding[s])
    BY <1>1
<1>4. \A s \in Subjects : finding'[s] \in [status : FindingStatus, first : 0..round]
    BY <1>2, <1>3, PersistedKeeps, SettledKeeps
<1>5. FindingsStay
    BY <1>2, <1>3, PersistedKeeps, SettledKeeps DEF FindingsStay
<1>6. finding' \in [Subjects -> [status : FindingStatus, first : 0..round]]
    BY <1>1, <1>4
<1>7. FindingsTyped'
    BY <1>2, <1>6 DEF FindingsTyped, FindingsTypes, Optimise, rowVars, worldVars, Stages
<1>8. RunRemembers' /\ ObservedThen'
    BY DEF FindingsInv, RunRemembers, ObservedThen, ObservedOf, Between, Optimise, rowVars, worldVars
<1>9. PendingInv'
    BY <1>5, PendingGrows DEF FindingsInv, FindingsTyped, Optimise, worldVars
<1> QED
    BY <1>7, <1>8, <1>9 DEF FindingsInv

\* What an evaluation, whole or not, leaves in an alert.
LEMMA RaiseTypes ==
    ASSUME FindingsInv, NEW T, Raise(T)
    PROVE  alert' \in [Subjects -> {"NONE", "OPEN", "ACKNOWLEDGED", "RESOLVED"}]
BY DEF FindingsInv, FindingsTyped, FindingsTypes, Raise

LEMMA RaiseSomeTypes ==
    ASSUME FindingsInv, RaiseSome
    PROVE  alert' \in [Subjects -> {"NONE", "OPEN", "ACKNOWLEDGED", "RESOLVED"}]
<1>1. CASE stage = "alerts"
    BY <1>1, RaiseTypes DEF RaiseSome
<1>2. CASE stage # "alerts"
    BY <1>2 DEF RaiseSome, FindingsInv, FindingsTyped, FindingsTypes
<1> QED
    BY <1>1, <1>2

LEMMA EvaluateAlertsKeeps ==
    ASSUME FindingsInv, NEW T, EvaluateAlerts(T)
    PROVE  FindingsInv'
<1>1. \/ evaluated' /\ pending' = {} /\ lapses' = NoLapses
      \/ ~evaluated' /\ UNCHANGED <<pending, lapses>>
    BY DEF EvaluateAlerts
<1>2. evaluated' \in BOOLEAN
    BY DEF EvaluateAlerts
<1>3. FindingsTyped'
  <2>1. NoLapses \in [ended : Nat, completed : Nat]
      BY DEF NoLapses
  <2>2. alert' \in [Subjects -> {"NONE", "OPEN", "ACKNOWLEDGED", "RESOLVED"}]
      BY RaiseTypes DEF EvaluateAlerts, EvaluateSince
  <2> QED
      BY <1>1, <1>2, <2>1, <2>2
      DEF FindingsInv, FindingsTyped, FindingsTypes, EvaluateAlerts, rowVars, worldVars, Stages
<1>4. RunRemembers' /\ ObservedThen'
    BY DEF FindingsInv, RunRemembers, ObservedThen, ObservedOf, Between, EvaluateAlerts, rowVars, worldVars
<1>5. PendingInv'
  <2>1. CASE evaluated' /\ pending' = {} /\ lapses' = NoLapses
      BY <2>1 DEF PendingInv, PendingIsThere, EvaluatedAtEnd, PendingOfThisJob, PendingOfLastJob,
                  NoLapses, EvaluateAlerts
  <2>2. CASE ~evaluated' /\ UNCHANGED <<pending, lapses>>
      BY <2>2, NothingWritten, PendingGrows DEF FindingsInv, FindingsTyped, EvaluateAlerts, worldVars
  <2> QED
      BY <1>1, <2>1, <2>2
<1> QED
    BY <1>3, <1>4, <1>5 DEF FindingsInv

LEMMA EvaluateAfterCostKeeps ==
    ASSUME FindingsInv, EvaluateAfterCost
    PROVE  FindingsInv'
<1>1. FindingsTyped'
  <2>1. alert' \in [Subjects -> {"NONE", "OPEN", "ACKNOWLEDGED", "RESOLVED"}]
      BY RaiseTypes DEF EvaluateAfterCost, EvaluateSince
  <2> QED
      BY <2>1 DEF FindingsInv, FindingsTyped, FindingsTypes, EvaluateAfterCost, rowVars, worldVars, jobVars
<1>2. RunRemembers' /\ ObservedThen'
    BY DEF FindingsInv, RunRemembers, ObservedThen, ObservedOf, Between, EvaluateAfterCost, rowVars, worldVars, jobVars
<1>3. PendingInv'
    BY NothingWritten, PendingGrows DEF FindingsInv, FindingsTyped, EvaluateAfterCost, rowVars, worldVars, jobVars
<1> QED
    BY <1>1, <1>2, <1>3 DEF FindingsInv

LEMMA AnalyzerThrowsKeeps ==
    ASSUME FindingsInv, AnalyzerThrows
    PROVE  FindingsInv'
<1>1. stage' \in Stages \ {"idle", "crashed"} /\ stage \notin {"idle", "crashed"}
    BY DEF AnalyzerThrows, Stages
<1>2. /\ ObservedThen'
      /\ confirmed' \subseteq RowKinds /\ rewritten' \in BOOLEAN
      /\ obs' \in [Subjects -> [found : BOOLEAN, conclusive : BOOLEAN]]
    BY ForgetScanKeeps DEF AnalyzerThrows
<1>3. FindingsTyped'
    BY <1>1, <1>2, RaiseSomeTypes DEF FindingsInv, FindingsTyped, FindingsTypes, AnalyzerThrows, worldVars
<1>4. RunRemembers'
    BY <1>1 DEF FindingsInv, RunRemembers, Between, AnalyzerThrows, worldVars
<1>5. ~evaluated'
    BY DEF AnalyzerThrows, FindingsInv, PendingInv, EvaluatedAtEnd
<1>6. PendingInv'
    BY <1>1, <1>5, NothingWritten, PendingGrows DEF FindingsInv, FindingsTyped, AnalyzerThrows, worldVars
<1> QED
    BY <1>2, <1>3, <1>4, <1>6 DEF FindingsInv

\* The job completes: with an evaluation nothing waits; without one, what waits is of
\* this job or is what the first job found.
LEMMA FinishSyncKeeps ==
    ASSUME FindingsInv, FinishSync
    PROVE  FindingsInv'
<1>1. /\ RunRemembers' /\ ObservedThen'
      /\ confirmed' \subseteq RowKinds /\ rewritten' \in BOOLEAN
      /\ failed' \in BOOLEAN /\ evaluated' \in BOOLEAN
      /\ obs' \in [Subjects -> [found : BOOLEAN, conclusive : BOOLEAN]]
    BY ForgetRunKeeps DEF FinishSync
<1>2. /\ lapses \in [ended : Nat, completed : Nat] /\ pending \subseteq Subjects
      /\ round \in Nat /\ jobStart \in 0..round
    BY FindingsAssumption DEF FindingsInv, FindingsTyped, FindingsTypes
<1>3. lapses' = IF evaluated THEN lapses
                ELSE [ended |-> lapses.ended + 1, completed |-> lapses.ended + 1]
    BY DEF FinishSync
<1>4. FindingsTyped'
  <2>1. lapses' \in [ended : Nat, completed : Nat]
      BY <1>2, <1>3
  <2>2. jobStart' \in 0..round' /\ lastStart' \in 0..round'
      BY <1>2 DEF FinishSync
  <2> QED
      BY <1>1, <2>1, <2>2 DEF FindingsInv, FindingsTyped, FindingsTypes, FinishSync, Stages
<1>5. PendingIsThere' /\ EvaluatedAtEnd'
    BY DEF FindingsInv, PendingInv, PendingIsThere, EvaluatedAtEnd, FinishSync, ForgetRun
<1>6. CASE ~evaluated
  <2>1. lapses'.ended = lapses.ended + 1 /\ lapses'.completed = lapses.ended + 1
      BY <1>3, <1>6
  <2>2. PendingOfThisJob'
      BY <1>2, <2>1 DEF PendingOfThisJob
  <2>3. ASSUME lapses'.completed <= 1, NEW s \in pending' \ baseline'
        PROVE  finding'[s].first >= lastStart'
    <3>1. lapses.ended = 0
        BY <1>2, <2>1, <2>3
    <3>2. s \in pending /\ finding[s].first >= jobStart
        BY <2>3, <3>1 DEF FindingsInv, PendingInv, PendingOfThisJob, FinishSync
    <3> QED
        BY <3>2 DEF FinishSync
  <2> QED
      BY <1>1, <1>4, <1>5, <2>2, <2>3 DEF FindingsInv, PendingInv, PendingOfLastJob
<1>7. CASE evaluated
  <2>1. pending' = {}
      BY <1>7 DEF FindingsInv, PendingInv, EvaluatedAtEnd, FinishSync
  <2> QED
      BY <1>1, <1>4, <1>5, <2>1 DEF FindingsInv, PendingInv, PendingOfThisJob, PendingOfLastJob, FinishSync
<1> QED
    BY <1>6, <1>7

LEMMA WorkerDiesKeeps ==
    ASSUME FindingsInv, WorkerDies
    PROVE  FindingsInv'
<1>1. /\ RunRemembers' /\ ObservedThen'
      /\ confirmed' \subseteq RowKinds /\ rewritten' \in BOOLEAN
      /\ failed' \in BOOLEAN /\ evaluated' \in BOOLEAN
      /\ obs' \in [Subjects -> [found : BOOLEAN, conclusive : BOOLEAN]]
    BY ForgetRunKeeps DEF WorkerDies
<1>2. FindingsTyped'
    BY <1>1, RaiseSomeTypes DEF FindingsInv, FindingsTyped, FindingsTypes, WorkerDies, Stages
<1>3. PendingInv'
    BY NothingWritten, PendingGrows DEF FindingsInv, FindingsTyped, WorkerDies, ForgetRun
<1> QED
    BY <1>1, <1>2, <1>3 DEF FindingsInv

-----------------------------------------------------------------------------
(* People, and the account.                                                *)

LEMMA SetStatusKeeps ==
    ASSUME FindingsInv, NEW s \in Subjects, NEW v \in {"OPEN", "SUPPRESSED"}, SetStatus(s, v)
    PROVE  FindingsInv'
<1>1. /\ finding \in [Subjects -> [status : FindingStatus, first : 0..round]]
      /\ finding' = [finding EXCEPT ![s].status = v]
    BY DEF FindingsInv, FindingsTyped, FindingsTypes, SetStatus
<1>2. \A r \in Subjects : /\ finding'[r] \in [status : FindingStatus, first : 0..round]
                          /\ finding'[r].first = finding[r].first
                          /\ finding[r].status # "NONE" => finding'[r].status # "NONE"
    BY <1>1 DEF FindingStatus
<1>3. finding' \in [Subjects -> [status : FindingStatus, first : 0..round]]
    BY <1>1, <1>2
<1>4. FindingsStay
    BY <1>2 DEF FindingsStay
<1>5. FindingsTyped'
    BY <1>3 DEF FindingsInv, FindingsTyped, FindingsTypes, SetStatus, rowVars, jobVars, worldVars
<1>6. RunRemembers' /\ ObservedThen'
    BY DEF FindingsInv, RunRemembers, ObservedThen, ObservedOf, Between, SetStatus, rowVars, jobVars, worldVars
<1>7. PendingInv'
    BY <1>4, PendingGrows DEF FindingsInv, FindingsTyped, SetStatus, rowVars, jobVars, worldVars
<1> QED
    BY <1>5, <1>6, <1>7 DEF FindingsInv

LEMMA SetAlertStateKeeps ==
    ASSUME FindingsInv, NEW s \in Subjects, NEW v \in {"ACKNOWLEDGED", "RESOLVED"}, SetAlertState(s, v)
    PROVE  FindingsInv'
<1>1. FindingsTyped'
    BY DEF FindingsInv, FindingsTyped, FindingsTypes, SetAlertState, rowVars, jobVars, worldVars
<1>2. RunRemembers' /\ ObservedThen'
    BY DEF FindingsInv, RunRemembers, ObservedThen, ObservedOf, Between, SetAlertState, rowVars, jobVars, worldVars
<1>3. PendingInv'
    BY NothingWritten, PendingGrows DEF FindingsInv, FindingsTyped, SetAlertState, rowVars, jobVars, worldVars
<1> QED
    BY <1>1, <1>2, <1>3 DEF FindingsInv

LEMMA AccountChangesKeeps ==
    ASSUME FindingsInv, NEW s \in Subjects, AccountChanges(s)
    PROVE  FindingsInv'
<1>1. FindingsTyped'
    BY DEF FindingsInv, FindingsTyped, FindingsTypes, AccountChanges, rowVars, jobVars
<1>2. wasSafe \subseteq wasSafe' /\ wasBad \subseteq wasBad'
    BY DEF AccountChanges
<1>3. RunRemembers'
    BY DEF FindingsInv, FindingsTyped, FindingsTypes, RunRemembers, Between, AccountChanges, rowVars, jobVars
<1>4. ObservedThen'
    BY <1>2 DEF FindingsInv, ObservedThen, ObservedOf, AccountChanges, rowVars
<1>5. PendingInv'
    BY NothingWritten, PendingGrows DEF FindingsInv, FindingsTyped, AccountChanges, rowVars, jobVars
<1> QED
    BY <1>1, <1>3, <1>4, <1>5 DEF FindingsInv

\* The resource's row is written by somebody else: of its subjects nothing is known then.
LEMMA RewriteRowKeeps ==
    ASSUME FindingsInv, NEW seen, RewriteRow(seen), ~Between, confirmed' \subseteq RowKinds
    PROVE  FindingsInv'
<1>1. /\ obs' \in [Subjects -> [found : BOOLEAN, conclusive : BOOLEAN]]
      /\ \A s \in Subjects : kind[s] # "resource" => obs'[s] = obs[s]
    BY DEF RewriteRow
<1>2. FindingsTyped'
    BY <1>1 DEF FindingsInv, FindingsTyped, FindingsTypes, RewriteRow, jobVars, worldVars
<1>3. RunRemembers'
    BY DEF FindingsInv, RunRemembers, Between, RewriteRow, jobVars, worldVars
<1>4. ObservedThen'
    BY <1>1 DEF FindingsInv, ObservedThen, ObservedOf, RewriteRow, worldVars
<1>5. PendingInv'
    BY NothingWritten, PendingGrows DEF FindingsInv, FindingsTyped, RewriteRow, jobVars, worldVars
<1> QED
    BY <1>2, <1>3, <1>4, <1>5 DEF FindingsInv

LEMMA EditRowKeeps ==
    ASSUME FindingsInv, EditRow
    PROVE  FindingsInv'
<1>1. ~Between /\ confirmed' \subseteq RowKinds
    BY DEF EditRow, Between, FindingsInv, FindingsTyped, FindingsTypes
<1> QED
    BY <1>1, RewriteRowKeeps DEF EditRow

LEMMA RecordProvisionedKeeps ==
    ASSUME FindingsInv, RecordProvisioned
    PROVE  FindingsInv'
<1>1. ~Between /\ confirmed' \subseteq RowKinds
    BY DEF RecordProvisioned, Between, FindingsInv, FindingsTyped, FindingsTypes, RowKinds
<1> QED
    BY <1>1, RewriteRowKeeps DEF RecordProvisioned

-----------------------------------------------------------------------------
LEMMA FindingsStepInv == FindingsInv /\ [FindingsNext]_findingsVars => FindingsInv'
<1> SUFFICES ASSUME FindingsInv, [FindingsNext]_findingsVars PROVE FindingsInv'
    OBVIOUS
<1>1. CASE UNCHANGED findingsVars
  <2>1. FindingsTyped' /\ RunRemembers' /\ ObservedThen'
      BY <1>1 DEF FindingsInv, FindingsTyped, FindingsTypes, RunRemembers, ObservedThen, ObservedOf,
                  Between, findingsVars
  <2>2. PendingInv'
      BY <1>1 DEF FindingsInv, PendingInv, PendingIsThere, EvaluatedAtEnd, PendingOfThisJob,
                  PendingOfLastJob, findingsVars
  <2> QED
      BY <2>1, <2>2 DEF FindingsInv
<1>2. ASSUME NEW s \in Subjects, NEW v \in {"OPEN", "SUPPRESSED"},
             SetFindingState(s, v) \/ SetOptimizationState(s, v)
      PROVE  FindingsInv'
    BY <1>2, SetStatusKeeps DEF SetFindingState, SetOptimizationState
<1> QED
    BY <1>1, <1>2, ClaimSyncKeeps, ReclaimSyncKeeps, CollectResourcesKeeps, CollectPartlyKeeps,
       CollectNothingKeeps, CollectSignalsKeeps, ScanPageKeeps, ScanAccountKeeps, OptimiseKeeps,
       EvaluateAlertsKeeps, EvaluateAfterCostKeeps, AnalyzerThrowsKeeps, FinishSyncKeeps,
       WorkerDiesKeeps, GiveUpSyncKeeps, SetAlertStateKeeps, AccountChangesKeeps, EditRowKeeps,
       RecordProvisionedKeeps
    DEF FindingsNext

LEMMA FindingsInvAlways == FindingsSpec => []FindingsInv
BY FindingsInitInv, FindingsStepInv, PTL DEF FindingsSpec

\* Findings, alerts, observations and the job's clock keep their types (schema.prisma,
\* security-sync.ts).
THEOREM FindingsTypeCorrect == FindingsSpec => []FindingsTypes
<1>1. FindingsInv => FindingsTypes
    BY DEF FindingsInv, FindingsTyped
<1> QED
    BY <1>1, FindingsInvAlways, PTL

\* What may stand behind a change of a finding (StatusIsBacked).
Backed(s, was, is) ==
    \/ /\ was = "OPEN" /\ is = "RESOLVED"
       /\ ~(kind[s] = "resource" /\ rewritten) /\ kind[s] # "plain" => s \in wasSafe
    \/ /\ was \in {"NONE", "RESOLVED"} /\ is = "OPEN"
       /\ ~(kind[s] = "resource" /\ rewritten) => s \in wasBad

\* What a transaction of the scan makes of a security finding.
LEMMA UpsertIsBacked ==
    ASSUME FindingsInv, NEW S \in SUBSET Subjects, NEW ran, UpsertFindings(S, ran),
           \A r \in ran : obs[r].conclusive \/ kind[r] = "plain",
           NEW s \in Subjects, finding[s].status # finding'[s].status
    PROVE  s \in S /\ Backed(s, finding[s].status, finding'[s].status)
<1>1. finding'[s] = IF s \notin S THEN finding[s]
                    ELSE IF obs[s].found THEN Persisted(finding[s])
                    ELSE IF s \in ran THEN Settled(finding[s])
                    ELSE finding[s]
    BY DEF UpsertFindings
<1>2. FindingsTyped /\ (~(kind[s] = "resource" /\ rewritten) => ObservedOf(s))
    BY DEF FindingsInv, ObservedThen
<1>3. CASE s \in S /\ obs[s].found
  <2>1. /\ finding[s].status \in {"NONE", "RESOLVED"} /\ finding'[s].status = "OPEN"
      BY <1>1, <1>2, <1>3, PersistedKeeps
  <2> QED
      BY <1>2, <1>3, <2>1 DEF Backed, ObservedOf
<1>4. CASE s \in S /\ ~obs[s].found /\ s \in ran
  <2>1. finding[s].status = "OPEN" /\ finding'[s].status = "RESOLVED"
      BY <1>1, <1>2, <1>4, SettledKeeps
  <2> QED
      BY <1>2, <1>4, <2>1 DEF Backed, ObservedOf
<1> QED
    BY <1>1, <1>3, <1>4

\* Every change the scan makes to a security finding is backed by an observation of this
\* run (persist and the updateMany calls of security-sync.ts), except for plain values
\* that were not read and rows that an edit or a plan wrote meanwhile: for any subjects of
\* any kinds, any number of runs, and failures, reclaimed runs and changes in between.
THEOREM ChangesAreBacked == FindingsSpec => StatusIsBacked
<1>1. ASSUME FindingsInv, FindingsNext, NEW s \in Subjects, kind[s] # "optimisation",
             finding[s].status # finding'[s].status, changes' = changes
      PROVE  /\ kind[s] \in RowKinds => kind[s] \in confirmed
             /\ Backed(s, finding[s].status, finding'[s].status)
  <2>1. changes \in Nat /\ finding' # finding
      BY <1>1 DEF FindingsInv, FindingsTyped
  <2>2. CASE ScanPage
    <3> DEFINE S == {r \in Subjects : kind[r] \in confirmed}
    <3>1. S \in SUBSET Subjects /\ UpsertFindings(S, ResolvableInRow \cup OfKind("plain"))
        BY <2>2 DEF ScanPage
    <3>2. \A r \in ResolvableInRow \cup OfKind("plain") : obs[r].conclusive \/ kind[r] = "plain"
        BY DEF OfKind, ResolvableInRow
    <3>3. s \in S => kind[s] \in confirmed
        OBVIOUS
    <3> HIDE DEF S
    <3> QED
        BY <1>1, <3>1, <3>2, <3>3, UpsertIsBacked
  <2>3. CASE ScanAccount
    <3> DEFINE S == OfKind("account") \cup OfKind("external")
    <3>1. S \in SUBSET Subjects /\ UpsertFindings(S, {r \in S : obs[r].conclusive})
        BY <2>3 DEF OfKind, ScanAccount
    <3>2. s \in S => kind[s] \notin RowKinds
        BY DEF OfKind, RowKinds
    <3> HIDE DEF S
    <3>3. \A r \in {q \in S : obs[q].conclusive} : obs[r].conclusive \/ kind[r] = "plain"
        OBVIOUS
    <3> QED
        BY <1>1, <3>1, <3>2, <3>3, UpsertIsBacked
  <2>4. CASE Optimise
    <3>1. s \notin OfKind("optimisation")
        BY <1>1 DEF OfKind
    <3> QED
        BY <1>1, <2>4, <3>1 DEF Optimise
  <2>5. ~\E r \in Subjects, v \in {"OPEN", "SUPPRESSED"} :
            SetFindingState(r, v) \/ SetOptimizationState(r, v)
      BY <1>1, <2>1 DEF SetFindingState, SetOptimizationState, SetStatus
  <2>6. UNCHANGED finding
        \/ ScanPage \/ ScanAccount \/ Optimise
    <3>1. ASSUME ClaimSync \/ ReclaimSync PROVE UNCHANGED finding
        BY <3>1 DEF ClaimSync, ReclaimSync, BeginRun
    <3>2. ASSUME CollectResources \/ CollectPartly \/ CollectNothing \/ CollectSignals
          PROVE  UNCHANGED finding
        BY <3>2 DEF CollectResources, CollectPartly, CollectNothing, CollectSignals, Collected
    <3>3. ASSUME (\E T \in SUBSET Subjects : EvaluateAlerts(T))
                 \/ EvaluateAfterCost \/ AnalyzerThrows \/ FinishSync
          PROVE  UNCHANGED finding
        BY <3>3 DEF EvaluateAlerts, EvaluateAfterCost, AnalyzerThrows, FinishSync
    <3>4. ASSUME WorkerDies \/ GiveUpSync \/ EditRow \/ RecordProvisioned PROVE UNCHANGED finding
        BY <3>4 DEF WorkerDies, GiveUpSync, EditRow, RecordProvisioned, RewriteRow
    <3>5. ASSUME NEW r \in Subjects,
                 AccountChanges(r) \/ \E v \in {"ACKNOWLEDGED", "RESOLVED"} : SetAlertState(r, v)
          PROVE  UNCHANGED finding
        BY <3>5 DEF AccountChanges, SetAlertState
    <3> QED
        BY <1>1, <2>5, <3>1, <3>2, <3>3, <3>4, <3>5 DEF FindingsNext
  <2> QED
      BY <2>1, <2>2, <2>3, <2>4, <2>6
<1>2. FindingsInv /\ [FindingsNext]_findingsVars =>
        [\A s \in Subjects :
           LET was == finding[s].status
               is  == finding'[s].status
               own == ~(kind[s] = "resource" /\ rewritten)
           IN (kind[s] # "optimisation" /\ was # is /\ changes' = changes) =>
                 /\ kind[s] \in RowKinds => kind[s] \in confirmed
                 /\ \/ /\ was = "OPEN" /\ is = "RESOLVED"
                       /\ own /\ kind[s] # "plain" => s \in wasSafe
                    \/ /\ was \in {"NONE", "RESOLVED"} /\ is = "OPEN"
                       /\ own => s \in wasBad]_findingsVars
    BY <1>1 DEF Backed
<1> QED
    BY <1>2, FindingsInvAlways, PTL DEF FindingsSpec, StatusIsBacked

\* An evaluation of the alert rules in full makes up for the one before it that was not
\* (registerHandlers(), evaluateAlerts()), for any subjects, any limit on the findings one
\* evaluation takes and any number of runs.
THEOREM EvaluationMakesUp == FindingsSpec => MissedEvaluationIsMadeUp
<1>1. ASSUME FindingsInv, NEW T, EvaluateAlerts(T), evaluated', lapses.completed <= 1,
             lastStart # 0, NEW s \in (pending \ baseline) \cap Watched,
             finding[s].status = "OPEN"
      PROVE  alert'[s] # "NONE"
  <2>1. s \in Subjects /\ kind[s] # "optimisation" /\ finding[s].first >= lastStart
      BY <1>1 DEF FindingsInv, FindingsTyped, PendingInv, PendingIsThere, PendingOfLastJob
  <2>2. s \in Fresh(SinceLastJob) /\ T = Fresh(SinceLastJob)
      BY <1>1, <2>1 DEF Fresh, SinceLastJob, OfKind, EvaluateAlerts
  <2>3. alert'[s] = IF alert[s] = "NONE" THEN "OPEN" ELSE alert[s]
      BY <1>1, <2>1, <2>2 DEF EvaluateAlerts, EvaluateSince, Raise
  <2> QED
      BY <2>3
<1>2. FindingsInv /\ [FindingsNext]_findingsVars =>
        [\A T \in SUBSET Subjects :
           (EvaluateAlerts(T) /\ evaluated' /\ lapses.completed <= 1 /\ lastStart # 0) =>
              \A s \in (pending \ baseline) \cap Watched :
                 finding[s].status = "OPEN" => alert'[s] # "NONE"]_findingsVars
    BY <1>1
<1> QED
    BY <1>2, FindingsInvAlways, PTL DEF FindingsSpec, MissedEvaluationIsMadeUp

-----------------------------------------------------------------------------
(* Collection.  What did not move is listed if it is there, and will be    *)
(* while there are pages to come; what has settled as gone is gone; what   *)
(* could not be read was not merely throttled.                             *)

SettledWell ==
    \A t \in DOMAIN settled :
        /\ settled[t].got \in {"read", "gone", "unread", "rejected"}
        /\ settled[t].got = "gone" => t \in moved \/ t \notin present
        /\ settled[t].got = "unread" => settled[t].class # "throttled"

StayingIsListed ==
    /\ listed \subseteq present \cup moved
    /\ phase = "listing" => unlisted \subseteq present \cup moved
    /\ CASE phase = "listing" -> present \ moved \subseteq listed \cup unlisted
         [] phase = "details" -> present \ moved \subseteq listed
         [] OTHER -> TRUE

CollectionInv ==
    /\ DOMAIN settled \subseteq Things
    /\ SettledWell
    /\ StayingIsListed
    /\ ReturnsAreComplete

LEMMA CollectionInitInv == CollectionInit => CollectionInv
BY DEF CollectionInit, CollectionInv, SettledWell, StayingIsListed, ReturnsAreComplete

\* withRetry() begins again with nothing, or the collector has thrown.
LEMMA ThrowErrorKeeps ==
    ASSUME CollectionInv, NEW class, ThrowError(class)
    PROVE  CollectionInv'
<1>1. UNCHANGED <<collector, present, there, outcome>>
    BY DEF ThrowError
<1>2. CASE Fresh0
  <2>1. /\ moved' = {} /\ unlisted' = present /\ listed' = {} /\ phase' = "listing"
        /\ DOMAIN settled' = {}
      BY <1>2 DEF Fresh0
  <2>2. SettledWell' /\ StayingIsListed' /\ ReturnsAreComplete'
      BY <1>1, <2>1 DEF SettledWell, StayingIsListed, ReturnsAreComplete
  <2> QED
      BY <2>1, <2>2 DEF CollectionInv
<1>3. CASE phase' = "thrown" /\ UNCHANGED <<listed, moved, settled>>
    BY <1>1, <1>3 DEF CollectionInv, SettledWell, StayingIsListed, ReturnsAreComplete
<1> QED
    BY <1>2, <1>3 DEF ThrowError

\* The last page of the last listing delivers what stayed (paginate.ts).
LEMMA FetchPageKeeps ==
    ASSUME CollectionInv, NEW l \in open, FetchPage(l)
    PROVE  CollectionInv'
<1>1. PICK items \in SUBSET unlisted, token \in {"none", "next", "repeated"} :
        /\ (token = "none" /\ open = {l}) => (unlisted \cap present) \ moved \subseteq items
        /\ \/ ThrowError("unknown")
           \/ /\ listed' = listed \cup items
              /\ unlisted' = unlisted \ items
              /\ open' = IF token = "none" THEN open \ {l} ELSE open
              /\ phase' = IF open' = {} THEN "details" ELSE phase
              /\ UNCHANGED <<collector, present, there, inFlight, settled, tries, outcome, moved>>
    BY DEF FetchPage
<1>2. CASE ThrowError("unknown")
    BY <1>2, ThrowErrorKeeps
<1>3. CASE ~ThrowError("unknown")
  <2>1. /\ listed' = listed \cup items /\ unlisted' = unlisted \ items /\ phase = "listing"
        /\ open' = IF token = "none" THEN open \ {l} ELSE open
        /\ phase' = IF open' = {} THEN "details" ELSE phase
        /\ UNCHANGED <<collector, present, there, settled, outcome, moved>>
      BY <1>1, <1>3 DEF FetchPage
  <2>2. /\ present \ moved \subseteq listed \cup unlisted
        /\ listed' \subseteq present \cup moved /\ unlisted' \subseteq present \cup moved
      BY <2>1 DEF CollectionInv, StayingIsListed
  <2>3. CASE open' = {}
    <3>1. token = "none" /\ open = {l}
        BY <2>1, <2>3
    <3>2. present \ moved \subseteq listed' /\ phase' = "details"
        BY <1>1, <2>1, <2>2, <2>3, <3>1
    <3>3. StayingIsListed' /\ ReturnsAreComplete'
        BY <2>1, <2>2, <3>2 DEF StayingIsListed, ReturnsAreComplete
    <3> QED
        BY <2>1, <3>3 DEF CollectionInv, SettledWell
  <2>4. CASE open' # {}
    <3>1. present \ moved \subseteq listed' \cup unlisted' /\ phase' = "listing"
        BY <2>1, <2>2, <2>4
    <3>2. StayingIsListed' /\ ReturnsAreComplete'
        BY <2>1, <2>2, <3>1 DEF StayingIsListed, ReturnsAreComplete
    <3> QED
        BY <2>1, <3>2 DEF CollectionInv, SettledWell
  <2> QED
      BY <2>3, <2>4
<1> QED
    BY <1>2, <1>3

LEMMA SettleKeeps ==
    ASSUME CollectionInv, NEW t \in Things, NEW result, SettleDetails(t, result),
           result.got \in {"read", "gone", "unread", "rejected"},
           result.got = "gone" => t \notin present,
           result.got = "unread" => result.class # "throttled", phase = "details"
    PROVE  CollectionInv'
<1>1. /\ DOMAIN settled' = DOMAIN settled \cup {t}
      /\ \A u \in DOMAIN settled' : settled'[u] = IF u = t THEN result ELSE settled[u]
      /\ UNCHANGED <<collector, present, there, phase, listed, unlisted, outcome, moved>>
    BY DEF SettleDetails
<1>2. SettledWell'
    BY <1>1 DEF CollectionInv, SettledWell
<1>3. StayingIsListed' /\ ReturnsAreComplete' /\ DOMAIN settled' \subseteq Things
    BY <1>1 DEF CollectionInv, StayingIsListed, ReturnsAreComplete
<1> QED
    BY <1>2, <1>3 DEF CollectionInv

\* observe() lets throttling go up to withRetry (collectors, errors.ts).
LEMMA DetailsFailKeeps ==
    ASSUME CollectionInv, NEW t \in Things, DetailsFail(t)
    PROVE  CollectionInv'
<1>1. PICK k \in Sh.details, e \in AwsErrors :
        LET seen == IF k \in {"must", "batch"} THEN "throws" ELSE ObserveError(e, k = "absent")
        IN SettleDetails(t, [got   |-> IF seen = "throws" THEN "rejected" ELSE seen,
                             class |-> ClassOf(e)])
    BY DEF DetailsFail
<1> DEFINE seen == IF k \in {"must", "batch"} THEN "throws" ELSE ObserveError(e, k = "absent")
           result == [got |-> IF seen = "throws" THEN "rejected" ELSE seen, class |-> ClassOf(e)]
<1>2. seen \in {"throws", "read", "unread"} /\ (seen = "unread" => ClassOf(e) # "throttled")
    BY DEF ObserveError
<1>3. result.got \in {"read", "unread", "rejected"} /\ (result.got = "unread" => result.class # "throttled")
    BY <1>2
<1>4. SettleDetails(t, result) /\ phase = "details"
    BY <1>1 DEF DetailsFail
<1> HIDE DEF result
<1> QED
    BY <1>3, <1>4, SettleKeeps

\* A collector returns only when no resource was lost to a failure (allOrThrow()).
LEMMA ReturnKeeps ==
    ASSUME CollectionInv, Return
    PROVE  CollectionInv'
<1>1. /\ FailureOf = {} /\ phase = "details" /\ phase' = "returned"
      /\ DOMAIN outcome' = {u \in Wanted : u \in DOMAIN settled => settled[u].got # "gone"}
      /\ \A t \in DOMAIN outcome' : outcome'[t] = IF t \in DOMAIN settled /\ settled[t].got # "read"
                                                  THEN {settled[t].class} ELSE {}
      /\ UNCHANGED <<collector, present, there, listed, unlisted, settled, moved>>
    BY DEF Return
<1>2. /\ present \ moved \subseteq listed /\ listed \subseteq present \cup moved
      /\ DOMAIN settled \subseteq Things /\ SettledWell
    BY <1>1 DEF CollectionInv, StayingIsListed
<1>3. MayReturn(Visible, moved, DOMAIN outcome')
  <2>1. ASSUME NEW t \in Visible, t \notin moved
        PROVE  t \in DOMAIN outcome'
    <3>1. t \in Wanted /\ t \in present
        BY <1>2, <2>1 DEF Visible, Wanted
    <3>2. t \in DOMAIN settled => settled[t].got # "gone"
        BY <1>2, <2>1, <3>1 DEF SettledWell
    <3> QED
        BY <1>1, <3>1, <3>2
  <2>2. ASSUME NEW t \in DOMAIN outcome', t \notin moved
        PROVE  t \in Visible
      BY <1>1, <1>2, <2>2 DEF Wanted, Visible
  <2> QED
      BY <2>1, <2>2 DEF MayReturn
<1>4. ASSUME NEW t \in Rejected
      PROVE  settled[t].class # "throttled"
  <2>1. settled[t].class \in {settled[u].class : u \in Rejected}
      BY <1>4
  <2>2. CASE Sh.settle = "all"
      BY <1>1, <2>1, <2>2 DEF FailureOf
  <2>3. CASE Sh.settle # "all" /\ Sh.settle = "buckets" /\ Rejected # {} /\ Rejected = Wanted
      BY <1>1, <2>1, <2>3 DEF FailureOf
  <2>4. CASE Sh.settle # "all" /\ ~(Sh.settle = "buckets" /\ Rejected # {} /\ Rejected = Wanted)
    <3>1. FailureOf = {settled[u].class : u \in Rejected} \cap {"throttled"}
        BY <2>4 DEF FailureOf
    <3> QED
        BY <1>1, <2>1, <3>1
  <2> QED
      BY <2>2, <2>3, <2>4
<1>5. ASSUME NEW t \in DOMAIN outcome', "throttled" \in outcome'[t]
      PROVE  FALSE
  <2>1. t \in DOMAIN settled /\ settled[t].got \notin {"read", "gone"} /\ settled[t].class = "throttled"
      BY <1>1, <1>5
  <2>2. settled[t].got = "rejected"
      BY <1>2, <2>1 DEF SettledWell
  <2>3. t \in Rejected
      BY <2>1, <2>2 DEF Rejected
  <2> QED
      BY <1>4, <2>1, <2>3
<1>6. ReturnsAreComplete'
    BY <1>1, <1>3, <1>5 DEF ReturnsAreComplete, MayReturn, Visible, Sh
<1> QED
    BY <1>1, <1>2, <1>6 DEF CollectionInv, StayingIsListed, SettledWell

\* A resource that is removed or created meanwhile has moved.
LEMMA MoveKeeps ==
    ASSUME CollectionInv, NEW t \in Things, Vanish(t) \/ Appear(t)
    PROVE  CollectionInv'
<1>1. /\ moved' = moved \cup {t} /\ phase \in {"listing", "details"}
      /\ present' \in {present \ {t}, present \cup {t}}
      /\ unlisted' \in {unlisted, unlisted \cup ({t} \ listed)}
      /\ UNCHANGED <<collector, phase, listed, settled, outcome>>
    BY DEF Vanish, Appear, Move
<1>2. StayingIsListed' /\ ReturnsAreComplete'
    BY <1>1 DEF CollectionInv, StayingIsListed, ReturnsAreComplete
<1>3. SettledWell' /\ DOMAIN settled' \subseteq Things
    BY <1>1 DEF CollectionInv, SettledWell
<1> QED
    BY <1>2, <1>3 DEF CollectionInv

LEMMA CollectionStepInv == CollectionInv /\ [CollectionNext]_collectionVars => CollectionInv'
<1> SUFFICES ASSUME CollectionInv, [CollectionNext]_collectionVars
             PROVE  CollectionInv'
    OBVIOUS
<1>1. ASSUME NEW l \in open, PageFails(l)
      PROVE  CollectionInv'
    BY <1>1, ThrowErrorKeeps DEF PageFails
<1>2. ASSUME NEW t \in Things, StartDetails(t)
      PROVE  CollectionInv'
    BY <1>2 DEF StartDetails, CollectionInv, SettledWell, StayingIsListed, ReturnsAreComplete
<1>3. ASSUME NEW t \in Things, ReadDetails(t)
      PROVE  CollectionInv'
  <2> DEFINE result == [got |-> "read", class |-> "none"]
  <2>1. SettleDetails(t, result) /\ phase = "details" /\ result.got = "read"
      BY <1>3 DEF ReadDetails
  <2> HIDE DEF result
  <2> QED
      BY <2>1, SettleKeeps
<1>4. ASSUME NEW t \in Things, LeaveOut(t)
      PROVE  CollectionInv'
  <2> DEFINE result == [got |-> "gone", class |-> "none"]
  <2>1. SettleDetails(t, result) /\ phase = "details" /\ result.got = "gone" /\ t \notin present
      BY <1>4 DEF LeaveOut
  <2> HIDE DEF result
  <2> QED
      BY <2>1, SettleKeeps
<1>5. ASSUME ThrowFailure
      PROVE  CollectionInv'
    BY <1>5, ThrowErrorKeeps DEF ThrowFailure
<1>6. CASE UNCHANGED collectionVars
    BY <1>6 DEF collectionVars, CollectionInv, SettledWell, StayingIsListed,
                ReturnsAreComplete, MayReturn, Visible, Sh
<1> QED
    BY <1>1, <1>2, <1>3, <1>4, <1>5, <1>6, FetchPageKeeps, DetailsFailKeeps, ReturnKeeps,
       MoveKeeps DEF CollectionNext

\* What an attempt promises of the time since it began holds of the longer time since the
\* run that asked for it began (runTask()).
LEMMA PromiseOfAnAttempt ==
    ASSUME NEW existing, NEW since, NEW longer, NEW returned,
           since \subseteq longer, MayReturn(existing, since, returned)
    PROVE  MayReturn(existing, longer, returned)
BY DEF MayReturn

\* What a collector returns is what InventorySync relies on: every resource that was
\* there throughout and none that never was; and none of it is unknown because it was
\* merely throttled (allOrThrow(), mapSettledLimit(), withRetry(), collectors/), for any
\* resources, errors, limits and any of the collectors.
THEOREM ReturnsStayComplete == CollectionSpec => []ReturnsAreComplete
<1>1. CollectionInv => ReturnsAreComplete
    BY DEF CollectionInv
<1> QED
    BY <1>1, CollectionInitInv, CollectionStepInv, PTL DEF CollectionSpec

-----------------------------------------------------------------------------
(* FindingRules.  What is produced from a sample x and from the same       *)
(* sample with more read of it, y.                                         *)

AccountChecks == {"summary", "passwordPolicy", "keyAges", "guardDuty"}

\* Reading one more signal of the account takes no finding away, and adds none
\* whose check had run.
LEMMA AccountVerdicts ==
    ASSUME NEW x, NEW y, \A f \in AccountChecks : y[f] = x[f] \/ ~x[f].ok,
           y.trails = x.trails \/ ~LogStatusKnown(x)
    PROVE  /\ AccountFindings(x) \subseteq AccountFindings(y)
           /\ \A d \in AccountFindings(y) \ AccountFindings(x) : d[1] \notin RanChecks(x)
<1> DEFINE Mfa(s) == s.summary.ok /\ ~ValueOr(s.summary, [mfa |-> TRUE]).mfa
           Root(s) == s.summary.ok /\ ValueOr(s.summary, [keys |-> FALSE]).keys
           Weak(s) == Is(s.passwordPolicy, FALSE)
           Old(s) == \E age \in ValueOr(s.keyAges, {}) : age > 90
           Dark(s) == LogStatusKnown(s) /\ ~\E t \in s.trails.value : t.multiRegion /\ Is(t.logging, TRUE)
           Duty(s) == Is(s.guardDuty, FALSE)
           Has(s, d) == \/ Mfa(s) /\ d = <<"IAM-ROOT-MFA", <<>>>>
                        \/ Root(s) /\ d = <<"IAM-ROOT-KEYS", <<>>>>
                        \/ Weak(s) /\ d = <<"IAM-PASSWORD-POLICY", <<>>>>
                        \/ Old(s) /\ d = <<"IAM-OLD-ACCESS-KEY", <<>>>>
                        \/ Dark(s) /\ d = <<"CLOUDTRAIL", <<>>>>
                        \/ Duty(s) /\ d = <<"GUARDDUTY-DISABLED", <<>>>>
<1>1. \A d : (d \in AccountFindings(x) <=> Has(x, d)) /\ (d \in AccountFindings(y) <=> Has(y, d))
    BY DEF AccountFindings, When
<1>2. /\ y.summary = x.summary \/ ~x.summary.ok
      /\ y.passwordPolicy = x.passwordPolicy \/ ~x.passwordPolicy.ok
      /\ y.keyAges = x.keyAges \/ ~x.keyAges.ok
      /\ y.guardDuty = x.guardDuty \/ ~x.guardDuty.ok
    BY DEF AccountChecks
<1>3. (Mfa(x) => Mfa(y)) /\ (Mfa(y) /\ ~Mfa(x) => ~x.summary.ok)
    BY <1>2
<1>4. (Root(x) => Root(y)) /\ (Root(y) /\ ~Root(x) => ~x.summary.ok)
    BY <1>2
<1>5. (Weak(x) => Weak(y)) /\ (Weak(y) /\ ~Weak(x) => ~x.passwordPolicy.ok)
    BY <1>2 DEF Is
<1>6. (Old(x) => Old(y)) /\ (Old(y) /\ ~Old(x) => ~x.keyAges.ok)
    BY <1>2 DEF ValueOr
<1>7. (Dark(x) => Dark(y)) /\ (Dark(y) /\ ~Dark(x) => ~LogStatusKnown(x))
    BY DEF LogStatusKnown
<1>8. (Duty(x) => Duty(y)) /\ (Duty(y) /\ ~Duty(x) => ~x.guardDuty.ok)
    BY <1>2 DEF Is
<1> HIDE DEF Mfa, Root, Weak, Old, Dark, Duty
<1>9. AccountFindings(x) \subseteq AccountFindings(y)
    BY <1>1, <1>3, <1>4, <1>5, <1>6, <1>7, <1>8
<1>10. ASSUME NEW d \in AccountFindings(y) \ AccountFindings(x)
       PROVE  d[1] \notin RanChecks(x)
  <2>1. Has(y, d) /\ ~Has(x, d)
      BY <1>1, <1>10
  <2>2. \/ d[1] \in {"IAM-ROOT-MFA", "IAM-ROOT-KEYS"} /\ ~x.summary.ok
        \/ d[1] = "IAM-PASSWORD-POLICY" /\ ~x.passwordPolicy.ok
        \/ d[1] = "IAM-OLD-ACCESS-KEY" /\ ~x.keyAges.ok
        \/ d[1] = "CLOUDTRAIL" /\ ~LogStatusKnown(x)
        \/ d[1] = "GUARDDUTY-DISABLED" /\ ~x.guardDuty.ok
      BY <2>1, <1>3, <1>4, <1>5, <1>6, <1>7, <1>8
  <2> QED
      BY <2>2 DEF RanChecks
<1> QED
    BY <1>9, <1>10

\* One more observation of a resource was read.
OneMoreRead(x, y, field) ==
    /\ field \in ObservedFields(x) /\ ~x[field].ok
    /\ \A f \in DOMAIN x \ {field} : y[f] = x[f]

\* What a bucket, a table or anything else was found to have stays found.
LEMMA BucketVerdicts ==
    ASSUME NEW x, NEW y, NEW field, OneMoreRead(x, y, field), WellFormed(x), x.type = "bucket"
    PROVE  BucketFindings(x) \subseteq BucketFindings(y)
<1>1. ReadBy("bucket") \subseteq DOMAIN x
    BY DEF WellFormed
<1>2. /\ y.publicAccessBlock = x.publicAccessBlock \/ field = "publicAccessBlock"
      /\ y.accountBlock = x.accountBlock \/ field = "accountBlock"
      /\ y.policyPublic = x.policyPublic \/ field = "policyPublic"
      /\ y.aclPublic = x.aclPublic \/ field = "aclPublic"
      /\ y.versioning = x.versioning \/ field = "versioning"
      /\ y.logging = x.logging \/ field = "logging"
    BY <1>1 DEF OneMoreRead, ReadBy
<1>3. BucketExposure(x) = "public" => BucketExposure(y) = "public"
    BY <1>2 DEF OneMoreRead, BucketExposure, Is, ValueOr
<1>4. BucketExposure(x) = "not-blocked" => BucketExposure(y) = "not-blocked"
    BY <1>2 DEF OneMoreRead, BucketExposure, Is, ValueOr
<1>5. x.versioning.ok /\ ~Is(x.versioning, TRUE) => y.versioning.ok /\ ~Is(y.versioning, TRUE)
    BY <1>2 DEF OneMoreRead, Is
<1>6. Is(x.logging, FALSE) => Is(y.logging, FALSE)
    BY <1>2 DEF OneMoreRead, Is
<1> QED
    BY <1>3, <1>4, <1>5, <1>6 DEF BucketFindings, When

\* Of other types only a table has an observation that a security rule reads.
LEMMA ResourceVerdicts ==
    ASSUME NEW x, NEW y, NEW field, OneMoreRead(x, y, field), WellFormed(x), x.type # "account",
           y.type = x.type
    PROVE  /\ ResourceFindings(x) \subseteq ResourceFindings(y)
           /\ field \notin KeptUnknown => ResourceFindings(y) = ResourceFindings(x)
<1>1. field \in KeptUnknown \cup {"summary", "passwordPolicy", "keyAges", "trails", "guardDuty",
                             "stoppedDays", "ageDays", "cpu"}
    BY DEF OneMoreRead, ObservedFields, KeptUnknown
<1>2. \A f \in ReadBy(x.type) : f # field => y[f] = x[f]
    BY DEF OneMoreRead, WellFormed
<1>3. CASE x.type = "bucket"
  <2>1. field \notin KeptUnknown => BucketFindings(y) = BucketFindings(x)
    <3> SUFFICES ASSUME field \notin KeptUnknown PROVE BucketFindings(y) = BucketFindings(x)
        OBVIOUS
    <3>1. /\ y.publicAccessBlock = x.publicAccessBlock /\ y.accountBlock = x.accountBlock
          /\ y.policyPublic = x.policyPublic /\ y.aclPublic = x.aclPublic
          /\ y.versioning = x.versioning /\ y.logging = x.logging
        BY <1>2, <1>3 DEF KeptUnknown, ReadBy
    <3> QED
        BY <3>1 DEF BucketFindings, BucketExposure
  <2> QED
      BY <1>3, <2>1, BucketVerdicts DEF ResourceFindings
<1>4. CASE x.type = "table"
  <2>1. y.recovery = x.recovery \/ field = "recovery"
      BY <1>2, <1>4 DEF ReadBy
  <2> QED
      BY <1>4, <2>1 DEF ResourceFindings, OneMoreRead, Is, When, KeptUnknown
<1>5. CASE x.type \notin {"bucket", "table"}
  <2>1. \A f \in ReadBy(x.type) \cap {"ingress", "encrypted", "public", "backupDays", "world",
                                      "scanOnPush", "critical", "deprecated", "encryption"} : y[f] = x[f]
      BY <1>1, <1>2 DEF KeptUnknown
  <2>2. CASE x.type = "group"
      BY <2>1, <2>2 DEF ReadBy, ResourceFindings
  <2>3. CASE x.type \in {"volume", "snapshot", "cluster"}
      BY <2>1, <2>3 DEF ReadBy, ResourceFindings
  <2>4. CASE x.type = "database"
      BY <2>1, <2>4 DEF ReadBy, ResourceFindings
  <2>5. CASE x.type = "kubernetes"
      BY <2>1, <2>5 DEF ReadBy, ResourceFindings
  <2>6. CASE x.type = "repository"
      BY <2>1, <2>6 DEF ReadBy, ResourceFindings
  <2>7. CASE x.type \in {"function", "queue"}
      BY <2>1, <2>7 DEF ReadBy, ResourceFindings
  <2>8. CASE x.type \notin {"group", "volume", "snapshot", "cluster", "database", "kubernetes",
                           "repository", "function", "queue"}
      BY <1>5, <2>8 DEF ResourceFindings
  <2> QED
      BY <2>2, <2>3, <2>4, <2>5, <2>6, <2>7, <2>8
<1> QED
    BY <1>3, <1>4, <1>5

AdviceRules == {"EBS-UNATTACHED", "EBS-GP2-TO-GP3", "SNAPSHOT-OLD", "EIP-UNASSOCIATED",
                "EC2-STOPPED-LONG", "EC2-IDLE", "EC2-UNDERUTILIZED", "S3-NO-LIFECYCLE",
                "TAGS-MISSING"}

\* Advice stands, and none of it is a security finding.
LEMMA AdviceStands ==
    ASSUME NEW x, NEW y, NEW field, OneMoreRead(x, y, field), WellFormed(x), x.type # "account",
           y.type = x.type
    PROVE  /\ Advice(x) \subseteq Advice(y)
           /\ \A d \in Advice(y) : d[1] \in AdviceRules
<1>1. field \notin {"attached", "state", "gp2", "associated", "tagged"}
    BY DEF OneMoreRead, ObservedFields, KeptUnknown
<1>2. \A f \in ReadBy(x.type) : f # field => y[f] = x[f]
    BY DEF OneMoreRead, WellFormed
<1>3. \A d \in Advice(y) : d[1] \in AdviceRules
  <2>1. ASSUME NEW c, NEW rule \in AdviceRules, NEW d \in When(c, rule)
        PROVE  d[1] \in AdviceRules
      BY <2>1 DEF When
  <2>2. \A d \in InstanceAdvice(y) : d[1] \in AdviceRules
      BY <2>1 DEF InstanceAdvice, AdviceRules
  <2> DEFINE Good(S) == \A d \in S : d[1] \in AdviceRules
             Tags == When(y.type \in RequiredTagTypes /\ ~y.tagged, "TAGS-MISSING")
  <2>3. Good(Tags)
      BY <2>1 DEF AdviceRules
  <2>4. Good(When(~y.attached /\ y.state = "available", "EBS-UNATTACHED"))
        /\ Good(When(y.gp2, "EBS-GP2-TO-GP3"))
      BY DEF When, AdviceRules
  <2>5. Good(When(ValueOr(y.ageDays, 0) >= 365, "SNAPSHOT-OLD"))
      BY DEF When, AdviceRules
  <2>6. Good(When(~y.associated, "EIP-UNASSOCIATED"))
        /\ Good(When(Is(y.lifecycleRules, 0), "S3-NO-LIFECYCLE"))
      BY DEF When, AdviceRules
  <2> HIDE DEF Tags
  <2>7. CASE y.type = "volume"
      BY <2>3, <2>4, <2>7 DEF Advice, Tags
  <2>8. CASE y.type = "snapshot"
      BY <2>3, <2>5, <2>8 DEF Advice, Tags
  <2>9. CASE y.type = "address"
      BY <2>3, <2>6, <2>9 DEF Advice, Tags
  <2>10. CASE y.type = "instance"
      BY <2>2, <2>3, <2>10 DEF Advice, Tags
  <2>11. CASE y.type = "bucket"
      BY <2>3, <2>6, <2>11 DEF Advice, Tags
  <2>12. CASE y.type \notin {"volume", "snapshot", "address", "instance", "bucket"}
      BY <2>3, <2>12 DEF Advice, Tags
  <2> QED
      BY <2>7, <2>8, <2>9, <2>10, <2>11, <2>12
<1>4. x.type \in RequiredTagTypes => y.tagged = x.tagged
  <2>1. \A type \in RequiredTagTypes : "tagged" \in ReadBy(type)
      BY DEF RequiredTagTypes, ReadBy
  <2> QED
      BY <1>1, <1>2, <2>1
<1>5. CASE x.type = "volume"
  <2>1. y.attached = x.attached /\ y.state = x.state /\ y.gp2 = x.gp2
      BY <1>1, <1>2, <1>5 DEF ReadBy
  <2> QED
      BY <1>3, <1>4, <1>5, <2>1 DEF Advice
<1>6. CASE x.type = "snapshot"
  <2>1. y.ageDays = x.ageDays \/ ~x.ageDays.ok
      BY <1>2, <1>6 DEF ReadBy, OneMoreRead
  <2>2. ValueOr(x.ageDays, 0) >= 365 => ValueOr(y.ageDays, 0) >= 365
      BY <2>1 DEF ValueOr
  <2> DEFINE Old(s) == When(ValueOr(s.ageDays, 0) >= 365, "SNAPSHOT-OLD")
  <2>3. Old(x) \subseteq Old(y)
      BY <2>2 DEF When
  <2>4. Advice(x) = Old(x) /\ Advice(y) = Old(y)
      BY <1>6 DEF Advice, RequiredTagTypes, When
  <2> QED
      BY <1>3, <2>3, <2>4
<1>7. CASE x.type = "address"
  <2>1. y.associated = x.associated
      BY <1>1, <1>2, <1>7 DEF ReadBy
  <2> QED
      BY <1>3, <1>4, <1>7, <2>1 DEF Advice
<1>8. CASE x.type = "instance"
  <2>1. /\ y.state = x.state
        /\ y.stoppedDays = x.stoppedDays \/ ~x.stoppedDays.ok
        /\ y.cpu = x.cpu \/ ~x.cpu.ok
      BY <1>1, <1>2, <1>8 DEF ReadBy, OneMoreRead
  <2>2. InstanceAdvice(x) \subseteq InstanceAdvice(y)
      BY <2>1 DEF InstanceAdvice, ValueOr, When
  <2> QED
      BY <1>3, <1>4, <1>8, <2>2 DEF Advice
<1>9. CASE x.type = "bucket"
  <2>1. y.lifecycleRules = x.lifecycleRules \/ ~x.lifecycleRules.ok
      BY <1>2, <1>9 DEF ReadBy, OneMoreRead
  <2> QED
      BY <1>3, <1>4, <1>9, <2>1 DEF Advice, Is, When
<1>10. CASE x.type \notin {"volume", "snapshot", "address", "instance", "bucket"}
    BY <1>3, <1>4, <1>10 DEF Advice
<1> QED
    BY <1>5, <1>6, <1>7, <1>8, <1>9, <1>10

\* A step of the rules reads one more observation, or one more trail of the account.
LEMMA RulesStep ==
    ASSUME WellFormed(sample), RulesNext
    PROVE  /\ WellFormed(sample')
           /\ Drafts(sample) \subseteq Drafts(sample')
           /\ \A d \in Drafts(sample') \ Drafts(sample) : d[1] \notin Conclusive(sample)
<1>1. ASSUME NEW field \in ObservedFields(sample), Learn(field)
      PROVE  /\ WellFormed(sample') /\ sample'.type = sample.type
             /\ OneMoreRead(sample, sample', field)
  <2>1. PICK v : sample' = [sample EXCEPT ![field] = Known(v)]
      BY <1>1 DEF Learn
  <2>2. /\ field \in DOMAIN sample /\ ~sample[field].ok
        /\ DOMAIN sample' = DOMAIN sample
        /\ \A f \in DOMAIN sample \ {field} : sample'[f] = sample[f]
      BY <1>1, <2>1 DEF Learn, ObservedFields
  <2>3. field # "type"
      BY <1>1 DEF ObservedFields, KeptUnknown
  <2>4. sample'.type = sample.type
      BY <2>2, <2>3 DEF WellFormed
  <2> QED
      BY <1>1, <2>2, <2>4 DEF WellFormed, OneMoreRead
<1>2. ASSUME NEW field \in ObservedFields(sample), Learn(field), sample.type = "account"
      PROVE  /\ Drafts(sample) \subseteq Drafts(sample')
             /\ \A d \in Drafts(sample') \ Drafts(sample) : d[1] \notin Conclusive(sample)
  <2>1. ReadBy("account") \subseteq DOMAIN sample /\ OneMoreRead(sample, sample', field)
        /\ sample'.type = "account"
      BY <1>1, <1>2 DEF WellFormed
  <2>2. \A f \in AccountChecks : sample'[f] = sample[f] \/ ~sample[f].ok
      BY <2>1 DEF OneMoreRead, AccountChecks, ReadBy
  <2>3. sample'.trails = sample.trails \/ ~LogStatusKnown(sample)
      BY <2>1 DEF OneMoreRead, ReadBy, LogStatusKnown
  <2> QED
      BY <1>2, <2>1, <2>2, <2>3, AccountVerdicts DEF Drafts, Conclusive
<1>3. ASSUME NEW field \in ObservedFields(sample), Learn(field), sample.type # "account"
      PROVE  /\ Drafts(sample) \subseteq Drafts(sample')
             /\ \A d \in Drafts(sample') \ Drafts(sample) : d[1] \notin Conclusive(sample)
  <2>1. OneMoreRead(sample, sample', field) /\ sample'.type = sample.type
      BY <1>1, <1>3
  <2>2. /\ ResourceFindings(sample) \subseteq ResourceFindings(sample')
        /\ field \notin KeptUnknown => ResourceFindings(sample') = ResourceFindings(sample)
      BY <1>3, <2>1, ResourceVerdicts
  <2>3. /\ Advice(sample) \subseteq Advice(sample')
        /\ \A d \in Advice(sample') : d[1] \in AdviceRules
      BY <1>3, <2>1, AdviceStands
  <2>4. /\ Drafts(sample) = ResourceFindings(sample) \cup Advice(sample)
        /\ Drafts(sample') = ResourceFindings(sample') \cup Advice(sample')
      BY <1>3, <2>1 DEF Drafts
  <2>5. CASE field \in KeptUnknown
    <3>1. HasUnknownObservation(sample)
        BY <2>1, <2>5 DEF OneMoreRead, ObservedFields, HasUnknownObservation
    <3>2. Conclusive(sample) = {}
        BY <1>3, <3>1 DEF Conclusive
    <3> QED
        BY <2>2, <2>3, <2>4, <3>2
  <2>6. CASE field \notin KeptUnknown
    <3>1. Conclusive(sample) \subseteq SecurityRules /\ AdviceRules \cap SecurityRules = {}
        BY <1>3 DEF Conclusive, AdviceRules, SecurityRules
    <3>2. \A d \in Drafts(sample') \ Drafts(sample) : d[1] \in AdviceRules
        BY <2>2, <2>3, <2>4, <2>6
    <3> QED
        BY <2>2, <2>3, <2>4, <3>1, <3>2
  <2> QED
      BY <2>5, <2>6
<1>4. ASSUME sample.type = "account", sample.trails.ok, NEW t \in sample.trails.value, LearnTrail(t)
      PROVE  /\ WellFormed(sample')
             /\ Drafts(sample) \subseteq Drafts(sample')
             /\ \A d \in Drafts(sample') \ Drafts(sample) : d[1] \notin Conclusive(sample)
  <2>1. PICK w : sample' = [sample EXCEPT !.trails = w]
      BY <1>4 DEF LearnTrail
  <2>2. ReadBy("account") \subseteq DOMAIN sample /\ "type" \in DOMAIN sample
      BY <1>4 DEF WellFormed
  <2>3. DOMAIN sample' = DOMAIN sample /\ \A f \in DOMAIN sample \ {"trails"} : sample'[f] = sample[f]
      BY <2>1
  <2>4. sample'.type = "account" /\ WellFormed(sample')
      BY <1>4, <2>2, <2>3 DEF WellFormed
  <2>5. \A f \in AccountChecks : sample'[f] = sample[f]
      BY <2>2, <2>3 DEF AccountChecks, ReadBy
  <2>6. ~LogStatusKnown(sample)
      BY <1>4 DEF LearnTrail, LogStatusKnown
  <2> QED
      BY <1>4, <2>4, <2>5, <2>6, AccountVerdicts DEF Drafts, Conclusive
<1> QED
    BY <1>1, <1>2, <1>3, <1>4 DEF RulesNext

\* Whatever an attribute that the row keeps as unknown turns out to be, every finding
\* stands and none appears that the scan would have resolved (security-rules.ts,
\* optimization-rules.ts, s3-posture.ts, security-sync.ts), for any samples that have the
\* attributes the rules read.  Nothing is said of tags, image scans and the encryption of
\* queues that could not be read: their rows keep plain values, which are taken as they are.
THEOREM VerdictsStand == RulesSpec => VerdictsSurviveUnknowns
<1>1. RulesInit => WellFormed(sample)
    BY SamplesAssumption DEF RulesInit
<1>2. WellFormed(sample) /\ [RulesNext]_sample => WellFormed(sample)'
    BY RulesStep
<1>3. WellFormed(sample) /\ [RulesNext]_sample =>
        [/\ Drafts(sample) \subseteq Drafts(sample')
         /\ \A d \in Drafts(sample') \ Drafts(sample) : d[1] \notin Conclusive(sample)]_sample
    BY RulesStep
<1> QED
    BY <1>1, <1>2, <1>3, PTL DEF RulesSpec, VerdictsSurviveUnknowns
=============================================================================
