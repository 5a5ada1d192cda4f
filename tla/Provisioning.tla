---------------------------- MODULE Provisioning ----------------------------
(***************************************************************************)
(* Provisioning plans (server/aws/provisioning): a reviewed plan is        *)
(* reserved, checked, sent to AWS once, verified and recorded; what is     *)
(* left ambiguous by a lost answer, a crash or a failed write waits for an *)
(* administrator's reconciliation.  AWS is what the adapters see of it: a  *)
(* create request takes effect at most once, while the session it was      *)
(* signed with lives, and shows in reads some time later.                  *)
(*                                                                         *)
(* At most one applyPlan() call of a plan gets past its reservation, so    *)
(* the call is kept per plan.  Ages count ticks and stop at WaitTicks, the *)
(* longest age the code compares with.                                     *)
(***************************************************************************)
EXTENDS Integers, FiniteSets

CONSTANTS Plans,         \* provisioning plans, one resource each
          Accounts,
          AccountOf,     \* the account of a plan
          Admins,        \* reconcilePlan() calls that may be in flight at once
          Diligent,      \* assumed: those of an administrator who does not give up
          NoPlan,
          Regions, RegionOf,   \* the region of a plan
          MaxInstances,  \* the workspace's instance limit
          ExpiryTicks,   \* plan expiry: 10 minutes
          SessionTicks,  \* creation session: 15 minutes
          WaitTicks,     \* reconciliation wait: 30 minutes
          VisibleTicks,  \* assumed: AWS shows a new resource to reads within this time
          LagTicks,      \* assumed: an answer of AWS is acted upon within this time
          RegionSets,    \* bound: what the allowlist of an account may leave of its regions
          Removable,     \* bound: plans whose resource its owner may remove again
          Disconnectable \* bound: accounts that may be disconnected

ASSUME ProvisioningAssumption ==
  /\ AccountOf \in [Plans -> Accounts] /\ RegionOf \in [Plans -> Regions]
  /\ RegionSets \subseteq SUBSET Regions
  /\ NoPlan \notin Plans
  /\ IsFiniteSet(Plans)
  /\ MaxInstances \in Nat
  /\ ExpiryTicks \in Nat /\ SessionTicks \in Nat /\ VisibleTicks \in Nat /\ LagTicks \in Nat
  /\ WaitTicks \in Nat
  /\ ExpiryTicks + SessionTicks + VisibleTicks + LagTicks <= WaitTicks
  /\ Diligent \subseteq Admins /\ Removable \subseteq Plans /\ Disconnectable \subseteq Accounts

VARIABLES
  \* columns of provisioning_plans: createdAt and updatedAt as ages
  status, resourceId, age, idle,
  pc,            \* where the applyPlan() call of a plan is
  session,       \* what is left of its creation session
  aws,           \* the plan's resource in the account
  hidden,        \* for how long it may still be missing from reads, 0 once it shows
  rec,           \* reconcilePlan() calls
  account,       \* of each account: connected, being disconnected, gone
  effective,     \* its regions: those enabled in AWS that its allowlist has, if it has any
  regions,       \* what an applyPlan() call has read of them, until it has counted
  counted        \* history: the regions that every call that found room has counted

planVars     == <<status, resourceId, age, idle>>
resourceVars == <<aws, hidden>>
regionVars   == <<effective, regions, counted>>
vars         == <<planVars, pc, session, resourceVars, rec, account, regionVars>>

Reserved == {"APPLYING", "UNKNOWN"}     \* what the partial unique index covers
Statuses == {"none", "PLANNED", "SUCCEEDED", "FAILED"} \cup Reserved
Existing == {"partial", "ready"}

\* Before and after "mutating = true".
Checking == {"reserved", "preflight", "counted", "rejecting"}
Mutating == {"sending", "created", "configuring", "verifying", "finishing", "ambiguous"}
CallPCs  == {"idle", "loaded", "over"} \cup Checking \cup Mutating

NotReconciling == [pc |-> "idle", plan |-> NoPlan, known |-> FALSE, lag |-> 0]
Reconciling ==
  [pc : {"looking", "absent", "verifying", "finishing"}, plan : Plans, known : BOOLEAN,
   lag : 0..LagTicks]

RegionTypes ==
  /\ effective \in [Accounts -> SUBSET Regions] /\ counted \in [Accounts -> SUBSET Regions]
  /\ regions \in [Plans -> SUBSET Regions]

\* The rows, the calls and the resources have their types; a resource that does not
\* exist is not waiting to show, and an identifier is saved of one that was created.
TypeOK ==
  /\ status \in [Plans -> Statuses]
  /\ resourceId \in [Plans -> BOOLEAN]
  /\ age \in [Plans -> 0..WaitTicks] /\ idle \in [Plans -> 0..WaitTicks]
  /\ pc \in [Plans -> CallPCs]
  /\ session \in [Plans -> 0..SessionTicks]
  /\ aws \in [Plans -> {"absent", "requested", "removed"} \cup Existing]
  /\ hidden \in [Plans -> 0..VisibleTicks]
  /\ rec \in [Admins -> Reconciling \cup {NotReconciling}]
  /\ account \in [Accounts -> {"connected", "disconnecting", "gone"}]
  /\ RegionTypes
  /\ \A p \in Plans : aws[p] \notin Existing => hidden[p] = 0
  /\ \A p \in Plans : resourceId[p] => aws[p] \in Existing \cup {"removed"}

Init ==
  /\ status = [p \in Plans |-> "none"]
  /\ resourceId = [p \in Plans |-> FALSE]
  /\ age = [p \in Plans |-> 0] /\ idle = [p \in Plans |-> 0]
  /\ pc = [p \in Plans |-> "idle"]
  /\ session = [p \in Plans |-> 0]
  /\ aws = [p \in Plans |-> "absent"]
  /\ hidden = [p \in Plans |-> 0]
  /\ rec = [x \in Admins |-> NotReconciling]
  /\ account = [a \in Accounts |-> "connected"]
  /\ effective = [a \in Accounts |-> Regions]
  /\ regions = [p \in Plans |-> {}]
  /\ counted = [a \in Accounts |-> Regions]

Connected(p) == account[AccountOf[p]] # "gone"

\* validateGuardrails(), as far as it can fail later on.
Allowed(p)   == RegionOf[p] \in effective[AccountOf[p]]

Rivals(p)    == {q \in Plans \ {p} : AccountOf[q] = AccountOf[p]}

\* Mutant: a unique index that forgets ambiguous plans.
IndexFreeOfApplying(p) == \A q \in Rivals(p) : status[q] # "APPLYING"

\* provisioning_one_active_account lets p become APPLYING or UNKNOWN.
IndexFree(p) == \A q \in Rivals(p) : status[q] \notin Reserved

Shows(p) == aws[p] \in Existing /\ hidden[p] = 0

\* An UPDATE of the row: @updatedAt.
SetPlan(p, s, known) ==
  /\ status' = [status EXCEPT ![p] = s]
  /\ resourceId' = [resourceId EXCEPT ![p] = known]
  /\ idle' = [idle EXCEPT ![p] = 0]
  /\ UNCHANGED age

Goto(p, label) == pc' = [pc EXCEPT ![p] = label]

\* The call does not look at its regions again.
Forget(p) == regions' = [regions EXCEPT ![p] = {}]

-----------------------------------------------------------------------------
(* makePlan() and applyPlan().                                             *)

MakePlan(p) ==
  /\ status[p] = "none"
  /\ Connected(p) /\ Allowed(p)
  /\ SetPlan(p, "PLANNED", FALSE)
  /\ UNCHANGED <<pc, session, resourceVars, rec, account, regionVars>>

\* The plan, its connection with its regions, and the guardrails are read.
LoadPlan(p) ==
  /\ pc[p] = "idle"
  /\ status[p] = "PLANNED" /\ age[p] < ExpiryTicks
  /\ Connected(p) /\ Allowed(p)
  /\ regions' = [regions EXCEPT ![p] = effective[AccountOf[p]]]
  /\ Goto(p, "loaded")
  /\ UNCHANGED <<planVars, session, resourceVars, rec, account, effective, counted>>

\* The durable account reservation: PLANNED to APPLYING, if the index allows it.
Reserve(p) ==
  /\ pc[p] = "loaded"
  /\ IF status[p] = "PLANNED" /\ age[p] < ExpiryTicks /\ IndexFree(p)
     THEN SetPlan(p, "APPLYING", resourceId[p]) /\ Goto(p, "reserved") /\ UNCHANGED regions
     ELSE UNCHANGED planVars /\ Goto(p, "idle") /\ Forget(p)
  /\ UNCHANGED <<session, resourceVars, rec, account, effective, counted>>

\* sessionFor().
OpenSession(p) ==
  /\ pc[p] = "reserved"
  /\ session' = [session EXCEPT ![p] = SessionTicks]
  /\ Goto(p, "preflight")
  /\ UNCHANGED <<planVars, resourceVars, rec, account, regionVars>>

\* countInstances() or countVpcs(), which look in these regions, is below the limit.
BelowLimit(p) ==
  Cardinality({q \in Plans : AccountOf[q] = AccountOf[p] /\ RegionOf[q] \in regions[p] /\ Shows(q)}) < MaxInstances

CountInstances(p) ==
  /\ pc[p] = "preflight"
  /\ IF BelowLimit(p)
     THEN Goto(p, "counted") /\ counted' = [counted EXCEPT ![AccountOf[p]] = @ \cap regions[p]]
     ELSE Goto(p, "rejecting") /\ UNCHANGED counted
  /\ Forget(p)
  /\ UNCHANGED <<planVars, session, resourceVars, rec, account, effective>>

\* Mutant: the expiry is not tested again before the first mutation.
StillGoodWithoutExpiry(p) == Connected(p)

\* Permissions, connection and expiry, once more.
StillGood(p) == Connected(p) /\ age[p] < ExpiryTicks

\* "mutating = true" and the create call.
SendCreate(p) ==
  /\ pc[p] = "counted"
  /\ StillGood(p) /\ Allowed(p)
  /\ aws' = [aws EXCEPT ![p] = "requested"]
  /\ Goto(p, "sending")
  /\ UNCHANGED <<planVars, session, hidden, rec, account, regionVars>>

\* Any check before the mutation rejects, or its call fails.
Reject(p) ==
  /\ pc[p] \in {"reserved", "preflight", "counted"}
  /\ Goto(p, "rejecting")
  /\ Forget(p)
  /\ UNCHANGED <<planVars, session, resourceVars, rec, account, effective, counted>>

CreateAnswered(p) ==
  /\ pc[p] = "sending"
  /\ aws[p] \in Existing
  /\ Goto(p, "created")
  /\ UNCHANGED <<planVars, session, resourceVars, rec, account, regionVars>>

\* checkpoint(): the identifier is saved while the plan is still APPLYING.
Checkpoint(p) ==
  /\ pc[p] = "created"
  /\ IF status[p] = "APPLYING" THEN SetPlan(p, "APPLYING", TRUE) ELSE UNCHANGED planVars
  /\ Goto(p, "configuring")
  /\ UNCHANGED <<session, resourceVars, rec, account, regionVars>>

\* The calls that follow the creation of a bucket or a VPC.
Configure(p) ==
  /\ pc[p] = "configuring"
  /\ session[p] > 0
  /\ aws[p] \in Existing
  /\ aws' = [aws EXCEPT ![p] = "ready"]
  /\ Goto(p, "verifying")
  /\ UNCHANGED <<planVars, session, hidden, rec, account, regionVars>>

\* Mutant: a resource that is there passes for the one that was planned.
VerifiesPresence(p) == Shows(p)

\* verifyResource(): it is there, and as the plan says.
Verifies(p) == Shows(p) /\ aws[p] = "ready"

\* verifyWithPolling().
Verify(p) ==
  /\ pc[p] = "verifying"
  /\ session[p] > 0
  /\ Verifies(p)
  /\ Goto(p, "finishing")
  /\ UNCHANGED <<planVars, session, resourceVars, rec, account, regionVars>>

\* finishVerified(): whatever status the row has.  The reply may be lost.
Finish(p) ==
  /\ pc[p] = "finishing"
  /\ Connected(p)
  /\ SetPlan(p, "SUCCEEDED", TRUE)
  /\ Goto(p, "over") \/ Goto(p, "ambiguous")
  /\ UNCHANGED <<session, resourceVars, rec, account, regionVars>>

\* Anything that fails once "mutating" is set.
LoseTrack(p) ==
  /\ pc[p] \in Mutating \ {"ambiguous"}
  /\ Goto(p, "ambiguous")
  /\ UNCHANGED <<planVars, session, resourceVars, rec, account, regionVars>>

\* The catch block, whatever status the row has.
RecordFailure(p) ==
  /\ \/ pc[p] = "rejecting" /\ SetPlan(p, "FAILED", resourceId[p])
     \/ pc[p] = "ambiguous" /\ IndexFree(p) /\ SetPlan(p, "UNKNOWN", resourceId[p])
     \/ pc[p] = "ambiguous" /\ ~ IndexFree(p) /\ UNCHANGED planVars
  /\ Goto(p, "over")
  /\ UNCHANGED <<session, resourceVars, rec, account, regionVars>>

\* The process dies, or the catch block's own transaction fails.
Die(p) ==
  /\ pc[p] \in Checking \cup Mutating
  /\ Goto(p, "over")
  /\ Forget(p)
  /\ UNCHANGED <<planVars, session, resourceVars, rec, account, effective, counted>>

-----------------------------------------------------------------------------
(* AWS, and the owner of the account.                                      *)

\* The request is authenticated with a live session.
TakesEffect(p) == aws[p] = "requested" /\ session[p] > 0

AwsCreates(p) ==
  /\ TakesEffect(p)
  /\ \E s \in Existing : aws' = [aws EXCEPT ![p] = s]
  /\ hidden' = [hidden EXCEPT ![p] = VisibleTicks]
  /\ UNCHANGED <<planVars, pc, session, rec, account, regionVars>>

AwsRefuses(p) ==
  /\ aws[p] = "requested"
  /\ aws' = [aws EXCEPT ![p] = "absent"]
  /\ UNCHANGED <<planVars, pc, session, hidden, rec, account, regionVars>>

AwsShows(p) ==
  /\ hidden[p] > 0
  /\ hidden' = [hidden EXCEPT ![p] = 0]
  /\ UNCHANGED <<planVars, pc, session, aws, rec, account, regionVars>>

\* A partial bucket is repaired by its AWS administrator.
OwnerRepairs(p) ==
  /\ aws[p] = "partial"
  /\ aws' = [aws EXCEPT ![p] = "ready"]
  /\ UNCHANGED <<planVars, pc, session, hidden, rec, account, regionVars>>

OwnerRemoves(p) ==
  /\ p \in Removable
  /\ Shows(p)
  /\ aws' = [aws EXCEPT ![p] = "removed"]
  /\ UNCHANGED <<planVars, pc, session, hidden, rec, account, regionVars>>

-----------------------------------------------------------------------------
(* reconcilePlan().                                                        *)

GotoRec(x, label, lag) == rec' = [rec EXCEPT ![x] = [@ EXCEPT !.pc = label, !.lag = lag]]
StopRec(x)        == rec' = [rec EXCEPT ![x] = NotReconciling]

\* Mutant: a plan whose call died is not reconciled.
MayReconcileUnknown(p) == status[p] = "UNKNOWN"

MayReconcile(p) == status[p] = "UNKNOWN" \/ (status[p] = "APPLYING" /\ idle[p] >= WaitTicks)

StartReconcile(x, p) ==
  /\ rec[x] = NotReconciling
  /\ MayReconcile(p)
  /\ Connected(p)
  /\ rec' = [rec EXCEPT ![x] = [pc |-> "looking", plan |-> p, known |-> resourceId[p],
                                lag |-> 0]]
  /\ UNCHANGED <<planVars, pc, session, resourceVars, account, regionVars>>

\* The saved identifier, or locateResource().
Locate(x) ==
  /\ rec[x].pc = "looking"
  /\ IF rec[x].known \/ Shows(rec[x].plan)
     THEN GotoRec(x, "verifying", 0)
     ELSE GotoRec(x, "absent", LagTicks)
  /\ UNCHANGED <<planVars, pc, session, resourceVars, account, regionVars>>

\* Mutant: absence is believed at once.
WaitedNot(p) == TRUE

WaitedFor(p) == age[p] >= WaitTicks

\* Nothing found: FAILED after the execution window, unless the plan has moved on.
ReleaseAbsent(x) ==
  LET p == rec[x].plan IN
  /\ rec[x].pc = "absent"
  /\ IF WaitedFor(p) /\ status[p] \in Reserved
     THEN SetPlan(p, "FAILED", resourceId[p])
     ELSE UNCHANGED planVars
  /\ StopRec(x)
  /\ UNCHANGED <<pc, session, resourceVars, account, regionVars>>

VerifyRec(x) ==
  LET p == rec[x].plan IN
  /\ rec[x].pc = "verifying"
  /\ IF Verifies(p) THEN GotoRec(x, "finishing", 0) ELSE StopRec(x)
  /\ UNCHANGED <<planVars, pc, session, resourceVars, account, regionVars>>

FinishRec(x) ==
  LET p == rec[x].plan IN
  /\ rec[x].pc = "finishing"
  /\ IF Connected(p) THEN SetPlan(p, "SUCCEEDED", TRUE) ELSE UNCHANGED planVars
  /\ StopRec(x)
  /\ UNCHANGED <<pc, session, resourceVars, account, regionVars>>

\* An AWS call or the transaction fails, or the process dies.
AbandonRec(x) ==
  /\ rec[x] # NotReconciling
  /\ StopRec(x)
  /\ UNCHANGED <<planVars, pc, session, resourceVars, account, regionVars>>

-----------------------------------------------------------------------------
(* setRegionAllowlist(); disconnectAccount(), which counts and then        *)
(* deletes; time.                                                          *)

\* Or a validation of the connection reads other enabled regions.
SetRegions(a) ==
  /\ account[a] # "gone"
  /\ \E R \in RegionSets : effective' = [effective EXCEPT ![a] = R]
  /\ UNCHANGED <<planVars, pc, session, resourceVars, rec, account, regions, counted>>

NothingInFlight(a) == \A p \in Plans : AccountOf[p] = a => status[p] \notin Reserved

Disconnect(a) ==
  /\ a \in Disconnectable /\ account[a] = "connected"
  /\ NothingInFlight(a)
  /\ account' = [account EXCEPT ![a] = "disconnecting"]
  /\ UNCHANGED <<planVars, pc, session, resourceVars, rec, regionVars>>

DeleteAccount(a) ==
  /\ account[a] = "disconnecting"
  /\ account' = [account EXCEPT ![a] = "gone"]
  /\ UNCHANGED <<planVars, pc, session, resourceVars, rec, regionVars>>

Older(n, bound) == IF n < bound THEN n + 1 ELSE n
Less(n) == IF n > 0 THEN n - 1 ELSE n

\* A resource shows, and an answer of AWS is acted upon, within the assumed time.
Tick ==
  /\ \A x \in Admins : rec[x].pc = "absent" => rec[x].lag > 0
  /\ age' = [p \in Plans |-> IF status[p] = "none" THEN age[p] ELSE Older(age[p], WaitTicks)]
  /\ idle' = [p \in Plans |-> IF status[p] = "none" THEN idle[p] ELSE Older(idle[p], WaitTicks)]
  /\ session' = [p \in Plans |-> Less(session[p])]
  /\ hidden' = [p \in Plans |-> Less(hidden[p])]
  /\ rec' = [x \in Admins |-> [rec[x] EXCEPT !.lag = Less(@)]]
  /\ UNCHANGED <<status, resourceId, pc, aws, account, regionVars>>

-----------------------------------------------------------------------------
Apply(p) ==
  \/ LoadPlan(p)       \/ Reserve(p)     \/ OpenSession(p)
  \/ CountInstances(p) \/ SendCreate(p)  \/ Reject(p)
  \/ CreateAnswered(p) \/ Checkpoint(p)  \/ Configure(p)
  \/ Verify(p)         \/ Finish(p)      \/ LoseTrack(p)
  \/ RecordFailure(p)

Aws(p) ==
  AwsCreates(p) \/ AwsRefuses(p) \/ AwsShows(p) \/ OwnerRepairs(p) \/ OwnerRemoves(p)

Reconcile(x) ==
  \/ \E p \in Plans : StartReconcile(x, p)
  \/ Locate(x) \/ ReleaseAbsent(x) \/ VerifyRec(x) \/ FinishRec(x) \/ AbandonRec(x)

Next ==
  \/ \E p \in Plans : MakePlan(p) \/ Apply(p) \/ Die(p) \/ Aws(p)
  \/ \E x \in Admins : Reconcile(x)
  \/ \E a \in Accounts : SetRegions(a) \/ Disconnect(a) \/ DeleteAccount(a)
  \/ Tick

Spec == Init /\ [][Next]_vars

-----------------------------------------------------------------------------
(* What must hold.                                                         *)

\* A plan that says FAILED left nothing in AWS and never will: an account is released
\* for the next creation only when the outcome of the last one is certain, though reads
\* lag behind, answers get lost and processes die.
FailedHasNothing ==
  \A p \in Plans : status[p] = "FAILED" => aws[p] \notin Existing /\ ~ TakesEffect(p)

\* The limit of the guardrails is never exceeded by what the plans of an account create in
\* the regions that were in effect for each of them: counting before creating is safe only
\* because of the reservation.  The count leaves out a region that was taken off the
\* allowlist (setRegionAllowlist()), so what an account has in all of its regions may well
\* exceed the limit.
WithinLimit ==
  \A a \in Accounts :
    Cardinality({p \in Plans : AccountOf[p] = a /\ RegionOf[p] \in counted[a] /\ aws[p] \in Existing}) <= MaxInstances

MayCreate(p) == TakesEffect(p) \/ (pc[p] = "counted" /\ StillGood(p) /\ session[p] > 0)

\* Of all the plans of an account, at most one can still create something, whatever their
\* rows say ("one in-flight/ambiguous apply at a time, across every app server").
OneCreation ==
  \A p, q \in Plans :
    AccountOf[p] = AccountOf[q] /\ MayCreate(p) /\ MayCreate(q) => p = q

\* A plan that says SUCCEEDED had its resource completely configured, whichever of the
\* applying call and its reconciliations said so.
SucceededIsComplete ==
  \A p \in Plans : status[p] = "SUCCEEDED" => aws[p] \in {"ready", "removed"}

-----------------------------------------------------------------------------
(* Fairness: time passes, a partial resource is repaired in the end, no    *)
(* reconciliation hangs on its last statement, and an administrator tries  *)
(* again until a reconciliation gets through.                              *)

Fairness ==
  /\ SF_vars(Tick)
  /\ \A p \in Plans : WF_vars(OwnerRepairs(p))
  /\ \A x \in Admins \ Diligent : WF_vars(ReleaseAbsent(x))
  /\ \A x \in Diligent :
       /\ \A p \in Plans : SF_vars(StartReconcile(x, p))
       /\ SF_vars(Locate(x)) /\ SF_vars(ReleaseAbsent(x))
       /\ SF_vars(VerifyRec(x)) /\ SF_vars(FinishRec(x))

FairSpec == Spec /\ Fairness

\* Every reservation is released in the end, after any crash or lost answer: no account is
\* blocked for ever, unless the resource was removed in AWS after it was made or the
\* connection itself was deleted.
ReservationEnds ==
  \A p \in Plans :
    status[p] \in Reserved ~> status[p] \notin Reserved \/ aws[p] = "removed" \/ ~ Connected(p)

=============================================================================
