---------------------------- MODULE OperationPlan ----------------------------
(***************************************************************************)
(* Reviewed operations (server/services/operation-plan-service.ts): a      *)
(* member asks for a command on some resources, an administrator approves, *)
(* and an HTTP request or the worker carries it out, resource by resource. *)
(* Memberships and the workspace's action mode change all the while.       *)
(*                                                                         *)
(* Time is what the code compares it with: a plan is before, in or past    *)
(* its window, and has or has not been left unwritten for 30 minutes.      *)
(***************************************************************************)
EXTENDS Rbac, FiniteSets

CONSTANTS Plans, Users, Resources,  \* every plan names every resource
          Calls,         \* bound: executeOperation() calls in flight at once
          Granted,       \* bound: the roles members are given
          NoUser, NoPlan, NoResource

ASSUME OperationPlanAssumption ==
  /\ NoUser \notin Users /\ NoPlan \notin Plans /\ NoResource \notin Resources
  /\ Granted \subseteq Roles

VARIABLES
  member, actionMode,                    \* the workspace
  status, requester, approver,           \* columns of operation_plans
  scheduled,                             \* scheduledAt is set
  window,                                \* the time, against scheduledAt and expiresAt
  untouched,                             \* updatedAt is 30 minutes old
  call,                                  \* executeOperation() calls
  sent,                                  \* commands that took effect in AWS
  late                                   \* for checking: of these, since a fact it rests on ceased to hold

planVars == <<status, requester, approver, scheduled, window, untouched>>
orgVars  == <<member, actionMode>>
vars     == <<orgVars, planVars, call, sent, late>>

NoRole == "none"
Ended == {"SUCCEEDED", "CHECK_REQUIRED", "REJECTED", "CANCELLED", "EXPIRED"}
Statuses == {"none", "PENDING", "APPROVED", "RUNNING"} \cup Ended
Results == {"none", "ACCEPTED", "CHECK_REQUIRED"}
Claimed == {"loop", "approver", "mode", "send", "record", "finish"}
PCs == {"load", "check", "checkApprover", "checkMode", "claim", "blocked"} \cup Claimed

\* What an execution rests on, each fact read on its own.
Facts == {"requester may request", "approver may approve", "action mode is on"}

NoResults == [r \in Resources |-> "none"]
Idle == [pc |-> "idle", plan |-> NoPlan, scheduler |-> FALSE, resource |-> NoResource, results |-> NoResults]

TypeOK ==
  /\ member \in [Users -> Roles \cup {NoRole}] /\ actionMode \in BOOLEAN
  /\ status \in [Plans -> Statuses]
  /\ requester \in [Plans -> Users \cup {NoUser}] /\ approver \in [Plans -> Users \cup {NoUser}]
  /\ scheduled \in [Plans -> BOOLEAN] /\ untouched \in [Plans -> BOOLEAN]
  /\ window \in [Plans -> {"before", "in", "past"}]
  /\ call \in [Calls -> {Idle} \cup
       [pc : PCs, plan : Plans, scheduler : BOOLEAN, resource : Resources \cup {NoResource},
        results : [Resources -> Results]]]
  /\ sent \in [Plans -> [Resources -> Nat]] /\ late \in [Plans -> [Facts -> Nat]]

Init ==
  /\ member \in [Users -> Granted] /\ actionMode = TRUE
  /\ status = [p \in Plans |-> "none"]
  /\ requester = [p \in Plans |-> NoUser] /\ approver = [p \in Plans |-> NoUser]
  /\ scheduled = [p \in Plans |-> FALSE] /\ untouched = [p \in Plans |-> FALSE]
  /\ window = [p \in Plans |-> "before"]
  /\ call = [x \in Calls |-> Idle]
  /\ sent = [p \in Plans |-> [r \in Resources |-> 0]]
  /\ late = [p \in Plans |-> [f \in Facts |-> 0]]

\* A plan's status is written, and updatedAt with it.
Write(p, s) ==
  /\ status' = [status EXCEPT ![p] = s]
  /\ untouched' = [untouched EXCEPT ![p] = FALSE]

Requests(u) == HasPermission(member[u], "actions:request")
Approves(u) == HasPermission(member[u], "org:update")

-----------------------------------------------------------------------------
(* createOperation() and transitionOperation()                             *)

Create(p, u, s) ==
  /\ status[p] = "none"
  /\ Requests(u)
  /\ Write(p, "PENDING")
  /\ requester' = [requester EXCEPT ![p] = u]
  /\ scheduled' = [scheduled EXCEPT ![p] = s]
  /\ window' = [window EXCEPT ![p] = IF s THEN "before" ELSE "in"]
  /\ UNCHANGED <<orgVars, approver, call, sent, late>>

Approve(p, u) ==
  /\ Requests(u) /\ Approves(u)
  /\ u # requester[p]
  /\ status[p] = "PENDING" /\ window[p] # "past"
  /\ Write(p, "APPROVED")
  /\ approver' = [approver EXCEPT ![p] = u]
  /\ UNCHANGED <<orgVars, requester, scheduled, window, call, sent, late>>

CancellableThoughRunning(p) == status[p] \in {"PENDING", "APPROVED", "RUNNING"}
Cancellable(p) == status[p] \in {"PENDING", "APPROVED"}

\* Reject or cancel.
Withdraw(p, u, s) ==
  /\ Requests(u)
  /\ window[p] # "past"
  /\ \/ s = "REJECTED" /\ Approves(u) /\ status[p] = "PENDING"
     \/ s = "CANCELLED" /\ (u = requester[p] \/ Approves(u)) /\ Cancellable(p)
  /\ Write(p, s)
  /\ UNCHANGED <<orgVars, requester, approver, scheduled, window, call, sent, late>>

-----------------------------------------------------------------------------
(* executeOperation()                                                      *)

Goto(x, pc) == call' = [call EXCEPT ![x].pc = pc]
At(x, pc)   == call[x].pc = pc
Leave(x)    == call' = [call EXCEPT ![x] = Idle]

\* A call that throws: the worker's catch block writes the plan, the HTTP route answers.
Refuse(x) == IF call[x].scheduler THEN Goto(x, "blocked") ELSE Leave(x)

Begin(x, p, scheduler) ==
  call' = [call EXCEPT ![x] = [Idle EXCEPT !.pc = "load", !.plan = p, !.scheduler = scheduler]]

Execute(x, p, u) ==
  /\ call[x] = Idle
  /\ status[p] # "none" /\ Requests(u)
  /\ Begin(x, p, FALSE)
  /\ UNCHANGED <<orgVars, planVars, sent, late>>

\* The worker finds a plan that is due.
Select(x, p) ==
  /\ call[x] = Idle
  /\ status[p] = "APPROVED" /\ scheduled[p] /\ window[p] = "in"
  /\ Begin(x, p, TRUE)
  /\ UNCHANGED <<orgVars, planVars, sent, late>>

\* The plan as it is read, the worker having authorised the requester first.
Load(x) ==
  LET p == call[x].plan IN
  /\ At(x, "load")
  /\ IF /\ call[x].scheduler => Requests(requester[p])
        /\ status[p] = "APPROVED" /\ window[p] # "past"
        /\ scheduled[p] => call[x].scheduler /\ window[p] = "in"
     THEN Goto(x, "check") ELSE Refuse(x)
  /\ UNCHANGED <<orgVars, planVars, sent, late>>

\* Both people may still do what they did, and actions are switched on.
Holds(p, f) ==
  CASE f = "requester may request" -> requester[p] \in Users /\ Requests(requester[p])
    [] f = "approver may approve"  -> approver[p] \in Users /\ Approves(approver[p])
    [] f = "action mode is on"     -> actionMode

\* One awaited read of such a fact; whatever it finds, the call may be refused.
CheckFact(x, pc, f, next) ==
  /\ At(x, pc)
  /\ \/ Holds(call[x].plan, f) /\ Goto(x, next)
     \/ Refuse(x)
  /\ UNCHANGED <<orgVars, planVars, sent, late>>

\* The three reads, and the reviewed snapshots against the inventory.
Check(x) ==
  \/ CheckFact(x, "check", "requester may request", "checkApprover")
  \/ CheckFact(x, "checkApprover", "approver may approve", "checkMode")
  \/ CheckFact(x, "checkMode", "action mode is on", "claim")

ClaimableOnceApproved(p) == approver[p] # NoUser
Claimable(p) == status[p] = "APPROVED"

Claim(x) ==
  LET p == call[x].plan IN
  /\ At(x, "claim")
  /\ IF Claimable(p)
     THEN Write(p, "RUNNING") /\ Goto(x, "loop")
     ELSE UNCHANGED <<status, untouched>> /\ Refuse(x)
  /\ UNCHANGED <<orgVars, requester, approver, scheduled, window, sent, late>>

\* Nothing is sent for r: a check fails.
NotConfirmed(x, r) ==
  call' = [call EXCEPT ![x].pc = "record", ![x].resource = r, ![x].results[r] = "CHECK_REQUIRED"]

MayGoOnForApprover(p, f) == f = "requester may request" \/ Holds(p, f)
MayGoOn(p, f) == Holds(p, f)

\* One of the reads repeated for a resource r. Nothing is sent if it finds otherwise, or if the
\* connection does not serve.
RecheckFact(x, r, f, next) ==
  /\ \/ /\ MayGoOn(call[x].plan, f)
        /\ call' = [call EXCEPT ![x].pc = next, ![x].resource = r]
     \/ NotConfirmed(x, r)
  /\ UNCHANGED <<orgVars, planVars, sent, late>>

\* The resources are taken in one order, that of the request.
IsNext(x, r) == r = CHOOSE q \in Resources : call[x].results[q] = "none"

\* The next resource: both people and the action mode again, three reads one after the other.
Recheck(x, r) ==
  \/ /\ At(x, "loop") /\ call[x].results[r] = "none" /\ IsNext(x, r)
     /\ RecheckFact(x, r, "requester may request", "approver")
  \/ /\ At(x, "approver") /\ r = call[x].resource
     /\ RecheckFact(x, r, "approver may approve", "mode")
  \/ /\ At(x, "mode") /\ r = call[x].resource
     /\ RecheckFact(x, r, "action mode is on", "send")

\* The command takes effect; its answer arrives or is lost.
Send(x, answer) ==
  LET p == call[x].plan
      r == call[x].resource IN
  /\ At(x, "send")
  /\ sent' = [sent EXCEPT ![p][r] = @ + 1]
  /\ late' = [late EXCEPT ![p] = [f \in Facts |-> IF Holds(p, f) THEN @[f] ELSE @[f] + 1]]
  /\ call' = [call EXCEPT ![x].pc = "record", ![x].results[r] = answer]
  /\ UNCHANGED <<orgVars, planVars>>

\* The instance is in another state, or AWS refuses the command.
SendFails(x) ==
  /\ At(x, "send")
  /\ call' = [call EXCEPT ![x].pc = "record", ![x].results[call[x].resource] = "CHECK_REQUIRED"]
  /\ UNCHANGED <<orgVars, planVars, sent, late>>

\* The results so far are saved if the plan is still RUNNING.
Record(x) ==
  LET p == call[x].plan IN
  /\ At(x, "record")
  /\ untouched' = [untouched EXCEPT ![p] = @ /\ status[p] # "RUNNING"]
  /\ Goto(x, IF \E r \in Resources : call[x].results[r] = "none" THEN "loop" ELSE "finish")
  /\ UNCHANGED <<orgVars, status, requester, approver, scheduled, window, sent, late>>

Result(results) ==
  IF \A r \in Resources : results[r] = "ACCEPTED" THEN "SUCCEEDED" ELSE "CHECK_REQUIRED"

Finish(x) ==
  LET p == call[x].plan IN
  /\ At(x, "finish")
  /\ IF status[p] = "RUNNING" THEN Write(p, Result(call[x].results))
                              ELSE UNCHANGED <<status, untouched>>
  /\ Leave(x)
  /\ UNCHANGED <<orgVars, requester, approver, scheduled, window, sent, late>>

\* The worker's catch block.
Block(x) ==
  LET p == call[x].plan IN
  /\ At(x, "blocked")
  /\ IF status[p] = "APPROVED" THEN Write(p, "CHECK_REQUIRED") ELSE UNCHANGED <<status, untouched>>
  /\ Leave(x)
  /\ UNCHANGED <<orgVars, requester, approver, scheduled, window, sent, late>>

\* The process dies, or a write to the database fails.
Crash(x) ==
  /\ call[x] # Idle
  /\ Leave(x)
  /\ UNCHANGED <<orgVars, planVars, sent, late>>

-----------------------------------------------------------------------------
(* runScheduledOperations() before it looks for what is due, and the       *)
(* surroundings.                                                           *)

Expire(p) ==
  /\ status[p] \in {"PENDING", "APPROVED"} /\ window[p] = "past"
  /\ Write(p, "EXPIRED")
  /\ UNCHANGED <<orgVars, requester, approver, scheduled, window, call, sent, late>>

InterruptedOnSchedule(p) == status[p] = "RUNNING" /\ untouched[p] /\ scheduled[p]
Interrupted(p) == status[p] = "RUNNING" /\ untouched[p]

Interrupt(p) ==
  /\ Interrupted(p)
  /\ Write(p, "CHECK_REQUIRED")
  /\ UNCHANGED <<orgVars, requester, approver, scheduled, window, call, sent, late>>

Tick(p) ==
  /\ status[p] \notin Ended \cup {"none"} /\ window[p] # "past"
  /\ window' = [window EXCEPT ![p] = IF @ = "before" THEN "in" ELSE "past"]
  /\ UNCHANGED <<orgVars, status, requester, approver, scheduled, untouched, call, sent, late>>

Age(p) ==
  /\ status[p] = "RUNNING" /\ ~ untouched[p]
  /\ untouched' = [untouched EXCEPT ![p] = TRUE]
  /\ UNCHANGED <<orgVars, status, requester, approver, scheduled, window, call, sent, late>>

\* Any change of roles or of the action mode; a fact that holds again is counted anew.
OrgChanges ==
  /\ \/ \E u \in Users, r \in Granted \cup {NoRole} :
          member' = [member EXCEPT ![u] = r] /\ UNCHANGED actionMode
     \/ actionMode' \in BOOLEAN /\ UNCHANGED member
  /\ UNCHANGED <<planVars, call, sent>>
  /\ late' = [p \in Plans |-> [f \in Facts |-> IF Holds(p, f)' THEN 0 ELSE late[p][f]]]

-----------------------------------------------------------------------------

Review(p) == \E u \in Users :
  \/ \E s \in BOOLEAN : Create(p, u, s)
  \/ Approve(p, u) \/ Withdraw(p, u, "REJECTED") \/ Withdraw(p, u, "CANCELLED")

CallStep(x) ==
  \/ \E p \in Plans : Select(x, p) \/ \E u \in Users : Execute(x, p, u)
  \/ Load(x) \/ Check(x) \/ Claim(x)
  \/ \E r \in Resources : Recheck(x, r)
  \/ Send(x, "ACCEPTED") \/ Send(x, "CHECK_REQUIRED") \/ SendFails(x)
  \/ Record(x) \/ Finish(x) \/ Block(x) \/ Crash(x)

Next ==
  \/ \E p \in Plans : Review(p) \/ Expire(p) \/ Interrupt(p) \/ Tick(p) \/ Age(p)
  \/ \E x \in Calls : CallStep(x)
  \/ OrgChanges

Spec == Init /\ [][Next]_vars

\* Time passes, and the worker loop comes round.
Fairness == \A p \in Plans : WF_vars(Tick(p)) /\ WF_vars(Age(p)) /\ WF_vars(Expire(p)) /\ WF_vars(Interrupt(p))

FairSpec == Spec /\ Fairness

-----------------------------------------------------------------------------
(* Properties                                                              *)

\* A plan's command reaches each resource at most once, through concurrent executions, the
\* worker, crashes and lost answers ("never automatically replayed").
SentAtMostOnce == \A p \in Plans, r \in Resources : sent[p][r] <= 1

\* What reached AWS was approved by a second person and was neither rejected, cancelled nor
\* expired, before or after.
OnlyApprovedReachesAws ==
  \A p \in Plans : (\E r \in Resources : sent[p][r] > 0) =>
    /\ approver[p] \in Users \ {requester[p]}
    /\ status[p] \in {"RUNNING", "SUCCEEDED", "CHECK_REQUIRED"}

\* A plan succeeded only if its command took effect on every resource.
SucceededIsAccepted ==
  \A p \in Plans : status[p] = "SUCCEEDED" => \A r \in Resources : sent[p][r] > 0

\* While the requester is without the right to ask, at most one command goes out, the one that
\* had passed that check; so too while the approver is without the right to approve, and while
\* action mode is off. (Not of the three together: they are read one after the other, and each
\* may fail and hold again in turn.)
RevocationStops == \A p \in Plans, f \in Facts : late[p][f] <= 1

\* No plan waits or runs for ever, whoever dies.
PlansEnd == \A p \in Plans : status[p] # "none" ~> status[p] \in Ended
=============================================================================
