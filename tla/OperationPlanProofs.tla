------------------------ MODULE OperationPlanProofs ------------------------
(***************************************************************************)
(* Proofs about OperationPlan, for any plans, people, resources and calls. *)
(***************************************************************************)
EXTENDS OperationPlan, TLAPS

CallRecords ==
  [pc : PCs, plan : Plans, scheduler : BOOLEAN, resource : Resources \cup {NoResource},
   results : [Resources -> Results]]

-----------------------------------------------------------------------------
(* The invariant.                                                          *)

Run == {"RUNNING", "SUCCEEDED", "CHECK_REQUIRED"}

\* A claim leaves APPROVED for good: one call executes a plan.
OneExecution ==
  \A x, y \in Calls :
    call[x].pc \in Claimed /\ call[y].pc \in Claimed /\ call[x].plan = call[y].plan => x = y

\* What an executing call knows of its plan: which commands it has sent, and that nobody
\* else has; and that a fact it has read for this command has had nothing sent against it.
Knows(x) ==
  LET p == call[x].plan IN
  /\ status[p] \in {"RUNNING", "CHECK_REQUIRED"}
  /\ \A r \in Resources :
       /\ call[x].results[r] = "none" => sent[p][r] = 0
       /\ call[x].results[r] = "ACCEPTED" => sent[p][r] = 1
  /\ call[x].pc \in {"approver", "mode", "send"} =>
       /\ call[x].resource \in Resources
       /\ call[x].results[call[x].resource] = "none"
       /\ late[p]["requester may request"] = 0
  /\ call[x].pc \in {"mode", "send"} => late[p]["approver may approve"] = 0
  /\ call[x].pc = "send" => late[p]["action mode is on"] = 0

ExecutionInv == \A x \in Calls : call[x].pc \in Claimed => Knows(x)

Unclaimed == {"load", "check", "checkApprover", "checkMode", "claim"}

\* A call that has not claimed its plan has no results.
NotYetRun ==
  \A x \in Calls : call[x].pc \in Unclaimed => call[x].results = NoResults

\* Nothing is sent for a plan that has not run.
FreshInv ==
  \A p \in Plans : status[p] \notin Run =>
    (\A f \in Facts : late[p][f] = 0) /\ \A r \in Resources : sent[p][r] = 0

\* A plan is approved by somebody else before it runs.
ApprovalInv ==
  \A p \in Plans :
    /\ status[p] = "none" => approver[p] = NoUser
    /\ approver[p] # NoUser => approver[p] # requester[p]
    /\ status[p] \in {"APPROVED"} \cup Run => approver[p] \in Users

\* The command that was on its way is counted while the fact does not hold.
LateInv == \A p \in Plans, f \in Facts : late[p][f] <= 1 /\ (late[p][f] > 0 => ~ Holds(p, f))

IInv ==
  /\ TypeOK /\ OneExecution /\ ExecutionInv /\ NotYetRun /\ FreshInv /\ ApprovalInv
  /\ LateInv /\ SentAtMostOnce /\ SucceededIsAccepted

-----------------------------------------------------------------------------
(* Types.                                                                  *)

\* What the types say of a call.
LEMMA CallType ==
  ASSUME TypeOK, NEW x \in Calls
  PROVE  /\ call[x].pc \in {"idle"} \cup PCs
         /\ call[x].pc # "idle" => call[x] \in CallRecords
BY DEF TypeOK, Idle, CallRecords, PCs, Claimed

\* A call that goes on in another place.
LEMMA GotoTypes ==
  ASSUME TypeOK, NEW x \in Calls, call[x].pc # "idle", NEW pc \in PCs, Goto(x, pc)
  PROVE  /\ call' \in [Calls -> {Idle} \cup CallRecords]
         /\ \A y \in Calls \ {x} : call'[y] = call[y]
         /\ call'[x].pc = pc /\ call'[x].plan = call[x].plan
         /\ call'[x].results = call[x].results /\ call'[x].resource = call[x].resource
<1>1. call[x] \in CallRecords
  BY CallType
<1>2. call' = [call EXCEPT ![x] = [call[x] EXCEPT !.pc = pc]]
  BY DEF Goto
<1>3. [call[x] EXCEPT !.pc = pc] \in CallRecords
  BY <1>1 DEF CallRecords
<1>4. call \in [Calls -> {Idle} \cup CallRecords]
  BY DEF TypeOK, CallRecords
<1>5. call'[x] = [call[x] EXCEPT !.pc = pc]
  BY <1>2, <1>4
<1>6. /\ call'[x].pc = pc /\ call'[x].plan = call[x].plan
      /\ call'[x].results = call[x].results /\ call'[x].resource = call[x].resource
  BY <1>1, <1>5 DEF CallRecords
<1> QED
  BY <1>2, <1>3, <1>4, <1>6

\* A call that ends.
LEMMA LeaveTypes ==
  ASSUME TypeOK, NEW x \in Calls, Leave(x)
  PROVE  /\ call' \in [Calls -> {Idle} \cup CallRecords]
         /\ \A y \in Calls \ {x} : call'[y] = call[y]
         /\ call'[x].pc = "idle"
BY DEF TypeOK, CallRecords, Leave, Idle

\* A call that begins.
LEMMA BeginTypes ==
  ASSUME TypeOK, NEW x \in Calls, NEW p \in Plans, NEW s \in BOOLEAN, Begin(x, p, s)
  PROVE  /\ call' \in [Calls -> {Idle} \cup CallRecords]
         /\ \A y \in Calls \ {x} : call'[y] = call[y]
         /\ call'[x].pc = "load" /\ call'[x].results = NoResults
<1> DEFINE c == [Idle EXCEPT !.pc = "load", !.plan = p, !.scheduler = s]
<1>1. Idle \in [pc : {"idle"}, plan : {NoPlan}, scheduler : BOOLEAN, resource : {NoResource},
                results : [Resources -> Results]]
  BY DEF Idle, NoResults, Results
<1>2. c \in CallRecords /\ c.pc = "load" /\ c.results = NoResults
  BY <1>1 DEF CallRecords, PCs, Idle
<1>3. call' = [call EXCEPT ![x] = c]
  BY DEF Begin
<1>4. call \in [Calls -> {Idle} \cup CallRecords]
  BY DEF TypeOK, CallRecords
<1> QED
  BY <1>2, <1>3, <1>4

\* The result for a resource is noted.
LEMMA NoteTypes ==
  ASSUME TypeOK, NEW x \in Calls, call[x].pc # "idle", NEW r \in Resources,
         NEW o \in Resources \cup {NoResource}, NEW a \in Results,
         call' = [call EXCEPT ![x] = [call[x] EXCEPT !.pc = "record", !.resource = o,
                                                     !.results = [call[x].results EXCEPT ![r] = a]]]
  PROVE  /\ call' \in [Calls -> {Idle} \cup CallRecords]
         /\ \A y \in Calls \ {x} : call'[y] = call[y]
         /\ call'[x].pc = "record" /\ call'[x].plan = call[x].plan
         /\ call'[x].results[r] = a
         /\ \A q \in Resources \ {r} : call'[x].results[q] = call[x].results[q]
<1> DEFINE res == [call[x].results EXCEPT ![r] = a]
           c == [call[x] EXCEPT !.pc = "record", !.resource = o, !.results = res]
<1>1. call[x] \in CallRecords
  BY CallType
<1>2. res \in [Resources -> Results] /\ res[r] = a
      /\ \A q \in Resources \ {r} : res[q] = call[x].results[q]
  BY <1>1 DEF CallRecords
<1> HIDE DEF res
<1>3. c \in CallRecords /\ c.pc = "record" /\ c.plan = call[x].plan /\ c.results = res
  BY <1>1, <1>2 DEF CallRecords, PCs, Claimed
<1>4. call \in [Calls -> {Idle} \cup CallRecords]
  BY DEF TypeOK, CallRecords
<1>5. call' = [call EXCEPT ![x] = c]
  BY DEF res
<1> HIDE DEF c
<1>6. call'[x] = c
  BY <1>4, <1>5
<1> QED
  BY <1>2, <1>3, <1>4, <1>5, <1>6

\* A resource for which nothing is sent.
LEMMA NotConfirmedTypes ==
  ASSUME TypeOK, NEW x \in Calls, call[x].pc # "idle", NEW r \in Resources,
         NotConfirmed(x, r)
  PROVE  /\ call' \in [Calls -> {Idle} \cup CallRecords]
         /\ \A y \in Calls \ {x} : call'[y] = call[y]
         /\ call'[x].pc = "record" /\ call'[x].plan = call[x].plan
         /\ call'[x].results[r] = "CHECK_REQUIRED"
         /\ \A q \in Resources \ {r} : call'[x].results[q] = call[x].results[q]
<1> DEFINE res == [call[x].results EXCEPT ![r] = "CHECK_REQUIRED"]
           c == [call[x] EXCEPT !.pc = "record", !.resource = r, !.results = res]
<1>1. call[x] \in CallRecords
  BY CallType
<1>2. res \in [Resources -> Results] /\ res[r] = "CHECK_REQUIRED"
      /\ \A q \in Resources \ {r} : res[q] = call[x].results[q]
  BY <1>1 DEF CallRecords, Results
<1> HIDE DEF res
<1>3. c \in CallRecords /\ c.pc = "record" /\ c.plan = call[x].plan /\ c.results = res
  BY <1>1, <1>2 DEF CallRecords, PCs, Claimed
<1>4. call \in [Calls -> {Idle} \cup CallRecords]
  BY DEF TypeOK, CallRecords
<1>5. call' = [call EXCEPT ![x] = c]
  BY DEF res, NotConfirmed
<1> HIDE DEF c
<1>6. call'[x] = c
  BY <1>4, <1>5
<1> QED
  BY <1>2, <1>3, <1>4, <1>5, <1>6

-----------------------------------------------------------------------------
(* Steps that send nothing and let no call go on to send.                  *)

\* The invariant after a step that starts no execution, gives no result and leaves the people
\* and the commands of plans that have run alone.
LEMMA QuietStep ==
  ASSUME IInv, TypeOK', NotYetRun', ApprovalInv', SucceededIsAccepted',
         member' = member, actionMode' = actionMode, sent' = sent, late' = late,
         \A x \in Calls : call'[x].pc \in Claimed =>
           /\ call[x].pc \in Claimed
           /\ call'[x].plan = call[x].plan
           /\ call'[x].results = call[x].results /\ call'[x].resource = call[x].resource
           /\ call'[x].pc \in {"approver", "mode", "send"} => call'[x].pc = call[x].pc
           /\ status'[call[x].plan] \in {"RUNNING", "CHECK_REQUIRED"},
         \A q \in Plans :
           /\ status'[q] \notin Run => status[q] \notin Run
           /\ status[q] \in Run => approver'[q] = approver[q] /\ requester'[q] = requester[q]
  PROVE  IInv'
<1> USE DEF IInv
<1>1. OneExecution'
  BY DEF OneExecution
<1>2. ExecutionInv'
  <2> SUFFICES ASSUME NEW x \in Calls, call'[x].pc \in Claimed PROVE Knows(x)'
    BY DEF ExecutionInv
  <2>1. Knows(x)
    BY DEF ExecutionInv
  <2>2. call'[x].pc \in {"approver", "mode", "send"} => call'[x].pc = call[x].pc
    OBVIOUS
  <2> QED
    BY <2>1, <2>2 DEF Knows
<1>3. FreshInv'
  BY DEF FreshInv
<1>4. LateInv'
  <2> SUFFICES ASSUME NEW q \in Plans, NEW f \in Facts
               PROVE  late[q][f] <= 1 /\ (late[q][f] > 0 => ~ Holds(q, f)')
    BY DEF LateInv
  <2>1. CASE status[q] \in Run
    <3>1. Holds(q, f)' = Holds(q, f)
      BY <2>1 DEF Holds, Requests, Approves
    <3> QED
      BY <3>1 DEF LateInv
  <2>2. CASE status[q] \notin Run
    BY <2>2 DEF FreshInv
  <2> QED
    BY <2>1, <2>2
<1>5. SentAtMostOnce'
  BY DEF SentAtMostOnce
<1> QED
  BY <1>1, <1>2, <1>3, <1>4, <1>5

\* The plan of an executing call is a plan, and runs or was given up.
LEMMA ExecutingPlan ==
  ASSUME IInv, NEW x \in Calls, call[x].pc \in Claimed
  PROVE  call[x].plan \in Plans /\ status[call[x].plan] \in {"RUNNING", "CHECK_REQUIRED"}
<1>1. call[x].pc # "idle"
  BY DEF Claimed
<1> QED
  BY <1>1, CallType DEF IInv, CallRecords, ExecutionInv, Knows

\* A plan's status is written.
LEMMA WriteTypes ==
  ASSUME TypeOK, NEW p \in Plans, NEW s \in Statuses, Write(p, s)
  PROVE  /\ status' \in [Plans -> Statuses] /\ untouched' \in [Plans -> BOOLEAN]
         /\ status'[p] = s /\ \A q \in Plans \ {p} : status'[q] = status[q]
BY DEF TypeOK, Write

\* Requests, reviews, expiry, interruption and time.
LEMMA PlanStepIInv ==
  ASSUME IInv, NEW p \in Plans, Review(p) \/ Expire(p) \/ Interrupt(p) \/ Tick(p) \/ Age(p)
  PROVE  IInv'
<1> USE DEF IInv
<1>1. {"PENDING", "APPROVED", "REJECTED", "CANCELLED", "EXPIRED", "CHECK_REQUIRED"} \subseteq Statuses
  BY DEF Statuses, Ended
<1>2. \A x \in Calls : call[x].pc \in Claimed =>
        call[x].plan \in Plans /\ status[call[x].plan] \in {"RUNNING", "CHECK_REQUIRED"}
  BY ExecutingPlan
<1>10. NotYetRun'
  BY DEF NotYetRun, Review, Create, Approve, Withdraw, Expire, Interrupt, Tick, Age
<1>3. ASSUME NEW u \in Users, NEW s \in BOOLEAN, Create(p, u, s) PROVE IInv'
  <2>1. /\ status[p] = "none" /\ Write(p, "PENDING")
        /\ requester' = [requester EXCEPT ![p] = u]
        /\ UNCHANGED <<orgVars, approver, call, sent, late>>
    BY <1>3 DEF Create
  <2>2. /\ status' \in [Plans -> Statuses] /\ untouched' \in [Plans -> BOOLEAN]
        /\ status'[p] = "PENDING" /\ \A q \in Plans \ {p} : status'[q] = status[q]
    BY <1>1, <2>1, WriteTypes
  <2>3. TypeOK'
    <3>1. scheduled' = [scheduled EXCEPT ![p] = s]
          /\ window' = [window EXCEPT ![p] = IF s THEN "before" ELSE "in"]
      BY <1>3 DEF Create
    <3>2. scheduled' \in [Plans -> BOOLEAN] /\ window' \in [Plans -> {"before", "in", "past"}]
      BY <3>1 DEF TypeOK
    <3>3. requester' \in [Plans -> Users \cup {NoUser}]
      BY <2>1 DEF TypeOK
    <3> QED
      BY <2>1, <2>2, <3>2, <3>3 DEF TypeOK, orgVars
  <2>4. \A q \in Plans \ {p} : requester'[q] = requester[q]
    BY <2>1 DEF TypeOK
  <2>5. ApprovalInv'
    BY <2>1, <2>2, <2>4 DEF ApprovalInv, Run
  <2>6. SucceededIsAccepted'
    BY <2>1, <2>2 DEF SucceededIsAccepted
  <2> QED
    BY <1>10, <1>2, <2>1, <2>2, <2>3, <2>4, <2>5, <2>6, QuietStep DEF orgVars, Run
<1>4. ASSUME NEW u \in Users, Approve(p, u) PROVE IInv'
  <2>1. /\ status[p] = "PENDING" /\ Write(p, "APPROVED") /\ u # requester[p]
        /\ approver' = [approver EXCEPT ![p] = u]
        /\ UNCHANGED <<orgVars, requester, scheduled, window, call, sent, late>>
    BY <1>4 DEF Approve
  <2>2. /\ status' \in [Plans -> Statuses] /\ untouched' \in [Plans -> BOOLEAN]
        /\ status'[p] = "APPROVED" /\ \A q \in Plans \ {p} : status'[q] = status[q]
    BY <1>1, <2>1, WriteTypes
  <2>3. TypeOK'
    BY <2>1, <2>2 DEF TypeOK, orgVars
  <2>4. approver'[p] = u /\ \A q \in Plans \ {p} : approver'[q] = approver[q]
    BY <2>1 DEF TypeOK
  <2>5. ApprovalInv'
    BY <2>1, <2>2, <2>4 DEF ApprovalInv, Run
  <2>6. SucceededIsAccepted'
    BY <2>1, <2>2 DEF SucceededIsAccepted
  <2> QED
    BY <1>10, <1>2, <2>1, <2>2, <2>3, <2>4, <2>5, <2>6, QuietStep DEF orgVars, Run
<1>5. ASSUME NEW s \in {"REJECTED", "CANCELLED", "EXPIRED", "CHECK_REQUIRED"}, Write(p, s),
             UNCHANGED <<orgVars, requester, approver, scheduled, window, call, sent, late>>,
             \/ status[p] \in {"PENDING", "APPROVED"} /\ s # "CHECK_REQUIRED"
             \/ status[p] = "RUNNING" /\ s = "CHECK_REQUIRED"
      PROVE  IInv'
  <2>2. /\ status' \in [Plans -> Statuses] /\ untouched' \in [Plans -> BOOLEAN]
        /\ status'[p] = s /\ \A q \in Plans \ {p} : status'[q] = status[q]
    BY <1>1, <1>5, WriteTypes
  <2>3. TypeOK'
    BY <1>5, <2>2 DEF TypeOK, orgVars
  <2>4. ApprovalInv'
    BY <1>5, <2>2 DEF ApprovalInv, Run
  <2>5. SucceededIsAccepted'
    BY <1>5, <2>2 DEF SucceededIsAccepted
  <2> QED
    BY <1>10, <1>2, <1>5, <2>2, <2>3, <2>4, <2>5, QuietStep DEF orgVars, Run
<1>6. ASSUME Tick(p) \/ Age(p) PROVE IInv'
  <2>1. UNCHANGED <<orgVars, status, requester, approver, call, sent, late>>
    BY <1>6 DEF Tick, Age
  <2>2. TypeOK'
    BY <1>6, <2>1 DEF TypeOK, Tick, Age, orgVars
  <2>3. ApprovalInv' /\ SucceededIsAccepted'
    BY <2>1 DEF ApprovalInv, SucceededIsAccepted
  <2> QED
    BY <1>10, <1>2, <2>1, <2>2, <2>3, QuietStep DEF orgVars
<1>7. ASSUME NEW u \in Users, NEW s \in {"REJECTED", "CANCELLED"}, Withdraw(p, u, s) PROVE IInv'
  BY <1>5, <1>7 DEF Withdraw, Cancellable
<1>8. CASE Expire(p)
  BY <1>5, <1>8 DEF Expire
<1>9. CASE Interrupt(p)
  BY <1>5, <1>9 DEF Interrupt, Interrupted
<1> QED
  BY <1>3, <1>4, <1>6, <1>7, <1>8, <1>9 DEF Review

\* Calls before their claim, calls that die, results saved for a plan.
LEMMA CallStepIInv ==
  ASSUME IInv, NEW x \in Calls,
         \/ \E p \in Plans : Select(x, p) \/ \E u \in Users : Execute(x, p, u)
         \/ Load(x) \/ Check(x) \/ Crash(x) \/ Record(x)
  PROVE  IInv'
<1> USE DEF IInv
<1>1. \A y \in Calls : call[y].pc \in Claimed =>
        call[y].plan \in Plans /\ status[call[y].plan] \in {"RUNNING", "CHECK_REQUIRED"}
  BY ExecutingPlan
<1>2. UNCHANGED <<orgVars, status, requester, approver, scheduled, window, sent, late>>
  BY DEF Select, Execute, Load, Check, CheckFact, Crash, Record, planVars
<1>3. untouched' \in [Plans -> BOOLEAN]
  <2>1. CASE Record(x)
    BY <2>1 DEF Record, TypeOK
  <2> QED
    BY <2>1 DEF Select, Execute, Load, Check, CheckFact, Crash, planVars, TypeOK
<1> DEFINE Quiet ==
  /\ call' \in [Calls -> {Idle} \cup CallRecords]
  /\ \A y \in Calls \ {x} : call'[y] = call[y]
  /\ call'[x].pc \in Claimed =>
       /\ call[x].pc \in Claimed /\ call'[x].pc \notin {"approver", "mode", "send"}
       /\ call'[x].plan = call[x].plan
       /\ call'[x].results = call[x].results /\ call'[x].resource = call[x].resource
  /\ call'[x].pc \in Unclaimed => call'[x].results = NoResults
<1>4. Quiet
  <2>1. ASSUME NEW p \in Plans, NEW s \in BOOLEAN, Begin(x, p, s) PROVE Quiet
    BY <2>1, BeginTypes DEF Claimed
  <2>2. ASSUME Leave(x) PROVE Quiet
    BY <2>2, LeaveTypes DEF Claimed, Unclaimed
  <2>3. ASSUME NEW pc \in (Unclaimed \ {"load"}) \cup {"blocked"}, call[x].pc \in Unclaimed \ {"claim"},
               Goto(x, pc)
        PROVE  Quiet
    BY <2>3, GotoTypes DEF Claimed, PCs, NotYetRun, Unclaimed
  <2>4. ASSUME call[x].pc \in Unclaimed \ {"claim"}, Refuse(x) PROVE Quiet
    BY <2>2, <2>3, <2>4 DEF Refuse
  <2>5. CASE \E p \in Plans : Select(x, p) \/ \E u \in Users : Execute(x, p, u)
    BY <2>1, <2>5 DEF Select, Execute
  <2>6. CASE Load(x) \/ Check(x)
    BY <2>3, <2>4, <2>6 DEF Load, Check, CheckFact, At, Unclaimed
  <2>7. CASE Crash(x)
    BY <2>2, <2>7 DEF Crash
  <2>8. CASE Record(x)
    <3>1. call[x].pc = "record" /\ (Goto(x, "loop") \/ Goto(x, "finish"))
      BY <2>8 DEF Record, At
    <3> QED
      BY <3>1, GotoTypes DEF Claimed, PCs, Unclaimed
  <2> QED
    BY <2>5, <2>6, <2>7, <2>8
<1>5. TypeOK'
  BY <1>2, <1>3, <1>4 DEF TypeOK, CallRecords, orgVars
<1>6. ApprovalInv' /\ SucceededIsAccepted' /\ NotYetRun'
  BY <1>2, <1>4 DEF ApprovalInv, SucceededIsAccepted, NotYetRun
<1> QED
  BY <1>1, <1>2, <1>4, <1>5, <1>6, QuietStep DEF orgVars

-----------------------------------------------------------------------------
(* The claim, the commands and the end of an execution.                    *)

\* A plan that is claimed was APPROVED, so that no call is executing it.
LEMMA ClaimIInv ==
  ASSUME IInv, NEW x \in Calls, Claim(x)
  PROVE  IInv'
<1> USE DEF IInv
<1> DEFINE p == call[x].plan
<1>1. call[x].pc = "claim" /\ UNCHANGED <<orgVars, requester, approver, scheduled, window, sent, late>>
  BY DEF Claim, At
<1>2. p \in Plans /\ call[x] \in CallRecords
  BY <1>1, CallType DEF CallRecords
<1>3. \A y \in Calls : call[y].pc \in Claimed =>
        call[y].plan \in Plans /\ status[call[y].plan] \in {"RUNNING", "CHECK_REQUIRED"}
  BY ExecutingPlan
<1>4. CASE ~ Claimable(p)
  <2>1. status' = status /\ untouched' = untouched /\ Refuse(x)
    BY <1>4 DEF Claim
  <2>2. /\ call' \in [Calls -> {Idle} \cup CallRecords]
        /\ \A y \in Calls \ {x} : call'[y] = call[y]
        /\ call'[x].pc \in {"idle", "blocked"}
    BY <1>1, <2>1, GotoTypes, LeaveTypes DEF Refuse, PCs, Claimed
  <2>3. TypeOK'
    BY <1>1, <2>1, <2>2 DEF TypeOK, CallRecords, orgVars
  <2>4. ApprovalInv' /\ SucceededIsAccepted' /\ NotYetRun'
    BY <1>1, <2>1, <2>2 DEF ApprovalInv, SucceededIsAccepted, NotYetRun, Unclaimed
  <2> QED
    BY <1>1, <1>3, <2>1, <2>2, <2>3, <2>4, QuietStep DEF orgVars, Claimed
<1>5. CASE Claimable(p)
  <2>1. status[p] = "APPROVED" /\ Write(p, "RUNNING") /\ Goto(x, "loop")
    BY <1>5 DEF Claim, Claimable
  <2>2. /\ status' \in [Plans -> Statuses] /\ untouched' \in [Plans -> BOOLEAN]
        /\ status'[p] = "RUNNING" /\ \A q \in Plans \ {p} : status'[q] = status[q]
    BY <1>2, <2>1, WriteTypes DEF Statuses
  <2>3. /\ call' \in [Calls -> {Idle} \cup CallRecords]
        /\ \A y \in Calls \ {x} : call'[y] = call[y]
        /\ call'[x].pc = "loop" /\ call'[x].plan = p
        /\ call'[x].results = call[x].results
    BY <1>1, <2>1, GotoTypes DEF PCs, Claimed
  <2>4. TypeOK'
    BY <1>1, <2>2, <2>3 DEF TypeOK, CallRecords, orgVars
  <2>5. \A y \in Calls : call[y].pc \in Claimed => call[y].plan # p
    BY <1>3, <2>1
  <2>6. OneExecution'
    BY <2>3, <2>5 DEF OneExecution
  <2>7. \A r \in Resources : sent[p][r] = 0
    BY <1>2, <2>1 DEF FreshInv, Run
  <2>8. call[x].results = NoResults
    BY <1>1 DEF NotYetRun, Unclaimed
  <2>9. ExecutionInv'
    <3> SUFFICES ASSUME NEW y \in Calls, call'[y].pc \in Claimed PROVE Knows(y)'
      BY DEF ExecutionInv
    <3>1. CASE y = x
      BY <1>1, <2>2, <2>3, <2>7, <2>8, <3>1 DEF Knows, NoResults
    <3>2. CASE y # x
      <4>1. call'[y] = call[y] /\ call[y].plan \in Plans \ {p} /\ Knows(y)
        BY <1>3, <2>3, <2>5, <3>2 DEF ExecutionInv
      <4>2. status'[call[y].plan] = status[call[y].plan]
        BY <2>2, <4>1
      <4> QED
        BY <1>1, <4>1, <4>2 DEF Knows
    <3> QED
      BY <3>1, <3>2
  <2>10. FreshInv' /\ ApprovalInv'
    BY <1>1, <2>1, <2>2 DEF FreshInv, ApprovalInv, Run
  <2>11. LateInv'
    BY <1>1 DEF LateInv, Holds, Requests, Approves, orgVars
  <2>12. SentAtMostOnce' /\ SucceededIsAccepted'
    BY <1>1, <2>2 DEF SentAtMostOnce, SucceededIsAccepted
  <2>13. NotYetRun'
    BY <2>3 DEF NotYetRun, Unclaimed
  <2> QED
    BY <2>4, <2>6, <2>9, <2>10, <2>11, <2>12, <2>13
<1> QED
  BY <1>4, <1>5

\* Nothing was sent against the facts that were read before a call is at pc.
NoneAgainst(p, pc) ==
  /\ late[p]["requester may request"] = 0
  /\ pc # "approver" => late[p]["approver may approve"] = 0
  /\ pc = "send" => late[p]["action mode is on"] = 0

\* A read that finds the fact lets the call go on: nothing was sent against that fact. One that
\* does not notes the resource.
LEMMA RecheckFactIInv ==
  ASSUME IInv, NEW x \in Calls, NEW r \in Resources, NEW f \in Facts,
         NEW next \in {"approver", "mode", "send"},
         call[x].pc \in Claimed, call[x].results[r] = "none",
         RecheckFact(x, r, f, next),
         late[call[x].plan][f] = 0 => NoneAgainst(call[x].plan, next)
  PROVE  IInv'
<1> USE DEF IInv
<1> DEFINE p == call[x].plan
<1>1. UNCHANGED <<orgVars, planVars, sent, late>>
  BY DEF RecheckFact
<1>2. call[x].pc # "idle"
  BY DEF Claimed
<1>3. p \in Plans /\ call[x] \in CallRecords /\ Knows(x)
  BY <1>2, CallType DEF CallRecords, ExecutionInv
<1>4. ApprovalInv' /\ LateInv' /\ FreshInv' /\ SentAtMostOnce' /\ SucceededIsAccepted'
  BY <1>1 DEF ApprovalInv, LateInv, FreshInv, SentAtMostOnce, SucceededIsAccepted, Holds,
              Requests, Approves, orgVars, planVars
<1>5. ASSUME /\ call' \in [Calls -> {Idle} \cup CallRecords]
             /\ \A y \in Calls \ {x} : call'[y] = call[y]
             /\ call'[x].pc \in {"approver", "mode", "send", "record"} /\ call'[x].plan = p,
             Knows(x)'
      PROVE  IInv'
  <2>1. TypeOK'
    BY <1>1, <1>5 DEF TypeOK, CallRecords, orgVars, planVars
  <2>2. OneExecution'
    BY <1>5 DEF OneExecution
  <2>3. ExecutionInv'
    <3> SUFFICES ASSUME NEW y \in Calls \ {x}, call'[y].pc \in Claimed PROVE Knows(y)'
      BY <1>5 DEF ExecutionInv
    <3>1. call'[y] = call[y] /\ Knows(y)
      BY <1>5 DEF ExecutionInv
    <3> QED
      BY <1>1, <3>1 DEF Knows, planVars
  <2>4. NotYetRun'
    BY <1>5 DEF NotYetRun, Unclaimed
  <2> QED
    BY <1>4, <2>1, <2>2, <2>3, <2>4
<1>6. CASE /\ MayGoOn(p, f)
           /\ call' = [call EXCEPT ![x].pc = next, ![x].resource = r]
  <2> DEFINE c == [call[x] EXCEPT !.pc = next, !.resource = r]
  <2>1. call' = [call EXCEPT ![x] = c]
    BY <1>6
  <2>2. /\ c \in CallRecords /\ c.pc = next /\ c.plan = p /\ c.resource = r
        /\ c.results = call[x].results
    BY <1>3 DEF CallRecords, PCs, Claimed
  <2> HIDE DEF c
  <2>3. call \in [Calls -> {Idle} \cup CallRecords]
    BY DEF TypeOK, CallRecords
  <2>4. /\ call' \in [Calls -> {Idle} \cup CallRecords] /\ call'[x] = c
        /\ \A y \in Calls \ {x} : call'[y] = call[y]
    BY <2>1, <2>2, <2>3
  <2>5. late[p][f] = 0
    <3>1. late[p][f] \in Nat
      BY <1>3 DEF TypeOK
    <3> QED
      BY <1>3, <1>6, <3>1 DEF LateInv, MayGoOn
  <2>6. Knows(x)'
    BY <1>1, <1>3, <2>2, <2>4, <2>5 DEF Knows, planVars, NoneAgainst
  <2> QED
    BY <1>5, <2>2, <2>4, <2>6
<1>7. CASE NotConfirmed(x, r)
  <2>1. TypeOK
    OBVIOUS
  <2> HIDE DEF IInv
  <2>2. /\ call' \in [Calls -> {Idle} \cup CallRecords]
        /\ \A y \in Calls \ {x} : call'[y] = call[y]
        /\ call'[x].pc = "record" /\ call'[x].plan = call[x].plan
        /\ call'[x].results[r] = "CHECK_REQUIRED"
        /\ \A q \in Resources \ {r} : call'[x].results[q] = call[x].results[q]
    BY <1>2, <1>7, <2>1, NotConfirmedTypes
  <2> USE DEF IInv
  <2>3. Knows(x)'
    BY <1>1, <1>3, <2>2 DEF Knows, planVars
  <2> QED
    BY <1>5, <2>2, <2>3
<1> QED
  BY <1>6, <1>7 DEF RecheckFact

\* The three reads, one after the other.
LEMMA RecheckIInv ==
  ASSUME IInv, NEW x \in Calls, NEW r \in Resources, Recheck(x, r)
  PROVE  IInv'
<1>1. call[x].pc \in {"loop", "approver", "mode"} /\ call[x].pc \in Claimed
  BY DEF Recheck, At, Claimed
<1>2. Knows(x)
  BY <1>1 DEF IInv, ExecutionInv
<1>3. CASE call[x].pc = "loop"
  <2>1. call[x].results[r] = "none" /\ RecheckFact(x, r, "requester may request", "approver")
    BY <1>3 DEF Recheck, At
  <2> QED
    BY <1>1, <2>1, RecheckFactIInv DEF Facts, NoneAgainst
<1>4. CASE call[x].pc = "approver"
  <2>1. r = call[x].resource /\ RecheckFact(x, r, "approver may approve", "mode")
    BY <1>4 DEF Recheck, At
  <2>2. call[x].results[r] = "none" /\ late[call[x].plan]["requester may request"] = 0
    BY <1>2, <1>4, <2>1 DEF Knows
  <2> QED
    BY <1>1, <2>1, <2>2, RecheckFactIInv DEF Facts, NoneAgainst
<1>5. CASE call[x].pc = "mode"
  <2>1. r = call[x].resource /\ RecheckFact(x, r, "action mode is on", "send")
    BY <1>5 DEF Recheck, At
  <2>2. /\ call[x].results[r] = "none" /\ late[call[x].plan]["requester may request"] = 0
        /\ late[call[x].plan]["approver may approve"] = 0
    BY <1>2, <1>5, <2>1 DEF Knows
  <2> QED
    BY <1>1, <2>1, <2>2, RecheckFactIInv DEF Facts, NoneAgainst
<1> QED
  BY <1>1, <1>3, <1>4, <1>5

\* A command goes out for a resource that had none.
LEMMA SendIInv ==
  ASSUME IInv, NEW x \in Calls,
         Send(x, "ACCEPTED") \/ Send(x, "CHECK_REQUIRED") \/ SendFails(x)
  PROVE  IInv'
<1> USE DEF IInv
<1> DEFINE p == call[x].plan
<1>1. call[x].pc = "send" /\ UNCHANGED <<orgVars, planVars>>
  BY DEF Send, SendFails, At
<1>2. call[x].pc \in Claimed /\ call[x].pc # "idle"
  BY <1>1 DEF Claimed
<1>3. p \in Plans /\ call[x] \in CallRecords /\ Knows(x)
  BY <1>2, CallType DEF CallRecords, ExecutionInv
<1>4. PICK r \in Resources :
        /\ r = call[x].resource /\ call[x].results[r] = "none"
        /\ (\A f \in Facts : late[p][f] = 0) /\ sent[p][r] = 0
        /\ status[p] \in {"RUNNING", "CHECK_REQUIRED"}
  BY <1>1, <1>3 DEF Knows, Facts
<1>5. PICK a \in {"ACCEPTED", "CHECK_REQUIRED"} :
        /\ call' = [call EXCEPT ![x].pc = "record", ![x].results[r] = a]
        /\ \/ /\ sent' = [sent EXCEPT ![p][r] = sent[p][r] + 1]
              /\ late' = [late EXCEPT ![p] =
                             [f \in Facts |-> IF Holds(p, f) THEN late[p][f] ELSE late[p][f] + 1]]
           \/ a = "CHECK_REQUIRED" /\ sent' = sent /\ late' = late
  BY <1>4 DEF Send, SendFails
<1>6. /\ call' \in [Calls -> {Idle} \cup CallRecords]
      /\ \A y \in Calls \ {x} : call'[y] = call[y]
      /\ call'[x].pc = "record" /\ call'[x].plan = p
      /\ call'[x].results[r] = a
      /\ \A q \in Resources \ {r} : call'[x].results[q] = call[x].results[q]
  <2>1. call' = [call EXCEPT ![x] = [call[x] EXCEPT !.pc = "record", !.resource = r,
                                       !.results = [call[x].results EXCEPT ![r] = a]]]
    <3>1. [call[x] EXCEPT !.pc = "record", !.resource = r,
                          !.results = [call[x].results EXCEPT ![r] = a]]
          = [call[x] EXCEPT !.pc = "record", !.results = [call[x].results EXCEPT ![r] = a]]
      BY <1>3, <1>4 DEF CallRecords
    <3> QED
      BY <1>5, <3>1
  <2>2. a \in Results /\ r \in Resources \cup {NoResource}
    BY DEF Results
  <2> QED
    BY <1>2, <2>1, <2>2, NoteTypes
<1>7. /\ sent' \in [Plans -> [Resources -> Nat]] /\ late' \in [Plans -> [Facts -> Nat]]
      /\ \A q \in Plans \ {p} : sent'[q] = sent[q] /\ late'[q] = late[q]
      /\ \A q \in Resources \ {r} : sent'[p][q] = sent[p][q]
      /\ sent'[p][r] \in {0, 1} /\ (a = "ACCEPTED" => sent'[p][r] = 1)
      /\ \A f \in Facts : late'[p][f] <= 1 /\ (late'[p][f] > 0 => ~ Holds(p, f))
  <2>1. CASE sent' = sent /\ late' = late /\ a = "CHECK_REQUIRED"
    BY <1>3, <1>4, <2>1 DEF TypeOK
  <2>2. CASE /\ sent' = [sent EXCEPT ![p][r] = sent[p][r] + 1]
             /\ late' = [late EXCEPT ![p] =
                             [f \in Facts |-> IF Holds(p, f) THEN late[p][f] ELSE late[p][f] + 1]]
    <3>1. sent' = [sent EXCEPT ![p] = [sent[p] EXCEPT ![r] = 1]]
      BY <1>4, <2>2
    <3>2. /\ sent' \in [Plans -> [Resources -> Nat]]
          /\ \A q \in Plans \ {p} : sent'[q] = sent[q]
          /\ \A q \in Resources \ {r} : sent'[p][q] = sent[p][q]
          /\ sent'[p][r] = 1
      BY <1>3, <1>4, <3>1 DEF TypeOK
    <3>3. late' = [late EXCEPT ![p] = [f \in Facts |-> IF Holds(p, f) THEN 0 ELSE 1]]
      <4>1. \A f \in Facts : (IF Holds(p, f) THEN late[p][f] ELSE late[p][f] + 1)
                             = (IF Holds(p, f) THEN 0 ELSE 1)
        BY <1>4
      <4>2. [f \in Facts |-> IF Holds(p, f) THEN late[p][f] ELSE late[p][f] + 1]
            = [f \in Facts |-> IF Holds(p, f) THEN 0 ELSE 1]
        BY <4>1, Zenon
      <4> QED
        BY <2>2, <4>2, Zenon
    <3>4. /\ late' \in [Plans -> [Facts -> Nat]] /\ \A q \in Plans \ {p} : late'[q] = late[q]
          /\ \A f \in Facts : late'[p][f] = IF Holds(p, f) THEN 0 ELSE 1
      BY <1>3, <3>3 DEF TypeOK
    <3> QED
      BY <3>2, <3>4
  <2> QED
    BY <1>5, <2>1, <2>2
<1>8. TypeOK'
  BY <1>1, <1>6, <1>7 DEF TypeOK, CallRecords, orgVars, planVars
<1>9. OneExecution'
  BY <1>2, <1>6 DEF OneExecution
<1>10. ExecutionInv'
  <2> SUFFICES ASSUME NEW y \in Calls, call'[y].pc \in Claimed PROVE Knows(y)'
    BY DEF ExecutionInv
  <2>1. CASE y = x
    <3>1. \A q \in Resources :
            /\ call'[x].results[q] = "none" => sent'[p][q] = 0
            /\ call'[x].results[q] = "ACCEPTED" => sent'[p][q] = 1
      <4> SUFFICES ASSUME NEW q \in Resources
                   PROVE  /\ call'[x].results[q] = "none" => sent'[p][q] = 0
                          /\ call'[x].results[q] = "ACCEPTED" => sent'[p][q] = 1
        OBVIOUS
      <4>1. CASE q = r
        BY <1>6, <1>7, <4>1
      <4>2. CASE q # r
        BY <1>3, <1>6, <1>7, <4>2 DEF Knows
      <4> QED
        BY <4>1, <4>2
    <3> QED
      BY <1>1, <1>4, <1>6, <2>1, <3>1 DEF Knows, planVars
  <2>2. CASE y # x
    <3>1. call'[y] = call[y] /\ call[y].pc \in Claimed /\ call[y].plan # p
      BY <1>2, <1>6, <2>2 DEF OneExecution
    <3>2. Knows(y) /\ call[y].plan \in Plans \ {p}
      BY <3>1, ExecutingPlan DEF ExecutionInv
    <3> QED
      <4>1. sent'[call[y].plan] = sent[call[y].plan] /\ late'[call[y].plan] = late[call[y].plan]
        BY <1>7, <3>2
      <4> QED
        BY <1>1, <3>1, <3>2, <4>1 DEF Knows, planVars
  <2> QED
    BY <2>1, <2>2
<1>11. FreshInv' /\ ApprovalInv' /\ NotYetRun'
  <2>1. ApprovalInv' /\ NotYetRun'
    BY <1>1, <1>6 DEF ApprovalInv, NotYetRun, Unclaimed, planVars
  <2>2. FreshInv'
    BY <1>1, <1>4, <1>7 DEF FreshInv, Run, planVars
  <2> QED
    BY <2>1, <2>2
<1>12. LateInv'
  <2> SUFFICES ASSUME NEW q \in Plans, NEW f \in Facts
               PROVE  late'[q][f] <= 1 /\ (late'[q][f] > 0 => ~ Holds(q, f)')
    BY DEF LateInv
  <2>1. Holds(q, f)' = Holds(q, f)
    BY <1>1 DEF Holds, Requests, Approves, orgVars, planVars
  <2>2. CASE q = p
    BY <1>7, <2>1, <2>2
  <2>3. CASE q # p
    BY <1>7, <2>1, <2>3 DEF LateInv
  <2> QED
    BY <2>2, <2>3
<1>13. SentAtMostOnce'
  BY <1>7 DEF SentAtMostOnce
<1>14. SucceededIsAccepted'
  BY <1>1, <1>4, <1>7 DEF SucceededIsAccepted, planVars
<1> QED
  BY <1>8, <1>9, <1>10, <1>11, <1>12, <1>13, <1>14

\* The result says SUCCEEDED if every command was accepted, and the worker's catch block gives
\* a plan up that nobody has claimed.
LEMMA EndIInv ==
  ASSUME IInv, NEW x \in Calls, Finish(x) \/ Block(x)
  PROVE  IInv'
<1> USE DEF IInv
<1> DEFINE p == call[x].plan
<1>1. /\ Leave(x) /\ UNCHANGED <<orgVars, requester, approver, scheduled, window, sent, late>>
      /\ call[x].pc \in {"finish", "blocked"}
  BY DEF Finish, Block, At
<1>2. p \in Plans
  BY <1>1, CallType DEF CallRecords
<1>3. /\ call' \in [Calls -> {Idle} \cup CallRecords]
      /\ \A y \in Calls \ {x} : call'[y] = call[y]
      /\ call'[x].pc = "idle"
  BY <1>1, LeaveTypes
<1>4. \A y \in Calls : call[y].pc \in Claimed =>
        call[y].plan \in Plans /\ status[call[y].plan] \in {"RUNNING", "CHECK_REQUIRED"}
  BY ExecutingPlan
<1>5. NotYetRun'
  BY <1>3 DEF NotYetRun, Unclaimed
<1>6. CASE status' = status /\ untouched' = untouched
  <2>1. TypeOK'
    BY <1>1, <1>3, <1>6 DEF TypeOK, CallRecords, orgVars
  <2>2. ApprovalInv' /\ SucceededIsAccepted'
    BY <1>1, <1>6 DEF ApprovalInv, SucceededIsAccepted
  <2> QED
    BY <1>1, <1>3, <1>4, <1>5, <1>6, <2>1, <2>2, QuietStep DEF orgVars, Claimed
<1>7. ASSUME NEW s \in {"SUCCEEDED", "CHECK_REQUIRED"}, Write(p, s),
             status[p] \in {"RUNNING", "APPROVED"},
             \A y \in Calls \ {x} : call[y].pc \in Claimed => call[y].plan # p,
             s = "SUCCEEDED" => \A r \in Resources : sent[p][r] > 0
      PROVE  IInv'
  <2>1. /\ status' \in [Plans -> Statuses] /\ untouched' \in [Plans -> BOOLEAN]
        /\ status'[p] = s /\ \A q \in Plans \ {p} : status'[q] = status[q]
    BY <1>2, <1>7, WriteTypes DEF Statuses, Ended
  <2>2. TypeOK'
    BY <1>1, <1>3, <2>1 DEF TypeOK, CallRecords, orgVars
  <2>3. ApprovalInv'
    BY <1>1, <1>7, <2>1 DEF ApprovalInv, Run
  <2>4. SucceededIsAccepted'
    BY <1>1, <1>7, <2>1 DEF SucceededIsAccepted
  <2>5. \A y \in Calls : call'[y].pc \in Claimed =>
          /\ call'[y] = call[y] /\ status'[call[y].plan] \in {"RUNNING", "CHECK_REQUIRED"}
    BY <1>3, <1>4, <1>7, <2>1 DEF Claimed
  <2> QED
    BY <1>1, <1>5, <1>7, <2>1, <2>2, <2>3, <2>4, <2>5, QuietStep DEF orgVars, Run
<1>8. CASE Finish(x)
  <2>1. call[x].pc = "finish" /\ call[x].pc \in Claimed
    BY <1>8 DEF Finish, At, Claimed
  <2>2. \A y \in Calls \ {x} : call[y].pc \in Claimed => call[y].plan # p
    BY <2>1 DEF OneExecution
  <2>3. \A r \in Resources : call[x].results[r] = "ACCEPTED" => sent[p][r] = 1
    BY <2>1 DEF ExecutionInv, Knows
  <2>4. Result(call[x].results) = "SUCCEEDED" => \A r \in Resources : sent[p][r] > 0
    BY <2>3 DEF Result
  <2>5. Result(call[x].results) \in {"SUCCEEDED", "CHECK_REQUIRED"}
    BY DEF Result
  <2>6. \/ status[p] = "RUNNING" /\ Write(p, Result(call[x].results))
        \/ status' = status /\ untouched' = untouched
    BY <1>8 DEF Finish
  <2> QED
    BY <1>6, <1>7, <2>2, <2>4, <2>5, <2>6
<1>9. CASE Block(x)
  <2>1. \/ status[p] = "APPROVED" /\ Write(p, "CHECK_REQUIRED")
        \/ status' = status /\ untouched' = untouched
    BY <1>9 DEF Block
  <2>2. status[p] = "APPROVED" => \A y \in Calls \ {x} : call[y].pc \in Claimed => call[y].plan # p
    BY <1>4
  <2> QED
    BY <1>6, <1>7, <2>1, <2>2
<1> QED
  BY <1>8, <1>9

\* Whatever becomes of the workspace: what was sent late counts only while the authority is gone.
LEMMA OrgIInv ==
  ASSUME IInv, OrgChanges
  PROVE  IInv'
<1> USE DEF IInv
<1>1. UNCHANGED <<planVars, call, sent>>
  BY DEF OrgChanges
<1>2. late' = [q \in Plans |-> [f \in Facts |-> IF Holds(q, f)' THEN 0 ELSE late[q][f]]]
  BY DEF OrgChanges
<1>3. member' \in [Users -> Roles \cup {NoRole}] /\ actionMode' \in BOOLEAN
  BY OperationPlanAssumption DEF OrgChanges, TypeOK
<1>4. \A q \in Plans, f \in Facts : late'[q][f] \in {0, late[q][f]} /\ late'[q][f] \in Nat
  BY <1>2 DEF TypeOK
<1>5. TypeOK'
  BY <1>1, <1>2, <1>3, <1>4 DEF TypeOK, planVars
<1>6. OneExecution' /\ NotYetRun' /\ ApprovalInv' /\ SentAtMostOnce' /\ SucceededIsAccepted'
  BY <1>1 DEF OneExecution, NotYetRun, ApprovalInv, SentAtMostOnce, SucceededIsAccepted, planVars
<1>7. FreshInv'
  BY <1>1, <1>4 DEF FreshInv, planVars
<1>8. ExecutionInv'
  <2> SUFFICES ASSUME NEW x \in Calls, call[x].pc \in Claimed PROVE Knows(x)'
    BY <1>1 DEF ExecutionInv
  <2>1. Knows(x) /\ call[x].plan \in Plans
    BY ExecutingPlan DEF ExecutionInv
  <2>2. late[call[x].plan] \in [Facts -> Nat]
    BY <2>1 DEF TypeOK
  <2>3. \A f \in Facts : late[call[x].plan][f] = 0 => late'[call[x].plan][f] = 0
    BY <1>4, <2>1
  <2> QED
    BY <1>1, <2>1, <2>3 DEF Knows, planVars, Facts
<1>9. LateInv'
  <2> SUFFICES ASSUME NEW q \in Plans, NEW f \in Facts
               PROVE  late'[q][f] <= 1 /\ (late'[q][f] > 0 => ~ Holds(q, f)')
    BY DEF LateInv
  <2>1. late[q][f] <= 1 /\ late[q][f] \in Nat
    BY DEF LateInv, TypeOK
  <2>2. late'[q][f] <= 1
    BY <1>4, <2>1
  <2>3. late'[q][f] = IF Holds(q, f)' THEN 0 ELSE late[q][f]
    BY <1>2
  <2> QED
    BY <2>2, <2>3
<1> QED
  BY <1>5, <1>6, <1>7, <1>8, <1>9

-----------------------------------------------------------------------------
(* The theorems.                                                           *)

\* Every step keeps the invariant.
LEMMA NextIInv == IInv /\ [Next]_vars => IInv'
<1> SUFFICES ASSUME IInv, [Next]_vars PROVE IInv'
  OBVIOUS
<1>1. CASE UNCHANGED vars
  <2>1. TypeOK' /\ NotYetRun' /\ ApprovalInv' /\ SucceededIsAccepted'
    BY <1>1 DEF vars, orgVars, planVars, IInv, TypeOK, NotYetRun, ApprovalInv, SucceededIsAccepted
  <2>2. \A x \in Calls : call[x].pc \in Claimed =>
          status[call[x].plan] \in {"RUNNING", "CHECK_REQUIRED"}
    BY ExecutingPlan
  <2> QED
    BY <1>1, <2>1, <2>2, QuietStep DEF vars, orgVars, planVars
<1>2. ASSUME NEW x \in Calls, CallStep(x) PROVE IInv'
  BY <1>2, CallStepIInv, ClaimIInv, RecheckIInv, SendIInv, EndIInv DEF CallStep
<1>3. CASE Next
  BY <1>2, <1>3, PlanStepIInv, OrgIInv DEF Next
<1> QED
  BY <1>1, <1>3

\* No plan, no call.
LEMMA InitIInv == Init => IInv
<1> SUFFICES ASSUME Init PROVE IInv
  OBVIOUS
<1>1. member \in [Users -> Roles \cup {NoRole}]
  BY OperationPlanAssumption DEF Init
<1>2. \A x \in Calls : call[x] = Idle /\ call[x].pc = "idle"
  BY DEF Init, Idle
<1>3. TypeOK
  BY <1>1 DEF Init, TypeOK, Statuses
<1>4. OneExecution /\ ExecutionInv /\ NotYetRun
  BY <1>2 DEF OneExecution, ExecutionInv, NotYetRun, Claimed, Unclaimed
<1>5. FreshInv /\ ApprovalInv /\ LateInv /\ SentAtMostOnce /\ SucceededIsAccepted
  BY DEF Init, FreshInv, ApprovalInv, LateInv, SentAtMostOnce, SucceededIsAccepted, Run
<1> QED
  BY <1>3, <1>4, <1>5 DEF IInv

\* The invariant holds in every reachable state.
LEMMA InvariantHolds == Spec => []IInv
<1> QED
  BY InitIInv, NextIInv, PTL DEF Spec

\* The workspace, the plans and the calls keep their types.
THEOREM TypeCorrect == Spec => []TypeOK
<1>1. IInv => TypeOK
  BY DEF IInv
<1> QED
  BY <1>1, InvariantHolds, PTL

\* However many calls execute a plan, each of its commands goes out at most once.
THEOREM AtMostOnce == Spec => []SentAtMostOnce
<1>1. IInv => SentAtMostOnce
  BY DEF IInv
<1> QED
  BY <1>1, InvariantHolds, PTL

\* What reaches AWS was approved by a second person, and is never rejected, cancelled or expired.
THEOREM OnlyApproved == Spec => []OnlyApprovedReachesAws
<1>1. ASSUME IInv, NEW p \in Plans, \E r \in Resources : sent[p][r] > 0
      PROVE  /\ approver[p] \in Users \ {requester[p]}
             /\ status[p] \in {"RUNNING", "SUCCEEDED", "CHECK_REQUIRED"}
  <2>1. status[p] \in Run
    BY <1>1 DEF IInv, FreshInv
  <2>2. approver[p] \in Users
    BY <1>1, <2>1 DEF IInv, ApprovalInv
  <2> QED
    BY <1>1, <2>1, <2>2, OperationPlanAssumption DEF IInv, ApprovalInv, Run
<1>2. IInv => OnlyApprovedReachesAws
  BY <1>1 DEF OnlyApprovedReachesAws
<1> QED
  BY <1>2, InvariantHolds, PTL

\* A success means that every command took effect.
THEOREM Accepted == Spec => []SucceededIsAccepted
<1>1. IInv => SucceededIsAccepted
  BY DEF IInv
<1> QED
  BY <1>1, InvariantHolds, PTL

\* While one of the facts an execution rests on does not hold, at most one command goes out.
THEOREM Revocation == Spec => []RevocationStops
<1>1. IInv => RevocationStops
  BY DEF IInv, LateInv, RevocationStops
<1> QED
  BY <1>1, InvariantHolds, PTL
=============================================================================
