------------------------- MODULE NotificationProofs -------------------------
(***************************************************************************)
(* Proofs about Notification, for any deliveries, workers and budget.      *)
(***************************************************************************)
EXTENDS Notification, FiniteSetTheorems, TLAPS

PassTypes ==
  {IdlePass} \cup [pc : {"claim"} \cup Sending, row : Deliveries, seen : 0 .. MaxDeliveryAttempts - 1]

-----------------------------------------------------------------------------
(* The invariant.                                                          *)

\* The row of a pass that is sending is out of the reach of other claims.
SenderRow ==
  \A x \in Passes : pass[x].pc \in Sending => deliveryStatus[pass[x].row] \notin {"none", "PENDING"}

\* Each message was paid for with an attempt, the one about to be sent included.
Paid ==
  \A d \in Deliveries :
    /\ mailed[d] <= attempts[d]
    /\ (\E x \in Passes : pass[x].pc = "sending" /\ pass[x].row = d) => mailed[d] < attempts[d]

Claimants(d) == {x \in Passes : pass[x].pc = "claim" /\ pass[x].row = d}

\* Passes that have scanned a row may each add an attempt.
Bounded ==
  \A d \in Deliveries :
    attempts[d] + Cardinality(Claimants(d)) < MaxDeliveryAttempts + Cardinality(Passes)

IInv == DeliveryTypes /\ OneSender /\ SenderRow /\ Paid /\ Bounded

\* What the types say of a pass.
LEMMA PassType ==
  ASSUME DeliveryTypes, NEW x \in Passes
  PROVE  /\ pass[x].pc \in {"idle", "claim"} \cup Sending
         /\ pass[x] # IdlePass <=> pass[x].pc # "idle"
         /\ pass[x].pc # "idle" =>
              pass[x] \in [pc : {"claim"} \cup Sending, row : Deliveries, seen : 0 .. MaxDeliveryAttempts - 1]
BY DEF DeliveryTypes, IdlePass, Sending

\* An UPDATE of a row that may be gone.
LEMMA WriteTypes ==
  ASSUME DeliveryTypes, NEW d \in Deliveries, NEW s \in DeliveryStatuses, Write(d, s)
  PROVE  /\ deliveryStatus' \in [Deliveries -> DeliveryStatuses] /\ old' \in [Deliveries -> BOOLEAN]
         /\ \A e \in Deliveries \ {d} : deliveryStatus'[e] = deliveryStatus[e]
         /\ deliveryStatus'[d] \in {s, "removed"}
BY DEF DeliveryTypes, Write

\* A pass goes from one of its places to another.
LEMMA GotoTypes ==
  ASSUME DeliveryTypes, NEW x \in Passes, pass[x].pc # "idle", NEW pc \in {"claim"} \cup Sending,
         PassGoto(x, pc)
  PROVE  /\ pass' \in [Passes -> PassTypes]
         /\ \A y \in Passes \ {x} : pass'[y] = pass[y]
         /\ pass'[x].pc = pc /\ pass'[x].row = pass[x].row
<1>1. pass[x] \in [pc : {"claim"} \cup Sending, row : Deliveries, seen : 0 .. MaxDeliveryAttempts - 1]
  BY PassType
<1>2. pass' = [pass EXCEPT ![x] = [pass[x] EXCEPT !.pc = pc]]
  BY DEF PassGoto
<1>3. [pass[x] EXCEPT !.pc = pc] \in
        [pc : {"claim"} \cup Sending, row : Deliveries, seen : 0 .. MaxDeliveryAttempts - 1]
  BY <1>1
<1>4. pass \in [Passes -> PassTypes]
  BY DEF DeliveryTypes, PassTypes
<1> QED
  BY <1>1, <1>2, <1>3, <1>4 DEF PassTypes

\* A pass that is left is idle.
LEMMA LeaveTypes ==
  ASSUME DeliveryTypes, NEW x \in Passes, Leave(x)
  PROVE  /\ pass' \in [Passes -> PassTypes]
         /\ \A y \in Passes \ {x} : pass'[y] = pass[y]
         /\ pass'[x] = IdlePass
BY DEF DeliveryTypes, PassTypes, Leave

-----------------------------------------------------------------------------
(* Each conjunct, by what a step may do to rows and passes.                *)

\* Of a step that starts no sender and puts no row back while it is being sent.
LEMMA SendersKept ==
  ASSUME OneSender, SenderRow,
         \A x \in Passes : pass'[x].pc \in Sending =>
           pass[x].pc \in Sending /\ pass'[x].row = pass[x].row,
         \A x \in Passes : pass'[x].pc \in Sending =>
           deliveryStatus'[pass[x].row] \notin {"none", "PENDING"}
  PROVE  OneSender' /\ SenderRow'
BY DEF OneSender, SenderRow

\* Of a step in which nobody is mailed and nobody claims.
LEMMA PaidKept ==
  ASSUME Paid, mailed' = mailed, attempts' = attempts,
         \A x \in Passes : pass'[x].pc = "sending" =>
           pass[x].pc = "sending" /\ pass'[x].row = pass[x].row
  PROVE  Paid'
BY DEF Paid

\* The passes that have scanned a row are some of the passes.
LEMMA ClaimantsFinite ==
  ASSUME NEW d
  PROVE  /\ IsFiniteSet(Claimants(d)) /\ Cardinality(Claimants(d)) \in Nat
         /\ Cardinality(Claimants(d)) <= Cardinality(Passes)
         /\ IsFiniteSet(Passes) /\ Cardinality(Passes) \in Nat
<1>1. IsFiniteSet(Passes)
  BY NotificationAssumption
<1>2. Claimants(d) \in SUBSET Passes
  BY DEF Claimants
<1> QED
  BY <1>1, <1>2, FS_Subset, FS_CardinalityType

\* The same of the next state.
LEMMA ClaimantsFiniteNext ==
  ASSUME NEW d
  PROVE  IsFiniteSet(Claimants(d)') /\ Cardinality(Claimants(d)') \in Nat
         /\ Cardinality(Claimants(d)') <= Cardinality(Passes)
<1>1. IsFiniteSet(Passes)
  BY NotificationAssumption
<1>2. Claimants(d)' \in SUBSET Passes
  BY DEF Claimants
<1> QED
  BY <1>1, <1>2, FS_Subset, FS_CardinalityType

\* Of a step after which no row has more attempts and more passes that scanned it.
LEMMA BoundedKept ==
  ASSUME DeliveryTypes, Bounded, attempts' = attempts,
         \A x \in Passes : pass'[x].pc = "claim" =>
           pass[x].pc = "claim" /\ pass'[x].row = pass[x].row
  PROVE  Bounded'
<1>1. ASSUME NEW d \in Deliveries
      PROVE  attempts'[d] + Cardinality(Claimants(d)') < MaxDeliveryAttempts + Cardinality(Passes)
  <2>1. Claimants(d)' \in SUBSET Claimants(d)
    BY DEF Claimants
  <2>2. Cardinality(Claimants(d)') <= Cardinality(Claimants(d))
    BY <2>1, ClaimantsFinite, FS_Subset
  <2>3. attempts[d] \in Nat /\ MaxDeliveryAttempts \in Nat
    BY NotificationAssumption DEF DeliveryTypes
  <2> QED
    BY <2>2, <2>3, ClaimantsFinite, ClaimantsFiniteNext DEF Bounded
<1> QED
  BY <1>1 DEF Bounded, Claimants

-----------------------------------------------------------------------------
(* One lemma for each kind of step.                                        *)

\* Steps that write a row and no pass.
LEMMA RowStepIInv ==
  ASSUME IInv, NEW d \in Deliveries,
         Queue(d) \/ Remove(d) \/ Interrupt(d) \/ ComeDue(d) \/ AgeDelivery(d)
  PROVE  IInv'
<1> USE DEF IInv
<1>1. pass' = pass /\ mailed' = mailed /\ attempts' = attempts /\ overtaken' = overtaken
  BY DEF Queue, Remove, Interrupt, ComeDue, AgeDelivery
<1>2. {"PENDING", "removed", "CHECK_REQUIRED"} \subseteq DeliveryStatuses
  BY DEF DeliveryStatuses, DeliveryEnded
<1>3. /\ deliveryStatus' \in [Deliveries -> DeliveryStatuses] /\ old' \in [Deliveries -> BOOLEAN]
      /\ due' \in [Deliveries -> BOOLEAN]
      /\ \A e \in Deliveries : deliveryStatus'[e] = deliveryStatus[e] \/ deliveryStatus[e] = "none"
                               \/ deliveryStatus'[e] \in {"removed", "CHECK_REQUIRED"}
  <2>1. CASE Queue(d)
    BY <1>2, <2>1, WriteTypes DEF Queue, DeliveryTypes
  <2>2. CASE Remove(d)
    BY <1>2, <2>2, WriteTypes DEF Remove, DeliveryTypes
  <2>3. CASE Interrupt(d)
    BY <1>2, <2>3, WriteTypes DEF Interrupt, AfterInterrupt, DeliveryTypes
  <2>4. CASE ComeDue(d)
    BY <2>4 DEF ComeDue, DeliveryTypes
  <2>5. CASE AgeDelivery(d)
    BY <2>5 DEF AgeDelivery, DeliveryTypes
  <2> QED
    BY <2>1, <2>2, <2>3, <2>4, <2>5
<1>4. DeliveryTypes'
  BY <1>1, <1>3 DEF DeliveryTypes
<1>5. \A x \in Passes : pass[x].pc \in Sending => pass[x].row \in Deliveries
  BY PassType DEF Sending
<1>6. OneSender' /\ SenderRow'
  BY <1>1, <1>3, <1>5, SendersKept DEF SenderRow
<1>7. Paid'
  BY <1>1, PaidKept
<1>8. Bounded'
  BY <1>1, BoundedKept
<1> QED
  BY <1>4, <1>6, <1>7, <1>8

\* A scan adds a pass to those that may claim a row whose budget lasts.
LEMMA ScanIInv ==
  ASSUME IInv, NEW x \in Passes, NEW d \in Deliveries, Scan(x, d)
  PROVE  IInv'
<1> USE DEF IInv
<1>1. /\ deliveryStatus' = deliveryStatus /\ attempts' = attempts /\ due' = due /\ old' = old
      /\ mailed' = mailed /\ overtaken' = overtaken
  BY DEF Scan, rowVars
<1>2. attempts[d] \in Nat /\ attempts[d] < MaxDeliveryAttempts /\ MaxDeliveryAttempts \in Nat
  BY NotificationAssumption DEF Scan, InBudget, DeliveryTypes
<1>3. pass' = [pass EXCEPT ![x] = [pc |-> "claim", row |-> d, seen |-> attempts[d]]]
  BY DEF Scan
<1>4. attempts[d] \in 0 .. MaxDeliveryAttempts - 1
  BY <1>2
<1>5. pass' \in [Passes -> PassTypes]
  BY <1>3, <1>4 DEF DeliveryTypes, PassTypes
<1>6. DeliveryTypes'
  BY <1>1, <1>5 DEF DeliveryTypes, PassTypes
<1>7. /\ \A y \in Passes \ {x} : pass'[y] = pass[y]
      /\ pass'[x].pc = "claim" /\ pass'[x].row = d
  BY <1>3 DEF DeliveryTypes
<1>8. OneSender' /\ SenderRow'
  BY <1>1, <1>7, SendersKept DEF SenderRow, Sending
<1>9. Paid'
  BY <1>1, <1>7, PaidKept
<1>10. ASSUME NEW e \in Deliveries
       PROVE  attempts'[e] + Cardinality(Claimants(e)') < MaxDeliveryAttempts + Cardinality(Passes)
  <2>1. CASE e = d
    <3>1. attempts'[e] \in Nat /\ attempts'[e] < MaxDeliveryAttempts
      BY <1>1, <1>2, <2>1
    <3>2. /\ Cardinality(Claimants(e)') \in Nat
          /\ Cardinality(Claimants(e)') <= Cardinality(Passes)
      BY ClaimantsFiniteNext
    <3>3. Cardinality(Passes) \in Nat
      BY ClaimantsFinite
    <3> QED
      BY <1>2, <3>1, <3>2, <3>3
  <2>2. CASE e # d
    <3>1. Claimants(e)' \in SUBSET Claimants(e)
      BY <1>7, <2>2 DEF Claimants
    <3>2. Cardinality(Claimants(e)') <= Cardinality(Claimants(e))
      BY <3>1, ClaimantsFinite, FS_Subset
    <3>3. attempts[e] \in Nat
      BY DEF DeliveryTypes
    <3> QED
      BY <1>1, <1>2, <3>2, <3>3, ClaimantsFinite, ClaimantsFiniteNext DEF Bounded
  <2> QED
    BY <2>1, <2>2
<1>11. Bounded'
  BY <1>10 DEF Bounded, Claimants
<1> QED
  BY <1>6, <1>8, <1>9, <1>11

\* A claim succeeds only on a row nobody is sending; its attempt was kept for this pass.
LEMMA ClaimIInv ==
  ASSUME IInv, NEW x \in Passes, Claim(x)
  PROVE  IInv'
<1> USE DEF IInv
<1> DEFINE d == pass[x].row
<1>1. pass[x].pc = "claim" /\ due' = due /\ mailed' = mailed
  BY DEF Claim, At
<1>2. d \in Deliveries
  BY <1>1, PassType
<1>3. CASE ~ Claimable(d)
  <2>1. /\ deliveryStatus' = deliveryStatus /\ old' = old /\ attempts' = attempts
        /\ overtaken' = overtaken /\ Leave(x)
    BY <1>3 DEF Claim
  <2>2. /\ pass' \in [Passes -> PassTypes]
        /\ \A y \in Passes \ {x} : pass'[y] = pass[y]
        /\ pass'[x].pc = "idle"
    BY <2>1, LeaveTypes DEF IdlePass
  <2>3. DeliveryTypes'
    BY <1>1, <2>1, <2>2 DEF DeliveryTypes, PassTypes
  <2>4. OneSender' /\ SenderRow'
    BY <2>1, <2>2, SendersKept DEF SenderRow, Sending
  <2>5. Paid' /\ Bounded'
    BY <1>1, <2>1, <2>2, PaidKept, BoundedKept
  <2> QED
    BY <2>3, <2>4, <2>5
<1>4. CASE Claimable(d)
  <2>1. /\ Write(d, "SENDING") /\ attempts' = [attempts EXCEPT ![d] = attempts[d] + 1]
        /\ PassGoto(x, "sending")
    BY <1>4 DEF Claim, CountAttempt
  <2>2. deliveryStatus[d] = "PENDING"
    BY <1>4 DEF Claimable
  <2>3. /\ deliveryStatus' \in [Deliveries -> DeliveryStatuses] /\ old' \in [Deliveries -> BOOLEAN]
        /\ \A e \in Deliveries \ {d} : deliveryStatus'[e] = deliveryStatus[e]
        /\ deliveryStatus'[d] \in {"SENDING", "removed"}
    BY <1>2, <2>1, WriteTypes DEF DeliveryStatuses
  <2>4. /\ pass' \in [Passes -> PassTypes]
        /\ \A y \in Passes \ {x} : pass'[y] = pass[y]
        /\ pass'[x].pc = "sending" /\ pass'[x].row = d
    BY <1>1, <2>1, GotoTypes DEF Sending
  <2>5. DeliveryTypes'
    <3>1. attempts' \in [Deliveries -> Nat]
      BY <1>2, <2>1 DEF DeliveryTypes
    <3>2. overtaken' \in [Deliveries -> BOOLEAN]
      BY <1>4 DEF Claim, DeliveryTypes
    <3> QED
      BY <1>1, <2>3, <2>4, <3>1, <3>2 DEF DeliveryTypes, PassTypes
  <2>6. \A y \in Passes \ {x} : pass[y].pc \in Sending => pass[y].row # d
    BY <2>2 DEF SenderRow
  <2>7. OneSender'
    BY <2>4, <2>6 DEF OneSender
  <2>8. SenderRow'
    <3> SUFFICES ASSUME NEW y \in Passes, pass'[y].pc \in Sending
                 PROVE  deliveryStatus'[pass'[y].row] \notin {"none", "PENDING"}
      BY DEF SenderRow
    <3>1. CASE y = x
      BY <2>3, <2>4, <3>1
    <3>2. CASE y # x
      <4>1. pass'[y] = pass[y] /\ pass[y].row # d /\ pass[y].row \in Deliveries
        BY <2>4, <2>6, <3>2, PassType DEF Sending
      <4> QED
        BY <2>3, <3>2, <4>1 DEF SenderRow
    <3> QED
      BY <3>1, <3>2
  <2>9. Paid'
    <3> SUFFICES ASSUME NEW e \in Deliveries
                 PROVE  /\ mailed[e] <= attempts'[e]
                        /\ (\E y \in Passes : pass'[y].pc = "sending" /\ pass'[y].row = e)
                             => mailed[e] < attempts'[e]
      BY <1>1 DEF Paid
    <3>1. attempts[e] \in Nat /\ mailed[e] \in Nat /\ mailed[e] <= attempts[e]
      BY DEF Paid, DeliveryTypes
    <3>2. CASE e = d
      BY <1>2, <2>1, <3>1, <3>2 DEF DeliveryTypes
    <3>3. CASE e # d
      <4>1. attempts'[e] = attempts[e]
        BY <2>1, <3>3 DEF DeliveryTypes
      <4> QED
        BY <2>4, <3>1, <3>3, <4>1 DEF Paid
    <3> QED
      BY <3>2, <3>3
  <2>10. ASSUME NEW e \in Deliveries
         PROVE  attempts'[e] + Cardinality(Claimants(e)') < MaxDeliveryAttempts + Cardinality(Passes)
    <3>1. attempts[e] \in Nat /\ MaxDeliveryAttempts \in Nat
      BY NotificationAssumption DEF DeliveryTypes
    <3>2. attempts[e] + Cardinality(Claimants(e)) < MaxDeliveryAttempts + Cardinality(Passes)
      BY DEF Bounded
    <3>3. CASE e = d
      <4>1. Claimants(e)' = Claimants(e) \ {x} /\ x \in Claimants(e)
        BY <1>1, <2>4, <3>3 DEF Claimants
      <4>2. Cardinality(Claimants(e)') = Cardinality(Claimants(e)) - 1
        BY <4>1, ClaimantsFinite, FS_RemoveElement
      <4>3. attempts'[e] = attempts[e] + 1
        BY <1>2, <2>1, <3>3 DEF DeliveryTypes
      <4> QED
        BY <3>1, <3>2, <4>2, <4>3, ClaimantsFinite
    <3>4. CASE e # d
      <4>1. Claimants(e)' = Claimants(e)
        BY <1>1, <2>4, <3>4 DEF Claimants
      <4>2. attempts'[e] = attempts[e]
        BY <2>1, <3>4 DEF DeliveryTypes
      <4> QED
        BY <3>2, <4>1, <4>2
    <3> QED
      BY <3>3, <3>4
  <2>11. Bounded'
    BY <2>10 DEF Bounded, Claimants
  <2> QED
    BY <2>5, <2>7, <2>8, <2>9, <2>11
<1> QED
  BY <1>3, <1>4

\* A message goes out under the attempt of its pass.
LEMMA MailIInv ==
  ASSUME IInv, NEW x \in Passes, NEW pc \in {"accepted", "failing"}, Mail(x, pc)
  PROVE  IInv'
<1> USE DEF IInv
<1> DEFINE d == pass[x].row
<1>1. /\ pass[x].pc = "sending" /\ deliveryStatus' = deliveryStatus /\ attempts' = attempts
      /\ due' = due /\ old' = old /\ overtaken' = overtaken
      /\ mailed' = [mailed EXCEPT ![d] = mailed[d] + 1] /\ PassGoto(x, pc)
  BY DEF Mail, At, rowVars
<1>2. d \in Deliveries
  BY <1>1, PassType
<1>3. /\ pass' \in [Passes -> PassTypes]
      /\ \A y \in Passes \ {x} : pass'[y] = pass[y]
      /\ pass'[x].pc = pc /\ pass'[x].row = d
  BY <1>1, GotoTypes DEF Sending
<1>4. DeliveryTypes'
  BY <1>1, <1>2, <1>3 DEF DeliveryTypes, PassTypes
<1>5. OneSender' /\ SenderRow'
  BY <1>1, <1>3, SendersKept DEF SenderRow, Sending
<1>6. Paid'
  <2> SUFFICES ASSUME NEW e \in Deliveries
               PROVE  /\ mailed'[e] <= attempts[e]
                      /\ (\E y \in Passes : pass'[y].pc = "sending" /\ pass'[y].row = e)
                           => mailed'[e] < attempts[e]
    BY <1>1 DEF Paid
  <2>1. attempts[e] \in Nat /\ mailed[e] \in Nat
    BY DEF DeliveryTypes
  <2>2. CASE e = d
    <3>1. mailed[e] < attempts[e] /\ mailed'[e] = mailed[e] + 1
      BY <1>1, <1>2, <2>2 DEF Paid, DeliveryTypes
    <3>2. \A y \in Passes : pass'[y].pc = "sending" => pass'[y].row # e
      BY <1>1, <1>3, <2>2 DEF OneSender, Sending
    <3> QED
      BY <2>1, <3>1, <3>2
  <2>3. CASE e # d
    <3>1. mailed'[e] = mailed[e]
      BY <1>1, <2>3 DEF DeliveryTypes
    <3> QED
      BY <1>3, <2>3, <3>1 DEF Paid
  <2> QED
    BY <2>2, <2>3
<1>7. Bounded'
  BY <1>1, <1>3, BoundedKept
<1> QED
  BY <1>4, <1>5, <1>6, <1>7

\* The end of a pass: its own row may be put back, and nobody else is sending it.
LEMMA EndIInv ==
  ASSUME IInv, NEW x \in Passes, Fails(x) \/ MarkSent(x) \/ MarkFailed(x) \/ WorkerDies(x)
  PROVE  IInv'
<1> USE DEF IInv
<1> DEFINE d == pass[x].row
<1>1. mailed' = mailed /\ attempts' = attempts /\ overtaken' = overtaken
  BY DEF Fails, MarkSent, MarkFailed, WorkerDies, rowVars
<1>2. /\ pass' \in [Passes -> PassTypes]
      /\ \A y \in Passes \ {x} : pass'[y] = pass[y]
      /\ pass'[x].pc = "idle" \/ (/\ pass'[x].pc = "failing" /\ pass'[x].row = d
                                  /\ pass[x].pc \in Sending /\ deliveryStatus' = deliveryStatus)
  <2>1. CASE Fails(x)
    BY <2>1, GotoTypes DEF Fails, At, Sending, rowVars
  <2>2. CASE MarkSent(x) \/ MarkFailed(x) \/ WorkerDies(x)
    BY <2>2, LeaveTypes DEF MarkSent, MarkFailed, WorkerDies, IdlePass
  <2> QED
    BY <2>1, <2>2
<1>3. /\ deliveryStatus' \in [Deliveries -> DeliveryStatuses] /\ old' \in [Deliveries -> BOOLEAN]
      /\ due' \in [Deliveries -> BOOLEAN]
      /\ \/ deliveryStatus' = deliveryStatus
         \/ pass[x].pc \in Sending /\ \A e \in Deliveries \ {d} : deliveryStatus'[e] = deliveryStatus[e]
  <2>1. CASE Fails(x) \/ WorkerDies(x)
    BY <2>1 DEF Fails, WorkerDies, rowVars, DeliveryTypes
  <2>2. CASE MarkSent(x)
    <3>1. pass[x].pc = "accepted" /\ d \in Deliveries /\ "SENT" \in DeliveryStatuses
      BY <2>2, PassType DEF MarkSent, At, DeliveryStatuses, DeliveryEnded
    <3> QED
      BY <2>2, <3>1, WriteTypes DEF MarkSent, Sending, DeliveryTypes
  <2>3. CASE MarkFailed(x)
    <3>1. pass[x].pc = "failing" /\ d \in Deliveries /\ AfterFailure(pass[x].seen) \in DeliveryStatuses
      BY <2>3, PassType DEF MarkFailed, At, AfterFailure, DeliveryStatuses, DeliveryEnded
    <3>2. due' \in [Deliveries -> BOOLEAN]
      BY <2>3 DEF MarkFailed, DeliveryTypes
    <3> QED
      BY <2>3, <3>1, <3>2, WriteTypes DEF MarkFailed, Sending
  <2> QED
    BY <2>1, <2>2, <2>3
<1>4. DeliveryTypes'
  BY <1>1, <1>2, <1>3 DEF DeliveryTypes, PassTypes
<1>5. \A y \in Passes : pass'[y].pc \in Sending =>
        /\ pass[y].pc \in Sending /\ pass'[y].row = pass[y].row
        /\ deliveryStatus'[pass[y].row] = deliveryStatus[pass[y].row]
  <2> SUFFICES ASSUME NEW y \in Passes, pass'[y].pc \in Sending
               PROVE  /\ pass[y].pc \in Sending /\ pass'[y].row = pass[y].row
                      /\ deliveryStatus'[pass[y].row] = deliveryStatus[pass[y].row]
    OBVIOUS
  <2>1. CASE y = x
    BY <1>2, <2>1 DEF Sending
  <2>2. CASE y # x
    <3>1. pass[y].pc \in Sending /\ pass'[y] = pass[y] /\ pass[y].row \in Deliveries
      BY <1>2, <2>2, PassType DEF Sending
    <3>2. pass[x].pc \in Sending => pass[y].row # d
      BY <2>2, <3>1 DEF OneSender
    <3> QED
      BY <1>3, <3>1, <3>2
  <2> QED
    BY <2>1, <2>2
<1>6. OneSender' /\ SenderRow'
  BY <1>5, SendersKept DEF SenderRow
<1>7. Paid'
  BY <1>1, <1>2, PaidKept
<1>8. Bounded'
  BY <1>1, <1>2, BoundedKept
<1> QED
  BY <1>4, <1>6, <1>7, <1>8

\* Every step keeps the invariant.
LEMMA NextIInv == IInv /\ [DeliveryNext]_deliveryVars => IInv'
<1> SUFFICES ASSUME IInv, [DeliveryNext]_deliveryVars PROVE IInv'
  OBVIOUS
<1>1. CASE UNCHANGED deliveryVars
  BY <1>1 DEF deliveryVars, rowVars, IInv, DeliveryTypes, OneSender, SenderRow, Paid, Bounded, Claimants
<1>2. ASSUME NEW x \in Passes, PassStep(x) PROVE IInv'
  BY <1>2, ClaimIInv, MailIInv, EndIInv DEF PassStep
<1>3. CASE DeliveryNext
  BY <1>2, <1>3, RowStepIInv, ScanIInv, EndIInv DEF DeliveryNext
<1> QED
  BY <1>1, <1>3

\* No delivery, no pass.
LEMMA InitIInv == DeliveryInit => IInv
<1> SUFFICES ASSUME DeliveryInit PROVE IInv
  OBVIOUS
<1>1. \A x \in Passes : pass[x].pc = "idle"
  BY DEF DeliveryInit, IdlePass
<1>2. DeliveryTypes
  BY DEF DeliveryInit, DeliveryTypes, DeliveryStatuses
<1>3. OneSender /\ SenderRow /\ Paid
  BY <1>1 DEF DeliveryInit, OneSender, SenderRow, Paid, Sending
<1>4. Bounded
  <2> SUFFICES ASSUME NEW d \in Deliveries
               PROVE  attempts[d] + Cardinality(Claimants(d)) < MaxDeliveryAttempts + Cardinality(Passes)
    BY DEF Bounded
  <2>1. Claimants(d) = {}
    BY <1>1 DEF Claimants
  <2>2. Cardinality(Claimants(d)) = 0
    BY <2>1, FS_EmptySet
  <2> QED
    BY <2>2, ClaimantsFinite, NotificationAssumption DEF DeliveryInit
<1> QED
  BY <1>2, <1>3, <1>4 DEF IInv

-----------------------------------------------------------------------------
(* The theorems.                                                           *)

\* The invariant holds in every reachable state.
LEMMA InvariantHolds == DeliverySpec => []IInv
<1> QED
  BY InitIInv, NextIInv, PTL DEF DeliverySpec

\* Rows and passes keep their types.
THEOREM TypeCorrect == DeliverySpec => []DeliveryTypes
<1>1. IInv => DeliveryTypes
  BY DEF IInv
<1> QED
  BY <1>1, InvariantHolds, PTL

\* However many workers there are and however long one stalls, a delivery has one sender.
THEOREM SingleSender == DeliverySpec => []OneSender
<1>1. IInv => OneSender
  BY DEF IInv
<1> QED
  BY <1>1, InvariantHolds, PTL

\* The attempts of a delivery are bounded by the budget and the number of workers, and it is
\* mailed no more often than that.
THEOREM Retries == DeliverySpec => []RetriesAreBounded
<1>1. ASSUME IInv, NEW d \in Deliveries
      PROVE  mailed[d] <= attempts[d] /\ attempts[d] < MaxDeliveryAttempts + Cardinality(Passes)
  <2>1. attempts[d] \in Nat /\ MaxDeliveryAttempts \in Nat
    BY <1>1, NotificationAssumption DEF IInv, DeliveryTypes
  <2>2. attempts[d] + Cardinality(Claimants(d)) < MaxDeliveryAttempts + Cardinality(Passes)
    BY <1>1 DEF IInv, Bounded
  <2> QED
    BY <1>1, <2>1, <2>2, ClaimantsFinite DEF IInv, Paid
<1>2. IInv => RetriesAreBounded
  BY <1>1 DEF RetriesAreBounded
<1> QED
  BY <1>2, InvariantHolds, PTL
=============================================================================
