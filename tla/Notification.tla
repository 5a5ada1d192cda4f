---------------------------- MODULE Notification ----------------------------
(***************************************************************************)
(* Notification deliveries (server/services/notification-service.ts): the  *)
(* workers queue one row per subscription and alert, and each pass of a    *)
(* worker scans the rows that are due, claims them one by one and mails    *)
(* them over SMTP.  A pass of the model takes one row: whatever happens    *)
(* between its scan and its claim, the other rows of the pass included, is *)
(* in the steps of the others.                                             *)
(***************************************************************************)
EXTENDS Integers, FiniteSets

CONSTANTS Deliveries,    \* rows: a subscription and an alert, or a test
          Passes,        \* deliverNotifications() passes at once, one per worker
          MaxDeliveryAttempts,   \* 3
          NoDelivery

ASSUME NotificationAssumption ==
  /\ NoDelivery \notin Deliveries
  /\ MaxDeliveryAttempts \in Nat \ {0}
  /\ IsFiniteSet(Passes)

VARIABLES
  deliveryStatus, attempts,      \* columns of notification_deliveries
  due,                   \* nextAttemptAt has come
  old,                   \* updatedAt is five minutes old
  pass,                  \* deliverNotifications(): the row, and the attempts scanned
  mailed,                \* messages SMTP has accepted
  overtaken              \* for checking: a claim found more attempts than its scan had

rowVars == <<deliveryStatus, attempts, due, old>>
deliveryVars == <<rowVars, pass, mailed, overtaken>>

DeliveryEnded == {"SENT", "FAILED", "CHECK_REQUIRED", "removed"}
DeliveryStatuses == {"none", "PENDING", "SENDING"} \cup DeliveryEnded
Sending == {"sending", "accepted", "failing"}
IdlePass == [pc |-> "idle", row |-> NoDelivery, seen |-> 0]

DeliveryTypes ==
  /\ deliveryStatus \in [Deliveries -> DeliveryStatuses]
  /\ attempts \in [Deliveries -> Nat]
  /\ due \in [Deliveries -> BOOLEAN] /\ old \in [Deliveries -> BOOLEAN]
  /\ pass \in [Passes -> {IdlePass} \cup
       [pc : {"claim"} \cup Sending, row : Deliveries, seen : 0 .. MaxDeliveryAttempts - 1]]
  /\ mailed \in [Deliveries -> Nat] /\ overtaken \in [Deliveries -> BOOLEAN]

DeliveryInit ==
  /\ deliveryStatus = [d \in Deliveries |-> "none"]
  /\ attempts = [d \in Deliveries |-> 0]
  /\ due = [d \in Deliveries |-> TRUE] /\ old = [d \in Deliveries |-> FALSE]
  /\ pass = [x \in Passes |-> IdlePass]
  /\ mailed = [d \in Deliveries |-> 0] /\ overtaken = [d \in Deliveries |-> FALSE]

PassGoto(x, pc) == pass' = [pass EXCEPT ![x].pc = pc]
Leave(x)    == pass' = [pass EXCEPT ![x] = IdlePass]
At(x, pc)   == pass[x].pc = pc

\* An updateMany() on a row that may be gone, and a new updatedAt.
Write(d, s) ==
  /\ deliveryStatus' = [deliveryStatus EXCEPT ![d] = IF @ = "removed" THEN @ ELSE s]
  /\ old' = [old EXCEPT ![d] = FALSE]

-----------------------------------------------------------------------------

\* queueNotifications() and testNotification(); a row that exists is skipped.
Queue(d) ==
  /\ deliveryStatus[d] = "none"
  /\ Write(d, "PENDING")
  /\ UNCHANGED <<attempts, due, pass, mailed, overtaken>>

\* The subscription is deleted, and its deliveries with it.
Remove(d) ==
  /\ deliveryStatus[d] \notin {"none", "removed"}
  /\ Write(d, "removed")
  /\ UNCHANGED <<attempts, due, pass, mailed, overtaken>>

\* The first statement of a pass: interrupted sends.
AfterInterruptPending == "PENDING"
AfterInterrupt == "CHECK_REQUIRED"

Interrupt(d) ==
  /\ \E x \in Passes : pass[x] = IdlePass
  /\ deliveryStatus[d] = "SENDING" /\ old[d]
  /\ Write(d, AfterInterrupt)
  /\ UNCHANGED <<attempts, due, pass, mailed, overtaken>>

InBudget(d) == attempts[d] < MaxDeliveryAttempts

Scan(x, d) ==
  /\ pass[x] = IdlePass
  /\ deliveryStatus[d] = "PENDING" /\ due[d] /\ InBudget(d)
  /\ pass' = [pass EXCEPT ![x] = [pc |-> "claim", row |-> d, seen |-> attempts[d]]]
  /\ UNCHANGED <<rowVars, mailed, overtaken>>

Claimable(d) == deliveryStatus[d] = "PENDING"

CountAttempt(x) == [attempts EXCEPT ![pass[x].row] = @ + 1]

\* The claim asks neither for the attempts nor for the time again.
Claim(x) ==
  LET d == pass[x].row IN
  /\ At(x, "claim")
  /\ IF Claimable(d)
     THEN /\ Write(d, "SENDING")
          /\ attempts' = CountAttempt(x)
          /\ overtaken' = [overtaken EXCEPT ![d] = @ \/ attempts[d] # pass[x].seen]
          /\ PassGoto(x, "sending")
     ELSE UNCHANGED <<deliveryStatus, old, attempts, overtaken>> /\ Leave(x)
  /\ UNCHANGED <<due, mailed>>

\* sendMail(); it throws too when the answer of a message that was accepted is lost.
Mail(x, pc) ==
  /\ At(x, "sending")
  /\ mailed' = [mailed EXCEPT ![pass[x].row] = @ + 1]
  /\ PassGoto(x, pc)
  /\ UNCHANGED <<rowVars, overtaken>>

\* The subscription, its members' rights or address do not allow it any more, SMTP refuses,
\* or the write of SENT throws.
Fails(x) ==
  /\ At(x, "sending") \/ At(x, "accepted")
  /\ PassGoto(x, "failing")
  /\ UNCHANGED <<rowVars, mailed, overtaken>>

MarkSent(x) ==
  /\ At(x, "accepted")
  /\ Write(pass[x].row, "SENT")
  /\ Leave(x)
  /\ UNCHANGED <<attempts, due, mailed, overtaken>>

\* The catch block goes by the attempts of the scan, whatever the row says by now.
AfterFailureOneMore(seen) == IF seen >= MaxDeliveryAttempts THEN "FAILED" ELSE "PENDING"
AfterFailure(seen) == IF seen >= MaxDeliveryAttempts - 1 THEN "FAILED" ELSE "PENDING"

MarkFailed(x) ==
  LET d == pass[x].row IN
  /\ At(x, "failing")
  /\ Write(d, AfterFailure(pass[x].seen))
  /\ due' = [due EXCEPT ![d] = FALSE]
  /\ Leave(x)
  /\ UNCHANGED <<attempts, mailed, overtaken>>

\* The worker dies, or a write outside the try block throws.
WorkerDies(x) ==
  /\ pass[x] # IdlePass
  /\ Leave(x)
  /\ UNCHANGED <<rowVars, mailed, overtaken>>

\* Time.
ComeDue(d) ==
  /\ deliveryStatus[d] = "PENDING" /\ ~ due[d]
  /\ due' = [due EXCEPT ![d] = TRUE]
  /\ UNCHANGED <<deliveryStatus, attempts, old, pass, mailed, overtaken>>

AgeDelivery(d) ==
  /\ deliveryStatus[d] = "SENDING" /\ ~ old[d]
  /\ old' = [old EXCEPT ![d] = TRUE]
  /\ UNCHANGED <<deliveryStatus, attempts, due, pass, mailed, overtaken>>

-----------------------------------------------------------------------------

PassStep(x) ==
  \/ Claim(x) \/ Mail(x, "accepted") \/ Mail(x, "failing") \/ Fails(x)
  \/ MarkSent(x) \/ MarkFailed(x)

DeliveryNext ==
  \/ \E d \in Deliveries : Queue(d) \/ Remove(d) \/ Interrupt(d) \/ ComeDue(d) \/ AgeDelivery(d)
  \/ \E x \in Passes : (\E d \in Deliveries : Scan(x, d)) \/ PassStep(x) \/ WorkerDies(x)

DeliverySpec == DeliveryInit /\ [][DeliveryNext]_deliveryVars

\* Time passes and the workers' loops come round; SMTP has timeouts; a worker does not die
\* every time between its scan and its claim.
DeliveryFairness ==
  /\ \A d \in Deliveries : WF_deliveryVars(ComeDue(d)) /\ WF_deliveryVars(AgeDelivery(d)) /\ SF_deliveryVars(Interrupt(d))
  /\ \A d \in Deliveries : SF_deliveryVars(\E x \in Passes : Scan(x, d))
  /\ \A x \in Passes : WF_deliveryVars(PassStep(x)) /\ SF_deliveryVars(Claim(x))

FairDeliverySpec == DeliverySpec /\ DeliveryFairness

-----------------------------------------------------------------------------
(* Properties                                                              *)

\* Two passes are never in the middle of sending one delivery, a stalled one included whose
\* row was set to CHECK_REQUIRED.
OneSender ==
  \A x, y \in Passes :
    pass[x].pc \in Sending /\ pass[y].pc \in Sending /\ pass[x].row = pass[y].row => x = y

\* Retries are bounded: passes that scanned a row before others claimed it may each add one
\* attempt to the three, and no more.
RetriesAreBounded ==
  \A d \in Deliveries :
    /\ mailed[d] <= attempts[d]
    /\ attempts[d] < MaxDeliveryAttempts + Cardinality(Passes)

\* No scan selects such a row again, and its last attempt has not given it up, since the pass had
\* scanned the row before an attempt of another pass.
LeftBehind(d) ==
  deliveryStatus[d] = "PENDING" /\ attempts[d] >= MaxDeliveryAttempts /\ overtaken[d]

\* Every delivery is sent, gives up after its third attempt at the latest, is left for inspection
\* or is removed; one alone may stay PENDING, a delivery that overlapping passes have overtaken.
DeliveriesEnd ==
  \A d \in Deliveries :
    deliveryStatus[d] \in {"PENDING", "SENDING"} ~> deliveryStatus[d] \in DeliveryEnded \/ LeftBehind(d)

\* An interrupted send is never replayed automatically.
InterruptedNotReplayed ==
  [][\A d \in Deliveries : deliveryStatus[d] = "CHECK_REQUIRED" => deliveryStatus'[d] # "PENDING"]_deliveryVars
=============================================================================
