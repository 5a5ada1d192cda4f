------------------------- MODULE ProvisioningProofs -------------------------
(***************************************************************************)
(* Proofs about Provisioning, for any plans, accounts, administrators,     *)
(* limit and times that satisfy ProvisioningAssumption.                    *)
(***************************************************************************)
EXTENDS Provisioning, FiniteSetTheorems, TLAPS

-----------------------------------------------------------------------------
(* The invariant.                                                          *)

Unreserved == {"none", "PLANNED"}
CreateBy   == ExpiryTicks + SessionTicks   \* the age at which nothing can be created any more

\* The resource of the plan was complete, and shows unless it was removed again.
Complete(p) == aws[p] \in {"ready", "removed"} /\ hidden[p] = 0

\* There is nothing of the plan in AWS and never will be.
Nothing(p) ==
    /\ aws[p] \notin Existing /\ ~ TakesEffect(p)
    /\ pc[p] \in {"reserved", "preflight", "counted"} => age[p] >= ExpiryTicks

\* Before the create call is sent there is nothing, and there is a call only once the plan
\* is reserved.
QuietBefore(p) ==
    /\ pc[p] \in {"idle", "loaded"} \cup Checking => aws[p] = "absent"
    /\ status[p] \in Unreserved => pc[p] \in {"idle", "loaded"}

\* What was answered was there; what was verified or recorded was complete.
MadeIsThere(p) ==
    /\ pc[p] \in {"created", "configuring", "verifying", "finishing"} =>
         aws[p] \in Existing \cup {"removed"}
    /\ pc[p] = "finishing" \/ status[p] = "SUCCEEDED" => Complete(p)

\* Sessions end, and resources show, before the plan is old enough to be given up.
InTime(p) ==
    /\ TakesEffect(p) => age[p] + session[p] < CreateBy
    /\ hidden[p] > 0 => age[p] + hidden[p] < CreateBy + VisibleTicks

PlanInv(p) ==
    /\ QuietBefore(p) /\ MadeIsThere(p) /\ InTime(p)
    /\ status[p] = "FAILED" => Nothing(p)

\* A reconciliation is of a plan that was reserved; one that found nothing is right, or will
\* find the plan too young; one that verified its resource found it complete.
RecInv(x) ==
    LET p == rec[x].plan IN
    /\ rec[x] # NotReconciling => status[p] \notin Unreserved
    /\ rec[x].pc = "absent" =>
         Nothing(p) \/ age[p] + rec[x].lag < CreateBy + VisibleTicks + LagTicks
    /\ rec[x].pc = "finishing" => Complete(p)

\* The partial unique index.
OneReserved ==
    \A p, q \in Plans :
        AccountOf[p] = AccountOf[q] /\ status[p] \in Reserved /\ status[q] \in Reserved => p = q

\* The plans of an account whose resource exists, where every creation has counted.
Made(a) == {q \in Plans : AccountOf[q] = a /\ RegionOf[q] \in counted[a] /\ aws[q] \in Existing}

\* Whoever can still create has counted everything that is there.
RoomForOne == \A p \in Plans : MayCreate(p) => Cardinality(Made(AccountOf[p])) < MaxInstances

ProvisioningInv ==
    /\ TypeOK
    /\ \A p \in Plans : PlanInv(p)
    /\ \A x \in Admins : RecInv(x)
    /\ OneReserved /\ RoomForOne /\ WithinLimit

-----------------------------------------------------------------------------
(* A step changes at most what belongs to one plan, to one reconciliation, *)
(* or the time.                                                            *)

\* The step leaves what belongs to p with these values, and the rest as it is.
Moves(p, s, k, i, l, n, w, h) ==
    /\ status' = [status EXCEPT ![p] = s] /\ resourceId' = [resourceId EXCEPT ![p] = k]
    /\ idle' = [idle EXCEPT ![p] = i] /\ pc' = [pc EXCEPT ![p] = l]
    /\ session' = [session EXCEPT ![p] = n]
    /\ aws' = [aws EXCEPT ![p] = w] /\ hidden' = [hidden EXCEPT ![p] = h]
    /\ age' = age /\ account' = account

\* Nothing is counted that was not before.
Narrows == RegionTypes' /\ \A a \in Accounts : counted'[a] \subseteq counted[a]

\* Nothing of the plan changes.
Same(q) ==
    /\ status'[q] = status[q] /\ resourceId'[q] = resourceId[q] /\ pc'[q] = pc[q]
    /\ session'[q] = session[q] /\ aws'[q] = aws[q] /\ hidden'[q] = hidden[q] /\ age'[q] = age[q]

LEMMA SameKeeps ==
    ASSUME NEW q \in Plans, Same(q)
    PROVE  /\ PlanInv(q)' <=> PlanInv(q)
           /\ Nothing(q)' <=> Nothing(q)
           /\ Complete(q)' <=> Complete(q)
           /\ TakesEffect(q)' <=> TakesEffect(q)
BY DEF Same, PlanInv, Nothing, Complete, QuietBefore, MadeIsThere, InTime, TakesEffect

LEMMA Unmoved ==
    ASSUME TypeOK, NEW p \in Plans
    PROVE  /\ status = [status EXCEPT ![p] = status[p]]
           /\ resourceId = [resourceId EXCEPT ![p] = resourceId[p]]
           /\ idle = [idle EXCEPT ![p] = idle[p]]
           /\ pc = [pc EXCEPT ![p] = pc[p]]
           /\ session = [session EXCEPT ![p] = session[p]]
           /\ aws = [aws EXCEPT ![p] = aws[p]]
           /\ hidden = [hidden EXCEPT ![p] = hidden[p]]
BY DEF TypeOK

LEMMA MovesTo ==
    ASSUME TypeOK, NEW p \in Plans, NEW s, NEW k, NEW i, NEW l, NEW n, NEW w, NEW h,
           Moves(p, s, k, i, l, n, w, h)
    PROVE  /\ status'[p] = s /\ resourceId'[p] = k /\ idle'[p] = i /\ pc'[p] = l
           /\ session'[p] = n /\ aws'[p] = w /\ hidden'[p] = h /\ age'[p] = age[p]
           /\ \A q \in Plans : q # p => Same(q)
BY DEF TypeOK, Moves, Same

\* Every step of a call, or of anything else that leaves the regions alone.
LEMMA RegionsNarrow ==
    ASSUME TypeOK,
           \/ UNCHANGED regionVars
           \/ \E p \in Plans : LoadPlan(p) \/ Reserve(p) \/ CountInstances(p) \/ Reject(p) \/ Die(p)
           \/ \E a \in Accounts : SetRegions(a)
    PROVE  Narrows
<1>1. RegionTypes /\ ProvisioningAssumption
    BY ProvisioningAssumption DEF TypeOK
<1>2. CASE UNCHANGED regionVars
    BY <1>1, <1>2 DEF regionVars, RegionTypes, Narrows
<1>3. ASSUME NEW p \in Plans, LoadPlan(p) \/ Reserve(p) \/ Reject(p) \/ Die(p) PROVE Narrows
  <2>1. AccountOf[p] \in Accounts /\ effective[AccountOf[p]] \subseteq Regions
    BY <1>1 DEF ProvisioningAssumption, RegionTypes
  <2> QED
    BY <1>1, <1>3, <2>1 DEF LoadPlan, Reserve, Reject, Die, Forget, RegionTypes, Narrows
<1>4. ASSUME NEW p \in Plans, CountInstances(p) PROVE Narrows
  <2>1. AccountOf[p] \in Accounts
    BY <1>1 DEF ProvisioningAssumption
  <2>2. /\ counted' = counted \/ counted' = [counted EXCEPT ![AccountOf[p]] = @ \cap regions[p]]
        /\ regions' = [regions EXCEPT ![p] = {}] /\ effective' = effective
    BY <1>4 DEF CountInstances, Forget
  <2> QED
    BY <1>1, <2>1, <2>2 DEF RegionTypes, Narrows
<1>5. ASSUME NEW a \in Accounts, SetRegions(a) PROVE Narrows
    BY <1>1, <1>5 DEF SetRegions, ProvisioningAssumption, RegionTypes, Narrows
<1> QED
    BY <1>2, <1>3, <1>4, <1>5

\* What there is of one plan in the types.
LEMMA PlanTypes ==
    ASSUME TypeOK, NEW p \in Plans
    PROVE  /\ status[p] \in Statuses /\ resourceId[p] \in BOOLEAN /\ pc[p] \in CallPCs
           /\ age[p] \in 0 .. WaitTicks /\ idle[p] \in 0 .. WaitTicks
           /\ session[p] \in 0 .. SessionTicks /\ hidden[p] \in 0 .. VisibleTicks
           /\ aws[p] \in {"absent", "requested", "removed"} \cup Existing
           /\ aws[p] \notin Existing => hidden[p] = 0
           /\ resourceId[p] => aws[p] \in Existing \cup {"removed"}
BY DEF TypeOK

\* A step of one plan keeps what is known of the rows, the calls and the reconciliations.
LEMMA PlanStep ==
    ASSUME ProvisioningInv, NEW p \in Plans,
           NEW s \in Statuses, NEW k \in BOOLEAN, NEW i \in 0 .. WaitTicks, NEW l \in CallPCs,
           NEW n \in 0 .. SessionTicks, NEW w \in {"absent", "requested", "removed"} \cup Existing,
           NEW h \in 0 .. VisibleTicks, Moves(p, s, k, i, l, n, w, h), Narrows,
           w \notin Existing => h = 0, k => w \in Existing \cup {"removed"},
           rec' \in [Admins -> Reconciling \cup {NotReconciling}],
           \A x \in Admins : rec'[x] = rec[x] \/ rec'[x] = NotReconciling,
           PlanInv(p)', s \notin Unreserved \/ status[p] \in Unreserved,
           Complete(p) => Complete(p)', Nothing(p) /\ status[p] \notin Unreserved => Nothing(p)',
           s \in Reserved => status[p] \in Reserved \/ IndexFree(p)
    PROVE  /\ TypeOK' /\ (\A q \in Plans : PlanInv(q))' /\ (\A x \in Admins : RecInv(x))'
           /\ OneReserved'
<1>1. /\ status'[p] = s /\ resourceId'[p] = k /\ aws'[p] = w /\ hidden'[p] = h
      /\ \A q \in Plans : q # p => Same(q)
    BY MovesTo DEF ProvisioningInv
<1>2. TypeOK'
  <2>1. TypeOK
    BY DEF ProvisioningInv
  <2>2. /\ status' \in [Plans -> Statuses] /\ resourceId' \in [Plans -> BOOLEAN]
        /\ age' \in [Plans -> 0..WaitTicks] /\ idle' \in [Plans -> 0..WaitTicks]
        /\ pc' \in [Plans -> CallPCs] /\ session' \in [Plans -> 0..SessionTicks]
        /\ aws' \in [Plans -> {"absent", "requested", "removed"} \cup Existing]
        /\ hidden' \in [Plans -> 0..VisibleTicks]
        /\ account' \in [Accounts -> {"connected", "disconnecting", "gone"}]
    BY <2>1 DEF TypeOK, Moves
  <2>3. \A q \in Plans : /\ aws'[q] \notin Existing => hidden'[q] = 0
                         /\ resourceId'[q] => aws'[q] \in Existing \cup {"removed"}
    BY <1>1, <2>1 DEF TypeOK, Same
  <2> QED
    BY <2>2, <2>3 DEF TypeOK, Narrows
<1>3. \A q \in Plans : PlanInv(q)'
    BY <1>1, SameKeeps DEF ProvisioningInv
<1>4. ASSUME NEW x \in Admins PROVE RecInv(x)'
  <2>1. CASE rec'[x] = NotReconciling
    BY <2>1 DEF RecInv, NotReconciling
  <2>2. CASE rec'[x] = rec[x] /\ rec[x] # NotReconciling
    <3>1. PICK q \in Plans : rec[x].plan = q
      BY <2>2 DEF ProvisioningInv, TypeOK, Reconciling
    <3>2. /\ status[q] \notin Unreserved
          /\ rec[x].pc = "absent" =>
               Nothing(q) \/ age[q] + rec[x].lag < CreateBy + VisibleTicks + LagTicks
          /\ rec[x].pc = "finishing" => Complete(q)
      BY <2>2, <3>1 DEF ProvisioningInv, RecInv
    <3>3. status'[q] \notin Unreserved
      BY <1>1, <3>2 DEF Same
    <3>4. (Nothing(q) => Nothing(q)') /\ (Complete(q) => Complete(q)')
      <4>1. CASE q = p
        BY <3>2, <4>1
      <4>2. CASE q # p
        BY <1>1, <4>2, SameKeeps
      <4> QED
        BY <4>1, <4>2
    <3>5. rec'[x].plan = q /\ rec'[x].pc = rec[x].pc /\ rec'[x].lag = rec[x].lag /\ age' = age
      BY <2>2, <3>1 DEF Moves
    <3> QED
      BY <3>2, <3>3, <3>4, <3>5 DEF RecInv
  <2> QED
    BY <2>1, <2>2
<1>5. OneReserved'
  <2> SUFFICES ASSUME NEW a \in Plans, NEW b \in Plans, AccountOf[a] = AccountOf[b],
                      status'[a] \in Reserved, status'[b] \in Reserved
               PROVE  a = b
    BY DEF OneReserved
  <2>1. CASE a # p /\ b # p
    BY <1>1, <2>1 DEF Same, ProvisioningInv, OneReserved
  <2>2. ASSUME NEW q \in Plans, q # p, AccountOf[q] = AccountOf[p],
               status'[q] \in Reserved, status'[p] \in Reserved
        PROVE  FALSE
    <3>1. status[q] \in Reserved /\ s \in Reserved
      BY <1>1, <2>2 DEF Same
    <3>2. ~ IndexFree(p) /\ status[p] \notin Reserved
      BY <2>2, <3>1 DEF IndexFree, Rivals, ProvisioningInv, OneReserved
    <3> QED
      BY <3>1, <3>2
  <2> QED
    BY <2>1, <2>2
<1> QED
    BY <1>2, <1>3, <1>4, <1>5

LEMMA FewerAreFewer ==
    ASSUME NEW S \in SUBSET Plans, NEW T \in SUBSET S
    PROVE  /\ Cardinality(S) \in Nat /\ Cardinality(T) \in Nat
           /\ Cardinality(T) <= Cardinality(S)
<1>1. IsFiniteSet(S)
    BY FS_Subset, ProvisioningAssumption
<1> QED
    BY <1>1, FS_Subset, FS_CardinalityType

\* A step that makes nothing, and after which no plan may create that could not before,
\* unless it has counted.
LEMMA RoomKept ==
    ASSUME ProvisioningInv, Narrows,
           \A q \in Plans : aws'[q] \in Existing => aws[q] \in Existing,
           \A q \in Plans : MayCreate(q)' =>
             MayCreate(q) \/ Cardinality(Made(AccountOf[q])') < MaxInstances
    PROVE  RoomForOne' /\ WithinLimit'
<1>1. ASSUME NEW a \in Accounts
      PROVE  /\ Cardinality(Made(a)') \in Nat /\ Cardinality(Made(a)) \in Nat
             /\ Cardinality(Made(a)') <= Cardinality(Made(a))
  <2>1. Made(a) \in SUBSET Plans /\ Made(a)' \in SUBSET Made(a)
    BY DEF Made, Narrows
  <2> QED
    BY <2>1, FewerAreFewer
<1>2. RoomForOne'
  <2> SUFFICES ASSUME NEW q \in Plans, MayCreate(q)'
               PROVE  Cardinality(Made(AccountOf[q])') < MaxInstances
    BY DEF RoomForOne, Made
  <2>1. CASE MayCreate(q)
    <3>1. Cardinality(Made(AccountOf[q])) < MaxInstances /\ AccountOf[q] \in Accounts
      BY <2>1, ProvisioningAssumption DEF ProvisioningInv, RoomForOne
    <3> QED
      BY <1>1, <3>1, ProvisioningAssumption
  <2> QED
    BY <2>1
<1>3. WithinLimit'
  <2> SUFFICES ASSUME NEW a \in Accounts PROVE Cardinality(Made(a)') <= MaxInstances
    BY DEF WithinLimit, Made
  <2>1. Cardinality(Made(a)) <= MaxInstances
    BY DEF ProvisioningInv, WithinLimit, Made
  <2> QED
    BY <1>1, <2>1, ProvisioningAssumption
<1> QED
    BY <1>2, <1>3

\* The same of a step of one plan.
LEMMA RoomStep ==
    ASSUME ProvisioningInv, NEW p \in Plans,
           NEW s, NEW k, NEW i, NEW l, NEW n, NEW w, NEW h, Moves(p, s, k, i, l, n, w, h), Narrows,
           w \in Existing => aws[p] \in Existing,
           MayCreate(p)' => MayCreate(p) \/ Cardinality(Made(AccountOf[p])') < MaxInstances
    PROVE  RoomForOne' /\ WithinLimit'
<1>1. /\ aws'[p] = w /\ \A q \in Plans : q # p => Same(q)
    BY MovesTo DEF ProvisioningInv
<1>2. age' = age /\ account' = account
    BY DEF Moves
<1>3. \A q \in Plans : aws'[q] \in Existing => aws[q] \in Existing
    BY <1>1 DEF Same
<1>4. ASSUME NEW q \in Plans, q # p PROVE MayCreate(q)' => MayCreate(q)
    BY <1>1, <1>2, <1>4 DEF Same, MayCreate, TakesEffect, StillGood, Connected
<1> QED
    BY <1>3, <1>4, RoomKept

\* A step of one reconciliation keeps the rest.
LEMMA RecStep ==
    ASSUME ProvisioningInv, NEW x \in Admins, NEW r \in Reconciling \cup {NotReconciling},
           rec' = [rec EXCEPT ![x] = r], RecInv(x)',
           UNCHANGED <<planVars, pc, session, resourceVars, account, regionVars>>
    PROVE  ProvisioningInv'
<1>1. UNCHANGED <<status, resourceId, age, idle, pc, session, aws, hidden, account>>
    BY DEF planVars, resourceVars
<1>2. /\ rec' \in [Admins -> Reconciling \cup {NotReconciling}]
      /\ \A y \in Admins : y # x => rec'[y] = rec[y]
    BY DEF ProvisioningInv, TypeOK
<1>3. TypeOK' /\ Narrows
    BY <1>1, <1>2, RegionsNarrow DEF ProvisioningInv, TypeOK, Narrows
<1>4. \A q \in Plans : Same(q)
    BY <1>1 DEF Same
<1>5. \A q \in Plans : PlanInv(q)'
    BY <1>4, SameKeeps DEF ProvisioningInv
<1>6. ASSUME NEW y \in Admins PROVE RecInv(y)'
  <2>1. CASE y # x
    BY <1>1, <1>2, <2>1 DEF ProvisioningInv, RecInv, Nothing, Complete, TakesEffect
  <2> QED
    BY <2>1
<1>7. OneReserved'
    BY <1>1 DEF ProvisioningInv, OneReserved
<1>8. RoomForOne' /\ WithinLimit'
    BY <1>1, <1>3, RoomKept DEF MayCreate, TakesEffect, StillGood, Connected
<1> QED
    BY <1>3, <1>5, <1>6, <1>7, <1>8 DEF ProvisioningInv

\* A step of one plan keeps the invariant.
LEMMA StepKeeps ==
    ASSUME ProvisioningInv, NEW p \in Plans,
           NEW s \in Statuses, NEW k \in BOOLEAN, NEW i \in 0 .. WaitTicks, NEW l \in CallPCs,
           NEW n \in 0 .. SessionTicks, NEW w \in {"absent", "requested", "removed"} \cup Existing,
           NEW h \in 0 .. VisibleTicks, Moves(p, s, k, i, l, n, w, h), Narrows,
           w \notin Existing => h = 0, k => w \in Existing \cup {"removed"},
           rec' \in [Admins -> Reconciling \cup {NotReconciling}],
           \A x \in Admins : rec'[x] = rec[x] \/ rec'[x] = NotReconciling,
           PlanInv(p)', s \notin Unreserved \/ status[p] \in Unreserved,
           Complete(p) => Complete(p)', Nothing(p) /\ status[p] \notin Unreserved => Nothing(p)',
           s \in Reserved => status[p] \in Reserved \/ IndexFree(p),
           w \in Existing => aws[p] \in Existing,
           MayCreate(p)' => MayCreate(p) \/ Cardinality(Made(AccountOf[p])') < MaxInstances
    PROVE  ProvisioningInv'
<1>1. /\ TypeOK' /\ (\A q \in Plans : PlanInv(q))' /\ (\A x \in Admins : RecInv(x))'
      /\ OneReserved'
    BY PlanStep
<1>2. RoomForOne' /\ WithinLimit'
    BY RoomStep
<1> QED
    BY <1>1, <1>2 DEF ProvisioningInv

\* Nothing that is recorded as ended may still be created.
LEMMA BegunIsReserved ==
    ASSUME ProvisioningInv, NEW p \in Plans,
           \/ TakesEffect(p)
           \/ pc[p] \in {"reserved", "preflight", "counted"} /\ ~ (age[p] >= ExpiryTicks)
    PROVE  status[p] \in Reserved
<1>1. PlanInv(p) /\ status[p] \in Statuses
    BY PlanTypes DEF ProvisioningInv
<1>2. status[p] # "FAILED"
    BY <1>1 DEF PlanInv, Nothing
<1>3. aws[p] \in {"absent", "requested"}
    BY <1>1 DEF PlanInv, QuietBefore, TakesEffect, Checking
<1>4. status[p] # "SUCCEEDED"
    BY <1>1, <1>3 DEF PlanInv, MadeIsThere, Complete
<1>5. status[p] \notin Unreserved
    BY <1>1, <1>3 DEF PlanInv, QuietBefore, TakesEffect
<1> QED
    BY <1>1, <1>2, <1>4, <1>5 DEF Statuses, Unreserved

LEMMA MayCreateIsReserved ==
    ASSUME ProvisioningInv, NEW p \in Plans, MayCreate(p)
    PROVE  status[p] \in Reserved
<1>1. age[p] \in Nat /\ ExpiryTicks \in Nat
    BY PlanTypes, ProvisioningAssumption DEF ProvisioningInv
<1> QED
    BY <1>1, BegunIsReserved DEF MayCreate, StillGood

-----------------------------------------------------------------------------
(* The applyPlan() call.                                                   *)

\* The call goes on, and nothing else changes.
LEMMA CallStep ==
    ASSUME ProvisioningInv, NEW p \in Plans, NEW l \in CallPCs, Goto(p, l),
           UNCHANGED <<planVars, session, resourceVars, rec, account>>, Narrows,
           l \in {"idle", "loaded"} \cup Checking => pc[p] \in {"idle", "loaded"} \cup Checking,
           l \in {"reserved", "preflight", "counted"} => pc[p] \in {"reserved", "preflight", "counted"},
           status[p] \in Unreserved => l \in {"idle", "loaded"},
           l \in {"created", "configuring", "verifying", "finishing"} =>
             aws[p] \in Existing \cup {"removed"},
           l = "finishing" => Complete(p),
           l = "counted" /\ StillGood(p) => Cardinality(Made(AccountOf[p])') < MaxInstances
    PROVE  ProvisioningInv'
<1>1. TypeOK /\ rec' = rec /\ age' = age /\ account' = account
    BY DEF ProvisioningInv, planVars
<1>2. Moves(p, status[p], resourceId[p], idle[p], l, session[p], aws[p], hidden[p])
    BY <1>1, Unmoved DEF Moves, Goto, planVars, resourceVars
<1>3. /\ status'[p] = status[p] /\ pc'[p] = l /\ session'[p] = session[p]
      /\ aws'[p] = aws[p] /\ hidden'[p] = hidden[p] /\ age'[p] = age[p]
    BY <1>1, <1>2, MovesTo
<1>4. PlanInv(p)
    BY DEF ProvisioningInv
<1>5. (TakesEffect(p)' <=> TakesEffect(p)) /\ (Complete(p)' <=> Complete(p)) /\ (InTime(p) => InTime(p)')
    BY <1>3 DEF TakesEffect, Complete, InTime
<1>6. Nothing(p) => Nothing(p)'
    BY <1>3, <1>5 DEF Nothing
<1>7. PlanInv(p)'
    BY <1>3, <1>4, <1>5, <1>6 DEF PlanInv, QuietBefore, MadeIsThere
<1>8. MayCreate(p)' => MayCreate(p) \/ Cardinality(Made(AccountOf[p])') < MaxInstances
    BY <1>1, <1>3, <1>5 DEF MayCreate, StillGood, Connected
<1>9. rec' \in [Admins -> Reconciling \cup {NotReconciling}]
    BY <1>1 DEF TypeOK
<1>10. /\ status[p] \in Statuses /\ resourceId[p] \in BOOLEAN
       /\ idle[p] \in 0 .. WaitTicks
       /\ session[p] \in 0 .. SessionTicks /\ hidden[p] \in 0 .. VisibleTicks
       /\ aws[p] \in {"absent", "requested", "removed"} \cup Existing
       /\ aws[p] \notin Existing => hidden[p] = 0
       /\ resourceId[p] => aws[p] \in Existing \cup {"removed"}
    BY <1>1, PlanTypes
<1> QED
    BY <1>1, <1>2, <1>5, <1>6, <1>7, <1>8, <1>9, <1>10, StepKeeps

\* The resources of the other plans show while one is reserved, so what is counted is all.
LEMMA CountIsComplete ==
    ASSUME ProvisioningInv, NEW p \in Plans, pc[p] = "preflight", StillGood(p)
    PROVE  \A q \in Plans : AccountOf[q] = AccountOf[p] /\ aws[q] \in Existing => Shows(q)
<1>1. age[p] \in Nat /\ ExpiryTicks \in Nat
    BY PlanTypes, ProvisioningAssumption DEF ProvisioningInv
<1>2. status[p] \in Reserved /\ aws[p] = "absent"
    BY <1>1, BegunIsReserved DEF StillGood, ProvisioningInv, PlanInv, QuietBefore, Checking
<1>3. ASSUME NEW q \in Plans, AccountOf[q] = AccountOf[p], aws[q] \in Existing
      PROVE  Shows(q)
  <2>1. PlanInv(q) /\ status[q] \in Statuses /\ q # p
    BY <1>2, <1>3, PlanTypes DEF ProvisioningInv, Existing
  <2>2. status[q] \notin Reserved
    BY <1>2, <1>3, <2>1 DEF ProvisioningInv, OneReserved
  <2>3. status[q] \notin Unreserved /\ status[q] # "FAILED"
    BY <1>3, <2>1 DEF PlanInv, QuietBefore, Nothing, Existing
  <2>4. status[q] = "SUCCEEDED"
    BY <2>1, <2>2, <2>3 DEF Statuses, Unreserved
  <2> QED
    BY <1>3, <2>1, <2>4 DEF PlanInv, MadeIsThere, Complete, Shows
<1> QED
    BY <1>3

LEMMA CallKeeps ==
    ASSUME ProvisioningInv, NEW p \in Plans,
           \/ LoadPlan(p) \/ CountInstances(p) \/ Reject(p) \/ CreateAnswered(p)
           \/ Verify(p) \/ LoseTrack(p) \/ Die(p)
    PROVE  ProvisioningInv'
<1>1. PlanInv(p)
    BY DEF ProvisioningInv
<1>2. (status[p] \in Unreserved => pc[p] \in {"idle", "loaded"}) /\ Narrows
  <2>1. \/ UNCHANGED regionVars
        \/ LoadPlan(p) \/ CountInstances(p) \/ Reject(p) \/ Die(p)
    BY DEF CreateAnswered, Verify, LoseTrack
  <2> QED
    BY <1>1, <2>1, RegionsNarrow DEF PlanInv, QuietBefore, ProvisioningInv
<1>3. CASE LoadPlan(p)
    BY <1>2, <1>3, CallStep DEF LoadPlan, CallPCs, Checking
<1>4. CASE CountInstances(p)
  <2>1. pc[p] = "preflight" /\ UNCHANGED <<planVars, session, resourceVars, rec, account>>
    BY <1>4 DEF CountInstances
  <2>2. CASE /\ BelowLimit(p) /\ Goto(p, "counted")
             /\ counted' = [counted EXCEPT ![AccountOf[p]] = @ \cap regions[p]]
    <3>1. ASSUME StillGood(p) PROVE Cardinality(Made(AccountOf[p])') < MaxInstances
      <4> DEFINE shown == {q \in Plans : AccountOf[q] = AccountOf[p] /\ RegionOf[q] \in regions[p] /\ Shows(q)}
      <4>1. aws' = aws /\ counted'[AccountOf[p]] \subseteq regions[p]
        BY <2>1, <2>2, ProvisioningAssumption DEF resourceVars, ProvisioningInv, TypeOK, RegionTypes
      <4>2. Made(AccountOf[p])' \subseteq shown
        BY <2>1, <3>1, <4>1, CountIsComplete DEF Made
      <4>3. Cardinality(shown) < MaxInstances
        BY <2>2 DEF BelowLimit
      <4> HIDE DEF shown
      <4>4. shown \in SUBSET Plans
        BY DEF shown
      <4> QED
        BY <4>2, <4>3, <4>4, FewerAreFewer, ProvisioningAssumption
    <3> QED
      BY <1>2, <2>1, <2>2, <3>1, CallStep DEF CallPCs, Checking
  <2>3. CASE Goto(p, "rejecting")
    BY <1>2, <2>1, <2>3, CallStep DEF CallPCs, Checking
  <2> QED
    BY <1>4, <2>2, <2>3 DEF CountInstances
<1>5. CASE Reject(p)
    BY <1>2, <1>5, CallStep DEF Reject, CallPCs, Checking
<1>6. CASE CreateAnswered(p)
    BY <1>2, <1>6, CallStep DEF CreateAnswered, CallPCs, Checking, Mutating
<1>7. CASE Verify(p)
    BY <1>2, <1>7, CallStep DEF Verify, Verifies, Shows, Complete, CallPCs, Checking, Mutating, Existing
<1>8. CASE LoseTrack(p)
    BY <1>2, <1>8, CallStep DEF LoseTrack, CallPCs, Checking, Mutating
<1>9. CASE Die(p)
    BY <1>2, <1>9, CallStep DEF Die, CallPCs, Checking, Mutating
<1> QED
    BY <1>3, <1>4, <1>5, <1>6, <1>7, <1>8, <1>9

\* The row is written, by the call, which goes on, or by a reconciliation, which ends.
LEMMA RowStep ==
    ASSUME ProvisioningInv, NEW p \in Plans, NEW s \in Statuses, NEW k \in BOOLEAN, NEW l \in CallPCs,
           SetPlan(p, s, k), Goto(p, l), UNCHANGED <<session, resourceVars, account>>, Narrows,
           rec' \in [Admins -> Reconciling \cup {NotReconciling}],
           \A x \in Admins : rec'[x] = rec[x] \/ rec'[x] = NotReconciling,
           l \in {"idle", "loaded"} \cup Checking => pc[p] \in {"idle", "loaded"} \cup Checking,
           l \in {"reserved", "preflight", "counted"} =>
             pc[p] \in {"reserved", "preflight", "counted"} \/ status[p] \in Unreserved,
           l = "counted" => pc[p] = "counted",
           s \in Unreserved => status[p] \in Unreserved /\ l \in {"idle", "loaded"},
           k \/ l \in {"created", "configuring", "verifying", "finishing"} =>
             aws[p] \in Existing \cup {"removed"},
           l = "finishing" \/ s = "SUCCEEDED" => Complete(p),
           s = "FAILED" => /\ aws[p] \notin Existing /\ ~ TakesEffect(p)
                           /\ l \in {"reserved", "preflight", "counted"} => age[p] >= ExpiryTicks,
           s \in Reserved => status[p] \in Reserved \/ IndexFree(p)
    PROVE  ProvisioningInv'
<1>1. TypeOK /\ age' = age /\ account' = account /\ 0 \in 0 .. WaitTicks
    BY ProvisioningAssumption DEF ProvisioningInv, SetPlan
<1>2. Moves(p, s, k, 0, l, session[p], aws[p], hidden[p])
    BY <1>1, Unmoved DEF Moves, Goto, SetPlan, resourceVars
<1>3. /\ status'[p] = s /\ pc'[p] = l /\ session'[p] = session[p]
      /\ aws'[p] = aws[p] /\ hidden'[p] = hidden[p] /\ age'[p] = age[p]
    BY <1>1, <1>2, MovesTo
<1>4. PlanInv(p)
    BY DEF ProvisioningInv
<1>5. (TakesEffect(p)' <=> TakesEffect(p)) /\ (Complete(p)' <=> Complete(p)) /\ (InTime(p) => InTime(p)')
    BY <1>3 DEF TakesEffect, Complete, InTime
<1>6. Nothing(p) /\ status[p] \notin Unreserved => Nothing(p)'
    BY <1>3, <1>5 DEF Nothing
<1>7. PlanInv(p)'
  <2>1. s = "FAILED" => Nothing(p)'
    BY <1>3, <1>5 DEF Nothing
  <2> QED
    BY <1>3, <1>4, <1>5, <2>1 DEF PlanInv, QuietBefore, MadeIsThere
<1>8. MayCreate(p)' => MayCreate(p)
    BY <1>1, <1>3, <1>5 DEF MayCreate, StillGood, Connected
<1>9. /\ session[p] \in 0 .. SessionTicks /\ hidden[p] \in 0 .. VisibleTicks
      /\ aws[p] \in {"absent", "requested", "removed"} \cup Existing
      /\ aws[p] \notin Existing => hidden[p] = 0
    BY <1>1, PlanTypes
<1> QED
    BY <1>1, <1>2, <1>5, <1>6, <1>7, <1>8, <1>9, StepKeeps

LEMMA RowKeeps ==
    ASSUME ProvisioningInv, NEW p \in Plans,
           \/ MakePlan(p) \/ Reserve(p) \/ Checkpoint(p) \/ Finish(p) \/ RecordFailure(p)
    PROVE  ProvisioningInv'
<1>1. /\ PlanInv(p) /\ status[p] \in Statuses /\ pc[p] \in CallPCs /\ resourceId[p] \in BOOLEAN
      /\ resourceId[p] => aws[p] \in Existing \cup {"removed"}
    BY PlanTypes DEF ProvisioningInv
<1>2. /\ pc[p] \in {"idle", "loaded"} \cup Checking => aws[p] = "absent"
      /\ status[p] \in Unreserved => pc[p] \in {"idle", "loaded"}
      /\ pc[p] \in {"created", "configuring", "verifying", "finishing"} =>
           aws[p] \in Existing \cup {"removed"}
      /\ pc[p] = "finishing" => Complete(p)
    BY <1>1 DEF PlanInv, QuietBefore, MadeIsThere
<1>3. /\ rec' = rec /\ Narrows
      /\ rec' \in [Admins -> Reconciling \cup {NotReconciling}]
  <2>1. UNCHANGED regionVars \/ Reserve(p)
    BY DEF MakePlan, Checkpoint, Finish, RecordFailure
  <2>2. Narrows
    BY <2>1, RegionsNarrow DEF ProvisioningInv
  <2> QED
    BY <2>2 DEF MakePlan, Reserve, Checkpoint, Finish, RecordFailure, ProvisioningInv, TypeOK
<1>4. CASE MakePlan(p)
  <2>1. Goto(p, pc[p]) /\ pc[p] \in {"idle", "loaded"}
    BY <1>2, <1>4, Unmoved DEF MakePlan, Goto, Unreserved, ProvisioningInv
  <2> QED
    BY <1>1, <1>2, <1>3, <1>4, <2>1, RowStep DEF MakePlan, Statuses, Unreserved, Reserved
<1>5. CASE Reserve(p)
  <2>1. CASE /\ status[p] = "PLANNED" /\ IndexFree(p)
             /\ SetPlan(p, "APPLYING", resourceId[p]) /\ Goto(p, "reserved")
    BY <1>1, <1>2, <1>3, <1>5, <2>1, RowStep
    DEF Reserve, Statuses, Unreserved, Reserved, CallPCs, Checking
  <2>2. CASE UNCHANGED planVars /\ Goto(p, "idle")
    BY <1>2, <1>3, <1>5, <2>2, CallStep DEF Reserve, CallPCs, Checking
  <2> QED
    BY <1>5, <2>1, <2>2 DEF Reserve
<1>6. CASE Checkpoint(p)
  <2>1. CASE status[p] = "APPLYING" /\ SetPlan(p, "APPLYING", TRUE)
    BY <1>2, <1>3, <1>6, <2>1, RowStep
    DEF Checkpoint, Statuses, Unreserved, Reserved, CallPCs, Checking, Mutating
  <2>2. CASE UNCHANGED planVars
    BY <1>2, <1>3, <1>6, <2>2, CallStep DEF Checkpoint, CallPCs, Checking, Mutating
  <2> QED
    BY <1>6, <2>1, <2>2 DEF Checkpoint
<1>7. CASE Finish(p)
  <2>1. /\ pc[p] = "finishing" /\ SetPlan(p, "SUCCEEDED", TRUE)
        /\ UNCHANGED <<session, resourceVars, account>>
    BY <1>7 DEF Finish
  <2>2. ASSUME NEW l \in {"over", "ambiguous"}, Goto(p, l) PROVE ProvisioningInv'
    BY <1>2, <1>3, <2>1, <2>2, RowStep DEF Statuses, Unreserved, Reserved, CallPCs, Checking, Mutating
  <2> QED
    BY <1>7, <2>2 DEF Finish
<1>8. CASE RecordFailure(p)
  <2>1. Goto(p, "over") /\ UNCHANGED <<session, resourceVars, account>>
    BY <1>8 DEF RecordFailure
  <2>2. CASE pc[p] = "rejecting" /\ SetPlan(p, "FAILED", resourceId[p])
    BY <1>1, <1>2, <1>3, <2>1, <2>2, RowStep
    DEF Statuses, Unreserved, Reserved, CallPCs, Checking, TakesEffect, Existing
  <2>3. CASE pc[p] = "ambiguous" /\ IndexFree(p) /\ SetPlan(p, "UNKNOWN", resourceId[p])
    BY <1>1, <1>2, <1>3, <2>1, <2>3, RowStep DEF Statuses, Unreserved, Reserved, CallPCs, Checking
  <2>4. CASE pc[p] = "ambiguous" /\ UNCHANGED planVars
    BY <1>2, <1>3, <1>8, <2>1, <2>4, CallStep DEF RecordFailure, CallPCs, Checking
  <2> QED
    BY <1>8, <2>2, <2>3, <2>4 DEF RecordFailure
<1> QED
    BY <1>4, <1>5, <1>6, <1>7, <1>8

-----------------------------------------------------------------------------
(* The session and the resource.                                           *)

\* The row stays, and the call and the resource go on.
LEMMA ResourceStep ==
    ASSUME ProvisioningInv, NEW p \in Plans, NEW l \in CallPCs, NEW n \in 0 .. SessionTicks,
           NEW w \in {"absent", "requested", "removed"} \cup Existing, NEW h \in 0 .. VisibleTicks,
           Moves(p, status[p], resourceId[p], idle[p], l, n, w, h), rec' = rec, Narrows,
           w \notin Existing => h = 0, resourceId[p] => w \in Existing \cup {"removed"},
           PlanInv(p)', Complete(p) => Complete(p)',
           Nothing(p) /\ status[p] \notin Unreserved => Nothing(p)'
    PROVE  /\ TypeOK' /\ (\A q \in Plans : PlanInv(q))' /\ (\A x \in Admins : RecInv(x))'
           /\ OneReserved'
           /\ (w \in Existing => aws[p] \in Existing) /\ (MayCreate(p)' => MayCreate(p)) => ProvisioningInv'
<1>1. /\ status[p] \in Statuses /\ resourceId[p] \in BOOLEAN /\ idle[p] \in 0 .. WaitTicks
      /\ rec' \in [Admins -> Reconciling \cup {NotReconciling}]
    BY PlanTypes DEF ProvisioningInv, TypeOK
<1>2. /\ TypeOK' /\ (\A q \in Plans : PlanInv(q))' /\ (\A x \in Admins : RecInv(x))'
      /\ OneReserved'
    BY <1>1, PlanStep
<1>3. (w \in Existing => aws[p] \in Existing) /\ (MayCreate(p)' => MayCreate(p)) => RoomForOne' /\ WithinLimit'
    BY RoomStep
<1> QED
    BY <1>2, <1>3 DEF ProvisioningInv

LEMMA OpenSessionKeeps ==
    ASSUME ProvisioningInv, NEW p \in Plans, OpenSession(p)
    PROVE  ProvisioningInv'
<1>1. /\ PlanInv(p) /\ TypeOK /\ aws[p] = "absent" /\ hidden[p] = 0 /\ ~ resourceId[p]
      /\ status[p] \notin Unreserved /\ pc[p] = "reserved"
    BY PlanTypes DEF OpenSession, ProvisioningInv, PlanInv, QuietBefore, Checking, Existing
<1>2. /\ Moves(p, status[p], resourceId[p], idle[p], "preflight", SessionTicks, aws[p], hidden[p])
      /\ rec' = rec /\ account' = account /\ Narrows
    BY <1>1, Unmoved, RegionsNarrow DEF OpenSession, Moves, Goto, planVars, resourceVars
<1>3. /\ status'[p] = status[p] /\ pc'[p] = "preflight" /\ aws'[p] = "absent"
      /\ hidden'[p] = 0 /\ age'[p] = age[p]
    BY <1>1, <1>2, MovesTo
<1>4. ~ TakesEffect(p)' /\ ~ (hidden'[p] > 0) /\ "absent" \notin Existing \cup {"ready", "removed"}
    BY <1>3 DEF TakesEffect, Existing
<1>5. Nothing(p) => Nothing(p)'
    BY <1>1, <1>3, <1>4 DEF Nothing
<1>6. PlanInv(p)'
    BY <1>1, <1>3, <1>4, <1>5 DEF PlanInv, QuietBefore, MadeIsThere, InTime, Complete
<1>7. ~ Complete(p) /\ ~ MayCreate(p)'
    BY <1>1, <1>3, <1>4 DEF Complete, MayCreate
<1>8. "preflight" \in CallPCs /\ SessionTicks \in 0 .. SessionTicks /\ hidden[p] \in 0 .. VisibleTicks
    BY <1>1, PlanTypes, ProvisioningAssumption DEF CallPCs, Checking
<1> QED
    BY <1>1, <1>2, <1>4, <1>5, <1>6, <1>7, <1>8, ResourceStep

LEMMA SendCreateKeeps ==
    ASSUME ProvisioningInv, NEW p \in Plans, SendCreate(p)
    PROVE  ProvisioningInv'
<1>1. /\ PlanInv(p) /\ TypeOK /\ aws[p] = "absent" /\ hidden[p] = 0 /\ ~ resourceId[p]
      /\ pc[p] = "counted" /\ StillGood(p)
    BY PlanTypes DEF SendCreate, ProvisioningInv, PlanInv, QuietBefore, Checking, Existing
<1>2. /\ Moves(p, status[p], resourceId[p], idle[p], "sending", session[p], "requested", hidden[p])
      /\ rec' = rec /\ Narrows
    BY <1>1, Unmoved, RegionsNarrow DEF SendCreate, Moves, Goto, planVars
<1>3. /\ status'[p] = status[p] /\ pc'[p] = "sending" /\ aws'[p] = "requested"
      /\ hidden'[p] = 0 /\ age'[p] = age[p] /\ session'[p] = session[p]
    BY <1>1, <1>2, MovesTo
<1>4. /\ age[p] \in Nat /\ session[p] \in 0 .. SessionTicks
      /\ SessionTicks \in Nat /\ ExpiryTicks \in Nat
    BY <1>1, PlanTypes, ProvisioningAssumption
<1>5. age[p] + session[p] < CreateBy /\ ~ Nothing(p)
    BY <1>1, <1>4 DEF CreateBy, StillGood, Nothing
<1>6. InTime(p)'
    BY <1>3, <1>4, <1>5 DEF InTime, TakesEffect
<1>7. status[p] \in Reserved
    BY <1>1, <1>4, BegunIsReserved DEF StillGood
<1>8. PlanInv(p)'
    BY <1>3, <1>6, <1>7 DEF PlanInv, QuietBefore, MadeIsThere, Checking, Reserved, Unreserved
<1>9. ~ Complete(p) /\ (MayCreate(p)' => MayCreate(p))
    BY <1>1, <1>3 DEF Complete, MayCreate, TakesEffect
<1>10. /\ "sending" \in CallPCs /\ hidden[p] \in 0 .. VisibleTicks /\ "requested" \notin Existing
    BY <1>1, PlanTypes DEF CallPCs, Mutating, Existing
<1> QED
    BY <1>1, <1>2, <1>4, <1>5, <1>8, <1>9, <1>10, ResourceStep

\* Configuring, repairing, refusing, showing and removing make nothing new.
LEMMA ResourceKeeps ==
    ASSUME ProvisioningInv, NEW p \in Plans,
           \/ Configure(p) \/ AwsRefuses(p) \/ AwsShows(p) \/ OwnerRepairs(p) \/ OwnerRemoves(p)
    PROVE  ProvisioningInv'
<1>1. /\ PlanInv(p) /\ TypeOK /\ status[p] \in Statuses /\ pc[p] \in CallPCs
      /\ session[p] \in 0 .. SessionTicks /\ hidden[p] \in 0 .. VisibleTicks /\ 0 \in 0 .. VisibleTicks
      /\ aws[p] \notin Existing => hidden[p] = 0
      /\ resourceId[p] => aws[p] \in Existing \cup {"removed"}
    BY PlanTypes, ProvisioningAssumption DEF ProvisioningInv
<1>2. PICK l \in CallPCs, w \in {"absent", "requested", "removed"} \cup Existing, h \in 0 .. VisibleTicks :
        /\ Moves(p, status[p], resourceId[p], idle[p], l, session[p], w, h)
        /\ \/ pc[p] = "configuring" /\ l = "verifying" /\ aws[p] \in Existing /\ w = "ready" /\ h = hidden[p]
           \/ l = pc[p] /\ aws[p] = "requested" /\ w = "absent" /\ h = hidden[p]
           \/ l = pc[p] /\ w = aws[p] /\ h = 0
           \/ l = pc[p] /\ aws[p] = "partial" /\ w = "ready" /\ h = hidden[p]
           \/ l = pc[p] /\ Shows(p) /\ w = "removed" /\ h = hidden[p]
  <2>1. "verifying" \in CallPCs /\ {"ready"} \subseteq Existing
    BY DEF CallPCs, Mutating, Existing
  <2> QED
    BY <1>1, <2>1, Unmoved, PlanTypes
    DEF Moves, Goto, Configure, AwsRefuses, AwsShows, OwnerRepairs, OwnerRemoves, planVars
<1>3. rec' = rec /\ account' = account /\ Narrows
    BY <1>1, RegionsNarrow DEF Configure, AwsRefuses, AwsShows, OwnerRepairs, OwnerRemoves
<1>4. /\ status'[p] = status[p] /\ pc'[p] = l /\ aws'[p] = w /\ session'[p] = session[p]
      /\ hidden'[p] = h /\ age'[p] = age[p]
    BY <1>1, <1>2, MovesTo
<1>5. /\ w \in Existing => aws[p] \in Existing
      /\ w \notin Existing => h = 0
      /\ w = "requested" => aws[p] = "requested"
      /\ h = hidden[p] \/ h = 0
      /\ aws[p] \in Existing \cup {"removed"} => w \in Existing \cup {"removed"}
      /\ aws[p] = "absent" => w = "absent"
      /\ Complete(p) => w \in {"ready", "removed"} /\ h = 0
      /\ l = pc[p] \/ (pc[p] = "configuring" /\ l = "verifying")
    BY <1>1, <1>2 DEF Existing, Shows, Complete
<1>6. TakesEffect(p)' => TakesEffect(p)
    BY <1>4, <1>5 DEF TakesEffect
<1>7. (Complete(p) => Complete(p)') /\ (Nothing(p) => Nothing(p)') /\ (InTime(p) => InTime(p)')
    BY <1>4, <1>5, <1>6 DEF Complete, Nothing, InTime
<1>8. PlanInv(p)'
    BY <1>1, <1>4, <1>5, <1>7 DEF PlanInv, QuietBefore, MadeIsThere, Checking
<1>9. MayCreate(p)' => MayCreate(p)
    BY <1>3, <1>4, <1>5, <1>6 DEF MayCreate, StillGood, Connected
<1> QED
    BY <1>1, <1>2, <1>3, <1>5, <1>7, <1>8, <1>9, ResourceStep

LEMMA OneMore ==
    ASSUME NEW S, NEW e, IsFiniteSet(S)
    PROVE  /\ Cardinality(S \cup {e}) \in Nat
           /\ Cardinality(S \cup {e}) <= Cardinality(S) + 1
<1>1. Cardinality(S) \in Nat
    BY FS_CardinalityType
<1>2. Cardinality(S \cup {e}) = IF e \in S THEN Cardinality(S) ELSE Cardinality(S) + 1
    BY FS_AddElement
<1> QED
    BY <1>1, <1>2

LEMMA AwsCreatesKeeps ==
    ASSUME ProvisioningInv, NEW p \in Plans, AwsCreates(p)
    PROVE  ProvisioningInv'
<1>1. /\ PlanInv(p) /\ TypeOK /\ aws[p] = "requested" /\ session[p] \in 0 .. SessionTicks
      /\ pc[p] \in CallPCs /\ age[p] \in Nat /\ session[p] > 0 /\ TakesEffect(p) /\ ~ resourceId[p]
    BY PlanTypes DEF AwsCreates, TakesEffect, ProvisioningInv, Existing
<1>2. PICK w \in Existing :
        Moves(p, status[p], resourceId[p], idle[p], pc[p], session[p], w, VisibleTicks)
    BY <1>1, Unmoved DEF AwsCreates, Moves, planVars
<1>3. rec' = rec /\ account' = account /\ age' = age /\ counted' = counted /\ Narrows
    BY <1>1, RegionsNarrow DEF AwsCreates, planVars, regionVars
<1>4. /\ status'[p] = status[p] /\ pc'[p] = pc[p] /\ aws'[p] = w /\ session'[p] = session[p]
      /\ hidden'[p] = VisibleTicks /\ age'[p] = age[p]
    BY <1>1, <1>2, MovesTo
<1>5. /\ ~ Complete(p) /\ w \in {"absent", "requested", "removed"} \cup Existing
      /\ status[p] # "SUCCEEDED" /\ status[p] # "FAILED" /\ ~ Nothing(p)
      /\ pc[p] \notin {"idle", "loaded", "finishing"} \cup Checking
    BY <1>1 DEF Complete, Nothing, PlanInv, MadeIsThere, QuietBefore
<1>6. ~ TakesEffect(p)' /\ (MayCreate(p)' => FALSE)
    BY <1>4, <1>5 DEF TakesEffect, MayCreate, Existing, Checking
<1>7. InTime(p)'
  <2>1. age[p] + session[p] < CreateBy
    BY <1>1 DEF PlanInv, InTime
  <2>2. CreateBy \in Nat /\ VisibleTicks \in Nat
    BY ProvisioningAssumption DEF CreateBy
  <2>3. age[p] + VisibleTicks < CreateBy + VisibleTicks
    BY <1>1, <2>1, <2>2
  <2> QED
    BY <1>4, <1>6, <2>3 DEF InTime
<1>8. PlanInv(p)'
    BY <1>1, <1>4, <1>5, <1>7 DEF PlanInv, QuietBefore, MadeIsThere
<1>9. VisibleTicks \in 0 .. VisibleTicks
    BY ProvisioningAssumption
<1>10. /\ TypeOK' /\ (\A q \in Plans : PlanInv(q))' /\ (\A x \in Admins : RecInv(x))'
       /\ OneReserved'
    BY <1>1, <1>2, <1>3, <1>5, <1>8, <1>9, ResourceStep
<1>11. MayCreate(p) /\ status[p] \in Reserved
    BY <1>1, MayCreateIsReserved DEF MayCreate
<1>12. \A q \in Plans : q # p => Same(q)
    BY <1>1, <1>2, MovesTo
<1>13. ASSUME NEW q \in Plans, MayCreate(q)' PROVE AccountOf[q] # AccountOf[p] /\ MayCreate(q)
  <2>1. q # p
    BY <1>6, <1>13
  <2>2. MayCreate(q)
    BY <1>3, <1>12, <1>13, <2>1 DEF Same, MayCreate, TakesEffect, StillGood, Connected
  <2> QED
    BY <1>11, <2>1, <2>2, MayCreateIsReserved DEF ProvisioningInv, OneReserved
<1>14. ASSUME NEW a, a # AccountOf[p] PROVE Made(a)' = Made(a)
    BY <1>3, <1>12, <1>14 DEF Made, Same
<1>15. Made(AccountOf[p])' \subseteq Made(AccountOf[p]) \cup {p}
    BY <1>3, <1>4, <1>12 DEF Made, Same
<1>16. RoomForOne'
  <2> SUFFICES ASSUME NEW q \in Plans, MayCreate(q)'
               PROVE  Cardinality(Made(AccountOf[q])') < MaxInstances
    BY DEF RoomForOne, Made
  <2> QED
    BY <1>13, <1>14 DEF ProvisioningInv, RoomForOne
<1>17. WithinLimit'
  <2> SUFFICES ASSUME NEW a \in Accounts PROVE Cardinality(Made(a)') <= MaxInstances
    BY DEF WithinLimit, Made
  <2>1. CASE a # AccountOf[p]
    BY <1>14, <2>1 DEF ProvisioningInv, WithinLimit, Made
  <2>2. CASE a = AccountOf[p]
    <3>1. Cardinality(Made(a)) < MaxInstances
      BY <1>11, <2>2 DEF ProvisioningInv, RoomForOne
    <3>2. IsFiniteSet(Made(a)) /\ Cardinality(Made(a)) \in Nat
      BY FS_Subset, FS_CardinalityType, ProvisioningAssumption DEF Made
    <3>3. Cardinality(Made(a) \cup {p}) <= Cardinality(Made(a)) + 1 /\ Cardinality(Made(a) \cup {p}) \in Nat
      BY <3>2, OneMore
    <3>4. Made(a)' \in SUBSET (Made(a) \cup {p}) /\ (Made(a) \cup {p}) \in SUBSET Plans
      BY <1>15, <2>2 DEF Made
    <3>5. Cardinality(Made(a)') <= Cardinality(Made(a) \cup {p}) /\ Cardinality(Made(a)') \in Nat
      BY <3>4, FewerAreFewer
    <3> QED
      BY <3>1, <3>2, <3>3, <3>5, ProvisioningAssumption
  <2> QED
    BY <2>1, <2>2
<1> QED
    BY <1>10, <1>16, <1>17 DEF ProvisioningInv

-----------------------------------------------------------------------------
(* The reconciliations.                                                    *)

LEMMA RecKeeps ==
    ASSUME ProvisioningInv, NEW x \in Admins,
           \/ \E p \in Plans : StartReconcile(x, p)
           \/ Locate(x) \/ VerifyRec(x) \/ AbandonRec(x)
    PROVE  ProvisioningInv'
<1>1. /\ UNCHANGED <<planVars, pc, session, resourceVars, account, regionVars>>
      /\ UNCHANGED <<status, resourceId, age, idle, pc, session, aws, hidden>>
    BY DEF StartReconcile, Locate, VerifyRec, AbandonRec, planVars, resourceVars
<1>2. ASSUME NEW r \in Reconciling \cup {NotReconciling}, rec' = [rec EXCEPT ![x] = r]
      PROVE  rec'[x] = r
    BY <1>2 DEF ProvisioningInv, TypeOK
<1>3. 0 \in 0 .. LagTicks /\ LagTicks \in 0 .. LagTicks
    BY ProvisioningAssumption
<1>4. ASSUME StopRec(x) PROVE ProvisioningInv'
  <2>1. rec' = [rec EXCEPT ![x] = NotReconciling] /\ rec'[x] = NotReconciling
    BY <1>2, <1>4 DEF StopRec
  <2>2. RecInv(x)'
    BY <2>1 DEF RecInv, NotReconciling
  <2> QED
    BY <1>1, <2>1, <2>2, RecStep
<1>5. ASSUME NEW p \in Plans, StartReconcile(x, p) PROVE ProvisioningInv'
  <2> DEFINE r == [pc |-> "looking", plan |-> p, known |-> resourceId[p], lag |-> 0]
  <2>1. r \in Reconciling /\ rec' = [rec EXCEPT ![x] = r]
    BY <1>3, <1>5, PlanTypes DEF StartReconcile, Reconciling, ProvisioningInv
  <2>2. rec'[x] = r /\ status[p] \notin Unreserved
    BY <1>2, <1>5, <2>1 DEF StartReconcile, MayReconcile, Unreserved
  <2>3. RecInv(x)'
    BY <1>1, <2>2 DEF RecInv
  <2> QED
    BY <1>1, <2>1, <2>3, RecStep
<1>6. ASSUME NEW label \in {"absent", "verifying", "finishing"}, NEW lag \in 0 .. LagTicks,
             GotoRec(x, label, lag), rec[x] # NotReconciling,
             NEW p \in Plans, rec[x].plan = p,
             label = "finishing" => Complete(p),
             label = "absent" => Nothing(p) \/ age[p] + lag < CreateBy + VisibleTicks + LagTicks
      PROVE  ProvisioningInv'
  <2> DEFINE r == [rec[x] EXCEPT !.pc = label, !.lag = lag]
  <2>1. r \in Reconciling /\ r.plan = p /\ r.pc = label /\ r.lag = lag
    <3>1. rec[x] \in Reconciling
      BY <1>6 DEF ProvisioningInv, TypeOK
    <3> QED
      BY <1>6, <3>1 DEF Reconciling
  <2>2. rec' = [rec EXCEPT ![x] = r] /\ rec'[x] = r
    BY <1>2, <1>6, <2>1 DEF GotoRec
  <2>3. status[p] \notin Unreserved
    BY <1>6 DEF ProvisioningInv, RecInv
  <2> HIDE DEF r
  <2>4. (Nothing(p)' <=> Nothing(p)) /\ (Complete(p)' <=> Complete(p))
    BY <1>1 DEF Nothing, Complete, TakesEffect
  <2>5. RecInv(x)'
    BY <1>1, <1>6, <2>1, <2>2, <2>3, <2>4 DEF RecInv
  <2> QED
    BY <1>1, <2>1, <2>2, <2>5, RecStep
<1>7. CASE Locate(x)
  <2>1. rec[x].pc = "looking" /\ rec[x] # NotReconciling
    BY <1>7 DEF Locate, NotReconciling
  <2>2. PICK p \in Plans : rec[x].plan = p
    BY <2>1 DEF ProvisioningInv, TypeOK, Reconciling
  <2>3. CASE GotoRec(x, "verifying", 0)
    BY <1>3, <1>6, <2>1, <2>2, <2>3
  <2>4. CASE ~ Shows(p) /\ GotoRec(x, "absent", LagTicks)
    <3>1. /\ age[p] \in Nat /\ session[p] \in Nat /\ hidden[p] \in Nat
          /\ aws[p] \notin Existing => hidden[p] = 0
          /\ PlanInv(p)
      BY PlanTypes DEF ProvisioningInv
    <3>2. /\ ExpiryTicks \in Nat /\ SessionTicks \in Nat /\ VisibleTicks \in Nat /\ LagTicks \in Nat
      BY ProvisioningAssumption
    <3>3. \/ Nothing(p)
          \/ TakesEffect(p) /\ session[p] > 0
          \/ hidden[p] > 0
          \/ ~ (age[p] >= ExpiryTicks)
      BY <2>4, <3>1 DEF Nothing, Shows, TakesEffect
    <3>4. Nothing(p) \/ age[p] < CreateBy + VisibleTicks
      BY <3>1, <3>2, <3>3 DEF PlanInv, InTime, CreateBy
    <3>5. Nothing(p) \/ age[p] + LagTicks < CreateBy + VisibleTicks + LagTicks
      BY <3>1, <3>2, <3>4 DEF CreateBy
    <3> QED
      BY <1>3, <1>6, <2>1, <2>2, <2>4, <3>5
  <2> QED
    BY <1>7, <2>2, <2>3, <2>4 DEF Locate
<1>8. CASE VerifyRec(x)
  <2>1. rec[x].pc = "verifying" /\ rec[x] # NotReconciling
    BY <1>8 DEF VerifyRec, NotReconciling
  <2>2. PICK p \in Plans : rec[x].plan = p
    BY <2>1 DEF ProvisioningInv, TypeOK, Reconciling
  <2>3. CASE Verifies(p) /\ GotoRec(x, "finishing", 0)
    <3>1. Complete(p)
      BY <2>3 DEF Verifies, Shows, Complete
    <3> QED
      BY <1>3, <1>6, <2>1, <2>2, <2>3, <3>1
  <2> QED
    BY <1>4, <1>8, <2>2, <2>3 DEF VerifyRec
<1> QED
    BY <1>4, <1>5, <1>7, <1>8 DEF AbandonRec

\* The last statement of a reconciliation.
LEMMA RecEndKeeps ==
    ASSUME ProvisioningInv, NEW x \in Admins, ReleaseAbsent(x) \/ FinishRec(x)
    PROVE  ProvisioningInv'
<1>1. rec[x] # NotReconciling /\ rec[x].pc \in {"absent", "finishing"}
  <2>1. rec[x].pc \in {"absent", "finishing"}
    BY Zenon DEF ReleaseAbsent, FinishRec
  <2> QED
    BY <2>1 DEF NotReconciling
<1>2. PICK p \in Plans : rec[x].plan = p
    BY <1>1 DEF ProvisioningInv, TypeOK, Reconciling
<1>3. StopRec(x) /\ UNCHANGED <<pc, session, resourceVars, account, regionVars>> /\ Narrows
    BY RegionsNarrow DEF ReleaseAbsent, FinishRec, ProvisioningInv
<1>4. /\ rec' = [rec EXCEPT ![x] = NotReconciling] /\ rec'[x] = NotReconciling
      /\ rec' \in [Admins -> Reconciling \cup {NotReconciling}]
      /\ \A y \in Admins : rec'[y] = rec[y] \/ rec'[y] = NotReconciling
    BY <1>3 DEF StopRec, ProvisioningInv, TypeOK
<1>5. CASE UNCHANGED planVars
  <2>1. RecInv(x)'
    BY <1>4 DEF RecInv, NotReconciling
  <2> QED
    BY <1>3, <1>4, <1>5, <2>1, RecStep
<1>6. /\ PlanInv(p) /\ pc[p] \in CallPCs /\ resourceId[p] \in BOOLEAN /\ age[p] \in Nat
      /\ resourceId[p] => aws[p] \in Existing \cup {"removed"}
      /\ Goto(p, pc[p]) /\ status[p] \notin Unreserved
    BY <1>1, <1>2, <1>3, PlanTypes, Unmoved DEF Goto, ProvisioningInv, RecInv
<1>7. /\ pc[p] \in {"created", "configuring", "verifying", "finishing"} =>
           aws[p] \in Existing \cup {"removed"}
      /\ pc[p] = "finishing" => Complete(p)
    BY <1>6 DEF PlanInv, MadeIsThere
<1>8. CASE rec[x].pc = "absent" /\ WaitedFor(p) /\ SetPlan(p, "FAILED", resourceId[p])
  <2>1. Nothing(p)
    <3>1. rec[x].lag \in Nat
      BY <1>1 DEF ProvisioningInv, TypeOK, Reconciling
    <3>2. age[p] >= WaitTicks
      BY <1>8 DEF WaitedFor
    <3>3. CreateBy + VisibleTicks + LagTicks <= WaitTicks /\ CreateBy + VisibleTicks + LagTicks \in Nat
      BY ProvisioningAssumption DEF CreateBy
    <3>4. ~ (age[p] + rec[x].lag < CreateBy + VisibleTicks + LagTicks)
      BY <1>6, <3>1, <3>2, <3>3, ProvisioningAssumption
    <3> QED
      BY <1>2, <1>8, <3>4 DEF ProvisioningInv, RecInv
  <2> QED
    BY <1>3, <1>4, <1>6, <1>7, <1>8, <2>1, RowStep DEF Statuses, Unreserved, Reserved, Nothing
<1>9. CASE rec[x].pc = "finishing" /\ SetPlan(p, "SUCCEEDED", TRUE)
  <2>1. Complete(p)
    BY <1>2, <1>9 DEF ProvisioningInv, RecInv
  <2> QED
    BY <1>3, <1>4, <1>6, <1>7, <1>9, <2>1, RowStep DEF Statuses, Unreserved, Reserved, Complete, Existing
<1> QED
    BY <1>2, <1>5, <1>8, <1>9 DEF ReleaseAbsent, FinishRec

-----------------------------------------------------------------------------
(* Disconnecting, and time.                                                *)

\* An account that goes only makes fewer plans good; its regions are looked at later.
LEMMA AccountKeeps ==
    ASSUME ProvisioningInv, NEW a \in Accounts, SetRegions(a) \/ Disconnect(a) \/ DeleteAccount(a)
    PROVE  ProvisioningInv'
<1>1. /\ UNCHANGED <<status, resourceId, age, idle, pc, session, aws, hidden, rec>>
      /\ \/ account' = [account EXCEPT ![a] = "disconnecting"] /\ account[a] = "connected"
         \/ account' = [account EXCEPT ![a] = "gone"]
         \/ account' = account
      /\ UNCHANGED regionVars \/ SetRegions(a)
    BY DEF SetRegions, Disconnect, DeleteAccount, planVars, resourceVars
<1>2. TypeOK' /\ Narrows
  <2>1. Narrows
    BY <1>1, RegionsNarrow DEF ProvisioningInv
  <2> QED
    BY <1>1, <2>1 DEF ProvisioningInv, TypeOK, Narrows
<1>3. \A q \in Plans : PlanInv(q)'
    BY <1>1, SameKeeps DEF ProvisioningInv, Same
<1>4. \A x \in Admins : RecInv(x)'
    BY <1>1 DEF ProvisioningInv, RecInv, Nothing, Complete, TakesEffect
<1>5. OneReserved'
    BY <1>1 DEF ProvisioningInv, OneReserved
<1>6. \A b \in Accounts : account'[b] # "gone" => account[b] # "gone"
    BY <1>1 DEF ProvisioningInv, TypeOK
<1>7. \A q \in Plans : MayCreate(q)' => MayCreate(q)
    BY <1>1, <1>6, ProvisioningAssumption DEF MayCreate, TakesEffect, StillGood, Connected
<1>8. RoomForOne' /\ WithinLimit'
    BY <1>1, <1>2, <1>7, RoomKept
<1> QED
    BY <1>2, <1>3, <1>4, <1>5, <1>8 DEF ProvisioningInv

\* Time takes from what is left as much as it adds to an age that still grows.
LEMMA TickKeeps ==
    ASSUME ProvisioningInv, Tick
    PROVE  ProvisioningInv'
<1>1. UNCHANGED <<status, resourceId, pc, aws, account>> /\ TypeOK /\ Narrows
    BY RegionsNarrow DEF Tick, ProvisioningInv
<1>2. /\ ExpiryTicks \in Nat /\ SessionTicks \in Nat /\ VisibleTicks \in Nat /\ LagTicks \in Nat
      /\ WaitTicks \in Nat /\ CreateBy \in Nat /\ CreateBy + VisibleTicks + LagTicks <= WaitTicks
      /\ CreateBy = ExpiryTicks + SessionTicks
    BY ProvisioningAssumption DEF CreateBy
<1>3. ASSUME NEW q \in Plans
      PROVE  /\ age[q] \in 0 .. WaitTicks /\ age'[q] \in 0 .. WaitTicks
             /\ idle'[q] \in 0 .. WaitTicks
             /\ session[q] \in 0 .. SessionTicks /\ session'[q] \in 0 .. SessionTicks
             /\ hidden[q] \in 0 .. VisibleTicks /\ hidden'[q] \in 0 .. VisibleTicks
             /\ age[q] <= age'[q] /\ age'[q] <= age[q] + 1
             /\ session'[q] <= session[q] /\ (session'[q] > 0 => session'[q] + 1 <= session[q])
             /\ hidden'[q] <= hidden[q] /\ (hidden'[q] > 0 => hidden'[q] + 1 <= hidden[q])
  <2>1. /\ age'[q] = (IF status[q] = "none" THEN age[q] ELSE Older(age[q], WaitTicks))
        /\ idle'[q] = (IF status[q] = "none" THEN idle[q] ELSE Older(idle[q], WaitTicks))
        /\ session'[q] = Less(session[q]) /\ hidden'[q] = Less(hidden[q])
    BY DEF Tick
  <2>2. /\ age[q] \in 0 .. WaitTicks /\ idle[q] \in 0 .. WaitTicks
        /\ session[q] \in 0 .. SessionTicks /\ hidden[q] \in 0 .. VisibleTicks
    BY <1>1, PlanTypes
  <2> QED
    BY <1>2, <2>1, <2>2 DEF Older, Less
<1>4. /\ age' \in [Plans -> 0..WaitTicks] /\ idle' \in [Plans -> 0..WaitTicks]
      /\ session' \in [Plans -> 0..SessionTicks] /\ hidden' \in [Plans -> 0..VisibleTicks]
  <2>1. /\ age' = [q \in Plans |-> age'[q]] /\ idle' = [q \in Plans |-> idle'[q]]
        /\ session' = [q \in Plans |-> session'[q]] /\ hidden' = [q \in Plans |-> hidden'[q]]
    BY DEF Tick
  <2> QED
    BY <1>3, <2>1
<1>5. ASSUME NEW x \in Admins
      PROVE  /\ rec'[x] \in Reconciling \cup {NotReconciling}
             /\ rec'[x].pc = rec[x].pc /\ rec'[x].plan = rec[x].plan
             /\ rec'[x] # NotReconciling => rec[x] # NotReconciling
             /\ rec[x] # NotReconciling => rec[x].lag \in Nat
             /\ rec'[x].pc = "absent" => rec'[x].lag = rec[x].lag - 1 /\ rec[x].lag > 0
  <2>1. rec'[x] = [rec[x] EXCEPT !.lag = Less(rec[x].lag)] /\ (rec[x].pc = "absent" => rec[x].lag > 0)
    BY DEF Tick
  <2>2. rec[x] \in Reconciling \cup {NotReconciling}
    BY <1>1 DEF TypeOK
  <2>3. CASE rec[x] = NotReconciling
    <3>1. NotReconciling.lag = 0 /\ Less(0) = 0
      BY DEF NotReconciling, Less
    <3>2. [NotReconciling EXCEPT !.lag = 0] = NotReconciling
      <4> DEFINE R == [pc : {"idle"}, plan : {NoPlan}, known : BOOLEAN, lag : {0}]
      <4>1. \A r \in R : [r EXCEPT !.lag = 0] = r
        OBVIOUS
      <4>2. NotReconciling \in R
        BY DEF NotReconciling
      <4> HIDE DEF R
      <4> QED
        BY <4>1, <4>2
    <3>3. rec'[x] = NotReconciling /\ NotReconciling.pc # "absent"
      BY <2>1, <2>3, <3>1, <3>2 DEF NotReconciling
    <3> QED
      BY <2>3, <3>3
  <2>4. CASE rec[x] \in Reconciling
    <3>1. /\ rec[x].lag \in 0 .. LagTicks
          /\ rec[x].pc \in {"looking", "absent", "verifying", "finishing"}
      BY <2>4 DEF Reconciling
    <3>2. Less(rec[x].lag) \in 0 .. LagTicks /\ (rec[x].lag > 0 => Less(rec[x].lag) = rec[x].lag - 1)
      BY <1>2, <3>1 DEF Less
    <3> DEFINE m == Less(rec[x].lag)
    <3> HIDE DEF m
    <3>3. rec'[x] = [rec[x] EXCEPT !.lag = m] /\ m \in 0 .. LagTicks
      BY <2>1, <3>2 DEF m
    <3>4. rec'[x] \in Reconciling /\ rec'[x].pc = rec[x].pc /\ rec'[x].plan = rec[x].plan /\ rec'[x].lag = m
      BY <2>4, <3>3 DEF Reconciling
    <3>5. rec[x] # NotReconciling
      BY <3>1 DEF NotReconciling
    <3> QED
      BY <1>2, <2>1, <3>1, <3>2, <3>4, <3>5 DEF m
  <2> QED
    BY <2>2, <2>3, <2>4
<1>6. rec' \in [Admins -> Reconciling \cup {NotReconciling}]
  <2>1. rec' = [x \in Admins |-> rec'[x]]
    BY DEF Tick
  <2> QED
    BY <1>5, <2>1
<1>7. TypeOK'
  <2>1. \A q \in Plans : aws'[q] \notin Existing => hidden'[q] = 0
    BY <1>1, <1>3 DEF TypeOK
  <2> QED
    BY <1>1, <1>4, <1>6, <2>1 DEF TypeOK, Narrows
<1>8. ASSUME NEW q \in Plans
      PROVE  /\ TakesEffect(q)' => TakesEffect(q)
             /\ Complete(q) => Complete(q)'
             /\ Nothing(q) => Nothing(q)'
  <2>1. TakesEffect(q)' => TakesEffect(q)
    BY <1>1, <1>3 DEF TakesEffect
  <2>2. Complete(q) => Complete(q)'
    BY <1>1, <1>3 DEF Complete
  <2>3. Nothing(q) => Nothing(q)'
    BY <1>1, <1>2, <1>3, <2>1 DEF Nothing
  <2> QED
    BY <2>1, <2>2, <2>3
<1>9. ASSUME NEW q \in Plans PROVE PlanInv(q)'
  <2>1. PlanInv(q)
    BY DEF ProvisioningInv
  <2>2. InTime(q)'
    <3>1. TakesEffect(q)' => age'[q] + session'[q] < CreateBy
      <4>1. ASSUME TakesEffect(q)' PROVE age[q] + session[q] < CreateBy /\ session'[q] > 0
        BY <1>8, <2>1, <4>1 DEF PlanInv, InTime, TakesEffect
      <4> QED
        BY <1>2, <1>3, <4>1
    <3>2. hidden'[q] > 0 => age'[q] + hidden'[q] < CreateBy + VisibleTicks
      <4>1. ASSUME hidden'[q] > 0 PROVE age[q] + hidden[q] < CreateBy + VisibleTicks
        BY <1>3, <2>1, <4>1 DEF PlanInv, InTime
      <4> QED
        BY <1>2, <1>3, <4>1
    <3> QED
      BY <3>1, <3>2 DEF InTime, CreateBy
  <2> QED
    BY <1>1, <1>8, <2>1, <2>2 DEF PlanInv, QuietBefore, MadeIsThere
<1>10. ASSUME NEW x \in Admins PROVE RecInv(x)'
  <2>1. CASE rec[x] = NotReconciling
    <3>1. rec'[x] = NotReconciling
      BY <1>5, <2>1
    <3> QED
      BY <3>1 DEF RecInv, NotReconciling
  <2>2. CASE rec[x] # NotReconciling
    <3>1. PICK p \in Plans : rec[x].plan = p
      BY <1>1, <2>2 DEF TypeOK, Reconciling
    <3>2. /\ status[p] \notin Unreserved
          /\ rec[x].pc = "absent" =>
               Nothing(p) \/ age[p] + rec[x].lag < CreateBy + VisibleTicks + LagTicks
          /\ rec[x].pc = "finishing" => Complete(p)
      BY <2>2, <3>1 DEF ProvisioningInv, RecInv
    <3>3. rec'[x].pc = "absent" =>
            Nothing(p)' \/ age'[p] + rec'[x].lag < CreateBy + VisibleTicks + LagTicks
      <4>1. ASSUME rec'[x].pc = "absent", ~ Nothing(p)
            PROVE  age'[p] + rec'[x].lag < CreateBy + VisibleTicks + LagTicks
        <5>1. /\ age[p] + rec[x].lag < CreateBy + VisibleTicks + LagTicks
              /\ rec'[x].lag = rec[x].lag - 1 /\ rec[x].lag \in Nat
          BY <1>5, <2>2, <3>2, <4>1
        <5> QED
          BY <1>2, <1>3, <5>1
      <4> QED
        BY <1>8, <4>1
    <3>4. rec'[x].plan = p /\ status'[p] \notin Unreserved /\ (rec'[x].pc = "finishing" => Complete(p)')
      BY <1>1, <1>5, <1>8, <3>1, <3>2
    <3> QED
      BY <3>3, <3>4 DEF RecInv, CreateBy
  <2> QED
    BY <2>1, <2>2
<1>11. OneReserved'
    BY <1>1 DEF ProvisioningInv, OneReserved
<1>12. ASSUME NEW q \in Plans PROVE MayCreate(q)' => MayCreate(q)
  <2>1. age'[q] < ExpiryTicks => age[q] < ExpiryTicks
    BY <1>2, <1>3
  <2>2. session'[q] > 0 => session[q] > 0
    BY <1>3
  <2> QED
    BY <1>1, <1>8, <2>1, <2>2 DEF MayCreate, StillGood, Connected
<1>13. RoomForOne' /\ WithinLimit'
    BY <1>1, <1>12, RoomKept
<1> QED
    BY <1>7, <1>9, <1>10, <1>11, <1>13 DEF ProvisioningInv

-----------------------------------------------------------------------------
(* The theorems.                                                           *)

LEMMA ProvisioningInitInv == Init => ProvisioningInv
<1> SUFFICES ASSUME Init PROVE ProvisioningInv
    OBVIOUS
<1>1. 0 \in 0 .. WaitTicks /\ 0 \in 0 .. SessionTicks /\ 0 \in 0 .. VisibleTicks
    BY ProvisioningAssumption
<1>2. TypeOK
    BY <1>1 DEF Init, TypeOK, RegionTypes, Statuses, CallPCs
<1>3. ASSUME NEW p \in Plans PROVE PlanInv(p)
    BY <1>3 DEF Init, PlanInv, QuietBefore, MadeIsThere, InTime, TakesEffect, Unreserved
<1>4. \A x \in Admins : RecInv(x)
    BY DEF Init, RecInv, NotReconciling
<1>5. OneReserved
    BY DEF Init, OneReserved, Reserved
<1>6. RoomForOne
    BY DEF Init, RoomForOne, MayCreate, TakesEffect
<1>7. WithinLimit
  <2> SUFFICES ASSUME NEW a \in Accounts PROVE Cardinality(Made(a)) <= MaxInstances
    BY DEF WithinLimit, Made
  <2>1. Made(a) = {}
    BY DEF Init, Existing, Made
  <2>2. Cardinality(Made(a)) = 0
    BY <2>1, FS_EmptySet
  <2> QED
    BY <2>2, ProvisioningAssumption
<1> QED
    BY <1>2, <1>3, <1>4, <1>5, <1>6, <1>7 DEF ProvisioningInv

LEMMA ProvisioningStepInv == ProvisioningInv /\ [Next]_vars => ProvisioningInv'
<1> SUFFICES ASSUME ProvisioningInv, [Next]_vars PROVE ProvisioningInv'
    OBVIOUS
<1>1. ASSUME NEW p \in Plans, MakePlan(p) \/ Apply(p) \/ Die(p) \/ Aws(p) PROVE ProvisioningInv'
    BY <1>1, CallKeeps, RowKeeps, OpenSessionKeeps, SendCreateKeeps, ResourceKeeps, AwsCreatesKeeps
    DEF Apply, Aws
<1>2. ASSUME NEW x \in Admins, Reconcile(x) PROVE ProvisioningInv'
    BY <1>2, RecKeeps, RecEndKeeps DEF Reconcile
<1>3. CASE UNCHANGED vars
  <2>1. UNCHANGED <<status, resourceId, age, idle, pc, session, aws, hidden, rec, account>>
    BY <1>3 DEF vars, planVars, resourceVars
  <2>2. TypeOK' /\ Narrows
    <3>1. Narrows
      BY <1>3, RegionsNarrow DEF vars, ProvisioningInv
    <3> QED
      BY <2>1, <3>1 DEF ProvisioningInv, TypeOK, Narrows
  <2>3. \A q \in Plans : PlanInv(q)'
    BY <2>1, SameKeeps DEF ProvisioningInv, Same
  <2>4. \A x \in Admins : RecInv(x)'
    BY <2>1 DEF ProvisioningInv, RecInv, Nothing, Complete, TakesEffect
  <2>5. OneReserved'
    BY <2>1 DEF ProvisioningInv, OneReserved
  <2>6. RoomForOne' /\ WithinLimit'
    BY <2>1, <2>2, RoomKept DEF MayCreate, TakesEffect, StillGood, Connected
  <2> QED
    BY <2>2, <2>3, <2>4, <2>5, <2>6 DEF ProvisioningInv
<1> QED
    BY <1>1, <1>2, <1>3, AccountKeeps, TickKeeps DEF Next

\* The rows, the calls and the resources have their types.
THEOREM ProvisioningTypeCorrect == Spec => []TypeOK
<1>1. ProvisioningInv => TypeOK
    BY DEF ProvisioningInv
<1> QED
    BY <1>1, ProvisioningInitInv, ProvisioningStepInv, PTL DEF Spec

\* An account is released only when its last creation left nothing and never will.
THEOREM FailedLeftNothing == Spec => []FailedHasNothing
<1>1. ProvisioningInv => FailedHasNothing
    BY DEF ProvisioningInv, PlanInv, Nothing, FailedHasNothing
<1> QED
    BY <1>1, ProvisioningInitInv, ProvisioningStepInv, PTL DEF Spec

\* What is recorded as created was completely configured.
THEOREM SuccessIsComplete == Spec => []SucceededIsComplete
<1>1. ProvisioningInv => SucceededIsComplete
    BY DEF ProvisioningInv, PlanInv, MadeIsThere, Complete, SucceededIsComplete
<1> QED
    BY <1>1, ProvisioningInitInv, ProvisioningStepInv, PTL DEF Spec

\* At most one plan of an account can still create something.
THEOREM OneMayCreate == Spec => []OneCreation
<1>1. ProvisioningInv => OneCreation
    BY MayCreateIsReserved DEF ProvisioningInv, OneReserved, OneCreation
<1> QED
    BY <1>1, ProvisioningInitInv, ProvisioningStepInv, PTL DEF Spec

\* The plans of an account never create more than the guardrails allow, in the regions
\* that each of them has counted.
THEOREM LimitIsNotExceeded == Spec => []WithinLimit
<1>1. ProvisioningInv => WithinLimit
    BY DEF ProvisioningInv
<1> QED
    BY <1>1, ProvisioningInitInv, ProvisioningStepInv, PTL DEF Spec
=============================================================================
