---------------------------- MODULE CreateDialog ----------------------------
(***************************************************************************)
(* The dialog that plans and creates a resource                            *)
(* (components/aws/create-resource.tsx) with the calls it makes: makePlan, *)
(* applyPlan, getPlan and recentPlans of server/aws/provisioning.          *)
(*                                                                         *)
(* The dialog disables its buttons while "busy", but the form can still be *)
(* changed, and closing and opening the dialog again loads it anew, which  *)
(* ends "busy" whatever else is in flight.  Calls and answers may be lost; *)
(* a user may then submit again.  What the form holds is one of a few      *)
(* choices; the fields and the words on the screen are left out.  What     *)
(* applying a plan does in AWS is in Provisioning and Creation.            *)
(***************************************************************************)
EXTENDS Naturals, FiniteSets, Sequences

CONSTANTS
    Choices,        \* [name, exposed, valid]: what a form may hold
    MaxKeys,        \* bound: request keys
    MaxInFlight,    \* bound: calls in flight
    MaxDialogSteps  \* bound: steps of the user

VARIABLES
    form,           \* what the form holds
    requestKey,     \* 0 when there is none
    shown,          \* the plan on the screen: [id, status], id 0 for the form
    box,            \* [typed, ticked]: the confirmation
    busy,
    requests,       \* calls in flight
    planRows,       \* provisioning_plans of this user, in order of creation
    recent,         \* what the dialog lists of them
    dlg             \* history: [keys, epoch, steps]

dialogVars == <<form, requestKey, shown, box, busy, requests, planRows, recent, dlg>>

TheForm == [id |-> 0, status |-> "none"]
EmptyBox == [typed |-> "", ticked |-> FALSE]
Ended == {"SUCCEEDED", "FAILED"}

ASSUME DialogAssumption == \A c \in Choices : c.valid \in BOOLEAN /\ c.exposed \in BOOLEAN

DialogInit ==
    /\ form \in Choices
    /\ requestKey = 0 /\ shown = TheForm /\ box = EmptyBox /\ busy = FALSE
    /\ requests = {} /\ planRows = <<>> /\ recent = {}
    /\ dlg = [keys |-> 0, epoch |-> 0, steps |-> 0]

-----------------------------------------------------------------------------
(* The user.                                                               *)

Steps == dlg.steps < MaxDialogSteps
View(i) == [id |-> i, status |-> planRows[i].status]
Sends(r) == Cardinality(requests) < MaxInFlight /\ requests' = requests \cup {r} /\ busy' = TRUE
Call(kind, id, key, what, epoch, ack) ==
    [n |-> dlg.steps, kind |-> kind, step |-> "sent", id |-> id, key |-> key, what |-> what,
     epoch |-> epoch, ack |-> ack]

\* load(), each time the dialog is opened.
OpenDialog ==
    /\ Steps
    /\ ~\E r \in requests : r.kind = "load"
    /\ Sends(Call("load", 0, 0, form, 0, FALSE))
    /\ dlg' = [dlg EXCEPT !.steps = @ + 1]
    /\ UNCHANGED <<form, requestKey, shown, box, planRows, recent>>

\* onChange of the form: any field of it.
ChangeForm(c) ==
    /\ Steps
    /\ shown = TheForm /\ form' = c
    /\ requestKey' = 0
    /\ dlg' = [dlg EXCEPT !.steps = @ + 1, !.epoch = @ + 1]
    /\ UNCHANGED <<shown, box, busy, requests, planRows, recent>>

\* submit(): the key is kept for a repetition of the same form.
\* Mutant: each submission has a key of its own.
KeyForOnce == dlg.keys + 1
KeyFor == IF requestKey = 0 THEN dlg.keys + 1 ELSE requestKey
SubmitForm ==
    /\ Steps
    /\ shown = TheForm /\ ~busy /\ form.valid
    /\ KeyFor <= MaxKeys
    /\ requestKey' = KeyFor
    /\ Sends(Call("plan", 0, KeyFor, form, dlg.epoch, FALSE))
    /\ dlg' = [dlg EXCEPT !.steps = @ + 1, !.keys = IF KeyFor > @ THEN KeyFor ELSE @]
    /\ UNCHANGED <<form, shown, box, planRows, recent>>

TypeName ==
    /\ shown.id # 0 /\ shown.status = "PLANNED"
    /\ box.typed # planRows[shown.id].what.name
    /\ box' = [box EXCEPT !.typed = planRows[shown.id].what.name]
    /\ UNCHANGED <<form, requestKey, shown, busy, requests, planRows, recent, dlg>>

TickExposure ==
    /\ shown.id # 0 /\ shown.status = "PLANNED" /\ planRows[shown.id].what.exposed /\ ~box.ticked
    /\ box' = [box EXCEPT !.ticked = TRUE]
    /\ UNCHANGED <<form, requestKey, shown, busy, requests, planRows, recent, dlg>>

\* apply().
ConfirmPlan ==
    /\ Steps
    /\ shown.id # 0 /\ shown.status = "PLANNED" /\ ~busy
    /\ box.typed = planRows[shown.id].what.name
    /\ Sends(Call("apply", shown.id, 0, planRows[shown.id].what, 0, box.ticked))
    /\ dlg' = [dlg EXCEPT !.steps = @ + 1]
    /\ UNCHANGED <<form, requestKey, shown, box, planRows, recent>>

RefreshPlan ==
    /\ Steps
    /\ shown.id # 0 /\ ~busy
    /\ Sends(Call("get", shown.id, 0, planRows[shown.id].what, 0, FALSE))
    /\ dlg' = [dlg EXCEPT !.steps = @ + 1]
    /\ UNCHANGED <<form, requestKey, shown, box, planRows, recent>>

\* "Edit configuration" keeps the tick, "Create another resource" does not.
BackToForm ==
    /\ Steps
    /\ shown.id # 0 /\ shown.status \in {"PLANNED"} \cup Ended /\ ~busy
    /\ shown' = TheForm /\ requestKey' = 0
    /\ box' = [EmptyBox EXCEPT !.ticked = box.ticked /\ shown.status = "PLANNED"]
    /\ dlg' = [dlg EXCEPT !.steps = @ + 1, !.epoch = @ + 1]
    /\ UNCHANGED <<form, busy, requests, planRows, recent>>

\* One of the recent deployments, as it was when they were listed.
PickRecent(v) ==
    /\ Steps
    /\ shown = TheForm /\ v \in recent /\ shown' = v
    /\ dlg' = [dlg EXCEPT !.steps = @ + 1]
    /\ UNCHANGED <<form, requestKey, box, busy, requests, planRows, recent>>

-----------------------------------------------------------------------------
(* The server.                                                             *)

With(r, new) == requests' = (requests \ {r}) \cup {new}

\* makePlan() looks for a plan of this key ...
LookForKey(r) ==
    /\ r.kind = "plan" /\ r.step = "sent"
    /\ LET prior == {i \in 1..Len(planRows) : planRows[i].key = r.key}
           step == CASE prior = {} -> "checked"
                     [] \E i \in prior : planRows[i].what = r.what -> "answered"
                     [] OTHER -> "refused"
       IN With(r, [r EXCEPT !.step = step, !.id = IF prior = {} THEN 0 ELSE CHOOSE i \in prior : TRUE])
    /\ UNCHANGED <<form, requestKey, shown, box, busy, planRows, recent, dlg>>

\* ... checks, and inserts one unless another request of the key did meanwhile.
\* Mutant: the key is not unique.
KeyIsFree(r) == TRUE
KeyIsUnique(r) == \A i \in 1..Len(planRows) : planRows[i].key # r.key
InsertPlan(r) ==
    /\ r.kind = "plan" /\ r.step = "checked"
    /\ IF KeyIsUnique(r)
       THEN /\ planRows' = Append(planRows, [key |-> r.key, what |-> r.what, epoch |-> r.epoch,
                                             status |-> "PLANNED", expired |-> FALSE, ack |-> FALSE])
            /\ With(r, [r EXCEPT !.step = "answered", !.id = Len(planRows) + 1])
       ELSE LET i == CHOOSE i \in 1..Len(planRows) : planRows[i].key = r.key
            IN /\ With(r, [r EXCEPT !.step = IF planRows[i].what = r.what THEN "answered" ELSE "refused",
                                    !.id = i])
               /\ UNCHANGED planRows
    /\ UNCHANGED <<form, requestKey, shown, box, busy, recent, dlg>>

\* The checks of a plan fail; or the call does not arrive.
RefuseRequest(r) ==
    /\ r.step \in {"sent", "checked"}
    /\ With(r, [r EXCEPT !.step = "refused"])
    /\ UNCHANGED <<form, requestKey, shown, box, busy, planRows, recent, dlg>>

\* applyPlan(): a plan that is no longer PLANNED is only shown.
ApplyRequest(r) ==
    /\ r.kind = "apply" /\ r.step = "sent"
    /\ LET row == planRows[r.id]
       IN IF row.status = "PLANNED" /\ (row.expired \/ (row.what.exposed /\ ~r.ack))
          THEN With(r, [r EXCEPT !.step = "refused"]) /\ UNCHANGED planRows
          ELSE /\ \E s \in IF row.status = "PLANNED" THEN Ended \cup {"UNKNOWN"} ELSE {row.status} :
                    planRows' = [planRows EXCEPT ![r.id].status = s]
               /\ With(r, [r EXCEPT !.step = "answered"])
    /\ UNCHANGED <<form, requestKey, shown, box, busy, recent, dlg>>

ServeRead(r) ==
    /\ r.kind \in {"get", "load"} /\ r.step = "sent"
    /\ With(r, [r EXCEPT !.step = "answered"])
    /\ UNCHANGED <<form, requestKey, shown, box, busy, planRows, recent, dlg>>

PlanExpires(i) ==
    /\ i \in 1..Len(planRows) /\ planRows[i].status = "PLANNED" /\ ~planRows[i].expired
    /\ planRows' = [planRows EXCEPT ![i].expired = TRUE]
    /\ UNCHANGED <<form, requestKey, shown, box, busy, requests, recent, dlg>>

-----------------------------------------------------------------------------
(* The dialog gets an answer, or gives up.                                 *)

Settle(r) ==
    /\ r.step = "answered"
    /\ requests' = requests \ {r} /\ busy' = FALSE
    /\ IF r.kind = "load"
       THEN recent' = {View(i) : i \in 1..Len(planRows)} /\ UNCHANGED shown
       ELSE shown' = View(r.id) /\ UNCHANGED recent
    /\ UNCHANGED <<form, requestKey, box, planRows, dlg>>

\* An error is shown; the request may have been served.
FailRequest(r) ==
    /\ r.step \in {"answered", "refused"}
    /\ requests' = requests \ {r} /\ busy' = FALSE
    /\ UNCHANGED <<form, requestKey, shown, box, planRows, recent, dlg>>

DialogNext ==
    \/ OpenDialog \/ SubmitForm \/ TypeName \/ TickExposure \/ ConfirmPlan
    \/ RefreshPlan \/ BackToForm
    \/ \E c \in Choices : ChangeForm(c)
    \/ \E v \in recent : PickRecent(v)
    \/ \E r \in requests :
         LookForKey(r) \/ InsertPlan(r) \/ RefuseRequest(r) \/ ApplyRequest(r) \/ ServeRead(r)
           \/ Settle(r) \/ FailRequest(r)
    \/ \E i \in 1..Len(planRows) : PlanExpires(i)

DialogSpec == DialogInit /\ [][DialogNext]_dialogVars

-----------------------------------------------------------------------------
(* Properties.                                                             *)

\* However often a form is submitted, by a user who got no answer or who opened
\* the dialog again, it makes one plan as long as it is not changed.
OnePlanPerForm ==
    \A i, j \in 1..Len(planRows) : planRows[i].epoch = planRows[j].epoch => i = j

=============================================================================
