--------------------------- MODULE AccountsProofs ---------------------------
(***************************************************************************)
(* Proofs about what people do with an account: setting provisioning up    *)
(* (ProvisioningSetup), connecting it (Connection, ConnectWizard), editing *)
(* its resources from a page or directly (ResourcePage, ResourceEdit), the *)
(* dialog that plans a resource (CreateDialog), what a plan asks of AWS    *)
(* (Creation), and the identity all of it runs under (Platform).  The      *)
(* modules share no variable but those of a page with its edits and of the *)
(* wizard with its connection; each part is about one of them, for any     *)
(* panels, roles, keys, calls, forms, configurations and bounds.           *)
(***************************************************************************)
EXTENDS ConnectWizard, ResourcePage, ProvisioningSetup, Creation, CreateDialog, Platform, SequenceTheorems,
        TLAPS

-----------------------------------------------------------------------------
(* ProvisioningSetup: the invariant.                                       *)

SetupSteps == {"none", "options", "setup", "store", "answer", "assume", "enable", "disable", "save"}
SetupRequests == [step : SetupSteps, externalId : Nat]
Templates == {NoTemplate} \cup [trusts : Nat, policy : [creationIn : GuardrailSets]]
PanelStates == [template : Templates, enabled : BOOLEAN, loaded : BOOLEAN, form : GuardrailSets]

SetupTypes ==
    /\ provisioner \in [externalId : Nat, enabled : BOOLEAN, connected : BOOLEAN]
    /\ guardrails \in GuardrailSets
    /\ panel \in [Panels -> PanelStates]
    /\ request \in [Panels -> SetupRequests]
    /\ downloads \subseteq Templates
    /\ stack \in Templates
    /\ lastExternalId \in Nat /\ setupOps \in Nat

\* A request has an external id to store, or the row has one already.
HasExternalId ==
    \A p \in Panels :
        /\ request[p].step = "store" => request[p].externalId # NoId
        /\ request[p].step = "answer" => provisioner.externalId # NoId

\* There is a template only once the row has its external id.
Works(t) == t # NoTemplate => t.trusts = provisioner.externalId /\ provisioner.externalId # NoId
HeldTemplatesWork ==
    /\ \A t \in downloads : Works(t)
    /\ Works(stack)
    /\ \A p \in Panels : Works(panel[p].template)

SetupInv == SetupTypes /\ HasExternalId /\ HeldTemplatesWork

-----------------------------------------------------------------------------
(* ProvisioningSetup: lemmas.                                              *)

\* A request that goes to a step, and one that ends.
LEMMA RequestGoesTypes ==
    ASSUME SetupTypes, NEW p \in Panels, NEW step \in SetupSteps, RequestGoes(p, step)
    PROVE  /\ request' \in [Panels -> SetupRequests] /\ request'[p].step = step
           /\ \A q \in Panels \ {p} : request'[q] = request[q]
<1>1. [request[p] EXCEPT !.step = step] \in SetupRequests
    BY DEF SetupTypes, SetupRequests
<1> QED
    BY <1>1 DEF SetupTypes, SetupRequests, RequestGoes

LEMMA RequestEndsTypes ==
    ASSUME SetupTypes, NEW p \in Panels, RequestEnds(p)
    PROVE  /\ request' \in [Panels -> SetupRequests] /\ request'[p].step = "none"
           /\ \A q \in Panels \ {p} : request'[q] = request[q]
<1>1. NoRequest \in SetupRequests /\ NoRequest.step = "none"
    BY DEF NoRequest, SetupRequests, SetupSteps, NoId
<1> QED
    BY <1>1 DEF SetupTypes, RequestEnds

\* A request of one panel goes on and the row keeps its external id.
LEMMA ExternalIdsAreKept ==
    ASSUME HasExternalId, NEW p \in Panels,
           \A q \in Panels \ {p} : request'[q] = request[q],
           request'[p].step \notin {"store", "answer"},
           provisioner'.externalId = provisioner.externalId
    PROVE  HasExternalId'
BY DEF HasExternalId

\* What is held works as long as the row keeps its external id.
LEMMA TemplatesAreKept ==
    ASSUME HeldTemplatesWork,
           provisioner'.externalId = provisioner.externalId,
           \A t \in downloads' : t \in downloads \/ \E p \in Panels : t = panel[p].template,
           stack' \in downloads \cup {stack, NoTemplate},
           \A p \in Panels : panel'[p].template = panel[p].template
    PROVE  HeldTemplatesWork'
BY DEF HeldTemplatesWork, Works

\* The panel of one administrator changes.
LEMMA PanelMoves ==
    ASSUME SetupTypes, NEW p \in Panels, NEW v \in PanelStates, panel' = [panel EXCEPT ![p] = v]
    PROVE  /\ panel' \in [Panels -> PanelStates] /\ panel'[p] = v
           /\ \A q \in Panels \ {p} : panel'[q] = panel[q]
BY DEF SetupTypes

LEMMA ClickKeeps ==
    ASSUME SetupInv, NEW p \in Panels, NEW step \in SetupSteps \ {"store", "answer"},
           Click(p, step), UNCHANGED <<provisioner, guardrails, downloads, stack, lastExternalId>>,
           panel' \in [Panels -> PanelStates],
           \A q \in Panels : panel'[q].template = panel[q].template
    PROVE  SetupInv'
<1>1. RequestGoes(p, step) /\ setupOps' = setupOps + 1
    BY DEF Click, CountedSetup
<1>2. /\ request' \in [Panels -> SetupRequests] /\ request'[p].step = step
      /\ \A q \in Panels \ {p} : request'[q] = request[q]
    BY <1>1, RequestGoesTypes DEF SetupInv
<1>3. SetupTypes'
    BY <1>1, <1>2 DEF SetupInv, SetupTypes
<1>4. HasExternalId'
    BY <1>2, ExternalIdsAreKept DEF SetupInv
<1>5. HeldTemplatesWork'
    BY TemplatesAreKept DEF SetupInv
<1> QED
    BY <1>3, <1>4, <1>5 DEF SetupInv

\* A request ends without a word about external ids or templates.
LEMMA EndKeeps ==
    ASSUME SetupInv, NEW p \in Panels, RequestEnds(p),
           UNCHANGED <<downloads, stack, lastExternalId, setupOps>>,
           provisioner' \in [externalId : Nat, enabled : BOOLEAN, connected : BOOLEAN],
           provisioner'.externalId = provisioner.externalId,
           guardrails' \in GuardrailSets,
           panel' \in [Panels -> PanelStates],
           \A q \in Panels : panel'[q].template = panel[q].template
    PROVE  SetupInv'
<1>1. /\ request' \in [Panels -> SetupRequests] /\ request'[p].step = "none"
      /\ \A q \in Panels \ {p} : request'[q] = request[q]
    BY RequestEndsTypes DEF SetupInv
<1>2. SetupTypes'
    BY <1>1 DEF SetupInv, SetupTypes
<1>3. HasExternalId'
    BY <1>1, ExternalIdsAreKept DEF SetupInv
<1>4. HeldTemplatesWork'
    BY TemplatesAreKept DEF SetupInv
<1> QED
    BY <1>2, <1>3, <1>4 DEF SetupInv

-----------------------------------------------------------------------------
(* ProvisioningSetup: the steps.                                           *)

LEMMA ReadOptionsKeeps ==
    ASSUME SetupInv, NEW p \in Panels, ReadOptions(p)
    PROVE  SetupInv'
<1>1. PICK v \in PanelStates : panel' = [panel EXCEPT ![p] = v] /\ v.template = panel[p].template
  <2>1. panel[p] \in PanelStates /\ guardrails \in GuardrailSets
      BY DEF SetupInv, SetupTypes
  <2>2. [panel[p] EXCEPT !.form = guardrails, !.loaded = TRUE] \in PanelStates
      BY <2>1 DEF PanelStates
  <2>3. [panel[p] EXCEPT !.form = guardrails, !.loaded = TRUE].template = panel[p].template
      BY <2>1 DEF PanelStates
  <2> QED
      BY <2>2, <2>3 DEF ReadOptions
<1>2. /\ panel' \in [Panels -> PanelStates] /\ panel'[p] = v
      /\ \A q \in Panels \ {p} : panel'[q] = panel[q]
    BY <1>1, PanelMoves DEF SetupInv
<1>3. "setup" \in SetupSteps
    BY DEF SetupSteps
<1>4. /\ request' \in [Panels -> SetupRequests] /\ request'[p].step = "setup"
      /\ \A q \in Panels \ {p} : request'[q] = request[q]
    BY <1>3, RequestGoesTypes DEF SetupInv, ReadOptions
<1>5. SetupTypes'
    BY <1>2, <1>4 DEF SetupInv, SetupTypes, ReadOptions
<1>6. HasExternalId'
    BY <1>4, ExternalIdsAreKept DEF SetupInv, ReadOptions
<1>7. HeldTemplatesWork'
    BY <1>1, <1>2, TemplatesAreKept DEF SetupInv, ReadOptions
<1> QED
    BY <1>5, <1>6, <1>7 DEF SetupInv

\* An external id that is made up is not the one that means there is none.
LEMMA FindConnectionKeeps ==
    ASSUME SetupInv, NEW p \in Panels, FindConnection(p)
    PROVE  SetupInv'
<1> USE DEF FindConnection
<1>1. /\ lastExternalId' \in Nat
      /\ request' \in [Panels -> SetupRequests]
      /\ \A q \in Panels \ {p} : request'[q] = request[q]
      /\ \/ request'[p].step = "store" /\ request'[p].externalId # NoId
         \/ request'[p].step = "answer" /\ provisioner.externalId # NoId
  <2>1. CASE provisioner.externalId = NoId
    <3>1. lastExternalId' \in Nat /\ lastExternalId' # NoId
        BY <2>1 DEF SetupInv, SetupTypes, NoId
    <3>2. [step |-> "store", externalId |-> lastExternalId'] \in SetupRequests
        BY <3>1 DEF SetupRequests, SetupSteps
    <3> QED
        BY <2>1, <3>1, <3>2 DEF SetupInv, SetupTypes
  <2>2. CASE provisioner.externalId # NoId
    <3>1. "answer" \in SetupSteps
        BY DEF SetupSteps
    <3> QED
        BY <2>2, <3>1, RequestGoesTypes DEF SetupInv, SetupTypes
  <2> QED
      BY <2>1, <2>2
<1>2. SetupTypes'
    BY <1>1 DEF SetupInv, SetupTypes
<1>3. HasExternalId'
    BY <1>1 DEF SetupInv, HasExternalId
<1>4. HeldTemplatesWork'
    BY TemplatesAreKept DEF SetupInv
<1> QED
    BY <1>2, <1>3, <1>4 DEF SetupInv

\* The row takes an external id only if it has none, and then nobody holds a
\* template; if it has one, it keeps it.
LEMMA StoreExternalIdKeeps ==
    ASSUME SetupInv, NEW p \in Panels, StoreExternalId(p)
    PROVE  SetupInv'
<1> USE DEF StoreExternalId
<1>1. "answer" \in SetupSteps
    BY DEF SetupSteps
<1>2. /\ request' \in [Panels -> SetupRequests] /\ request'[p].step = "answer"
      /\ \A q \in Panels \ {p} : request'[q] = request[q]
    BY <1>1, RequestGoesTypes DEF SetupInv
<1>3. request[p].externalId \in Nat /\ request[p].externalId # NoId
    BY DEF SetupInv, SetupTypes, SetupRequests, HasExternalId
<1>4. /\ provisioner' \in [externalId : Nat, enabled : BOOLEAN, connected : BOOLEAN]
      /\ provisioner'.externalId # NoId
      /\ provisioner.externalId # NoId => provisioner'.externalId = provisioner.externalId
    BY <1>3 DEF SetupInv, SetupTypes, RowTakes
<1>5. SetupTypes'
    BY <1>2, <1>4 DEF SetupInv, SetupTypes
<1>6. HasExternalId'
    BY <1>2, <1>4 DEF SetupInv, HasExternalId
<1>7. HeldTemplatesWork'
    BY <1>4 DEF SetupInv, HeldTemplatesWork, Works
<1> QED
    BY <1>5, <1>6, <1>7 DEF SetupInv

LEMMA AnswerSetupKeeps ==
    ASSUME SetupInv, NEW p \in Panels, AnswerSetup(p)
    PROVE  SetupInv'
<1> USE DEF AnswerSetup
<1>1. provisioner.externalId \in Nat /\ provisioner.enabled \in BOOLEAN /\ guardrails \in GuardrailSets
    BY DEF SetupInv, SetupTypes
<1>2. provisioner.externalId # NoId
    BY DEF SetupInv, HasExternalId
<1>3. PICK t \in Templates : /\ t = Template(provisioner.externalId, guardrails)
                             /\ t.trusts = provisioner.externalId
  <2>1. Policy(guardrails) \in [creationIn : GuardrailSets]
      BY <1>1 DEF Policy
  <2>2. /\ Template(provisioner.externalId, guardrails) \in Templates
        /\ Template(provisioner.externalId, guardrails).trusts = provisioner.externalId
      BY <1>1, <2>1 DEF Templates, Template
  <2> QED
      BY <2>2
<1>4. PICK v \in PanelStates : panel' = [panel EXCEPT ![p] = v] /\ v.template = t
  <2>1. panel[p] \in PanelStates
      BY DEF SetupInv, SetupTypes
  <2>2. [panel[p] EXCEPT !.template = t, !.enabled = provisioner.enabled] \in PanelStates
      BY <1>1, <2>1 DEF PanelStates
  <2>3. [panel[p] EXCEPT !.template = t, !.enabled = provisioner.enabled].template = t
      BY <2>1 DEF PanelStates
  <2> QED
      BY <1>3, <2>2, <2>3
<1>5. /\ panel' \in [Panels -> PanelStates] /\ panel'[p] = v
      /\ \A q \in Panels \ {p} : panel'[q] = panel[q]
    BY <1>4, PanelMoves DEF SetupInv
<1>6. /\ request' \in [Panels -> SetupRequests] /\ request'[p].step = "none"
      /\ \A q \in Panels \ {p} : request'[q] = request[q]
    BY RequestEndsTypes DEF SetupInv
<1>7. SetupTypes'
    BY <1>5, <1>6 DEF SetupInv, SetupTypes
<1>8. HasExternalId'
    BY <1>6, ExternalIdsAreKept DEF SetupInv
<1>9. HeldTemplatesWork'
    BY <1>2, <1>3, <1>4, <1>5 DEF SetupInv, HeldTemplatesWork, Works
<1> QED
    BY <1>7, <1>8, <1>9 DEF SetupInv

LEMMA AssumeProvisionerKeeps ==
    ASSUME SetupInv, NEW p \in Panels, AssumeProvisioner(p)
    PROVE  SetupInv'
<1> USE DEF AssumeProvisioner
<1>1. "enable" \in SetupSteps
    BY DEF SetupSteps
<1>2. /\ request' \in [Panels -> SetupRequests] /\ request'[p].step = "enable"
      /\ \A q \in Panels \ {p} : request'[q] = request[q]
    BY <1>1, RequestGoesTypes DEF SetupInv
<1>3. SetupTypes'
    BY <1>2 DEF SetupInv, SetupTypes
<1>4. HasExternalId'
    BY <1>2, ExternalIdsAreKept DEF SetupInv
<1>5. HeldTemplatesWork'
    BY TemplatesAreKept DEF SetupInv
<1> QED
    BY <1>3, <1>4, <1>5 DEF SetupInv

LEMMA WriteEnabledKeeps ==
    ASSUME SetupInv, NEW p \in Panels, WriteEnabled(p)
    PROVE  SetupInv'
<1> USE DEF WriteEnabled
<1> DEFINE on == request[p].step = "enable"
<1>1. on \in BOOLEAN
    OBVIOUS
<1>2. /\ provisioner' \in [externalId : Nat, enabled : BOOLEAN, connected : BOOLEAN]
      /\ provisioner'.externalId = provisioner.externalId
    BY <1>1 DEF SetupInv, SetupTypes
<1>3. PICK v \in PanelStates : panel' = [panel EXCEPT ![p] = v] /\ v.template = panel[p].template
  <2>1. panel[p] \in PanelStates
      BY DEF SetupInv, SetupTypes
  <2>2. [panel[p] EXCEPT !.enabled = on] \in PanelStates
      BY <1>1, <2>1 DEF PanelStates
  <2>3. [panel[p] EXCEPT !.enabled = on].template = panel[p].template
      BY <2>1 DEF PanelStates
  <2> QED
      BY <2>2, <2>3
<1>4. /\ panel' \in [Panels -> PanelStates] /\ panel'[p] = v
      /\ \A q \in Panels \ {p} : panel'[q] = panel[q]
    BY <1>3, PanelMoves DEF SetupInv
<1> QED
    BY <1>2, <1>3, <1>4, EndKeeps DEF SetupInv, SetupTypes

LEMMA WriteGuardrailsKeeps ==
    ASSUME SetupInv, NEW p \in Panels, WriteGuardrails(p)
    PROVE  SetupInv'
<1>1. guardrails' \in GuardrailSets
    BY DEF WriteGuardrails, SetupInv, SetupTypes, PanelStates
<1> QED
    BY <1>1, EndKeeps DEF WriteGuardrails, SetupInv, SetupTypes

LEMMA SubmitGuardrailsKeeps ==
    ASSUME SetupInv, NEW p \in Panels, NEW g \in GuardrailSets, SubmitGuardrails(p, g)
    PROVE  SetupInv'
<1> USE DEF SubmitGuardrails
<1>1. PICK v \in PanelStates : panel' = [panel EXCEPT ![p] = v] /\ v.template = panel[p].template
  <2>1. panel[p] \in PanelStates
      BY DEF SetupInv, SetupTypes
  <2>2. [panel[p] EXCEPT !.form = g] \in PanelStates
      BY <2>1 DEF PanelStates
  <2>3. [panel[p] EXCEPT !.form = g].template = panel[p].template
      BY <2>1 DEF PanelStates
  <2> QED
      BY <2>2, <2>3
<1>2. /\ panel' \in [Panels -> PanelStates] /\ panel'[p] = v
      /\ \A q \in Panels \ {p} : panel'[q] = panel[q]
    BY <1>1, PanelMoves DEF SetupInv
<1>3. "save" \in SetupSteps \ {"store", "answer"}
    BY DEF SetupSteps
<1> QED
    BY <1>1, <1>2, <1>3, ClickKeeps

\* The owner gets what a panel holds, deploys what was downloaded, or deletes it.
LEMMA OwnerKeeps ==
    ASSUME SetupInv,
           \/ \E p \in Panels : Download(p)
           \/ \E t \in downloads \cup {NoTemplate} : DeployStack(t)
    PROVE  SetupInv'
<1>1. CASE \E p \in Panels : Download(p)
  <2>1. PICK p \in Panels : Download(p)
      BY <1>1
  <2>2. panel[p].template \in Templates
      BY DEF SetupInv, SetupTypes, PanelStates
  <2>3. SetupTypes'
      BY <2>1, <2>2 DEF Download, SetupInv, SetupTypes
  <2>4. HasExternalId'
      BY <2>1 DEF Download, SetupInv, HasExternalId
  <2>5. HeldTemplatesWork'
      BY <2>1, TemplatesAreKept DEF Download, SetupInv
  <2> QED
      BY <2>3, <2>4, <2>5 DEF SetupInv
<1>2. CASE \E t \in downloads \cup {NoTemplate} : DeployStack(t)
  <2>1. PICK t \in downloads \cup {NoTemplate} : DeployStack(t)
      BY <1>2
  <2>2. SetupTypes'
      BY <2>1 DEF DeployStack, CountedSetup, SetupInv, SetupTypes, Templates
  <2>3. HasExternalId'
      BY <2>1 DEF DeployStack, SetupInv, HasExternalId
  <2>4. HeldTemplatesWork'
      BY <2>1, TemplatesAreKept DEF DeployStack, SetupInv
  <2> QED
      BY <2>2, <2>3, <2>4 DEF SetupInv
<1> QED
    BY <1>1, <1>2

LEMMA ConnectionChangesKeeps ==
    ASSUME SetupInv, ConnectionChanges
    PROVE  SetupInv'
<1> USE DEF ConnectionChanges
<1>1. /\ provisioner' \in [externalId : Nat, enabled : BOOLEAN, connected : BOOLEAN]
      /\ provisioner'.externalId = provisioner.externalId
    BY DEF SetupInv, SetupTypes
<1>2. SetupTypes'
    BY <1>1 DEF CountedSetup, SetupInv, SetupTypes
<1>3. HasExternalId'
    BY <1>1 DEF SetupInv, HasExternalId
<1>4. HeldTemplatesWork'
    BY <1>1, TemplatesAreKept DEF SetupInv
<1> QED
    BY <1>2, <1>3, <1>4 DEF SetupInv

-----------------------------------------------------------------------------
(* ProvisioningSetup: the theorems.                                        *)

LEMMA SetupInvInit == SetupInit => SetupInv
<1> SUFFICES ASSUME SetupInit PROVE SetupInv
    OBVIOUS
<1> USE SetupAssumption DEF SetupInit
<1>1. NewPanel \in PanelStates /\ NewPanel.template = NoTemplate
    BY DEF NewPanel, PanelStates, Templates
<1>2. NoRequest \in SetupRequests /\ NoRequest.step = "none"
    BY DEF NoRequest, SetupRequests, SetupSteps, NoId
<1>3. SetupTypes
    BY <1>1, <1>2 DEF SetupTypes, Templates, NoId
<1>4. HasExternalId
    BY <1>2 DEF HasExternalId
<1>5. HeldTemplatesWork
    BY <1>1 DEF HeldTemplatesWork, Works
<1> QED
    BY <1>3, <1>4, <1>5 DEF SetupInv

LEMMA SetupInvStep == SetupInv /\ [SetupNext]_setupVars => SetupInv'
<1> SUFFICES ASSUME SetupInv, [SetupNext]_setupVars PROVE SetupInv'
    OBVIOUS
<1>1. CASE UNCHANGED setupVars
    BY <1>1 DEF setupVars, SetupInv, SetupTypes, HasExternalId, HeldTemplatesWork, Works
<1>2. CASE ConnectionChanges
    BY <1>2, ConnectionChangesKeeps
<1>3. CASE \E t \in downloads \cup {NoTemplate} : DeployStack(t)
    BY <1>3, OwnerKeeps
<1>4. ASSUME NEW p \in Panels,
             \/ Prepare(p) \/ ReadOptions(p) \/ FindConnection(p) \/ StoreExternalId(p) \/ AnswerSetup(p)
             \/ Enable(p) \/ AssumeProvisioner(p) \/ Disable(p) \/ WriteEnabled(p)
             \/ \E g \in GuardrailSets : SubmitGuardrails(p, g)
             \/ WriteGuardrails(p) \/ Download(p) \/ RequestFails(p)
      PROVE  SetupInv'
  <2>1. CASE Prepare(p) \/ Enable(p) \/ Disable(p)
    <3>1. PICK step \in {"options", "assume", "disable"} :
              Click(p, step) /\ UNCHANGED <<provisioner, guardrails, panel, downloads, stack, lastExternalId>>
        BY <2>1 DEF Prepare, Enable, Disable
    <3>2. step \in SetupSteps \ {"store", "answer"}
        BY DEF SetupSteps
    <3>3. panel' \in [Panels -> PanelStates]
        BY <3>1 DEF SetupInv, SetupTypes
    <3> QED
        BY <3>1, <3>2, <3>3, ClickKeeps
  <2>2. CASE RequestFails(p)
      BY <2>2, EndKeeps DEF RequestFails, SetupInv, SetupTypes
  <2>3. CASE ReadOptions(p)
      BY <2>3, ReadOptionsKeeps
  <2>4. CASE FindConnection(p)
      BY <2>4, FindConnectionKeeps
  <2>5. CASE StoreExternalId(p)
      BY <2>5, StoreExternalIdKeeps
  <2>6. CASE AnswerSetup(p)
      BY <2>6, AnswerSetupKeeps
  <2>7. CASE AssumeProvisioner(p)
      BY <2>7, AssumeProvisionerKeeps
  <2>8. CASE WriteEnabled(p)
      BY <2>8, WriteEnabledKeeps
  <2>9. CASE \E g \in GuardrailSets : SubmitGuardrails(p, g)
      BY <2>9, SubmitGuardrailsKeeps
  <2>10. CASE WriteGuardrails(p)
      BY <2>10, WriteGuardrailsKeeps
  <2>11. CASE Download(p)
      BY <2>11, OwnerKeeps
  <2> QED
      BY <1>4, <2>1, <2>2, <2>3, <2>4, <2>5, <2>6, <2>7, <2>8, <2>9, <2>10, <2>11
<1> QED
    BY <1>1, <1>2, <1>3, <1>4 DEF SetupNext

LEMMA SetupInvAlways == SetupSpec => []SetupInv
BY SetupInvInit, SetupInvStep, PTL DEF SetupSpec

\* The rows, panels, requests and templates are what the code's types say.
THEOREM SetupTypeCorrect == SetupSpec => []SetupTypes
<1>1. SetupInv => SetupTypes
    BY DEF SetupInv
<1> QED
    BY <1>1, SetupInvAlways, PTL

\* Every template that is shown, downloaded or deployed trusts the external id
\* of the row, however many administrators prepare at once.
THEOREM TemplatesWork == SetupSpec => []EveryTemplateWorks
<1>1. SetupInv => EveryTemplateWorks
    BY DEF SetupInv, HeldTemplatesWork, Works, EveryTemplateWorks
<1> QED
    BY <1>1, SetupInvAlways, PTL

-----------------------------------------------------------------------------
(* Connection: the invariant.                                              *)

RoleSteps == {"assume", "fail", "regions", "probe", "write"} \cup InitialJobs \cup {"rules"}
KeySteps == {"identity", "keyRegions", "keyProbe", "keyWrite"}
ConnSteps == {"idle", "mark"} \cup RoleSteps \cup KeySteps
Credentials == RoleArns \cup AccessKeys \cup {NoCred}

Rows == [id : Nat, status : ConnStatuses, method : {"ASSUME_ROLE", "ACCESS_KEY"},
         role : RoleArns \cup {NoCred}, key : AccessKeys \cup {NoCred},
         regions : SUBSET AllRegions, allow : SUBSET AllRegions]
CallStates == [step : ConnSteps, id : Nat, cred : Credentials, was : BOOLEAN,
               status : ConnStatuses, regions : SUBSET AllRegions]

ConnTypes ==
    /\ conn \in Rows
    /\ customer \in [trust : [RoleArns -> Nat], grants : {"all", "some", "few"},
                     regions : SUBSET AllRegions]
    /\ call \in [ConnCalls -> CallStates]
    /\ firstJobs \subseteq InitialJobs /\ alertRules \in BOOLEAN
    /\ proven \subseteq Credentials \X Nat
    /\ connOps \in Nat

\* What a call may write is a credential of its kind, and one that was shown
\* to be of the account when the call got that far.
CallFits(r, shownBefore) ==
    /\ r.step \in RoleSteps => r.cred \in RoleArns
    /\ r.step \in KeySteps => r.cred \in AccessKeys
    /\ r.step \in {"regions", "probe", "write", "keyRegions", "keyProbe", "keyWrite"}
         => <<r.cred, r.id>> \in shownBefore

CallsFit == \A c \in ConnCalls : CallFits(call[c], proven)

\* A key is written only when it works, and no later result takes it away: a
\* role written after it leaves the method as it is.
KeyIsProven == conn.method = "ACCESS_KEY" => <<conn.key, conn.id>> \in proven

ConnInv == ConnTypes /\ CallsFit /\ KeyIsProven /\ UsableIsProven

-----------------------------------------------------------------------------
(* Connection: lemmas.                                                     *)

LEMMA NoCallFits ==
    NoCall \in CallStates /\ \A shownBefore : CallFits(NoCall, shownBefore)
BY DEF NoCall, CallStates, CallFits, ConnSteps, ConnStatuses, Credentials, RoleSteps, KeySteps, InitialJobs

\* One call goes on as r; the row and what was shown to be of the account may
\* change with it.
LEMMA CallMoves ==
    ASSUME ConnInv, NEW c \in ConnCalls, NEW r \in CallStates,
           call' = [call EXCEPT ![c] = r], proven \subseteq proven', CallFits(r, proven')
    PROVE  call' \in [ConnCalls -> CallStates] /\ CallsFit'
<1>1. call' \in [ConnCalls -> CallStates]
    BY DEF ConnInv, ConnTypes
<1>2. ASSUME NEW d \in ConnCalls PROVE CallFits(call'[d], proven')
    BY DEF ConnInv, ConnTypes, CallsFit, CallFits
<1> QED
    BY <1>1, <1>2 DEF CallsFit

\* A call that goes to a step that asks nothing new of it, and one that ends.
LEMMA GoMoves ==
    ASSUME ConnInv, NEW c \in ConnCalls, NEW step \in ConnSteps, Go(c, step),
           proven \subseteq proven',
           CallFits([call[c] EXCEPT !.step = step], proven')
    PROVE  call' \in [ConnCalls -> CallStates] /\ CallsFit'
<1>1. [call[c] EXCEPT !.step = step] \in CallStates
    BY DEF ConnInv, ConnTypes, CallStates
<1>2. call' = [call EXCEPT ![c] = [call[c] EXCEPT !.step = step]]
    BY DEF Go
<1> QED
    BY <1>1, <1>2, CallMoves

LEMMA EndMoves ==
    ASSUME ConnInv, NEW c \in ConnCalls, End(c), proven \subseteq proven'
    PROVE  call' \in [ConnCalls -> CallStates] /\ CallsFit'
BY NoCallFits, CallMoves DEF End

\* The row stays and more is known of it.
LEMMA RowStays ==
    ASSUME ConnInv, conn' = conn, proven \subseteq proven'
    PROVE  KeyIsProven' /\ UsableIsProven'
BY DEF ConnInv, KeyIsProven, UsableIsProven

\* A call writes a row it may write, or leaves the row.
LEMMA RowIsWritten ==
    ASSUME ConnInv, NEW c \in ConnCalls, NEW v \in Rows, UpdateRow(c, v), UNCHANGED proven,
           conn.id = call[c].id =>
             /\ v.id = conn.id
             /\ v.method = "ACCESS_KEY" => <<v.key, v.id>> \in proven
             /\ v.status \in Usable /\ v.method = "ASSUME_ROLE" => <<v.role, v.id>> \in proven
    PROVE  conn' \in Rows /\ KeyIsProven' /\ UsableIsProven'
<1>1. CASE conn' = conn
    BY <1>1, RowStays DEF ConnInv, ConnTypes
<1>2. CASE conn.id = call[c].id /\ conn' = v
  <2>1. v.method \in {"ASSUME_ROLE", "ACCESS_KEY"}
      BY DEF Rows
  <2> QED
      BY <1>2, <2>1 DEF KeyIsProven, UsableIsProven
<1> QED
    BY <1>1, <1>2 DEF UpdateRow

-----------------------------------------------------------------------------
(* Connection: the steps.                                                  *)

LEMMA StartKeeps ==
    ASSUME ConnInv, StartConnection \/ DisconnectAccount
    PROVE  ConnInv'
<1>1. PICK i \in Nat, s \in {"ABSENT", "PENDING"} : conn' = [Absent(i) EXCEPT !.status = s]
  <2>1. conn.id \in Nat
      BY DEF ConnInv, ConnTypes, Rows
  <2>2. CASE StartConnection
      BY <2>1, <2>2 DEF StartConnection
  <2>3. CASE DisconnectAccount
    <3>1. Absent(conn.id) = [Absent(conn.id) EXCEPT !.status = "ABSENT"]
        BY DEF Absent
    <3> QED
        BY <2>1, <2>3, <3>1 DEF DisconnectAccount
  <2> QED
      BY <2>2, <2>3
<1>2. conn' \in Rows /\ conn'.status = s /\ conn'.method = "ASSUME_ROLE"
    BY <1>1 DEF Absent, Rows, ConnStatuses
<1>3. UNCHANGED <<customer, call, alertRules, proven>> /\ firstJobs' = {} /\ connOps' = connOps + 1
    BY DEF StartConnection, DisconnectAccount, Counted
<1>4. ConnTypes'
    BY <1>2, <1>3 DEF ConnInv, ConnTypes
<1>5. CallsFit'
    BY <1>3 DEF ConnInv, CallsFit, CallFits
<1>6. KeyIsProven' /\ UsableIsProven'
    BY <1>2 DEF KeyIsProven, UsableIsProven, Usable
<1> QED
    BY <1>4, <1>5, <1>6 DEF ConnInv

LEMMA BeginValidateKeeps ==
    ASSUME ConnInv, NEW c \in ConnCalls, NEW role \in RoleArns, BeginValidate(c, role)
    PROVE  ConnInv'
<1> USE DEF BeginValidate
<1>1. PICK r \in CallStates : call' = [call EXCEPT ![c] = r] /\ r.step = "assume" /\ r.cred = role
  <2> DEFINE was == conn.status \notin {"PENDING", "CONNECTION_FAILED"}
             r == [NoCall EXCEPT !.step = "assume", !.id = conn.id, !.cred = role, !.was = was]
  <2>1. was \in BOOLEAN
      OBVIOUS
  <2>2. r \in CallStates
      BY <2>1, NoCallFits DEF ConnInv, ConnTypes, Rows, CallStates, ConnSteps, RoleSteps, Credentials
  <2>3. r.step = "assume" /\ r.cred = role
      BY NoCallFits DEF CallStates
  <2> QED
      BY <2>2, <2>3
<1>2. CallFits(r, proven')
    BY <1>1 DEF CallFits, KeySteps
<1>3. call' \in [ConnCalls -> CallStates] /\ CallsFit'
    BY <1>1, <1>2, CallMoves
<1>4. ConnTypes'
    BY <1>3 DEF ConnInv, ConnTypes, Counted
<1> QED
    BY <1>3, <1>4, RowStays DEF ConnInv

LEMMA BeginKeyKeeps ==
    ASSUME ConnInv, NEW c \in ConnCalls, NEW key \in AccessKeys, BeginKey(c, key)
    PROVE  ConnInv'
<1> USE DEF BeginKey
<1>1. PICK r \in CallStates : call' = [call EXCEPT ![c] = r] /\ r.step = "identity" /\ r.cred = key
  <2> DEFINE r == [NoCall EXCEPT !.step = "identity", !.id = conn.id, !.cred = key]
  <2>1. r \in CallStates
      BY NoCallFits DEF ConnInv, ConnTypes, Rows, CallStates, ConnSteps, KeySteps, Credentials
  <2>2. r.step = "identity" /\ r.cred = key
      BY NoCallFits DEF CallStates
  <2> QED
      BY <2>1, <2>2
<1>2. CallFits(r, proven')
    BY <1>1 DEF CallFits, RoleSteps, InitialJobs
<1>3. call' \in [ConnCalls -> CallStates] /\ CallsFit'
    BY <1>1, <1>2, CallMoves
<1>4. ConnTypes'
    BY <1>3 DEF ConnInv, ConnTypes, Counted
<1> QED
    BY <1>3, <1>4, RowStays DEF ConnInv

\* A job that was denied only marks.
LEMMA SyncDeniedKeeps ==
    ASSUME ConnInv, NEW c \in ConnCalls, SyncDenied(c)
    PROVE  ConnInv'
<1> USE DEF SyncDenied
<1>1. PICK r \in CallStates : call' = [call EXCEPT ![c] = r] /\ r.step = "mark"
  <2> DEFINE r == [NoCall EXCEPT !.step = "mark", !.id = conn.id]
  <2>1. r \in CallStates
      BY NoCallFits DEF ConnInv, ConnTypes, Rows, CallStates, ConnSteps
  <2>2. r.step = "mark"
      BY NoCallFits DEF CallStates
  <2> QED
      BY <2>1, <2>2
<1>2. CallFits(r, proven')
    BY <1>1 DEF CallFits, RoleSteps, KeySteps, InitialJobs
<1>3. call' \in [ConnCalls -> CallStates] /\ CallsFit'
    BY <1>1, <1>2, CallMoves
<1>4. ConnTypes'
    BY <1>3 DEF ConnInv, ConnTypes, Counted
<1> QED
    BY <1>3, <1>4, RowStays DEF ConnInv

\* The steps between the first and the last of a call.
LEMMA AssumeKeeps ==
    ASSUME ConnInv, NEW c \in ConnCalls, Assume(c) \/ AssumeDenied(c)
    PROVE  ConnInv'
<1>1. PICK step \in {"regions", "fail"} : Go(c, step)
    BY DEF Assume, AssumeDenied
<1>2. call[c] \in CallStates /\ call[c].step = "assume"
    BY DEF ConnInv, ConnTypes, Assume, AssumeDenied
<1>3. call[c].cred \in RoleArns
    BY <1>2 DEF ConnInv, CallsFit, CallFits, RoleSteps
<1>4. proven \subseteq proven' /\ proven' \subseteq Credentials \X Nat
    BY <1>2 DEF ConnInv, ConnTypes, Assume, AssumeDenied, CallStates
<1>5. UNCHANGED <<conn, customer, firstJobs, alertRules, connOps>>
    BY DEF Assume, AssumeDenied
<1>6. step = "regions" => <<call[c].cred, call[c].id>> \in proven'
  <2>1. CASE Assume(c)
      BY <2>1 DEF Assume
  <2>2. CASE AssumeDenied(c)
    <3>1. call'[c].step = "fail"
        BY <2>2 DEF AssumeDenied, Go, ConnInv, ConnTypes, CallStates
    <3>2. call'[c].step = step
        BY <1>1 DEF Go, ConnInv, ConnTypes, CallStates
    <3> QED
        BY <3>1, <3>2
  <2> QED
      BY <2>1, <2>2
<1>7. step \in ConnSteps /\ step \notin KeySteps
    BY DEF ConnSteps, RoleSteps, KeySteps
<1>8. CallFits([call[c] EXCEPT !.step = step], proven')
    BY <1>2, <1>3, <1>6, <1>7 DEF CallFits, CallStates
<1>9. call' \in [ConnCalls -> CallStates] /\ CallsFit'
    BY <1>1, <1>4, <1>7, <1>8, GoMoves
<1>10. ConnTypes'
    BY <1>4, <1>5, <1>9 DEF ConnInv, ConnTypes
<1> QED
    BY <1>4, <1>5, <1>9, <1>10, RowStays DEF ConnInv

LEMMA EndingKeeps ==
    ASSUME ConnInv, NEW c \in ConnCalls, AssumeUnavailable(c) \/ EnableRules(c) \/ CallDies(c)
    PROVE  ConnInv'
<1>1. /\ End(c) /\ UNCHANGED <<conn, customer, firstJobs, proven, connOps>>
      /\ alertRules' \in BOOLEAN
    BY DEF AssumeUnavailable, EnableRules, CallDies, ConnInv, ConnTypes
<1>2. call' \in [ConnCalls -> CallStates] /\ CallsFit'
    BY <1>1, EndMoves
<1>3. ConnTypes'
    BY <1>1, <1>2 DEF ConnInv, ConnTypes
<1> QED
    BY <1>1, <1>2, <1>3, RowStays DEF ConnInv

LEMMA ReadRegionsKeeps ==
    ASSUME ConnInv, NEW c \in ConnCalls, ReadRegions(c)
    PROVE  ConnInv'
<1> USE DEF ReadRegions
<1>1. call[c] \in CallStates
    BY DEF ConnInv, ConnTypes
<1>2. PICK regions \in {customer.regions, {}} :
          call' = [call EXCEPT ![c].regions = regions,
                               ![c].step = IF @ = "regions" THEN "probe" ELSE "keyProbe"]
    OBVIOUS
<1>3. PICK step \in {"probe", "keyProbe"} :
          /\ call' = [call EXCEPT ![c] = [call[c] EXCEPT !.regions = regions, !.step = step]]
          /\ step = "probe" <=> call[c].step = "regions"
  <2> DEFINE step == IF call[c].step = "regions" THEN "probe" ELSE "keyProbe"
  <2>1. [call[c] EXCEPT !.regions = regions].step = call[c].step
      BY <1>1 DEF CallStates
  <2>2. call' = [call EXCEPT ![c] = [call[c] EXCEPT !.regions = regions, !.step = step]]
      BY <1>2, <2>1 DEF ConnInv, ConnTypes
  <2> QED
      BY <2>2
<1> DEFINE r == [call[c] EXCEPT !.regions = regions, !.step = step]
<1>4. /\ r \in CallStates
      /\ r.step = step /\ r.cred = call[c].cred /\ r.id = call[c].id
    BY <1>1 DEF ConnInv, ConnTypes, CallStates, ConnSteps, RoleSteps, KeySteps
<1>5. CallFits(r, proven')
    BY <1>3, <1>4 DEF ConnInv, CallsFit, CallFits, RoleSteps, KeySteps, InitialJobs
<1>6. call' \in [ConnCalls -> CallStates] /\ CallsFit'
    BY <1>3, <1>4, <1>5, CallMoves
<1>7. ConnTypes'
    BY <1>6 DEF ConnInv, ConnTypes
<1> QED
    BY <1>6, <1>7, RowStays DEF ConnInv

LEMMA ProbeKeeps ==
    ASSUME ConnInv, NEW c \in ConnCalls, Probe(c)
    PROVE  ConnInv'
<1> USE DEF Probe
<1>1. call[c] \in CallStates
    BY DEF ConnInv, ConnTypes
<1>2. Diagnosed(call[c].step = "probe", call[c].regions) \in Usable
    BY DEF Diagnosed, Usable
<1>3. PICK status \in Usable, step \in {"write", "keyWrite"} :
          /\ call' = [call EXCEPT ![c] = [call[c] EXCEPT !.status = status, !.step = step]]
          /\ step = "write" <=> call[c].step = "probe"
    BY <1>1, <1>2 DEF CallStates
<1> DEFINE r == [call[c] EXCEPT !.status = status, !.step = step]
<1>4. /\ r \in CallStates
      /\ r.step = step /\ r.cred = call[c].cred /\ r.id = call[c].id
    BY <1>1 DEF CallStates, ConnSteps, RoleSteps, KeySteps, ConnStatuses
<1>5. CallFits(r, proven')
    BY <1>3, <1>4 DEF ConnInv, CallsFit, CallFits, RoleSteps, KeySteps, InitialJobs
<1>6. call' \in [ConnCalls -> CallStates] /\ CallsFit'
    BY <1>3, <1>4, <1>5, CallMoves
<1>7. ConnTypes'
    BY <1>6 DEF ConnInv, ConnTypes
<1> QED
    BY <1>6, <1>7, RowStays DEF ConnInv

\* The end of a call writes the row, if it is still the one that was read.
LEMMA WriteResultKeeps ==
    ASSUME ConnInv, NEW c \in ConnCalls, WriteResult(c)
    PROVE  ConnInv'
<1> USE DEF WriteResult
<1>1. call[c] \in CallStates /\ conn \in Rows
    BY DEF ConnInv, ConnTypes
<1>2. call[c].cred \in RoleArns /\ <<call[c].cred, call[c].id>> \in proven
    BY DEF ConnInv, CallsFit, CallFits, RoleSteps
<1> DEFINE v == [conn EXCEPT !.role = call[c].cred, !.status = call[c].status, !.regions = call[c].regions]
<1>3. /\ v \in Rows
      /\ v.id = conn.id /\ v.method = conn.method /\ v.key = conn.key /\ v.role = call[c].cred
    BY <1>1, <1>2 DEF Rows, CallStates
<1>4. conn' \in Rows /\ KeyIsProven' /\ UsableIsProven'
  <2>1. conn.method = "ACCESS_KEY" => <<conn.key, conn.id>> \in proven
      BY DEF ConnInv, KeyIsProven
  <2>2. UpdateRow(c, v)
      OBVIOUS
  <2> QED
      BY <1>2, <1>3, <2>1, <2>2, RowIsWritten
<1>5. call' \in [ConnCalls -> CallStates] /\ CallsFit'
  <2>1. CASE Go(c, "INVENTORY_SYNC")
    <3>1. "INVENTORY_SYNC" \in ConnSteps
        BY DEF ConnSteps, RoleSteps, InitialJobs
    <3>2. CallFits([call[c] EXCEPT !.step = "INVENTORY_SYNC"], proven')
        BY <1>1, <1>2 DEF CallFits, CallStates, KeySteps
    <3> QED
        BY <2>1, <3>1, <3>2, GoMoves
  <2>2. CASE End(c)
      BY <2>2, EndMoves
  <2> QED
      BY <2>1, <2>2
<1>6. ConnTypes'
    BY <1>4, <1>5 DEF ConnInv, ConnTypes
<1> QED
    BY <1>4, <1>5, <1>6 DEF ConnInv

LEMMA WriteKeyKeeps ==
    ASSUME ConnInv, NEW c \in ConnCalls, WriteKey(c)
    PROVE  ConnInv'
<1> USE DEF WriteKey
<1>1. call[c] \in CallStates /\ conn \in Rows
    BY DEF ConnInv, ConnTypes
<1>2. call[c].cred \in AccessKeys /\ <<call[c].cred, call[c].id>> \in proven
    BY DEF ConnInv, CallsFit, CallFits, KeySteps
<1> DEFINE v == [conn EXCEPT !.method = "ACCESS_KEY", !.key = call[c].cred,
                             !.status = call[c].status, !.regions = call[c].regions]
<1>3. v \in Rows /\ v.id = conn.id /\ v.method = "ACCESS_KEY" /\ v.key = call[c].cred
    BY <1>1, <1>2 DEF Rows, CallStates
<1>4. conn' \in Rows /\ KeyIsProven' /\ UsableIsProven'
  <2>1. UpdateRow(c, v)
      OBVIOUS
  <2> QED
      BY <1>2, <1>3, <2>1, RowIsWritten
<1>5. call' \in [ConnCalls -> CallStates] /\ CallsFit'
    BY EndMoves
<1>6. ConnTypes'
    BY <1>4, <1>5 DEF ConnInv, ConnTypes
<1> QED
    BY <1>4, <1>5, <1>6 DEF ConnInv

\* A failure makes the row unusable, whatever it was.
LEMMA WriteFailureKeeps ==
    ASSUME ConnInv, NEW c \in ConnCalls, WriteFailure(c) \/ SyncMarks(c)
    PROVE  ConnInv'
<1>1. call[c] \in CallStates /\ conn \in Rows
    BY DEF ConnInv, ConnTypes
<1>2. conn.method = "ACCESS_KEY" => <<conn.key, conn.id>> \in proven
    BY DEF ConnInv, KeyIsProven
<1>3. PICK v \in Rows : /\ UpdateRow(c, v)
                        /\ v.id = conn.id /\ v.method = conn.method /\ v.key = conn.key
                        /\ v.status \notin Usable
  <2>1. CASE WriteFailure(c)
    <3> DEFINE s == IF call[c].was THEN "ROLE_UNAVAILABLE" ELSE "CONNECTION_FAILED"
               v == [conn EXCEPT !.role = call[c].cred, !.status = s]
    <3>1. call[c].cred \in RoleArns
        BY <2>1 DEF WriteFailure, ConnInv, CallsFit, CallFits, RoleSteps
    <3>2. s \in ConnStatuses \ Usable
        BY DEF ConnStatuses, Usable
    <3>3. /\ v \in Rows
          /\ v.id = conn.id /\ v.method = conn.method /\ v.key = conn.key /\ v.status \notin Usable
        BY <1>1, <3>1, <3>2 DEF Rows
    <3>4. UpdateRow(c, v)
        BY <2>1 DEF WriteFailure
    <3> QED
        BY <3>3, <3>4
  <2>2. CASE SyncMarks(c)
    <3> DEFINE v == [conn EXCEPT !.status = "ROLE_UNAVAILABLE"]
    <3>1. /\ v \in Rows
          /\ v.id = conn.id /\ v.method = conn.method /\ v.key = conn.key /\ v.status \notin Usable
        BY <1>1 DEF Rows, ConnStatuses, Usable
    <3>2. UpdateRow(c, v)
        BY <2>2 DEF SyncMarks
    <3> QED
        BY <3>1, <3>2
  <2> QED
      BY <2>1, <2>2
<1>4. End(c) /\ UNCHANGED <<customer, firstJobs, alertRules, proven, connOps>>
    BY DEF WriteFailure, SyncMarks
<1>5. conn' \in Rows /\ KeyIsProven' /\ UsableIsProven'
    BY <1>2, <1>3, <1>4, RowIsWritten
<1>6. call' \in [ConnCalls -> CallStates] /\ CallsFit'
    BY <1>4, EndMoves
<1>7. ConnTypes'
    BY <1>4, <1>5, <1>6 DEF ConnInv, ConnTypes
<1> QED
    BY <1>5, <1>6, <1>7 DEF ConnInv

LEMMA EnqueueFirstKeeps ==
    ASSUME ConnInv, NEW c \in ConnCalls, EnqueueFirst(c)
    PROVE  ConnInv'
<1> USE DEF EnqueueFirst
<1>1. call[c] \in CallStates /\ call[c].cred \in RoleArns
    BY DEF ConnInv, ConnTypes, CallsFit, CallFits, RoleSteps
<1>2. call' \in [ConnCalls -> CallStates] /\ CallsFit'
  <2>1. CASE Enqueues(c)
    <3>1. PICK step \in {"COST_SYNC", "rules"} : Go(c, step)
        BY <2>1
    <3>2. step \in ConnSteps /\ step \notin KeySteps
              /\ step \notin {"regions", "probe", "write", "keyRegions", "keyProbe", "keyWrite"}
        BY DEF ConnSteps, RoleSteps, KeySteps, InitialJobs
    <3>3. CallFits([call[c] EXCEPT !.step = step], proven')
        BY <1>1, <3>2 DEF CallFits, CallStates
    <3> QED
        BY <3>1, <3>2, <3>3, GoMoves
  <2>2. CASE ~Enqueues(c)
      BY <2>2, EndMoves
  <2> QED
      BY <2>1, <2>2
<1>3. ConnTypes'
    BY <1>2 DEF ConnInv, ConnTypes, InitialJobs
<1> QED
    BY <1>2, <1>3, RowStays DEF ConnInv

\* A key goes on only if it is the account's own.
LEMMA IdentifyKeyKeeps ==
    ASSUME ConnInv, NEW c \in ConnCalls, IdentifyKey(c)
    PROVE  ConnInv'
<1> USE DEF IdentifyKey
<1>1. call[c] \in CallStates /\ call[c].cred \in AccessKeys
    BY DEF ConnInv, ConnTypes, CallsFit, CallFits, KeySteps
<1>2. proven \subseteq proven' /\ proven' \subseteq Credentials \X Nat
    BY <1>1 DEF ConnInv, ConnTypes, CallStates
<1>3. call' \in [ConnCalls -> CallStates] /\ CallsFit'
  <2>1. CASE OfTheAccount(call[c].cred)
    <3>1. "keyRegions" \in ConnSteps /\ "keyRegions" \notin RoleSteps
        BY DEF ConnSteps, RoleSteps, KeySteps, InitialJobs
    <3>2. <<call[c].cred, call[c].id>> \in proven'
        BY <2>1 DEF OfTheAccount
    <3>3. CallFits([call[c] EXCEPT !.step = "keyRegions"], proven')
        BY <1>1, <3>1, <3>2 DEF CallFits, CallStates
    <3> QED
        BY <1>2, <2>1, <3>1, <3>3, GoMoves
  <2>2. CASE ~OfTheAccount(call[c].cred)
      BY <1>2, <2>2, EndMoves
  <2> QED
      BY <2>1, <2>2
<1>4. ConnTypes'
    BY <1>2, <1>3 DEF ConnInv, ConnTypes
<1> QED
    BY <1>2, <1>3, <1>4, RowStays DEF ConnInv

\* The allow list and the customer leave credentials alone.
LEMMA OutsideKeeps ==
    ASSUME ConnInv,
           \/ CustomerChanges
           \/ \E r \in RoleArns : \E id \in 1..MaxAccounts : DeployRole(r, id)
           \/ \E regions \in SUBSET AllRegions : SetAllowlist(regions)
    PROVE  ConnInv'
<1>1. UNCHANGED <<call, firstJobs, alertRules, proven>> /\ connOps' \in Nat
  <2>1. connOps \in Nat
      BY DEF ConnInv, ConnTypes
  <2>2. CASE CustomerChanges
      BY <2>1, <2>2 DEF CustomerChanges, Counted
  <2>3. CASE \E r \in RoleArns : \E id \in 1..MaxAccounts : DeployRole(r, id)
      BY <2>1, <2>3 DEF DeployRole
  <2>4. CASE \E regions \in SUBSET AllRegions : SetAllowlist(regions)
      BY <2>1, <2>4 DEF SetAllowlist, Counted
  <2> QED
      BY <2>2, <2>3, <2>4
<1>2. CallsFit'
    BY <1>1 DEF ConnInv, CallsFit, CallFits
<1>3. CASE \E regions \in SUBSET AllRegions : SetAllowlist(regions)
  <2>1. PICK regions \in SUBSET AllRegions : SetAllowlist(regions)
      BY <1>3
  <2>2. /\ conn' \in Rows /\ UNCHANGED customer
        /\ conn'.id = conn.id /\ conn'.method = conn.method /\ conn'.key = conn.key
        /\ conn'.role = conn.role /\ conn'.status = conn.status
      BY <2>1 DEF SetAllowlist, ConnInv, ConnTypes, Rows
  <2>3. ConnTypes'
      BY <1>1, <2>2 DEF ConnInv, ConnTypes
  <2>4. KeyIsProven' /\ UsableIsProven'
      BY <1>1, <2>2 DEF ConnInv, KeyIsProven, UsableIsProven
  <2> QED
      BY <1>2, <2>3, <2>4 DEF ConnInv
<1>4. CASE CustomerChanges \/ \E r \in RoleArns : \E id \in 1..MaxAccounts : DeployRole(r, id)
  <2>1. UNCHANGED conn
      BY <1>4 DEF CustomerChanges, DeployRole
  <2>2. customer' \in [trust : [RoleArns -> Nat], grants : {"all", "some", "few"}, regions : SUBSET AllRegions]
    <3> DEFINE Customers == [trust : [RoleArns -> Nat], grants : {"all", "some", "few"}, regions : SUBSET AllRegions]
    <3>0. customer \in Customers
        BY DEF ConnInv, ConnTypes
    <3>1. CASE CustomerChanges
      <4>1. ASSUME NEW r \in RoleArns PROVE [customer EXCEPT !.trust[r] = 0] \in Customers
          BY <3>0
      <4>2. ASSUME NEW g \in {"all", "some", "few"} PROVE [customer EXCEPT !.grants = g] \in Customers
          BY <3>0
      <4>3. ASSUME NEW r \in AllRegions PROVE [customer EXCEPT !.regions = @ \ {r}] \in Customers
          BY <3>0
      <4> QED
          BY <3>1, <4>1, <4>2, <4>3 DEF CustomerChanges
    <3>2. CASE \E r \in RoleArns : \E id \in 1..MaxAccounts : DeployRole(r, id)
      <4>1. PICK r \in RoleArns : \E id \in 1..MaxAccounts : DeployRole(r, id)
          BY <3>2
      <4>2. PICK id \in 1..MaxAccounts : DeployRole(r, id)
          BY <4>1
      <4>3. id \in Nat
          BY ConnectionAssumption
      <4>4. customer' = [customer EXCEPT !.trust[r] = id, !.grants = "all"]
          BY <4>2 DEF DeployRole
      <4>5. [customer EXCEPT !.trust[r] = id] \in Customers
          BY <3>0, <4>3
      <4>6. [[customer EXCEPT !.trust[r] = id] EXCEPT !.grants = "all"] \in Customers
          BY <4>5
      <4> QED
          BY <4>4, <4>6
    <3> QED
        BY <1>4, <3>1, <3>2
  <2>3. ConnTypes'
      BY <1>1, <2>1, <2>2 DEF ConnInv, ConnTypes
  <2> QED
      BY <1>1, <1>2, <2>1, <2>3, RowStays DEF ConnInv
<1> QED
    BY <1>3, <1>4

-----------------------------------------------------------------------------
(* Connection: the theorems.                                               *)

LEMMA ConnInvInit == ConnInit => ConnInv
<1> SUFFICES ASSUME ConnInit PROVE ConnInv
    OBVIOUS
<1> USE DEF ConnInit
<1>1. Absent(0) \in Rows /\ Absent(0).status = "ABSENT" /\ Absent(0).method = "ASSUME_ROLE"
    BY DEF Absent, Rows, ConnStatuses
<1>2. ConnTypes
    BY <1>1, NoCallFits DEF ConnTypes
<1>3. CallsFit
    BY NoCallFits DEF CallsFit
<1>4. KeyIsProven /\ UsableIsProven
    BY <1>1 DEF KeyIsProven, UsableIsProven, Usable
<1> QED
    BY <1>2, <1>3, <1>4 DEF ConnInv

LEMMA ConnInvStep == ConnInv /\ [ConnNext]_connVars => ConnInv'
<1> SUFFICES ASSUME ConnInv, [ConnNext]_connVars PROVE ConnInv'
    OBVIOUS
<1>1. CASE UNCHANGED connVars
    BY <1>1 DEF connVars, ConnInv, ConnTypes, CallsFit, CallFits, KeyIsProven, UsableIsProven
<1>2. CASE StartConnection \/ DisconnectAccount
    BY <1>2, StartKeeps
<1>3. CASE \/ CustomerChanges
           \/ \E r \in RoleArns : \E id \in 1..MaxAccounts : DeployRole(r, id)
           \/ \E regions \in SUBSET AllRegions : SetAllowlist(regions)
    BY <1>3, OutsideKeeps
<1>4. ASSUME NEW c \in ConnCalls, Arrives(c) PROVE ConnInv'
    BY <1>4, BeginValidateKeeps, BeginKeyKeeps, SyncDeniedKeeps DEF Arrives
<1>5. ASSUME NEW c \in ConnCalls, GoesOn(c) \/ CallDies(c) PROVE ConnInv'
  <2>1. CASE AssumeUnavailable(c) \/ EnableRules(c) \/ CallDies(c)
      BY <2>1, EndingKeeps
  <2>2. CASE Assume(c) \/ AssumeDenied(c)
      BY <2>2, AssumeKeeps
  <2>3. CASE WriteFailure(c) \/ SyncMarks(c)
      BY <2>3, WriteFailureKeeps
  <2> QED
      BY <1>5, <2>1, <2>2, <2>3, ReadRegionsKeeps, ProbeKeeps, WriteResultKeeps, EnqueueFirstKeeps,
         IdentifyKeyKeeps, WriteKeyKeeps DEF GoesOn, ValidationGoesOn
<1> QED
    BY <1>1, <1>2, <1>3, <1>4, <1>5 DEF ConnNext

LEMMA ConnInvAlways == ConnSpec => []ConnInv
BY ConnInvInit, ConnInvStep, PTL DEF ConnSpec

\* The row, the calls and the customer's side are what the code's types say.
THEOREM ConnectionTypeCorrect == ConnSpec => []ConnTypes
<1>1. ConnInv => ConnTypes
    BY DEF ConnInv
<1> QED
    BY <1>1, ConnInvAlways, PTL

\* A connection that says it can be used has credentials shown, for its row, to
\* be of the declared account, however calls overlap.
THEOREM UsableMeansProven == ConnSpec => []UsableIsProven
<1>1. ConnInv => UsableIsProven
    BY DEF ConnInv
<1> QED
    BY <1>1, ConnInvAlways, PTL

\* Whatever wizards do to an account is done by operations of the connection.
THEOREM WizardImplementsConnection == WizardSpec => ConnSpec
<1>1. WizardInit => ConnInit
    BY DEF WizardInit
<1>2. [WizardNext]_wizardVars => [ConnNext]_connVars
  <2> SUFFICES ASSUME [WizardNext]_wizardVars PROVE [ConnNext]_connVars
      OBVIOUS
  <2>1. CASE UNCHANGED wizardVars
      BY <2>1 DEF wizardVars
  <2>2. CASE OthersNext
      BY <2>2, WizardAssumption DEF OthersNext, ConnNext
  <2>3. ASSUME NEW w \in Wizards,
               \/ OpenWizard(w) \/ Declare(w) \/ ShowSetup(w) \/ TurnPage(w)
               \/ \E r \in RoleArns : Verify(w, r)
               \/ VerificationAnswered(w) \/ CloseWizard(w)
        PROVE  [ConnNext]_connVars
    <3>1. w \in ConnCalls
        BY WizardAssumption
    <3>2. CASE OpenWizard(w) \/ ShowSetup(w) \/ TurnPage(w) \/ CloseWizard(w)
        BY <3>2 DEF OpenWizard, ShowSetup, TurnPage, Turn, CloseWizard
    <3>3. CASE Declare(w)
        BY <3>3 DEF Declare, ConnNext
    <3>4. CASE \E r \in RoleArns : Verify(w, r)
        BY <3>1, <3>4 DEF Verify, ConnNext, Arrives
    <3>5. CASE VerificationAnswered(w)
        BY <3>1, <3>5 DEF VerificationAnswered, ConnNext, GoesOn
    <3> QED
        BY <2>3, <3>2, <3>3, <3>4, <3>5
  <2> QED
      BY <2>1, <2>2, <2>3 DEF WizardNext
<1> QED
    BY <1>1, <1>2, PTL DEF WizardSpec, ConnSpec

-----------------------------------------------------------------------------
(* Creation: the invariant.                                                *)

PlanStages == {"planned", "failed", "succeeded"} \cup InProgress
CallNames == Aspects \cup {"tags", "support", "none"}
ThingStates == [is : {"none", "own", "adopted", "found"}, has : SUBSET Aspects, had : SUBSET Aspects]
BucketStates == [by : {"none", "plan", "owner"}, region : Places, has : SUBSET Aspects, had : SUBSET Aspects]
Accounts == [vpcs : SUBSET (Places \X Block), subnets : SUBSET Block,
             ingress : {"none", "web", "open"}, allowPublic : BOOLEAN, acts : Nat]

CreationTypes ==
    /\ config \in [CreationPlans -> Configurations]
    /\ at \in [CreationPlans -> PlanStages]
    /\ calls \in [CreationPlans -> Seq(CallNames)]
    /\ thing \in [CreationPlans -> ThingStates]
    /\ bucket \in [Names -> BucketStates]
    /\ ownAccount \in Accounts

\* The reservation of the account.
OneInProgress ==
    \A p, q \in CreationPlans : at[p] \in InProgress /\ at[q] \in InProgress => p = q

\* What a resource has, it had; what is not there had nothing; a plan that
\* configures its resource, or that succeeded, has one.
ThingsAreSeen ==
    /\ \A p \in CreationPlans :
         /\ thing[p].has \subseteq thing[p].had
         /\ thing[p].is = "none" => thing[p].had = {}
         /\ at[p] \in {"configuring", "succeeded"} => thing[p].is # "none"
    /\ \A n \in Names :
         /\ bucket[n].has \subseteq bucket[n].had
         /\ ~Taken(n) => bucket[n].had = {}

\* Whose the resources are; a plan whose checks have passed may yet be
\* forestalled by the owner, never by another plan.
ResourcesAreWhose ==
    /\ \A p \in CreationPlans : thing[p].is # "none" => Whose(p)
    /\ \A n \in Names :
         bucket[n].by = "plan" =>
             \E q \in CreationPlans : thing[q].is = "own" /\ Of(q).service = "s3" /\ Of(q).name = n
    /\ \A p \in CreationPlans :
         at[p] = "checked" /\ Of(p).service = "s3" => bucket[Of(p).name].by # "plan"

\* What a plan that succeeded promised, its resource had.
PromisesAreKept ==
    \A p \in CreationPlans : at[p] = "succeeded" => Promised(Of(p)) \ {"hostnames"} \subseteq Is(p).had

\* A plan about to create, or one that has created, asked for a good block ...
GoodVpc(p) == Of(p).service = "vpc" => GoodBlock(Of(p).block)
BlocksAreGood ==
    \A p \in CreationPlans :
        thing[p].is # "none" \/ at[p] \in {"reserved", "checked"} => GoodVpc(p)

\* ... and a plan whose checks have passed, or that has created, for one apart
\* from those of the VPCs that plans have made in its region.
Apart(p, q) ==
    Of(p).service = "vpc" /\ Of(q).service = "vpc" /\ Of(p).region = Of(q).region =>
        ~Overlaps(Of(p).block, Of(q).block)
VpcsAreApart ==
    \A p, q \in CreationPlans :
        (p # q /\ thing[q].is # "none" /\ (thing[p].is # "none" \/ at[p] = "checked")) => Apart(p, q)

CreationInv ==
    /\ CreationTypes /\ OneInProgress /\ ThingsAreSeen /\ ResourcesAreWhose
    /\ PromisesAreKept /\ BlocksAreGood /\ VpcsAreApart

-----------------------------------------------------------------------------
(* Creation: lemmas.                                                       *)

LEMMA ConfigurationsAre ==
    ASSUME CreationInv, NEW p \in CreationPlans
    PROVE  /\ Of(p) \in Configuration
           /\ Of(p).service \in Services /\ Of(p).block \in Block /\ Of(p).name \in Names
           /\ Of(p).label \in Labels /\ Of(p).region \in Places
BY CreationAssumption DEF CreationInv, CreationTypes, Of, Configuration

\* What the parts that speak of configurations and resources say is kept
\* while these stay.
LEMMA SameResources ==
    ASSUME CreationInv, UNCHANGED <<config, thing, bucket>>
    PROVE  /\ \A p \in CreationPlans : Of(p)' = Of(p) /\ Is(p)' = Is(p) /\ GoodVpc(p)' = GoodVpc(p)
           /\ \A p, q \in CreationPlans : Apart(p, q)' = Apart(p, q)
           /\ \A n \in Names : Taken(n)' = Taken(n)
           /\ \A p \in CreationPlans : Whose(p)' = Whose(p)
<1>1. \A p : Of(p)' = Of(p) /\ Is(p)' = Is(p)
    BY DEF Of, Is
<1>2. \A p : GoodVpc(p)' = GoodVpc(p)
    BY <1>1 DEF GoodVpc, GoodBlock, Canonical, Contains, Masked
<1>3. \A p, q : Apart(p, q)' = Apart(p, q)
    BY <1>1 DEF Apart, Overlaps, Contains, Masked
<1>4. \A n : Taken(n)' = Taken(n)
    BY DEF Taken
<1>5. \A p : Whose(p)' = Whose(p)
    BY <1>1 DEF Whose
<1> QED
    BY <1>1, <1>2, <1>3, <1>4, <1>5

\* Configurations never change, nor what is said of blocks.
LEMMA SameConfigurations ==
    ASSUME config' = config
    PROVE  /\ \A p \in CreationPlans : Of(p)' = Of(p) /\ GoodVpc(p)' = GoodVpc(p)
           /\ \A p, q \in CreationPlans : Apart(p, q)' = Apart(p, q)
           /\ \A p \in CreationPlans : Promised(Of(p))' = Promised(Of(p))
<1>1. \A p : Of(p)' = Of(p)
    BY DEF Of
<1>2. \A p : GoodVpc(p)' = GoodVpc(p)
    BY <1>1 DEF GoodVpc, GoodBlock, Canonical, Contains, Masked
<1>3. \A p, q : Apart(p, q)' = Apart(p, q)
    BY <1>1 DEF Apart, Overlaps, Contains, Masked
<1>4. \A p : Promised(Of(p))' = Promised(Of(p))
    BY <1>1 DEF Promised
<1> QED
    BY <1>1, <1>2, <1>3, <1>4

\* A bucket that is somebody's is there.
LEMMA WhoseIsThere ==
    ASSUME CreationInv, NEW p \in CreationPlans, thing[p].is # "none", Of(p).service = "s3"
    PROVE  Taken(Of(p).name)
<1>1. Whose(p)
    BY DEF CreationInv, ResourcesAreWhose
<1>2. CASE bucket[Of(p).name].by \in {"plan", "owner"}
    BY <1>2 DEF Taken
<1>3. CASE \E q \in CreationPlans : thing[q].is = "own" /\ Of(q).service = "s3" /\ Of(q).name = Of(p).name
  <2>1. PICK q \in CreationPlans : thing[q].is = "own" /\ Of(q).service = "s3" /\ Of(q).name = Of(p).name
      BY <1>3
  <2>2. Whose(q)
      BY <2>1 DEF CreationInv, ResourcesAreWhose
  <2>3. bucket[Of(q).name].by = "plan"
      BY <2>1, <2>2 DEF Whose
  <2> QED
      BY <2>1, <2>3 DEF Taken
<1> QED
    BY <1>1, <1>2, <1>3 DEF Whose

\* A plan that goes to a stage.
LEMMA GoesTypes ==
    ASSUME CreationInv, NEW p \in CreationPlans, NEW s \in PlanStages, Goes(p, s)
    PROVE  /\ at' \in [CreationPlans -> PlanStages] /\ at'[p] = s
           /\ \A q \in CreationPlans \ {p} : at'[q] = at[q]
BY DEF CreationInv, CreationTypes, Goes

LEMMA GoesAlone ==
    ASSUME CreationInv, NEW p \in CreationPlans, NEW s \in PlanStages, Goes(p, s),
           s \notin InProgress \/ at[p] \in InProgress
             \/ \A q \in CreationPlans : at[q] \notin InProgress
    PROVE  OneInProgress'
BY GoesTypes DEF CreationInv, OneInProgress

\* A plan that may succeed has had what it promised.
LEMMA PassedIsPromised ==
    ASSUME CreationInv, NEW p \in CreationPlans, Passes(p)
    PROVE  Promised(Of(p)) \ {"hostnames"} \subseteq Is(p).had
<1>1. Promised(Of(p)) \ {"hostnames"} \subseteq Verified(Of(p))
    BY ConfigurationsAre DEF Verified, Promised, Services
<1>2. Is(p).has \subseteq Is(p).had
    BY ConfigurationsAre DEF Is, CreationInv, ThingsAreSeen
<1> QED
    BY <1>1, <1>2 DEF Passes

\* A plan goes to a stage; resources and the account stay.
LEMMA PlanGoes ==
    ASSUME CreationInv, NEW p \in CreationPlans, NEW s \in PlanStages, Goes(p, s),
           UNCHANGED <<config, thing, bucket, ownAccount>>,
           calls' \in [CreationPlans -> Seq(CallNames)],
           OneInProgress',
           s = "reserved" => WithinGuardrails(Of(p)),
           s = "checked" => at[p] = "reserved" /\ PassesPreflight(Of(p)),
           s = "succeeded" => Passes(p) /\ thing[p].is # "none",
           s # "configuring"
    PROVE  CreationInv'
<1>1. /\ at' \in [CreationPlans -> PlanStages] /\ at'[p] = s
      /\ \A q \in CreationPlans \ {p} : at'[q] = at[q]
    BY GoesTypes
<1>2. CreationTypes'
    BY <1>1 DEF CreationInv, CreationTypes
<1>3. ThingsAreSeen'
    BY <1>1, SameResources DEF CreationInv, ThingsAreSeen
<1>4. ResourcesAreWhose'
  <2>1. s = "checked" /\ Of(p).service = "s3" => bucket[Of(p).name].by # "plan"
      BY DEF PassesPreflight, Taken
  <2>2. \A x \in CreationPlans : at'[x] = "checked" /\ Of(x).service = "s3" => bucket[Of(x).name].by # "plan"
      BY <1>1, <2>1 DEF CreationInv, ResourcesAreWhose
  <2> QED
      BY <2>2, SameResources DEF CreationInv, ResourcesAreWhose
<1>5. PromisesAreKept'
    BY <1>1, SameResources, SameConfigurations, PassedIsPromised DEF CreationInv, PromisesAreKept
<1>6. BlocksAreGood'
  <2>1. ASSUME s \in {"reserved", "checked"} PROVE GoodVpc(p)
      BY <2>1 DEF CreationInv, BlocksAreGood, GoodVpc, WithinGuardrails
  <2> QED
      BY <1>1, <2>1, SameResources DEF CreationInv, BlocksAreGood
<1>7. VpcsAreApart'
  <2> SUFFICES ASSUME NEW x \in CreationPlans, NEW y \in CreationPlans, x # y, thing[y].is # "none",
                      thing[x].is # "none" \/ at'[x] = "checked"
               PROVE  Apart(x, y)
      BY SameResources DEF VpcsAreApart
  <2>1. CASE x = p /\ s = "checked"
    <3>1. SUFFICES ASSUME Of(p).service = "vpc", Of(y).service = "vpc", Of(p).region = Of(y).region
                   PROVE  ~Overlaps(Of(p).block, Of(y).block)
        BY <2>1 DEF Apart
    <3>2. Of(y).block \in VpcBlocks(Of(p).region)
        BY <3>1 DEF VpcBlocks, PlannedOf
    <3>3. ~Overlaps(Of(y).block, Of(p).block)
        BY <2>1, <3>1, <3>2 DEF PassesPreflight
    <3> QED
        BY <3>3 DEF Overlaps
  <2>2. CASE ~(x = p /\ s = "checked")
      BY <1>1, <2>2 DEF CreationInv, VpcsAreApart
  <2> QED
      BY <2>1, <2>2
<1> QED
    BY <1>2, <1>3, <1>4, <1>5, <1>6, <1>7 DEF CreationInv

\* Reconciliation takes a bucket for the plan's.
LEMMA BucketIsFound ==
    ASSUME CreationInv, NEW p \in CreationPlans, at[p] = "unknown", Goes(p, "succeeded"),
           thing[p].is = "none", Of(p).service = "s3", Taken(Of(p).name), Passes(p),
           thing' = [thing EXCEPT ![p].is = "found"],
           UNCHANGED <<config, calls, bucket, ownAccount>>
    PROVE  CreationInv'
<1> DEFINE n == Of(p).name
<1>1. /\ at' \in [CreationPlans -> PlanStages] /\ at'[p] = "succeeded"
      /\ \A q \in CreationPlans \ {p} : at'[q] = at[q]
    BY GoesTypes DEF PlanStages
<1>2. /\ thing' \in [CreationPlans -> ThingStates]
      /\ thing'[p].is = "found" /\ thing'[p].has = thing[p].has /\ thing'[p].had = thing[p].had
      /\ \A q \in CreationPlans \ {p} : thing'[q] = thing[q]
    BY DEF CreationInv, CreationTypes, ThingStates
<1>3. CreationTypes' /\ OneInProgress'
    BY <1>1, <1>2, GoesAlone DEF CreationInv, CreationTypes, InProgress, PlanStages
<1>4. ThingsAreSeen'
    BY <1>1, <1>2 DEF CreationInv, ThingsAreSeen, Taken
<1>5. ResourcesAreWhose'
  <2>1. \A q \in CreationPlans : thing[q].is = "own" => q # p /\ thing'[q].is = "own"
      BY <1>2
  <2>2. \A q \in CreationPlans : Of(q)' = Of(q)
      BY DEF Of
  <2>3. ASSUME NEW x \in CreationPlans, x # p, thing'[x].is # "none" PROVE Whose(x)'
    <3>1. Whose(x) /\ thing'[x] = thing[x]
        BY <1>2, <2>3 DEF CreationInv, ResourcesAreWhose
    <3> QED
        BY <2>1, <2>2, <3>1 DEF Whose
  <2>4. Whose(p)'
    <3>1. n \in Names /\ bucket[n].by \in {"plan", "owner"}
        BY ConfigurationsAre DEF CreationInv, CreationTypes, BucketStates, Taken
    <3>2. CASE bucket[n].by = "owner"
        BY <1>2, <2>2, <3>2 DEF Whose
    <3>3. CASE bucket[n].by = "plan"
      <4>1. PICK q \in CreationPlans : thing[q].is = "own" /\ Of(q).service = "s3" /\ Of(q).name = n
          BY <3>1, <3>3 DEF CreationInv, ResourcesAreWhose
      <4> QED
          BY <1>2, <2>1, <2>2, <4>1 DEF Whose
    <3> QED
        BY <3>1, <3>2, <3>3
  <2>5. ASSUME NEW m \in Names, bucket[m].by = "plan"
        PROVE  \E q \in CreationPlans : thing'[q].is = "own" /\ Of(q).service = "s3" /\ Of(q).name = m
      BY <2>1, <2>5 DEF CreationInv, ResourcesAreWhose
  <2>6. \A x \in CreationPlans : at'[x] = "checked" /\ Of(x).service = "s3" => bucket[Of(x).name].by # "plan"
      BY <1>1 DEF CreationInv, ResourcesAreWhose
  <2> QED
      BY <2>2, <2>3, <2>4, <2>5, <2>6 DEF ResourcesAreWhose
<1>6. PromisesAreKept'
  <2> SUFFICES ASSUME NEW x \in CreationPlans, at'[x] = "succeeded"
               PROVE  Promised(Of(x)) \ {"hostnames"} \subseteq Is(x)'.had
      BY SameConfigurations DEF PromisesAreKept
  <2>1. Is(x)'.had = Is(x).had
      BY <1>2 DEF Is, Of
  <2> QED
      BY <1>1, <2>1, PassedIsPromised DEF CreationInv, PromisesAreKept
<1>7. BlocksAreGood' /\ VpcsAreApart'
  <2>1. GoodVpc(p) /\ \A q \in CreationPlans : Apart(p, q) /\ Apart(q, p)
      BY DEF GoodVpc, Apart
  <2> QED
      BY <1>1, <1>2, <2>1, SameConfigurations DEF CreationInv, BlocksAreGood, VpcsAreApart
<1> QED
    BY <1>3, <1>4, <1>5, <1>6, <1>7 DEF CreationInv

\* What is there stays, and every bucket had what it has ...
BucketsStay(p) ==
    /\ bucket' \in [Names -> BucketStates]
    /\ \A n \in Names : bucket'[n] # bucket[n] => Of(p).service = "s3" /\ Of(p).name = n /\ ~Taken(n)
    /\ \A n \in Names : bucket'[n].has \subseteq bucket'[n].had
    /\ \A n \in Names : bucket'[n].by = "none" => bucket'[n].had = {}

\* ... and the plan gets its own, or a bucket of the owner's.
Gotten(p, v) ==
    /\ thing' = [thing EXCEPT ![p] = v]
    /\ v \in ThingStates /\ v.has = v.had
    /\ \/ v.is = "own" /\ (Of(p).service = "s3" => bucket'[Of(p).name].by = "plan")
       \/ /\ v.is = "adopted" /\ Of(p).service = "s3"
          /\ bucket'[Of(p).name].by = "owner" /\ Of(p).region = "us-east-1"

\* A plan whose checks have passed gets its thing.
LEMMA ThingIsMade ==
    ASSUME CreationInv, NEW p \in CreationPlans, at[p] = "checked",
           NEW v, Gotten(p, v), BucketsStay(p),
           NEW s \in {"configuring", "unknown"}, Goes(p, s),
           calls' \in [CreationPlans -> Seq(CallNames)],
           UNCHANGED <<config, ownAccount>>
    PROVE  CreationInv'
<1> USE DEF Gotten, BucketsStay
<1>1. s \in PlanStages /\ at[p] \in InProgress
    BY DEF PlanStages, InProgress
<1>2. /\ at' \in [CreationPlans -> PlanStages] /\ at'[p] = s
      /\ \A q \in CreationPlans \ {p} : at'[q] = at[q]
    BY <1>1, GoesTypes
<1>3. /\ thing' \in [CreationPlans -> ThingStates] /\ thing'[p] = v
      /\ \A q \in CreationPlans \ {p} : thing'[q] = thing[q]
    BY DEF CreationInv, CreationTypes
<1>4. CreationTypes' /\ OneInProgress'
    BY <1>1, <1>2, <1>3, GoesAlone DEF CreationInv, CreationTypes
<1>5. ThingsAreSeen'
  <2>1. ASSUME NEW x \in CreationPlans
        PROVE  /\ thing'[x].has \subseteq thing'[x].had
               /\ thing'[x].is = "none" => thing'[x].had = {}
               /\ at'[x] \in {"configuring", "succeeded"} => thing'[x].is # "none"
    <3>1. CASE x = p
        BY <1>3, <3>1
    <3>2. CASE x # p
        BY <1>2, <1>3, <3>2 DEF CreationInv, ThingsAreSeen
    <3> QED
        BY <3>1, <3>2
  <2> QED
      BY <2>1 DEF ThingsAreSeen, Taken
<1>6. ResourcesAreWhose'
  <2>1. \A q \in CreationPlans : Of(q)' = Of(q) /\ Of(q).name \in Names
      BY ConfigurationsAre DEF Of
  \* A bucket that is there is not of this plan's making.
  <2>2. \A n \in Names : Taken(n) => bucket'[n] = bucket[n]
      OBVIOUS
  <2>3. \A q \in CreationPlans : thing[q].is = "own" /\ Of(q).service = "s3" =>
            thing'[q].is = "own"
    <3>1. SUFFICES ASSUME thing[p].is = "own", Of(p).service = "s3" PROVE v.is = "own"
        BY <1>3
    <3>2. bucket[Of(p).name].by = "plan"
        BY <3>1 DEF CreationInv, ResourcesAreWhose, Whose
    <3> QED
        BY <3>1, <3>2 DEF CreationInv, ResourcesAreWhose
  <2>4. ASSUME NEW x \in CreationPlans, x # p, thing'[x].is # "none" PROVE Whose(x)'
    <3>1. Whose(x) /\ thing'[x] = thing[x]
        BY <1>3, <2>4 DEF CreationInv, ResourcesAreWhose
    <3>2. CASE Of(x).service # "s3"
        BY <2>1, <3>1, <3>2 DEF Whose
    <3>3. CASE Of(x).service = "s3"
      <4>1. Taken(Of(x).name)
          BY <2>4, <3>1, <3>3, WhoseIsThere
      <4>2. bucket'[Of(x).name] = bucket[Of(x).name]
          BY <2>1, <2>2, <4>1
      <4> QED
          BY <2>1, <2>3, <3>1, <3>3, <4>2 DEF Whose
    <3> QED
        BY <3>2, <3>3
  <2>5. Whose(p)'
      BY <1>3, <2>1 DEF Whose
  <2>6. ASSUME NEW n \in Names, bucket'[n].by = "plan"
        PROVE  \E q \in CreationPlans : thing'[q].is = "own" /\ Of(q).service = "s3" /\ Of(q).name = n
    <3>1. CASE bucket'[n] = bucket[n]
      <4>1. PICK q \in CreationPlans : thing[q].is = "own" /\ Of(q).service = "s3" /\ Of(q).name = n
          BY <2>6, <3>1 DEF CreationInv, ResourcesAreWhose
      <4> QED
          BY <2>3, <4>1
    <3>2. CASE bucket'[n] # bucket[n]
        BY <1>3, <2>6, <3>2
    <3> QED
        BY <3>1, <3>2
  <2>7. ASSUME NEW x \in CreationPlans, at'[x] = "checked" PROVE FALSE
      BY <1>1, <1>2, <2>7 DEF CreationInv, OneInProgress, InProgress
  <2>8. \A x \in CreationPlans : thing'[x].is # "none" => Whose(x)'
      BY <2>4, <2>5
  <2> HIDE DEF Gotten, BucketsStay
  <2>9. \A n \in Names :
            bucket'[n].by = "plan" =>
              \E q \in CreationPlans :
                  thing'[q].is = "own" /\ Of(q)'.service = "s3" /\ Of(q)'.name = n
      BY <2>1, <2>6
  <2>10. \A x \in CreationPlans : ~(at'[x] = "checked")
      BY <2>7
  <2> QED
      BY <2>8, <2>9, <2>10 DEF ResourcesAreWhose
<1>7. PromisesAreKept'
  <2> SUFFICES ASSUME NEW x \in CreationPlans, at'[x] = "succeeded"
               PROVE  Promised(Of(x)) \ {"hostnames"} \subseteq Is(x)'.had
      BY SameConfigurations DEF PromisesAreKept
  <2>1. x # p /\ at[x] = "succeeded"
      BY <1>2
  <2>2. Is(x).had \subseteq Is(x)'.had
    <3>1. Of(x)' = Of(x) /\ Of(x).name \in Names
        BY ConfigurationsAre DEF Of
    <3>2. bucket[Of(x).name].had \subseteq bucket'[Of(x).name].had
        BY <3>1 DEF CreationInv, ThingsAreSeen
    <3> QED
        BY <1>3, <2>1, <3>1, <3>2 DEF Is
  <2> QED
      BY <2>1, <2>2 DEF CreationInv, PromisesAreKept
<1>8. BlocksAreGood'
    BY <1>2, <1>3, SameConfigurations DEF CreationInv, BlocksAreGood
<1>9. VpcsAreApart'
  <2> SUFFICES ASSUME NEW x \in CreationPlans, NEW y \in CreationPlans, x # y, thing'[y].is # "none",
                      thing'[x].is # "none" \/ at'[x] = "checked"
               PROVE  Apart(x, y)
      BY SameConfigurations DEF VpcsAreApart
  <2>1. CASE x = p
      BY <1>3, <2>1 DEF CreationInv, VpcsAreApart
  <2>2. CASE y = p
    <3>1. at[x] # "checked"
        BY <1>1, <2>2 DEF CreationInv, OneInProgress, InProgress
    <3>2. Apart(p, x)
        BY <1>2, <1>3, <2>2, <3>1 DEF CreationInv, VpcsAreApart
    <3> QED
        BY <2>2, <3>2 DEF Apart, Overlaps
  <2>3. CASE x # p /\ y # p
    <3>1. thing'[x] = thing[x] /\ thing'[y] = thing[y] /\ at'[x] = at[x]
        BY <1>2, <1>3, <2>3
    <3> QED
        BY <3>1 DEF CreationInv, VpcsAreApart
  <2> QED
      BY <2>1, <2>2, <2>3
<1> QED
    BY <1>4, <1>5, <1>6, <1>7, <1>8, <1>9 DEF CreationInv

\* Resources have more, or less, than they had; nobody makes or takes any.
LEMMA ResourcesChange ==
    ASSUME CreationInv, UNCHANGED <<config, at>>,
           calls' \in [CreationPlans -> Seq(CallNames)],
           ownAccount' \in Accounts,
           thing' \in [CreationPlans -> ThingStates], bucket' \in [Names -> BucketStates],
           \A q \in CreationPlans : thing'[q].is = thing[q].is,
           \A q \in CreationPlans : thing[q].had \subseteq thing'[q].had,
           \A q \in CreationPlans : thing'[q].has \subseteq thing'[q].had,
           \A q \in CreationPlans : thing[q].is = "none" => thing'[q].had = {},
           \A n \in Names : bucket'[n].by = bucket[n].by \/ (~Taken(n) /\ bucket'[n].by = "owner"),
           \A n \in Names : bucket[n].had \subseteq bucket'[n].had,
           \A n \in Names : bucket'[n].has \subseteq bucket'[n].had,
           \A n \in Names : bucket'[n].by = "none" => bucket'[n].had = {}
    PROVE  CreationInv'
<1>1. CreationTypes' /\ OneInProgress'
    BY DEF CreationInv, CreationTypes, OneInProgress
<1>2. ThingsAreSeen'
    BY DEF CreationInv, ThingsAreSeen, Taken
<1>3. ResourcesAreWhose'
  <2>1. \A q \in CreationPlans : Of(q)' = Of(q) /\ Of(q).name \in Names
      BY ConfigurationsAre DEF Of
  <2>2. ASSUME NEW x \in CreationPlans, thing'[x].is # "none" PROVE Whose(x)'
    <3>1. Whose(x)
        BY <2>2 DEF CreationInv, ResourcesAreWhose
    <3>2. bucket[Of(x).name].by \in {"plan", "owner"} => bucket'[Of(x).name].by = bucket[Of(x).name].by
        BY <2>1 DEF Taken
    <3>3. CASE \E q \in CreationPlans \ {x} :
                  thing[q].is = "own" /\ Of(q).service = "s3" /\ Of(q).name = Of(x).name
      <4>1. \E q \in CreationPlans \ {x} :
                thing'[q].is = "own" /\ Of(q)'.service = "s3" /\ Of(q)'.name = Of(x)'.name
          BY <2>1, <3>3
      <4> QED
          BY <2>1, <3>1, <3>2, <4>1 DEF Whose
    <3>4. CASE ~\E q \in CreationPlans \ {x} :
                  thing[q].is = "own" /\ Of(q).service = "s3" /\ Of(q).name = Of(x).name
        BY <2>1, <3>1, <3>2, <3>4 DEF Whose
    <3> QED
        BY <3>3, <3>4
  <2>3. ASSUME NEW n \in Names, bucket'[n].by = "plan"
        PROVE  \E q \in CreationPlans : thing'[q].is = "own" /\ Of(q).service = "s3" /\ Of(q).name = n
    <3>1. bucket[n].by = "plan"
        BY <2>3
    <3>2. PICK q \in CreationPlans : thing[q].is = "own" /\ Of(q).service = "s3" /\ Of(q).name = n
        BY <3>1 DEF CreationInv, ResourcesAreWhose
    <3> QED
        BY <3>2
  <2>4. \A x \in CreationPlans : at[x] = "checked" /\ Of(x).service = "s3" => bucket'[Of(x).name].by # "plan"
      BY <2>1 DEF CreationInv, ResourcesAreWhose
  <2> QED
      BY <2>1, <2>2, <2>3, <2>4 DEF ResourcesAreWhose
<1>4. PromisesAreKept'
  <2> SUFFICES ASSUME NEW x \in CreationPlans, at[x] = "succeeded"
               PROVE  Promised(Of(x)) \ {"hostnames"} \subseteq Is(x)'.had
      BY SameConfigurations DEF PromisesAreKept
  <2>1. Is(x).had \subseteq Is(x)'.had
      BY ConfigurationsAre DEF Is, Of
  <2> QED
      BY <2>1 DEF CreationInv, PromisesAreKept
<1>5. BlocksAreGood' /\ VpcsAreApart'
    BY SameConfigurations DEF CreationInv, BlocksAreGood, VpcsAreApart
<1> QED
    BY <1>1, <1>2, <1>3, <1>4, <1>5 DEF CreationInv

\* The resource of a plan becomes what is said.
LEMMA ThingChanges ==
    ASSUME CreationInv, NEW p \in CreationPlans, NEW has \in SUBSET Aspects,
           FoundAgain(p), Becomes(p, has),
           calls' \in [CreationPlans -> Seq(CallNames)], ownAccount' \in Accounts,
           UNCHANGED <<config, at>>
    PROVE  CreationInv'
<1>1. thing \in [CreationPlans -> ThingStates] /\ bucket \in [Names -> BucketStates]
    BY DEF CreationInv, CreationTypes
<1>2. CASE Of(p).service = "s3"
  <2> DEFINE n == Of(p).name
             v == [bucket[n] EXCEPT !.has = has, !.had = @ \cup has]
  <2>1. n \in Names /\ Taken(n)
      BY <1>2, ConfigurationsAre DEF FoundAgain
  <2>2. /\ v \in BucketStates /\ v.by = bucket[n].by /\ v.has \subseteq v.had
        /\ bucket[n].had \subseteq v.had
      BY <1>1, <2>1 DEF BucketStates
  <2>3. bucket' = [bucket EXCEPT ![n] = v] /\ thing' = thing
      BY <1>2 DEF Becomes, Gets
  <2> HIDE DEF v
  <2>4. bucket' \in [Names -> BucketStates] /\ bucket'[n] = v /\ \A m \in Names \ {n} : bucket'[m] = bucket[m]
      BY <1>1, <2>1, <2>2, <2>3
  <2>5. /\ \A m \in Names : bucket'[m].by = bucket[m].by \/ (~Taken(m) /\ bucket'[m].by = "owner")
        /\ \A m \in Names : bucket[m].had \subseteq bucket'[m].had
        /\ \A m \in Names : bucket'[m].has \subseteq bucket'[m].had
        /\ \A m \in Names : bucket'[m].by = "none" => bucket'[m].had = {}
      BY <2>1, <2>2, <2>4 DEF CreationInv, ThingsAreSeen, Taken
  <2>6. /\ \A q \in CreationPlans : thing'[q].is = thing[q].is
        /\ \A q \in CreationPlans : thing[q].had \subseteq thing'[q].had
        /\ \A q \in CreationPlans : thing'[q].has \subseteq thing'[q].had
        /\ \A q \in CreationPlans : thing[q].is = "none" => thing'[q].had = {}
      BY <2>3 DEF CreationInv, ThingsAreSeen
  <2> QED
      BY <1>1, <2>3, <2>4, <2>5, <2>6, ResourcesChange
<1>3. CASE Of(p).service # "s3"
  <2> DEFINE v == [thing[p] EXCEPT !.has = has, !.had = @ \cup has]
  <2>1. thing[p].is # "none"
      BY <1>3 DEF FoundAgain
  <2>2. /\ v \in ThingStates /\ v.is = thing[p].is /\ v.has \subseteq v.had
        /\ thing[p].had \subseteq v.had
      BY <1>1 DEF ThingStates
  <2>3. thing' = [thing EXCEPT ![p] = v] /\ bucket' = bucket
      BY <1>3 DEF Becomes, Gets
  <2> HIDE DEF v
  <2>4. thing' \in [CreationPlans -> ThingStates] /\ thing'[p] = v
        /\ \A q \in CreationPlans \ {p} : thing'[q] = thing[q]
      BY <1>1, <2>2, <2>3
  <2>5. /\ \A m \in Names : bucket'[m].by = bucket[m].by \/ (~Taken(m) /\ bucket'[m].by = "owner")
        /\ \A m \in Names : bucket[m].had \subseteq bucket'[m].had
        /\ \A m \in Names : bucket'[m].has \subseteq bucket'[m].had
        /\ \A m \in Names : bucket'[m].by = "none" => bucket'[m].had = {}
      BY <2>3 DEF CreationInv, ThingsAreSeen, Taken
  <2>6. /\ \A q \in CreationPlans : thing'[q].is = thing[q].is
        /\ \A q \in CreationPlans : thing[q].had \subseteq thing'[q].had
        /\ \A q \in CreationPlans : thing'[q].has \subseteq thing'[q].had
        /\ \A q \in CreationPlans : thing[q].is = "none" => thing'[q].had = {}
      BY <2>1, <2>2, <2>4 DEF CreationInv, ThingsAreSeen
  <2> QED
      BY <1>1, <2>3, <2>4, <2>5, <2>6, ResourcesChange
<1> QED
    BY <1>2, <1>3

\* The owner of the account acts: it becomes what is said, with one more act.
LEMMA ActsTypes ==
    ASSUME NEW change \in Accounts, Acts(change)
    PROVE  ownAccount' \in Accounts
<1>1. change.acts \in Nat
    BY DEF Accounts
<1>2. [change EXCEPT !.acts = change.acts + 1] \in Accounts
    BY <1>1 DEF Accounts
<1>3. ownAccount' = [change EXCEPT !.acts = change.acts + 1]
    BY DEF Acts
<1> QED
    BY <1>2, <1>3

\* The calls of a plan are calls there are.
LEMMA CallsAfterTypes ==
    ASSUME NEW c \in Configuration
    PROVE  CallsAfter(c) \in Seq(CallNames)
<1>1. /\ "support" \in CallNames /\ "hostnames" \in CallNames /\ "none" \in CallNames
      /\ "private" \in CallNames /\ "encrypted" \in CallNames /\ "versioning" \in CallNames
      /\ "tags" \in CallNames
    BY DEF CallNames, Aspects
<1>2. <<"support">> \o (IF c.extra THEN <<"hostnames">> ELSE <<"none">>) \in Seq(CallNames)
    BY <1>1
<1>3. <<"private", "encrypted">> \o (IF c.extra THEN <<"versioning">> ELSE <<>>) \in Seq(CallNames)
    BY <1>1
<1>4. <<"private", "encrypted">> \o (IF c.extra THEN <<"versioning">> ELSE <<>>) \o <<"tags">>
        \in Seq(CallNames)
    BY <1>1, <1>3
<1> QED
    BY <1>2, <1>4 DEF CallsAfter

-----------------------------------------------------------------------------
(* Creation: the steps.                                                    *)

LEMMA PlanStepKeeps ==
    ASSUME CreationInv, NEW p \in CreationPlans,
           ReservePlan(p) \/ Preflight(p) \/ CreateRefused(p) \/ Interrupt(p)
             \/ VerifyThing(p) \/ (ReconcileThing(p) /\ thing' = thing)
    PROVE  CreationInv'
<1>1. UNCHANGED <<config, thing, bucket, ownAccount>>
    BY DEF ReservePlan, Preflight, CreateRefused, Interrupt, VerifyThing, ReconcileThing
<1>2. calls' \in [CreationPlans -> Seq(CallNames)]
  <2>1. calls \in [CreationPlans -> Seq(CallNames)] /\ <<>> \in Seq(CallNames)
      BY DEF CreationInv, CreationTypes
  <2>2. calls' = calls \/ calls' = [calls EXCEPT ![p] = <<>>]
      BY DEF ReservePlan, Preflight, CreateRefused, Interrupt, VerifyThing, ReconcileThing
  <2> QED
      BY <2>1, <2>2
<1>3. PICK s \in PlanStages :
          /\ Goes(p, s)
          /\ \/ s \notin InProgress \/ at[p] \in InProgress
             \/ \A q \in CreationPlans : at[q] \notin InProgress
          /\ s = "reserved" => WithinGuardrails(Of(p))
          /\ s = "checked" => at[p] = "reserved" /\ PassesPreflight(Of(p))
          /\ s = "succeeded" => Passes(p) /\ thing[p].is # "none"
          /\ s # "configuring"
  <2>1. CASE ReservePlan(p)
      BY <2>1 DEF ReservePlan, PlanStages, InProgress
  <2>2. CASE Preflight(p)
      BY <2>2 DEF Preflight, PlanStages, InProgress
  <2>3. CASE CreateRefused(p)
      BY <2>3 DEF CreateRefused, PlanStages, InProgress
  <2>4. CASE Interrupt(p)
      BY <2>4 DEF Interrupt, PlanStages, InProgress
  <2>5. CASE VerifyThing(p)
      BY <2>5 DEF VerifyThing, PlanStages, InProgress, CreationInv, ThingsAreSeen
  <2>6. CASE ReconcileThing(p) /\ thing' = thing
    <3>1. ASSUME thing' = [thing EXCEPT ![p].is = IF @ = "none" THEN "found" ELSE @]
          PROVE  thing[p].is # "none"
        BY <2>6, <3>1 DEF CreationInv, CreationTypes, ThingStates
    <3> QED
        BY <2>6, <3>1 DEF ReconcileThing, PlanStages, InProgress
  <2> QED
      BY <2>1, <2>2, <2>3, <2>4, <2>5, <2>6
<1> QED
    BY <1>1, <1>2, <1>3, GoesAlone, PlanGoes

LEMMA ReconcileThingKeeps ==
    ASSUME CreationInv, NEW p \in CreationPlans, ReconcileThing(p)
    PROVE  CreationInv'
<1>1. CASE thing' = thing
    BY <1>1, PlanStepKeeps
<1>2. CASE thing' # thing
  <2>1. /\ at[p] = "unknown" /\ FoundAgain(p) /\ Passes(p) /\ Goes(p, "succeeded")
        /\ thing' = [thing EXCEPT ![p].is = IF thing[p].is = "none" THEN "found" ELSE thing[p].is]
        /\ UNCHANGED <<config, calls, bucket, ownAccount>>
      BY <1>2 DEF ReconcileThing
  <2>2. thing[p].is = "none"
      BY <1>2, <2>1 DEF CreationInv, CreationTypes, ThingStates
  <2>3. Of(p).service = "s3" /\ Taken(Of(p).name)
      BY <2>1, <2>2 DEF FoundAgain
  <2> QED
      BY <2>1, <2>2, <2>3, BucketIsFound
<1> QED
    BY <1>1, <1>2

\* The calls there are after a creation that was answered or not.
LEMMA CallsOfCreation ==
    ASSUME CreationInv, NEW p \in CreationPlans,
           calls' = calls \/ calls' = [calls EXCEPT ![p] = CallsAfter(Of(p))]
    PROVE  calls' \in [CreationPlans -> Seq(CallNames)]
BY ConfigurationsAre, CallsAfterTypes DEF CreationInv, CreationTypes

LEMMA CreateThingKeeps ==
    ASSUME CreationInv, NEW p \in CreationPlans, CreateThing(p)
    PROVE  CreationInv'
<1>1. /\ at[p] = "checked" /\ AwsAccepts(Of(p)) /\ UNCHANGED <<config, ownAccount>>
      /\ calls' = calls \/ calls' = [calls EXCEPT ![p] = CallsAfter(Of(p))]
    BY DEF CreateThing
<1>2. PICK s \in {"configuring", "unknown"} : Goes(p, s)
    BY DEF CreateThing
<1>3. calls' \in [CreationPlans -> Seq(CallNames)]
    BY <1>1, CallsOfCreation
<1>4. PICK given \in SetByCreate(Of(p)) :
        IF Of(p).service = "s3"
          THEN /\ thing' = [thing EXCEPT ![p] = [Nothing EXCEPT !.is = "own"]]
               /\ bucket' = [bucket EXCEPT ![Of(p).name] = NewBucket("plan", Of(p).region, given)]
          ELSE /\ thing' = [thing EXCEPT ![p] = [is |-> "own", has |-> given, had |-> given]]
               /\ UNCHANGED bucket
    BY DEF CreateThing
<1>5. given \subseteq Aspects
    BY ConfigurationsAre DEF SetByCreate, Aspects, Services
<1>6. bucket \in [Names -> BucketStates]
    BY DEF CreationInv, CreationTypes
<1>7. CASE Of(p).service = "s3"
  <2> DEFINE v == [Nothing EXCEPT !.is = "own"]
             w == NewBucket("plan", Of(p).region, given)
  <2>1. v \in ThingStates /\ v.is = "own" /\ v.has = v.had
      BY DEF ThingStates, Nothing
  <2>2. /\ w \in BucketStates /\ w.by = "plan" /\ w.has = w.had
        /\ Of(p).name \in Names /\ ~Taken(Of(p).name)
      BY <1>1, <1>5, <1>7, ConfigurationsAre DEF NewBucket, BucketStates, AwsAccepts
  <2>3. thing' = [thing EXCEPT ![p] = v] /\ bucket' = [bucket EXCEPT ![Of(p).name] = w]
      BY <1>4, <1>7
  <2> HIDE DEF v, w
  <2>4. /\ bucket' \in [Names -> BucketStates] /\ bucket'[Of(p).name] = w
        /\ \A n \in Names \ {Of(p).name} : bucket'[n] = bucket[n]
      BY <1>6, <2>2, <2>3
  <2>5. BucketsStay(p)
      BY <1>7, <2>2, <2>4 DEF BucketsStay, CreationInv, ThingsAreSeen, Taken
  <2>6. Gotten(p, v)
      BY <2>1, <2>2, <2>3, <2>4 DEF Gotten
  <2> QED
      BY <1>1, <1>2, <1>3, <2>5, <2>6, ThingIsMade
<1>8. CASE Of(p).service # "s3"
  <2> DEFINE v == [is |-> "own", has |-> given, had |-> given]
  <2>1. v \in ThingStates /\ v.is = "own" /\ v.has = v.had
      BY <1>5 DEF ThingStates
  <2>2. thing' = [thing EXCEPT ![p] = v] /\ bucket' = bucket
      BY <1>4, <1>8
  <2> HIDE DEF v
  <2>3. BucketsStay(p)
      BY <1>6, <2>2 DEF BucketsStay, CreationInv, ThingsAreSeen, Taken
  <2>4. Gotten(p, v)
      BY <1>8, <2>1, <2>2 DEF Gotten
  <2> QED
      BY <1>1, <1>2, <1>3, <2>3, <2>4, ThingIsMade
<1> QED
    BY <1>7, <1>8

LEMMA AdoptBucketKeeps ==
    ASSUME CreationInv, NEW p \in CreationPlans, AdoptBucket(p)
    PROVE  CreationInv'
<1> DEFINE v == [Nothing EXCEPT !.is = "adopted"]
<1>1. /\ at[p] = "checked" /\ Of(p).service = "s3" /\ Taken(Of(p).name) /\ Of(p).region = "us-east-1"
      /\ thing' = [thing EXCEPT ![p] = v] /\ UNCHANGED <<config, bucket, ownAccount>>
      /\ calls' = calls \/ calls' = [calls EXCEPT ![p] = CallsAfter(Of(p))]
    BY DEF AdoptBucket
<1>2. PICK s \in {"configuring", "unknown"} : Goes(p, s)
    BY DEF AdoptBucket
<1>3. calls' \in [CreationPlans -> Seq(CallNames)]
    BY <1>1, CallsOfCreation
<1>4. v \in ThingStates /\ v.is = "adopted" /\ v.has = v.had
    BY DEF ThingStates, Nothing
<1> HIDE DEF v
<1>5. BucketsStay(p)
    BY <1>1 DEF BucketsStay, CreationInv, CreationTypes, ThingsAreSeen, Taken
<1>6. bucket'[Of(p).name].by = "owner"
  <2>1. Of(p).name \in Names /\ bucket[Of(p).name].by # "plan"
      BY <1>1, ConfigurationsAre DEF CreationInv, ResourcesAreWhose
  <2> QED
      BY <1>1, <2>1 DEF CreationInv, CreationTypes, BucketStates, Taken
<1>7. Gotten(p, v)
    BY <1>1, <1>4, <1>6 DEF Gotten
<1> QED
    BY <1>1, <1>2, <1>3, <1>5, <1>7, ThingIsMade

\* What a resource has is among the aspects there are.
LEMMA IsTypes ==
    ASSUME CreationInv, NEW p \in CreationPlans
    PROVE  Is(p).has \subseteq Aspects
BY ConfigurationsAre DEF Is, CreationInv, CreationTypes, ThingStates, BucketStates

LEMMA ConfigureThingKeeps ==
    ASSUME CreationInv, NEW p \in CreationPlans, ConfigureThing(p)
    PROVE  CreationInv'
<1> DEFINE has == IF Head(calls[p]) = "tags" THEN (Is(p).has \ Labels) \cup {Of(p).label}
                  ELSE Is(p).has \cup ({Head(calls[p])} \cap Aspects)
<1>1. has \in SUBSET Aspects
    BY IsTypes, ConfigurationsAre DEF Aspects
<1>2. Becomes(p, has) /\ at[p] = "configuring" /\ UNCHANGED <<config, at, ownAccount>>
    BY DEF ConfigureThing
<1>3. calls' \in [CreationPlans -> Seq(CallNames)]
  <2>1. calls[p] \in Seq(CallNames) /\ calls[p] # <<>> /\ calls' = [calls EXCEPT ![p] = Tail(calls[p])]
      BY DEF ConfigureThing, CreationInv, CreationTypes
  <2>2. Tail(calls[p]) \in Seq(CallNames)
      BY <2>1
  <2> QED
      BY <2>1, <2>2 DEF CreationInv, CreationTypes
<1>4. FoundAgain(p)
  <2>1. thing[p].is # "none" /\ Whose(p)
      BY <1>2 DEF CreationInv, ThingsAreSeen, ResourcesAreWhose
  <2> QED
      BY <2>1, WhoseIsThere DEF FoundAgain
<1>5. ownAccount' \in Accounts
    BY <1>2 DEF CreationInv, CreationTypes
<1> HIDE DEF has
<1> QED
    BY <1>1, <1>2, <1>3, <1>4, <1>5, ThingChanges

LEMMA OwnerCompletesKeeps ==
    ASSUME CreationInv, NEW p \in CreationPlans, OwnerCompletes(p)
    PROVE  CreationInv'
<1> DEFINE has == (Is(p).has \ Labels) \cup Verified(Of(p))
<1>1. has \in SUBSET Aspects
    BY IsTypes, ConfigurationsAre DEF Verified, Aspects, Services
<1>2. Becomes(p, has) /\ FoundAgain(p) /\ Acts(ownAccount) /\ UNCHANGED <<config, at, calls>>
    BY DEF OwnerCompletes
<1>3. calls' \in [CreationPlans -> Seq(CallNames)] /\ ownAccount' \in Accounts
    BY <1>2, ActsTypes DEF CreationInv, CreationTypes
<1> HIDE DEF has
<1> QED
    BY <1>1, <1>2, <1>3, ThingChanges

LEMMA OwnerUndoesKeeps ==
    ASSUME CreationInv, NEW p \in CreationPlans, NEW aspect, OwnerUndoes(p, aspect)
    PROVE  CreationInv'
<1> DEFINE has == Is(p).has \ {aspect}
<1>1. has \in SUBSET Aspects
    BY IsTypes
<1>2. Becomes(p, has) /\ aspect \in Is(p).has /\ Acts(ownAccount) /\ UNCHANGED <<config, at, calls>>
    BY DEF OwnerUndoes
<1>3. calls' \in [CreationPlans -> Seq(CallNames)] /\ ownAccount' \in Accounts
    BY <1>2, ActsTypes DEF CreationInv, CreationTypes
<1>4. FoundAgain(p)
    BY <1>2, ConfigurationsAre DEF FoundAgain, Is, CreationInv, ThingsAreSeen
<1> HIDE DEF has
<1> QED
    BY <1>1, <1>2, <1>3, <1>4, ThingChanges

\* Resources stay as they are.
LEMMA ResourcesStay ==
    ASSUME CreationInv, ownAccount' \in Accounts, UNCHANGED <<config, at, calls, thing, bucket>>
    PROVE  CreationInv'
<1>1. /\ \A q \in CreationPlans : thing'[q].is = thing[q].is
      /\ \A q \in CreationPlans : thing[q].had \subseteq thing'[q].had
      /\ \A q \in CreationPlans : thing'[q].has \subseteq thing'[q].had
      /\ \A q \in CreationPlans : thing[q].is = "none" => thing'[q].had = {}
    BY DEF CreationInv, ThingsAreSeen
<1>2. /\ \A n \in Names : bucket'[n].by = bucket[n].by \/ (~Taken(n) /\ bucket'[n].by = "owner")
      /\ \A n \in Names : bucket[n].had \subseteq bucket'[n].had
      /\ \A n \in Names : bucket'[n].has \subseteq bucket'[n].had
      /\ \A n \in Names : bucket'[n].by = "none" => bucket'[n].had = {}
    BY DEF CreationInv, ThingsAreSeen, Taken
<1>3. /\ calls' \in [CreationPlans -> Seq(CallNames)]
      /\ thing' \in [CreationPlans -> ThingStates] /\ bucket' \in [Names -> BucketStates]
    BY DEF CreationInv, CreationTypes
<1> QED
    BY <1>1, <1>2, <1>3, ResourcesChange

LEMMA OwnerOrAdminKeeps ==
    ASSUME CreationInv,
           OwnerMakes \/ AdminDisallowsPublic \/ \E ingress \in {"web", "open"} : OwnerOpensGroup(ingress)
    PROVE  CreationInv'
<1>1. ownAccount \in Accounts
    BY DEF CreationInv, CreationTypes
<1>2. UNCHANGED <<config, at, calls, thing, bucket>>
    BY DEF OwnerMakes, AdminDisallowsPublic, OwnerOpensGroup
<1>3. PICK change \in Accounts : Acts(change)
  <2>1. CASE OwnerMakes
    <3>1. ASSUME NEW b \in OwnerBlocks, NEW r \in Places
          PROVE  [ownAccount EXCEPT !.vpcs = @ \cup {<<r, b>>}] \in Accounts
        BY <1>1, CreationAssumption DEF Accounts
    <3>2. ASSUME NEW b \in OwnerBlocks PROVE [ownAccount EXCEPT !.subnets = @ \cup {b}] \in Accounts
        BY <1>1, CreationAssumption DEF Accounts
    <3> QED
        BY <2>1, <3>1, <3>2 DEF OwnerMakes
  <2>2. CASE AdminDisallowsPublic
    <3>1. [ownAccount EXCEPT !.allowPublic = FALSE] \in Accounts
        BY <1>1 DEF Accounts
    <3> QED
        BY <2>2, <3>1 DEF AdminDisallowsPublic
  <2>3. CASE \E ingress \in {"web", "open"} : OwnerOpensGroup(ingress)
    <3>1. ASSUME NEW ingress \in {"web", "open"} PROVE [ownAccount EXCEPT !.ingress = ingress] \in Accounts
        BY <1>1 DEF Accounts
    <3> QED
        BY <2>3, <3>1 DEF OwnerOpensGroup
  <2> QED
      BY <2>1, <2>2, <2>3
<1>4. ownAccount' \in Accounts
    BY <1>3, ActsTypes
<1> QED
    BY <1>2, <1>4, ResourcesStay

LEMMA OwnerMakesBucketKeeps ==
    ASSUME CreationInv, NEW n \in Names, NEW r \in Places, OwnerMakesBucket(n, r)
    PROVE  CreationInv'
<1> DEFINE w == NewBucket("owner", r, {"ownership", "private", "encrypted"})
<1>1. w \in BucketStates /\ w.by = "owner" /\ w.has = w.had
    BY DEF NewBucket, BucketStates, Aspects
<1>2. ~Taken(n) /\ Acts(ownAccount) /\ bucket' = [bucket EXCEPT ![n] = w] /\ UNCHANGED <<config, at, calls, thing>>
    BY DEF OwnerMakesBucket
<1> HIDE DEF w
<1>3. /\ bucket' \in [Names -> BucketStates] /\ bucket'[n] = w
      /\ \A m \in Names \ {n} : bucket'[m] = bucket[m]
    BY <1>1, <1>2 DEF CreationInv, CreationTypes
<1>4. /\ \A q \in CreationPlans : thing'[q].is = thing[q].is
      /\ \A q \in CreationPlans : thing[q].had \subseteq thing'[q].had
      /\ \A q \in CreationPlans : thing'[q].has \subseteq thing'[q].had
      /\ \A q \in CreationPlans : thing[q].is = "none" => thing'[q].had = {}
    BY <1>2 DEF CreationInv, ThingsAreSeen
<1>5. /\ \A m \in Names : bucket'[m].by = bucket[m].by \/ (~Taken(m) /\ bucket'[m].by = "owner")
      /\ \A m \in Names : bucket[m].had \subseteq bucket'[m].had
      /\ \A m \in Names : bucket'[m].has \subseteq bucket'[m].had
      /\ \A m \in Names : bucket'[m].by = "none" => bucket'[m].had = {}
    BY <1>1, <1>2, <1>3 DEF CreationInv, ThingsAreSeen, Taken
<1>6. /\ calls' \in [CreationPlans -> Seq(CallNames)] /\ ownAccount' \in Accounts
      /\ thing' \in [CreationPlans -> ThingStates] /\ UNCHANGED <<config, at>>
    BY <1>2, ActsTypes DEF CreationInv, CreationTypes
<1> QED
    BY <1>3, <1>4, <1>5, <1>6, ResourcesChange

-----------------------------------------------------------------------------
(* Creation: the theorems.                                                 *)

LEMMA CreationInvInit == CreationInit => CreationInv
<1> SUFFICES ASSUME CreationInit PROVE CreationInv
    OBVIOUS
<1> USE DEF CreationInit
<1>1. Nothing \in ThingStates /\ Nothing.is = "none" /\ Nothing.has = {} /\ Nothing.had = {}
    BY DEF Nothing, ThingStates
<1>2. NoBucket \in BucketStates /\ NoBucket.by = "none" /\ NoBucket.has = {} /\ NoBucket.had = {}
    BY DEF NoBucket, BucketStates, Places
<1>3. ownAccount \in Accounts
    BY CreationAssumption DEF Accounts, Places
<1>4. CreationTypes
    BY <1>1, <1>2, <1>3 DEF CreationTypes, PlanStages
<1>5. OneInProgress
    BY DEF OneInProgress, InProgress
<1>6. ThingsAreSeen /\ ResourcesAreWhose
    BY <1>1, <1>2 DEF ThingsAreSeen, ResourcesAreWhose, Taken
<1>7. PromisesAreKept /\ BlocksAreGood /\ VpcsAreApart
    BY <1>1 DEF PromisesAreKept, BlocksAreGood, VpcsAreApart
<1> QED
    BY <1>4, <1>5, <1>6, <1>7 DEF CreationInv

LEMMA CreationInvStep == CreationInv /\ [CreationNext]_creationVars => CreationInv'
<1> SUFFICES ASSUME CreationInv, [CreationNext]_creationVars PROVE CreationInv'
    OBVIOUS
<1>1. CASE UNCHANGED creationVars
  <2>1. ownAccount' \in Accounts
      BY <1>1 DEF creationVars, CreationInv, CreationTypes
  <2> QED
      BY <1>1, <2>1, ResourcesStay DEF creationVars
<1>2. ASSUME NEW p \in CreationPlans,
             \/ ReservePlan(p) \/ Preflight(p) \/ CreateRefused(p) \/ Interrupt(p) \/ VerifyThing(p)
      PROVE  CreationInv'
    BY <1>2, PlanStepKeeps
<1>3. ASSUME NEW p \in CreationPlans,
             \/ CreateThing(p) \/ AdoptBucket(p) \/ ConfigureThing(p) \/ OwnerCompletes(p)
             \/ ReconcileThing(p) \/ \E aspect \in {"private", Of(p).label} : OwnerUndoes(p, aspect)
      PROVE  CreationInv'
    BY <1>3, CreateThingKeeps, AdoptBucketKeeps, ConfigureThingKeeps, OwnerCompletesKeeps,
       ReconcileThingKeeps, OwnerUndoesKeeps
<1>4. CASE OwnerMakes \/ AdminDisallowsPublic \/ \E ingress \in {"web", "open"} : OwnerOpensGroup(ingress)
    BY <1>4, OwnerOrAdminKeeps
<1>5. CASE \E n \in Names, r \in Places : OwnerMakesBucket(n, r)
    BY <1>5, OwnerMakesBucketKeeps
<1> QED
    BY <1>1, <1>2, <1>3, <1>4, <1>5 DEF CreationNext

LEMMA CreationInvAlways == CreationSpec => []CreationInv
BY CreationInvInit, CreationInvStep, PTL DEF CreationSpec

\* The plans, their calls and things, and the account are what the types say.
THEOREM CreationTypeCorrect == CreationSpec => []CreationTypes
<1>1. CreationInv => CreationTypes
    BY DEF CreationInv
<1> QED
    BY <1>1, CreationInvAlways, PTL

\* A plan that succeeded has a resource that had all that was promised: its own,
\* or one of the buckets a plan may take for its own.
THEOREM SuccessIsOwn == CreationSpec => []SucceededIsItsOwn
<1>1. CreationInv => SucceededIsItsOwn
    BY DEF CreationInv, ThingsAreSeen, ResourcesAreWhose, PromisesAreKept, SucceededIsItsOwn
<1> QED
    BY <1>1, CreationInvAlways, PTL

-----------------------------------------------------------------------------
(* Creation: blocks that do not overlap share no address.                  *)

\* Quotient and rest, as far as the provers know them.
LEMMA DividedSum ==
    ASSUME NEW a \in Nat, NEW s \in Nat, s > 0
    PROVE  a % s = a - s * (a \div s)
OBVIOUS

LEMMA DividedRest ==
    ASSUME NEW a \in Nat, NEW s \in Nat, s > 0
    PROVE  a % s \in 0..s - 1 /\ a \div s \in Nat
OBVIOUS

\* A factor that is not zero is cancelled.
LEMMA Cancelled ==
    ASSUME NEW k \in Nat, NEW m \in Nat, NEW s \in Nat, s > 0, s * k < s * m + s
    PROVE  k <= m
<1> SUFFICES ASSUME m + 1 <= k PROVE FALSE
    OBVIOUS
<1>1. s * (m + 1) <= s * k
    OBVIOUS
<1>2. s * (m + 1) = s * m + s
    OBVIOUS
<1> QED
    BY <1>1, <1>2

LEMMA Multiple ==
    ASSUME NEW a \in Nat, NEW s \in Nat, s > 0, a % s = 0
    PROVE  \E k \in Nat : a = s * k
OBVIOUS

\* A block of size small at y that meets a block of size large at x lies in it.
LEMMA SmallInLarge ==
    ASSUME NEW large \in Nat, large > 0, NEW small \in Nat, small > 0, large % small = 0,
           NEW x \in Nat, x % large = 0, NEW y \in Nat, y % small = 0,
           NEW z \in Nat, x <= z, z < x + large, y <= z, z < y + small
    PROVE  y - (y % large) = x
<1>1. PICK k \in Nat : large = small * k
    BY Multiple
<1>2. PICK n \in Nat : x = large * n
    BY Multiple
<1>3. PICK m \in Nat : y = small * m
    BY Multiple
<1>4. k * n \in Nat /\ x = small * (k * n)
  <2>1. k * n \in Nat
      OBVIOUS
  <2>2. (small * k) * n = small * (k * n)
      OBVIOUS
  <2> QED
      BY <1>1, <1>2, <2>1, <2>2
<1>5. k * n <= m
  <2>1. small * (k * n) < small * m + small
      BY <1>3, <1>4
  <2> QED
      BY <1>4, <2>1, Cancelled
<1>6. x <= y
  <2>1. small * (k * n) <= small * m
      BY <1>4, <1>5
  <2> QED
      BY <1>3, <1>4, <2>1
<1>7. y < x + large
    OBVIOUS
<1>8. PICK q \in Nat, r \in 0..large - 1 : y = large * q + r /\ r = y % large
  <2> DEFINE q == y \div large
             r == y % large
  <2>1. r = y - large * q
      BY DividedSum
  <2>2. q \in Nat /\ r \in 0..large - 1
      BY DividedRest
  <2>3. r = y % large
      OBVIOUS
  <2> HIDE DEF q, r
  <2> QED
      BY <2>1, <2>2, <2>3
<1> DEFINE d == large * q
           e == large * n
<1>9. d \in Nat /\ e \in Nat
    OBVIOUS
<1>10. q <= n
  <2>1. large * q < large * n + large
    <3>1. d < e + large
      <4>1. y = d + r /\ x = e
          BY <1>2, <1>8
      <4> HIDE DEF d, e
      <4> QED
          BY <1>7, <1>9, <4>1
    <3> QED
        BY <3>1
  <2> QED
      BY <2>1, Cancelled
<1>11. n <= q
  <2>1. large * n < large * q + large
    <3>1. e < d + large
      <4>1. y = d + r /\ x = e
          BY <1>2, <1>8
      <4> HIDE DEF d, e
      <4> QED
          BY <1>6, <1>9, <4>1
    <3> QED
        BY <3>1
  <2> QED
      BY <2>1, Cancelled
<1>12. y = x + r
    BY <1>2, <1>8, <1>10, <1>11
<1> QED
    BY <1>8, <1>12

\* lib/cidr.ts: what Overlaps() tells of the bounds of two blocks.
LEMMA ApartAreDisjoint ==
    ASSUME NEW a \in Block, NEW b \in Block, Canonical(a), Canonical(b), ~Overlaps(a, b)
    PROVE  Addresses(a) \cap Addresses(b) = {}
<1>1. ASSUME NEW l \in Block, NEW m \in Block, Canonical(l), Canonical(m), ~Contains(l, m),
             l.prefix <= m.prefix,
             NEW z \in Addresses(l), z \in Addresses(m)
      PROVE  FALSE
  <2>1. /\ l.base \in Nat /\ m.base \in Nat
        /\ l.prefix \in 0..AddressBits /\ m.prefix \in 0..AddressBits
    <3>1. 0..2^AddressBits - 1 \subseteq Nat
        OBVIOUS
    <3> QED
        BY <3>1 DEF Block
  <2> DEFINE large == Size(l.prefix)
             small == Size(m.prefix)
  <2>2. /\ large \in Nat /\ large > 0 /\ small \in Nat /\ small > 0
        /\ large % small = 0
    <3>1. l.prefix \in 0..m.prefix /\ m.prefix \in 0..m.prefix
        BY <1>1, <2>1, CreationAssumption
    <3>2. large \in Nat \ {0} /\ large % small = 0 /\ small \in Nat \ {0}
        BY <2>1, <3>1, SizesAssumption
    <3> HIDE DEF large, small
    <3> QED
        BY <3>2
  <2>3. /\ l.base = l.base - (l.base % large) /\ m.base = m.base - (m.base % small)
        /\ m.base - (m.base % large) # l.base
    <3>1. m.prefix >= l.prefix
        BY <1>1, <2>1, CreationAssumption
    <3> QED
        BY <1>1, <3>1 DEF Canonical, Contains, Masked
  <2>4. z \in l.base .. l.base + large - 1 /\ z \in m.base .. m.base + small - 1
      BY <1>1 DEF Addresses
  <2> HIDE DEF large, small
  <2>5. l.base % large = 0 /\ m.base % small = 0
    <3>1. l.base % large \in Nat /\ m.base % small \in Nat
        BY <2>1, <2>2, DividedRest
    <3> QED
        BY <2>1, <2>3, <3>1
  <2>6. z \in Nat /\ l.base <= z /\ z < l.base + large /\ m.base <= z /\ z < m.base + small
      BY <2>1, <2>2, <2>4
  <2> QED
      BY <2>1, <2>2, <2>3, <2>5, <2>6, SmallInLarge
<1>2. a.prefix \in Nat /\ b.prefix \in Nat
    BY DEF Block
<1>3. ~Contains(a, b) /\ ~Contains(b, a)
    BY DEF Overlaps
<1>4. CASE a.prefix <= b.prefix
    BY <1>1, <1>3, <1>4
<1>5. CASE b.prefix <= a.prefix
    BY <1>1, <1>3, <1>5
<1> QED
    BY <1>2, <1>4, <1>5

\* No two VPCs that plans made share an address.
THEOREM PlannedVpcsStayDisjoint == CreationSpec => []PlannedVpcsDisjoint
<1>1. CreationInv => PlannedVpcsDisjoint
  <2> SUFFICES ASSUME CreationInv, NEW p \in PlannedOf("vpc"), NEW q \in PlannedOf("vpc"), p # q,
                      Of(p).region = Of(q).region
               PROVE  Addresses(Of(p).block) \cap Addresses(Of(q).block) = {}
      BY DEF PlannedVpcsDisjoint
  <2>1. /\ p \in CreationPlans /\ q \in CreationPlans
        /\ Of(p).service = "vpc" /\ Of(q).service = "vpc"
        /\ thing[p].is # "none" /\ thing[q].is # "none"
      BY DEF PlannedOf
  <2>2. ~Overlaps(Of(p).block, Of(q).block)
      BY <2>1 DEF CreationInv, VpcsAreApart, Apart
  <2>3. Canonical(Of(p).block) /\ Canonical(Of(q).block)
      BY <2>1 DEF CreationInv, BlocksAreGood, GoodVpc, GoodBlock
  <2>4. Of(p).block \in Block /\ Of(q).block \in Block
      BY <2>1, ConfigurationsAre
  <2> QED
      BY <2>2, <2>3, <2>4, ApartAreDisjoint
<1> QED
    BY <1>1, CreationInvAlways, PTL

-----------------------------------------------------------------------------
(* CreateDialog: the invariant.                                            *)

RowStatuses == {"PLANNED", "UNKNOWN"} \cup Ended
PlanRowStates == [key : Nat, what : Choices, epoch : Nat, status : RowStatuses,
                  expired : BOOLEAN, ack : BOOLEAN]
CallKinds == {"load", "plan", "apply", "get"}
CallSteps == {"sent", "checked", "answered", "refused"}
DialogCalls == [n : Nat, kind : CallKinds, step : CallSteps, id : Nat, key : Nat, what : Choices,
                epoch : Nat, ack : BOOLEAN]
Views == [id : Nat, status : RowStatuses \cup {"none"}]
Histories == [keys : Nat, epoch : Nat, steps : Nat]
Boxes == [typed : {""} \cup {c.name : c \in Choices}, ticked : BOOLEAN]

DialogTypes ==
    /\ form \in Choices
    /\ requestKey \in Nat /\ shown \in Views /\ box \in Boxes /\ busy \in BOOLEAN
    /\ requests \subseteq DialogCalls
    /\ planRows \in Seq(PlanRowStates)
    /\ recent \subseteq Views
    /\ dlg \in Histories

\* What is shown, listed, applied or answered are plans that were made.
IsPlan(i) == i \in 1..Len(planRows)
NamesPlan(r) == r.kind \in {"apply", "get"} \/ (r.kind = "plan" /\ r.step = "answered")
PlansExist ==
    /\ shown.id # 0 => IsPlan(shown.id)
    /\ \A v \in recent : IsPlan(v.id)
    /\ \A r \in requests : NamesPlan(r) => IsPlan(r.id)

\* A call in flight, or a plan, has this key and stems from this form.
Used(k, e) ==
    \/ \E r \in requests : r.kind = "plan" /\ r.key = k /\ r.epoch = e
    \/ \E i \in 1..Len(planRows) : planRows[i].key = k /\ planRows[i].epoch = e

\* Keys and forms go together, and the form that is there now has the key that
\* the dialog keeps, if any.
OneKeyPerForm ==
    \A k, e \in Nat : Used(k, e) =>
        /\ k \in 1..dlg.keys /\ e <= dlg.epoch
        /\ e = dlg.epoch <=> k = requestKey
        /\ \A l, f \in Nat : Used(l, f) => (k = l <=> e = f)

\* The unique index of provisioning_plans.
KeysAreUnique == \A i, j \in 1..Len(planRows) : planRows[i].key = planRows[j].key => i = j

DialogInv ==
    /\ DialogTypes /\ PlansExist /\ OneKeyPerForm /\ KeysAreUnique
    /\ requestKey <= dlg.keys

-----------------------------------------------------------------------------
(* CreateDialog: lemmas.                                                   *)

LEMMA DialogKeysTypes ==
    ASSUME DialogInv
    PROVE  /\ requestKey \in Nat /\ dlg.keys \in Nat /\ dlg.epoch \in Nat /\ dlg.steps \in Nat
           /\ Len(planRows) \in Nat
           /\ \A i \in 1..Len(planRows) : planRows[i] \in PlanRowStates
           /\ \A r \in requests : r \in DialogCalls
BY DEF DialogInv, DialogTypes, Histories

\* No use of a key is new, and the dialog keeps its key and its form.
LEMMA NoNewUses ==
    ASSUME DialogInv, \A k, e \in Nat : Used(k, e)' => Used(k, e),
           dlg'.keys = dlg.keys, dlg'.epoch = dlg.epoch, requestKey' = requestKey
    PROVE  OneKeyPerForm' /\ requestKey' <= dlg'.keys
<1>1. requestKey' <= dlg'.keys
    BY DEF DialogInv
<1>2. ASSUME NEW k \in Nat, NEW e \in Nat, Used(k, e)'
      PROVE  /\ k \in 1..dlg'.keys /\ e <= dlg'.epoch
             /\ e = dlg'.epoch <=> k = requestKey'
             /\ \A l, f \in Nat : Used(l, f)' => (k = l <=> e = f)
  <2>1. Used(k, e)
      BY <1>2
  <2>2. /\ k \in 1..dlg.keys /\ e <= dlg.epoch
        /\ e = dlg.epoch <=> k = requestKey
        /\ \A l, f \in Nat : Used(l, f) => (k = l <=> e = f)
      BY <2>1 DEF DialogInv, OneKeyPerForm
  <2>3. \A l, f \in Nat : Used(l, f)' => (k = l <=> e = f)
      BY <2>2
  <2> QED
      BY <2>2, <2>3
<1> QED
    BY <1>1, <1>2 DEF OneKeyPerForm

\* The history gets one more step, and another form or another key with it.
LEMMA HistoryMoves ==
    ASSUME DialogInv, NEW more \in Nat, NEW keys \in Nat
    PROVE  /\ [dlg EXCEPT !.steps = more] \in Histories
           /\ [dlg EXCEPT !.steps = more].keys = dlg.keys /\ [dlg EXCEPT !.steps = more].epoch = dlg.epoch
           /\ [dlg EXCEPT !.steps = more, !.epoch = dlg.epoch + 1] \in Histories
           /\ [dlg EXCEPT !.steps = more, !.epoch = dlg.epoch + 1].keys = dlg.keys
           /\ [dlg EXCEPT !.steps = more, !.epoch = dlg.epoch + 1].epoch = dlg.epoch + 1
           /\ [dlg EXCEPT !.steps = more, !.keys = keys] \in Histories
           /\ [dlg EXCEPT !.steps = more, !.keys = keys].keys = keys
           /\ [dlg EXCEPT !.steps = more, !.keys = keys].epoch = dlg.epoch
<1> DEFINE d == [dlg EXCEPT !.steps = more]
<1>1. dlg \in Histories /\ dlg.epoch + 1 \in Nat
    BY DialogKeysTypes DEF DialogInv, DialogTypes
<1>2. d \in Histories /\ d.keys = dlg.keys /\ d.epoch = dlg.epoch
    BY <1>1 DEF Histories
<1> HIDE DEF d
<1>3. /\ [d EXCEPT !.epoch = dlg.epoch + 1] \in Histories
      /\ [d EXCEPT !.epoch = dlg.epoch + 1].keys = d.keys
      /\ [d EXCEPT !.epoch = dlg.epoch + 1].epoch = dlg.epoch + 1
    BY <1>1, <1>2 DEF Histories
<1>4. /\ [d EXCEPT !.keys = keys] \in Histories
      /\ [d EXCEPT !.keys = keys].keys = keys /\ [d EXCEPT !.keys = keys].epoch = d.epoch
    BY <1>1, <1>2 DEF Histories
<1> QED
    BY <1>2, <1>3, <1>4 DEF d

\* A call is sent that asks for no plan.
LEMMA SendsTypes ==
    ASSUME DialogInv, NEW kind \in CallKinds \ {"plan"}, NEW id \in Nat, NEW what \in Choices,
           NEW ack \in BOOLEAN,
           Sends(Call(kind, id, 0, what, 0, ack)), UNCHANGED planRows,
           kind # "load" => IsPlan(id)
    PROVE  /\ requests' \subseteq DialogCalls /\ busy' \in BOOLEAN
           /\ \A r \in requests' : NamesPlan(r) => IsPlan(r.id)
           /\ \A k, e \in Nat : Used(k, e)' => Used(k, e)
<1> DEFINE r == Call(kind, id, 0, what, 0, ack)
<1>1. r \in DialogCalls /\ r.kind = kind /\ r.id = id
    BY DialogKeysTypes DEF Call, DialogCalls, CallKinds, CallSteps
<1>2. requests' = requests \cup {r} /\ busy' = TRUE
    BY DEF Sends
<1> HIDE DEF r
<1>3. requests' \subseteq DialogCalls /\ busy' \in BOOLEAN
    BY <1>1, <1>2 DEF DialogInv, DialogTypes
<1>4. \A q \in requests' : NamesPlan(q) => IsPlan(q.id)
    BY <1>1, <1>2 DEF DialogInv, PlansExist, NamesPlan, CallKinds
<1>5. \A k, e \in Nat : Used(k, e)' => Used(k, e)
    BY <1>1, <1>2 DEF Used
<1> QED
    BY <1>3, <1>4, <1>5

\* A call goes on: it stays the same call of the same key and form.
LEMMA WithTypes ==
    ASSUME DialogInv, NEW r \in requests, NEW new \in DialogCalls, With(r, new),
           UNCHANGED planRows,
           new.kind = r.kind, new.key = r.key, new.epoch = r.epoch,
           NamesPlan(new) => IsPlan(new.id)
    PROVE  /\ requests' \subseteq DialogCalls
           /\ \A q \in requests' : NamesPlan(q) => IsPlan(q.id)
           /\ \A k, e \in Nat : Used(k, e)' => Used(k, e)
<1>1. requests' = (requests \ {r}) \cup {new}
    BY DEF With
<1>2. requests' \subseteq DialogCalls
    BY <1>1 DEF DialogInv, DialogTypes
<1>3. \A q \in requests' : NamesPlan(q) => IsPlan(q.id)
    BY <1>1 DEF DialogInv, PlansExist
<1>4. ASSUME NEW k \in Nat, NEW e \in Nat, Used(k, e)' PROVE Used(k, e)
    BY <1>1, <1>4 DEF Used
<1> QED
    BY <1>2, <1>3, <1>4

\* The plans stay the same plans: their state may change.
LEMMA RowsKeep ==
    ASSUME DialogInv, NEW i \in 1..Len(planRows), NEW v \in PlanRowStates,
           planRows' = [planRows EXCEPT ![i] = v],
           v.key = planRows[i].key, v.epoch = planRows[i].epoch
    PROVE  /\ planRows' \in Seq(PlanRowStates) /\ Len(planRows') = Len(planRows)
           /\ \A j \in 1..Len(planRows) : /\ planRows'[j].key = planRows[j].key
                                          /\ planRows'[j].epoch = planRows[j].epoch
           /\ KeysAreUnique'
<1>1. planRows \in Seq(PlanRowStates)
    BY DEF DialogInv, DialogTypes
<1>2. planRows' \in Seq(PlanRowStates) /\ Len(planRows') = Len(planRows)
    BY <1>1
<1>3. \A j \in 1..Len(planRows) : planRows'[j] = IF j = i THEN v ELSE planRows[j]
    BY <1>1
<1>4. \A j \in 1..Len(planRows) : /\ planRows'[j].key = planRows[j].key
                                  /\ planRows'[j].epoch = planRows[j].epoch
    BY <1>3
<1>5. KeysAreUnique'
    BY <1>2, <1>4 DEF DialogInv, KeysAreUnique
<1> QED
    BY <1>2, <1>4, <1>5

-----------------------------------------------------------------------------
(* CreateDialog: the steps.                                                *)

\* The dialog changes what it shows; calls, plans, the form and its key stay.
LEMMA ScreenKeeps ==
    ASSUME DialogInv, UNCHANGED <<form, requestKey, requests, planRows>>,
           shown' \in Views, shown'.id # 0 => IsPlan(shown'.id), box' \in Boxes, busy' \in BOOLEAN,
           recent' \subseteq Views, \A v \in recent' : IsPlan(v.id),
           dlg' \in Histories, dlg'.keys = dlg.keys, dlg'.epoch = dlg.epoch
    PROVE  DialogInv'
<1>1. DialogTypes'
    BY DEF DialogInv, DialogTypes
<1>2. PlansExist'
    BY DEF DialogInv, PlansExist, NamesPlan, IsPlan
<1>3. \A k, e \in Nat : Used(k, e)' => Used(k, e)
    BY DEF Used
<1>4. KeysAreUnique'
    BY DEF DialogInv, KeysAreUnique
<1> QED
    BY <1>1, <1>2, <1>3, <1>4, NoNewUses DEF DialogInv

\* The dialog sends a call that asks for no plan.
LEMMA SendKeeps ==
    ASSUME DialogInv, OpenDialog \/ ConfirmPlan \/ RefreshPlan
    PROVE  DialogInv'
<1>1. UNCHANGED <<form, requestKey, shown, box, planRows, recent>>
    BY DEF OpenDialog, ConfirmPlan, RefreshPlan
<1>2. /\ dlg' \in Histories
      /\ dlg'.keys = dlg.keys /\ dlg'.epoch = dlg.epoch
  <2>1. dlg' = [dlg EXCEPT !.steps = dlg.steps + 1]
      BY DEF OpenDialog, ConfirmPlan, RefreshPlan
  <2>2. dlg.steps + 1 \in Nat
      BY DialogKeysTypes
  <2> QED
      BY <2>1, <2>2, HistoryMoves
<1>3. PICK kind \in CallKinds \ {"plan"}, id \in Nat, what \in Choices, ack \in BOOLEAN :
          /\ Sends(Call(kind, id, 0, what, 0, ack))
          /\ kind # "load" => IsPlan(id)
  <2>1. CASE OpenDialog
      BY <2>1 DEF OpenDialog, CallKinds, DialogInv, DialogTypes
  <2>2. CASE ConfirmPlan \/ RefreshPlan
    <3>1. shown.id # 0 /\ IsPlan(shown.id) /\ shown.id \in Nat
        BY <2>2 DEF ConfirmPlan, RefreshPlan, DialogInv, DialogTypes, PlansExist, Views
    <3>2. planRows[shown.id].what \in Choices /\ box.ticked \in BOOLEAN
        BY <3>1, DialogKeysTypes DEF IsPlan, PlanRowStates, DialogInv, DialogTypes, Boxes
    <3>3. CASE ConfirmPlan
        BY <3>1, <3>2, <3>3 DEF ConfirmPlan, CallKinds
    <3>4. CASE RefreshPlan
        BY <3>1, <3>2, <3>4 DEF RefreshPlan, CallKinds
    <3> QED
        BY <2>2, <3>3, <3>4
  <2> QED
      BY <2>1, <2>2
<1>4. /\ requests' \subseteq DialogCalls /\ busy' \in BOOLEAN
      /\ \A r \in requests' : NamesPlan(r) => IsPlan(r.id)
      /\ \A k, e \in Nat : Used(k, e)' => Used(k, e)
    BY <1>1, <1>3, SendsTypes
<1>5. DialogTypes'
    BY <1>1, <1>2, <1>4 DEF DialogInv, DialogTypes
<1>6. PlansExist'
    BY <1>1, <1>4 DEF DialogInv, PlansExist, NamesPlan, IsPlan
<1>7. KeysAreUnique'
    BY <1>1 DEF DialogInv, KeysAreUnique
<1> QED
    BY <1>1, <1>2, <1>4, <1>5, <1>6, <1>7, NoNewUses DEF DialogInv

\* Another form: nothing was submitted of it, and it has no key.
LEMMA NewFormKeeps ==
    ASSUME DialogInv, BackToForm \/ \E c \in Choices : ChangeForm(c)
    PROVE  DialogInv'
<1>1. /\ form' \in Choices /\ requestKey' = 0 /\ shown' = TheForm
      /\ UNCHANGED <<busy, requests, planRows, recent>>
    BY DEF BackToForm, ChangeForm, DialogInv, DialogTypes
<1>2. /\ dlg' \in Histories
      /\ dlg'.keys = dlg.keys /\ dlg'.epoch = dlg.epoch + 1
  <2>1. dlg' = [dlg EXCEPT !.steps = dlg.steps + 1, !.epoch = dlg.epoch + 1]
      BY DEF BackToForm, ChangeForm
  <2>2. dlg.steps + 1 \in Nat
      BY DialogKeysTypes
  <2> QED
      BY <2>1, <2>2, HistoryMoves
<1>3. box' \in Boxes
  <2>1. CASE \E c \in Choices : ChangeForm(c)
      BY <2>1 DEF ChangeForm, DialogInv, DialogTypes
  <2>2. CASE BackToForm
    <3> DEFINE ticked == box.ticked /\ shown.status = "PLANNED"
    <3>1. ticked \in BOOLEAN
        BY DEF DialogInv, DialogTypes, Boxes
    <3>2. EmptyBox \in Boxes
        BY DEF EmptyBox, Boxes
    <3>3. box' = [EmptyBox EXCEPT !.ticked = ticked]
        BY <2>2 DEF BackToForm
    <3> HIDE DEF ticked
    <3> QED
        BY <3>1, <3>2, <3>3 DEF Boxes
  <2> QED
      BY <2>1, <2>2
<1>4. TheForm \in Views /\ TheForm.id = 0
    BY DEF TheForm, Views
<1>5. DialogTypes'
    BY <1>1, <1>2, <1>3, <1>4 DEF DialogInv, DialogTypes
<1>6. PlansExist'
    BY <1>1, <1>4 DEF DialogInv, PlansExist, NamesPlan, IsPlan
<1>7. KeysAreUnique'
    BY <1>1 DEF DialogInv, KeysAreUnique
<1>8. OneKeyPerForm'
  <2>1. \A k, e : Used(k, e)' <=> Used(k, e)
      BY <1>1 DEF Used
  <2> SUFFICES ASSUME NEW k \in Nat, NEW e \in Nat, Used(k, e)
               PROVE  /\ k \in 1..dlg'.keys /\ e <= dlg'.epoch
                      /\ e = dlg'.epoch <=> k = 0
                      /\ \A l, f \in Nat : Used(l, f) => (k = l <=> e = f)
      BY <1>1, <2>1 DEF OneKeyPerForm
  <2>2. /\ k \in 1..dlg.keys /\ e <= dlg.epoch
        /\ \A l, f \in Nat : Used(l, f) => (k = l <=> e = f)
      BY DEF DialogInv, OneKeyPerForm
  <2>3. e # dlg'.epoch /\ e <= dlg'.epoch /\ k # 0
      BY <1>2, <2>2, DialogKeysTypes
  <2> QED
      BY <1>2, <2>2, <2>3
<1>9. requestKey' <= dlg'.keys
    BY <1>1, <1>2, DialogKeysTypes
<1> QED
    BY <1>5, <1>6, <1>7, <1>8, <1>9 DEF DialogInv

\* The form is submitted: with the key it was submitted with before, or with
\* one that nothing has.
LEMMA SubmitFormKeeps ==
    ASSUME DialogInv, SubmitForm
    PROVE  DialogInv'
<1> USE DEF SubmitForm
<1> DEFINE key == KeyFor
           r == Call("plan", 0, key, form, dlg.epoch, FALSE)
<1>1. /\ requestKey \in Nat /\ dlg.keys \in Nat /\ dlg.epoch \in Nat /\ dlg.steps \in Nat
      /\ requestKey <= dlg.keys /\ form \in Choices
    BY DialogKeysTypes DEF DialogInv, DialogTypes
<1>2. /\ key \in Nat \ {0}
      /\ \/ key = requestKey
         \/ key = dlg.keys + 1 /\ requestKey = 0
    BY <1>1 DEF KeyFor
<1>3. r \in DialogCalls /\ r.kind = "plan" /\ r.step = "sent" /\ r.key = key /\ r.epoch = dlg.epoch
    BY <1>1, <1>2 DEF Call, DialogCalls, CallKinds, CallSteps
<1>4. requests' = requests \cup {r} /\ busy' = TRUE /\ requestKey' = key
      /\ UNCHANGED <<form, shown, box, planRows, recent>>
    BY DEF Sends
<1>5. /\ dlg' \in Histories
      /\ dlg'.epoch = dlg.epoch
      /\ dlg'.keys = IF key > dlg.keys THEN key ELSE dlg.keys
  <2> DEFINE keys == IF key > dlg.keys THEN key ELSE dlg.keys
  <2>1. dlg' = [dlg EXCEPT !.steps = dlg.steps + 1, !.keys = keys]
      OBVIOUS
  <2>2. dlg.steps + 1 \in Nat /\ keys \in Nat
      BY <1>1, <1>2
  <2> HIDE DEF keys, SubmitForm
  <2>3. dlg' \in Histories /\ dlg'.epoch = dlg.epoch /\ dlg'.keys = keys
      BY <2>1, <2>2, HistoryMoves
  <2> QED
      BY <2>3 DEF keys
<1> HIDE DEF SubmitForm, key, r
<1>6. DialogTypes'
    BY <1>2, <1>3, <1>4, <1>5 DEF DialogInv, DialogTypes
<1>7. PlansExist'
    BY <1>3, <1>4 DEF DialogInv, PlansExist, NamesPlan, IsPlan
<1>8. KeysAreUnique'
    BY <1>4 DEF DialogInv, KeysAreUnique
<1>9. requestKey' <= dlg'.keys
    BY <1>1, <1>2, <1>4, <1>5
<1>10. ASSUME NEW k \in Nat, NEW e \in Nat
       PROVE  Used(k, e)' <=> (Used(k, e) \/ (k = key /\ e = dlg.epoch))
    BY <1>3, <1>4 DEF Used
\* What was used before goes with the key if and only if with the form.
<1>11. ASSUME NEW k \in Nat, NEW e \in Nat, Used(k, e)
       PROVE  /\ k \in 1..dlg.keys /\ e <= dlg.epoch
              /\ k = key <=> e = dlg.epoch
  <2>1. k \in 1..dlg.keys /\ e <= dlg.epoch /\ (e = dlg.epoch <=> k = requestKey)
      BY <1>11 DEF DialogInv, OneKeyPerForm
  <2> QED
      BY <1>1, <1>2, <2>1
<1>12. OneKeyPerForm'
  <2> SUFFICES ASSUME NEW k \in Nat, NEW e \in Nat, Used(k, e)'
               PROVE  /\ k \in 1..dlg'.keys /\ e <= dlg'.epoch
                      /\ e = dlg'.epoch <=> k = requestKey'
                      /\ \A l, f \in Nat : Used(l, f)' => (k = l <=> e = f)
      BY DEF OneKeyPerForm
  <2>1. k \in 1..dlg'.keys /\ e <= dlg'.epoch
      BY <1>1, <1>2, <1>5, <1>10, <1>11
  <2>2. e = dlg'.epoch <=> k = requestKey'
      BY <1>4, <1>5, <1>10, <1>11
  <2>3. ASSUME NEW l \in Nat, NEW f \in Nat, Used(l, f)' PROVE k = l <=> e = f
    <3>1. CASE Used(k, e) /\ Used(l, f)
        BY <3>1 DEF DialogInv, OneKeyPerForm
    <3>2. CASE k = key /\ e = dlg.epoch
        BY <1>10, <1>11, <2>3, <3>2
    <3>3. CASE l = key /\ f = dlg.epoch
        BY <1>10, <1>11, <3>3
    <3> QED
        BY <1>10, <2>3, <3>1, <3>2, <3>3
  <2> QED
      BY <2>1, <2>2, <2>3
<1> QED
    BY <1>6, <1>7, <1>8, <1>9, <1>12 DEF DialogInv

\* A call goes on, and the plans stay.
LEMMA CallKeeps ==
    ASSUME DialogInv, NEW r \in requests, NEW new \in DialogCalls, With(r, new),
           new.kind = r.kind, new.key = r.key, new.epoch = r.epoch,
           NamesPlan(new) => IsPlan(new.id),
           UNCHANGED <<form, requestKey, shown, box, busy, planRows, recent, dlg>>
    PROVE  DialogInv'
<1>1. /\ requests' \subseteq DialogCalls
      /\ \A q \in requests' : NamesPlan(q) => IsPlan(q.id)
      /\ \A k, e \in Nat : Used(k, e)' => Used(k, e)
    BY WithTypes
<1>2. DialogTypes'
    BY <1>1 DEF DialogInv, DialogTypes
<1>3. PlansExist'
    BY <1>1 DEF DialogInv, PlansExist, NamesPlan, IsPlan
<1>4. KeysAreUnique'
    BY DEF DialogInv, KeysAreUnique
<1> QED
    BY <1>1, <1>2, <1>3, <1>4, NoNewUses DEF DialogInv

\* The state of a plan changes, with the call that changes it, if any.
LEMMA RowMoves ==
    ASSUME DialogInv, NEW i \in 1..Len(planRows), NEW v \in PlanRowStates,
           planRows' = [planRows EXCEPT ![i] = v],
           v.key = planRows[i].key, v.epoch = planRows[i].epoch,
           requests' \subseteq DialogCalls,
           \A q \in requests' : NamesPlan(q) => IsPlan(q.id),
           \A q \in requests' : \E p \in requests :
               p.kind = q.kind /\ p.key = q.key /\ p.epoch = q.epoch,
           UNCHANGED <<form, requestKey, shown, box, busy, recent, dlg>>
    PROVE  DialogInv'
<1>1. /\ planRows' \in Seq(PlanRowStates) /\ Len(planRows') = Len(planRows)
      /\ \A j \in 1..Len(planRows) : /\ planRows'[j].key = planRows[j].key
                                     /\ planRows'[j].epoch = planRows[j].epoch
      /\ KeysAreUnique'
    BY RowsKeep
<1>2. DialogTypes'
    BY <1>1 DEF DialogInv, DialogTypes
<1>3. PlansExist'
    BY <1>1 DEF DialogInv, PlansExist, NamesPlan, IsPlan
<1>4. ASSUME NEW k \in Nat, NEW e \in Nat, Used(k, e)' PROVE Used(k, e)
    BY <1>1, <1>4 DEF Used
<1> QED
    BY <1>1, <1>2, <1>3, <1>4, NoNewUses DEF DialogInv

\* The row of a plan of this key is what a request is answered with.
LEMMA LookForKeyKeeps ==
    ASSUME DialogInv, NEW r \in requests, LookForKey(r)
    PROVE  DialogInv'
<1>1. r \in DialogCalls /\ r.kind = "plan"
    BY DialogKeysTypes DEF LookForKey
<1>2. PICK new \in DialogCalls :
          /\ With(r, new)
          /\ new.kind = r.kind /\ new.key = r.key /\ new.epoch = r.epoch
          /\ NamesPlan(new) => IsPlan(new.id)
  <2> DEFINE prior == {i \in 1..Len(planRows) : planRows[i].key = r.key}
             step == CASE prior = {} -> "checked"
                       [] \E i \in prior : planRows[i].what = r.what -> "answered"
                       [] OTHER -> "refused"
             id == IF prior = {} THEN 0 ELSE CHOOSE i \in prior : TRUE
             new == [r EXCEPT !.step = step, !.id = id]
  <2>1. step \in CallSteps /\ (prior = {} => step = "checked")
    <3>1. CASE prior = {}
        BY <3>1 DEF CallSteps
    <3>2. CASE prior # {}
        BY <3>2 DEF CallSteps
    <3> QED
        BY <3>1, <3>2
  <2>2. id \in Nat /\ (prior # {} => IsPlan(id))
    <3>1. prior \subseteq 1..Len(planRows) /\ Len(planRows) \in Nat
        BY DialogKeysTypes
    <3>2. prior # {} => id \in prior
        OBVIOUS
    <3> HIDE DEF prior
    <3>3. CASE prior = {}
        BY <3>3
    <3>4. CASE prior # {}
      <4>1. id \in prior
          BY <3>2, <3>4
      <4>2. id \in 1..Len(planRows)
          BY <3>1, <4>1
      <4> HIDE DEF id
      <4> QED
          BY <3>1, <4>2 DEF IsPlan
    <3> QED
        BY <3>3, <3>4
  <2>3. With(r, new)
      BY DEF LookForKey
  <2> HIDE DEF step, id, prior
  <2>4. /\ new \in DialogCalls /\ new.kind = r.kind /\ new.key = r.key /\ new.epoch = r.epoch
        /\ new.step = step /\ new.id = id
      BY <1>1, <2>1, <2>2 DEF DialogCalls
  <2>5. NamesPlan(new) => IsPlan(new.id)
      BY <1>1, <2>1, <2>2, <2>4 DEF NamesPlan
  <2> QED
      BY <2>3, <2>4, <2>5
<1>3. UNCHANGED <<form, requestKey, shown, box, busy, planRows, recent, dlg>>
    BY DEF LookForKey
<1> QED
    BY <1>2, <1>3, CallKeeps

\* A plan is inserted only under a key that no plan has.
LEMMA InsertPlanKeeps ==
    ASSUME DialogInv, NEW r \in requests, InsertPlan(r)
    PROVE  DialogInv'
<1>1. r \in DialogCalls /\ r.kind = "plan"
    BY DialogKeysTypes DEF InsertPlan
<1>2. UNCHANGED <<form, requestKey, shown, box, busy, recent, dlg>>
    BY DEF InsertPlan
<1>3. CASE ~KeyIsUnique(r)
  <2> DEFINE i == CHOOSE i \in 1..Len(planRows) : planRows[i].key = r.key
             step == IF planRows[i].what = r.what THEN "answered" ELSE "refused"
             new == [r EXCEPT !.step = step, !.id = i]
  <2>1. With(r, new) /\ UNCHANGED planRows
      BY <1>3 DEF InsertPlan
  <2>2. step \in CallSteps
      BY DEF CallSteps
  <2>3. IsPlan(i) /\ i \in Nat
    <3>1. \E j \in 1..Len(planRows) : planRows[j].key = r.key
        BY <1>3 DEF KeyIsUnique
    <3>2. i \in 1..Len(planRows)
        BY <3>1
    <3> HIDE DEF i
    <3> QED
        BY <3>2, DialogKeysTypes DEF IsPlan
  <2> HIDE DEF step, i
  <2>4. /\ new \in DialogCalls /\ new.kind = r.kind /\ new.key = r.key /\ new.epoch = r.epoch
        /\ new.id = i
      BY <1>1, <2>2, <2>3 DEF DialogCalls
  <2> HIDE DEF new
  <2> QED
      BY <1>2, <2>1, <2>3, <2>4, CallKeeps
<1>4. CASE KeyIsUnique(r)
  <2> DEFINE v == [key |-> r.key, what |-> r.what, epoch |-> r.epoch,
                   status |-> "PLANNED", expired |-> FALSE, ack |-> FALSE]
             next == Len(planRows) + 1
             new == [r EXCEPT !.step = "answered", !.id = next]
  <2>1. planRows' = Append(planRows, v) /\ requests' = (requests \ {r}) \cup {new}
      BY <1>4 DEF InsertPlan, With
  <2>2. v \in PlanRowStates /\ v.key = r.key /\ v.epoch = r.epoch
      BY <1>1 DEF DialogCalls, PlanRowStates, RowStatuses
  <2>3. Len(planRows) \in Nat /\ planRows \in Seq(PlanRowStates)
      BY DialogKeysTypes DEF DialogInv, DialogTypes
  <2>4. /\ new \in DialogCalls /\ new.kind = r.kind /\ new.key = r.key /\ new.epoch = r.epoch
        /\ new.id = Len(planRows) + 1
    <3>1. next \in Nat /\ next = Len(planRows) + 1
        BY <2>3
    <3> HIDE DEF next
    <3>2. /\ new \in DialogCalls /\ new.kind = r.kind /\ new.key = r.key /\ new.epoch = r.epoch
          /\ new.id = next
        BY <1>1, <3>1 DEF DialogCalls, CallSteps
    <3> QED
        BY <3>1, <3>2
  <2> HIDE DEF v, new
  <2>5. /\ planRows' \in Seq(PlanRowStates) /\ Len(planRows') = Len(planRows) + 1
        /\ \A j \in 1..Len(planRows) : planRows'[j] = planRows[j]
        /\ planRows'[Len(planRows) + 1] = v
      BY <2>1, <2>2, <2>3
  <2>6. \A j : IsPlan(j) => j \in 1..Len(planRows')
      BY <2>3, <2>5 DEF IsPlan
  <2>7. new.id \in 1..Len(planRows')
      BY <2>3, <2>4, <2>5
  <2>8. DialogTypes'
      BY <1>2, <2>1, <2>4, <2>5 DEF DialogInv, DialogTypes
  <2>9. PlansExist'
    <3>1. ASSUME NEW q \in requests', NamesPlan(q) PROVE q.id \in 1..Len(planRows')
        BY <2>1, <2>6, <2>7, <3>1 DEF DialogInv, PlansExist
    <3>2. /\ shown'.id # 0 => shown'.id \in 1..Len(planRows')
          /\ \A w \in recent' : w.id \in 1..Len(planRows')
        BY <1>2, <2>6 DEF DialogInv, PlansExist
    <3> QED
        BY <3>1, <3>2 DEF PlansExist, NamesPlan, IsPlan
  <2>10. ASSUME NEW k \in Nat, NEW e \in Nat, Used(k, e)' PROVE Used(k, e)
    <3>1. CASE \E q \in requests' : q.kind = "plan" /\ q.key = k /\ q.epoch = e
        BY <1>1, <2>1, <2>4, <3>1 DEF Used
    <3>2. CASE \E j \in 1..Len(planRows') : planRows'[j].key = k /\ planRows'[j].epoch = e
      <4>1. PICK j \in 1..Len(planRows') : planRows'[j].key = k /\ planRows'[j].epoch = e
          BY <3>2
      <4>2. CASE j = Len(planRows) + 1
          BY <1>1, <2>2, <2>5, <4>1, <4>2 DEF Used
      <4>3. CASE j \in 1..Len(planRows)
          BY <2>5, <4>1, <4>3 DEF Used
      <4> QED
          BY <2>3, <2>5, <4>2, <4>3
    <3> QED
        BY <2>10, <3>1, <3>2 DEF Used
  <2>11. KeysAreUnique'
    <3> SUFFICES ASSUME NEW i \in 1..Len(planRows'), NEW j \in 1..Len(planRows'),
                        planRows'[i].key = planRows'[j].key
                 PROVE  i = j
        BY DEF KeysAreUnique
    <3>1. i \in 1..Len(planRows) \/ i = Len(planRows) + 1
        BY <2>3, <2>5
    <3>2. j \in 1..Len(planRows) \/ j = Len(planRows) + 1
        BY <2>3, <2>5
    <3>3. \A l \in 1..Len(planRows) : planRows'[l].key # v.key
        BY <1>4, <2>2, <2>5 DEF KeyIsUnique
    <3> QED
        BY <2>5, <3>1, <3>2, <3>3 DEF DialogInv, KeysAreUnique
  <2> QED
      BY <1>2, <2>8, <2>9, <2>10, <2>11, NoNewUses DEF DialogInv
<1> QED
    BY <1>3, <1>4

LEMMA ServeKeeps ==
    ASSUME DialogInv, NEW r \in requests, RefuseRequest(r) \/ ServeRead(r)
    PROVE  DialogInv'
<1>1. r \in DialogCalls
    BY DialogKeysTypes
<1>2. PICK step \in {"refused", "answered"} :
          /\ With(r, [r EXCEPT !.step = step])
          /\ step = "answered" => r.kind # "plan"
    BY DEF RefuseRequest, ServeRead
<1> DEFINE new == [r EXCEPT !.step = step]
<1>3. /\ new \in DialogCalls /\ new.kind = r.kind /\ new.key = r.key /\ new.epoch = r.epoch
      /\ new.id = r.id /\ new.step = step
    BY <1>1 DEF DialogCalls, CallSteps
<1>4. NamesPlan(new) => IsPlan(new.id)
    BY <1>2, <1>3 DEF NamesPlan, DialogInv, PlansExist
<1>5. UNCHANGED <<form, requestKey, shown, box, busy, planRows, recent, dlg>>
    BY DEF RefuseRequest, ServeRead
<1> HIDE DEF new
<1>6. With(r, new)
    BY <1>2 DEF new
<1> QED
    BY <1>3, <1>4, <1>5, <1>6, CallKeeps

\* A plan is applied, or expires: it stays the plan of its key and form.
LEMMA ApplyKeeps ==
    ASSUME DialogInv, NEW r \in requests, ApplyRequest(r)
    PROVE  DialogInv'
<1>1. r \in DialogCalls /\ r.kind = "apply" /\ r.id \in 1..Len(planRows)
    BY DialogKeysTypes DEF ApplyRequest, DialogInv, PlansExist, NamesPlan, IsPlan
<1>2. UNCHANGED <<form, requestKey, shown, box, busy, recent, dlg>>
    BY DEF ApplyRequest
<1>3. PICK step \in {"refused", "answered"} : With(r, [r EXCEPT !.step = step])
    BY DEF ApplyRequest
<1> DEFINE new == [r EXCEPT !.step = step]
<1>4. /\ new \in DialogCalls /\ new.kind = r.kind /\ new.key = r.key /\ new.epoch = r.epoch
      /\ new.id = r.id
    BY <1>1 DEF DialogCalls, CallSteps
<1>5. With(r, new)
    BY <1>3
<1> HIDE DEF new
<1>6. CASE UNCHANGED planRows
  <2>1. IsPlan(new.id)
      BY <1>1, <1>4 DEF IsPlan
  <2> QED
      BY <1>2, <1>4, <1>5, <1>6, <2>1, CallKeeps
<1>7. CASE \E s \in RowStatuses : planRows' = [planRows EXCEPT ![r.id].status = s]
  <2>1. PICK s \in RowStatuses : planRows' = [planRows EXCEPT ![r.id].status = s]
      BY <1>7
  <2>2. planRows[r.id] \in PlanRowStates
      BY <1>1, DialogKeysTypes
  <2> DEFINE v == [planRows[r.id] EXCEPT !.status = s]
  <2>3. v \in PlanRowStates /\ v.key = planRows[r.id].key /\ v.epoch = planRows[r.id].epoch
      BY <2>2 DEF PlanRowStates
  <2>4. planRows' = [planRows EXCEPT ![r.id] = v]
      BY <2>1
  <2> HIDE DEF v
  <2> QED
    <3>1. requests' = (requests \ {r}) \cup {new}
        BY <1>5 DEF With
    <3>2. requests' \subseteq DialogCalls
        BY <1>4, <3>1, DialogKeysTypes
    <3>3. \A q \in requests' : NamesPlan(q) => IsPlan(q.id)
        BY <1>1, <1>4, <3>1 DEF DialogInv, PlansExist, IsPlan
    <3>4. \A q \in requests' : \E p \in requests :
              p.kind = q.kind /\ p.key = q.key /\ p.epoch = q.epoch
        BY <1>4, <3>1
    <3> QED
        BY <1>1, <1>2, <2>3, <2>4, <3>2, <3>3, <3>4, RowMoves
<1>8. planRows[r.id].status \in RowStatuses
    BY <1>1, DialogKeysTypes DEF PlanRowStates
<1> QED
    BY <1>6, <1>7, <1>8 DEF ApplyRequest, RowStatuses

LEMMA ExpiryKeeps ==
    ASSUME DialogInv, NEW i \in 1..Len(planRows), PlanExpires(i)
    PROVE  DialogInv'
<1> DEFINE v == [planRows[i] EXCEPT !.expired = TRUE]
<1>1. planRows[i] \in PlanRowStates
    BY DialogKeysTypes
<1>2. v \in PlanRowStates /\ v.key = planRows[i].key /\ v.epoch = planRows[i].epoch
    BY <1>1 DEF PlanRowStates
<1>3. planRows' = [planRows EXCEPT ![i] = v]
      /\ UNCHANGED <<form, requestKey, shown, box, busy, requests, recent, dlg>>
    BY DEF PlanExpires
<1>4. requests \subseteq DialogCalls /\ \A q \in requests : NamesPlan(q) => IsPlan(q.id)
    BY DEF DialogInv, DialogTypes, PlansExist
<1> HIDE DEF v
<1> QED
    BY <1>2, <1>3, <1>4, RowMoves

\* An answer is shown: a plan that exists, as its row is.
LEMMA SettleKeeps ==
    ASSUME DialogInv, NEW r \in requests, Settle(r) \/ FailRequest(r)
    PROVE  DialogInv'
<1>1. /\ requests' = requests \ {r} /\ busy' = FALSE
      /\ UNCHANGED <<form, requestKey, box, planRows, dlg>>
    BY DEF Settle, FailRequest
<1>2. \A i : IsPlan(i) => View(i) \in Views /\ View(i).id = i
    BY DialogKeysTypes DEF IsPlan, View, Views, PlanRowStates
<1>3. /\ shown' \in Views /\ (shown'.id # 0 => IsPlan(shown'.id))
      /\ recent' \subseteq Views /\ \A v \in recent' : IsPlan(v.id)
  <2>1. /\ shown \in Views /\ (shown.id # 0 => IsPlan(shown.id))
        /\ recent \subseteq Views /\ \A v \in recent : IsPlan(v.id)
      BY DEF DialogInv, DialogTypes, PlansExist
  <2>2. CASE FailRequest(r)
      BY <2>1, <2>2 DEF FailRequest
  <2>3. CASE Settle(r) /\ r.kind = "load"
    <3>1. recent' = {View(i) : i \in 1..Len(planRows)} /\ shown' = shown
        BY <2>3 DEF Settle
    <3> QED
        BY <1>2, <2>1, <3>1 DEF IsPlan
  <2>4. CASE Settle(r) /\ r.kind # "load"
    <3>1. IsPlan(r.id)
        BY <2>4, DialogKeysTypes
        DEF Settle, DialogInv, PlansExist, NamesPlan, DialogCalls, CallKinds
    <3>2. shown' = View(r.id) /\ recent' = recent
        BY <2>4 DEF Settle
    <3> QED
        BY <1>2, <2>1, <3>1, <3>2
  <2> QED
      BY <2>2, <2>3, <2>4
<1>4. DialogTypes'
    BY <1>1, <1>3 DEF DialogInv, DialogTypes
<1>5. PlansExist'
    BY <1>1, <1>3 DEF DialogInv, PlansExist, NamesPlan, IsPlan
<1>6. KeysAreUnique'
    BY <1>1 DEF DialogInv, KeysAreUnique
<1>7. \A k, e \in Nat : Used(k, e)' => Used(k, e)
    BY <1>1 DEF Used
<1> QED
    BY <1>1, <1>4, <1>5, <1>6, <1>7, NoNewUses DEF DialogInv

\* The user types, ticks, or takes up a plan of those listed.
LEMMA LookKeeps ==
    ASSUME DialogInv, TypeName \/ TickExposure \/ \E v \in recent : PickRecent(v)
    PROVE  DialogInv'
<1>1. UNCHANGED <<form, requestKey, busy, requests, planRows, recent>>
    BY DEF TypeName, TickExposure, PickRecent
<1>2. /\ shown \in Views /\ (shown.id # 0 => IsPlan(shown.id)) /\ box \in Boxes /\ dlg \in Histories
      /\ busy \in BOOLEAN /\ recent \subseteq Views /\ \A v \in recent : IsPlan(v.id)
    BY DEF DialogInv, DialogTypes, PlansExist
<1>3. box' \in Boxes
  <2>1. CASE TypeName
    <3>1. planRows[shown.id].what \in Choices
        BY <1>2, <2>1, DialogKeysTypes DEF TypeName, IsPlan, PlanRowStates
    <3> QED
        BY <1>2, <2>1, <3>1 DEF TypeName, Boxes
  <2>2. CASE TickExposure
      BY <1>2, <2>2 DEF TickExposure, Boxes
  <2>3. CASE \E v \in recent : PickRecent(v)
      BY <1>2, <2>3 DEF PickRecent
  <2> QED
      BY <2>1, <2>2, <2>3
<1>4. shown' \in Views /\ (shown'.id # 0 => IsPlan(shown'.id))
    BY <1>2 DEF TypeName, TickExposure, PickRecent
<1>5. dlg' \in Histories /\ dlg'.keys = dlg.keys /\ dlg'.epoch = dlg.epoch
  <2>1. CASE dlg' = dlg
      BY <1>2, <2>1
  <2>2. CASE dlg' = [dlg EXCEPT !.steps = dlg.steps + 1]
    <3>1. dlg.steps + 1 \in Nat
        BY DialogKeysTypes
    <3> QED
        BY <2>2, <3>1, HistoryMoves
  <2> QED
      BY <2>1, <2>2 DEF TypeName, TickExposure, PickRecent
<1> QED
    BY <1>1, <1>2, <1>3, <1>4, <1>5, ScreenKeeps

-----------------------------------------------------------------------------
(* CreateDialog: the theorems.                                             *)

LEMMA DialogInvInit == DialogInit => DialogInv
<1> SUFFICES ASSUME DialogInit PROVE DialogInv
    OBVIOUS
<1> USE DEF DialogInit
<1>1. DialogTypes
  <2>1. TheForm \in Views /\ EmptyBox \in Boxes
      BY DEF Views, TheForm, Boxes, EmptyBox
  <2>2. dlg \in Histories
      BY DEF Histories
  <2>3. planRows \in Seq(PlanRowStates)
      OBVIOUS
  <2> QED
      BY <2>1, <2>2, <2>3 DEF DialogTypes
<1>2. PlansExist
    BY DEF PlansExist, TheForm
<1>3. \A k, e : ~Used(k, e)
    BY DEF Used
<1>4. OneKeyPerForm /\ KeysAreUnique
    BY <1>3 DEF OneKeyPerForm, KeysAreUnique
<1> QED
    BY <1>1, <1>2, <1>4 DEF DialogInv

LEMMA DialogInvStep == DialogInv /\ [DialogNext]_dialogVars => DialogInv'
<1> SUFFICES ASSUME DialogInv, [DialogNext]_dialogVars PROVE DialogInv'
    OBVIOUS
<1>1. CASE OpenDialog \/ ConfirmPlan \/ RefreshPlan
    BY <1>1, SendKeeps
<1>2. CASE BackToForm \/ \E c \in Choices : ChangeForm(c)
    BY <1>2, NewFormKeeps
<1>3. CASE SubmitForm
    BY <1>3, SubmitFormKeeps
<1>4. CASE TypeName \/ TickExposure \/ \E v \in recent : PickRecent(v)
    BY <1>4, LookKeeps
<1>5. ASSUME NEW r \in requests, LookForKey(r) PROVE DialogInv'
    BY <1>5, LookForKeyKeeps
<1>6. ASSUME NEW r \in requests, InsertPlan(r) PROVE DialogInv'
    BY <1>6, InsertPlanKeeps
<1>7. ASSUME NEW r \in requests, RefuseRequest(r) \/ ServeRead(r) PROVE DialogInv'
    BY <1>7, ServeKeeps
<1>8. ASSUME NEW r \in requests, ApplyRequest(r) PROVE DialogInv'
    BY <1>8, ApplyKeeps
<1>9. ASSUME NEW r \in requests, Settle(r) \/ FailRequest(r) PROVE DialogInv'
    BY <1>9, SettleKeeps
<1>10. ASSUME NEW i \in 1..Len(planRows), PlanExpires(i) PROVE DialogInv'
    BY <1>10, ExpiryKeeps
<1>11. CASE UNCHANGED dialogVars
  <2>1. /\ UNCHANGED <<form, requestKey, requests, planRows, shown, box, busy, recent, dlg>>
      BY <1>11 DEF dialogVars
  <2> QED
      BY <2>1, ScreenKeeps DEF DialogInv, DialogTypes, PlansExist
<1> QED
    BY <1>1, <1>2, <1>3, <1>4, <1>5, <1>6, <1>7, <1>8, <1>9, <1>10, <1>11 DEF DialogNext

LEMMA DialogInvAlways == DialogSpec => []DialogInv
BY DialogInvInit, DialogInvStep, PTL DEF DialogSpec

\* The types of the dialog, of its calls and of the plans (create-resource.tsx).
THEOREM DialogTypeCorrect == DialogSpec => []DialogTypes
<1>1. DialogInv => DialogTypes
    BY DEF DialogInv
<1> QED
    BY <1>1, DialogInvAlways, PTL

\* However often a form is submitted, by a user who got no answer or who opened
\* the dialog again while a call was in flight, it makes one plan as long as it
\* is not changed (submit() keeps the key, makePlan() and the unique index of
\* provisioning_plans keep one plan per key).
THEOREM OneFormOnePlan == DialogSpec => []OnePlanPerForm
<1>1. DialogInv => OnePlanPerForm
  <2> SUFFICES ASSUME DialogInv, NEW i \in 1..Len(planRows), NEW j \in 1..Len(planRows),
                      planRows[i].epoch = planRows[j].epoch
               PROVE  i = j
      BY DEF OnePlanPerForm
  <2>1. /\ planRows[i].key \in Nat /\ planRows[i].epoch \in Nat
        /\ planRows[j].key \in Nat /\ planRows[j].epoch \in Nat
      BY DialogKeysTypes DEF PlanRowStates
  <2>2. /\ Used(planRows[i].key, planRows[i].epoch)
        /\ Used(planRows[j].key, planRows[j].epoch)
      BY DEF Used
  <2>3. planRows[i].key = planRows[j].key
      BY <2>1, <2>2 DEF DialogInv, OneKeyPerForm
  <2> QED
      BY <2>3 DEF DialogInv, KeysAreUnique
<1> QED
    BY <1>1, DialogInvAlways, PTL

-----------------------------------------------------------------------------
(* Platform.                                                               *)

PlatformKeys == Keys \cup {NoKey}
Memories == [kind : {"none", "loaded", "unknown"}, key : PlatformKeys, at : Nat]
Lookups == [step : {"idle", "reading", "decrypting", "failing", "answered"}, key : PlatformKeys, at : Nat]

PlatformTypes ==
    /\ clock \in Nat /\ secretRow.key \in PlatformKeys
    /\ lastStored \in [PlatformKeys -> Nat]
    /\ cache \in [Processes -> Memories]
    /\ lookup \in [Callers -> Lookups]

\* The row holds what it holds now; no key was held later than now.
StoredUntilNow ==
    /\ lastStored[secretRow.key] = clock
    /\ \A k \in PlatformKeys : lastStored[k] <= clock

\* What a process remembers, and what a lookup is about to remember, was stored
\* at the time it is remembered from, or later.
MemoryWasStored ==
    /\ \A p \in Processes : cache[p].kind = "loaded" => cache[p].at <= lastStored[cache[p].key]
    /\ \A c \in Callers : /\ lookup[c].at <= clock
                          /\ lookup[c].step = "decrypting" => lookup[c].at <= lastStored[lookup[c].key]

PlatformInv == PlatformTypes /\ StoredUntilNow /\ MemoryWasStored

LEMMA PlatformKnown ==
    ASSUME PlatformInv
    PROVE  /\ \A c \in Callers : ProcessOf[c] \in Processes /\ lookup[c] \in Lookups
           /\ \A p \in Processes : cache[p] \in Memories
           /\ \A k \in PlatformKeys : lastStored[k] \in Nat
           /\ NoCache \in Memories /\ NoCache.kind = "none"
           /\ NoLookup \in Lookups /\ NoLookup.step = "idle" /\ NoLookup.at = 0
           /\ NoRow.key = NoKey /\ NoKey \in PlatformKeys
BY PlatformAssumption
DEF PlatformInv, PlatformTypes, Memories, Lookups, NoCache, NoLookup, NoRow, PlatformKeys

\* Nothing is stored or removed, one process's memory and one lookup change.
LEMMA MemoryKeeps ==
    ASSUME PlatformInv, NEW p \in Processes, NEW c \in Callers, NEW memory \in Memories,
           NEW l \in Lookups,
           UNCHANGED <<secretRow, lastStored, clock>>,
           cache' = [cache EXCEPT ![p] = memory], lookup' = [lookup EXCEPT ![c] = l],
           memory.kind = "loaded" => memory.at <= lastStored[memory.key],
           l.at <= clock,
           l.step = "decrypting" => l.at <= lastStored[l.key]
    PROVE  PlatformInv'
<1>1. PlatformTypes'
    BY DEF PlatformInv, PlatformTypes
<1>2. StoredUntilNow'
    BY DEF PlatformInv, StoredUntilNow
<1>3. MemoryWasStored'
  <2>1. \A q \in Processes : cache'[q] = IF q = p THEN memory ELSE cache[q]
      BY DEF PlatformInv, PlatformTypes
  <2>2. \A d \in Callers : lookup'[d] = IF d = c THEN l ELSE lookup[d]
      BY DEF PlatformInv, PlatformTypes
  <2> QED
      BY <2>1, <2>2 DEF PlatformInv, MemoryWasStored
<1> QED
    BY <1>1, <1>2, <1>3 DEF PlatformInv

\* The identity stays as well: some lookups end, or a process forgets.
LEMMA MemoryShrinks ==
    ASSUME PlatformInv, UNCHANGED <<secretRow, lastStored, clock>>,
           cache' \in [Processes -> Memories], lookup' \in [Callers -> Lookups],
           \A p \in Processes : cache'[p] = cache[p] \/ cache'[p].kind # "loaded"
                                \/ (cache'[p].key = secretRow.key /\ cache'[p].at = clock),
           \A c \in Callers : lookup'[c] \in {lookup[c], NoLookup}
    PROVE  PlatformInv'
<1>1. PlatformTypes' /\ StoredUntilNow'
    BY DEF PlatformInv, PlatformTypes, StoredUntilNow
<1>2. ASSUME NEW p \in Processes, cache'[p].kind = "loaded"
      PROVE  cache'[p].at <= lastStored'[cache'[p].key]
    BY <1>2 DEF PlatformInv, MemoryWasStored, StoredUntilNow, PlatformTypes
<1>3. ASSUME NEW c \in Callers
      PROVE  /\ lookup'[c].at <= clock'
             /\ lookup'[c].step = "decrypting" => lookup'[c].at <= lastStored'[lookup'[c].key]
  <2>1. CASE lookup'[c] = lookup[c]
      BY <2>1 DEF PlatformInv, MemoryWasStored
  <2>2. CASE lookup'[c] = NoLookup
      BY <2>2, PlatformKnown DEF PlatformInv, PlatformTypes
  <2> QED
      BY <2>1, <2>2
<1> QED
    BY <1>1, <1>2, <1>3 DEF PlatformInv, MemoryWasStored

\* What was stored is stored later, or something else is.
LEMMA StoreKeeps ==
    ASSUME PlatformInv, NEW k \in PlatformKeys, NEW now \in {clock, clock + 1},
           clock' = now, secretRow'.key = k, lastStored' = [lastStored EXCEPT ![k] = now],
           cache' = cache, lookup' = lookup
    PROVE  PlatformInv'
<1>0. now \in Nat /\ now >= clock
    BY DEF PlatformInv, PlatformTypes
<1>1. /\ lastStored' \in [PlatformKeys -> Nat]
      /\ lastStored'[k] = now
      /\ \A j \in PlatformKeys : j # k => lastStored'[j] = lastStored[j]
    BY <1>0 DEF PlatformInv, PlatformTypes
<1>2. \A j \in PlatformKeys : lastStored[j] \in Nat /\ lastStored[j] <= clock /\ clock \in Nat
    BY DEF PlatformInv, PlatformTypes, StoredUntilNow
<1>3. PlatformTypes'
    BY <1>0, <1>1 DEF PlatformInv, PlatformTypes
<1>4. \A j \in PlatformKeys : lastStored'[j] <= now /\ lastStored'[j] >= lastStored[j]
    BY <1>0, <1>1, <1>2
<1>5. StoredUntilNow'
    BY <1>1, <1>4 DEF StoredUntilNow
<1>6. ASSUME NEW p \in Processes, cache[p].kind = "loaded"
      PROVE  cache[p].at <= lastStored'[cache[p].key]
  <2>1. cache[p].key \in PlatformKeys /\ cache[p].at \in Nat
      BY PlatformKnown DEF Memories
  <2>2. cache[p].at <= lastStored[cache[p].key]
      BY <1>6 DEF PlatformInv, MemoryWasStored
  <2>3. lastStored'[cache[p].key] \in Nat
      BY <1>1, <2>1
  <2> QED
      BY <1>0, <1>2, <1>4, <2>1, <2>2, <2>3
<1>7. ASSUME NEW c \in Callers
      PROVE  /\ lookup[c].at <= now
             /\ lookup[c].step = "decrypting" => lookup[c].at <= lastStored'[lookup[c].key]
  <2>1. lookup[c].key \in PlatformKeys /\ lookup[c].at \in Nat
      BY PlatformKnown DEF Lookups
  <2>2. /\ lookup[c].at <= clock
        /\ lookup[c].step = "decrypting" => lookup[c].at <= lastStored[lookup[c].key]
      BY DEF PlatformInv, MemoryWasStored
  <2>3. lastStored'[lookup[c].key] \in Nat
      BY <1>1, <2>1
  <2> QED
      BY <1>0, <1>2, <1>4, <2>1, <2>2, <2>3
<1> QED
    BY <1>3, <1>5, <1>6, <1>7 DEF PlatformInv, MemoryWasStored

\* A lookup's answer is remembered from the time the lookup began.
LEMMA AnswerKeeps ==
    ASSUME PlatformInv, NEW c \in Callers, NEW kind \in {"loaded", "unknown"},
           NEW key \in PlatformKeys, Answer(c, kind, key),
           kind = "loaded" => lookup[c].at <= lastStored[key],
           UNCHANGED <<secretRow, lastStored, clock>>
    PROVE  PlatformInv'
<1> DEFINE memory == [kind |-> kind, key |-> key, at |-> lookup[c].at]
           l == [lookup[c] EXCEPT !.step = "answered", !.key = key]
<1>1. lookup[c] \in Lookups /\ ProcessOf[c] \in Processes
    BY PlatformKnown
<1>2. memory \in Memories /\ memory.kind = kind /\ memory.key = key /\ memory.at = lookup[c].at
    BY <1>1 DEF Memories, Lookups
<1>3. l \in Lookups /\ l.step = "answered" /\ l.at = lookup[c].at
    BY <1>1 DEF Lookups
<1>4. cache' = [cache EXCEPT ![ProcessOf[c]] = memory]
    BY DEF Answer
<1>5. lookup' = [lookup EXCEPT ![c] = l]
  <2>1. lookup' = [[lookup EXCEPT ![c].step = "answered"] EXCEPT ![c].key = key]
      BY DEF Answer
  <2> DEFINE first == [lookup EXCEPT ![c].step = "answered"]
  <2>2. first \in [Callers -> Lookups] /\ first[c] = [lookup[c] EXCEPT !.step = "answered"]
      BY <1>1 DEF PlatformInv, PlatformTypes, Lookups
  <2>3. \A d \in Callers : d # c => first[d] = lookup[d]
      BY DEF PlatformInv, PlatformTypes
  <2> HIDE DEF first
  <2>4. [first EXCEPT ![c].key = key] = [first EXCEPT ![c] = [first[c] EXCEPT !.key = key]]
      BY <2>2
  <2>5. [first[c] EXCEPT !.key = key] = l
      BY <2>2
  <2>6. [first EXCEPT ![c] = l] = [lookup EXCEPT ![c] = l]
      BY <2>2, <2>3 DEF PlatformInv, PlatformTypes
  <2> QED
      BY <2>1, <2>4, <2>5, <2>6 DEF first
<1>6. lookup[c].at <= clock
    BY DEF PlatformInv, MemoryWasStored
<1> HIDE DEF memory, l
<1> QED
    BY <1>1, <1>2, <1>3, <1>4, <1>5, <1>6, MemoryKeeps

LEMMA ReadRowKeeps ==
    ASSUME PlatformInv, NEW c \in Callers, ReadRow(c)
    PROVE  PlatformInv'
<1>1. /\ UNCHANGED <<secretRow, lastStored, clock>>
      /\ secretRow.key \in PlatformKeys /\ lastStored[secretRow.key] = clock
      /\ lookup[c].at <= clock
    BY DEF ReadRow, PlatformInv, PlatformTypes, StoredUntilNow, MemoryWasStored
<1>2. CASE secretRow.key = NoKey
    BY <1>1, <1>2, AnswerKeeps DEF ReadRow
<1>3. CASE secretRow.key # NoKey
  <2>1. lookup[c] \in Lookups /\ ProcessOf[c] \in Processes
      BY PlatformKnown
  <2>2. PICK step \in {"decrypting", "failing"} :
            lookup' = [lookup EXCEPT ![c].step = step, ![c].key = secretRow.key]
      BY <1>3 DEF ReadRow
  <2> DEFINE first == [lookup EXCEPT ![c].step = step]
  <2>3. lookup' = [first EXCEPT ![c].key = secretRow.key]
      BY <2>2
  <2>4. /\ first \in [Callers -> Lookups]
        /\ first[c].at = lookup[c].at
        /\ \A d \in Callers : d # c => first[d] = lookup[d]
      BY <2>1 DEF PlatformInv, PlatformTypes, Lookups
  <2> HIDE DEF first
  <2>5. /\ lookup' \in [Callers -> Lookups]
        /\ lookup'[c].at = lookup[c].at /\ lookup'[c].key = secretRow.key
        /\ \A d \in Callers : d # c => lookup'[d] = lookup[d]
      BY <1>1, <2>3, <2>4 DEF Lookups
  <2>6. cache' = cache
      BY <1>3 DEF ReadRow
  <2>7. PlatformTypes' /\ StoredUntilNow'
      BY <1>1, <2>5, <2>6 DEF PlatformInv, PlatformTypes, StoredUntilNow
  <2>8. MemoryWasStored'
      BY <1>1, <2>5, <2>6 DEF PlatformInv, MemoryWasStored
  <2> QED
      BY <2>7, <2>8 DEF PlatformInv
<1> QED
    BY <1>2, <1>3

LEMMA LookupKeeps ==
    ASSUME PlatformInv, NEW c \in Callers, BeginLookup(c) \/ Decrypted(c) \/ LookupFails(c)
    PROVE  PlatformInv'
<1>1. UNCHANGED <<secretRow, lastStored, clock>>
    BY DEF BeginLookup, Decrypted, LookupFails
<1>2. lookup[c] \in Lookups /\ ProcessOf[c] \in Processes /\ NoKey \in PlatformKeys
    BY PlatformKnown
<1>3. CASE Decrypted(c)
  <2>1. lookup[c].at <= lastStored[lookup[c].key] /\ lookup[c].key \in PlatformKeys
      BY <1>2, <1>3 DEF Decrypted, PlatformInv, MemoryWasStored, Lookups
  <2> QED
      BY <1>1, <1>3, <2>1, AnswerKeeps DEF Decrypted
<1>4. CASE LookupFails(c)
    BY <1>1, <1>2, <1>4, AnswerKeeps DEF LookupFails
<1>5. CASE BeginLookup(c)
  <2> DEFINE p == ProcessOf[c]
             l == IF Remembered(p) THEN [step |-> "answered", key |-> cache[p].key, at |-> clock]
                                   ELSE [step |-> "reading", key |-> NoKey, at |-> clock]
  <2>1. lookup' = [lookup EXCEPT ![c] = l] /\ cache' = cache
      BY <1>5 DEF BeginLookup
  <2>2. cache[p] \in Memories /\ clock \in Nat
      BY <1>2, PlatformKnown DEF PlatformInv, PlatformTypes
  <2>3. l \in Lookups /\ l.step # "decrypting" /\ l.at = clock
      BY <1>2, <2>2 DEF Lookups, Memories
  <2>4. cache' = [cache EXCEPT ![p] = cache[p]]
      BY <1>2, <2>1 DEF PlatformInv, PlatformTypes
  <2>5. cache[p].kind = "loaded" => cache[p].at <= lastStored[cache[p].key]
      BY <1>2 DEF PlatformInv, MemoryWasStored
  <2>6. p \in Processes
      BY <1>2
  <2> HIDE DEF l, p
  <2>7. l.at <= clock
      BY <2>2, <2>3
  <2> QED
      BY <1>1, <2>1, <2>2, <2>3, <2>4, <2>5, <2>6, <2>7, MemoryKeeps
<1> QED
    BY <1>3, <1>4, <1>5

LEMMA StoringKeeps ==
    ASSUME PlatformInv,
           \/ PlatformTick
           \/ \E p \in Processes : ClearCredentials(p) \/ \E k \in Keys : SaveCredentials(p, k)
    PROVE  PlatformInv'
<1>1. clock \in Nat /\ secretRow.key \in PlatformKeys
    BY DEF PlatformInv, PlatformTypes
<1>2. CASE PlatformTick
  <2>1. /\ secretRow'.key = secretRow.key /\ clock' = clock + 1
        /\ lastStored' = [lastStored EXCEPT ![secretRow.key] = clock + 1]
        /\ cache' = cache /\ lookup' = lookup
      BY <1>2 DEF PlatformTick
  <2> QED
      BY <1>1, <2>1, StoreKeeps
<1>3. ASSUME NEW p \in Processes, NEW k \in Keys, SaveCredentials(p, k) PROVE PlatformInv'
  <2>1. /\ secretRow'.key = k /\ lastStored' = [lastStored EXCEPT ![k] = clock]
        /\ clock' = clock /\ cache' = cache /\ lookup' = lookup
      BY <1>3 DEF SaveCredentials, Store, Encrypt
  <2>2. k \in PlatformKeys
      BY DEF PlatformKeys
  <2> QED
      BY <1>1, <2>1, <2>2, StoreKeeps
<1>4. ASSUME NEW p \in Processes, ClearCredentials(p) PROVE PlatformInv'
  <2>1. /\ secretRow'.key = NoKey /\ lastStored' = [lastStored EXCEPT ![NoKey] = clock]
        /\ clock' = clock /\ cache' = cache /\ lookup' = lookup
      BY <1>4, PlatformKnown DEF ClearCredentials, Store
  <2> QED
      BY <1>1, <2>1, PlatformKnown, StoreKeeps
<1> QED
    BY <1>2, <1>3, <1>4

\* A process forgets, or starts and remembers the row as it is; what else
\* happens leaves memory alone or uses an answer up.
LEMMA ForgettingKeeps ==
    ASSUME PlatformInv,
           \/ InvalidateCache \/ SyncHasRegion \/ AssumeForSync \/ LabelSync
           \/ \E c \in Callers : UseAnswer(c) \/ BeginSync(c)
           \/ \E p \in Processes, asks \in Providers : BootProcess(p, asks)
           \/ \E t \in Things, ok \in BOOLEAN : CollectThing(t, ok)
           \/ UNCHANGED platformVars
    PROVE  PlatformInv'
<1>1. UNCHANGED <<secretRow, lastStored, clock>>
    BY DEF InvalidateCache, SyncHasRegion, AssumeForSync, LabelSync, UseAnswer, BeginSync,
           BootProcess, CollectThing, platformVars
<1>2. /\ cache \in [Processes -> Memories] /\ lookup \in [Callers -> Lookups]
      /\ clock \in Nat /\ secretRow.key \in PlatformKeys
    BY DEF PlatformInv, PlatformTypes
<1>3. CASE InvalidateCache
  <2>1. cache' = [cache EXCEPT ![saving.process] = NoCache] /\ lookup' = lookup
      BY <1>3 DEF InvalidateCache
  <2> QED
      BY <1>1, <1>2, <2>1, PlatformKnown, MemoryShrinks
<1>4. CASE \E p \in Processes, asks \in Providers : BootProcess(p, asks)
  <2>1. PICK p \in Processes, asks \in Providers : BootProcess(p, asks)
      BY <1>4
  <2> DEFINE opens == Decrypts(asks, secretRow, SecretContext)
             kind == IF secretRow.key = NoKey \/ opens THEN "loaded" ELSE "unknown"
             key == IF opens THEN secretRow.key ELSE NoKey
             memory == [kind |-> kind, key |-> key, at |-> clock]
  <2>2. /\ cache' = [cache EXCEPT ![p] = memory]
        /\ lookup' = [c \in Callers |-> IF ProcessOf[c] = p THEN NoLookup ELSE lookup[c]]
      BY <2>1 DEF BootProcess
  <2>3. /\ kind \in {"loaded", "unknown"} /\ key \in PlatformKeys
        /\ kind = "loaded" => key = secretRow.key
      BY <1>2, PlatformKnown
  <2> HIDE DEF kind, key
  <2>4. memory \in Memories /\ memory.kind = kind /\ memory.key = key /\ memory.at = clock
      BY <1>2, <2>3 DEF Memories
  <2> HIDE DEF memory
  <2>5. cache' \in [Processes -> Memories]
      BY <1>2, <2>2, <2>4
  <2>6. lookup' \in [Callers -> Lookups] /\ \A c \in Callers : lookup'[c] \in {lookup[c], NoLookup}
      BY <1>2, <2>2, PlatformKnown
  <2>7. \A q \in Processes : cache'[q] = IF q = p THEN memory ELSE cache[q]
      BY <1>2, <2>2
  <2> QED
      BY <1>1, <2>3, <2>4, <2>5, <2>6, <2>7, MemoryShrinks
<1>5. CASE cache' = cache /\ lookup' = lookup
    BY <1>1, <1>2, <1>5, MemoryShrinks
<1>6. CASE cache' = cache /\ \E c : lookup' = [lookup EXCEPT ![c] = NoLookup]
    BY <1>1, <1>2, <1>6, PlatformKnown, MemoryShrinks
<1> QED
    BY <1>3, <1>4, <1>5, <1>6
    DEF SyncHasRegion, AssumeForSync, LabelSync, UseAnswer, BeginSync, CollectThing, platformVars

LEMMA PlatformInvInit == PlatformInit => PlatformInv
<1> SUFFICES ASSUME PlatformInit PROVE PlatformInv
    OBVIOUS
<1>1. NoLookup \in Lookups /\ NoLookup.step = "idle" /\ NoLookup.at = 0
    BY DEF NoLookup, Lookups, PlatformKeys
<1>2. secretRow.key \in PlatformKeys
    BY DEF PlatformInit, NoRow, PlatformKeys
<1>3. /\ clock = 0 /\ lastStored = [k \in PlatformKeys |-> 0]
      /\ lookup = [c \in Callers |-> NoLookup]
    BY DEF PlatformInit, PlatformKeys
<1>4. ASSUME NEW p \in Processes PROVE cache[p] \in Memories /\ cache[p].at = 0
  <2>1. CASE secretRow.key = NoKey \/ Decrypts(provider[p], secretRow, SecretContext)
      BY <1>2, <2>1 DEF PlatformInit, Memories, PlatformKeys
  <2>2. CASE ~(secretRow.key = NoKey \/ Decrypts(provider[p], secretRow, SecretContext))
      BY <1>2, <2>2 DEF PlatformInit, Memories, PlatformKeys
  <2> QED
      BY <2>1, <2>2
<1>5. cache \in [Processes -> Memories]
  <2>1. cache = [p \in Processes |-> cache[p]]
      BY DEF PlatformInit
  <2> QED
      BY <1>4, <2>1
<1>6. PlatformTypes
    BY <1>1, <1>2, <1>3, <1>5 DEF PlatformTypes
<1>7. StoredUntilNow
    BY <1>2, <1>3 DEF StoredUntilNow
<1>8. MemoryWasStored
  <2>1. \A p \in Processes : cache[p].key \in PlatformKeys
      BY <1>4 DEF Memories
  <2> QED
      BY <1>1, <1>3, <1>4, <2>1 DEF MemoryWasStored
<1> QED
    BY <1>6, <1>7, <1>8 DEF PlatformInv

LEMMA PlatformInvStep == PlatformInv /\ [PlatformNext]_platformVars => PlatformInv'
<1> SUFFICES ASSUME PlatformInv, [PlatformNext]_platformVars PROVE PlatformInv'
    OBVIOUS
<1>1. ASSUME NEW c \in Callers, ReadRow(c) PROVE PlatformInv'
    BY <1>1, ReadRowKeeps
<1>2. ASSUME NEW c \in Callers, BeginLookup(c) \/ Decrypted(c) \/ LookupFails(c) PROVE PlatformInv'
    BY <1>2, LookupKeeps
<1>3. CASE \/ PlatformTick
           \/ \E p \in Processes : ClearCredentials(p) \/ \E k \in Keys : SaveCredentials(p, k)
    BY <1>3, StoringKeeps
<1>4. CASE \/ InvalidateCache \/ SyncHasRegion \/ AssumeForSync \/ LabelSync
           \/ \E c \in Callers : UseAnswer(c) \/ BeginSync(c)
           \/ \E p \in Processes, asks \in Providers : BootProcess(p, asks)
           \/ \E t \in Things, ok \in BOOLEAN : CollectThing(t, ok)
           \/ UNCHANGED platformVars
    BY <1>4, ForgettingKeeps
<1> QED
    BY <1>1, <1>2, <1>3, <1>4 DEF PlatformNext

LEMMA PlatformInvAlways == PlatformSpec => []PlatformInv
BY PlatformInvInit, PlatformInvStep, PTL DEF PlatformSpec

\* An identity answered from memory was the stored one less than the cache's
\* lifetime ago (loadPlatformIdentity() remembers from the time it began), for
\* any number of processes and lookups.
THEOREM MemoryStaysRecent == PlatformSpec => MemoryIsRecent
<1>1. PlatformInv /\ [PlatformNext]_platformVars =>
        [\A c \in Callers :
           (lookup[c].step = "idle" /\ lookup'[c].step = "answered")
              => lastStored[lookup'[c].key] + CacheTtl > clock]_platformVars
  <2> SUFFICES ASSUME PlatformInv, PlatformNext, NEW c \in Callers,
                      lookup[c].step = "idle", lookup'[c].step = "answered"
               PROVE  lastStored[lookup'[c].key] + CacheTtl > clock
      BY DEF platformVars
  <2>1. BeginLookup(c)
    <3>1. lookup \in [Callers -> Lookups] /\ NoLookup.step = "idle"
        BY PlatformKnown DEF PlatformInv, PlatformTypes
    <3>2. lookup'[c] # lookup[c] /\ lookup'[c] # NoLookup
        BY <3>1
    <3>3. ASSUME NEW d \in Callers, ReadRow(d) \/ Decrypted(d) \/ LookupFails(d) PROVE FALSE
      <4>1. lookup[d].step # "idle"
          BY <3>3 DEF ReadRow, Decrypted, LookupFails
      <4>2. d # c
          BY <4>1
      <4>3. lookup'[c] = lookup[c]
          BY <3>1, <3>3, <4>2 DEF ReadRow, Decrypted, LookupFails, Answer
      <4> QED
          BY <3>2, <4>3
    <3>4. ASSUME NEW d \in Callers, BeginLookup(d) PROVE d = c
        BY <3>1, <3>2, <3>4 DEF BeginLookup
    <3>5. CASE lookup' = lookup
        BY <3>2, <3>5
    <3>6. ASSUME NEW d, lookup' = [lookup EXCEPT ![d] = NoLookup] PROVE FALSE
        BY <3>1, <3>2, <3>6
    <3>7. ASSUME NEW p \in Processes, NEW asks \in Providers, BootProcess(p, asks) PROVE FALSE
        BY <3>2, <3>7 DEF BootProcess
    <3> QED
        BY <3>3, <3>4, <3>5, <3>6, <3>7
        DEF PlatformNext, PlatformTick, UseAnswer, BeginSync, SaveCredentials, ClearCredentials,
            InvalidateCache, SyncHasRegion, AssumeForSync, LabelSync, CollectThing
  <2> DEFINE p == ProcessOf[c]
  <2>2. p \in Processes /\ cache[p] \in Memories /\ lookup \in [Callers -> Lookups]
      BY PlatformKnown DEF PlatformInv, PlatformTypes
  <2>3. Remembered(p) /\ lookup'[c].key = cache[p].key
      BY <2>1, <2>2 DEF BeginLookup
  <2>4. cache[p].at <= lastStored[cache[p].key]
      BY <2>2, <2>3 DEF Remembered, PlatformInv, MemoryWasStored
  <2>5. cache[p].at \in Nat /\ clock \in Nat /\ lastStored[cache[p].key] \in Nat /\ CacheTtl \in Nat
      BY <2>2, PlatformKnown, PlatformAssumption DEF Memories, PlatformInv, PlatformTypes
  <2> QED
      BY <2>3, <2>4, <2>5 DEF Remembered
<1> QED
    BY <1>1, PlatformInvAlways, PTL DEF PlatformSpec, MemoryIsRecent

-----------------------------------------------------------------------------
(* ResourceEdit and ResourcePage: the invariant.                           *)

AllTags == UNION TagSets
Valued == [SettingNames(resKind) -> Settings]
PartlyValued == UNION {[N -> Settings] : N \in SUBSET SettingNames(resKind)}
ResourceStates == {"running", "stopped", "terminated"}
RowTagSets == SUBSET AllTags
Resources == [tags : RowTagSets, settings : Valued, state : ResourceStates]
RowValues == [tags : RowTagSets, settings : Valued,
              state : ResourceStates \cup {"pending", "stopping", "shutting-down"},
              how : [SettingNames(resKind) -> {"observed", "unread", "bare"}]]
AskValues == {a \in [what : {"tags", "settings", "action"}, tags : RowTagSets, settings : PartlyValued,
                     action : InstanceActions \cup {"none"}] : a.what = "action" => a.action # "none"}
EditCommands ==
    [do : {"untag"}, of : SUBSET TagKeys(AllTags)] \cup [do : {"tag", "replace"}, of : RowTagSets]
      \cup [do : {"set"}, of : SettingNames(resKind) \X Settings] \cup [do : {"act"}, of : InstanceActions]
EditStates ==
    {NoEdit} \cup [stage : {"sending"}, ask : AskValues, base : RowValues, todo : Seq(EditCommands)]

EditTypes ==
    /\ resKind \in EditKinds
    /\ row \in RowValues /\ cloud \in Resources /\ syncCopy \in RowValues \cup {NoSync}
    /\ edit \in [EditCalls -> EditStates]
    /\ editCount \in Nat

\* These were the resource's at some time.
WereSeen(tags, settings) ==
    tags \subseteq seenTags /\ \A n \in DOMAIN settings : <<n, settings[n]>> \in seenSettings

\* What a call asks for and has no command left for was the resource's.
TagIsLeft(todo, t) == \E i \in 1..Len(todo) : todo[i].do \in {"tag", "replace"} /\ t \in todo[i].of
SettingIsLeft(todo, s) == \E i \in 1..Len(todo) : todo[i].do = "set" /\ todo[i].of = s
RestIsLeft(e) ==
    /\ e.ask.what = "tags" =>
         \A t \in e.ask.tags : t \in seenTags \/ TagIsLeft(e.todo, t)
    /\ e.ask.what = "settings" =>
         \A n \in DOMAIN e.ask.settings : \/ <<n, e.ask.settings[n]>> \in seenSettings
                                          \/ SettingIsLeft(e.todo, <<n, e.ask.settings[n]>>)
    /\ WereSeen(e.base.tags, e.base.settings)

\* For a resource of a kind that gets commands.
EditInv ==
    /\ resKind # "other" /\ EditTypes
    /\ WereSeen(cloud.tags, cloud.settings)
    /\ WereSeen(row.tags, row.settings)
    /\ syncCopy # NoSync => WereSeen(syncCopy.tags, syncCopy.settings)
    /\ \A c \in EditCalls : edit[c].stage = "sending" => RestIsLeft(edit[c])

-----------------------------------------------------------------------------
(* ResourceEdit: lemmas.                                                   *)

LEMMA NamesOfSettings ==
    /\ SettingNames("instance") = {"type", "monitoring", "groups"}
    /\ SettingNames("bucket") = {"versioning", "encryption", "block"}
    /\ SettingNames("tagged") = {}
BY DEF SettingNames

LEMMA EditKnown ==
    ASSUME EditInv
    PROVE  /\ \A c \in EditCalls : edit[c] \in EditStates
           /\ \A c \in EditCalls : edit[c].stage = "sending" =>
                /\ edit[c].ask \in AskValues /\ edit[c].base \in RowValues
                /\ edit[c].todo \in Seq(EditCommands)
           /\ NoEdit \in EditStates /\ NoEdit.stage = "idle"
<1>1. NoEdit \in EditStates /\ NoEdit.stage = "idle"
    BY DEF EditStates, NoEdit
<1>2. \A c \in EditCalls : edit[c] \in EditStates
    BY DEF EditInv, EditTypes
<1> QED
    BY <1>1, <1>2 DEF EditStates

\* What was seen stays seen.
LEMMA SeenStays ==
    ASSUME seenTags \subseteq seenTags', seenSettings \subseteq seenSettings'
    PROVE  /\ \A tags, settings : WereSeen(tags, settings) => WereSeen(tags, settings)'
           /\ \A e : RestIsLeft(e) => RestIsLeft(e)'
<1>1. \A tags, settings : WereSeen(tags, settings) => WereSeen(tags, settings)'
    BY DEF WereSeen
<1>2. ASSUME NEW e, RestIsLeft(e) PROVE RestIsLeft(e)'
    BY <1>1, <1>2 DEF RestIsLeft, TagIsLeft, SettingIsLeft
<1> QED
    BY <1>1, <1>2

\* The resource changes, and everything else that is true stays true.
LEMMA BecomesKeeps ==
    ASSUME EditInv, NEW next \in Resources, CloudBecomes(next)
    PROVE  /\ seenTags \subseteq seenTags' /\ seenSettings \subseteq seenSettings'
           /\ cloud' \in Resources /\ WereSeen(cloud.tags, cloud.settings)'
           /\ next.tags \subseteq seenTags'
           /\ \A n \in SettingNames(resKind) : <<n, next.settings[n]>> \in seenSettings'
<1>1. DOMAIN next.settings = SettingNames(resKind)
    BY DEF Resources, Valued
<1> QED
    BY <1>1 DEF CloudBecomes, WereSeen

\* A row is written that shows what was; calls go on or end.
LEMMA EditKeeps ==
    ASSUME EditInv, UNCHANGED resKind,
           seenTags \subseteq seenTags', seenSettings \subseteq seenSettings',
           cloud' \in Resources, WereSeen(cloud.tags, cloud.settings)',
           row' \in RowValues, WereSeen(row.tags, row.settings)',
           syncCopy' \in RowValues \cup {NoSync},
           syncCopy' # NoSync => WereSeen(syncCopy.tags, syncCopy.settings)',
           edit' \in [EditCalls -> EditStates],
           \A c \in EditCalls : edit'[c].stage = "sending" => edit'[c] = edit[c] \/ RestIsLeft(edit[c])',
           editCount' \in Nat
    PROVE  EditInv'
<1>1. EditTypes'
    BY DEF EditInv, EditTypes, Resources, RowValues, EditStates, Valued, AskValues, EditCommands,
           PartlyValued
<1>2. ASSUME NEW c \in EditCalls, edit'[c].stage = "sending" PROVE RestIsLeft(edit[c])'
  <2>1. CASE edit'[c] = edit[c]
    <3>1. RestIsLeft(edit[c])
        BY <1>2, <2>1 DEF EditInv
    <3> DEFINE e == edit[c]
    <3>2. /\ e.ask.what = "tags" =>
                \A t \in e.ask.tags : t \in seenTags' \/ TagIsLeft(e.todo, t)
          /\ e.ask.what = "settings" =>
                \A n \in DOMAIN e.ask.settings : \/ <<n, e.ask.settings[n]>> \in seenSettings'
                                                 \/ SettingIsLeft(e.todo, <<n, e.ask.settings[n]>>)
        BY <3>1 DEF RestIsLeft
    <3>3. e.base.tags \subseteq seenTags'
          /\ \A n \in DOMAIN e.base.settings : <<n, e.base.settings[n]>> \in seenSettings'
        BY <3>1 DEF RestIsLeft, WereSeen
    <3>4. edit'[c] = e
        BY <2>1
    <3> HIDE DEF e
    <3>5. WereSeen(edit[c].base.tags, edit[c].base.settings)'
        BY <3>3, <3>4 DEF WereSeen
    <3>6. edit'[c].ask.what = "tags" =>
            \A t \in edit'[c].ask.tags : t \in seenTags' \/ TagIsLeft(edit'[c].todo, t)
        BY <3>2, <3>4
    <3>7. edit'[c].ask.what = "settings" =>
            \A n \in DOMAIN edit'[c].ask.settings :
                \/ <<n, edit'[c].ask.settings[n]>> \in seenSettings'
                \/ SettingIsLeft(edit'[c].todo, <<n, edit'[c].ask.settings[n]>>)
        BY <3>2, <3>4
    <3> QED
        BY <3>5, <3>6, <3>7 DEF RestIsLeft, TagIsLeft, SettingIsLeft
  <2> QED
      BY <1>2, <2>1
<1> QED
    BY <1>1, <1>2 DEF EditInv

-----------------------------------------------------------------------------
(* ResourceEdit: the steps.                                                *)

LEMMA LeftInBoth ==
    ASSUME NEW s \in Seq(EditCommands), NEW t \in Seq(EditCommands)
    PROVE  /\ \A x : TagIsLeft(s, x) \/ TagIsLeft(t, x) => TagIsLeft(s \o t, x)
           /\ \A x : SettingIsLeft(s, x) \/ SettingIsLeft(t, x) => SettingIsLeft(s \o t, x)
<1>1. /\ s \o t \in Seq(EditCommands) /\ Len(s \o t) = Len(s) + Len(t)
      /\ Len(s) \in Nat /\ Len(t) \in Nat
      /\ \A i \in 1..Len(s) : (s \o t)[i] = s[i]
      /\ \A i \in 1..Len(t) : (s \o t)[Len(s) + i] = t[i]
    OBVIOUS
<1>2. \A i \in 1..Len(s) : i \in 1..Len(s \o t)
    BY <1>1
<1>3. \A i \in 1..Len(t) : Len(s) + i \in 1..Len(s \o t)
    BY <1>1
<1> QED
    BY <1>1, <1>2, <1>3 DEF TagIsLeft, SettingIsLeft

\* The commands of a call bring about all that it asks for.
LEMMA CommandsAre ==
    ASSUME EditInv, NEW ask \in AskValues
    PROVE  LET todo == Commands(resKind, ask, row) IN
           /\ todo \in Seq(EditCommands)
           /\ ask.what = "tags" => \A t \in ask.tags : TagIsLeft(todo, t)
           /\ ask.what = "settings" =>
                \A n \in DOMAIN ask.settings : SettingIsLeft(todo, <<n, ask.settings[n]>>)
<1>1. row \in RowValues /\ resKind \in {"instance", "bucket", "tagged"}
    BY EditAssumption DEF EditInv, EditTypes
<1>2. CASE ask.what = "tags"
  <2> DEFINE gone == {t \in row.tags : t[1] \notin TagKeys(ask.tags)}
             removal == IF gone # {} THEN <<[do |-> "untag", of |-> TagKeys(gone)]>> ELSE <<>>
             setting == IF ask.tags # {} THEN <<[do |-> "tag", of |-> ask.tags]>> ELSE <<>>
             replacing == <<[do |-> "replace", of |-> ask.tags]>>
  <2>1. Commands(resKind, ask, row) = IF resKind = "bucket" THEN replacing ELSE removal \o setting
      BY <1>1, <1>2 DEF Commands, TagCommands
  <2>2. ask.tags \in RowTagSets /\ row.tags \in RowTagSets
      BY <1>1 DEF AskValues, RowValues
  <2>3. [do |-> "untag", of |-> TagKeys(gone)] \in EditCommands
      BY <2>2 DEF EditCommands, TagKeys, RowTagSets
  <2>4. [do |-> "tag", of |-> ask.tags] \in EditCommands /\ [do |-> "replace", of |-> ask.tags] \in EditCommands
      BY <2>2 DEF EditCommands
  <2>5. removal \in Seq(EditCommands) /\ setting \in Seq(EditCommands) /\ replacing \in Seq(EditCommands)
      BY <2>3, <2>4
  <2>6. \A t \in ask.tags : TagIsLeft(setting, t) /\ TagIsLeft(replacing, t)
      BY DEF TagIsLeft
  <2> HIDE DEF removal, setting, replacing
  <2>7. removal \o setting \in Seq(EditCommands)
      BY <2>5
  <2>8. \A t \in ask.tags : TagIsLeft(removal \o setting, t)
      BY <2>5, <2>6, LeftInBoth
  <2> QED
      BY <1>2, <2>1, <2>5, <2>6, <2>7, <2>8
<1>3. CASE ask.what = "settings"
  <2> DEFINE one(n) == IF n \in DOMAIN ask.settings
                       THEN <<[do |-> "set", of |-> <<n, ask.settings[n]>>]>> ELSE <<>>
  <2>1. DOMAIN ask.settings \subseteq SettingNames(resKind)
        /\ \A n \in DOMAIN ask.settings : ask.settings[n] \in Settings
      BY DEF AskValues, PartlyValued
  <2>2. ASSUME NEW n PROVE /\ one(n) \in Seq(EditCommands)
                           /\ n \in DOMAIN ask.settings => SettingIsLeft(one(n), <<n, ask.settings[n]>>)
    <3>1. CASE n \in DOMAIN ask.settings
      <4> DEFINE cmd == [do |-> "set", of |-> <<n, ask.settings[n]>>]
      <4>1. cmd \in EditCommands /\ cmd.do = "set" /\ cmd.of = <<n, ask.settings[n]>>
          BY <2>1, <3>1 DEF EditCommands
      <4>2. one(n) = <<cmd>>
          BY <3>1
      <4> HIDE DEF cmd, one
      <4> QED
          BY <4>1, <4>2 DEF SettingIsLeft
    <3>2. CASE n \notin DOMAIN ask.settings
        BY <3>2
    <3> QED
        BY <3>1, <3>2
  <2>3. ASSUME NEW a, NEW b, NEW d,
               Commands(resKind, ask, row) = one(a) \o one(b) \o one(d),
               SettingNames(resKind) = {a, b, d}
        PROVE  /\ Commands(resKind, ask, row) \in Seq(EditCommands)
               /\ \A n \in DOMAIN ask.settings :
                    SettingIsLeft(Commands(resKind, ask, row), <<n, ask.settings[n]>>)
    <3>1. one(a) \in Seq(EditCommands) /\ one(b) \in Seq(EditCommands) /\ one(d) \in Seq(EditCommands)
        BY <2>2
    <3> HIDE DEF one
    <3>2. one(a) \o one(b) \in Seq(EditCommands)
        BY <3>1
    <3>3. one(a) \o one(b) \o one(d) \in Seq(EditCommands)
        BY <3>1, <3>2
    <3>4. ASSUME NEW n \in DOMAIN ask.settings
          PROVE  SettingIsLeft(one(a) \o one(b) \o one(d), <<n, ask.settings[n]>>)
      <4>1. SettingIsLeft(one(n), <<n, ask.settings[n]>>) /\ n \in {a, b, d}
          BY <2>1, <2>2, <2>3
      <4> DEFINE s == <<n, ask.settings[n]>>
      <4> HIDE DEF s
      <4>2. CASE n = a
          BY <3>1, <3>2, <4>1, <4>2, LeftInBoth DEF s
      <4>3. CASE n = b
          BY <3>1, <3>2, <4>1, <4>3, LeftInBoth DEF s
      <4>4. CASE n = d
          BY <3>1, <3>2, <4>1, <4>4, LeftInBoth DEF s
      <4> QED
          BY <4>1, <4>2, <4>3, <4>4
    <3> QED
        BY <2>3, <3>3, <3>4
  <2>4. CASE resKind = "instance"
    <3>1. Commands(resKind, ask, row) = one("type") \o one("monitoring") \o one("groups")
        BY <1>3, <2>4 DEF Commands, SettingCommands
    <3> HIDE DEF one
    <3> QED
        BY <1>3, <2>3, <2>4, <3>1, NamesOfSettings
  <2>5. CASE resKind = "bucket"
    <3>1. Commands(resKind, ask, row) = one("versioning") \o one("encryption") \o one("block")
        BY <1>3, <2>5 DEF Commands, SettingCommands
    <3> HIDE DEF one
    <3> QED
        BY <1>3, <2>3, <2>5, <3>1, NamesOfSettings
  <2>6. CASE resKind = "tagged"
    <3>1. Commands(resKind, ask, row) = <<>>
        BY <1>3, <2>6 DEF Commands, SettingCommands
    <3>2. DOMAIN ask.settings = {}
        BY <2>1, <2>6, NamesOfSettings
    <3> QED
        BY <1>3, <3>1, <3>2
  <2> QED
      BY <1>1, <2>4, <2>5, <2>6
<1>4. CASE ask.what = "action"
  <2>1. Commands(resKind, ask, row) = <<[do |-> "act", of |-> ask.action]>>
      BY <1>4 DEF Commands
  <2>2. [do |-> "act", of |-> ask.action] \in EditCommands
      BY <1>4 DEF EditCommands, AskValues
  <2> QED
      BY <1>4, <2>1, <2>2
<1> QED
    BY <1>2, <1>3, <1>4 DEF AskValues

LEMMA StartEditKeeps ==
    ASSUME EditInv, NEW c \in EditCalls, NEW ask \in AskValues,
           StartEdit(c, ask)
    PROVE  EditInv'
<1> DEFINE todo == Commands(resKind, ask, row)
           e == [stage |-> "sending", ask |-> ask, base |-> row, todo |-> todo]
<1>1. /\ edit' = [edit EXCEPT ![c] = e] /\ editCount' = editCount + 1
      /\ UNCHANGED <<resKind, row, cloud, syncCopy, seenTags, seenSettings>>
    BY DEF StartEdit
<1>2. /\ todo \in Seq(EditCommands)
      /\ ask.what = "tags" => \A t \in ask.tags : TagIsLeft(todo, t)
      /\ ask.what = "settings" =>
           \A n \in DOMAIN ask.settings : SettingIsLeft(todo, <<n, ask.settings[n]>>)
    BY CommandsAre
<1> HIDE DEF todo
<1>3. row \in RowValues /\ WereSeen(row.tags, row.settings) /\ edit \in [EditCalls -> EditStates]
      /\ editCount \in Nat
    BY DEF EditInv, EditTypes
<1>4. e \in EditStates
    BY <1>2, <1>3 DEF EditStates
<1>5. /\ e.ask = ask /\ e.base = row /\ e.todo = todo
    OBVIOUS
<1> HIDE DEF e
<1>6. RestIsLeft(e)
    BY <1>2, <1>3, <1>5 DEF RestIsLeft
<1>7. edit' \in [EditCalls -> EditStates] /\ \A d \in EditCalls : edit'[d] = IF d = c THEN e ELSE edit[d]
    BY <1>1, <1>3, <1>4
<1>8. EditTypes'
    BY <1>1, <1>3, <1>7 DEF EditInv, EditTypes, Resources, RowValues, EditStates, Valued, AskValues,
       EditCommands, PartlyValued
<1>9. ASSUME NEW d \in EditCalls, edit'[d].stage = "sending" PROVE RestIsLeft(edit[d])'
  <2>1. RestIsLeft(edit'[d])
      BY <1>6, <1>7, <1>9 DEF EditInv
  <2> QED
      BY <1>1, <2>1 DEF RestIsLeft, TagIsLeft, SettingIsLeft, WereSeen
<1> QED
    BY <1>1, <1>8, <1>9 DEF EditInv, WereSeen

\* The row and the copy stay what was seen.
LEMMA ShownStays ==
    ASSUME EditInv, UNCHANGED <<resKind, row, syncCopy>>,
           seenTags \subseteq seenTags', seenSettings \subseteq seenSettings'
    PROVE  /\ row' \in RowValues /\ WereSeen(row.tags, row.settings)'
           /\ syncCopy' \in RowValues \cup {NoSync}
           /\ syncCopy' # NoSync => WereSeen(syncCopy.tags, syncCopy.settings)'
<1>1. row' \in RowValues /\ syncCopy' \in RowValues \cup {NoSync}
    BY DEF EditInv, EditTypes
<1>2. WereSeen(row.tags, row.settings)'
    BY DEF EditInv, WereSeen
<1>3. syncCopy' # NoSync => WereSeen(syncCopy.tags, syncCopy.settings)'
    BY DEF EditInv, WereSeen
<1> QED
    BY <1>1, <1>2, <1>3

LEMMA SettingIsSet ==
    ASSUME cloud \in Resources, NEW n \in SettingNames(resKind), NEW v \in Settings
    PROVE  /\ [cloud EXCEPT !.settings[n] = v] \in Resources
           /\ [cloud EXCEPT !.settings[n] = v].settings[n] = v
<1> DEFINE settings == [cloud.settings EXCEPT ![n] = v]
<1>1. settings \in Valued /\ settings[n] = v
    BY DEF Valued, Resources
<1>2. [cloud EXCEPT !.settings[n] = v] = [cloud EXCEPT !.settings = settings]
    OBVIOUS
<1> HIDE DEF settings
<1>3. /\ [cloud EXCEPT !.settings = settings] \in Resources
      /\ [cloud EXCEPT !.settings = settings].settings = settings
    BY <1>1 DEF Resources
<1> QED
    BY <1>1, <1>2, <1>3

\* What a command does to the resource.
LEMMA ObeyedIs ==
    ASSUME EditInv, NEW cmd \in EditCommands
    PROVE  /\ Obeyed(cmd) \in Resources
           /\ cmd.do \in {"tag", "replace"} => cmd.of \subseteq Obeyed(cmd).tags
           /\ cmd.do = "set" => /\ cmd.of = <<cmd.of[1], cmd.of[2]>>
                                /\ cmd.of[1] \in SettingNames(resKind)
                                /\ Obeyed(cmd).settings[cmd.of[1]] = cmd.of[2]
<1>1. cloud \in Resources /\ cloud.tags \in RowTagSets /\ cloud.settings \in Valued
    BY DEF EditInv, EditTypes, Resources
<1>2. CASE cmd.do \in {"tag", "replace", "untag"}
  <2>1. PICK tags \in RowTagSets :
            /\ Obeyed(cmd) = [cloud EXCEPT !.tags = tags]
            /\ cmd.do \in {"tag", "replace"} => cmd.of \subseteq tags
    <3>1. CASE cmd.do = "untag"
        BY <1>1, <3>1 DEF Obeyed, RowTagSets
    <3>2. CASE cmd.do = "tag"
      <4>1. cmd.of \in RowTagSets
          BY <3>2 DEF EditCommands
      <4> QED
          BY <1>1, <3>2, <4>1 DEF Obeyed, RowTagSets
    <3>3. CASE cmd.do = "replace"
      <4>1. cmd.of \in RowTagSets
          BY <3>3 DEF EditCommands
      <4> QED
          BY <1>1, <3>3, <4>1 DEF Obeyed, RowTagSets
    <3> QED
        BY <1>2, <3>1, <3>2, <3>3
  <2> QED
      BY <1>1, <1>2, <2>1 DEF Resources
<1>3. CASE cmd.do = "set"
  <2>1. PICK n \in SettingNames(resKind), v \in Settings : cmd.of = <<n, v>>
      BY <1>3 DEF EditCommands
  <2>2. Obeyed(cmd) = [cloud EXCEPT !.settings[n] = v]
      BY <1>3, <2>1 DEF Obeyed
  <2> QED
      BY <1>1, <1>3, <2>1, <2>2, SettingIsSet
<1>4. CASE cmd.do = "act"
  <2>1. Obeyed(cmd) = [cloud EXCEPT !.state = StateAfter(cmd.of, cloud.state)]
      BY <1>4 DEF Obeyed
  <2>2. StateAfter(cmd.of, cloud.state) \in ResourceStates
      BY <1>1 DEF StateAfter, Resources, ResourceStates
  <2> QED
      BY <1>1, <1>4, <2>1, <2>2 DEF Resources
<1> QED
    BY <1>2, <1>3, <1>4 DEF EditCommands

\* One command less is left: what it asked for is there.
LEMMA SendKeepsRest ==
    ASSUME EditInv, NEW c \in EditCalls, Send(c)
    PROVE  EditInv'
<1> DEFINE e == edit[c]
           next == Obeyed(Head(e.todo))
           left == [e EXCEPT !.todo = Tail(e.todo)]
<1>1. e \in EditStates /\ e.stage = "sending" /\ e.todo \in Seq(EditCommands) /\ e.todo # <<>>
    BY EditKnown DEF Send
<1>2. /\ Head(e.todo) \in EditCommands /\ Head(e.todo) = e.todo[1]
      /\ Tail(e.todo) \in Seq(EditCommands) /\ Len(Tail(e.todo)) = Len(e.todo) - 1
      /\ Len(e.todo) \in Nat \ {0}
      /\ \A i \in 1..Len(Tail(e.todo)) : Tail(e.todo)[i] = e.todo[i + 1]
    BY <1>1
<1>3. next \in Resources /\ CloudBecomes(next)
    BY <1>2, ObeyedIs DEF Send
<1>4. /\ seenTags \subseteq seenTags' /\ seenSettings \subseteq seenSettings'
      /\ cloud' \in Resources /\ WereSeen(cloud.tags, cloud.settings)'
      /\ next.tags \subseteq seenTags'
      /\ \A n \in SettingNames(resKind) : <<n, next.settings[n]>> \in seenSettings'
    BY <1>3, BecomesKeeps
<1>5. edit' = [edit EXCEPT ![c] = left] /\ UNCHANGED <<resKind, row, syncCopy, editCount>>
    BY DEF Send
<1>6. left \in EditStates /\ left.ask = e.ask /\ left.base = e.base /\ left.todo = Tail(e.todo)
  <2>1. e \in [stage : {"sending"}, ask : AskValues, base : RowValues, todo : Seq(EditCommands)]
      BY <1>1 DEF EditStates, NoEdit
  <2>2. left \in [stage : {"sending"}, ask : AskValues, base : RowValues, todo : Seq(EditCommands)]
      BY <1>2, <2>1
  <2> QED
      BY <2>1, <2>2 DEF EditStates
<1>7. RestIsLeft(e)
    BY <1>1 DEF EditInv
<1>8. ASSUME NEW t, TagIsLeft(e.todo, t) PROVE t \in seenTags' \/ TagIsLeft(Tail(e.todo), t)
  <2>1. PICK i \in 1..Len(e.todo) : e.todo[i].do \in {"tag", "replace"} /\ t \in e.todo[i].of
      BY <1>8 DEF TagIsLeft
  <2>2. CASE i = 1
    <3>1. Head(e.todo).of \subseteq next.tags
        BY <1>2, <2>1, <2>2, ObeyedIs
    <3> QED
        BY <1>2, <1>4, <2>1, <2>2, <3>1
  <2>3. CASE i # 1
    <3>1. i - 1 \in 1..Len(Tail(e.todo)) /\ Tail(e.todo)[i - 1] = e.todo[i]
        BY <1>2, <2>1, <2>3
    <3> QED
        BY <2>1, <3>1 DEF TagIsLeft
  <2> QED
      BY <2>2, <2>3
<1>9. ASSUME NEW s, SettingIsLeft(e.todo, s) PROVE s \in seenSettings' \/ SettingIsLeft(Tail(e.todo), s)
  <2>1. PICK i \in 1..Len(e.todo) : e.todo[i].do = "set" /\ e.todo[i].of = s
      BY <1>9 DEF SettingIsLeft
  <2>2. CASE i = 1
    <3>1. /\ s = <<s[1], s[2]>> /\ s[1] \in SettingNames(resKind) /\ next.settings[s[1]] = s[2]
        BY <1>2, <2>1, <2>2, ObeyedIs
    <3> QED
        BY <1>4, <3>1
  <2>3. CASE i # 1
    <3>1. i - 1 \in 1..Len(Tail(e.todo)) /\ Tail(e.todo)[i - 1] = e.todo[i]
        BY <1>2, <2>1, <2>3
    <3> QED
        BY <2>1, <3>1 DEF SettingIsLeft
  <2> QED
      BY <2>2, <2>3
<1>10. /\ left.ask.what = "tags" =>
            \A t \in left.ask.tags : t \in seenTags' \/ TagIsLeft(left.todo, t)
       /\ left.ask.what = "settings" =>
            \A n \in DOMAIN left.ask.settings : \/ <<n, left.ask.settings[n]>> \in seenSettings'
                                                \/ SettingIsLeft(left.todo, <<n, left.ask.settings[n]>>)
       /\ left.base.tags \subseteq seenTags'
       /\ \A n \in DOMAIN left.base.settings : <<n, left.base.settings[n]>> \in seenSettings'
  <2> HIDE DEF e, left, next
  <2>1. /\ e.base.tags \subseteq seenTags'
        /\ \A n \in DOMAIN e.base.settings : <<n, e.base.settings[n]>> \in seenSettings'
      BY <1>4, <1>7 DEF RestIsLeft, WereSeen
  <2>2. e.ask.what = "tags" =>
            \A t \in e.ask.tags : t \in seenTags' \/ TagIsLeft(Tail(e.todo), t)
      BY <1>4, <1>7, <1>8 DEF RestIsLeft
  <2>3. e.ask.what = "settings" =>
            \A n \in DOMAIN e.ask.settings : \/ <<n, e.ask.settings[n]>> \in seenSettings'
                                             \/ SettingIsLeft(Tail(e.todo), <<n, e.ask.settings[n]>>)
      BY <1>4, <1>7, <1>9 DEF RestIsLeft
  <2> QED
      BY <1>6, <2>1, <2>2, <2>3
<1>11. /\ edit' \in [EditCalls -> EditStates] /\ edit'[c] = left
       /\ \A d \in EditCalls : d # c => edit'[d] = edit[d]
    BY <1>5, <1>6 DEF EditInv, EditTypes
<1> HIDE DEF e, left, next
<1>12. RestIsLeft(edit[c])'
    BY <1>10, <1>11 DEF RestIsLeft, TagIsLeft, SettingIsLeft, WereSeen
<1> QED
    BY <1>4, <1>5, <1>11, <1>12, ShownStays, EditKeeps DEF EditInv, EditTypes

\* The call throws: what was sent stays.
LEMMA FailKeeps ==
    ASSUME EditInv, NEW c \in EditCalls, SendFails(c)
    PROVE  EditInv'
<1>1. edit' = [edit EXCEPT ![c] = NoEdit] /\ UNCHANGED <<resKind, row, syncCopy, editCount>>
    BY DEF SendFails
<1>2. /\ edit' \in [EditCalls -> EditStates]
      /\ \A d \in EditCalls : edit'[d] = IF d = c THEN NoEdit ELSE edit[d]
    BY <1>1, EditKnown DEF EditInv, EditTypes
<1>3. \A d \in EditCalls : edit'[d].stage = "sending" => edit'[d] = edit[d] \/ RestIsLeft(edit[d])'
    BY <1>2, EditKnown
<1>4. /\ seenTags \subseteq seenTags' /\ seenSettings \subseteq seenSettings'
      /\ cloud' \in Resources /\ WereSeen(cloud.tags, cloud.settings)'
  <2>1. CASE UNCHANGED <<cloud, seenTags, seenSettings>>
      BY <2>1 DEF EditInv, EditTypes, WereSeen
  <2>2. CASE CloudBecomes(Obeyed(Head(edit[c].todo)))
    <3>1. edit[c].todo \in Seq(EditCommands) /\ edit[c].todo # <<>>
        BY EditKnown DEF SendFails
    <3>2. Head(edit[c].todo) \in EditCommands
        BY <3>1
    <3>3. Obeyed(Head(edit[c].todo)) \in Resources
        BY <3>2, ObeyedIs
    <3> QED
        BY <2>2, <3>3, BecomesKeeps
  <2> QED
      BY <2>1, <2>2 DEF SendFails
<1> QED
    BY <1>1, <1>2, <1>3, <1>4, ShownStays, EditKeeps DEF EditInv, EditTypes

\* A call that has no command left writes what was the resource's: what it
\* asked for, and what it read.
LEMMA CommitKeeps ==
    ASSUME EditInv, NEW c \in EditCalls, Commit(c)
    PROVE  EditInv'
<1> DEFINE e == edit[c]
           ask == e.ask
<1>1. /\ e.stage = "sending" /\ e.todo = <<>> /\ ask \in AskValues /\ e.base \in RowValues
      /\ row \in RowValues
    BY EditKnown DEF Commit, MayCommit, EditInv, EditTypes
<1>2. edit' = [edit EXCEPT ![c] = NoEdit]
      /\ UNCHANGED <<resKind, cloud, syncCopy, seenTags, seenSettings, editCount>>
    BY DEF Commit
<1>3. /\ edit' \in [EditCalls -> EditStates]
      /\ \A d \in EditCalls : edit'[d] = IF d = c THEN NoEdit ELSE edit[d]
    BY <1>2, EditKnown DEF EditInv, EditTypes
<1>4. \A d \in EditCalls : edit'[d].stage = "sending" => edit'[d] = edit[d] \/ RestIsLeft(edit[d])'
    BY <1>3, EditKnown
<1>5. /\ ask.what = "tags" => ask.tags \subseteq seenTags
      /\ ask.what = "settings" =>
           \A n \in DOMAIN ask.settings : <<n, ask.settings[n]>> \in seenSettings
      /\ WereSeen(e.base.tags, e.base.settings)
    BY <1>1 DEF EditInv, RestIsLeft, TagIsLeft, SettingIsLeft
<1>6. row.tags \subseteq seenTags /\ \A n \in SettingNames(resKind) : <<n, row.settings[n]>> \in seenSettings
    BY <1>1 DEF EditInv, WereSeen, RowValues, Valued
<1>7. row' \in RowValues /\ row'.tags \subseteq seenTags
      /\ \A n \in SettingNames(resKind) : <<n, row'.settings[n]>> \in seenSettings
  <2>1. CASE ask.what = "tags"
    <3>1. row' = [row EXCEPT !.tags = ask.tags]
        BY <2>1 DEF Commit
    <3>2. ask.tags \in RowTagSets
        BY <1>1 DEF AskValues
    <3> QED
        BY <1>1, <1>5, <1>6, <2>1, <3>1, <3>2 DEF RowValues
  <2>2. CASE ask.what = "action"
    <3>1. row' = [row EXCEPT !.state = AssumedState(ask.action)]
        BY <2>2 DEF Commit
    <3>2. AssumedState(ask.action) \in {"pending", "stopping", "running", "shutting-down"}
        BY <1>1, <2>2 DEF AskValues, AssumedState, InstanceActions
    <3> QED
        BY <1>1, <1>6, <3>1, <3>2 DEF RowValues, ResourceStates
  <2>3. CASE ask.what = "settings"
    <3> DEFINE settings == [n \in SettingNames(resKind) |->
                              IF n \in DOMAIN ask.settings THEN ask.settings[n] ELSE e.base.settings[n]]
               how == [n \in SettingNames(resKind) |->
                         IF n \in DOMAIN ask.settings \cap Observable(resKind) THEN "bare" ELSE e.base.how[n]]
    <3>1. DOMAIN row.settings = SettingNames(resKind) /\ DOMAIN row.how = SettingNames(resKind)
        BY <1>1 DEF RowValues, Valued
    <3>2. row' = [row EXCEPT !.settings = settings, !.how = how]
        BY <2>3, <3>1 DEF Commit
    <3>3. \A n \in DOMAIN ask.settings : ask.settings[n] \in Settings
        BY <1>1 DEF AskValues, PartlyValued
    <3>4. settings \in Valued
        BY <1>1, <3>3 DEF RowValues, Valued
    <3>5. how \in [SettingNames(resKind) -> {"observed", "unread", "bare"}]
        BY <1>1 DEF RowValues
    <3>6. \A n \in SettingNames(resKind) : <<n, settings[n]>> \in seenSettings
        BY <1>1, <1>5, <2>3 DEF WereSeen, RowValues, Valued
    <3> HIDE DEF settings, how
    <3> DEFINE first == [row EXCEPT !.settings = settings]
    <3>7. first \in RowValues /\ first.settings = settings /\ first.tags = row.tags
        BY <1>1, <3>4 DEF RowValues
    <3>8. row' = [first EXCEPT !.how = how]
        BY <3>2
    <3> HIDE DEF first
    <3>9. row' \in RowValues /\ row'.settings = settings /\ row'.tags = row.tags
        BY <3>5, <3>7, <3>8 DEF RowValues
    <3> QED
        BY <1>6, <3>6, <3>9
  <2> QED
      BY <1>1, <2>1, <2>2, <2>3 DEF AskValues
<1>8. WereSeen(row.tags, row.settings)'
  <2>1. DOMAIN row'.settings = SettingNames(resKind)
      BY <1>7 DEF RowValues, Valued
  <2> QED
      BY <1>2, <1>7, <2>1 DEF WereSeen
<1>9. WereSeen(cloud.tags, cloud.settings)' /\ cloud' \in Resources
    BY <1>2 DEF EditInv, EditTypes, WereSeen
<1>10. /\ syncCopy' \in RowValues \cup {NoSync}
       /\ syncCopy' # NoSync => WereSeen(syncCopy.tags, syncCopy.settings)'
    BY <1>2 DEF EditInv, EditTypes, WereSeen
<1> HIDE DEF e, ask
<1> QED
    BY <1>2, <1>3, <1>4, <1>7, <1>8, <1>9, <1>10, EditKeeps DEF EditInv, EditTypes

\* The synchronisation reads the resource, and writes what it read; the owner
\* changes the resource at the console.
LEMMA OthersKeep ==
    ASSUME EditInv, CollectRow \/ PersistRow \/ ConsoleChanges
    PROVE  EditInv'
<1>1. /\ resKind' = resKind /\ edit' = edit /\ editCount' \in {editCount, editCount + 1}
      /\ edit \in [EditCalls -> EditStates] /\ editCount \in Nat
      /\ cloud \in Resources /\ row \in RowValues
    BY DEF CollectRow, PersistRow, ConsoleChanges, EditInv, EditTypes
<1>2. editCount' \in Nat
    BY <1>1
<1>3. /\ seenTags \subseteq seenTags' /\ seenSettings \subseteq seenSettings'
      /\ cloud' \in Resources /\ WereSeen(cloud.tags, cloud.settings)'
  <2>1. CASE CollectRow \/ PersistRow
      BY <2>1 DEF CollectRow, PersistRow, EditInv, EditTypes, WereSeen
  <2>2. CASE ConsoleChanges
    <3>1. PICK next \in Resources : CloudBecomes(next)
      <4>1. CASE \E T \in TagSets : CloudBecomes([cloud EXCEPT !.tags = T])
          BY <1>1, <4>1 DEF Resources, RowTagSets, AllTags
      <4>2. CASE \E n \in SettingNames(resKind), v \in Settings :
                   CloudBecomes([cloud EXCEPT !.settings[n] = v])
        <5>1. PICK n \in SettingNames(resKind), v \in Settings :
                   CloudBecomes([cloud EXCEPT !.settings[n] = v])
            BY <4>2
        <5>2. [cloud EXCEPT !.settings[n] = v] \in Resources
            BY <1>1, SettingIsSet
        <5> QED
            BY <5>1, <5>2
      <4> QED
          BY <2>2, <4>1, <4>2 DEF ConsoleChanges
    <3> QED
        BY <3>1, BecomesKeeps
  <2> QED
      BY <2>1, <2>2
<1>4. CASE ConsoleChanges
  <2>1. UNCHANGED <<row, syncCopy>>
      BY <1>4 DEF ConsoleChanges
  <2> QED
      BY <1>1, <1>2, <1>3, <2>1, ShownStays, EditKeeps
<1>5. CASE CollectRow
  <2>1. PICK unread : syncCopy' = RowOf(cloud, unread)
      BY <1>5 DEF CollectRow
  <2>2. UNCHANGED <<row, cloud, seenTags, seenSettings>>
      BY <1>5 DEF CollectRow
  <2>3. /\ RowOf(cloud, unread) \in RowValues
        /\ RowOf(cloud, unread).tags = cloud.tags /\ RowOf(cloud, unread).settings = cloud.settings
      BY <1>1 DEF RowOf, RowValues, Resources, Valued
  <2>4. WereSeen(syncCopy.tags, syncCopy.settings)'
      BY <1>3, <2>1, <2>2, <2>3 DEF WereSeen
  <2>5. WereSeen(row.tags, row.settings)'
      BY <2>2 DEF EditInv, WereSeen
  <2> QED
      BY <1>1, <1>2, <1>3, <2>1, <2>2, <2>3, <2>4, <2>5, EditKeeps
<1>6. CASE PersistRow
  <2>1. /\ syncCopy # NoSync /\ row' = syncCopy /\ syncCopy' = NoSync
        /\ UNCHANGED <<cloud, seenTags, seenSettings>>
      BY <1>6 DEF PersistRow
  <2>2. row' \in RowValues /\ WereSeen(row.tags, row.settings)'
      BY <2>1 DEF EditInv, EditTypes, WereSeen
  <2> QED
      BY <1>1, <1>2, <1>3, <2>1, <2>2, EditKeeps
<1> QED
    BY <1>4, <1>5, <1>6

LEMMA EditGoesOnKeeps ==
    ASSUME EditInv, EditGoesOn
    PROVE  EditInv'
BY SendKeepsRest, FailKeeps, CommitKeeps, OthersKeep DEF EditGoesOn

LEMMA EditStutters ==
    ASSUME EditInv, UNCHANGED editVars
    PROVE  EditInv'
<1>1. UNCHANGED <<resKind, row, cloud, edit, syncCopy, seenTags, seenSettings, editCount>>
    BY DEF editVars
<1>2. WereSeen(cloud.tags, cloud.settings)' /\ cloud' \in Resources /\ edit' \in [EditCalls -> EditStates]
    BY <1>1 DEF EditInv, EditTypes, WereSeen
<1> QED
    BY <1>1, <1>2, ShownStays, EditKeeps DEF EditInv, EditTypes

LEMMA EditInvInit == EditInit /\ resKind # "other" => EditInv
<1> SUFFICES ASSUME EditInit, resKind # "other" PROVE EditInv
    OBVIOUS
<1>1. PICK T \in TagSets, v \in Settings,
           state \in IF resKind = "instance" THEN {"running", "stopped"} ELSE {"running"} :
          cloud = [tags |-> T, settings |-> [n \in SettingNames(resKind) |-> v], state |-> state]
    BY DEF EditInit
<1>2. cloud \in Resources /\ cloud.settings \in Valued
    BY <1>1 DEF Resources, Valued, ResourceStates, RowTagSets, AllTags
<1>3. row = RowOf(cloud, {}) /\ row \in RowValues /\ row.tags = cloud.tags /\ row.settings = cloud.settings
    BY <1>2 DEF EditInit, RowOf, RowValues, Resources, Valued
<1>4. WereSeen(cloud.tags, cloud.settings)
    BY <1>2 DEF EditInit, WereSeen, Valued
<1>5. WereSeen(row.tags, row.settings)
    BY <1>3, <1>4
<1>6. /\ edit \in [EditCalls -> EditStates] /\ \A c \in EditCalls : edit[c].stage = "idle"
      /\ resKind \in EditKinds /\ syncCopy = NoSync /\ editCount = 0
  <2>1. NoEdit \in EditStates /\ NoEdit.stage = "idle"
      BY DEF EditStates, NoEdit
  <2> QED
      BY <2>1 DEF EditInit
<1> QED
    BY <1>2, <1>3, <1>4, <1>5, <1>6 DEF EditInv, EditTypes

\* Nothing is asked for, or typed.
LEMMA EmptyIsPartial ==
    ASSUME NEW S
    PROVE  <<>> \in UNION {[N -> Settings] : N \in SUBSET S}
<1>1. DOMAIN <<>> = {}
    OBVIOUS
<1>2. <<>> \in [{} -> Settings]
    BY <1>1
<1> QED
    BY <1>2

\* What clients of the API ask for.
LEMMA AsksAreAsks ==
    ASSUME EditInv, NEW ask \in Asks
    PROVE  ask \in AskValues
<1>1. CASE ask \in TagAsks
  <2>1. <<>> \in PartlyValued
      BY EmptyIsPartial DEF PartlyValued
  <2> QED
      BY <1>1, <2>1 DEF TagAsks, AskValues, RowTagSets, AllTags
<1>2. CASE ask \in SettingAsks(resKind)
  <2>1. PICK N \in SUBSET SettingNames(resKind) :
            ask \in [what : {"settings"}, tags : {{}}, settings : [N -> Settings], action : {"none"}]
      BY <1>2 DEF SettingAsks
  <2> QED
      BY <2>1 DEF AskValues, PartlyValued, RowTagSets
<1>3. CASE ask \in ActionAsks(resKind)
  <2>1. <<>> \in PartlyValued
      BY EmptyIsPartial DEF PartlyValued
  <2> QED
      BY <1>3, <2>1 DEF ActionAsks, AskValues, RowTagSets, InstanceActions
<1> QED
    BY <1>1, <1>2, <1>3 DEF Asks

-----------------------------------------------------------------------------
(* ResourcePage.                                                           *)

FormsTyped == UNION {[N -> Settings] : N \in SUBSET FormSettings(resKind)}
EditPages == [open : BOOLEAN, shown : RowValues \cup {NoSync}, first : RowValues \cup {NoSync},
              typed : FormsTyped, draft : RowTagSets]

PageInv ==
    /\ EditInv
    /\ page \in [Tabs -> EditPages]
    /\ \A t \in Tabs : page[t].open => page[t].shown \in RowValues /\ page[t].first \in RowValues

\* The kind of the resource is fixed, and the pages are what they may be.
LEMMA PageKeeps ==
    ASSUME PageInv, EditInv', resKind' = resKind,
           page' \in [Tabs -> EditPages],
           \A t \in Tabs : page'[t].open =>
               page'[t].shown \in RowValues /\ page'[t].first \in RowValues
    PROVE  PageInv'
BY DEF PageInv, EditPages, RowValues, Valued, FormsTyped

LEMMA FormIsFilled ==
    ASSUME PageInv, NEW t \in Tabs, page[t].open, NEW n \in FormSettings(resKind)
    PROVE  Filled(t)[n] \in Settings
<1>1. page[t].first \in RowValues /\ page[t].typed \in FormsTyped /\ n \in SettingNames(resKind)
    BY DEF PageInv, EditPages, FormSettings
<1>2. FormValue(page[t].first, n) \in Settings
    BY <1>1, PageAssumption DEF FormValue, RowValues, Valued
<1>3. n \in DOMAIN page[t].typed => page[t].typed[n] \in Settings
    BY <1>1 DEF FormsTyped
<1> QED
    BY <1>2, <1>3 DEF Filled

\* A page is opened, refreshed, or its tags are.
LEMMA LookingKeeps ==
    ASSUME PageInv, NEW t \in Tabs, OpenPage(t) \/ RefreshPage(t) \/ OpenTags(t)
    PROVE  PageInv'
<1>1. EditInv' /\ resKind' = resKind
    BY EditStutters DEF OpenPage, RefreshPage, OpenTags, PageInv, editVars
<1>2. row \in RowValues /\ page[t] \in EditPages /\ page \in [Tabs -> EditPages]
    BY DEF PageInv, EditInv, EditTypes
<1>3. PICK p \in EditPages : /\ page' = [page EXCEPT ![t] = p]
                             /\ p.open => p.shown \in RowValues /\ p.first \in RowValues
  <2>1. CASE OpenPage(t)
    <3> DEFINE opened == [NoPage EXCEPT !.open = TRUE]
               filled == [opened EXCEPT !.shown = row]
               p == [filled EXCEPT !.first = row]
    <3>1. NoPage \in EditPages
      <4>1. <<>> \in FormsTyped
          BY EmptyIsPartial DEF FormsTyped
      <4> QED
          BY <4>1 DEF NoPage, EditPages, RowTagSets
    <3>2. opened \in EditPages
        BY <3>1 DEF EditPages
    <3>3. page' = [page EXCEPT ![t] = p]
        BY <2>1 DEF OpenPage
    <3> HIDE DEF opened
    <3>4. filled \in EditPages /\ filled.shown = row
        BY <1>2, <3>2 DEF EditPages
    <3> HIDE DEF filled
    <3>5. p \in EditPages /\ p.shown = row /\ p.first = row
        BY <1>2, <3>4 DEF EditPages
    <3> HIDE DEF p
    <3> QED
        BY <1>2, <3>3, <3>5
  <2>2. CASE RefreshPage(t)
    <3> DEFINE p == [page[t] EXCEPT !.shown = row]
    <3>1. p \in EditPages /\ p.shown = row /\ p.first = page[t].first
        BY <1>2 DEF EditPages
    <3>2. page' = [page EXCEPT ![t] = p] /\ page[t].first \in RowValues
        BY <2>2 DEF RefreshPage, PageInv
    <3> HIDE DEF p
    <3> QED
        BY <1>2, <3>1, <3>2
  <2>3. CASE OpenTags(t)
    <3> DEFINE p == [page[t] EXCEPT !.draft = page[t].shown.tags]
    <3>1. page[t].shown \in RowValues /\ page[t].first \in RowValues
        BY <2>3 DEF OpenTags, PageInv
    <3>2. p \in EditPages /\ p.shown = page[t].shown /\ p.first = page[t].first
        BY <1>2, <3>1 DEF EditPages, RowValues
    <3>3. page' = [page EXCEPT ![t] = p]
        BY <2>3 DEF OpenTags
    <3> HIDE DEF p
    <3> QED
        BY <3>1, <3>2, <3>3
  <2> QED
      BY <2>1, <2>2, <2>3
<1>4. page' \in [Tabs -> EditPages] /\ \A u \in Tabs : page'[u] = IF u = t THEN p ELSE page[u]
    BY <1>2, <1>3
<1>5. \A u \in Tabs : page'[u].open => page'[u].shown \in RowValues /\ page'[u].first \in RowValues
    BY <1>3, <1>4 DEF PageInv
<1> QED
    BY <1>1, <1>4, <1>5, PageKeeps

LEMMA ButtonAsks ==
    ASSUME NEW tags \in RowTagSets, NEW settings \in PartlyValued, NEW a \in InstanceActions
    PROVE  /\ [NoAsk EXCEPT !.what = "action", !.action = a] \in AskValues
           /\ [NoAsk EXCEPT !.what = "tags", !.tags = tags] \in AskValues
           /\ [NoAsk EXCEPT !.what = "settings", !.settings = settings] \in AskValues
<1> DEFINE W == [what : {"none", "tags", "settings", "action"}, tags : RowTagSets,
                 settings : PartlyValued, action : InstanceActions \cup {"none"}]
           asking(w) == [NoAsk EXCEPT !.what = w]
<1>1. NoAsk \in W
  <2>1. <<>> \in PartlyValued
      BY EmptyIsPartial DEF PartlyValued
  <2> QED
      BY <2>1 DEF NoAsk, RowTagSets
<1>2. ASSUME NEW w \in {"tags", "settings", "action"}
      PROVE  asking(w) \in W /\ asking(w).what = w
    BY <1>1
<1>3. /\ [NoAsk EXCEPT !.what = "action", !.action = a] = [asking("action") EXCEPT !.action = a]
      /\ [NoAsk EXCEPT !.what = "tags", !.tags = tags] = [asking("tags") EXCEPT !.tags = tags]
      /\ [NoAsk EXCEPT !.what = "settings", !.settings = settings]
           = [asking("settings") EXCEPT !.settings = settings]
    OBVIOUS
<1> HIDE DEF asking
<1>4. [asking("action") EXCEPT !.action = a] \in AskValues
    BY <1>2 DEF AskValues, InstanceActions
<1>5. [asking("tags") EXCEPT !.tags = tags] \in AskValues
    BY <1>2 DEF AskValues
<1>6. [asking("settings") EXCEPT !.settings = settings] \in AskValues
    BY <1>2 DEF AskValues
<1> QED
    BY <1>3, <1>4, <1>5, <1>6

\* A button of a page asks for what clients may ask for.
LEMMA ButtonsKeep ==
    ASSUME PageInv, NEW t \in Tabs,
           \/ \E a \in InstanceActions : ClickAction(t, a)
           \/ \E N \in SUBSET FormSettings(resKind), v \in Settings : SaveSettings(t, [n \in N |-> v])
           \/ \E tags \in Retagged(page[t].draft) : SaveTags(t, tags)
    PROVE  PageInv'
<1>1. /\ row \in RowValues /\ page[t] \in EditPages /\ page \in [Tabs -> EditPages] /\ page[t].open
      /\ \A b \in Buttons : <<t, b>> \in EditCalls
      /\ EditInv
    BY PageAssumption DEF PageInv, EditInv, EditTypes, ClickAction, SaveSettings, SaveTags, TabCalls
<1>2. <<>> \in PartlyValued /\ Buttons = {"action", "settings", "tags"}
    BY EmptyIsPartial DEF Buttons, PartlyValued
<1>3. CASE \E a \in InstanceActions : ClickAction(t, a)
  <2>1. PICK a \in InstanceActions : ClickAction(t, a)
      BY <1>3
  <2> DEFINE ask == [NoAsk EXCEPT !.what = "action", !.action = a]
  <2>2. ask \in AskValues
      BY <1>2, ButtonAsks DEF RowTagSets
  <2>3. StartEdit(<<t, "action">>, ask) /\ page' = page
      BY <2>1 DEF ClickAction
  <2> HIDE DEF ask
  <2>4. EditInv' /\ resKind' = resKind
      BY <1>1, <1>2, <2>2, <2>3, StartEditKeeps DEF StartEdit
  <2> QED
      BY <1>1, <2>3, <2>4, PageKeeps DEF PageInv
<1>4. CASE \E tags \in Retagged(page[t].draft) : SaveTags(t, tags)
  <2>1. PICK tags \in Retagged(page[t].draft) : SaveTags(t, tags)
      BY <1>4
  <2>2. tags \in RowTagSets
      BY <1>1, <2>1 DEF Retagged, EditPages, RowTagSets, AllTags
  <2> DEFINE ask == [NoAsk EXCEPT !.what = "tags", !.tags = tags]
  <2>3. ask \in AskValues
      BY <1>2, <2>2, ButtonAsks DEF InstanceActions
  <2>4. StartEdit(<<t, "tags">>, ask) /\ page' = [page EXCEPT ![t].draft = tags]
      BY <2>1 DEF SaveTags
  <2> HIDE DEF ask
  <2>5. EditInv' /\ resKind' = resKind
      BY <1>1, <1>2, <2>3, <2>4, StartEditKeeps DEF StartEdit
  <2>6. page' \in [Tabs -> EditPages]
      BY <1>1, <2>2, <2>4 DEF EditPages
  <2>7. \A u \in Tabs : page'[u].open = page[u].open /\ page'[u].shown = page[u].shown
                        /\ page'[u].first = page[u].first
      BY <1>1, <2>4 DEF EditPages
  <2> QED
      BY <2>5, <2>6, <2>7, PageKeeps DEF PageInv
<1>5. CASE \E N \in SUBSET FormSettings(resKind), v \in Settings : SaveSettings(t, [n \in N |-> v])
  <2>1. PICK N \in SUBSET FormSettings(resKind), v \in Settings : SaveSettings(t, [n \in N |-> v])
      BY <1>5
  <2> DEFINE touched == [n \in N |-> v]
             sent == [n \in FormSettings(resKind) |->
                        IF n \in DOMAIN touched THEN touched[n] ELSE Filled(t)[n]]
             kept == DOMAIN touched \cup DOMAIN page[t].typed
             ask == [NoAsk EXCEPT !.what = "settings", !.settings = Sent(t, sent)]
  <2>2. sent \in [FormSettings(resKind) -> Settings]
      BY <1>1, FormIsFilled
  <2>3. /\ StartEdit(<<t, "settings">>, ask)
        /\ page' = [page EXCEPT ![t].typed = [n \in kept |-> sent[n]]]
      BY <2>1 DEF SaveSettings
  <2>4. kept \subseteq FormSettings(resKind)
      BY <1>1 DEF EditPages, FormsTyped
  <2> HIDE DEF sent, kept
  <2>5. [n \in kept |-> sent[n]] \in FormsTyped
      BY <2>2, <2>4 DEF FormsTyped
  <2>6. Sent(t, sent) \in PartlyValued
    <3> DEFINE names == {n \in DOMAIN sent : n = "type" => sent[n] # page[t].shown.settings[n]}
    <3>1. Sent(t, sent) = [n \in names |-> sent[n]] /\ names \subseteq SettingNames(resKind)
        BY <2>2 DEF Sent, FormSettings
    <3>2. \A n \in names : sent[n] \in Settings
        BY <2>2
    <3> HIDE DEF names
    <3> QED
        BY <3>1, <3>2 DEF PartlyValued
  <2>7. ask \in AskValues
      BY <2>6, ButtonAsks DEF RowTagSets, InstanceActions
  <2> HIDE DEF ask
  <2>8. EditInv' /\ resKind' = resKind
      BY <1>1, <1>2, <2>3, <2>7, StartEditKeeps DEF StartEdit
  <2>9. page' \in [Tabs -> EditPages]
      BY <1>1, <2>3, <2>5 DEF EditPages
  <2>10. \A u \in Tabs : page'[u].open = page[u].open /\ page'[u].shown = page[u].shown
                         /\ page'[u].first = page[u].first
      BY <1>1, <2>3 DEF EditPages
  <2> QED
      BY <2>8, <2>9, <2>10, PageKeeps DEF PageInv
<1> QED
    BY <1>3, <1>4, <1>5

LEMMA PageInvInit == PageInit /\ resKind # "other" => PageInv
<1> SUFFICES ASSUME PageInit, resKind # "other" PROVE PageInv
    OBVIOUS
<1>1. NoPage \in EditPages /\ NoPage.open = FALSE
  <2>1. <<>> \in FormsTyped
      BY EmptyIsPartial DEF FormsTyped
  <2> QED
      BY <2>1 DEF NoPage, EditPages, RowTagSets
<1> QED
    BY <1>1, EditInvInit DEF PageInit, PageInv

LEMMA PageInvStep ==
    ASSUME PageInv, [PageNext]_pageVars
    PROVE  PageInv'
<1>1. ASSUME EditInv', page' = page, resKind' = resKind PROVE PageInv'
    BY <1>1, PageKeeps DEF PageInv
<1>2. CASE EditGoesOn /\ UNCHANGED page
  <2>1. resKind' = resKind
      BY <1>2 DEF EditGoesOn, Send, SendFails, Commit, CollectRow, PersistRow, ConsoleChanges
  <2> QED
      BY <1>1, <1>2, <2>1, EditGoesOnKeeps DEF PageInv
<1>3. ASSUME NEW c \in EditCalls, NEW ask \in Asks, StartEdit(c, ask), UNCHANGED page PROVE PageInv'
    BY <1>1, <1>3, AsksAreAsks, StartEditKeeps DEF PageInv, StartEdit
<1>4. ASSUME NEW t \in Tabs, OpenPage(t) \/ RefreshPage(t) \/ OpenTags(t) PROVE PageInv'
    BY <1>4, LookingKeeps
<1>5. ASSUME NEW t \in Tabs,
             \/ \E a \in InstanceActions : ClickAction(t, a)
             \/ \E N \in SUBSET FormSettings(resKind), v \in Settings : SaveSettings(t, [n \in N |-> v])
             \/ \E tags \in Retagged(page[t].draft) : SaveTags(t, tags)
      PROVE  PageInv'
    BY <1>5, ButtonsKeep
<1>6. CASE UNCHANGED pageVars
    BY <1>1, <1>6, EditStutters DEF pageVars, PageInv, editVars
<1> QED
    BY <1>2, <1>3, <1>4, <1>5, <1>6 DEF PageNext

LEMMA EditInvStep ==
    ASSUME EditInv, [EditNext]_editVars
    PROVE  EditInv'
<1>1. ASSUME NEW c \in EditCalls, NEW ask \in Asks, StartEdit(c, ask) PROVE EditInv'
    BY <1>1, AsksAreAsks, StartEditKeeps
<1> QED
    BY <1>1, EditGoesOnKeeps, EditStutters DEF EditNext

\* A resource stays what it is.
LEMMA EditKindStays ==
    ASSUME [EditNext]_editVars
    PROVE  resKind' = resKind
BY DEF EditNext, EditGoesOn, StartEdit, Send, SendFails, Commit, CollectRow, PersistRow, ConsoleChanges, editVars

LEMMA PageKindStays ==
    ASSUME [PageNext]_pageVars
    PROVE  resKind' = resKind
<1>1. ASSUME NEW c, NEW ask, StartEdit(c, ask) PROVE resKind' = resKind
    BY <1>1 DEF StartEdit
<1>2. CASE EditGoesOn
    BY <1>2 DEF EditGoesOn, Send, SendFails, Commit, CollectRow, PersistRow, ConsoleChanges
<1>3. ASSUME NEW t, OpenPage(t) \/ RefreshPage(t) \/ OpenTags(t) PROVE resKind' = resKind
    BY <1>3 DEF OpenPage, RefreshPage, OpenTags, editVars
<1>4. ASSUME NEW t, NEW a, ClickAction(t, a) PROVE resKind' = resKind
    BY <1>1, <1>4 DEF ClickAction
<1>5. ASSUME NEW t, NEW touched, SaveSettings(t, touched) PROVE resKind' = resKind
    BY <1>1, <1>5 DEF SaveSettings
<1>6. ASSUME NEW t, NEW tags, SaveTags(t, tags) PROVE resKind' = resKind
    BY <1>1, <1>6 DEF SaveTags
<1>7. CASE UNCHANGED pageVars
    BY <1>7 DEF pageVars, editVars
<1> QED
    BY <1>1, <1>2, <1>3, <1>4, <1>5, <1>6, <1>7 DEF PageNext

LEMMA EditInvAlways == EditSpec => [](resKind = "other" \/ EditInv)
<1> DEFINE Inv == resKind = "other" \/ EditInv
<1>1. EditInit => Inv
    BY EditInvInit
<1>2. Inv /\ [EditNext]_editVars => Inv'
    BY EditInvStep, EditKindStays
<1> QED
    BY <1>1, <1>2, PTL DEF EditSpec

\* The types of the row, the resource and the calls (resource-mutation-service.ts),
\* for a resource of a kind that gets commands.
THEOREM EditTypeCorrect == EditSpec => [](resKind # "other" => EditTypes)
<1>1. (resKind = "other" \/ EditInv) => (resKind # "other" => EditTypes)
    BY DEF EditInv
<1> QED
    BY <1>1, EditInvAlways, PTL

\* Every tag and every setting a row shows was that of the resource in AWS at
\* some time, if the resource is of a kind that gets commands: for any number of calls,
\* and any tags and settings asked for through the API (modifyTags() and others).
THEOREM RowsShowTheCloud == EditSpec => []RowsShowWhatWas
<1>1. (resKind = "other" \/ EditInv) => RowsShowWhatWas
    BY DEF EditInv, WereSeen, RowsShowWhatWas
<1> QED
    BY <1>1, EditInvAlways, PTL

\* The same with any number of pages whose forms and tag editors were filled from
\* rows as they were when these were opened (ec2-actions.tsx, s3-actions.tsx,
\* tag-editor-dialog.tsx).
THEOREM PagesShowTheCloud == PageSpec => []RowsShowWhatWas
<1> DEFINE Inv == resKind = "other" \/ PageInv
<1>1. PageInit => Inv
    BY PageInvInit DEF PageInit
<1>2. Inv /\ [PageNext]_pageVars => Inv'
    BY PageInvStep, PageKindStays
<1>3. Inv => RowsShowWhatWas
    BY DEF PageInv, EditInv, WereSeen, RowsShowWhatWas
<1> QED
    BY <1>1, <1>2, <1>3, PTL DEF PageSpec
=============================================================================
