------------------------- MODULE ProvisioningSetup -------------------------
(***************************************************************************)
(* Setting provisioning up for one connected account                       *)
(* (server/aws/provisioning/service.ts and template.ts, lib/provisioning,  *)
(* components/aws/provisioning-setup.tsx).                                 *)
(*                                                                         *)
(* Administrators work in panels of their own: "prepare" loads the         *)
(* guardrails and has a template made, which the owner of the account      *)
(* deploys as a stack; "enable" assumes the role of that stack.  What      *)
(* connects the row and the stack is the external id, made up by the first *)
(* preparation and never changed.  External ids are numbers, guardrails    *)
(* the regions they allow; the other limits go the same way.  Who may do   *)
(* this is in Rbac; reconciliation, which the panel offers too, is in      *)
(* Provisioning.                                                           *)
(***************************************************************************)
EXTENDS Naturals, FiniteSets

CONSTANTS
    Panels,             \* panels in administrators' browsers
    GuardrailSets,      \* what may be asked for: sets of allowed regions
    DefaultGuardrails,
    LiveMode,           \* the deployment talks to AWS
    NoTemplate,
    MaxSetupOps         \* bound: clicks, and acts of the account's owner

VARIABLES
    provisioner,        \* the columns of the connection
    guardrails,         \* of the workspace
    panel,              \* panel[p]: what the panel shows
    request,            \* request[p]: the request the panel waits for
    downloads,          \* templates the account's owner was given
    stack,              \* the template that is deployed
    lastExternalId,     \* external ids are random: a new one each time
    setupOps            \* bound

setupVars == <<provisioner, guardrails, panel, request, downloads, stack, lastExternalId, setupOps>>

NoId == 0
NoRequest == [step |-> "none", externalId |-> NoId]
NewPanel == [template |-> NoTemplate, enabled |-> FALSE, loaded |-> FALSE, form |-> DefaultGuardrails]

ASSUME SetupAssumption ==
    /\ DefaultGuardrails \in GuardrailSets
    /\ \A g \in GuardrailSets : g # {}
    /\ LiveMode \in BOOLEAN /\ MaxSetupOps \in Nat

SetupInit ==
    /\ provisioner = [externalId |-> NoId, enabled |-> FALSE, connected |-> TRUE]
    /\ guardrails = DefaultGuardrails
    /\ panel = [p \in Panels |-> NewPanel]
    /\ request = [p \in Panels |-> NoRequest]
    /\ downloads = {} /\ stack = NoTemplate
    /\ lastExternalId = NoId /\ setupOps = 0

\* What the role of the stack allows, and whom it trusts.
Policy(g) == [creationIn |-> g]
Template(id, g) == [trusts |-> id, policy |-> Policy(g)]

-----------------------------------------------------------------------------
CountedSetup == setupOps < MaxSetupOps /\ setupOps' = setupOps + 1
RequestGoes(p, step) == request' = [request EXCEPT ![p].step = step]
RequestEnds(p) == request' = [request EXCEPT ![p] = NoRequest]

\* A button, disabled while the panel waits.
Click(p, step) ==
    /\ CountedSetup
    /\ request[p] = NoRequest
    /\ RequestGoes(p, step)

\* Refused, denied or lost: the panel shows a message and may be used again.
RequestFails(p) ==
    /\ request[p] # NoRequest
    /\ RequestEnds(p)
    /\ UNCHANGED <<provisioner, guardrails, panel, downloads, stack, lastExternalId, setupOps>>

-----------------------------------------------------------------------------
(* "Prepare": the options, the plans, then the set-up.                     *)

Prepare(p) ==
    /\ Click(p, "options")
    /\ UNCHANGED <<provisioner, guardrails, panel, downloads, stack, lastExternalId>>

ReadOptions(p) ==
    /\ request[p].step = "options"
    /\ panel' = [panel EXCEPT ![p].form = guardrails, ![p].loaded = TRUE]
    /\ RequestGoes(p, "setup")
    /\ UNCHANGED <<provisioner, guardrails, downloads, stack, lastExternalId, setupOps>>

\* setupProvisioning(): an external id is made up when the row has none ...
FindConnection(p) ==
    /\ request[p].step = "setup" /\ provisioner.connected
    /\ IF provisioner.externalId = NoId
       THEN /\ lastExternalId' = lastExternalId + 1
            /\ request' = [request EXCEPT ![p] = [step |-> "store", externalId |-> lastExternalId']]
       ELSE RequestGoes(p, "answer") /\ UNCHANGED lastExternalId
    /\ UNCHANGED <<provisioner, guardrails, panel, downloads, stack, setupOps>>

\* Mutant: the row takes the external id whether it has one or not.
RowTakesAny(p) == request[p].externalId # NoId
RowTakes(p) == request[p].externalId # NoId /\ provisioner.externalId = NoId

\* ... and stored if there still is none.
StoreExternalId(p) ==
    /\ request[p].step = "store"
    /\ provisioner' = [provisioner EXCEPT !.externalId = IF RowTakes(p) THEN request[p].externalId ELSE @]
    /\ RequestGoes(p, "answer")
    /\ UNCHANGED <<guardrails, panel, downloads, stack, lastExternalId, setupOps>>

\* The template is made from the row as it is now.
AnswerSetup(p) ==
    /\ request[p].step = "answer" /\ provisioner.connected
    /\ panel' = [panel EXCEPT ![p].template = Template(provisioner.externalId, guardrails),
                              ![p].enabled = provisioner.enabled]
    /\ RequestEnds(p)
    /\ UNCHANGED <<provisioner, guardrails, downloads, stack, lastExternalId, setupOps>>

-----------------------------------------------------------------------------
(* "Enable", "disable" and the guardrails.                                 *)

Enable(p) ==
    /\ panel[p].template # NoTemplate
    /\ Click(p, "assume")
    /\ UNCHANGED <<provisioner, guardrails, panel, downloads, stack, lastExternalId>>

\* sessionFor(): the role of the stack trusts the external id of the row.
AssumeProvisioner(p) ==
    /\ request[p].step = "assume"
    /\ provisioner.connected /\ LiveMode
    /\ stack # NoTemplate /\ stack.trusts = provisioner.externalId
    /\ RequestGoes(p, "enable")
    /\ UNCHANGED <<provisioner, guardrails, panel, downloads, stack, lastExternalId, setupOps>>

Disable(p) ==
    /\ panel[p].template # NoTemplate
    /\ Click(p, "disable")
    /\ UNCHANGED <<provisioner, guardrails, panel, downloads, stack, lastExternalId>>

\* Nothing asks what has become of the row since: an "enable" that was
\* checked before a "disable" may be written after it.
WriteEnabled(p) ==
    /\ request[p].step \in {"enable", "disable"}
    /\ request[p].step = "disable" => provisioner.connected
    /\ provisioner' = [provisioner EXCEPT !.enabled = request[p].step = "enable"]
    /\ panel' = [panel EXCEPT ![p].enabled = request[p].step = "enable"]
    /\ RequestEnds(p)
    /\ UNCHANGED <<guardrails, downloads, stack, lastExternalId, setupOps>>

\* The form is there once the guardrails were loaded; it is saved whole.
SubmitGuardrails(p, g) ==
    /\ panel[p].loaded
    /\ Click(p, "save")
    /\ panel' = [panel EXCEPT ![p].form = g]
    /\ UNCHANGED <<provisioner, guardrails, downloads, stack, lastExternalId>>

WriteGuardrails(p) ==
    /\ request[p].step = "save"
    /\ guardrails' = panel[p].form
    /\ RequestEnds(p)
    /\ UNCHANGED <<provisioner, panel, downloads, stack, lastExternalId, setupOps>>

-----------------------------------------------------------------------------
(* The owner of the account, and the connection.                           *)

\* The template the panel has, which may be older than the guardrails.
Download(p) ==
    /\ panel[p].template # NoTemplate
    /\ downloads' = downloads \cup {panel[p].template}
    /\ UNCHANGED <<provisioner, guardrails, panel, request, stack, lastExternalId, setupOps>>

\* The stack is created, updated or deleted.
DeployStack(t) ==
    /\ CountedSetup
    /\ stack' = t
    /\ UNCHANGED <<provisioner, guardrails, panel, request, downloads, lastExternalId>>

\* A validation finds the connection unfit, or fit again.
ConnectionChanges ==
    /\ CountedSetup
    /\ provisioner' = [provisioner EXCEPT !.connected = ~@]
    /\ UNCHANGED <<guardrails, panel, request, downloads, stack, lastExternalId>>

SetupNext ==
    \/ ConnectionChanges
    \/ \E t \in downloads \cup {NoTemplate} : DeployStack(t)
    \/ \E p \in Panels :
         \/ Prepare(p) \/ ReadOptions(p) \/ FindConnection(p) \/ StoreExternalId(p) \/ AnswerSetup(p)
         \/ Enable(p) \/ AssumeProvisioner(p) \/ Disable(p) \/ WriteEnabled(p)
         \/ \E g \in GuardrailSets : SubmitGuardrails(p, g)
         \/ WriteGuardrails(p) \/ Download(p) \/ RequestFails(p)

SetupSpec == SetupInit /\ [][SetupNext]_setupVars

-----------------------------------------------------------------------------
\* setupProvisioning() stores an external id only where there is none and
\* makes the template from what is stored: every template anybody holds or
\* has deployed trusts the external id that the row presents, however many
\* administrators prepare at once and whichever request fails in between.
EveryTemplateWorks ==
    \A t \in downloads \cup {stack} \cup {panel[p].template : p \in Panels} :
        t # NoTemplate => t.trusts = provisioner.externalId
=============================================================================
