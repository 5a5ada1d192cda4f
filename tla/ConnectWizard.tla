---------------------------- MODULE ConnectWizard ----------------------------
(***************************************************************************)
(* The wizard that connects an account                                     *)
(* (components/aws/connect-wizard.tsx, cloud-accounts/connect/page.tsx).   *)
(*                                                                         *)
(* An open wizard goes from declaring the account to creating the role,    *)
(* verifying it and the result, over a copy of the account it was given    *)
(* last: the account is disconnected, connected anew or validated by       *)
(* others meanwhile (see Connection).  A request other than the            *)
(* verification is one step with its answer; an answer with an error is    *)
(* shown and changes nothing else.                                         *)
(***************************************************************************)
EXTENDS Connection

CONSTANT Wizards    \* the calls that wizards make

VARIABLE wizard     \* wizard[w]: the page, closed or at one of its steps

wizardVars == <<connVars, wizard>>

ASSUME WizardAssumption == Wizards \subseteq ConnCalls

ClosedWizard == [step |-> "closed", id |-> 0, seen |-> "ABSENT", setup |-> "unasked"]

WizardInit ==
    /\ ConnInit
    /\ wizard = [w \in Wizards |-> ClosedWizard]

-----------------------------------------------------------------------------
\* The account of the row as it is now, at a step of the wizard.
Given(w, step) == [wizard[w] EXCEPT !.step = step, !.id = conn'.id, !.seen = conn'.status]

\* The page is opened, with the account to resume if it is still there.
OpenWizard(w) ==
    /\ wizard[w] = ClosedWizard /\ call[w] = NoCall
    /\ UNCHANGED connVars
    /\ \/ wizard' = [wizard EXCEPT ![w].step = "account"]
       \/ conn.status # "ABSENT" /\ wizard' = [wizard EXCEPT ![w] = Given(w, "role")]

\* start(): declare the account; a row that was never connected is resumed,
\* any other is refused.
Declare(w) ==
    /\ wizard[w].step = "account"
    /\ \/ StartConnection
       \/ conn.status \in {"PENDING", "CONNECTION_FAILED"} /\ UNCHANGED connVars
    /\ wizard' = [wizard EXCEPT ![w] = Given(w, "role")]

\* The effect that asks for the instructions runs when the step, the account
\* or the instructions change: after an error it does not run again.
ShowSetup(w) ==
    /\ wizard[w].step = "role" /\ wizard[w].setup = "unasked"
    /\ \E answer \in {"shown", "failed"} :
         /\ answer = "shown" => HasSetup(wizard[w].id)
         /\ wizard' = [wizard EXCEPT ![w].setup = answer]
    /\ UNCHANGED connVars

\* "I've created the role", "Back" (even while it verifies), "Re-verify".
Turn(w, from, to) ==
    /\ wizard[w].step = from
    /\ wizard' = [wizard EXCEPT ![w].step = to]
    /\ UNCHANGED connVars
TurnPage(w) ==
    \/ wizard[w].setup = "shown" /\ Turn(w, "role", "verify")
    \/ Turn(w, "verify", "role")
    \/ wizard[w].seen # "CONNECTED" /\ Turn(w, "done", "verify")

\* verify(): the role as it is in the field, of the account as it was given.
Verify(w, role) ==
    /\ wizard[w].step = "verify" /\ wizard[w].id = conn.id
    /\ BeginValidate(w, role)
    /\ UNCHANGED wizard

\* The validation answers with the account as it is at its end, or throws.
\* A good connection leaves for the overview.
VerificationAnswered(w) ==
    /\ ValidationGoesOn(w)
    /\ wizard' =
         IF /\ call'[w] = NoCall /\ call[w].step \in {"write", "rules"}
            /\ wizard[w].step # "closed"
            /\ conn'.id = call[w].id /\ conn'.status # "ABSENT"
         THEN [wizard EXCEPT ![w] = IF conn'.status \in {"CONNECTED", "NEEDS_ATTENTION"}
                                    THEN ClosedWizard ELSE Given(w, "done")]
         ELSE wizard

\* The user leaves the page; the server goes on with the request.
CloseWizard(w) ==
    /\ wizard[w] # ClosedWizard
    /\ wizard' = [wizard EXCEPT ![w] = ClosedWizard]
    /\ UNCHANGED connVars

\* Others; or the process that serves the wizard dies.
OthersNext ==
    /\ \/ ConnNext /\ \A w \in Wizards : call'[w] = call[w]
       \/ \E w \in Wizards : CallDies(w)
    /\ UNCHANGED wizard

WizardNext ==
    \/ OthersNext
    \/ \E w \in Wizards :
         \/ OpenWizard(w) \/ Declare(w) \/ ShowSetup(w) \/ TurnPage(w)
         \/ \E r \in RoleArns : Verify(w, r)
         \/ VerificationAnswered(w) \/ CloseWizard(w)

WizardSpec == WizardInit /\ [][WizardNext]_wizardVars
=============================================================================
