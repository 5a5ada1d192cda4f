----------------------------- MODULE MCAccounts -----------------------------
(* What people do with an account: connect it, change its resources, set   *)
(* provisioning up, plan new resources in the dialog, create them; and the *)
(* identity the application itself uses.  They share no variable here: a   *)
(* behaviour is one of one of them, "part" says which; the others stay in  *)
(* one of their initial states.                                            *)
EXTENDS ConnectWizard, ResourcePage, ProvisioningSetup, Creation, CreateDialog, Platform, TLC

VARIABLE part

CONSTANTS j1, j2, pw, k1, k2, api, tab

\* One process; of two keys one is root's.
OneProcess == [c \in Callers |-> pw]
KeyKinds   == [k \in Keys |-> IF k = k1 THEN "user" ELSE "root"]

\* Requests and jobs, plans, and panels are alike.
AlikeAccounts == Permutations(Callers) \cup Permutations(CreationPlans) \cup Permutations(Panels)

\* One page with its three buttons, and a client of the API.
PageAndApi == {api} \cup {tab} \X Buttons

\* Guardrails of one region and of two.
OneOrTwo == {{"us"}, {"us", "eu"}}
OnlyUs   == {"us"}

\* No tags and two; the page's editor changes them one by one.
SomeTags == {{}, {<<"k", 1>>, <<"l", 1>>}}

\* Addresses of four bits: two private ranges and the range of the VPC of the subnets.
B(base, prefix) == [base |-> base, prefix |-> prefix]
C(service, block, extra) ==
  [service |-> service, region |-> "us-east-1", name |-> "b", label |-> "blue", block |-> block, extra |-> extra]
SomeConfigurations ==
  {C("vpc", B(0, 2), TRUE), C("vpc", B(4, 3), FALSE), C("vpc", B(1, 3), FALSE), C("vpc", B(0, 1), TRUE),
   [C("vpc", B(0, 2), TRUE) EXCEPT !.region = "eu-west-1"],
   C("subnet", B(12, 4), TRUE), C("subnet", B(12, 3), FALSE),
   C("ec2", B(0, 2), TRUE), C("ec2", B(0, 2), FALSE),
   C("s3", B(0, 2), TRUE), C("s3", B(0, 2), FALSE), [C("s3", B(0, 2), FALSE) EXCEPT !.label = "green"],
   [C("s3", B(0, 2), FALSE) EXCEPT !.region = "eu-west-1"]}
TwoRanges == {B(0, 1), B(8, 1)}
OwnVpc    == B(12, 2)
OwnerMade == {B(0, 3), B(14, 4)}

TwoChoices == {[name |-> "a", exposed |-> TRUE, valid |-> TRUE],
               [name |-> "b", exposed |-> FALSE, valid |-> TRUE]}

PartsInit ==
  /\ part \in {"connection", "page", "setup", "creation", "dialog", "platform"}
  /\ WizardInit /\ PageInit /\ SetupInit /\ CreationInit /\ DialogInit /\ PlatformInit
  /\ resKind \in {"bucket", "other"} => row.tags = {}
  /\ part # "page" => resKind = "tagged" /\ row.tags = {} /\ row.state = "running"
  /\ part # "creation" => \A p \in CreationPlans : config[p] = C("s3", B(0, 2), TRUE)
  /\ part # "dialog" => form.name = "a"
  /\ part # "platform" => secretRow.key = NoKey

PartsNext ==
  /\ UNCHANGED part
  /\ \/ /\ part = "connection" /\ WizardNext
        /\ UNCHANGED <<pageVars, setupVars, creationVars, dialogVars, platformVars>>
     \/ /\ part = "page" /\ PageNext
        /\ UNCHANGED <<wizardVars, setupVars, creationVars, dialogVars, platformVars>>
     \/ /\ part = "setup" /\ SetupNext
        /\ UNCHANGED <<wizardVars, pageVars, creationVars, dialogVars, platformVars>>
     \/ /\ part = "creation" /\ CreationNext
        /\ UNCHANGED <<wizardVars, pageVars, setupVars, dialogVars, platformVars>>
     \/ /\ part = "dialog" /\ DialogNext
        /\ UNCHANGED <<wizardVars, pageVars, setupVars, creationVars, platformVars>>
     \/ /\ part = "platform" /\ PlatformNext
        /\ UNCHANGED <<wizardVars, pageVars, setupVars, creationVars, dialogVars>>

partsVars == <<wizardVars, pageVars, setupVars, creationVars, dialogVars, platformVars, part>>

PartsSpec == PartsInit /\ [][PartsNext]_partsVars
=============================================================================
