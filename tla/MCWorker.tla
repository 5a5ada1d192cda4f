------------------------------ MODULE MCWorker ------------------------------
(* What the jobs of a worker do: the findings and alerts of an account,    *)
(* the rules and a collector.  They share no variable here: a behaviour is *)
(* one of one of them, "part" says which; the others stay in one of their  *)
(* initial states.                                                         *)
EXTENDS Findings, FindingRules, Collection, TLC

VARIABLE part

CONSTANTS s1, s2

\* Two findings of one bucket; a finding of AWS itself and an optimisation; a finding of
\* a queue and one of the account.
Layout(k1, k2) == [s \in Subjects |-> IF s = s1 THEN k1 ELSE k2]
ThreeLayouts == {Layout("resource", "resource"), Layout("external", "optimisation"),
                 Layout("plain", "account")}

\* Observations.  Buckets, tables, accounts, instances and snapshots have attributes that
\* may not be readable; the other types show that the rules are total.
Observed(S) == {Unread} \cup {Known(v) : v \in S}
Logged == {Known(TRUE)}

Buckets ==
  [type : {"bucket"}, publicAccessBlock : Observed(SUBSET PublicAccessFlags),
   accountBlock : Observed({{}, {"restrictBuckets"}, PublicAccessFlags}),
   policyPublic : Observed(BOOLEAN), aclPublic : Observed(BOOLEAN),
   versioning : Observed(BOOLEAN), logging : Logged, lifecycleRules : Observed({0}),
   tagged : {TRUE}]
Tables == [type : {"table"}, recovery : Observed(BOOLEAN), tagged : {TRUE}]
AccountSignals ==
  [type : {"account"}, summary : Observed([mfa : BOOLEAN, keys : BOOLEAN]),
   passwordPolicy : Observed({FALSE}), keyAges : Observed({{}, {91}}),
   trails : Observed({T \in SUBSET [multiRegion : BOOLEAN, logging : Observed(BOOLEAN)] :
                        Cardinality(T) <= 2}),
   guardDuty : Observed(BOOLEAN)]
Instances ==
  [type : {"instance"}, state : {"running", "stopped"}, cpu : Observed(Readings("cpu")),
   stoppedDays : Observed(Readings("stoppedDays")), tagged : {TRUE}]
Snapshots == [type : {"snapshot"}, encrypted : BOOLEAN, ageDays : Observed({364, 365})]
Groups ==
  LET rules == [protocol : {"-1", "tcp", "6", "udp"}, world : BOOLEAN,
                ports : {AnyPort, <<80, 80>>, <<22, 22>>, <<0, 1023>>, <<3306, 3306>>}]
  IN [type : {"group"}, ingress : {{r, q} : r \in rules, q \in rules}]
Others ==
  [type : {"volume"}, attached : BOOLEAN, state : {"available", "in-use"}, gp2 : BOOLEAN,
   encrypted : BOOLEAN, tagged : BOOLEAN]
    \cup [type : {"database"}, public : BOOLEAN, encrypted : BOOLEAN, backupDays : {0, 7},
          tagged : {TRUE}]
    \cup [type : {"cluster"}, encrypted : BOOLEAN]
    \cup [type : {"kubernetes"}, public : BOOLEAN, world : BOOLEAN]
    \cup [type : {"address"}, associated : BOOLEAN]
    \cup [type : {"balancer"}, tagged : {FALSE}]
    \cup [type : {"queue"}, encryption : {"SSE-KMS", "none", "unknown"}]
    \cup [type : {"repository"}, scanOnPush : BOOLEAN, critical : {0, 1}]
AllSamples == UNION {Buckets, Tables, AccountSignals, Instances, Snapshots, Groups, Others}

\* Errors with the code of a family or of several, or with none.
Error(codes, http) == [codes |-> codes, status |-> http]
SomeErrors == {Error({"throttle"}, 400), Error({"denied"}, 403), Error({"missing"}, 404),
               Error({}, 503), Error({"region", "credentials"}, 403)}

\* The resources are alike.
Alike == Permutations(Things)

PartsInit ==
  /\ part \in {"findings", "rules", "collection"}
  /\ IF part = "rules" THEN RulesInit ELSE sample = [type |-> "cluster", encrypted |-> TRUE]
  /\ FindingsInit
  /\ s2 \in bad => s1 \in bad
  /\ part # "findings" => bad = {} /\ \A s \in Subjects : kind[s] = "resource"
  /\ CollectionInit
  /\ part # "collection" => collector = "instances" /\ present = {}

PartsNext ==
  /\ UNCHANGED part
  /\ \/ part = "findings" /\ FindingsNext /\ UNCHANGED <<sample, collectionVars>>
     \/ part = "rules" /\ RulesNext /\ UNCHANGED <<findingsVars, collectionVars>>
     \/ part = "collection" /\ CollectionNext /\ UNCHANGED <<findingsVars, sample>>

PartsSpec ==
  PartsInit /\ [][PartsNext]_<<findingsVars, sample, collectionVars, part>>
=============================================================================
