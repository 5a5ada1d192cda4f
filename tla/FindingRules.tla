---------------------------- MODULE FindingRules ----------------------------
(***************************************************************************)
(* What the security and optimisation rules produce from one observation   *)
(* (server/rules/security-rules.ts, server/rules/optimization-rules.ts,    *)
(* lib/s3-posture.ts, lib/network.ts).                                     *)
(*                                                                         *)
(* An attribute that a collector may fail to read is Observed: known with  *)
(* a value, or not.  Three are plain values in the row, whether they were  *)
(* read or not: tags are then {}, critical vulnerabilities null (here 0)   *)
(* and the encryption of a queue "unknown"; their rules take them as they  *)
(* are, and nothing keeps their findings open.  A sample is one resource,  *)
(* or the signals of one account, as one run saw it.  Learn reads one      *)
(* attribute that was not readable before; the account itself does not     *)
(* change.  Texts, evidence and the names of resources are left out; a     *)
(* rule stands for its finding.                                            *)
(***************************************************************************)
EXTENDS Naturals, FiniteSets

CONSTANT Samples    \* the observations the rules are checked on

VARIABLE sample

Known(v) == [ok |-> TRUE, value |-> v]
Unread == [ok |-> FALSE]
Is(o, v) == o.ok /\ o.value = v
ValueOr(o, default) == IF o.ok THEN o.value ELSE default

\* A finding is a rule and what it is about within the sample.
When(condition, rule) == IF condition THEN {<<rule, <<>>>>} ELSE {}

-----------------------------------------------------------------------------
(* S3 buckets.                                                             *)

PublicAccessFlags == {"blockAcls", "ignoreAcls", "blockPolicy", "restrictBuckets"}

\* assessBucketExposure: a grant counts only when nothing neutralises it.
BucketExposure(b) ==
    LET effective == ValueOr(b.publicAccessBlock, {}) \cup ValueOr(b.accountBlock, {})
        blockKnown == b.publicAccessBlock.ok /\ b.accountBlock.ok
        granted == \/ Is(b.policyPublic, TRUE) /\ "restrictBuckets" \notin effective
                   \/ Is(b.aclPublic, TRUE) /\ "ignoreAcls" \notin effective
    IN CASE blockKnown /\ effective = PublicAccessFlags -> "blocked"
         [] granted /\ blockKnown /\ effective # PublicAccessFlags -> "public"
         [] granted /\ ~blockKnown -> "unknown"
         [] OTHER -> IF b.policyPublic.ok /\ b.aclPublic.ok /\ blockKnown
                     THEN "not-blocked" ELSE "unknown"

BucketFindings(b) ==
    When(BucketExposure(b) = "public", "S3-PUBLIC")
        \cup When(BucketExposure(b) = "not-blocked", "S3-BPA-OFF")
        \cup When(b.versioning.ok /\ ~Is(b.versioning, TRUE), "S3-VERSIONING")
        \cup When(Is(b.logging, FALSE), "S3-LOGGING")

-----------------------------------------------------------------------------
(* Security groups.  A rule has a protocol, a range of ports (AnyPort when *)
(* AWS gives none) and whether the world is among its sources.             *)

AnyPort == <<>>
DatabasePorts == {3306, 5432, 1433, 1521, 27017, 6379, 9200, 11211, 5601}
SensitivePorts == DatabasePorts \cup {22, 3389, 2375, 23, 445}

RuleCoversPort(rule, port) ==
    \/ rule.protocol = "-1"
    \/ /\ rule.protocol \in {"tcp", "6"}
       /\ \/ rule.ports = AnyPort
          \/ rule.ports # AnyPort /\ rule.ports[1] <= port /\ port <= rule.ports[2]

Exposed(rule) == {p \in SensitivePorts : RuleCoversPort(rule, p)}

\* One finding for each world-open rule but those of the web; its subject is
\* the text of the ports, which rules of different sources share.
GroupFindings(ingress) ==
    LET web(r) == r.protocol = "tcp" /\ r.ports \in {<<80, 80>>, <<443, 443>>}
        subject(r) == IF r.protocol = "-1" THEN <<"All traffic">> ELSE <<r.protocol, r.ports>>
    IN {<<IF Exposed(r) # {} THEN "SG-OPEN" ELSE "SG-WIDE", subject(r)>> :
          r \in {q \in ingress : q.world /\ ~(Exposed(q) = {} /\ web(q))}}

-----------------------------------------------------------------------------
(* The other resource rules, by type.                                      *)

ResourceFindings(r) ==
    CASE r.type = "bucket" -> BucketFindings(r)
      [] r.type = "group" -> GroupFindings(r.ingress)
      [] r.type = "volume" -> When(~r.encrypted, "EBS-UNENCRYPTED")
      [] r.type = "snapshot" -> When(~r.encrypted, "SNAPSHOT-UNENCRYPTED")
      [] r.type = "database" ->
           When(r.public, "RDS-PUBLIC") \cup When(~r.encrypted, "RDS-UNENCRYPTED")
               \cup When(r.backupDays = 0, "RDS-NO-BACKUP")
      [] r.type = "cluster" -> When(~r.encrypted, "RDS-CLUSTER-UNENCRYPTED")
      [] r.type = "table" -> When(Is(r.recovery, FALSE), "DDB-PITR")
      [] r.type = "kubernetes" -> When(r.public /\ r.world, "EKS-PUBLIC-ENDPOINT")
      [] r.type = "repository" ->
           When(~r.scanOnPush, "ECR-SCAN-OFF")
               \cup When(r.critical > 0, "ECR-CRITICAL-VULNS")
      [] r.type = "function" -> When(r.deprecated, "LAMBDA-DEPRECATED-RUNTIME")
      [] r.type = "queue" -> When(r.encryption = "none", "SQS-UNENCRYPTED")
      [] OTHER -> {}

-----------------------------------------------------------------------------
(* The signals of the account.  A check that did not run resolves nothing. *)

LogStatusKnown(s) == s.trails.ok /\ \A t \in s.trails.value : t.logging.ok

AccountFindings(s) ==
    When(s.summary.ok /\ ~ValueOr(s.summary, [mfa |-> TRUE]).mfa, "IAM-ROOT-MFA")
        \cup When(s.summary.ok /\ ValueOr(s.summary, [keys |-> FALSE]).keys, "IAM-ROOT-KEYS")
        \cup When(Is(s.passwordPolicy, FALSE), "IAM-PASSWORD-POLICY")
        \cup When(\E age \in ValueOr(s.keyAges, {}) : age > 90, "IAM-OLD-ACCESS-KEY")
        \cup When(/\ LogStatusKnown(s)
                  /\ ~\E t \in s.trails.value : t.multiRegion /\ Is(t.logging, TRUE),
                  "CLOUDTRAIL")
        \cup When(Is(s.guardDuty, FALSE), "GUARDDUTY-DISABLED")

RanChecks(s) ==
    {check \in {"IAM-ROOT-MFA", "IAM-ROOT-KEYS", "IAM-PASSWORD-POLICY",
                "IAM-OLD-ACCESS-KEY", "CLOUDTRAIL", "GUARDDUTY-DISABLED"} :
        CASE check \in {"IAM-ROOT-MFA", "IAM-ROOT-KEYS"} -> s.summary.ok
          [] check = "IAM-PASSWORD-POLICY" -> s.passwordPolicy.ok
          [] check = "IAM-OLD-ACCESS-KEY" -> s.keyAges.ok
          [] check = "CLOUDTRAIL" -> LogStatusKnown(s)
          [] check = "GUARDDUTY-DISABLED" -> s.guardDuty.ok}

-----------------------------------------------------------------------------
(* Optimisation.  Days and CPU are what AWS reported; prices only add a    *)
(* saving to a finding and are left out.                                   *)

RequiredTagTypes ==
    {"instance", "volume", "bucket", "database", "function", "table", "balancer"}

InstanceAdvice(i) ==
    LET cpu == ValueOr(i.cpu, [avg |-> 100, max |-> 100, points |-> 0])
        quiet == i.state = "running" /\ cpu.points >= 10 /\ cpu.avg < 5 /\ cpu.max < 20
    IN When(i.state = "stopped" /\ ValueOr(i.stoppedDays, 0) >= 14, "EC2-STOPPED-LONG")
           \cup When(quiet /\ cpu.max < 5, "EC2-IDLE")
           \cup When(quiet /\ cpu.max >= 5, "EC2-UNDERUTILIZED")

Advice(r) ==
    (CASE r.type = "volume" ->
            When(~r.attached /\ r.state = "available", "EBS-UNATTACHED")
                \cup When(r.gp2, "EBS-GP2-TO-GP3")
       [] r.type = "snapshot" -> When(ValueOr(r.ageDays, 0) >= 365, "SNAPSHOT-OLD")
       [] r.type = "address" -> When(~r.associated, "EIP-UNASSOCIATED")
       [] r.type = "instance" -> InstanceAdvice(r)
       [] r.type = "bucket" -> When(Is(r.lifecycleRules, 0), "S3-NO-LIFECYCLE")
       [] OTHER -> {})
        \cup When(r.type \in RequiredTagTypes /\ ~r.tagged, "TAGS-MISSING")

-----------------------------------------------------------------------------
(* All that one sample produces, and what it lets the scan resolve.        *)

Drafts(x) ==
    IF x.type = "account" THEN AccountFindings(x)
                          ELSE ResourceFindings(x) \cup Advice(x)

(* The attributes that keep { ok: false } in the row when they could not   *)
(* be read.  The scan of an image, the encryption of a queue and tags are  *)
(* stored as null, "unknown" and {} instead.                               *)
KeptUnknown == {"publicAccessBlock", "accountBlock", "policyPublic", "aclPublic",
                "versioning", "logging", "lifecycleRules", "recovery"}

\* Mutant: only a row whose every observation failed keeps its findings.
HasOnlyUnknownObservations(x) == \A field \in KeptUnknown \cap DOMAIN x : ~x[field].ok

HasUnknownObservation(x) == \E field \in KeptUnknown \cap DOMAIN x : ~x[field].ok

SecurityRules == {"S3-PUBLIC", "S3-BPA-OFF", "S3-VERSIONING", "S3-LOGGING", "DDB-PITR",
                  "ECR-SCAN-OFF", "ECR-CRITICAL-VULNS", "SQS-UNENCRYPTED"}

\* The rules whose open findings are resolved unless they are produced again.
Conclusive(x) ==
    IF x.type = "account" THEN RanChecks(x)
    ELSE IF HasUnknownObservation(x) THEN {} ELSE SecurityRules

\* The values an unread attribute may turn out to have.
Readings(field) ==
    CASE field \in {"publicAccessBlock", "accountBlock"} ->
           {{}, {"blockPolicy", "restrictBuckets"}, {"blockAcls", "ignoreAcls"}, PublicAccessFlags}
      [] field = "lifecycleRules" -> {0, 1}
      [] field = "summary" -> [mfa : BOOLEAN, keys : BOOLEAN]
      [] field = "keyAges" -> {{}, {90}, {91, 400}}
      [] field = "stoppedDays" -> {13, 14}
      [] field = "ageDays" -> {364, 365}
      [] field = "cpu" -> [avg : {4}, max : {4, 5, 20}, points : {9, 10}]
      [] field = "trails" ->
           {{[multiRegion |-> m, logging |-> Known(l)]} : m \in BOOLEAN, l \in BOOLEAN} \cup {{}}
      [] OTHER -> BOOLEAN

ObservedFields(x) ==
    DOMAIN x \cap (KeptUnknown \cup
        {"summary", "passwordPolicy", "keyAges", "trails", "guardDuty", "stoppedDays", "ageDays",
         "cpu"})

\* What the rules read of a sample.
ReadBy(type) ==
    CASE type = "bucket" ->
           {"publicAccessBlock", "accountBlock", "policyPublic", "aclPublic", "versioning",
            "logging", "lifecycleRules", "tagged"}
      [] type = "group" -> {"ingress"}
      [] type = "volume" -> {"encrypted", "attached", "state", "gp2", "tagged"}
      [] type = "snapshot" -> {"encrypted", "ageDays"}
      [] type = "database" -> {"public", "encrypted", "backupDays", "tagged"}
      [] type = "cluster" -> {"encrypted"}
      [] type = "queue" -> {"encryption"}
      [] type = "table" -> {"recovery", "tagged"}
      [] type = "kubernetes" -> {"public", "world"}
      [] type = "repository" -> {"scanOnPush", "critical"}
      [] type = "function" -> {"deprecated", "tagged"}
      [] type = "address" -> {"associated"}
      [] type = "instance" -> {"state", "stoppedDays", "cpu", "tagged"}
      [] type = "balancer" -> {"tagged"}
      [] type = "account" -> {"summary", "passwordPolicy", "keyAges", "trails", "guardDuty"}
      [] OTHER -> {}

\* A sample has what the rules read.
WellFormed(x) == "type" \in DOMAIN x /\ ReadBy(x.type) \subseteq DOMAIN x

ASSUME SamplesAssumption == \A x \in Samples : WellFormed(x)

RulesInit == sample \in Samples

\* A later attempt reads an attribute.
Learn(field) ==
    /\ ~sample[field].ok
    /\ \E v \in Readings(field) : sample' = [sample EXCEPT ![field] = Known(v)]

\* GetTrailStatus works for a trail it had failed for.
LearnTrail(t) ==
    /\ ~t.logging.ok
    /\ \E v \in BOOLEAN :
         sample' = [sample EXCEPT !.trails.value =
                      (@ \ {t}) \cup {[t EXCEPT !.logging = Known(v)]}]

RulesNext ==
    \/ \E field \in ObservedFields(sample) : Learn(field)
    \/ /\ sample.type = "account" /\ sample.trails.ok
       /\ \E t \in sample.trails.value : LearnTrail(t)

RulesSpec == RulesInit /\ [][RulesNext]_sample

-----------------------------------------------------------------------------
(* Property.                                                               *)

\* "Unknown signals produce UNKNOWN - never a guess" (s3-posture.ts:10),
\* "never as secure and never as a fabricated finding" (security-signals.ts:17),
\* "Unknown observations [...] can never resolve old findings"
\* (security-sync.ts:11): whatever an attribute that is kept as unknown turns
\* out to be, every finding already produced stands, and none appears that the
\* scan would have resolved without having read it.  The plain values of a row
\* are not kept as unknown: the property leaves them as they are, and findings
\* about them are resolved unread (StatusIsBacked in Findings).
VerdictsSurviveUnknowns ==
    [][/\ Drafts(sample) \subseteq Drafts(sample')
       /\ \A d \in Drafts(sample') \ Drafts(sample) : d[1] \notin Conclusive(sample)]_sample
=============================================================================
