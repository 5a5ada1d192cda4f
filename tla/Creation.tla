------------------------------ MODULE Creation ------------------------------
(***************************************************************************)
(* What a provisioning plan asks of AWS (server/aws/provisioning:          *)
(* safety.ts, adapters.ts, network.ts; lib/provisioning.ts, lib/cidr.ts):  *)
(* the guardrails, the checks before the first change, the calls that      *)
(* create and configure one resource, what is verified afterwards, and how *)
(* a resource whose creation got no answer is found again.                 *)
(*                                                                         *)
(* The life of a plan's row and of its calls, and time, are in             *)
(* Provisioning; of them this module keeps that one plan of an account is  *)
(* applied or waits for reconciliation at a time, and that reads show what *)
(* was made.  The plans are those of one workspace for one account, with   *)
(* fewer VPCs than one page of DescribeVpcs.  Blocks are those of an       *)
(* address space of AddressBits bits.                                      *)
(***************************************************************************)
EXTENDS Naturals, FiniteSets, Sequences

CONSTANTS
    CreationPlans,
    Configurations, \* configurations of plans (see Configuration)
    AddressBits,    \* 32
    PrivateRanges,  \* RFC 1918, as blocks
    MinPrefix, MaxPrefix,   \* 16 and 28
    MainBlock,      \* range of the VPC subnets are planned in
    OwnerBlocks,    \* blocks the owner may make VPCs and subnets of
    Names,          \* of buckets
    MaxOwnerActs    \* bound: what the owner of the account does

VARIABLES
    config,         \* config[p]
    at,             \* where the plan is
    calls,          \* calls[p]: the calls still to make
    thing,          \* thing[p]: what p made; what a bucket has is in bucket
    bucket,         \* bucket[n]: the account's bucket of that name
    ownAccount      \* the rest of the account and the guardrails

creationVars == <<config, at, calls, thing, bucket, ownAccount>>

Services == {"ec2", "s3", "vpc", "subnet"}
Places == {"us-east-1", "eu-west-1"}
Block == [base : 0..2^AddressBits - 1, prefix : 0..AddressBits]
\* Tags as one reviewed plan or another asks for them.
Labels == {"blue", "green"}
Aspects == Labels \cup {"range", "private", "encrypted", "imdsv2", "ownership", "versioning", "hostnames"}
\* configurationSchema: "extra" is versioning, hostnames or a public address.
Configuration ==
    [service : Services, region : Places, name : Names, label : Labels, block : Block, extra : BOOLEAN]

ASSUME CreationAssumption ==
    /\ AddressBits \in Nat /\ MaxOwnerActs \in Nat
    /\ PrivateRanges \cup OwnerBlocks \cup {MainBlock} \subseteq Block
    /\ Configurations \subseteq Configuration

-----------------------------------------------------------------------------
(* lib/cidr.ts.                                                            *)

Size(prefix) == 2^(AddressBits - prefix)
\* Powers of two: the smaller block divides the larger.
ASSUME SizesAssumption ==
    \A small \in 0..AddressBits : \A large \in 0..small :
        Size(large) \in Nat \ {0} /\ Size(large) % Size(small) = 0

\* An address under the mask of a prefix.
Masked(address, prefix) == address - (address % Size(prefix))
\* parseCidr(): the address is the start of the block.
Canonical(b) == Masked(b.base, b.prefix) = b.base
Contains(outer, inner) ==
    inner.prefix >= outer.prefix /\ Masked(inner.base, outer.prefix) = outer.base
\* Mutant: a block around an existing one passes.
OverlapsWithin(a, b) == Contains(a, b)
Overlaps(a, b) == Contains(a, b) \/ Contains(b, a)
\* describeCidrProblem().
GoodBlock(b) ==
    /\ Canonical(b)
    /\ b.prefix >= MinPrefix /\ b.prefix <= MaxPrefix
    /\ \E range \in PrivateRanges : Contains(range, b)

-----------------------------------------------------------------------------
\* "had" is a history: what it had at any moment.
Nothing == [is |-> "none", has |-> {}, had |-> {}]
NoBucket == [by |-> "none", region |-> "us-east-1", has |-> {}, had |-> {}]

CreationInit ==
    /\ config \in [CreationPlans -> Configurations]
    /\ at = [p \in CreationPlans |-> "planned"]
    /\ calls = [p \in CreationPlans |-> <<>>]
    /\ thing = [p \in CreationPlans |-> Nothing]
    /\ bucket = [n \in Names |-> NoBucket]
    /\ ownAccount = [vpcs |-> {<<"us-east-1", MainBlock>>}, subnets |-> {}, ingress |-> "none",
                      allowPublic |-> TRUE, acts |-> 0]

Of(p) == config[p]
Goes(p, s) == at' = [at EXCEPT ![p] = s]

\* The bucket of the plan's name, whoever made it, or the thing it made.
Is(p) == IF Of(p).service = "s3" THEN bucket[Of(p).name] ELSE thing[p]
\* Now it has these.
Gets(x, has) == [x EXCEPT !.has = has, !.had = @ \cup has]
Becomes(p, has) ==
    IF Of(p).service = "s3"
      THEN bucket' = [bucket EXCEPT ![Of(p).name] = Gets(@, has)] /\ UNCHANGED thing
      ELSE thing' = [thing EXCEPT ![p] = Gets(@, has)] /\ UNCHANGED bucket

\* What reads of the account show: of the plans' networks too.
PlannedOf(service) == {p \in CreationPlans : Of(p).service = service /\ thing[p].is # "none"}
VpcBlocks(region) ==
    {b \in Block : <<region, b>> \in ownAccount.vpcs}
      \cup {Of(p).block : p \in {q \in PlannedOf("vpc") : Of(q).region = region}}
SubnetBlocks == ownAccount.subnets \cup {Of(p).block : p \in PlannedOf("subnet")}
Taken(n) == bucket[n].by # "none"

-----------------------------------------------------------------------------
(* Checks.                                                                 *)

\* validateGuardrails(): regions and sizes are taken as allowed.
WithinGuardrails(c) ==
    /\ c.service \in {"vpc", "subnet"} => GoodBlock(c.block)
    /\ c.service = "ec2" /\ c.extra => ownAccount.allowPublic

\* validateSecurityGroups(): public ingress to other ports than 80 and 443 is
\* refused, and any public ingress for a private instance.
GroupsAllow(c) == ownAccount.ingress = "none" \/ (ownAccount.ingress = "web" /\ c.extra)

\* preflight(), networkPreflight(), with a client of the plan's region; a dry
\* run may refuse whatever passes.  A bucket of another region, or of somebody
\* else, is no 404 either.
PassesPreflight(c) ==
    CASE c.service = "s3" -> ~Taken(c.name)
      [] c.service = "ec2" -> GroupsAllow(c)
      [] c.service = "vpc" -> \A b \in VpcBlocks(c.region) : ~Overlaps(b, c.block)
      [] OTHER -> Contains(MainBlock, c.block) /\ \A b \in SubnetBlocks : ~Overlaps(b, c.block)

-----------------------------------------------------------------------------
(* applyPlan(), from its reservation.                                      *)

InProgress == {"reserved", "checked", "configuring", "unknown"}

ReservePlan(p) ==
    /\ at[p] = "planned"
    /\ WithinGuardrails(Of(p))
    /\ \A q \in CreationPlans : at[q] \notin InProgress
    /\ Goes(p, "reserved")
    /\ UNCHANGED <<config, calls, thing, bucket, ownAccount>>

Preflight(p) ==
    /\ at[p] = "reserved"
    /\ \/ PassesPreflight(Of(p)) /\ Goes(p, "checked")
       \/ Goes(p, "failed")
    /\ UNCHANGED <<config, calls, thing, bucket, ownAccount>>

\* The calls that follow the create call.
CallsAfter(c) ==
    CASE c.service = "vpc" -> <<"support">> \o (IF c.extra THEN <<"hostnames">> ELSE <<"none">>)
      [] c.service = "s3" -> <<"private", "encrypted">> \o (IF c.extra THEN <<"versioning">> ELSE <<>>)
                               \o <<"tags">>
      [] OTHER -> <<>>

\* What the create call sets at once (runInput(), createNetwork()); a new
\* bucket may already be private and encrypted.
SetByCreate(c) ==
    CASE c.service = "vpc" -> {{"range", c.label}}
      [] c.service = "subnet" -> {{"range", c.label, "private"}}
      [] c.service = "ec2" -> {{c.label, "imdsv2", "encrypted"} \cup (IF c.extra THEN {} ELSE {"private"})}
      [] OTHER -> {{"ownership"} \cup given : given \in SUBSET {"private", "encrypted"}}
NewBucket(by, region, given) == [by |-> by, region |-> region, has |-> given, had |-> given]

\* AWS refuses a subnet that overlaps another, and a bucket that exists.
AwsAccepts(c) ==
    /\ c.service = "subnet" => \A b \in SubnetBlocks : ~Overlaps(b, c.block)
    /\ c.service = "s3" => ~Taken(c.name)

\* The guardrails once more, then the create call; its answer may be lost.
CreateThing(p) ==
    /\ at[p] = "checked" /\ WithinGuardrails(Of(p)) /\ AwsAccepts(Of(p))
    /\ \E given \in SetByCreate(Of(p)) :
         IF Of(p).service = "s3"
           THEN /\ thing' = [thing EXCEPT ![p] = [Nothing EXCEPT !.is = "own"]]
                /\ bucket' = [bucket EXCEPT ![Of(p).name] = NewBucket("plan", Of(p).region, given)]
           ELSE /\ thing' = [thing EXCEPT ![p] = [is |-> "own", has |-> given, had |-> given]]
                /\ UNCHANGED bucket
    /\ \/ Goes(p, "configuring") /\ calls' = [calls EXCEPT ![p] = CallsAfter(Of(p))]
       \/ Goes(p, "unknown") /\ UNCHANGED calls
    /\ UNCHANGED <<config, ownAccount>>

\* In us-east-1 AWS answers that it made a bucket the account already has there.
AdoptBucket(p) ==
    /\ at[p] = "checked" /\ WithinGuardrails(Of(p)) /\ Of(p).service = "s3"
    /\ Taken(Of(p).name)
    /\ Of(p).region = "us-east-1" /\ bucket[Of(p).name].region = "us-east-1"
    /\ thing' = [thing EXCEPT ![p] = [Nothing EXCEPT !.is = "adopted"]]
    /\ \/ Goes(p, "configuring") /\ calls' = [calls EXCEPT ![p] = CallsAfter(Of(p))]
       \/ Goes(p, "unknown") /\ UNCHANGED calls
    /\ UNCHANGED <<config, bucket, ownAccount>>

CreateRefused(p) ==
    /\ at[p] = "checked"
    /\ Goes(p, IF WithinGuardrails(Of(p)) THEN "unknown" ELSE "failed")
    /\ UNCHANGED <<config, calls, thing, bucket, ownAccount>>

\* PutBucketTagging replaces the tags there are.
ConfigureThing(p) ==
    /\ at[p] = "configuring" /\ calls[p] # <<>>
    /\ Becomes(p, IF Head(calls[p]) = "tags" THEN (Is(p).has \ Labels) \cup {Of(p).label}
                   ELSE Is(p).has \cup ({Head(calls[p])} \cap Aspects))
    /\ calls' = [calls EXCEPT ![p] = Tail(@)]
    /\ UNCHANGED <<config, at, ownAccount>>

\* A call fails, the process dies, verification is not reached.
Interrupt(p) ==
    /\ at[p] \in {"reserved", "checked", "configuring"}
    /\ Goes(p, "unknown")
    /\ calls' = [calls EXCEPT ![p] = <<>>]
    /\ UNCHANGED <<config, thing, bucket, ownAccount>>

\* verifyResource(), verifyNetwork(): what is looked at.
\* Mutant: the tags of a bucket are not looked at.
VerifiedButTags(c) ==
    CASE c.service = "vpc" -> {"range", c.label}
      [] c.service = "subnet" -> {"range", c.label, "private"}
      [] c.service = "ec2" -> {c.label, "imdsv2", "encrypted"} \cup (IF c.extra THEN {} ELSE {"private"})
      [] OTHER -> {"private", "encrypted", "ownership"} \cup (IF c.extra THEN {"versioning"} ELSE {})
Verified(c) ==
    CASE c.service = "vpc" -> {"range", c.label}
      [] c.service = "subnet" -> {"range", c.label, "private"}
      [] c.service = "ec2" -> {c.label, "imdsv2", "encrypted"} \cup (IF c.extra THEN {} ELSE {"private"})
      [] OTHER -> {"private", "encrypted", "ownership", c.label}
                    \cup (IF c.extra THEN {"versioning"} ELSE {})

\* A bucket is the one of that name, which must be in the plan's region.
Passes(p) ==
    /\ Verified(Of(p)) \subseteq Is(p).has
    /\ Of(p).service = "s3" => bucket[Of(p).name].region = Of(p).region

VerifyThing(p) ==
    /\ at[p] = "configuring" /\ calls[p] = <<>>
    /\ Goes(p, IF Passes(p) THEN "succeeded" ELSE "unknown")
    /\ UNCHANGED <<config, calls, thing, bucket, ownAccount>>

\* reconcilePlan(): locateResource() goes by the plan's token or tag, and for
\* a bucket by its name alone; it may not show yet.
FoundAgain(p) == IF Of(p).service = "s3" THEN Taken(Of(p).name) ELSE thing[p].is # "none"

\* "found" is a history: reconciliation took a bucket for that of a plan whose
\* own request made none.
ReconcileThing(p) ==
    /\ at[p] = "unknown"
    /\ \/ /\ FoundAgain(p) /\ Passes(p) /\ Goes(p, "succeeded")
          /\ thing' = [thing EXCEPT ![p].is = IF @ = "none" THEN "found" ELSE @]
       \/ ~FoundAgain(p) /\ Goes(p, "failed") /\ UNCHANGED thing
    /\ UNCHANGED <<config, calls, bucket, ownAccount>>

-----------------------------------------------------------------------------
(* The owner of the account, and the administrators of the workspace.      *)

Acts(change) == ownAccount.acts < MaxOwnerActs /\ ownAccount' = [change EXCEPT !.acts = @ + 1]

OwnerMakes ==
    /\ \/ \E b \in OwnerBlocks, r \in Places : Acts([ownAccount EXCEPT !.vpcs = @ \cup {<<r, b>>}])
       \/ \E b \in OwnerBlocks :
            Contains(MainBlock, b) /\ (\A s \in SubnetBlocks : ~Overlaps(s, b))
              /\ Acts([ownAccount EXCEPT !.subnets = @ \cup {b}])
    /\ UNCHANGED <<config, at, calls, thing, bucket>>

OwnerMakesBucket(n, r) ==
    /\ ~Taken(n)
    /\ Acts(ownAccount)
    /\ bucket' = [bucket EXCEPT ![n] = NewBucket("owner", r, {"ownership", "private", "encrypted"})]
    /\ UNCHANGED <<config, at, calls, thing>>

OwnerOpensGroup(ingress) ==
    /\ Acts([ownAccount EXCEPT !.ingress = ingress])
    /\ UNCHANGED <<config, at, calls, thing, bucket>>

AdminDisallowsPublic ==
    /\ Acts([ownAccount EXCEPT !.allowPublic = FALSE])
    /\ UNCHANGED <<config, at, calls, thing, bucket>>

\* The owner completes what a partial resource lacks, or undoes some of it.
OwnerCompletes(p) ==
    /\ FoundAgain(p) /\ at[p] = "unknown"
    /\ Acts(ownAccount)
    /\ Becomes(p, (Is(p).has \ Labels) \cup Verified(Of(p)))
    /\ UNCHANGED <<config, at, calls>>

OwnerUndoes(p, aspect) ==
    /\ aspect \in Is(p).has
    /\ Acts(ownAccount)
    /\ Becomes(p, Is(p).has \ {aspect})
    /\ UNCHANGED <<config, at, calls>>

CreationNext ==
    \/ \E p \in CreationPlans :
         \/ ReservePlan(p)   \/ Preflight(p)      \/ CreateThing(p)
         \/ AdoptBucket(p)   \/ CreateRefused(p)  \/ ConfigureThing(p)
         \/ Interrupt(p)     \/ VerifyThing(p)    \/ ReconcileThing(p)
         \/ OwnerCompletes(p)
         \/ \E aspect \in {"private", Of(p).label} : OwnerUndoes(p, aspect)
    \/ OwnerMakes
    \/ \E n \in Names, r \in Places : OwnerMakesBucket(n, r)
    \/ \E ingress \in {"web", "open"} : OwnerOpensGroup(ingress)
    \/ AdminDisallowsPublic

CreationSpec == CreationInit /\ [][CreationNext]_creationVars

-----------------------------------------------------------------------------
(* Properties.                                                             *)

Addresses(b) == b.base..b.base + Size(b.prefix) - 1

\* No two VPCs made by plans in one region share an address, whoever planned
\* them and however their calls were interrupted: each is checked before it is
\* made against those of its region, and the reservation of the account lies
\* around both.  Of VPCs in two regions nothing is said.
PlannedVpcsDisjoint ==
    \A p, q \in PlannedOf("vpc") :
        p # q /\ Of(p).region = Of(q).region =>
            Addresses(Of(p).block) \cap Addresses(Of(q).block) = {}

\* What the review of a plan promises of its resource.
Promised(c) ==
    {c.label} \cup (IF c.service \in {"vpc", "subnet"} THEN {"range"} ELSE {"encrypted"})
      \cup (IF c.service = "vpc" \/ (c.service = "ec2" /\ c.extra) THEN {} ELSE {"private"})
      \cup (IF c.service = "ec2" THEN {"imdsv2"} ELSE {})
      \cup (IF c.service = "s3" THEN {"ownership"} ELSE {})
      \cup (IF c.service = "s3" /\ c.extra THEN {"versioning"} ELSE {})
      \cup (IF c.service = "vpc" /\ c.extra THEN {"hostnames"} ELSE {})

\* Whose the resource of a plan that succeeded is.  An instance and a network
\* is the plan's own.  A bucket is too, but for two cases: in us-east-1 AWS let
\* the plan have one that the owner, and never another plan, had made since it
\* was looked for; or the request of the plan made none, and reconciliation
\* found, by its name alone, one that the owner or another plan had made.
Whose(p) ==
    \/ thing[p].is = "own" /\ (Of(p).service = "s3" => bucket[Of(p).name].by = "plan")
    \/ /\ Of(p).service = "s3" /\ thing[p].is = "adopted"
       /\ bucket[Of(p).name].by = "owner" /\ Of(p).region = "us-east-1"
    \/ /\ Of(p).service = "s3" /\ thing[p].is = "found"
       /\ \/ bucket[Of(p).name].by = "owner"
          \/ \E q \in CreationPlans \ {p} :
               thing[q].is = "own" /\ Of(q).service = "s3" /\ Of(q).name = Of(p).name

\* A plan that succeeded has a resource that had all its review promised, but
\* for the DNS attributes of a VPC; and it is its own, or one of the two
\* exceptions just said.
SucceededIsItsOwn ==
    \A p \in CreationPlans :
        at[p] = "succeeded" => Whose(p) /\ Promised(Of(p)) \ {"hostnames"} \subseteq Is(p).had
=============================================================================
