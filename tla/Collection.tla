----------------------------- MODULE Collection -----------------------------
(***************************************************************************)
(* One collector of the inventory: it lists resources page by page, reads  *)
(* the details of each, and returns everything or throws                   *)
(* (server/aws/paginate.ts, retry.ts, concurrency.ts, errors.ts and        *)
(* collectors/).                                                           *)
(*                                                                         *)
(* What a collector returns decides what is deleted: rows of its types     *)
(* that it does not return are marked deleted (InventorySync, which relies *)
(* on the CollectorContract that is kept here).  Resources                 *)
(* are model values; a collector is its Shape: what it lists, what it      *)
(* leaves out, what it reads of each resource and how it settles failures. *)
(* The attributes themselves are left out but for what could not be read.  *)
(* The contract of AWS is external: a listing without a next token         *)
(* delivered every resource that was there throughout.                     *)
(***************************************************************************)
EXTENDS Naturals, FiniteSets, CollectorContract

CONSTANTS
    Things,         \* resources of the account
    CollectorIds,   \* the collectors to run
    AwsErrors,      \* how a call may fail
    MaxPages,       \* paginate: pages of one listing
    MaxItems,       \* paginate: items of one listing
    MaxTries,       \* withRetry
    Parallel,       \* mapSettledLimit
    MaxMoved        \* bound: resources that come or go during an attempt

VARIABLES
    collector,      \* the collector that runs
    present,        \* the resources that are in AWS
    there,          \* there[t]: how t shows there, "there" or "terminated"
    phase,          \* "listing", "details", "returned" or "thrown"
    open,           \* the listings that are not finished
    unlisted,       \* what they have not delivered yet
    pages,          \* pages[l]: pages read of listing l
    listed,         \* what the listings delivered
    inFlight,       \* resources whose details are being read
    settled,        \* settled[t]: outcome of the details of t
    tries,          \* attempts of withRetry
    outcome,        \* what the collector returned: resource -> unread attributes
    moved           \* history: resources that came or went since the attempt began

collectionVars == <<collector, present, there, phase, open, unlisted, pages, listed, inFlight,
                    settled, tries, outcome, moved>>

-----------------------------------------------------------------------------
(* Errors.  An error belongs to families of codes, in the order in which   *)
(* they are asked for, and has an HTTP status.                             *)

Families == <<"throttle", "denied", "expired", "credentials", "region", "disabled",
              "missing", "invalid">>
Classes == <<"throttled", "access_denied", "expired", "invalid_credentials",
             "region_unavailable", "not_enabled", "not_found", "validation">>

ClassOf(e) ==
    LET hits == {i \in 1..8 : Families[i] \in e.codes}
    IN CASE hits # {} -> Classes[CHOOSE i \in hits : \A j \in hits : i <= j]
         [] hits = {} /\ e.status = 429 -> "throttled"
         [] hits = {} /\ e.status = 403 -> "access_denied"
         [] hits = {} /\ e.status >= 500 -> "service_unavailable"
         [] OTHER -> "unknown"

Retryable == {"throttled", "service_unavailable"}

\* observe(): a value, the value that stands for "does not exist", or nothing;
\* throttling goes up to withRetry.
ObserveError(e, missingIsValue) ==
    CASE ClassOf(e) = "not_found" /\ missingIsValue -> "read"
      [] ClassOf(e) = "throttled" -> "throws"
      [] OTHER -> "unread"

-----------------------------------------------------------------------------
(* The collectors.  lists: its listings, read at once.  hidden: listed     *)
(* resources it leaves out.  details: what is read of each resource        *)
(* ("must": a call that must work, "try": an observed one, "absent": an    *)
(* observed one where not found is a value, "batch": a call that leaves    *)
(* out what no longer exists).  settle: how failures of details end.       *)

Shape(lists, hidden, details, settle) ==
    [lists |-> lists, hidden |-> hidden, details |-> details, settle |-> settle]

Listing(lists) == Shape(lists, {}, {}, "all")

InstancesShape == Shape({"instances"}, {"terminated"}, {}, "all")
VolumesShape == Listing({"volumes"})
SnapshotsShape == Listing({"snapshots"})
AddressesShape == Listing({"addresses"})
VpcShape == Shape({"vpcs", "subnets", "routeTables", "gateways", "nats", "acls", "endpoints"},
                  {"terminated"}, {}, "all")
SecurityGroupsShape == Listing({"groups"})
RdsShape == Listing({"databases", "clusters"})
DynamoShape == Shape({"tables"}, {}, {"must", "try"}, "all")
LambdaShape == Shape({"functions"}, {}, {"absent"}, "all")
EcsShape == Shape({"clusters"}, {}, {"batch"}, "all")
EksShape == Shape({"clusters"}, {}, {"must"}, "all")
EcrShape == Shape({"repositories"}, {}, {"try"}, "all")
ElbShape == Shape({"balancers"}, {}, {"try"}, "all")
CloudfrontShape == Listing({"distributions"})
Route53Shape == Listing({"zones"})
ApiGatewayShape == Listing({"rest", "http"})
SnsShape == Listing({"topics"})
SqsShape == Shape({"queues"}, {}, {"try"}, "all")
BucketsShape == Shape({"buckets"}, {}, {"must", "try", "absent"}, "buckets")

Collectors ==
    [instances |-> InstancesShape, volumes |-> VolumesShape, snapshots |-> SnapshotsShape,
     addresses |-> AddressesShape, network |-> VpcShape, groups |-> SecurityGroupsShape,
     databases |-> RdsShape, tables |-> DynamoShape, functions |-> LambdaShape,
     ecs |-> EcsShape, eks |-> EksShape, repositories |-> EcrShape, balancers |-> ElbShape,
     distributions |-> CloudfrontShape, zones |-> Route53Shape, apis |-> ApiGatewayShape,
     topics |-> SnsShape, queues |-> SqsShape, buckets |-> BucketsShape]

ASSUME CollectionAssumption ==
    /\ IsFiniteSet(Things)
    /\ CollectorIds \subseteq DOMAIN Collectors /\ CollectorIds # {}
    /\ MaxPages \in Nat /\ MaxItems \in Nat
    /\ MaxTries \in Nat \ {0} /\ Parallel \in Nat \ {0} /\ MaxMoved \in Nat

Sh == Collectors[collector]

-----------------------------------------------------------------------------
(* One attempt.                                                            *)

\* What an attempt holds before its first call.
Fresh0 ==
    /\ phase' = "listing"
    /\ open' = Sh.lists
    /\ unlisted' = present
    /\ pages' = [l \in Sh.lists |-> 0]
    /\ listed' = {} /\ inFlight' = {}
    /\ settled' = [t \in {} |-> {}]
    /\ moved' = {}

CollectionInit ==
    /\ collector \in CollectorIds
    /\ present \in SUBSET Things
    /\ there \in [Things -> {"there", "terminated"}]
    /\ \A t \in Things \ present : there[t] = "there"
    /\ phase = "listing"
    /\ open = Sh.lists
    /\ unlisted = present
    /\ pages = [l \in Sh.lists |-> 0]
    /\ listed = {} /\ inFlight = {}
    /\ settled = [t \in {} |-> {}]
    /\ tries = 1
    /\ outcome = [t \in {} |-> {}]
    /\ moved = {}

\* withRetry(): again from the beginning, or the error goes to the caller.
ThrowError(class) ==
    /\ IF class \in Retryable /\ tries < MaxTries
       THEN tries' = tries + 1 /\ Fresh0
       ELSE /\ phase' = "thrown"
            /\ UNCHANGED <<tries, open, unlisted, pages, listed, inFlight, settled, moved>>
    /\ UNCHANGED <<collector, present, there, outcome>>

\* The addresses come in one answer, which has no limit.
Paged(l) == l # "addresses"

(* One page of listing l: some of what is left, and a token or none.  The  *)
(* last open listing delivers the rest with its last page.  What came or   *)
(* went meanwhile may or may not show.                                     *)
FetchPage(l) ==
    /\ phase = "listing" /\ l \in open
    /\ \E items \in SUBSET unlisted, token \in {"none", "next", "repeated"} :
         /\ (token = "none" /\ open = {l}) => (unlisted \cap present) \ moved \subseteq items
         /\ Paged(l) \/ token = "none"
         /\ token = "repeated" => pages[l] > 0
         /\ IF Paged(l) /\ (\/ Cardinality(listed \cup items) > MaxItems
                            \/ token = "repeated"
                            \/ token = "next" /\ pages[l] + 1 = MaxPages)
            THEN ThrowError("unknown")
            ELSE /\ listed' = listed \cup items
                 /\ unlisted' = unlisted \ items
                 /\ pages' = [pages EXCEPT ![l] = @ + 1]
                 /\ open' = IF token = "none" THEN open \ {l} ELSE open
                 /\ phase' = IF open' = {} THEN "details" ELSE phase
                 /\ UNCHANGED <<collector, present, there, inFlight, settled, tries, outcome, moved>>

\* Promise.all: the first listing that fails fails the attempt.
PageFails(l) ==
    /\ phase = "listing" /\ l \in open
    /\ \E e \in AwsErrors : ThrowError(ClassOf(e))

-----------------------------------------------------------------------------
(* The details, at most Parallel resources at once (some collectors read   *)
(* one after the other, which is one of these orders).                     *)

Wanted == {t \in listed : there[t] \notin Sh.hidden}
Waiting == (Wanted \ inFlight) \ DOMAIN settled

StartDetails(t) ==
    /\ phase = "details" /\ Sh.details # {}
    /\ t \in Waiting /\ Cardinality(inFlight) < Parallel
    /\ inFlight' = inFlight \cup {t}
    /\ UNCHANGED <<collector, present, there, phase, open, unlisted, pages, listed, settled,
                   tries, outcome, moved>>

SettleDetails(t, result) ==
    /\ inFlight' = inFlight \ {t}
    /\ settled' = [u \in DOMAIN settled \cup {t} |-> IF u = t THEN result ELSE settled[u]]
    /\ UNCHANGED <<collector, present, there, phase, open, unlisted, pages, listed, tries,
                   outcome, moved>>

ReadDetails(t) ==
    /\ phase = "details" /\ t \in inFlight
    /\ t \in present
    /\ SettleDetails(t, [got |-> "read", class |-> "none"])

\* A batch leaves out what is gone; no other call does.
LeaveOut(t) ==
    /\ phase = "details" /\ t \in inFlight
    /\ "batch" \in Sh.details /\ t \notin present
    /\ SettleDetails(t, [got |-> "gone", class |-> "none"])

DetailsFail(t) ==
    /\ phase = "details" /\ t \in inFlight
    /\ \E kind \in Sh.details, e \in AwsErrors :
         LET seen == IF kind \in {"must", "batch"} THEN "throws" ELSE ObserveError(e, kind = "absent")
         IN SettleDetails(t, [got   |-> IF seen = "throws" THEN "rejected" ELSE seen,
                              class |-> ClassOf(e)])

Rejected == {t \in DOMAIN settled : settled[t].got = "rejected"}

(* allOrThrow() and the collectors that loop: any failure fails the        *)
(* attempt.  Buckets: only when all failed, or when one was throttled;     *)
(* the others are emitted with everything unknown.                         *)
FailureOfUnlessAll ==
    IF Rejected = Wanted THEN {settled[t].class : t \in Rejected} ELSE {}
FailureOf ==
    CASE Sh.settle = "all" -> {settled[t].class : t \in Rejected}
      [] Sh.settle = "buckets" /\ Rejected # {} /\ Rejected = Wanted ->
           {settled[t].class : t \in Rejected}
      [] OTHER -> {settled[t].class : t \in Rejected} \cap {"throttled"}

AllSettled == inFlight = {} /\ (Sh.details = {} \/ Waiting = {})

Return ==
    /\ phase = "details" /\ AllSettled
    /\ FailureOf = {}
    /\ outcome' = [t \in {u \in Wanted : u \in DOMAIN settled => settled[u].got # "gone"} |->
                     IF t \in DOMAIN settled /\ settled[t].got # "read"
                     THEN {settled[t].class} ELSE {}]
    /\ phase' = "returned"
    /\ UNCHANGED <<collector, present, there, open, unlisted, pages, listed, inFlight, settled,
                   tries, moved>>

ThrowFailure ==
    /\ phase = "details" /\ AllSettled
    /\ \E class \in FailureOf : ThrowError(class)

-----------------------------------------------------------------------------
\* A resource is removed or created in AWS while the collector runs; a terminated
\* instance does not come back.
Move(t) ==
    /\ phase \in {"listing", "details"}
    /\ Cardinality(moved) < MaxMoved
    /\ moved' = moved \cup {t}
    /\ UNCHANGED <<collector, there, phase, open, pages, listed, inFlight, settled, tries, outcome>>

Vanish(t) ==
    /\ t \in present
    /\ present' = present \ {t}
    /\ Move(t)
    /\ UNCHANGED unlisted

Appear(t) ==
    /\ t \notin present /\ there[t] = "there"
    /\ present' = present \cup {t}
    /\ Move(t)
    /\ unlisted' = unlisted \cup ({t} \ listed)

CollectionNext ==
    \/ \E l \in open : FetchPage(l) \/ PageFails(l)
    \/ \E t \in Things : StartDetails(t) \/ ReadDetails(t) \/ LeaveOut(t) \/ DetailsFail(t)
    \/ Return \/ ThrowFailure
    \/ \E t \in Things : Vanish(t) \/ Appear(t)

CollectionSpec == CollectionInit /\ [][CollectionNext]_collectionVars

-----------------------------------------------------------------------------
Visible == {t \in present : there[t] \notin Sh.hidden}

\* "dropping a failed item would make stale-marking treat it as deleted"
\* (services.ts:43) and "rather than overwrite good data with unknown"
\* (s3.ts:125): what a collector returns holds every resource that was there
\* since its attempt began and that it does not leave out, and no other that was
\* not there meanwhile, and what is unknown in it was not merely throttled,
\* whatever failed, was retried, was removed or was created in between.
ReturnsAreComplete ==
    phase = "returned" =>
        /\ MayReturn(Visible, moved, DOMAIN outcome)
        /\ \A t \in DOMAIN outcome : "throttled" \notin outcome[t]
=============================================================================
