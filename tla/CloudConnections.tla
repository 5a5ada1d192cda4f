-------------------------- MODULE CloudConnections --------------------------
(***************************************************************************)
(* The connection of one Google Cloud project or Azure subscription        *)
(* (server/services/cloud-service.ts, server/cloud/adapters.ts): one row   *)
(* with sealed credentials, the last complete snapshot of each capability, *)
(* a status, and the lease of the refresh at work.                         *)
(*                                                                         *)
(* Connecting collects first and writes only if the row is still the one   *)
(* it saw (updatedAt); refreshing claims the row under a token and a lease *)
(* and writes only while the row holds that token; disconnecting takes     *)
(* both away.  Calls overlap, end anywhere, and outlive their lease.       *)
(*                                                                         *)
(* A capability's listing is read page by page and is complete or nothing. *)
(* A moment is a point in time at which a row is written or a provider is  *)
(* asked; two of them differ.  Every sealing of credentials is different,  *)
(* so credentials are named by the moment they were collected with first.  *)
(***************************************************************************)
EXTENDS Naturals

CONSTANTS
    CloudCalls,     \* calls at work at the same time
    MaxPages,       \* pages of one listing
    Marks,          \* external: page tokens of the provider
    MaxMoments      \* bound

ASSUME CloudAssumption == MaxPages \in Nat \ {0} /\ MaxMoments \in Nat

VARIABLES
    cloud,          \* the row of cloud_connections
    visit,          \* visit[c]: what a call remembers
    moment

cloudVars == <<cloud, visit, moment>>

Capabilities == {"inventory", "billing", "security"}

\* Credentials: when they were given, and whether they name a billing export.
NoCredential == [given |-> 0, table |-> FALSE]
NoSnapshot   == [at |-> 0, by |-> 0]
NoToken      == 0

NoCloudRow ==
    [status |-> "NONE", credential |-> NoCredential,
     snapshot |-> [p \in Capabilities |-> NoSnapshot],
     token |-> NoToken, leased |-> FALSE, updatedAt |-> 0]

NoVisit ==
    [step |-> "idle", credential |-> NoCredential, seen |-> 0, token |-> NoToken,
     at |-> 0, ready |-> {}]

CloudInit ==
    /\ cloud = NoCloudRow
    /\ visit = [c \in CloudCalls |-> NoVisit]
    /\ moment = 0

Known == cloud.status # "NONE"

Pass == moment < MaxMoments /\ moment' = moment + 1

Becomes(c, v) == visit' = [visit EXCEPT ![c] = v]

-----------------------------------------------------------------------------
(* The adapters.                                                           *)

\* What a page says: where the next one is, that it is the last, that the
\* request failed, or that there are too many rows.
Answers  == Marks \cup {"last", "failed", "too much"}
Listings == UNION {[1..n -> Answers] : n \in 1..MaxPages + 1}

\* googlePages(), azurePages(): all pages, within the limit, none twice.
Whole(listing) ==
    \E last \in DOMAIN listing :
        /\ last <= MaxPages
        /\ listing[last] = "last"
        /\ \A i \in 1..last - 1 :
             /\ listing[i] \in Marks
             /\ \A j \in 1..i - 1 : listing[i] # listing[j]

Wholes == {Whole(listing) : listing \in Listings}

\* collectCloud(): the capabilities that may come complete; Google's spending
\* only with a billing export.
Collected(table) ==
    {ready \in SUBSET Capabilities :
       \A p \in Capabilities : (p \in ready) \in {whole /\ (p = "billing" => table) : whole \in Wholes}}

-----------------------------------------------------------------------------
(* connectCloud().                                                         *)

StartConnect(c) ==
    /\ visit[c].step = "idle"
    /\ Becomes(c, [NoVisit EXCEPT !.step = "verify", !.seen = cloud.updatedAt])
    /\ UNCHANGED <<cloud, moment>>

\* The provider is asked with the credentials of the form; without an
\* inventory, or without a token at all, the call ends.
VerifyConnect(c) ==
    /\ visit[c].step = "verify"
    /\ Pass
    /\ \E table \in BOOLEAN : \E ready \in Collected(table) :
         Becomes(c, IF "inventory" \in ready
                    THEN [visit[c] EXCEPT !.step = "check", !.at = moment', !.ready = ready,
                                          !.credential = [given |-> moment', table |-> table]]
                    ELSE NoVisit)
    /\ UNCHANGED cloud

\* The transaction locks the workspace: one connect at a time.
CheckConnect(c) ==
    /\ visit[c].step = "check"
    /\ \A d \in CloudCalls : visit[d].step # "replace"
    /\ Becomes(c, IF cloud.updatedAt = visit[c].seen /\ ~cloud.leased
                  THEN [visit[c] EXCEPT !.step = "replace"]
                  ELSE NoVisit)
    /\ UNCHANGED <<cloud, moment>>

\* snapshotUpdate(), with the token and the lease cleared.
Updated(row, v, now) ==
    [row EXCEPT
       !.status = IF v.ready = Capabilities THEN "CONNECTED" ELSE "NEEDS_ATTENTION",
       !.snapshot = [p \in Capabilities |-> IF p \in v.ready
                                            THEN [at |-> v.at, by |-> v.credential.given]
                                            ELSE row.snapshot[p]],
       !.token = NoToken, !.leased = FALSE, !.updatedAt = now]

\* A claim or a disconnect takes no lock: the row must still be the one seen.
ReplaceCredentials(c) ==
    /\ visit[c].step = "replace"
    /\ IF cloud.updatedAt = visit[c].seen
       THEN /\ Pass
            /\ cloud' = [Updated(cloud, visit[c], moment') EXCEPT !.credential = visit[c].credential]
       ELSE UNCHANGED <<cloud, moment>>
    /\ Becomes(c, NoVisit)

-----------------------------------------------------------------------------
(* refreshCloud().                                                         *)

StartRefresh(c) ==
    /\ visit[c].step = "idle"
    /\ Known /\ cloud.credential # NoCredential
    /\ Becomes(c, [NoVisit EXCEPT !.step = "claim", !.credential = cloud.credential])
    /\ UNCHANGED <<cloud, moment>>

MayClaim(c) == cloud.credential = visit[c].credential /\ ~cloud.leased

ClaimRefresh(c) ==
    /\ visit[c].step = "claim"
    /\ IF MayClaim(c)
       THEN /\ Pass
            /\ cloud' = [cloud EXCEPT !.token = moment', !.leased = TRUE, !.updatedAt = moment']
            /\ Becomes(c, [visit[c] EXCEPT !.step = "collect", !.token = moment'])
       ELSE UNCHANGED <<cloud, moment>> /\ Becomes(c, NoVisit)

CollectRefresh(c) ==
    /\ visit[c].step = "collect"
    /\ Pass
    /\ \E ready \in Collected(visit[c].credential.table) :
         Becomes(c, [visit[c] EXCEPT !.step = "store", !.at = moment', !.ready = ready])
    /\ UNCHANGED cloud

\* The credentials cannot be opened, or give no token.
RefreshThrows(c) ==
    /\ visit[c].step = "collect"
    /\ Becomes(c, [visit[c] EXCEPT !.step = "fail"])
    /\ UNCHANGED <<cloud, moment>>

StoreRefresh(c) ==
    /\ visit[c].step = "store"
    /\ IF cloud.token = visit[c].token
       THEN /\ Pass
            /\ cloud' = Updated(cloud, visit[c], moment')
            /\ Becomes(c, NoVisit)
       ELSE /\ Becomes(c, [visit[c] EXCEPT !.step = "fail"])
            /\ UNCHANGED <<cloud, moment>>

FailRefresh(c) ==
    /\ visit[c].step = "fail"
    /\ IF cloud.token = visit[c].token
       THEN /\ Pass
            /\ cloud' = [cloud EXCEPT !.status = "NEEDS_ATTENTION", !.token = NoToken,
                                      !.leased = FALSE, !.updatedAt = moment']
       ELSE UNCHANGED <<cloud, moment>>
    /\ Becomes(c, NoVisit)

-----------------------------------------------------------------------------
\* The process of a call ends; the row keeps what it was given.
CallEnds(c) ==
    /\ visit[c].step # "idle"
    /\ Becomes(c, NoVisit)
    /\ UNCHANGED <<cloud, moment>>

\* Five minutes have passed since the claim, whether its call is alive or not.
CloudLeaseEnds ==
    /\ cloud.leased
    /\ cloud' = [cloud EXCEPT !.leased = FALSE]
    /\ UNCHANGED <<visit, moment>>

\* disconnectCloud(): the snapshots stay.
\* Mutant: the refresh at work keeps its token.
TokenKept == cloud.token
TokenAfterDisconnect == NoToken

DisconnectCloud ==
    /\ Known /\ Pass
    /\ cloud' = [cloud EXCEPT !.credential = NoCredential, !.status = "DISCONNECTED",
                              !.token = TokenAfterDisconnect, !.leased = FALSE,
                              !.updatedAt = moment']
    /\ UNCHANGED visit

CloudNext ==
    \/ \E c \in CloudCalls :
         \/ StartConnect(c) \/ VerifyConnect(c) \/ CheckConnect(c) \/ ReplaceCredentials(c)
         \/ StartRefresh(c) \/ ClaimRefresh(c) \/ CollectRefresh(c) \/ RefreshThrows(c)
         \/ StoreRefresh(c) \/ FailRefresh(c) \/ CallEnds(c)
    \/ CloudLeaseEnds
    \/ DisconnectCloud

CloudSpec == CloudInit /\ [][CloudNext]_cloudVars

-----------------------------------------------------------------------------
(* Properties.                                                             *)

\* dto(): a capability the reader may not read is left out.
Shown(may) ==
    [status |-> cloud.status,
     snapshot |-> [p \in Capabilities |-> IF p \in may THEN cloud.snapshot[p] ELSE NoSnapshot]]

CloudStatus == {"NONE", "CONNECTED", "NEEDS_ATTENTION", "DISCONNECTED"}
Moments     == 0..moment
Credentials == [given : Moments, table : BOOLEAN]
CloudSteps  == {"idle", "verify", "check", "replace", "claim", "collect", "store", "fail"}

CloudTypes ==
    /\ moment \in Nat
    /\ cloud \in [status : CloudStatus, credential : Credentials,
                  snapshot : [Capabilities -> [at : Moments, by : Moments]],
                  token : Moments, leased : BOOLEAN, updatedAt : Moments]
    /\ visit \in [CloudCalls ->
                    [step : CloudSteps, credential : Credentials, seen : Moments,
                     token : Moments, at : Moments, ready : SUBSET Capabilities]]

\* Whatever a reader may see of a connection that says CONNECTED comes from one
\* collection, made with the very credentials the row still holds: not from a
\* refresh that a reconnection or a disconnection overtook.
ConnectedIsOneCollection ==
    \A may \in SUBSET Capabilities :
        Shown(may).status = "CONNECTED" =>
            \E at \in 1..moment : \A p \in may :
                Shown(may).snapshot[p] = [at |-> at, by |-> cloud.credential.given]

\* A connection has credentials unless it was disconnected: no refresh brings
\* the row back to life without them.
DisconnectedHasNone == Known => (cloud.status = "DISCONNECTED" <=> cloud.credential = NoCredential)

\* A stored snapshot is never replaced by one collected before it.
SnapshotsMoveForward ==
    [][\A p \in Capabilities : cloud.snapshot[p].at <= cloud'.snapshot[p].at]_cloudVars
=============================================================================
