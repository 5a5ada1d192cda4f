----------------------------- MODULE Connection -----------------------------
(***************************************************************************)
(* Connecting one AWS account (server/services/connection-service.ts,      *)
(* aws-session-service.ts, sync-service.ts; aws/sts.ts, diagnostics.ts,    *)
(* regions.ts).                                                            *)
(*                                                                         *)
(* A validation reads the connection, assumes the role, probes the account *)
(* and writes what it found; an access key goes the same way.  Between its *)
(* steps other validations, a failing synchronisation, a disconnection and *)
(* a new connection of the same account may run, and the customer changes  *)
(* the role.  Each writes by the id of the account and takes no lock.      *)
(* Credentials are model values; secrets, messages and audit entries are   *)
(* left out.  Who may ask is in Membership; that provisioning blocks a     *)
(* disconnection is in Provisioning.                                       *)
(***************************************************************************)
EXTENDS Naturals, FiniteSets

CONSTANTS
    RoleArns,       \* roles of the declared account
    AccessKeys,     \* access keys, of whatever account
    OwnKeys,        \* those of the declared account that are not root's
    AllRegions,     \* regions
    ConnCalls,      \* calls in flight
    MaxConnOps,     \* bound: calls, disconnections and changes by the customer
    MaxAccounts,    \* bound: rows ever created
    NoCred

VARIABLES
    conn,           \* the row of the account and of its connection
    customer,       \* the customer's side: whom roles trust, permissions, regions
    call,           \* call[c]: a call in flight
    firstJobs,      \* types of the initial jobs enqueued for this row
    alertRules,     \* the workspace has its recommended alert rules
    proven,         \* history: <<credential, row>>: shown to be of the declared account
    connOps         \* bound

connVars == <<conn, customer, call, firstJobs, alertRules, proven, connOps>>

Usable == {"CONNECTED", "NEEDS_ATTENTION", "PERMISSION_PROBLEM"}
ConnStatuses == Usable \cup {"ABSENT", "PENDING", "ROLE_UNAVAILABLE", "CONNECTION_FAILED"}
Syncable == Usable \cup {"ROLE_UNAVAILABLE"}
InitialJobs == {"INVENTORY_SYNC", "COST_SYNC"}

ASSUME ConnectionAssumption ==
    /\ OwnKeys \subseteq AccessKeys
    /\ NoCred \notin RoleArns \cup AccessKeys
    /\ IsFiniteSet(ConnCalls)
    /\ MaxConnOps \in Nat /\ MaxAccounts \in Nat

Absent(id) == [id |-> id, status |-> "ABSENT", method |-> "ASSUME_ROLE", role |-> NoCred,
               key |-> NoCred, regions |-> {}, allow |-> {}]
NoCall == [step |-> "idle", id |-> 0, cred |-> NoCred, was |-> FALSE, status |-> "ABSENT",
           regions |-> {}]

ConnInit ==
    /\ conn = Absent(0)
    /\ customer = [trust |-> [r \in RoleArns |-> 0], grants |-> "all", regions |-> AllRegions]
    /\ call = [c \in ConnCalls |-> NoCall]
    /\ firstJobs = {} /\ alertRules = FALSE
    /\ proven = {} /\ connOps = 0

-----------------------------------------------------------------------------
\* One more operation of somebody, within the bound.
Counted == connOps < MaxConnOps /\ connOps' = connOps + 1

\* startConnection(): a new row, unless there is one.
StartConnection ==
    /\ Counted
    /\ conn.status = "ABSENT" /\ conn.id < MaxAccounts
    /\ conn' = [Absent(conn.id + 1) EXCEPT !.status = "PENDING"]
    /\ firstJobs' = {}
    /\ UNCHANGED <<customer, call, alertRules, proven>>

\* disconnectAccount(): the rows of the account and its jobs go.
DisconnectAccount ==
    /\ Counted
    /\ conn.status # "ABSENT"
    /\ conn' = Absent(conn.id)
    /\ firstJobs' = {}
    /\ UNCHANGED <<customer, call, alertRules, proven>>

\* updateConnection() of the row this call read, if it is still there.
UpdateRow(c, row) == conn' = IF conn.id = call[c].id /\ conn.status # "ABSENT" THEN row ELSE conn

Go(c, step) == call' = [call EXCEPT ![c].step = step]
End(c) == call' = [call EXCEPT ![c] = NoCall]

-----------------------------------------------------------------------------
(* validateConnection().                                                   *)

\* Whether the account was connected before is decided here, from one read.
BeginValidate(c, role) ==
    /\ Counted
    /\ call[c] = NoCall
    /\ conn.status # "ABSENT" /\ conn.method = "ASSUME_ROLE"
    /\ call' = [call EXCEPT ![c] =
                  [NoCall EXCEPT !.step = "assume", !.id = conn.id, !.cred = role,
                                 !.was = conn.status \notin {"PENDING", "CONNECTION_FAILED"}]]
    /\ UNCHANGED <<conn, customer, firstJobs, alertRules, proven>>

\* trustPolicy(): a role trusts the platform for one ExternalId, and every
\* row of an account has its own.
Trusts(role, id) == customer.trust[role] = id

\* AssumeRole works and the caller is of the declared account.
Assume(c) ==
    /\ call[c].step = "assume" /\ Trusts(call[c].cred, call[c].id)
    /\ Go(c, "regions")
    /\ proven' = proven \cup {<<call[c].cred, call[c].id>>}
    /\ UNCHANGED <<conn, customer, firstJobs, alertRules, connOps>>

AssumeDenied(c) ==
    /\ call[c].step = "assume" /\ ~Trusts(call[c].cred, call[c].id)
    /\ Go(c, "fail")
    /\ UNCHANGED <<conn, customer, firstJobs, alertRules, proven, connOps>>

\* Throttled, or STS is not there: nothing is written.
AssumeUnavailable(c) ==
    /\ call[c].step = "assume"
    /\ End(c)
    /\ UNCHANGED <<conn, customer, firstJobs, alertRules, proven, connOps>>

\* fail(): the role is stored together with the failure.
WriteFailure(c) ==
    /\ call[c].step = "fail"
    /\ UpdateRow(c, [conn EXCEPT !.role = call[c].cred,
                       !.status = IF call[c].was THEN "ROLE_UNAVAILABLE" ELSE "CONNECTION_FAILED"])
    /\ End(c)
    /\ UNCHANGED <<customer, firstJobs, alertRules, proven, connOps>>

\* listEnabledRegions() may fail, which leaves none.
ReadRegions(c) ==
    /\ call[c].step \in {"regions", "keyRegions"}
    /\ \E found \in {customer.regions, {}} :
         call' = [call EXCEPT ![c].regions = found,
                              ![c].step = IF @ = "regions" THEN "probe" ELSE "keyProbe"]
    /\ UNCHANGED <<conn, customer, firstJobs, alertRules, proven, connOps>>

(* runDiagnostics() and statusFromDiagnostics(): a probe that must work,   *)
(* or one that may fail.  Without regions a role is not enough; of an      *)
(* access key that is not asked.                                           *)
Diagnosed(regionsNeeded, regions) ==
    CASE customer.grants = "few" \/ (regionsNeeded /\ regions = {}) -> "PERMISSION_PROBLEM"
      [] OTHER -> IF customer.grants = "some" THEN "NEEDS_ATTENTION" ELSE "CONNECTED"

Probe(c) ==
    /\ call[c].step \in {"probe", "keyProbe"}
    /\ call' = [call EXCEPT
                  ![c].status = Diagnosed(call[c].step = "probe", call[c].regions),
                  ![c].step = IF @ = "probe" THEN "write" ELSE "keyWrite"]
    /\ UNCHANGED <<conn, customer, firstJobs, alertRules, proven, connOps>>

\* The result is written; the first success of a row goes on to its first jobs.
WriteResult(c) ==
    /\ call[c].step = "write"
    /\ UpdateRow(c, [conn EXCEPT !.role = call[c].cred, !.status = call[c].status,
                                 !.regions = call[c].regions])
    /\ IF ~call[c].was /\ call[c].status # "PERMISSION_PROBLEM"
       THEN Go(c, "INVENTORY_SYNC") ELSE End(c)
    /\ UNCHANGED <<customer, firstJobs, alertRules, proven, connOps>>

Enqueues(c) == conn.id = call[c].id /\ conn.status # "ABSENT"

(* enqueueInitialSync(): one job after the other, then the alert rules;    *)
(* without its account a job cannot be inserted and the call throws.       *)
EnqueueFirst(c) ==
    /\ call[c].step \in InitialJobs
    /\ IF Enqueues(c)
       THEN /\ firstJobs' = firstJobs \cup {call[c].step}
            /\ Go(c, IF call[c].step = "INVENTORY_SYNC" THEN "COST_SYNC" ELSE "rules")
       ELSE End(c) /\ UNCHANGED firstJobs
    /\ UNCHANGED <<conn, customer, alertRules, proven, connOps>>

EnableRules(c) ==
    /\ call[c].step = "rules"
    /\ alertRules' = TRUE
    /\ End(c)
    /\ UNCHANGED <<conn, customer, firstJobs, proven, connOps>>

-----------------------------------------------------------------------------
(* connectWithAccessKey(): only where the deployment allows it.            *)

BeginKey(c, key) ==
    /\ Counted
    /\ call[c] = NoCall /\ conn.status # "ABSENT"
    /\ call' = [call EXCEPT ![c] = [NoCall EXCEPT !.step = "identity", !.id = conn.id, !.cred = key]]
    /\ UNCHANGED <<conn, customer, firstJobs, alertRules, proven>>

\* Mutant: the caller's account is not compared with the declared one.
OfTheAccountIfKnown(key) == key \in AccessKeys
OfTheAccount(key) == key \in OwnKeys

\* GetCallerIdentity: root's keys and those of another account are refused.
IdentifyKey(c) ==
    /\ call[c].step = "identity"
    /\ IF OfTheAccount(call[c].cred) THEN Go(c, "keyRegions") ELSE End(c)
    /\ proven' = IF call[c].cred \in OwnKeys THEN proven \cup {<<call[c].cred, call[c].id>>} ELSE proven
    /\ UNCHANGED <<conn, customer, firstJobs, alertRules, connOps>>

\* The key is stored with the result; no first jobs are enqueued.
WriteKey(c) ==
    /\ call[c].step = "keyWrite"
    /\ UpdateRow(c, [conn EXCEPT !.method = "ACCESS_KEY", !.key = call[c].cred,
                                 !.status = call[c].status, !.regions = call[c].regions])
    /\ End(c)
    /\ UNCHANGED <<customer, firstJobs, alertRules, proven, connOps>>

-----------------------------------------------------------------------------
(* The rest.                                                               *)

\* openAwsSession(): what a job or a request may use of the row.
MayOpenSession ==
    /\ conn.status \notin {"ABSENT", "PENDING"}
    /\ (conn.method = "ASSUME_ROLE") => conn.role # NoCred

\* effectiveRegions(): an empty allow list allows everything.
EffectiveRegions == IF conn.allow = {} THEN conn.regions ELSE conn.regions \cap conn.allow

\* An inventory job finds that its role cannot be assumed ...
SyncDenied(c) ==
    /\ Counted
    /\ call[c] = NoCall /\ MayOpenSession /\ conn.status \in Syncable
    /\ conn.method = "ASSUME_ROLE" /\ ~Trusts(conn.role, conn.id)
    /\ call' = [call EXCEPT ![c] = [NoCall EXCEPT !.step = "mark", !.id = conn.id]]
    /\ UNCHANGED <<conn, customer, firstJobs, alertRules, proven>>

\* ... and marks the connection, whatever it has become meanwhile.
SyncMarks(c) ==
    /\ call[c].step = "mark"
    /\ UpdateRow(c, [conn EXCEPT !.status = "ROLE_UNAVAILABLE"])
    /\ End(c)
    /\ UNCHANGED <<customer, firstJobs, alertRules, proven, connOps>>

\* setRegionAllowlist(): only regions that are enabled.
SetAllowlist(regions) ==
    /\ Counted
    /\ conn.status # "ABSENT" /\ regions \subseteq conn.regions
    /\ conn' = [conn EXCEPT !.allow = regions]
    /\ UNCHANGED <<customer, call, firstJobs, alertRules, proven>>

\* The process that serves a call dies.
CallDies(c) ==
    /\ call[c] # NoCall
    /\ End(c)
    /\ UNCHANGED <<conn, customer, firstJobs, alertRules, proven, connOps>>

\* The customer creates a role from the template, or the commands, shown for
\* a row of the account; it may read everything.
DeployRole(role, id) ==
    /\ id \in 1..conn.id /\ customer.trust[role] < id
    /\ customer' = [customer EXCEPT !.trust[role] = id, !.grants = "all"]
    /\ UNCHANGED <<conn, call, firstJobs, alertRules, proven, connOps>>

\* The customer deletes a role, changes permissions or the regions.
CustomerChanges ==
    /\ Counted
    /\ \/ \E r \in RoleArns : customer.trust[r] # 0 /\ customer' = [customer EXCEPT !.trust[r] = 0]
       \/ \E g \in {"all", "some", "few"} \ {customer.grants} : customer' = [customer EXCEPT !.grants = g]
       \/ \E r \in AllRegions : customer' = [customer EXCEPT !.regions = @ \ {r}]
    /\ UNCHANGED <<conn, call, firstJobs, alertRules, proven>>

\* getSetupInstructions(): what creates the role, as long as the row is there.
HasSetup(id) == conn.id = id /\ conn.status # "ABSENT"

\* A call arrives; it goes on.
Arrives(c) ==
    \/ \E r \in RoleArns : BeginValidate(c, r)
    \/ \E k \in AccessKeys : BeginKey(c, k)
    \/ SyncDenied(c)

ValidationGoesOn(c) ==
    \/ Assume(c) \/ AssumeDenied(c) \/ AssumeUnavailable(c) \/ WriteFailure(c)
    \/ ReadRegions(c) \/ Probe(c) \/ WriteResult(c) \/ EnqueueFirst(c) \/ EnableRules(c)

GoesOn(c) == ValidationGoesOn(c) \/ IdentifyKey(c) \/ WriteKey(c) \/ SyncMarks(c)

ConnNext ==
    \/ StartConnection \/ DisconnectAccount \/ CustomerChanges
    \/ \E r \in RoleArns : \E id \in 1..MaxAccounts : DeployRole(r, id)
    \/ \E regions \in SUBSET AllRegions : SetAllowlist(regions)
    \/ \E c \in ConnCalls : Arrives(c) \/ GoesOn(c) \/ CallDies(c)

ConnSpec == ConnInit /\ [][ConnNext]_connVars

-----------------------------------------------------------------------------
\* A connection that says it can be used has credentials that were shown, for
\* this row, to be of the declared account, however validations, access keys, marks of
\* failed jobs and new connections of the account overlap.
UsableIsProven ==
    conn.status \in Usable =>
        <<IF conn.method = "ACCESS_KEY" THEN conn.key ELSE conn.role, conn.id>> \in proven
=============================================================================
