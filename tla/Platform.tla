------------------------------- MODULE Platform -------------------------------
(***************************************************************************)
(* The platform's own AWS identity (server/aws/platform-credentials.ts,    *)
(* platform-identity.ts, sts.ts, client-factory.ts; services/platform-     *)
(* setup-service.ts; security/envelope.ts; instrumentation.ts).            *)
(*                                                                         *)
(* One row of the database holds it, encrypted.  Every process keeps what  *)
(* it last read for a while, and decides from it whether a new AWS client  *)
(* is real or answers from fixtures.  A lookup reads the row and decrypts  *)
(* it in steps, with other lookups, a new identity and a synchronisation   *)
(* of the same process in between.  Credentials are model values; an       *)
(* envelope is the value with the key provider and the context it was      *)
(* sealed under.  Who is an owner is in Membership.                        *)
(***************************************************************************)
EXTENDS Naturals

CONSTANTS
    Processes,      \* web servers and workers
    Callers,        \* requests and jobs
    ProcessOf,      \* the process a caller runs in
    Keys,           \* access keys an owner enters
    WhoIs,          \* WhoIs[k]: what AWS says of a key
    NoKey,
    FixtureEnv,     \* AWS_MODE = fixtures
    SetupAllowed,   \* ALLOW_IN_APP_PLATFORM_SETUP
    Chain,          \* what the environment's own credentials are
    Providers,      \* key providers the deployment has been configured with
    Things,         \* resources of one account, one a task
    CacheTtl,
    MaxClock, MaxSaves, MaxBoots    \* bounds

VARIABLES
    secretRow,      \* the platformCredential row: an envelope
    lastStored,     \* history: the last time the row held this key
    provider,       \* provider[p]: the key provider a process is configured with
    cache,          \* cache[p]: what a process remembers
    lookup,         \* lookup[c]: loadPlatformIdentity() in flight
    saving,         \* the step of the one owner who changes the identity
    sync,           \* the synchronisation of the account
    found,          \* found[t]: where the stored row of a resource came from
    syntheticData, syncStatus,      \* columns of the account
    clock, saves, boots

platformVars == <<secretRow, lastStored, provider, cache, lookup, saving, sync, found,
                  syntheticData, syncStatus, clock, saves, boots>>

ASSUME PlatformAssumption ==
    /\ NoKey \notin Keys /\ ProcessOf \in [Callers -> Processes]
    /\ WhoIs \in [Keys -> {"user", "root", "unusable", "rejected"}]
    /\ Chain \in {"principal", "root", "other", "none"}
    /\ FixtureEnv \in BOOLEAN /\ SetupAllowed \in BOOLEAN
    /\ CacheTtl \in Nat /\ MaxClock \in Nat /\ MaxSaves \in Nat /\ MaxBoots \in Nat

\* encryptSecret(), decryptSecret(): an envelope opens only with the provider
\* and in the context it was sealed with.
Encrypt(p, key, context) == [key |-> key, by |-> provider[p], context |-> context]
Decrypts(by, envelope, context) == envelope.by = by /\ envelope.context = context

SecretContext == "platform_credentials"
NoRow == [key |-> NoKey, by |-> CHOOSE k \in Providers : TRUE, context |-> SecretContext]

NoCache == [kind |-> "none", key |-> NoKey, at |-> 0]
NoLookup == [step |-> "idle", key |-> NoKey, at |-> 0]
NoSave == [step |-> "idle", key |-> NoKey, process |-> CHOOSE p \in Processes : TRUE]
NoSyncRun == [step |-> "idle", by |-> "nobody", session |-> "none",
              ok |-> {}, todo |-> {}]

\* Every process has started, with or without an identity in the row.
PlatformInit ==
    /\ provider \in [Processes -> Providers]
    /\ secretRow \in {NoRow} \cup {[key |-> k, by |-> NoRow.by, context |-> SecretContext] :
                               k \in {x \in Keys : WhoIs[x] = "user"}}
    /\ lastStored = [k \in Keys \cup {NoKey} |-> 0]
    /\ cache = [p \in Processes |->
                   IF secretRow.key = NoKey \/ Decrypts(provider[p], secretRow, SecretContext)
                   THEN [kind |-> "loaded", key |-> secretRow.key, at |-> 0]
                   ELSE [kind |-> "unknown", key |-> NoKey, at |-> 0]]
    /\ lookup = [c \in Callers |-> NoLookup]
    /\ saving = NoSave /\ sync = NoSyncRun
    /\ found = [t \in Things |-> "none"]
    /\ syntheticData = FALSE /\ syncStatus = "NEVER"
    /\ clock = 0 /\ saves = 0 /\ boots = 0

-----------------------------------------------------------------------------
\* Time passes.
PlatformTick ==
    /\ clock < MaxClock
    /\ clock' = clock + 1
    /\ lastStored' = [lastStored EXCEPT ![secretRow.key] = clock + 1]
    /\ UNCHANGED <<secretRow, provider, cache, lookup, saving, sync, found, syntheticData,
                   syncStatus, saves, boots>>

(* loadPlatformIdentity().                                                 *)

Remembered(p) == cache[p].kind = "loaded" /\ clock - cache[p].at < CacheTtl

\* What is remembered answers at once, or the row is asked for.
BeginLookup(c) ==
    LET p == ProcessOf[c] IN
    /\ lookup[c].step = "idle"
    /\ lookup' = [lookup EXCEPT ![c] =
           IF Remembered(p) THEN [step |-> "answered", key |-> cache[p].key, at |-> clock]
                            ELSE [step |-> "reading", key |-> NoKey, at |-> clock]]
    /\ UNCHANGED <<secretRow, lastStored, provider, cache, saving, sync, found, syntheticData,
                   syncStatus, clock, saves, boots>>

\* The lookup ends with this key, and the process remembers it from the time
\* the lookup began.
\* Mutant: from the time it ends.
AnswerFromNow(c, kind, key) ==
    /\ cache' = [cache EXCEPT ![ProcessOf[c]] = [kind |-> kind, key |-> key, at |-> clock]]
    /\ lookup' = [lookup EXCEPT ![c].step = "answered", ![c].key = key]
Answer(c, kind, key) ==
    /\ cache' = [cache EXCEPT ![ProcessOf[c]] = [kind |-> kind, key |-> key, at |-> lookup[c].at]]
    /\ lookup' = [lookup EXCEPT ![c].step = "answered", ![c].key = key]

\* Without a row there is nothing to decrypt.
ReadRow(c) ==
    /\ lookup[c].step = "reading"
    /\ \/ secretRow.key = NoKey /\ Answer(c, "loaded", NoKey)
       \/ /\ secretRow.key # NoKey
          /\ lookup' = [lookup EXCEPT ![c].step = IF Decrypts(provider[ProcessOf[c]], secretRow, SecretContext)
                                                  THEN "decrypting"
                                                  ELSE "failing",
                                      ![c].key = secretRow.key]
          /\ UNCHANGED cache
    /\ UNCHANGED <<secretRow, lastStored, provider, saving, sync, found, syntheticData, syncStatus,
                   clock, saves, boots>>

Decrypted(c) ==
    /\ lookup[c].step = "decrypting"
    /\ Answer(c, "loaded", lookup[c].key)
    /\ UNCHANGED <<secretRow, lastStored, provider, saving, sync, found, syntheticData, syncStatus,
                   clock, saves, boots>>

\* The database or the key service fails: whether there are credentials is
\* unknown, and the caller gets none.
LookupFails(c) ==
    /\ lookup[c].step \in {"reading", "decrypting", "failing"}
    /\ Answer(c, "unknown", NoKey)
    /\ UNCHANGED <<secretRow, lastStored, provider, saving, sync, found, syntheticData, syncStatus,
                   clock, saves, boots>>

\* A request uses its answer (describePlatformIdentity and others).
UseAnswer(c) ==
    /\ lookup[c].step = "answered" /\ (sync.step = "idle" \/ sync.by # c)
    /\ lookup' = [lookup EXCEPT ![c] = NoLookup]
    /\ UNCHANGED <<secretRow, lastStored, provider, cache, saving, sync, found, syntheticData,
                   syncStatus, clock, saves, boots>>

\* awsMode(): whether a client created now is real.  It never reads the row.
AwsMode(p) ==
    IF ~FixtureEnv \/ cache[p].kind = "unknown"
       \/ (cache[p].kind = "loaded" /\ cache[p].key # NoKey)
    THEN "live" ELSE "fixtures"

-----------------------------------------------------------------------------
(* An owner changes the identity; a process starts.                        *)

Store(envelope) ==
    /\ secretRow' = envelope
    /\ lastStored' = [lastStored EXCEPT ![envelope.key] = clock]

\* savePlatformCredentials() up to the upsert: AWS names the principal, and the
\* root user is refused.
SaveCredentials(p, k) ==
    /\ saves < MaxSaves /\ SetupAllowed
    /\ saving.step = "idle" /\ WhoIs[k] = "user"
    /\ Store(Encrypt(p, k, SecretContext))
    /\ saving' = [step |-> "stored", key |-> k, process |-> p]
    /\ saves' = saves + 1
    /\ UNCHANGED <<provider, cache, lookup, sync, found, syntheticData, syncStatus, clock, boots>>

\* clearPlatformCredentials() up to the delete.
ClearCredentials(p) ==
    /\ saves < MaxSaves /\ SetupAllowed
    /\ saving.step = "idle"
    /\ Store(NoRow)
    /\ saving' = [step |-> "stored", key |-> NoKey, process |-> p]
    /\ saves' = saves + 1
    /\ UNCHANGED <<provider, cache, lookup, sync, found, syntheticData, syncStatus, clock, boots>>

\* Only the process that stored forgets at once.
InvalidateCache ==
    /\ saving.step = "stored"
    /\ cache' = [cache EXCEPT ![saving.process] = NoCache]
    /\ saving' = NoSave
    /\ UNCHANGED <<secretRow, lastStored, provider, lookup, sync, found, syntheticData, syncStatus,
                   clock, saves, boots>>

\* verifyPlatformIdentity(): a process starts (again) when what it would use is
\* a fixture, the expected principal, or not there at all.
BootProcess(p, asks) ==
    LET opens == Decrypts(asks, secretRow, SecretContext)
        memory == [kind |-> IF secretRow.key = NoKey \/ opens THEN "loaded" ELSE "unknown",
                   key |-> IF opens THEN secretRow.key ELSE NoKey, at |-> clock]
        fixtures == FixtureEnv /\ memory.kind = "loaded" /\ memory.key = NoKey IN
    /\ boots < MaxBoots
    /\ fixtures \/ memory.key # NoKey \/ Chain \in {"principal", "none"}
    /\ provider' = [provider EXCEPT ![p] = asks]
    /\ cache' = [cache EXCEPT ![p] = memory]
    /\ lookup' = [c \in Callers |-> IF ProcessOf[c] = p THEN NoLookup ELSE lookup[c]]
    /\ sync' = IF sync.step # "idle" /\ ProcessOf[sync.by] = p THEN NoSyncRun ELSE sync
    /\ saving' = IF saving.process = p THEN NoSave ELSE saving
    /\ boots' = boots + 1
    /\ UNCHANGED <<secretRow, lastStored, found, syntheticData, syncStatus, clock, saves>>

-----------------------------------------------------------------------------
(* runInventorySync(), as far as the identity decides what it stores.      *)

BeginSync(c) ==
    /\ sync.step = "idle" /\ lookup[c] = NoLookup
    /\ sync' = [NoSyncRun EXCEPT !.step = "region", !.by = c, !.todo = Things]
    /\ syncStatus' = "RUNNING"
    /\ UNCHANGED <<secretRow, lastStored, provider, cache, lookup, saving, found, syntheticData,
                   clock, saves, boots>>

\* callAssumeRole() asks for the region first, then for the credentials.
SyncHasRegion ==
    /\ sync.step = "region" /\ lookup[sync.by].step = "answered"
    /\ sync' = [sync EXCEPT !.step = "credentials"]
    /\ lookup' = [lookup EXCEPT ![sync.by] = NoLookup]
    /\ UNCHANGED <<secretRow, lastStored, provider, cache, saving, found, syntheticData, syncStatus,
                   clock, saves, boots>>

\* AssumeRole, real or from the fixture.
AssumeForSync ==
    LET mode == AwsMode(ProcessOf[sync.by])
        real == lookup[sync.by].key # NoKey \/ Chain # "none" IN
    /\ sync.step = "credentials" /\ lookup[sync.by].step = "answered"
    /\ lookup' = [lookup EXCEPT ![sync.by] = NoLookup]
    /\ \/ /\ mode = "fixtures" \/ real
          /\ sync' = [sync EXCEPT !.step = "collecting", !.session = mode]
          /\ UNCHANGED syncStatus
       \/ /\ mode = "live"
          /\ sync' = NoSyncRun /\ syncStatus' = "FAILED"
    /\ UNCHANGED <<secretRow, lastStored, provider, cache, saving, found, syntheticData, clock,
                   saves, boots>>

\* A task creates its client now: a fixture answers whatever the session is, a
\* real call needs a real session and may fail.
CollectThing(t, ok) ==
    LET mode == AwsMode(ProcessOf[sync.by]) IN
    /\ sync.step = "collecting" /\ t \in sync.todo
    /\ ok => mode = "fixtures" \/ sync.session = "live"
    /\ (mode = "fixtures") => ok
    /\ sync' = [sync EXCEPT !.todo = @ \ {t}, !.ok = IF ok THEN @ \cup {t} ELSE @]
    /\ found' = IF ok THEN [found EXCEPT ![t] = mode] ELSE found
    /\ UNCHANGED <<secretRow, lastStored, provider, cache, lookup, saving, syntheticData, syncStatus,
                   clock, saves, boots>>

\* The account is labelled with the mode of this moment.
LabelSync ==
    /\ sync.step = "collecting" /\ sync.todo = {}
    /\ syncStatus' = IF sync.ok = Things THEN "SUCCEEDED" ELSE IF sync.ok # {} THEN "PARTIAL" ELSE "FAILED"
    /\ syntheticData' = IF sync.ok # {} THEN AwsMode(ProcessOf[sync.by]) = "fixtures" ELSE syntheticData
    /\ sync' = NoSyncRun
    /\ UNCHANGED <<secretRow, lastStored, provider, cache, lookup, saving, found, clock, saves, boots>>

PlatformNext ==
    \/ PlatformTick
    \/ \E c \in Callers : \/ BeginLookup(c) \/ ReadRow(c) \/ Decrypted(c) \/ LookupFails(c)
                          \/ UseAnswer(c) \/ BeginSync(c)
    \/ \E p \in Processes : \/ \E k \in Keys : SaveCredentials(p, k)
                            \/ ClearCredentials(p)
                            \/ \E asks \in Providers : BootProcess(p, asks)
    \/ InvalidateCache
    \/ SyncHasRegion \/ AssumeForSync \/ LabelSync
    \/ \E t \in Things, ok \in BOOLEAN : CollectThing(t, ok)

PlatformSpec == PlatformInit /\ [][PlatformNext]_platformVars

-----------------------------------------------------------------------------
\* An identity answered from memory was the stored one less than the cache's
\* lifetime ago, however slow the lookup that found it was and whatever was
\* stored or removed meanwhile, by this process or by another.
MemoryIsRecent ==
    [][\A c \in Callers :
         (lookup[c].step = "idle" /\ lookup'[c].step = "answered")
            => lastStored[lookup'[c].key] + CacheTtl > clock]_platformVars
===============================================================================
