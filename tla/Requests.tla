------------------------------- MODULE Requests -------------------------------
(***************************************************************************)
(* A request from the proxy to its answer (proxy.ts; server/http/route.ts, *)
(* csrf.ts, safe-json.ts; auth/session.ts; authz/guard.ts; security/rate-  *)
(* limit.ts; cache/tenant-cache.ts), for one user of one workspace, and    *)
(* the page that follows the data (the live stream, components/layout/     *)
(* live-updates.tsx).                                                      *)
(*                                                                         *)
(* The data of the workspace is a count of the writes made to it; its      *)
(* version is raised with a write or after it.  Requests run in one        *)
(* process between which its cache is shared, and count themselves in rows *)
(* of the database that the worker removes when they are past.             *)
(***************************************************************************)
EXTENDS Naturals, FiniteSets, Sequences

CONSTANTS
    Calls,          \* requests in flight
    Inputs,         \* what a browser may send: [origin, json, size, body]
    RateLimit,      \* admitted requests in one window
    MaxEntries,     \* entries of the cache
    EntryTtl,       \* windows an entry lives
    MaxBody,        \* bound of the code: size of a body
    MaxWindow, MaxWrites, MaxRequests,  \* bounds
    NoVersion

VARIABLES
    window,         \* the time, in windows
    signedIn,       \* the session of the user has not ended
    mayRead,        \* the user is a member with the permission
    data, version,  \* writes to the workspace; its inventoryVersion
    dataAt,         \* history: dataAt[v]: the data when version v began
    owed,           \* a write waits for its version
    store,          \* the cache, oldest entry first
    bucket,         \* the rows of the limiter: counts by window
    admitted,       \* history: requests let in under each window
    rounds,         \* history: how often the row of a window that had ended was removed
    request,        \* request[r]
    sent,           \* bound
    page            \* the version a page was rendered with, and what it heard

requestVars == <<window, signedIn, mayRead, data, version, dataAt, owed, store, bucket,
                 admitted, rounds, request, sent, page>>

Windows == 0 .. MaxWindow

ASSUME RequestsAssumption ==
    /\ RateLimit \in Nat /\ MaxEntries \in Nat \ {0} /\ EntryTtl \in Nat /\ MaxBody \in Nat
    /\ MaxWindow \in Nat /\ MaxWrites \in Nat /\ MaxRequests \in Nat
    /\ NoVersion \notin Nat

Waiting == [step |-> "idle", window |-> 0, version |-> 0, value |-> 0]

RequestsInit ==
    /\ window = 0 /\ signedIn = TRUE /\ mayRead = TRUE
    /\ data = 0 /\ version = 0 /\ dataAt = [v \in 0 .. MaxWrites |-> 0] /\ owed = FALSE
    /\ store = <<>>
    /\ bucket = [w \in Windows |-> 0] /\ admitted = [w \in Windows |-> 0]
    /\ rounds = [w \in Windows |-> 0]
    /\ request = [r \in Calls |-> Waiting]
    /\ sent = 0
    /\ page = [shows |-> 0, heard |-> NoVersion, first |-> NoVersion, refresh |-> FALSE]

-----------------------------------------------------------------------------
(* The pipeline of one request.                                            *)

Step(r, step) == request' = [request EXCEPT ![r].step = step]
\* The answer: what was asked for, or the error with this code.
Reply(r, code) == request' = [request EXCEPT ![r] = Waiting]

\* The proxy and route.ts: the origin, the session, then the input, all before
\* the workspace is looked at.  Reading the body takes its time.
Arrive(r, input) ==
    /\ request[r].step = "idle" /\ sent < MaxRequests
    /\ sent' = sent + 1
    /\ \/ ~input.origin /\ Reply(r, "CSRF_REJECTED")
       \/ input.origin /\ ~signedIn /\ Reply(r, "UNAUTHENTICATED")
       \/ input.origin /\ signedIn /\ input.size > MaxBody /\ Reply(r, "PAYLOAD_TOO_LARGE")
       \/ /\ input.origin /\ signedIn /\ input.size <= MaxBody
          /\ ~input.json \/ ~input.valid
          /\ Reply(r, "VALIDATION_FAILED")
       \/ /\ input.origin /\ signedIn /\ input.size <= MaxBody /\ input.json /\ input.valid
          /\ Step(r, "authorize")
    /\ UNCHANGED <<window, signedIn, mayRead, data, version, dataAt, owed, store, bucket,
                   admitted, rounds, page>>

\* authorizeOrg(): the membership as it is now.
Authorize(r) ==
    /\ request[r].step = "authorize"
    /\ \/ ~mayRead /\ Reply(r, "NOT_FOUND")
       \/ mayRead /\ request' = [request EXCEPT ![r].step = "count", ![r].window = window]
    /\ UNCHANGED <<window, signedIn, mayRead, data, version, dataAt, owed, store, bucket,
                   admitted, rounds, sent, page>>

\* checkRateLimit(): the window is that of the time read before the upsert. A
\* request that comes to it after the row was removed begins a new row.
CountRequest(r) ==
    LET w == request[r].window
        allowed == bucket[w] + 1 <= RateLimit IN
    /\ request[r].step = "count"
    /\ bucket' = [bucket EXCEPT ![w] = @ + 1]
    /\ IF allowed THEN Step(r, "version") ELSE Reply(r, "RATE_LIMITED")
    /\ admitted' = IF allowed THEN [admitted EXCEPT ![w] = @ + 1] ELSE admitted
    /\ UNCHANGED <<window, signedIn, mayRead, data, version, dataAt, owed, store, rounds, sent,
                   page>>

\* Without its rows the limiter lets nobody in.
LimiterUnavailable(r) ==
    /\ request[r].step = "count"
    /\ Reply(r, "SERVICE_UNAVAILABLE")
    /\ UNCHANGED <<window, signedIn, mayRead, data, version, dataAt, owed, store, bucket,
                   admitted, rounds, sent, page>>

\* purgeExpiredRateLimitBuckets(): rows whose window is past.
\* Mutant: rows that have begun.
BegunBefore(w) == w <= window
Expired(w) == w < window
PurgeBuckets ==
    /\ bucket' = [w \in Windows |-> IF Expired(w) THEN 0 ELSE bucket[w]]
    /\ bucket' # bucket
    /\ rounds' = [w \in Windows |-> IF w < window /\ bucket[w] > 0 THEN rounds[w] + 1
                                                                   ELSE rounds[w]]
    /\ UNCHANGED <<window, signedIn, mayRead, data, version, dataAt, owed, store, admitted,
                   request, sent, page>>

-----------------------------------------------------------------------------
(* cached().                                                               *)

Entry(v) == {i \in DOMAIN store : store[i].version = v /\ store[i].until > window}

\* The key is made of the version as it is before anything is computed.
ReadVersion(r) ==
    /\ request[r].step = "version"
    /\ IF Entry(version) # {}
       THEN Reply(r, "OK")
       ELSE request' = [request EXCEPT ![r].step = "compute", ![r].version = version]
    /\ UNCHANGED <<window, signedIn, mayRead, data, version, dataAt, owed, store, bucket,
                   admitted, rounds, sent, page>>

Compute(r) ==
    /\ request[r].step = "compute"
    /\ request' = [request EXCEPT ![r].step = "keep", ![r].value = data]
    /\ UNCHANGED <<window, signedIn, mayRead, data, version, dataAt, owed, store, bucket,
                   admitted, rounds, sent, page>>

\* The version an entry is kept under.
\* Mutant: the version when it is kept.
LatestVersion(r) == version
KeyVersion(r) == request[r].version

\* A full cache gives up its oldest insertion first; an entry of the same key
\* keeps its place.
KeepEntry(r) ==
    LET v == KeyVersion(r)
        entry == [version |-> v, value |-> request[r].value, until |-> window + EntryTtl]
        kept == IF Len(store) >= MaxEntries THEN Tail(store) ELSE store
        same == {i \in DOMAIN kept : kept[i].version = v} IN
    /\ request[r].step = "keep"
    /\ store' = IF same = {} THEN Append(kept, entry)
                ELSE [i \in DOMAIN kept |-> IF i \in same THEN entry ELSE kept[i]]
    /\ Reply(r, "OK")
    /\ UNCHANGED <<window, signedIn, mayRead, data, version, dataAt, owed, bucket, admitted, rounds,
                   sent, page>>

-----------------------------------------------------------------------------
(* What changes meanwhile.                                                 *)

\* A synchronisation, a validation, a disconnection: the data first, the
\* version in a statement of its own.
Write ==
    /\ data < MaxWrites
    /\ data' = data + 1 /\ owed' = TRUE
    /\ UNCHANGED <<window, signedIn, mayRead, version, dataAt, store, bucket, admitted, rounds, request,
                   sent, page>>

NewVersion(d) == version' = version + 1 /\ dataAt' = [dataAt EXCEPT ![version + 1] = d]

BumpVersion ==
    /\ owed /\ owed' = FALSE
    /\ NewVersion(data)
    /\ UNCHANGED <<window, signedIn, mayRead, data, store, bucket, admitted, rounds, request,
                   sent, page>>

\* The costs of an account and what a finished plan made: both in one
\* transaction.
WriteAndBump ==
    /\ data < MaxWrites /\ ~owed
    /\ data' = data + 1
    /\ NewVersion(data + 1)
    /\ UNCHANGED <<window, signedIn, mayRead, owed, store, bucket, admitted, rounds, request,
                   sent, page>>

WindowPasses ==
    /\ window < MaxWindow
    /\ window' = window + 1
    /\ UNCHANGED <<signedIn, mayRead, data, version, dataAt, owed, store, bucket, admitted, rounds,
                   request, sent, page>>

SignOut ==
    /\ signedIn /\ signedIn' = FALSE
    /\ UNCHANGED <<window, mayRead, data, version, dataAt, owed, store, bucket, admitted, rounds,
                   request, sent, page>>

LoseAccess ==
    /\ mayRead /\ mayRead' = FALSE
    /\ UNCHANGED <<window, signedIn, data, version, dataAt, owed, store, bucket, admitted, rounds,
                   request, sent, page>>

-----------------------------------------------------------------------------
(* The live stream and the page.                                           *)

\* A change of version between two snapshots starts the timer of a refresh; a
\* snapshot without one (of jobs or alerts) leaves it alone.
\* Mutant: every snapshot clears the timer first.
TimerAfterClearing(changed) == changed
TimerAfter(changed) == page.refresh \/ changed

\* A snapshot is sent when it differs from the last of this stream, and to
\* every new stream.  The stream asks for the membership when it opens, not
\* again before it is closed by its age.
Snapshot ==
    LET changed == page.heard \notin {NoVersion, version} IN
    /\ page' = [page EXCEPT !.heard = version,
                            !.first = IF @ = NoVersion THEN version ELSE @,
                            !.refresh = TimerAfter(changed)]
    /\ page' # page
    /\ UNCHANGED <<window, signedIn, mayRead, data, version, dataAt, owed, store, bucket,
                   admitted, rounds, request, sent>>

\* router.refresh(): the page is rendered from the version of this moment.
RefreshPage ==
    /\ page.refresh /\ signedIn /\ mayRead
    /\ page' = [page EXCEPT !.shows = version, !.refresh = FALSE]
    /\ UNCHANGED <<window, signedIn, mayRead, data, version, dataAt, owed, store, bucket,
                   admitted, rounds, request, sent>>

RequestsNext ==
    \/ \E r \in Calls : \/ \E input \in Inputs : Arrive(r, input)
                        \/ Authorize(r) \/ CountRequest(r) \/ LimiterUnavailable(r)
                        \/ ReadVersion(r) \/ Compute(r) \/ KeepEntry(r)
    \/ PurgeBuckets
    \/ Write \/ BumpVersion \/ WriteAndBump \/ WindowPasses \/ SignOut \/ LoseAccess
    \/ Snapshot \/ RefreshPage

RequestsSpec == RequestsInit /\ [][RequestsNext]_requestVars

-----------------------------------------------------------------------------
\* What the cache would answer under a version holds every write that version
\* announces: no request that computed before a write leaves its result where
\* readers of the next version find it.
CacheHasItsVersion ==
    \A i \in DOMAIN store : store[i].value >= dataAt[store[i].version]

\* However requests, the removal of old rows and the end of a window fall
\* together, no more than the limit is let in under one window; but for the
\* requests that read their clock in it and count themselves after it has ended
\* and its row was removed: again no more than the limit for each such removal.
LimitHolds == \A w \in Windows : admitted[w] <= RateLimit * (1 + rounds[w])

\* A page that waits for no refresh shows every version the stream announced
\* after its first snapshot.
PageFollowsStream ==
    (~page.refresh /\ page.heard \notin {NoVersion, page.first}) => page.shows >= page.heard
===============================================================================
