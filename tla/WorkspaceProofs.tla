--------------------------- MODULE WorkspaceProofs ---------------------------
(***************************************************************************)
(* Proofs about Requests, Workspace, CloudConnections and Membership, for  *)
(* any members, calls, rows, pages, limits and bounds.  The four share no  *)
(* variable; each part is about one of them.                               *)
(***************************************************************************)
EXTENDS Workspace, Requests, CloudConnections, Membership, SequenceTheorems, TLAPS

-----------------------------------------------------------------------------
(* Requests: the invariant.                                                *)

Versions == 0 .. MaxWrites
RequestSteps == {"idle", "authorize", "count", "version", "compute", "keep"}
Entries == [version : Versions, value : Nat, until : Nat]
InFlight == [step : RequestSteps, window : Windows, version : Versions, value : Nat]

RequestsTypes ==
    /\ window \in Windows
    /\ data \in Versions /\ version \in Versions /\ dataAt \in [Versions -> Nat] /\ owed \in BOOLEAN
    /\ store \in Seq(Entries)
    /\ bucket \in [Windows -> Nat] /\ admitted \in [Windows -> Nat] /\ rounds \in [Windows -> Nat]
    /\ request \in [Calls -> InFlight]

\* A version was begun with a write, and a write owed has not begun one.
VersionsFollowWrites ==
    /\ version <= data
    /\ owed => version < data
    /\ \A v \in Versions : dataAt[v] <= data

\* Whoever computes began with a version that exists, and whoever has computed
\* saw at least the data of that version.
ComputedAfterVersion ==
    \A r \in Calls :
        /\ request[r].step \in {"compute", "keep"} => request[r].version <= version
        /\ request[r].step = "keep" => dataAt[request[r].version] <= request[r].value

EntriesAreOld ==
    \A i \in DOMAIN store :
        store[i].version <= version /\ dataAt[store[i].version] <= store[i].value

\* Who was let in under a window is counted in its row, or was counted in one that was removed.
BucketsCount ==
    \A w \in Windows :
        \/ admitted[w] <= RateLimit * rounds[w] + bucket[w] /\ bucket[w] <= RateLimit
        \/ admitted[w] <= RateLimit * rounds[w] + RateLimit /\ bucket[w] >= RateLimit

\* The page shows and heard versions that exist; what it heard first it heard.
PageHeard ==
    /\ page.shows \in 0 .. version
    /\ page.heard \in 0 .. version \cup {NoVersion}
    /\ page.first = NoVersion <=> page.heard = NoVersion
    /\ page \in [shows : Versions, heard : Versions \cup {NoVersion},
                 first : Versions \cup {NoVersion}, refresh : BOOLEAN]

RequestsInv ==
    /\ RequestsTypes /\ VersionsFollowWrites /\ ComputedAfterVersion /\ EntriesAreOld
    /\ BucketsCount /\ PageHeard /\ PageFollowsStream

-----------------------------------------------------------------------------
(* Requests: lemmas.                                                       *)

\* A request that takes a step, and one that is answered.
LEMMA StepTypes ==
    ASSUME RequestsTypes, NEW r \in Calls, NEW step \in RequestSteps, Step(r, step)
    PROVE  /\ request' \in [Calls -> InFlight] /\ request'[r].step = step
           /\ \A d \in Calls \ {r} : request'[d] = request[d]
<1>1. [request[r] EXCEPT !.step = step] \in InFlight
    BY DEF RequestsTypes, InFlight
<1> QED
    BY <1>1 DEF RequestsTypes, InFlight, Step

LEMMA ReplyTypes ==
    ASSUME RequestsTypes, NEW r \in Calls, NEW code, Reply(r, code)
    PROVE  /\ request' \in [Calls -> InFlight] /\ request'[r].step = "idle"
           /\ \A d \in Calls \ {r} : request'[d] = request[d]
<1>1. 0 \in Windows /\ 0 \in Versions
    BY RequestsAssumption DEF Windows, Versions
<1>2. Waiting \in InFlight
    BY <1>1 DEF Waiting, InFlight, RequestSteps
<1> QED
    BY <1>2 DEF RequestsTypes, Reply, Waiting

\* Of a step after which nobody new computes, and no version is new.
LEMMA NobodyComputes ==
    ASSUME ComputedAfterVersion, NEW r \in Calls, version' = version, dataAt' = dataAt,
           \A d \in Calls \ {r} : request'[d] = request[d],
           request'[r].step \notin {"compute", "keep"}
    PROVE  ComputedAfterVersion'
BY DEF ComputedAfterVersion

\* Of a step that leaves the versions, the cache and the page alone.
LEMMA DataUntouched ==
    ASSUME RequestsInv, UNCHANGED <<data, version, dataAt, owed, store, page>>
    PROVE  /\ VersionsFollowWrites' /\ EntriesAreOld' /\ PageHeard' /\ PageFollowsStream'
           /\ data' \in Versions /\ version' \in Versions /\ dataAt' \in [Versions -> Nat]
           /\ owed' \in BOOLEAN /\ store' \in Seq(Entries)
BY DEF RequestsInv, RequestsTypes, VersionsFollowWrites, EntriesAreOld, PageHeard, PageFollowsStream

LEMMA BucketsUntouched ==
    ASSUME RequestsInv, UNCHANGED <<window, bucket, admitted, rounds>>
    PROVE  /\ BucketsCount' /\ window' \in Windows /\ rounds' \in [Windows -> Nat]
           /\ bucket' \in [Windows -> Nat] /\ admitted' \in [Windows -> Nat]
BY DEF RequestsInv, RequestsTypes, BucketsCount

\* A request is answered, or goes on to a step at which it has no data yet.
LEMMA PlainStep ==
    ASSUME RequestsInv, NEW r \in Calls, NEW step \in RequestSteps \ {"compute", "keep"}, NEW code,
           Step(r, step) \/ Reply(r, code),
           UNCHANGED <<window, data, version, dataAt, owed, store, bucket, admitted, rounds, page>>
    PROVE  RequestsInv'
<1>1. /\ request' \in [Calls -> InFlight] /\ request'[r].step \notin {"compute", "keep"}
      /\ \A d \in Calls \ {r} : request'[d] = request[d]
    BY StepTypes, ReplyTypes DEF RequestsInv
<1> QED
    BY <1>1, NobodyComputes, DataUntouched, BucketsUntouched DEF RequestsInv, RequestsTypes

-----------------------------------------------------------------------------
(* Requests: the steps.                                                    *)

LEMMA ArriveKeeps ==
    ASSUME RequestsInv, NEW r \in Calls, NEW input \in Inputs, Arrive(r, input)
    PROVE  RequestsInv'
<1>1. "authorize" \in RequestSteps \ {"compute", "keep"}
    BY DEF RequestSteps
<1> QED
    BY <1>1, PlainStep DEF Arrive

LEMMA AuthorizeKeeps ==
    ASSUME RequestsInv, NEW r \in Calls, Authorize(r)
    PROVE  RequestsInv'
<1>1. CASE Reply(r, "NOT_FOUND")
    BY <1>1, PlainStep DEF Authorize, RequestSteps
<1>2. CASE request' = [request EXCEPT ![r].step = "count", ![r].window = window]
  <2>1. [request[r] EXCEPT !.step = "count", !.window = window] \in InFlight
    BY DEF RequestsInv, RequestsTypes, InFlight, RequestSteps
  <2>2. request' = [request EXCEPT ![r] = [request[r] EXCEPT !.step = "count", !.window = window]]
    BY <1>2 DEF RequestsInv, RequestsTypes, InFlight
  <2>3. /\ request' \in [Calls -> InFlight] /\ request'[r].step = "count"
        /\ \A d \in Calls \ {r} : request'[d] = request[d]
    BY <2>1, <2>2 DEF RequestsInv, RequestsTypes, InFlight
  <2> QED
    BY <2>3, NobodyComputes, DataUntouched, BucketsUntouched
    DEF RequestsInv, RequestsTypes, Authorize
<1> QED
    BY <1>1, <1>2 DEF Authorize

\* Only who finds room in the row of the window is let in under it.
LEMMA CountKeeps ==
    ASSUME RequestsInv, NEW r \in Calls, CountRequest(r)
    PROVE  RequestsInv'
<1> DEFINE w == request[r].window
<1>1. w \in Windows /\ RateLimit \in Nat
    BY RequestsAssumption DEF RequestsInv, RequestsTypes, InFlight
<1>2. /\ bucket \in [Windows -> Nat] /\ admitted \in [Windows -> Nat]
      /\ rounds \in [Windows -> Nat] /\ rounds' = rounds
      /\ bucket' = [bucket EXCEPT ![w] = bucket[w] + 1]
      /\ admitted' = IF bucket[w] + 1 <= RateLimit
                     THEN [admitted EXCEPT ![w] = admitted[w] + 1] ELSE admitted
    BY DEF CountRequest, RequestsInv, RequestsTypes
<1>3. bucket' \in [Windows -> Nat] /\ admitted' \in [Windows -> Nat]
    BY <1>1, <1>2
<1>4. ASSUME NEW x \in Windows
      PROVE  \/ admitted'[x] <= RateLimit * rounds[x] + bucket'[x] /\ bucket'[x] <= RateLimit
             \/ admitted'[x] <= RateLimit * rounds[x] + RateLimit /\ bucket'[x] >= RateLimit
  <2> DEFINE before == RateLimit * rounds[x]
  <2>1. /\ before \in Nat /\ bucket[x] \in Nat /\ admitted[x] \in Nat
    BY <1>1, <1>2
  <2>2. \/ admitted[x] <= before + bucket[x] /\ bucket[x] <= RateLimit
        \/ admitted[x] <= before + RateLimit /\ bucket[x] >= RateLimit
    BY DEF RequestsInv, BucketsCount
  <2> HIDE DEF before
  <2>3. \/ admitted'[x] <= before + bucket'[x] /\ bucket'[x] <= RateLimit
        \/ admitted'[x] <= before + RateLimit /\ bucket'[x] >= RateLimit
    <3>1. CASE x = w
      BY <1>1, <1>2, <2>1, <2>2, <3>1
    <3>2. CASE x # w
      BY <1>1, <1>2, <2>1, <2>2, <3>2
    <3> QED
      BY <3>1, <3>2
  <2> QED
    BY <2>3 DEF before
<1>5. BucketsCount'
    BY <1>2, <1>4 DEF BucketsCount
<1>6. /\ request' \in [Calls -> InFlight] /\ request'[r].step \notin {"compute", "keep"}
      /\ \A d \in Calls \ {r} : request'[d] = request[d]
    BY StepTypes, ReplyTypes DEF CountRequest, RequestsInv, RequestSteps
<1> QED
    BY <1>3, <1>5, <1>6, NobodyComputes, DataUntouched DEF CountRequest, RequestsInv, RequestsTypes

\* A row that is removed is of a window that is past: who was counted in it has had a round.
LEMMA PurgeKeeps ==
    ASSUME RequestsInv, PurgeBuckets
    PROVE  RequestsInv'
<1>1. window \in Windows /\ Windows \subseteq Nat /\ RateLimit \in Nat
    BY RequestsAssumption DEF RequestsInv, RequestsTypes, Windows
<1>2. /\ bucket' = [w \in Windows |-> IF w < window THEN 0 ELSE bucket[w]]
      /\ rounds' = [w \in Windows |-> IF w < window /\ bucket[w] > 0 THEN rounds[w] + 1
                                                                     ELSE rounds[w]]
      /\ UNCHANGED <<window, data, version, dataAt, owed, store, admitted, request, page>>
    BY DEF PurgeBuckets, Expired
<1>3. /\ bucket' \in [Windows -> Nat] /\ rounds' \in [Windows -> Nat]
      /\ admitted' \in [Windows -> Nat] /\ BucketsCount'
  <2>1. /\ bucket \in [Windows -> Nat] /\ rounds \in [Windows -> Nat]
        /\ admitted \in [Windows -> Nat]
    BY DEF RequestsInv, RequestsTypes
  <2>2. /\ bucket' \in [Windows -> Nat] /\ rounds' \in [Windows -> Nat]
        /\ admitted' \in [Windows -> Nat]
    BY <1>2, <2>1
  <2>3. ASSUME NEW x \in Windows
        PROVE  \/ admitted[x] <= RateLimit * rounds'[x] + bucket'[x] /\ bucket'[x] <= RateLimit
               \/ admitted[x] <= RateLimit * rounds'[x] + RateLimit /\ bucket'[x] >= RateLimit
    <3>1. /\ bucket[x] \in Nat /\ admitted[x] \in Nat /\ rounds[x] \in Nat
          /\ window \in Nat /\ x \in Nat
      BY <1>1, <2>1
    <3>2. \/ admitted[x] <= RateLimit * rounds[x] + bucket[x] /\ bucket[x] <= RateLimit
          \/ admitted[x] <= RateLimit * rounds[x] + RateLimit /\ bucket[x] >= RateLimit
      BY DEF RequestsInv, BucketsCount
    <3>3. CASE x < window /\ bucket[x] > 0
      <4>1. bucket'[x] = 0 /\ rounds'[x] = rounds[x] + 1
        BY <1>2, <3>3
      <4>2. admitted[x] <= RateLimit * rounds[x] + RateLimit
        <5> DEFINE before == RateLimit * rounds[x]
        <5>1. before \in Nat
          BY <1>1, <3>1
        <5> HIDE DEF before
        <5>2. admitted[x] <= before + RateLimit
          BY <1>1, <3>1, <3>2, <5>1 DEF before
        <5> QED
          BY <5>2 DEF before
      <4>3. RateLimit * (rounds[x] + 1) = RateLimit * rounds[x] + RateLimit
        BY <1>1, <3>1
      <4> QED
        BY <1>1, <3>1, <4>1, <4>2, <4>3
    <3>4. CASE ~ (x < window /\ bucket[x] > 0)
      <4>1. bucket'[x] = bucket[x] /\ rounds'[x] = rounds[x]
        BY <1>2, <3>1, <3>4
      <4> QED
        BY <3>2, <4>1
    <3> QED
      BY <3>3, <3>4
  <2>4. BucketsCount'
    BY <1>2, <2>3 DEF BucketsCount
  <2> QED
    BY <2>2, <2>4
<1>4. ComputedAfterVersion'
    BY <1>2 DEF RequestsInv, ComputedAfterVersion
<1> QED
    BY <1>2, <1>3, <1>4, DataUntouched DEF RequestsInv, RequestsTypes

LEMMA ReadVersionKeeps ==
    ASSUME RequestsInv, NEW r \in Calls, ReadVersion(r)
    PROVE  RequestsInv'
<1>1. CASE Reply(r, "OK")
    BY <1>1, PlainStep DEF ReadVersion, RequestSteps
<1>2. CASE request' = [request EXCEPT ![r].step = "compute", ![r].version = version]
  <2> DEFINE q == [request[r] EXCEPT !.step = "compute", !.version = version]
  <2>1. q \in InFlight /\ q.step = "compute" /\ q.version = version
    BY DEF RequestsInv, RequestsTypes, InFlight, RequestSteps
  <2>2. request' = [request EXCEPT ![r] = q]
    BY <1>2 DEF RequestsInv, RequestsTypes, InFlight
  <2> HIDE DEF q
  <2>3. /\ request' \in [Calls -> InFlight] /\ request'[r] = q
        /\ \A d \in Calls \ {r} : request'[d] = request[d]
    BY <2>1, <2>2 DEF RequestsInv, RequestsTypes
  <2>4. version <= version
    BY DEF RequestsInv, RequestsTypes, Versions
  <2>5. ComputedAfterVersion'
    BY <2>1, <2>3, <2>4 DEF RequestsInv, ComputedAfterVersion, ReadVersion
  <2> QED
    BY <2>3, <2>5, DataUntouched, BucketsUntouched DEF RequestsInv, RequestsTypes, ReadVersion
<1> QED
    BY <1>1, <1>2 DEF ReadVersion

\* The data that is read is at least that of every version there is.
LEMMA ComputeKeeps ==
    ASSUME RequestsInv, NEW r \in Calls, Compute(r)
    PROVE  RequestsInv'
<1> DEFINE q == [request[r] EXCEPT !.step = "keep", !.value = data]
<1>1. request[r] \in InFlight /\ data \in Nat
    BY DEF RequestsInv, RequestsTypes, Versions
<1>2. q \in InFlight /\ q.step = "keep" /\ q.value = data /\ q.version = request[r].version
    BY <1>1 DEF InFlight, RequestSteps
<1>3. request' = [request EXCEPT ![r] = q]
    BY DEF RequestsInv, RequestsTypes, InFlight, Compute
<1> HIDE DEF q
<1>4. /\ request' \in [Calls -> InFlight] /\ request'[r] = q
      /\ \A d \in Calls \ {r} : request'[d] = request[d]
    BY <1>2, <1>3 DEF RequestsInv, RequestsTypes
<1>5. request[r].version <= version /\ dataAt[request[r].version] <= data
    BY <1>1 DEF RequestsInv, ComputedAfterVersion, VersionsFollowWrites, Compute, InFlight
<1>6. ComputedAfterVersion'
    BY <1>2, <1>4, <1>5 DEF RequestsInv, ComputedAfterVersion, Compute
<1> QED
    BY <1>4, <1>6, DataUntouched, BucketsUntouched DEF RequestsInv, RequestsTypes, Compute

\* The cache: the tail of what it held, or all of it, and the new entry.
LEMMA KeepEntryKeeps ==
    ASSUME RequestsInv, NEW r \in Calls, KeepEntry(r)
    PROVE  RequestsInv'
<1> DEFINE v == request[r].version
           entry == [version |-> v, value |-> request[r].value, until |-> window + EntryTtl]
           kept == IF Len(store) >= MaxEntries THEN Tail(store) ELSE store
           same == {i \in DOMAIN kept : kept[i].version = v}
           Fits(e) == e.version <= version /\ dataAt[e.version] <= e.value
<1>1. request[r] \in InFlight /\ window + EntryTtl \in Nat /\ MaxEntries \in Nat \ {0}
    BY RequestsAssumption DEF RequestsInv, RequestsTypes, Windows
<1>2. entry \in Entries
    BY <1>1 DEF Entries, InFlight
<1>3. Fits(entry)
    BY DEF RequestsInv, ComputedAfterVersion, KeepEntry
<1>4. store \in Seq(Entries) /\ \A i \in 1 .. Len(store) : Fits(store[i])
    BY DEF RequestsInv, RequestsTypes, EntriesAreOld
<1>5. kept \in Seq(Entries) /\ \A i \in 1 .. Len(kept) : Fits(kept[i])
  <2>1. CASE Len(store) >= MaxEntries
    <3>1. store # <<>>
      BY <1>1, <2>1
    <3>2. /\ Tail(store) \in Seq(Entries) /\ Len(Tail(store)) = Len(store) - 1
          /\ \A i \in 1 .. Len(Tail(store)) : Tail(store)[i] = store[i + 1]
      BY <1>4, <3>1, HeadTailProperties
    <3>3. \A i \in 1 .. Len(Tail(store)) : i + 1 \in 1 .. Len(store)
      BY <1>4, <3>2
    <3> QED
      BY <1>4, <2>1, <3>2, <3>3
  <2> QED
    BY <1>4, <2>1
<1>6. store' = IF same = {} THEN Append(kept, entry)
               ELSE [i \in DOMAIN kept |-> IF i \in same THEN entry ELSE kept[i]]
    BY DEF KeepEntry, KeyVersion
<1> HIDE DEF entry, kept, same, Fits
<1>7. store' \in Seq(Entries) /\ \A i \in 1 .. Len(store') : Fits(store'[i])
  <2>1. CASE same = {}
    <3>1. store' = Append(kept, entry)
      BY <1>6, <2>1
    <3>2. /\ store' \in Seq(Entries) /\ Len(store') = Len(kept) + 1
          /\ \A i \in 1 .. Len(kept) : store'[i] = kept[i]
          /\ store'[Len(kept) + 1] = entry
      BY <1>2, <1>5, <3>1, AppendProperties
    <3>3. \A i \in 1 .. Len(store') : i \in 1 .. Len(kept) \/ i = Len(kept) + 1
      BY <1>5, <3>2
    <3> QED
      BY <1>3, <1>5, <3>2, <3>3
  <2>2. CASE same # {}
    <3>1. store' = [i \in 1 .. Len(kept) |-> IF i \in same THEN entry ELSE kept[i]]
      BY <1>5, <1>6, <2>2
    <3>2. \A i \in 1 .. Len(kept) : kept[i] \in Entries
      BY <1>5
    <3>3. Len(kept) \in Nat
      BY <1>5
    <3>4. store' \in Seq(Entries) /\ Len(store') = Len(kept)
      BY <1>2, <3>1, <3>2, <3>3
    <3> QED
      BY <1>3, <1>5, <3>1, <3>4
  <2> QED
    BY <2>1, <2>2
<1>8. EntriesAreOld'
  <2>1. DOMAIN store' = 1 .. Len(store')
    BY <1>7
  <2>2. version' = version /\ dataAt' = dataAt
    BY DEF KeepEntry
  <2> QED
    BY <1>7, <2>1, <2>2 DEF EntriesAreOld, Fits
<1>9. /\ request' \in [Calls -> InFlight] /\ request'[r].step = "idle"
      /\ \A d \in Calls \ {r} : request'[d] = request[d]
    BY ReplyTypes DEF KeepEntry, RequestsInv
<1>10. UNCHANGED <<window, data, version, dataAt, owed, bucket, admitted, rounds, page>>
    BY DEF KeepEntry
<1>11. VersionsFollowWrites' /\ PageHeard' /\ PageFollowsStream'
    BY <1>10 DEF RequestsInv, VersionsFollowWrites, PageHeard, PageFollowsStream
<1> QED
    BY <1>7, <1>8, <1>9, <1>10, <1>11, NobodyComputes, BucketsUntouched DEF RequestsInv, RequestsTypes

\* A version begins with the data of this moment, and nothing older is under it.
LEMMA NewVersionKeeps ==
    ASSUME RequestsInv, NEW d \in Versions, data' = d, data <= d, version < d, NewVersion(d),
           owed' \in BOOLEAN, ~owed',
           UNCHANGED <<window, store, bucket, admitted, rounds, request, page>>
    PROVE  RequestsInv'
<1>1. /\ version \in Nat /\ version + 1 \in Versions /\ version' = version + 1
      /\ Versions \subseteq Nat /\ version' \in Versions
    BY RequestsAssumption DEF RequestsInv, RequestsTypes, NewVersion, Versions
<1>2. dataAt' \in [Versions -> Nat] /\ \A v \in Versions : dataAt'[v] = IF v = version + 1 THEN d ELSE dataAt[v]
    BY <1>1 DEF RequestsInv, RequestsTypes, NewVersion
<1>3. VersionsFollowWrites'
  <2>1. \A v \in Versions : dataAt'[v] <= d
    BY <1>1, <1>2 DEF RequestsInv, RequestsTypes, VersionsFollowWrites
  <2> QED
    BY <1>1, <2>1 DEF VersionsFollowWrites
<1>4. ComputedAfterVersion'
  <2>1. \A r \in Calls : request[r].version \in Versions
    BY DEF RequestsInv, RequestsTypes, InFlight
  <2>2. \A v \in Versions : v <= version => dataAt'[v] = dataAt[v] /\ v <= version + 1
    <3>1. \A v \in Versions : v \in Nat
      BY <1>1
    <3> QED
      BY <1>1, <1>2, <3>1
  <2>3. /\ \A r \in Calls :
             /\ request[r].step \in {"compute", "keep"} => request[r].version <= version
             /\ request[r].step = "keep" => dataAt[request[r].version] <= request[r].value
    BY DEF RequestsInv, ComputedAfterVersion
  <2>4. version' = version + 1 /\ request' = request
    BY <1>1
  <2>5. ASSUME NEW r \in Calls
        PROVE  /\ request[r].step \in {"compute", "keep"} => request[r].version <= version + 1
               /\ request[r].step = "keep" => dataAt'[request[r].version] <= request[r].value
    BY <2>1, <2>2, <2>3
  <2> QED
    BY <2>4, <2>5 DEF ComputedAfterVersion
<1>5. EntriesAreOld'
  <2>1. \A i \in DOMAIN store : store[i].version \in Versions
    <3>1. \A i \in DOMAIN store : store[i] \in Entries
      BY DEF RequestsInv, RequestsTypes
    <3> QED
      BY <3>1 DEF Entries
  <2>2. \A v \in Versions : v <= version => dataAt'[v] = dataAt[v] /\ v <= version + 1
    <3>1. \A v \in Versions : v \in Nat
      BY <1>1
    <3> QED
      BY <1>1, <1>2, <3>1
  <2> QED
    BY <1>1, <2>1, <2>2 DEF RequestsInv, EntriesAreOld
<1>6. PageHeard'
    BY <1>1 DEF RequestsInv, PageHeard
<1>7. PageFollowsStream'
    BY DEF RequestsInv, PageFollowsStream
<1> QED
    BY <1>1, <1>2, <1>3, <1>4, <1>5, <1>6, <1>7, BucketsUntouched DEF RequestsInv, RequestsTypes

LEMMA BumpKeeps ==
    ASSUME RequestsInv, BumpVersion \/ WriteAndBump
    PROVE  RequestsInv'
<1>1. /\ data \in Versions /\ version \in Versions /\ Versions \subseteq Nat
      /\ version <= data /\ (owed => version < data)
    BY DEF RequestsInv, RequestsTypes, VersionsFollowWrites, Versions
<1>2. CASE BumpVersion
  <2>1. /\ owed /\ owed' = FALSE /\ data' = data /\ NewVersion(data)
        /\ UNCHANGED <<window, store, bucket, admitted, rounds, request, page>>
    BY <1>2 DEF BumpVersion
  <2>2. data <= data /\ version < data
    BY <1>1, <2>1
  <2> QED
    BY <1>1, <2>1, <2>2, NewVersionKeeps
<1>3. CASE WriteAndBump
  <2>1. /\ ~owed /\ owed' = owed /\ data' = data + 1 /\ NewVersion(data + 1)
        /\ UNCHANGED <<window, store, bucket, admitted, rounds, request, page>>
    BY <1>3 DEF WriteAndBump
  <2>2. data + 1 \in Versions /\ data <= data + 1 /\ version < data + 1
    BY <1>1, <1>3, RequestsAssumption DEF WriteAndBump, Versions
  <2>3. owed' \in BOOLEAN /\ ~owed'
    BY <2>1 DEF RequestsInv, RequestsTypes
  <2> DEFINE d == data + 1
  <2>4. d \in Versions /\ data <= d /\ version < d /\ data' = d /\ NewVersion(d)
    BY <2>1, <2>2
  <2> HIDE DEF d
  <2> QED
    BY <2>1, <2>3, <2>4, NewVersionKeeps
<1> QED
    BY <1>2, <1>3

LEMMA WriteKeeps ==
    ASSUME RequestsInv, Write
    PROVE  RequestsInv'
<1>1. data' \in Versions /\ data < data' /\ data' \in Nat /\ data \in Nat /\ Versions \subseteq Nat
    BY RequestsAssumption DEF RequestsInv, RequestsTypes, Write, Versions
<1>2. VersionsFollowWrites'
    BY <1>1 DEF RequestsInv, RequestsTypes, VersionsFollowWrites, Write
<1>3. ComputedAfterVersion' /\ EntriesAreOld' /\ PageHeard' /\ PageFollowsStream' /\ RequestsTypes'
    BY <1>1 DEF Write, RequestsInv, RequestsTypes, ComputedAfterVersion, EntriesAreOld, PageHeard,
                PageFollowsStream
<1> QED
    BY <1>2, <1>3, BucketsUntouched DEF Write, RequestsInv

LEMMA WindowKeeps ==
    ASSUME RequestsInv, WindowPasses
    PROVE  RequestsInv'
<1>1. /\ window \in Nat /\ window' = window + 1 /\ window' \in Windows /\ Windows \subseteq Nat
    BY RequestsAssumption DEF RequestsInv, RequestsTypes, WindowPasses, Windows
<1>2. BucketsCount'
    BY <1>1 DEF RequestsInv, BucketsCount, WindowPasses
<1>3. ComputedAfterVersion'
    BY DEF RequestsInv, ComputedAfterVersion, WindowPasses
<1> QED
    BY <1>1, <1>2, <1>3, DataUntouched DEF WindowPasses, RequestsInv, RequestsTypes

\* What a page hears, and what it shows after a refresh, is the version there is.
LEMMA PageKeeps ==
    ASSUME RequestsInv, Snapshot \/ RefreshPage
    PROVE  RequestsInv'
<1>1. /\ version \in 0 .. version /\ version \in Versions /\ version \in Nat /\ NoVersion \notin Nat
      /\ 0 .. version \subseteq Nat /\ Versions \subseteq Nat
    BY RequestsAssumption DEF RequestsInv, RequestsTypes, Versions
<1>2. PageHeard' /\ PageFollowsStream'
  <2>1. CASE Snapshot
    <3> DEFINE changed == page.heard \notin {NoVersion, version}
               first == IF page.first = NoVersion THEN version ELSE page.first
    <3>1. /\ page' = [page EXCEPT !.heard = version, !.first = first,
                                  !.refresh = page.refresh \/ changed]
          /\ version' = version
      BY <2>1 DEF Snapshot, TimerAfter
    <3>2. first \in Versions
      BY <1>1 DEF RequestsInv, PageHeard
    <3>3. page \in [shows : Versions, heard : Versions \cup {NoVersion},
                    first : Versions \cup {NoVersion}, refresh : BOOLEAN]
      BY DEF RequestsInv, PageHeard
    <3>4. /\ page' \in [shows : Versions, heard : Versions \cup {NoVersion},
                        first : Versions \cup {NoVersion}, refresh : BOOLEAN]
          /\ page'.shows = page.shows /\ page'.heard = version /\ page'.first = first
          /\ (page'.refresh <=> page.refresh \/ changed)
      <4> HIDE DEF first, changed
      <4>1. changed \in BOOLEAN
        BY DEF changed
      <4> QED
        BY <1>1, <3>1, <3>2, <3>3, <4>1
    <3>5. PageHeard'
      BY <1>1, <3>1, <3>2, <3>4 DEF RequestsInv, PageHeard
    <3>6. PageFollowsStream'
      <4>1. CASE page.first = NoVersion
        BY <3>4, <4>1 DEF PageFollowsStream
      <4>2. CASE page.first # NoVersion /\ page.heard = version
        BY <1>1, <3>4, <4>2 DEF RequestsInv, PageFollowsStream
      <4>3. CASE page.heard \notin {NoVersion, version}
        BY <3>4, <4>3 DEF PageFollowsStream
      <4>4. page.heard = NoVersion => page.first = NoVersion
        BY DEF RequestsInv, PageHeard
      <4> QED
        BY <4>1, <4>2, <4>3, <4>4
    <3> QED
      BY <3>5, <3>6
  <2>2. CASE RefreshPage
    <3>1. page' = [page EXCEPT !.shows = version, !.refresh = FALSE] /\ version' = version
      BY <2>2 DEF RefreshPage
    <3>2. page \in [shows : Versions, heard : Versions \cup {NoVersion},
                    first : Versions \cup {NoVersion}, refresh : BOOLEAN]
      BY DEF RequestsInv, PageHeard
    <3>3. /\ page' \in [shows : Versions, heard : Versions \cup {NoVersion},
                        first : Versions \cup {NoVersion}, refresh : BOOLEAN]
          /\ page'.shows = version /\ page'.heard = page.heard /\ page'.first = page.first
      BY <1>1, <3>1, <3>2
    <3> QED
      BY <1>1, <3>1, <3>3 DEF RequestsInv, PageHeard, PageFollowsStream
  <2> QED
    BY <2>1, <2>2
<1>3. UNCHANGED <<window, data, version, dataAt, owed, store, bucket, admitted, rounds, request>>
    BY DEF Snapshot, RefreshPage
<1>4. ComputedAfterVersion' /\ VersionsFollowWrites' /\ EntriesAreOld' /\ RequestsTypes'
    BY <1>3 DEF RequestsInv, RequestsTypes, ComputedAfterVersion, VersionsFollowWrites, EntriesAreOld
<1> QED
    BY <1>2, <1>3, <1>4, BucketsUntouched DEF RequestsInv

-----------------------------------------------------------------------------
(* Requests: the theorems.                                                 *)

LEMMA RequestsInitInv == RequestsInit => RequestsInv
<1> SUFFICES ASSUME RequestsInit PROVE RequestsInv
    OBVIOUS
<1>1. 0 \in Windows /\ 0 \in Versions /\ 0 \in 0 .. 0 /\ RateLimit \in Nat
    BY RequestsAssumption DEF Windows, Versions
<1>2. Waiting \in InFlight
    BY <1>1 DEF Waiting, InFlight, RequestSteps
<1>3. store = <<>> /\ <<>> \in Seq(Entries) /\ DOMAIN <<>> = {}
    BY DEF RequestsInit
<1>4. RequestsTypes
    BY <1>1, <1>2, <1>3 DEF RequestsInit, RequestsTypes, Versions
<1>5. EntriesAreOld
    BY <1>3 DEF EntriesAreOld
<1>6. VersionsFollowWrites /\ ComputedAfterVersion /\ BucketsCount
    BY <1>1 DEF RequestsInit, VersionsFollowWrites, ComputedAfterVersion, BucketsCount, Waiting, Versions
<1>7. PageHeard /\ PageFollowsStream
    BY <1>1 DEF RequestsInit, PageHeard, PageFollowsStream
<1> QED
    BY <1>4, <1>5, <1>6, <1>7 DEF RequestsInv

LEMMA RequestsStepInv == RequestsInv /\ [RequestsNext]_requestVars => RequestsInv'
<1> SUFFICES ASSUME RequestsInv, [RequestsNext]_requestVars PROVE RequestsInv'
    OBVIOUS
<1>1. ASSUME NEW r \in Calls, LimiterUnavailable(r) PROVE RequestsInv'
    BY <1>1, PlainStep DEF LimiterUnavailable, RequestSteps
<1>2. CASE SignOut \/ LoseAccess \/ UNCHANGED requestVars
  <2>1. UNCHANGED <<window, data, version, dataAt, owed, store, bucket, admitted, rounds, request, page>>
    BY <1>2 DEF SignOut, LoseAccess, requestVars
  <2>2. ComputedAfterVersion'
    BY <2>1 DEF RequestsInv, ComputedAfterVersion
  <2> QED
    BY <2>1, <2>2, DataUntouched, BucketsUntouched DEF RequestsInv, RequestsTypes
<1> QED
    BY <1>1, <1>2, ArriveKeeps, AuthorizeKeeps, CountKeeps, ReadVersionKeeps, ComputeKeeps,
       KeepEntryKeeps, PurgeKeeps, WriteKeeps, BumpKeeps, WindowKeeps, PageKeeps
    DEF RequestsNext

\* The variables of the request pipeline have their types.
THEOREM RequestsTypeCorrect == RequestsSpec => []RequestsTypes
<1>1. RequestsInv => RequestsTypes
    BY DEF RequestsInv
<1> QED
    BY <1>1, RequestsInitInv, RequestsStepInv, PTL DEF RequestsSpec

\* What is kept under a version was computed after that version began.
THEOREM CacheIsNeverBehind == RequestsSpec => []CacheHasItsVersion
<1>1. RequestsInv => CacheHasItsVersion
  <2> SUFFICES ASSUME RequestsInv, NEW i \in DOMAIN store
               PROVE  store[i].value >= dataAt[store[i].version]
    BY DEF CacheHasItsVersion
  <2>1. store[i] \in Entries /\ dataAt[store[i].version] <= store[i].value
    BY DEF RequestsInv, RequestsTypes, EntriesAreOld
  <2>2. store[i].value \in Nat /\ dataAt[store[i].version] \in Nat
    BY <2>1 DEF RequestsInv, RequestsTypes, Entries
  <2> QED
    BY <2>1, <2>2
<1> QED
    BY <1>1, RequestsInitInv, RequestsStepInv, PTL DEF RequestsSpec

\* No window lets in more than the limit, and again the limit for each time its row was removed after
\* it ended.
THEOREM LimitIsKept == RequestsSpec => []LimitHolds
<1>1. ASSUME RequestsInv, NEW w \in Windows PROVE admitted[w] <= RateLimit * (1 + rounds[w])
  <2> DEFINE before == RateLimit * rounds[w]
  <2>1. /\ RateLimit \in Nat /\ bucket[w] \in Nat /\ admitted[w] \in Nat /\ rounds[w] \in Nat
    BY <1>1, RequestsAssumption DEF RequestsInv, RequestsTypes
  <2>2. before \in Nat /\ RateLimit * (1 + rounds[w]) = before + RateLimit
    BY <2>1
  <2>3. \/ admitted[w] <= before + bucket[w] /\ bucket[w] <= RateLimit
        \/ admitted[w] <= before + RateLimit
    BY <1>1 DEF RequestsInv, BucketsCount
  <2> HIDE DEF before
  <2> QED
    BY <2>1, <2>2, <2>3
<1>2. RequestsInv => LimitHolds
    BY <1>1 DEF LimitHolds
<1> QED
    BY <1>2, RequestsInitInv, RequestsStepInv, PTL DEF RequestsSpec

\* No announced version is forgotten by a page that waits for no refresh.
THEOREM PageIsNeverBehind == RequestsSpec => []PageFollowsStream
<1>1. RequestsInv => PageFollowsStream
    BY DEF RequestsInv
<1> QED
    BY <1>1, RequestsInitInv, RequestsStepInv, PTL DEF RequestsSpec

-----------------------------------------------------------------------------
(* Workspace: the invariant.                                               *)

Rows  == [kind : RecordKinds, by : Members, assignee : Members, notes : Seq(Nat), version : Nat]
Saves == [pc : {"shown", "read", "checked"}, user : Members, row : RecordIds \cup {NoRecord},
          kind : RecordKinds, assignee : Members, note : Nat, version : Nat, before : Seq(Nat)]
Deletions == [pc : {"delete"}, user : Members, row : RecordIds]
Helps == [pc : {"lock", "recipient", "issue"}, then : {"recipient"}, user : Members,
          kind : HelpKinds, target : WorkspaceAccounts, assignee : Members]
ProjectSaves == [pc : {"lock", "belongs", "replace"}, then : {"belongs"}, row : Projects,
                 new : BOOLEAN, chosen : SUBSET WorkspaceAccounts,
                 cleared : SUBSET WorkspaceAccounts]
Doings == {Resting} \cup Saves \cup Deletions \cup Helps \cup ProjectSaves

WorkspaceTypes ==
    /\ role \in [Members -> Roles \cup {"none"}]
    /\ record \in [RecordIds -> Rows \cup {Unused, Gone}]
    /\ accepted \in [RecordIds -> Seq(Nat)]
    /\ DOMAIN help = HelpIds
    /\ project \in [Projects -> SUBSET WorkspaceAccounts] /\ projects \subseteq Projects
    /\ accounts \subseteq WorkspaceAccounts
    /\ doing \in [WorkspaceCalls -> Doings]
    /\ asked \in Nat

\* A transaction that has read something holds the lock of the workspace.
LockHeld ==
    \A c \in WorkspaceCalls :
        doing[c].pc \in {"recipient", "issue", "belongs", "replace"} => lockedBy = c

\* A recipient who was found able to see the issue still is.
RecipientReads ==
    \A c \in WorkspaceCalls :
        doing[c].pc = "issue" => HasPermission(role[doing[c].assignee], HelpPermission[doing[c].kind])

\* A project that passed its checks still passes those that the lock protects.
ProjectChecked ==
    \A c \in WorkspaceCalls :
        doing[c].pc = "replace" =>
            /\ doing[c].new => doing[c].row \notin projects
            /\ project[doing[c].row] \subseteq doing[c].cleared
            /\ \A p \in Projects \ {doing[c].row} : project[p] \cap doing[c].chosen = {}

DeletedHasNone == \A p \in Projects \ projects : project[p] = {}

\* What a save remembers of its item: a version that was, and, if that is still the
\* version, the notes that still are.
SaveRemembers ==
    \A c \in WorkspaceCalls :
        LET d == doing[c] IN
        d.pc \in {"shown", "read", "checked"} /\ d.row # NoRecord =>
            /\ record[d.row] # Unused
            /\ IsRow(d.row) => d.version <= record[d.row].version /\ d.kind = record[d.row].kind
            /\ d.pc # "shown" /\ IsRow(d.row) /\ d.version = record[d.row].version =>
                 d.before = record[d.row].notes

\* The notes there are to show of those accepted.
Last(notes) ==
    SubSeq(notes, IF Len(notes) > KeptNotes + 1 THEN Len(notes) - KeptNotes ELSE 1, Len(notes))

WorkspaceInv ==
    /\ WorkspaceTypes /\ LockHeld /\ RecipientReads /\ ProjectChecked /\ DeletedHasNone
    /\ SaveRemembers /\ NotesAreKept

-----------------------------------------------------------------------------
(* Workspace: the ends of sequences.                                       *)

\* t is the last k elements of a, or all of it.
Ending(t, a, k) ==
    /\ t \in Seq(Nat)
    /\ Len(t) = IF Len(a) > k THEN k ELSE Len(a)
    /\ \A i \in 1 .. Len(t) : t[i] = a[Len(a) - Len(t) + i]

\* SubSeqProperties for sequences of numbers.
LEMMA SubSeqOfNats ==
    ASSUME NEW s, NEW m \in Int, NEW n \in Int, \A i \in m .. n : s[i] \in Nat
    PROVE  /\ SubSeq(s, m, n) \in Seq(Nat)
           /\ Len(SubSeq(s, m, n)) = IF m <= n THEN n - m + 1 ELSE 0
           /\ \A i \in 1 .. n - m + 1 : SubSeq(s, m, n)[i] = s[m + i - 1]
    BY SMTT(60), SubSeqProperties

\* What SubSeq takes from the right place on is the end of the sequence.
LEMMA EndOf ==
    ASSUME NEW a \in Seq(Nat), NEW k \in Nat \ {0}, NEW m,
           m = IF Len(a) > k THEN Len(a) - k + 1 ELSE 1
    PROVE  Ending(SubSeq(a, m, Len(a)), a, k)
<1> DEFINE t == SubSeq(a, m, Len(a))
<1>1. Len(a) \in Nat /\ m \in Nat \ {0} /\ m \in Int /\ Len(a) \in Int /\ k \in Nat
    OBVIOUS
<1>2. \A i \in m .. Len(a) : a[i] \in Nat
  <2>1. \A i \in m .. Len(a) : i \in 1 .. Len(a)
    BY <1>1
  <2> QED
    BY <2>1, ElementOfSeq
<1>3. Len(a) - m + 1 = IF Len(a) > k THEN k ELSE Len(a)
    BY <1>1
<1>4. (m <= Len(a)) \/ Len(a) - m + 1 = 0
    BY <1>1, <1>3
<1>5. /\ t \in Seq(Nat) /\ Len(t) = (IF m <= Len(a) THEN Len(a) - m + 1 ELSE 0)
      /\ \A i \in 1 .. Len(a) - m + 1 : t[i] = a[m + i - 1]
    BY <1>1, <1>2, SMTT(60), SubSeqOfNats
<1>6. Len(t) = Len(a) - m + 1
    BY <1>1, <1>4, <1>5
<1>7. \A i \in 1 .. Len(t) : t[i] = a[Len(a) - Len(t) + i]
  <2> HIDE DEF t
  <2>1. \A i \in 1 .. Len(t) : Len(a) - Len(t) + i = m + i - 1
    BY <1>1, <1>6
  <2> QED
    BY <1>5, <1>6, <2>1
<1> QED
    BY <1>3, <1>5, <1>6, <1>7 DEF Ending

LEMMA LastIs ==
    ASSUME NEW a \in Seq(Nat)
    PROVE  /\ Ending(Last(a), a, KeptNotes + 1)
           /\ Ending(LastNotes(a), a, KeptNotes)
<1>1. KeptNotes \in Nat \ {0} /\ KeptNotes + 1 \in Nat \ {0} /\ Len(a) \in Nat
    BY WorkspaceAssumption
<1> DEFINE m == IF Len(a) > KeptNotes + 1 THEN Len(a) - KeptNotes ELSE 1
           l == IF Len(a) > KeptNotes THEN Len(a) - KeptNotes + 1 ELSE 1
<1>2. m = IF Len(a) > KeptNotes + 1 THEN Len(a) - (KeptNotes + 1) + 1 ELSE 1
    BY <1>1
<1>3. Last(a) = SubSeq(a, m, Len(a)) /\ LastNotes(a) = SubSeq(a, l, Len(a))
    BY DEF Last, LastNotes
<1>4. l = IF Len(a) > KeptNotes THEN Len(a) - KeptNotes + 1 ELSE 1
    OBVIOUS
<1> HIDE DEF m, l
<1>5. Ending(SubSeq(a, m, Len(a)), a, KeptNotes + 1)
    BY <1>1, <1>2, EndOf
<1>6. Ending(SubSeq(a, l, Len(a)), a, KeptNotes)
    BY <1>1, <1>4, EndOf
<1> QED
    BY <1>3, <1>5, <1>6

\* The notes kept beside a new one, of those that show, and the new one are those
\* that show with it.
LEMMA LastAppended ==
    ASSUME NEW a \in Seq(Nat), NEW n \in Nat
    PROVE  /\ Last(a) \in Seq(Nat)
           /\ LastNotes(Last(a)) \o <<n>> = Last(Append(a, n))
<1> DEFINE s == Last(a)
           t == LastNotes(s)
           b == Append(a, n)
           u == Last(b)
<1>1. KeptNotes \in Nat \ {0} /\ KeptNotes + 1 \in Nat \ {0} /\ KeptNotes \in Nat
    BY WorkspaceAssumption
<1>3. /\ s \in Seq(Nat) /\ Len(s) = (IF Len(a) > KeptNotes + 1 THEN KeptNotes + 1 ELSE Len(a))
      /\ \A i \in 1 .. Len(s) : s[i] = a[Len(a) - Len(s) + i]
    BY LastIs DEF Ending
<1> HIDE DEF s
<1>4. /\ t \in Seq(Nat) /\ Len(t) = (IF Len(s) > KeptNotes THEN KeptNotes ELSE Len(s))
      /\ \A i \in 1 .. Len(t) : t[i] = s[Len(s) - Len(t) + i]
    BY <1>3, LastIs DEF Ending
<1>5. /\ b \in Seq(Nat) /\ Len(b) = Len(a) + 1 /\ b[Len(a) + 1] = n
      /\ \A i \in 1 .. Len(a) : b[i] = a[i]
    BY AppendProperties
<1> HIDE DEF t, b
<1>6. /\ u \in Seq(Nat) /\ Len(u) = (IF Len(b) > KeptNotes + 1 THEN KeptNotes + 1 ELSE Len(b))
      /\ \A i \in 1 .. Len(u) : u[i] = b[Len(b) - Len(u) + i]
    BY <1>5, LastIs DEF Ending
<1> HIDE DEF u
<1>7. /\ Len(a) \in Nat /\ Len(s) \in Nat /\ Len(t) \in Nat /\ Len(b) \in Nat /\ Len(u) \in Nat
      /\ Len(u) = Len(t) + 1 /\ Len(t) <= Len(s) /\ Len(s) <= Len(a)
  <2>1. Len(a) \in Nat /\ Len(s) \in Nat /\ Len(t) \in Nat /\ Len(b) \in Nat /\ Len(u) \in Nat
    BY <1>3, <1>4, <1>5, <1>6
  <2>2. /\ Len(s) = (IF Len(a) > KeptNotes + 1 THEN KeptNotes + 1 ELSE Len(a))
        /\ Len(t) = (IF Len(s) > KeptNotes THEN KeptNotes ELSE Len(s))
        /\ Len(b) = Len(a) + 1
        /\ Len(u) = (IF Len(b) > KeptNotes + 1 THEN KeptNotes + 1 ELSE Len(b))
    BY <1>3, <1>4, <1>5, <1>6
  <2> QED
    BY <1>1, <2>1, <2>2
<1>8. /\ t \o <<n>> \in Seq(Nat) /\ Len(t \o <<n>>) = Len(t) + 1
      /\ \A i \in 1 .. Len(t) : (t \o <<n>>)[i] = t[i]
      /\ (t \o <<n>>)[Len(t) + 1] = n
  <2>1. t \o <<n>> = Append(t, n)
    BY <1>4, AppendIsConcat
  <2> QED
    BY <1>4, <2>1, AppendProperties
<1>9. ASSUME NEW i \in 1 .. Len(t) + 1
      PROVE  (t \o <<n>>)[i] = u[i]
  <2>1. CASE i <= Len(t)
    <3>1. i \in 1 .. Len(t) /\ Len(s) - Len(t) + i \in 1 .. Len(s)
      BY <1>7, <2>1
    <3>2. t[i] = a[Len(a) - Len(s) + (Len(s) - Len(t) + i)]
      BY <1>3, <1>4, <3>1
    <3>3. /\ Len(a) - Len(s) + (Len(s) - Len(t) + i) = Len(a) - Len(t) + i
          /\ Len(b) - Len(u) + i = Len(a) - Len(t) + i
          /\ Len(a) - Len(t) + i \in 1 .. Len(a) /\ i \in 1 .. Len(u)
      BY <1>5, <1>7, <3>1
    <3>4. t[i] = a[Len(a) - Len(t) + i] /\ u[i] = b[Len(a) - Len(t) + i]
      BY <1>6, <3>2, <3>3
    <3>5. b[Len(a) - Len(t) + i] = a[Len(a) - Len(t) + i] /\ (t \o <<n>>)[i] = t[i]
      BY <1>5, <1>8, <3>1, <3>3
    <3> QED
      BY <3>4, <3>5
  <2>2. CASE i = Len(t) + 1
    <3>1. i \in 1 .. Len(u) /\ Len(b) - Len(u) + i = Len(a) + 1 /\ ~(i <= Len(t))
      BY <1>5, <1>7, <2>2
    <3>2. u[i] = b[Len(a) + 1]
      <4>1. u[i] = b[Len(b) - Len(u) + i]
        BY <1>6, <3>1
      <4> QED
        BY <3>1, <4>1
    <3> QED
      BY <1>5, <1>8, <2>2, <3>2
  <2> QED
    BY <1>7, <2>1, <2>2
<1>10. t \o <<n>> = u
    BY <1>6, <1>7, <1>8, <1>9, SeqEqual
<1> QED
    BY <1>3, <1>10 DEF s, t, b, u

-----------------------------------------------------------------------------
(* Workspace: what a step of one request leaves of the invariant.          *)

SavePcs == {"shown", "read", "checked"}
LockPcs == {"recipient", "issue", "belongs", "replace"}

\* Which kind of request is in which state.
LEMMA DoingCases ==
    ASSUME WorkspaceTypes, NEW c \in WorkspaceCalls
    PROVE  /\ doing[c] \in Doings
           /\ doing[c].pc \in SavePcs => doing[c] \in Saves
           /\ doing[c].pc = "delete" => doing[c] \in Deletions
           /\ doing[c].pc \in {"recipient", "issue"} => doing[c] \in Helps
           /\ doing[c].pc \in {"belongs", "replace"} => doing[c] \in ProjectSaves
           /\ doing[c].pc = "lock" => doing[c] \in Helps \cup ProjectSaves
<1>1. doing[c] \in Doings
    BY DEF WorkspaceTypes
<1> QED
    BY <1>1 DEF Doings, Resting, Saves, Deletions, Helps, ProjectSaves, SavePcs

\* One request moves and the others stay.
LEMMA DoingMoves ==
    ASSUME WorkspaceTypes, NEW c \in WorkspaceCalls, NEW f \in Doings,
           doing' = [doing EXCEPT ![c] = f]
    PROVE  /\ doing' \in [WorkspaceCalls -> Doings]
           /\ doing'[c] = f
           /\ \A e \in WorkspaceCalls : e # c => doing'[e] = doing[e]
BY DEF WorkspaceTypes

\* What the checks of a project that the lock protects say.
Passed(f) ==
    /\ f.new => f.row \notin projects
    /\ project[f.row] \subseteq f.cleared
    /\ \A p \in Projects \ {f.row} : project[p] \cap f.chosen = {}

\* A request that writes no role and no project.
LEMMA LocksFrame ==
    ASSUME WorkspaceInv, NEW c \in WorkspaceCalls, NEW f \in Doings,
           doing' = [doing EXCEPT ![c] = f], UNCHANGED <<role, project, projects>>,
           \A e \in WorkspaceCalls : e # c /\ doing[e].pc \in LockPcs /\ lockedBy = e => lockedBy' = e,
           f.pc \in LockPcs => lockedBy' = c,
           f.pc = "issue" => HasPermission(role[f.assignee], HelpPermission[f.kind]),
           f.pc = "replace" => Passed(f)
    PROVE  LockHeld' /\ RecipientReads' /\ ProjectChecked' /\ DeletedHasNone'
<1>1. /\ doing'[c] = f
      /\ \A e \in WorkspaceCalls : e # c => doing'[e] = doing[e]
    BY DoingMoves DEF WorkspaceInv
<1>2. LockHeld'
    BY <1>1 DEF WorkspaceInv, LockHeld, LockPcs
<1>3. RecipientReads'
    BY <1>1 DEF WorkspaceInv, RecipientReads
<1>4. ProjectChecked'
    BY <1>1 DEF WorkspaceInv, ProjectChecked, Passed
<1>5. DeletedHasNone'
    BY DEF WorkspaceInv, DeletedHasNone
<1> QED
    BY <1>2, <1>3, <1>4, <1>5

\* A request that is no save and writes no item.
LEMMA SavesFrame ==
    ASSUME WorkspaceInv, NEW c \in WorkspaceCalls, NEW f \in Doings,
           doing' = [doing EXCEPT ![c] = f], UNCHANGED <<record, accepted>>, f.pc \notin SavePcs
    PROVE  SaveRemembers' /\ NotesAreKept'
<1>1. /\ doing'[c] = f
      /\ \A e \in WorkspaceCalls : e # c => doing'[e] = doing[e]
    BY DoingMoves DEF WorkspaceInv
<1>2. SaveRemembers'
    BY <1>1 DEF WorkspaceInv, SaveRemembers, IsRow, SavePcs
<1>3. NotesAreKept'
    BY DEF WorkspaceInv, NotesAreKept, IsRow
<1> QED
    BY <1>2, <1>3

\* What is not a row is none of the others.
LEMMA RowCases ==
    ASSUME WorkspaceTypes, NEW r \in RecordIds
    PROVE  /\ IsRow(r) => record[r] \in Rows /\ record[r] # Unused /\ record[r] # Gone
           /\ Unused # Gone
<1>1. record[r] \in Rows \cup {Unused, Gone}
    BY DEF WorkspaceTypes
<1> QED
    BY <1>1 DEF IsRow, Unused, Gone

-----------------------------------------------------------------------------
(* Workspace: every action keeps the invariant.                            *)

LEMMA OpenKeeps ==
    ASSUME WorkspaceInv, NEW c \in WorkspaceCalls, NEW u \in Members,
           NEW r \in RecordIds \cup {NoRecord}, NEW k \in RecordKinds, NEW a \in Members,
           OpenRecord(c, u, r, k, a)
    PROVE  WorkspaceInv'
<1> DEFINE f == [pc |-> "shown", user |-> u, row |-> r, kind |-> k, assignee |-> a,
                 note |-> asked, version |-> IF r = NoRecord THEN 0 ELSE record[r].version,
                 before |-> <<>>]
<1>1. doing' = [doing EXCEPT ![c] = f] /\ asked' = asked + 1 /\ UNCHANGED <<saveVars, record, accepted>>
    BY DEF OpenRecord, Begin
<1>2. asked \in Nat /\ asked' \in Nat
    BY <1>1 DEF WorkspaceInv, WorkspaceTypes
<1>3. r # NoRecord => r \in RecordIds /\ IsRow(r) /\ record[r] \in Rows /\ record[r].kind = k
    BY RowCases DEF OpenRecord, WorkspaceInv
<1>4. f.version \in Nat
    BY <1>3 DEF Rows
<1>5. f \in Saves
    BY <1>2, <1>4 DEF Saves
<1>6. f \in Doings /\ f.pc = "shown" /\ f.row = r /\ f.kind = k /\ (r # NoRecord => f.version = record[r].version)
    BY <1>5 DEF Doings
<1> HIDE DEF f
<1>7. LockHeld' /\ RecipientReads' /\ ProjectChecked' /\ DeletedHasNone'
    BY <1>1, <1>6, LocksFrame DEF saveVars, LockPcs
<1>8. /\ doing' \in [WorkspaceCalls -> Doings] /\ doing'[c] = f
      /\ \A e \in WorkspaceCalls : e # c => doing'[e] = doing[e]
    BY <1>1, <1>6, DoingMoves DEF WorkspaceInv
<1>9. r # NoRecord => record[r] # Unused /\ record[r].version \in Nat
    BY <1>3, RowCases DEF Rows, WorkspaceInv
<1>10. SaveRemembers'
  <2>1. \A x : IsRow(x)' <=> IsRow(x)
    BY <1>1 DEF IsRow
  <2>2. record[r].version \in Nat => record[r].version <= record[r].version
    OBVIOUS
  <2> QED
    BY <1>1, <1>3, <1>6, <1>8, <1>9, <2>1, <2>2 DEF WorkspaceInv, SaveRemembers
<1>11. NotesAreKept'
    BY <1>1 DEF WorkspaceInv, NotesAreKept, IsRow
<1>12. WorkspaceTypes'
    BY <1>1, <1>2, <1>8 DEF WorkspaceInv, WorkspaceTypes, saveVars
<1> QED
    BY <1>7, <1>10, <1>11, <1>12 DEF WorkspaceInv

\* A request that goes to rest, or to a state that is no save and holds no lock.
LEMMA PlainMove ==
    ASSUME WorkspaceInv, NEW c \in WorkspaceCalls, NEW f \in Doings,
           doing' = [doing EXCEPT ![c] = f], f.pc \notin SavePcs, f.pc \notin LockPcs,
           UNCHANGED <<role, record, accepted, project, projects, accounts>>,
           asked' \in Nat, DOMAIN help' = HelpIds,
           \A e \in WorkspaceCalls : e # c /\ lockedBy = e => lockedBy' = e
    PROVE  WorkspaceInv'
<1>1. LockHeld' /\ RecipientReads' /\ ProjectChecked' /\ DeletedHasNone'
    BY LocksFrame DEF LockPcs
<1>2. SaveRemembers' /\ NotesAreKept'
    BY SavesFrame
<1>3. WorkspaceTypes'
    BY DoingMoves DEF WorkspaceInv, WorkspaceTypes
<1> QED
    BY <1>1, <1>2, <1>3 DEF WorkspaceInv

LEMMA AskKeeps ==
    ASSUME WorkspaceInv, NEW c \in WorkspaceCalls, NEW u \in Members,
           \/ \E r \in RecordIds : BeginDelete(c, u, r)
           \/ \E k \in HelpKinds, t \in WorkspaceAccounts, a \in Members : AskHelp(c, u, k, t, a)
           \/ \E p \in Projects, s \in SUBSET WorkspaceAccounts : AskProject(c, u, p, s)
    PROVE  WorkspaceInv'
<1>1. asked + 1 \in Nat /\ DOMAIN help = HelpIds
    BY DEF WorkspaceInv, WorkspaceTypes
<1>2. ASSUME NEW r \in RecordIds, BeginDelete(c, u, r) PROVE WorkspaceInv'
  <2> DEFINE f == [pc |-> "delete", user |-> u, row |-> r]
  <2>1. f \in Doings /\ f.pc \notin SavePcs /\ f.pc \notin LockPcs
    BY DEF Doings, Deletions, SavePcs, LockPcs
  <2> QED
    BY <1>1, <1>2, <2>1, PlainMove DEF BeginDelete, Begin, saveVars
<1>3. ASSUME NEW k \in HelpKinds, NEW t \in WorkspaceAccounts, NEW a \in Members, AskHelp(c, u, k, t, a)
      PROVE  WorkspaceInv'
  <2> DEFINE f == [pc |-> "lock", then |-> "recipient", user |-> u, kind |-> k,
                   target |-> t, assignee |-> a]
  <2>1. f \in Doings /\ f.pc \notin SavePcs /\ f.pc \notin LockPcs
    BY DEF Doings, Helps, SavePcs, LockPcs
  <2> QED
    BY <1>1, <1>3, <2>1, PlainMove DEF AskHelp, Begin
<1>4. ASSUME NEW p \in Projects, NEW s \in SUBSET WorkspaceAccounts, AskProject(c, u, p, s)
      PROVE  WorkspaceInv'
  <2> DEFINE f == [pc |-> "lock", then |-> "belongs", row |-> p, new |-> p \notin projects,
                   chosen |-> s, cleared |-> {}]
  <2>1. f \in Doings /\ f.pc \notin SavePcs /\ f.pc \notin LockPcs
    BY DEF Doings, ProjectSaves, SavePcs, LockPcs
  <2> QED
    BY <1>1, <1>4, <2>1, PlainMove DEF AskProject, Begin
<1> QED
    BY <1>2, <1>3, <1>4

LEMMA RestKeeps ==
    ASSUME WorkspaceInv, NEW c \in WorkspaceCalls, Rest(c) \/ Release(c),
           UNCHANGED <<role, record, accepted, project, projects, accounts, asked>>,
           DOMAIN help' = HelpIds, Release(c) \/ UNCHANGED lockedBy
    PROVE  WorkspaceInv'
<1>1. Resting \in Doings /\ Resting.pc \notin SavePcs /\ Resting.pc \notin LockPcs /\ asked' \in Nat
    BY DEF Doings, Resting, SavePcs, LockPcs, WorkspaceInv, WorkspaceTypes
<1>2. doing' = [doing EXCEPT ![c] = Resting]
    BY DEF Rest, Release
<1>3. \A e \in WorkspaceCalls : e # c /\ lockedBy = e => lockedBy' = e
    BY DEF Release
<1> QED
    BY <1>1, <1>2, <1>3, PlainMove

\* A save goes on, its item as it was or as it has just been read.
LEMMA SaveGoesOn ==
    ASSUME WorkspaceInv, NEW c \in WorkspaceCalls, doing[c].pc \in SavePcs,
           NEW f \in Saves, doing' = [doing EXCEPT ![c] = f], f.pc \in SavePcs,
           f.row = doing[c].row, f.version = doing[c].version, f.kind = doing[c].kind,
           \/ f.before = doing[c].before /\ doing[c].pc # "shown"
           \/ f.row \in RecordIds => f.before = record[f.row].notes,
           UNCHANGED <<saveVars, record, accepted, asked>>
    PROVE  WorkspaceInv'
<1>1. f \in Doings /\ f.pc \notin LockPcs /\ f.pc \in {"shown", "read", "checked"}
    BY DEF Doings, SavePcs, LockPcs
<1>2. LockHeld' /\ RecipientReads' /\ ProjectChecked' /\ DeletedHasNone'
    BY <1>1, LocksFrame DEF LockPcs, saveVars
<1>3. /\ doing' \in [WorkspaceCalls -> Doings] /\ doing'[c] = f
      /\ \A e \in WorkspaceCalls : e # c => doing'[e] = doing[e]
    BY <1>1, DoingMoves DEF WorkspaceInv
<1>4. SaveRemembers'
  <2> SUFFICES ASSUME NEW e \in WorkspaceCalls,
                      doing'[e].pc \in {"shown", "read", "checked"}, doing'[e].row # NoRecord
               PROVE  /\ record[doing'[e].row] # Unused
                      /\ IsRow(doing'[e].row) =>
                           /\ doing'[e].version <= record[doing'[e].row].version
                           /\ doing'[e].kind = record[doing'[e].row].kind
                      /\ doing'[e].pc # "shown" /\ IsRow(doing'[e].row)
                           /\ doing'[e].version = record[doing'[e].row].version =>
                             doing'[e].before = record[doing'[e].row].notes
    BY DEF SaveRemembers, IsRow
  <2>1. CASE e # c
    BY <1>3, <2>1 DEF WorkspaceInv, SaveRemembers
  <2>2. CASE e = c
    <3>1. doing'[e] = f /\ f.row \in RecordIds
      BY <1>3, <2>2 DEF Saves
    <3> QED
      BY <2>2, <3>1 DEF WorkspaceInv, SaveRemembers, SavePcs
  <2> QED
    BY <2>1, <2>2
<1>5. NotesAreKept'
    BY DEF WorkspaceInv, NotesAreKept, IsRow
<1>6. WorkspaceTypes'
    BY <1>3 DEF WorkspaceInv, WorkspaceTypes, saveVars
<1> QED
    BY <1>2, <1>4, <1>5, <1>6 DEF WorkspaceInv

LEMMA ReadExistingKeeps ==
    ASSUME WorkspaceInv, NEW c \in WorkspaceCalls, ReadExisting(c)
    PROVE  WorkspaceInv'
<1> DEFINE d == doing[c]
           f == [d EXCEPT !.pc = "read"]
           g == [d EXCEPT !.pc = "read", !.before = record[d.row].notes]
<1>1. d.pc = "shown" /\ UNCHANGED <<saveVars, record, accepted, asked>>
    BY DEF ReadExisting
<1>2. d \in Saves
    BY <1>1, DoingCases DEF WorkspaceInv, SavePcs
<1>3. CASE Rest(c)
    BY <1>1, <1>3, RestKeeps DEF saveVars, WorkspaceInv, WorkspaceTypes
<1>4. CASE d.row = NoRecord /\ MoveTo(c, f)
  <2>1. /\ f \in Saves /\ f.row = d.row /\ f.version = d.version /\ f.kind = d.kind
        /\ f.pc = "read" /\ f.row \notin RecordIds
    BY <1>2, <1>4, WorkspaceAssumption DEF Saves
  <2> QED
    BY <1>1, <1>4, <2>1, SaveGoesOn DEF MoveTo, SavePcs
<1>5. CASE d.row # NoRecord /\ Editable(d.user, d.row) /\ MoveTo(c, g)
  <2>1. d.row \in RecordIds /\ IsRow(d.row)
    BY <1>2, <1>5 DEF Saves, Editable
  <2>2. record[d.row].notes \in Seq(Nat)
    BY <2>1, RowCases DEF WorkspaceInv, Rows
  <2>3. /\ g \in Saves /\ g.row = d.row /\ g.version = d.version /\ g.kind = d.kind
        /\ g.pc = "read" /\ g.before = record[d.row].notes
    BY <1>2, <2>2 DEF Saves
  <2> QED
    BY <1>1, <1>5, <2>3, SaveGoesOn DEF MoveTo, SavePcs
<1> QED
    BY <1>3, <1>4, <1>5 DEF ReadExisting

LEMMA CheckAssigneeKeeps ==
    ASSUME WorkspaceInv, NEW c \in WorkspaceCalls, CheckAssignee(c)
    PROVE  WorkspaceInv'
<1> DEFINE d == doing[c]
           f == [d EXCEPT !.pc = "checked"]
<1>1. d.pc = "read" /\ UNCHANGED <<saveVars, record, accepted, asked>>
    BY DEF CheckAssignee
<1>2. d \in Saves
    BY <1>1, DoingCases DEF WorkspaceInv, SavePcs
<1>3. CASE Rest(c)
    BY <1>1, <1>3, RestKeeps DEF saveVars, WorkspaceInv, WorkspaceTypes
<1>4. CASE MoveTo(c, f)
  <2>1. /\ f \in Saves /\ f.row = d.row /\ f.version = d.version /\ f.kind = d.kind
        /\ f.pc = "checked" /\ f.before = d.before
    BY <1>2 DEF Saves
  <2> QED
    BY <1>1, <1>4, <2>1, SaveGoesOn DEF MoveTo, SavePcs
<1> QED
    BY <1>3, <1>4 DEF CheckAssignee

\* A request that goes to rest and leaves roles, projects and the lock.
LEMMA RestsOutside ==
    ASSUME WorkspaceInv, NEW c \in WorkspaceCalls, Rest(c), UNCHANGED saveVars
    PROVE  /\ LockHeld' /\ RecipientReads' /\ ProjectChecked' /\ DeletedHasNone'
           /\ doing' \in [WorkspaceCalls -> Doings]
           /\ \A e \in WorkspaceCalls :
                doing'[e].pc \in SavePcs => e # c /\ doing'[e] = doing[e]
<1>1. Resting \in Doings /\ Resting.pc \notin LockPcs /\ Resting.pc \notin SavePcs
    BY DEF Doings, Resting, LockPcs, SavePcs
<1>2. LockHeld' /\ RecipientReads' /\ ProjectChecked' /\ DeletedHasNone'
    BY <1>1, LocksFrame DEF Rest, saveVars, LockPcs
<1>3. /\ doing' \in [WorkspaceCalls -> Doings] /\ doing'[c] = Resting
      /\ \A e \in WorkspaceCalls : e # c => doing'[e] = doing[e]
    BY <1>1, DoingMoves DEF Rest, WorkspaceInv
<1> QED
    BY <1>1, <1>2, <1>3

LEMMA DeleteRecordKeeps ==
    ASSUME WorkspaceInv, NEW c \in WorkspaceCalls, DeleteRecord(c)
    PROVE  WorkspaceInv'
<1> DEFINE r == doing[c].row
<1>1. /\ record' = [record EXCEPT ![r] = Gone] /\ Rest(c)
      /\ UNCHANGED saveVars /\ accepted' = accepted /\ asked' = asked
    BY DEF DeleteRecord
<1>2. r \in RecordIds
    BY DoingCases DEF WorkspaceInv, DeleteRecord, Deletions
<1>3. /\ record'[r] = Gone
      /\ \A q \in RecordIds : q # r => record'[q] = record[q]
      /\ record' \in [RecordIds -> Rows \cup {Unused, Gone}]
    BY <1>1, <1>2 DEF WorkspaceInv, WorkspaceTypes
<1>4. \A q \in RecordIds : IsRow(q)' => q # r /\ IsRow(q) /\ record'[q] = record[q]
    BY <1>3 DEF IsRow
<1>5. Gone # Unused
    BY DEF Gone, Unused
<1>6. SaveRemembers'
  <2> SUFFICES ASSUME NEW e \in WorkspaceCalls, doing'[e].pc \in SavePcs, doing'[e].row # NoRecord
               PROVE  /\ record'[doing'[e].row] # Unused
                      /\ record'[doing'[e].row] \notin {Unused, Gone} =>
                           /\ doing'[e].version <= record'[doing'[e].row].version
                           /\ doing'[e].kind = record'[doing'[e].row].kind
                      /\ doing'[e].pc # "shown" /\ record'[doing'[e].row] \notin {Unused, Gone}
                           /\ doing'[e].version = record'[doing'[e].row].version =>
                             doing'[e].before = record'[doing'[e].row].notes
    BY DEF SaveRemembers, SavePcs, IsRow
  <2>1. doing'[e] = doing[e]
    BY <1>1, RestsOutside
  <2>2. doing[e].row \in RecordIds
    BY <2>1, DoingCases DEF WorkspaceInv, Saves
  <2>3. record[doing[e].row] # Unused
    BY <2>1 DEF WorkspaceInv, SaveRemembers, SavePcs
  <2>4. record'[doing[e].row] # Unused
    BY <1>3, <1>5, <2>2, <2>3
  <2> QED
    BY <1>4, <2>1, <2>2, <2>4 DEF WorkspaceInv, SaveRemembers, SavePcs, IsRow
<1>7. NotesAreKept'
  <2> SUFFICES ASSUME NEW q \in RecordIds, IsRow(q)', record'[q].kind = "INCIDENT"
               PROVE  record'[q].notes = Last(accepted'[q])
    BY DEF NotesAreKept, Last
  <2> QED
    BY <1>1, <1>4 DEF WorkspaceInv, NotesAreKept, Last
<1>8. WorkspaceTypes'
    BY <1>1, <1>3, RestsOutside DEF WorkspaceInv, WorkspaceTypes, saveVars
<1> QED
    BY <1>1, <1>6, <1>7, <1>8, RestsOutside DEF WorkspaceInv

\* A save writes its item under a version that no other save has seen.
LEMMA WriteKeepsItems ==
    ASSUME WorkspaceInv, NEW c \in WorkspaceCalls, NEW r \in RecordIds, NEW g \in Rows,
           NEW b \in Seq(Nat), Rest(c), UNCHANGED <<saveVars, asked>>,
           record' = [record EXCEPT ![r] = g], accepted' = [accepted EXCEPT ![r] = b],
           record[r] # Unused => record[r] \in Rows /\ g.kind = record[r].kind
                                                    /\ record[r].version < g.version,
           g.kind = "INCIDENT" => g.notes = Last(b)
    PROVE  WorkspaceInv'
<1>1. /\ record'[r] = g /\ accepted'[r] = b
      /\ \A q \in RecordIds : q # r => record'[q] = record[q] /\ accepted'[q] = accepted[q]
      /\ record' \in [RecordIds -> Rows \cup {Unused, Gone}] /\ accepted' \in [RecordIds -> Seq(Nat)]
    BY DEF WorkspaceInv, WorkspaceTypes
<1>2. g # Unused
    BY WorkspaceAssumption DEF Rows, Unused
<1>3. SaveRemembers'
  <2> SUFFICES ASSUME NEW e \in WorkspaceCalls, doing'[e].pc \in SavePcs, doing'[e].row # NoRecord
               PROVE  /\ record'[doing'[e].row] # Unused
                      /\ record'[doing'[e].row] \notin {Unused, Gone} =>
                           /\ doing'[e].version <= record'[doing'[e].row].version
                           /\ doing'[e].kind = record'[doing'[e].row].kind
                      /\ doing'[e].pc # "shown" /\ record'[doing'[e].row] \notin {Unused, Gone}
                           /\ doing'[e].version = record'[doing'[e].row].version =>
                             doing'[e].before = record'[doing'[e].row].notes
    BY DEF SaveRemembers, SavePcs, IsRow
  <2>1. doing'[e] = doing[e]
    BY RestsOutside
  <2>2. doing[e].row \in RecordIds /\ doing[e].version \in Nat
    BY <2>1, DoingCases DEF WorkspaceInv, Saves
  <2>3. record[doing[e].row] # Unused
    BY <2>1 DEF WorkspaceInv, SaveRemembers, SavePcs
  <2>4. CASE doing[e].row # r
    BY <1>1, <2>1, <2>2, <2>3, <2>4 DEF WorkspaceInv, SaveRemembers, SavePcs, IsRow
  <2>5. CASE doing[e].row = r
    <3>1. record[r] \in Rows /\ g.kind = record[r].kind /\ record[r].version < g.version
      BY <2>3, <2>5
    <3>2. record[r].version \in Nat /\ g.version \in Nat /\ record[r] \notin {Unused, Gone}
      BY <3>1 DEF Rows, Unused, Gone
    <3>3. doing[e].version <= record[r].version /\ doing[e].kind = record[r].kind
      BY <2>1, <2>2, <2>5, <3>2 DEF WorkspaceInv, SaveRemembers, SavePcs, IsRow
    <3>4. doing[e].version < g.version
      BY <2>2, <3>1, <3>2, <3>3
    <3>5. doing[e].version <= g.version /\ doing[e].version # g.version
      BY <2>2, <3>2, <3>4
    <3> QED
      BY <1>1, <1>2, <2>1, <2>5, <3>1, <3>3, <3>5
  <2> QED
    BY <2>4, <2>5
<1>4. NotesAreKept'
  <2> SUFFICES ASSUME NEW q \in RecordIds, IsRow(q)', record'[q].kind = "INCIDENT"
               PROVE  record'[q].notes = Last(accepted'[q])
    BY DEF NotesAreKept, Last
  <2>1. CASE q = r
    BY <1>1, <2>1
  <2>2. CASE q # r
    <3>1. record'[q] = record[q] /\ accepted'[q] = accepted[q]
      BY <1>1, <2>2
    <3> QED
      BY <3>1 DEF WorkspaceInv, NotesAreKept, Last, IsRow
  <2> QED
    BY <2>1, <2>2
<1>5. WorkspaceTypes'
    BY <1>1, RestsOutside DEF WorkspaceInv, WorkspaceTypes, saveVars
<1> QED
    BY <1>3, <1>4, <1>5, RestsOutside DEF WorkspaceInv

LEMMA WriteEditKeeps ==
    ASSUME WorkspaceInv, NEW c \in WorkspaceCalls, WriteEdit(c)
    PROVE  WorkspaceInv'
<1> DEFINE d == doing[c]
           r == d.row
           g == Edited(record[r], d)
           b == Append(accepted[r], d.note)
<1>1. d.pc = "checked" /\ r # NoRecord /\ Rest(c) /\ UNCHANGED saveVars /\ asked' = asked
    BY DEF WriteEdit
<1>2. d \in Saves /\ r \in RecordIds
    BY <1>1, DoingCases DEF WorkspaceInv, SavePcs, Saves
<1>3. CASE UNCHANGED <<record, accepted>>
    BY <1>1, <1>3, RestKeeps DEF saveVars, WorkspaceInv, WorkspaceTypes
<1>4. CASE /\ SameVersion(r, d.version)
           /\ record' = [record EXCEPT ![r] = g]
           /\ accepted' = [accepted EXCEPT ![r] = b]
  <2>1. IsRow(r) /\ record[r] \in Rows /\ record[r].version = d.version
    BY <1>2, <1>4, RowCases DEF SameVersion, WorkspaceInv
  <2>2. d.kind = record[r].kind /\ d.before = record[r].notes
    BY <1>1, <2>1 DEF WorkspaceInv, SaveRemembers
  <2>3. d.note \in Nat /\ d.assignee \in Members /\ record[r].version \in Nat /\ accepted[r] \in Seq(Nat)
    BY <1>2, <2>1 DEF Saves, Rows, WorkspaceInv, WorkspaceTypes
  <2>4. b \in Seq(Nat)
    BY <2>3
  <2>5. record[r].kind = "INCIDENT" =>
           Timeline(d, d.before) = Last(b) /\ Timeline(d, d.before) \in Seq(Nat)
    <3>1. ASSUME record[r].kind = "INCIDENT"
          PROVE  d.before = Last(accepted[r]) /\ Timeline(d, d.before) = LastNotes(d.before) \o <<d.note>>
      BY <1>2, <2>1, <2>2, <3>1 DEF WorkspaceInv, NotesAreKept, Last, Timeline
    <3>2. LastNotes(Last(accepted[r])) \o <<d.note>> = Last(b) /\ Last(b) \in Seq(Nat)
      BY <2>3, <2>4, LastAppended, LastIs DEF Ending
    <3> QED
      BY <3>1, <3>2
  <2>6. Timeline(d, d.before) \in Seq(Nat)
    BY <2>2, <2>5 DEF Timeline
  <2> DEFINE t == Timeline(d, d.before)
             v == record[r].version + 1
  <2>7. v \in Nat /\ record[r].version < v
    BY <2>3
  <2> HIDE DEF t
  <2>8. g = [record[r] EXCEPT !.assignee = d.assignee, !.notes = t, !.version = v]
    BY <2>1 DEF t, Rows, Edited
  <2> HIDE DEF g, v
  <2>9. /\ g \in Rows /\ g.kind = record[r].kind /\ g.notes = t /\ g.version = v
    BY <2>1, <2>3, <2>6, <2>7, <2>8 DEF Rows, t
  <2> HIDE DEF b
  <2>10. g.kind = "INCIDENT" => g.notes = Last(b)
    BY <2>5, <2>9 DEF t
  <2>11. record[r] # Unused => record[r] \in Rows /\ g.kind = record[r].kind /\ record[r].version < g.version
    BY <2>1, <2>7, <2>9
  <2> QED
    BY <1>1, <1>2, <1>4, <2>4, <2>9, <2>10, <2>11, WriteKeepsItems DEF g, b
<1> QED
    BY <1>3, <1>4 DEF WriteEdit

\* The first note is all there is to show.
LEMMA FirstNote ==
    ASSUME NEW n \in Nat
    PROVE  LastNotes(<<>>) \o <<n>> = Last(<<n>>) /\ Last(<<n>>) \in Seq(Nat)
<1>1. <<>> \in Seq(Nat) /\ Len(<<>>) = 0 /\ Append(<<>>, n) = <<n>> /\ <<n>> \in Seq(Nat)
    OBVIOUS
<1>2. Last(<<>>) \in Seq(Nat) /\ Len(Last(<<>>)) = 0
  <2>1. Ending(Last(<<>>), <<>>, KeptNotes + 1)
    BY <1>1, LastIs
  <2>2. Last(<<>>) \in Seq(Nat) /\ Len(Last(<<>>)) = IF Len(<<>>) > KeptNotes + 1 THEN KeptNotes + 1 ELSE Len(<<>>)
    BY <2>1 DEF Ending
  <2>3. ~(0 > KeptNotes + 1)
    BY WorkspaceAssumption
  <2> QED
    BY <1>1, <2>2, <2>3
<1>3. Last(<<>>) = <<>>
    BY <1>2, EmptySeq
<1> QED
    BY <1>1, <1>3, LastAppended, LastIs DEF Ending

LEMMA WriteNewKeeps ==
    ASSUME WorkspaceInv, NEW c \in WorkspaceCalls, WriteNew(c)
    PROVE  WorkspaceInv'
<1> DEFINE d == doing[c]
           g == [kind |-> d.kind, by |-> d.user, assignee |-> d.assignee,
                 notes |-> Timeline(d, <<>>), version |-> 1]
<1>1. d.pc = "checked" /\ Rest(c) /\ UNCHANGED saveVars /\ asked' = asked
    BY DEF WriteNew
<1>2. d \in Saves
    BY <1>1, DoingCases DEF WorkspaceInv, SavePcs
<1>3. CASE UNCHANGED <<record, accepted>>
    BY <1>1, <1>3, RestKeeps DEF saveVars, WorkspaceInv, WorkspaceTypes
<1>4. ASSUME NEW r \in RecordIds, record[r] = Unused,
             record' = [record EXCEPT ![r] = g], accepted' = [accepted EXCEPT ![r] = <<d.note>>]
      PROVE  WorkspaceInv'
  <2>1. d.note \in Nat /\ d.kind \in RecordKinds /\ d.user \in Members /\ d.assignee \in Members
    BY <1>2 DEF Saves
  <2>2. <<d.note>> \in Seq(Nat) /\ <<>> \in Seq(Nat)
    BY <2>1
  <2>3. Timeline(d, <<>>) \in Seq(Nat) /\ (d.kind = "INCIDENT" => Timeline(d, <<>>) = Last(<<d.note>>))
    BY <2>1, <2>2, FirstNote DEF Timeline
  <2>4. g \in Rows /\ (g.kind = "INCIDENT" => g.notes = Last(<<d.note>>))
    BY <2>1, <2>3 DEF Rows
  <2> HIDE DEF g
  <2> QED
    BY <1>1, <1>4, <2>2, <2>4, WriteKeepsItems
<1> QED
    BY <1>3, <1>4 DEF WriteNew

-----------------------------------------------------------------------------
(* Workspace: the transactions under the lock.                             *)

LEMMA TakeLockKeeps ==
    ASSUME WorkspaceInv, NEW c \in WorkspaceCalls, TakeLock(c)
    PROVE  WorkspaceInv'
<1> DEFINE f == [doing[c] EXCEPT !.pc = doing[c].then]
<1>1. /\ doing[c].pc = "lock" /\ lockedBy = NoTransaction /\ lockedBy' = c
      /\ doing' = [doing EXCEPT ![c] = f] /\ UNCHANGED <<lockVars, help, project, projects>>
    BY DEF TakeLock, LockIsFree, MoveTo
<1>2. f \in Helps \cup ProjectSaves /\ f.pc \in {"recipient", "belongs"}
    BY <1>1, DoingCases DEF WorkspaceInv, Helps, ProjectSaves
<1>3. f \in Doings /\ f.pc \notin SavePcs
    BY <1>2 DEF Doings, SavePcs
<1> HIDE DEF f
<1>4. \A e \in WorkspaceCalls : lockedBy # e
    BY <1>1, WorkspaceAssumption
<1>5. LockHeld' /\ RecipientReads' /\ ProjectChecked' /\ DeletedHasNone'
    BY <1>1, <1>2, <1>3, <1>4, LocksFrame DEF lockVars
<1>6. SaveRemembers' /\ NotesAreKept'
    BY <1>1, <1>3, SavesFrame DEF lockVars
<1>7. WorkspaceTypes'
    BY <1>1, <1>3, DoingMoves DEF WorkspaceInv, WorkspaceTypes, lockVars
<1> QED
    BY <1>5, <1>6, <1>7 DEF WorkspaceInv

\* The lock stays with the transaction that has it, which goes on with what it checked.
LEMMA StaysLocked ==
    ASSUME WorkspaceInv, NEW c \in WorkspaceCalls, NEW f \in Doings,
           doing[c].pc \in LockPcs, doing' = [doing EXCEPT ![c] = f], f.pc \in LockPcs,
           f.pc = "issue" => HasPermission(role[f.assignee], HelpPermission[f.kind]),
           f.pc = "replace" => Passed(f),
           UNCHANGED <<lockVars, help, project, projects, lockedBy>>
    PROVE  WorkspaceInv'
<1>1. lockedBy' = c
    BY DEF WorkspaceInv, LockHeld, LockPcs
<1>2. LockHeld' /\ RecipientReads' /\ ProjectChecked' /\ DeletedHasNone'
    BY <1>1, LocksFrame DEF lockVars
<1>3. f.pc \notin SavePcs
    BY DEF SavePcs, LockPcs
<1>4. SaveRemembers' /\ NotesAreKept'
    BY <1>3, SavesFrame DEF lockVars
<1>5. WorkspaceTypes'
    BY DoingMoves DEF WorkspaceInv, WorkspaceTypes, lockVars
<1> QED
    BY <1>2, <1>4, <1>5 DEF WorkspaceInv

LEMMA ReadRecipientKeeps ==
    ASSUME WorkspaceInv, NEW c \in WorkspaceCalls, ReadRecipient(c)
    PROVE  WorkspaceInv'
<1> DEFINE d == doing[c]
           f == [d EXCEPT !.pc = "issue"]
<1>1. d.pc = "recipient" /\ UNCHANGED <<lockVars, help, project, projects>>
    BY DEF ReadRecipient
<1>2. d \in Helps
    BY <1>1, DoingCases DEF WorkspaceInv
<1>3. CASE Release(c)
    BY <1>1, <1>3, RestKeeps DEF lockVars, WorkspaceInv, WorkspaceTypes
<1>4. CASE /\ HasPermission(role[d.assignee], HelpPermission[d.kind])
           /\ MoveTo(c, f) /\ UNCHANGED lockedBy
  <2>1. f \in Helps /\ f.pc = "issue" /\ f.assignee = d.assignee /\ f.kind = d.kind
    BY <1>2 DEF Helps
  <2> QED
    BY <1>1, <1>4, <2>1, StaysLocked DEF MoveTo, LockPcs, Doings
<1> QED
    BY <1>3, <1>4 DEF ReadRecipient

LEMMA HelpKeeps ==
    ASSUME WorkspaceInv,
           \/ \E c \in WorkspaceCalls : CreateHelp(c)
           \/ \E u \in Members, h \in HelpIds, s \in {"OPEN", "DONE"} : CompleteHelp(u, h, s)
    PROVE  WorkspaceInv'
<1>1. ASSUME NEW c \in WorkspaceCalls, CreateHelp(c) PROVE WorkspaceInv'
  <2>1. Release(c) /\ UNCHANGED <<lockVars, project, projects>>
    BY <1>1 DEF CreateHelp
  <2>2. DOMAIN help' = HelpIds
    BY <1>1 DEF CreateHelp, WorkspaceInv, WorkspaceTypes
  <2> QED
    BY <2>1, <2>2, RestKeeps DEF lockVars
<1>2. ASSUME NEW u \in Members, NEW h \in HelpIds, NEW s \in {"OPEN", "DONE"}, CompleteHelp(u, h, s)
      PROVE  WorkspaceInv'
  <2>1. UNCHANGED <<lockVars, project, projects, lockedBy, doing>>
    BY <1>2 DEF CompleteHelp
  <2>2. DOMAIN help' = HelpIds
    BY <1>2 DEF CompleteHelp, WorkspaceInv, WorkspaceTypes
  <2>3. /\ LockHeld' /\ RecipientReads' /\ ProjectChecked' /\ DeletedHasNone'
        /\ SaveRemembers' /\ NotesAreKept'
    BY <2>1 DEF WorkspaceInv, lockVars, LockHeld, RecipientReads, ProjectChecked, DeletedHasNone,
                SaveRemembers, NotesAreKept, IsRow
  <2>4. WorkspaceTypes'
    BY <2>1, <2>2 DEF WorkspaceInv, WorkspaceTypes, lockVars
  <2> QED
    BY <2>3, <2>4 DEF WorkspaceInv
<1> QED
    BY <1>1, <1>2

LEMMA CheckProjectKeeps ==
    ASSUME WorkspaceInv, NEW c \in WorkspaceCalls, CheckProject(c)
    PROVE  WorkspaceInv'
<1> DEFINE d == doing[c]
           f == [d EXCEPT !.pc = "replace", !.cleared = project[d.row]]
<1>1. d.pc = "belongs" /\ UNCHANGED <<lockVars, help, project, projects>>
    BY DEF CheckProject
<1>2. d \in ProjectSaves
    BY <1>1, DoingCases DEF WorkspaceInv
<1>3. CASE Release(c)
    BY <1>1, <1>3, RestKeeps DEF lockVars, WorkspaceInv, WorkspaceTypes
<1>4. CASE /\ d.new <=> d.row \notin projects
           /\ \A p \in projects \ {d.row} : project[p] \cap d.chosen = {}
           /\ MoveTo(c, f) /\ UNCHANGED lockedBy
  <2>1. project[d.row] \in SUBSET WorkspaceAccounts
    BY <1>2 DEF WorkspaceInv, WorkspaceTypes, ProjectSaves
  <2>2. /\ f \in ProjectSaves /\ f.pc = "replace" /\ f.cleared = project[d.row]
        /\ f.new = d.new /\ f.row = d.row /\ f.chosen = d.chosen
    BY <1>2, <2>1 DEF ProjectSaves
  <2>3. \A p \in Projects \ {d.row} : project[p] \cap d.chosen = {}
    BY <1>4 DEF WorkspaceInv, DeletedHasNone
  <2>4. Passed(f)
    BY <1>4, <2>2, <2>3 DEF Passed
  <2> QED
    BY <1>1, <1>4, <2>2, <2>4, StaysLocked DEF MoveTo, LockPcs, Doings
<1> QED
    BY <1>3, <1>4 DEF CheckProject

LEMMA CommitProjectKeeps ==
    ASSUME WorkspaceInv, NEW c \in WorkspaceCalls, CommitProject(c)
    PROVE  /\ WorkspaceInv'
           /\ \/ project'[doing[c].row] = doing[c].chosen
              \/ ~ doing[c].chosen \subseteq accounts
              \/ ~ doing[c].new /\ doing[c].row \notin projects
<1> DEFINE d == doing[c]
           r == d.row
           left == [project EXCEPT ![r] = @ \ d.cleared]
<1>1. d.pc = "replace" /\ Release(c) /\ UNCHANGED <<lockVars, help>>
    BY DEF CommitProject
<1>2. d \in ProjectSaves
    BY <1>1, DoingCases DEF WorkspaceInv
<1>3. r \in Projects /\ d.chosen \subseteq WorkspaceAccounts /\ d.new \in BOOLEAN
    BY <1>2 DEF ProjectSaves
<1>4. /\ d.new => r \notin projects
      /\ project[r] \subseteq d.cleared
      /\ \A p \in Projects \ {r} : project[p] \cap d.chosen = {}
    BY <1>1 DEF WorkspaceInv, ProjectChecked
<1>5. /\ left[r] = {}
      /\ \A p \in Projects : p # r => left[p] = project[p]
    BY <1>3, <1>4 DEF WorkspaceInv, WorkspaceTypes
<1>6. CASE /\ d.new <=> r \notin projects
           /\ project' = [left EXCEPT ![r] = @ \cup d.chosen]
           /\ projects' = projects \cup {r}
  <2>1. /\ project'[r] = d.chosen
        /\ \A p \in Projects : p # r => project'[p] = project[p]
        /\ project' \in [Projects -> SUBSET WorkspaceAccounts] /\ projects' \subseteq Projects
    BY <1>3, <1>5, <1>6 DEF WorkspaceInv, WorkspaceTypes
  <2>2. /\ doing' = [doing EXCEPT ![c] = Resting] /\ Resting \in Doings
        /\ Resting.pc \notin LockPcs /\ Resting.pc \notin SavePcs
    BY <1>1 DEF Release, Rest, Doings, Resting, LockPcs, SavePcs
  <2>3. /\ doing' \in [WorkspaceCalls -> Doings] /\ doing'[c] = Resting
        /\ \A e \in WorkspaceCalls : e # c => doing'[e] = doing[e]
    BY <2>2, DoingMoves DEF WorkspaceInv
  <2>4. \A e \in WorkspaceCalls : doing'[e].pc \notin LockPcs
    BY <1>1, <2>2, <2>3 DEF WorkspaceInv, LockHeld, LockPcs
  <2>5. LockHeld' /\ RecipientReads' /\ ProjectChecked'
    BY <2>4 DEF LockHeld, RecipientReads, ProjectChecked, LockPcs
  <2>6. DeletedHasNone'
    BY <1>6, <2>1 DEF WorkspaceInv, DeletedHasNone
  <2>7. SaveRemembers' /\ NotesAreKept'
    BY <1>1, <2>2, SavesFrame DEF lockVars
  <2>8. WorkspaceTypes'
    BY <1>1, <2>1, <2>3 DEF WorkspaceInv, WorkspaceTypes, lockVars
  <2> QED
    BY <2>1, <2>5, <2>6, <2>7, <2>8 DEF WorkspaceInv
<1>7. CASE /\ UNCHANGED <<project, projects>>
           /\ ~ /\ d.new <=> r \notin projects
                /\ d.chosen \subseteq accounts
                /\ \A p \in Projects : left[p] \cap d.chosen = {}
  <2>1. \A p \in Projects : left[p] \cap d.chosen = {}
    BY <1>4, <1>5
  <2>2. ~ (d.chosen \subseteq accounts) \/ (~ d.new /\ r \notin projects)
    <3>1. ASSUME d.chosen \subseteq accounts PROVE ~ (d.new <=> r \notin projects)
      BY <1>7, <2>1, <3>1
    <3>2. d.new => r \notin projects
      BY <1>4
    <3> HIDE DEF d
    <3> QED
      BY <3>1, <3>2, Zenon
  <2>3. WorkspaceInv'
    BY <1>1, <1>7, RestKeeps DEF lockVars, WorkspaceInv, WorkspaceTypes
  <2> QED
    BY <2>2, <2>3
<1> QED
    BY <1>6, <1>7 DEF CommitProject

\* A step that no request takes part in.
LEMMA OthersKeep ==
    ASSUME WorkspaceInv,
           \/ \E u \in Members, p \in Projects : DeleteProject(u, p)
           \/ \E u \in Members, new \in SeenRoles \cup {"none"} : ChangeRole(u, new)
           \/ \E u \in Members, new \in SeenRoles : Join(u, new)
           \/ \E a \in WorkspaceAccounts : AccountIsDisconnected(a)
           \/ UNCHANGED workspaceVars
    PROVE  WorkspaceInv'
<1>1. UNCHANGED <<record, accepted, help, lockedBy, doing, asked>>
    BY DEF DeleteProject, ChangeRole, Join, AccountIsDisconnected, workspaceVars, lockVars
<1>2. LockHeld' /\ SaveRemembers' /\ NotesAreKept'
    BY <1>1 DEF WorkspaceInv, LockHeld, SaveRemembers, NotesAreKept, IsRow
<1>3. SeenRoles \subseteq Roles
    BY WorkspaceAssumption
<1>4. ASSUME NEW u \in Members, NEW p \in Projects, DeleteProject(u, p) PROVE WorkspaceInv'
  <2>1. /\ projects' = projects \ {p} /\ UNCHANGED lockVars
        /\ project'[p] = {} /\ \A q \in Projects : q # p => project'[q] = project[q]
        /\ project' \in [Projects -> SUBSET WorkspaceAccounts]
    BY <1>4 DEF DeleteProject, WorkspaceInv, WorkspaceTypes
  <2>2. \A q \in Projects : project'[q] \subseteq project[q]
    BY <2>1
  <2>3. RecipientReads' /\ DeletedHasNone'
    BY <1>1, <2>1 DEF WorkspaceInv, RecipientReads, DeletedHasNone, lockVars
  <2>4. ProjectChecked'
    <3> SUFFICES ASSUME NEW c \in WorkspaceCalls, doing[c].pc = "replace"
                 PROVE  /\ doing[c].new => doing[c].row \notin projects'
                        /\ project'[doing[c].row] \subseteq doing[c].cleared
                        /\ \A q \in Projects \ {doing[c].row} : project'[q] \cap doing[c].chosen = {}
      BY <1>1 DEF ProjectChecked
    <3>1. doing[c].row \in Projects
      BY DoingCases DEF WorkspaceInv, ProjectSaves
    <3> QED
      BY <2>1, <2>2, <3>1 DEF WorkspaceInv, ProjectChecked
  <2>5. WorkspaceTypes'
    BY <1>1, <2>1 DEF WorkspaceInv, WorkspaceTypes, lockVars
  <2> QED
    BY <1>2, <2>3, <2>4, <2>5 DEF WorkspaceInv
<1>5. ASSUME NEW u \in Members, NEW new \in Roles \cup {"none"}, role' = [role EXCEPT ![u] = new],
             UNCHANGED <<project, projects, accounts>>,
             lockedBy = NoTransaction \/ role[u] = "none"
      PROVE  WorkspaceInv'
  <2>1. role' \in [Members -> Roles \cup {"none"}] /\ \A m \in Members : m # u => role'[m] = role[m]
    BY <1>5 DEF WorkspaceInv, WorkspaceTypes
  <2>2. ProjectChecked' /\ DeletedHasNone'
    BY <1>1, <1>5 DEF WorkspaceInv, ProjectChecked, DeletedHasNone
  <2>3. RecipientReads'
    <3> SUFFICES ASSUME NEW c \in WorkspaceCalls, doing[c].pc = "issue"
                 PROVE  HasPermission(role'[doing[c].assignee], HelpPermission[doing[c].kind])
      BY <1>1 DEF RecipientReads
    <3>1. /\ lockedBy = c /\ HasPermission(role[doing[c].assignee], HelpPermission[doing[c].kind])
          /\ doing[c].assignee \in Members
      BY DoingCases DEF WorkspaceInv, LockHeld, RecipientReads, Helps
    <3>2. doing[c].assignee # u
      BY <1>5, <3>1, WorkspaceAssumption DEF HasPermission, Roles
    <3> QED
      BY <2>1, <3>1, <3>2
  <2>4. WorkspaceTypes'
    BY <1>1, <1>5, <2>1 DEF WorkspaceInv, WorkspaceTypes
  <2> QED
    BY <1>2, <2>2, <2>3, <2>4 DEF WorkspaceInv
<1>6. ASSUME NEW a \in WorkspaceAccounts, AccountIsDisconnected(a) PROVE WorkspaceInv'
  <2>1. /\ UNCHANGED <<role, projects>> /\ accounts' \subseteq WorkspaceAccounts
        /\ \A q \in Projects : project'[q] = project[q] \ {a}
        /\ project' \in [Projects -> SUBSET WorkspaceAccounts]
    BY <1>6 DEF AccountIsDisconnected, WorkspaceInv, WorkspaceTypes
  <2>2. RecipientReads' /\ DeletedHasNone'
    BY <1>1, <2>1 DEF WorkspaceInv, RecipientReads, DeletedHasNone
  <2>3. ProjectChecked'
    <3> SUFFICES ASSUME NEW c \in WorkspaceCalls, doing[c].pc = "replace"
                 PROVE  /\ doing[c].new => doing[c].row \notin projects
                        /\ project'[doing[c].row] \subseteq doing[c].cleared
                        /\ \A q \in Projects \ {doing[c].row} : project'[q] \cap doing[c].chosen = {}
      BY <1>1, <2>1 DEF ProjectChecked
    <3>1. doing[c].row \in Projects
      BY DoingCases DEF WorkspaceInv, ProjectSaves
    <3> QED
      BY <2>1, <3>1 DEF WorkspaceInv, ProjectChecked
  <2>4. WorkspaceTypes'
    BY <1>1, <2>1 DEF WorkspaceInv, WorkspaceTypes
  <2> QED
    BY <1>2, <2>2, <2>3, <2>4 DEF WorkspaceInv
<1>7. CASE UNCHANGED workspaceVars
  <2>1. RecipientReads' /\ DeletedHasNone' /\ ProjectChecked' /\ WorkspaceTypes'
    BY <1>7 DEF workspaceVars, WorkspaceInv, RecipientReads, DeletedHasNone, ProjectChecked, WorkspaceTypes
  <2> QED
    BY <1>2, <2>1 DEF WorkspaceInv
<1> QED
    BY <1>3, <1>4, <1>5, <1>6, <1>7 DEF ChangeRole, Join, RolesMayChange

-----------------------------------------------------------------------------
(* Workspace: the theorems.                                                *)

LEMMA WorkspaceInitInv == WorkspaceInit => WorkspaceInv
<1> SUFFICES ASSUME WorkspaceInit PROVE WorkspaceInv
    OBVIOUS
<1>1. Resting \in Doings /\ Resting.pc = "rest" /\ <<>> \in Seq(Nat)
    BY DEF Doings, Resting
<1>2. role \in [Members -> Roles \cup {"none"}]
    BY WorkspaceAssumption DEF WorkspaceInit
<1>3. WorkspaceTypes
    BY <1>1, <1>2 DEF WorkspaceInit, WorkspaceTypes
<1>4. LockHeld /\ RecipientReads /\ ProjectChecked /\ SaveRemembers
    BY <1>1 DEF WorkspaceInit, LockHeld, RecipientReads, ProjectChecked, SaveRemembers
<1>5. DeletedHasNone /\ NotesAreKept
    BY DEF WorkspaceInit, DeletedHasNone, NotesAreKept, IsRow
<1> QED
    BY <1>3, <1>4, <1>5 DEF WorkspaceInv

LEMMA WorkspaceStepInv == WorkspaceInv /\ [WorkspaceNext]_workspaceVars => WorkspaceInv'
<1> SUFFICES ASSUME WorkspaceInv, [WorkspaceNext]_workspaceVars PROVE WorkspaceInv'
    OBVIOUS
<1>1. ASSUME NEW c \in WorkspaceCalls, NEW u \in Members, NEW r \in RecordIds \cup {NoRecord},
             r # NoRecord /\ BeginDelete(c, u, r)
      PROVE  WorkspaceInv'
    BY <1>1, AskKeeps
<1> QED
    BY <1>1, OpenKeeps, AskKeeps, ReadExistingKeeps, CheckAssigneeKeeps, WriteEditKeeps,
       WriteNewKeeps, DeleteRecordKeeps, TakeLockKeeps, ReadRecipientKeeps, HelpKeeps,
       CheckProjectKeeps, CommitProjectKeeps, OthersKeep
    DEF WorkspaceNext

\* The variables of a workspace have their types.
THEOREM WorkspaceTypeCorrect == WorkspaceSpec => []WorkspaceTypes
<1>1. WorkspaceInv => WorkspaceTypes
    BY DEF WorkspaceInv
<1> QED
    BY <1>1, WorkspaceInitInv, WorkspaceStepInv, PTL DEF WorkspaceSpec

\* The timeline of an incident shows the last notes that were accepted, in their order.
THEOREM TimelinesAreWhole == WorkspaceSpec => []NotesAreKept
<1>1. WorkspaceInv => NotesAreKept
    BY DEF WorkspaceInv
<1> QED
    BY <1>1, WorkspaceInitInv, WorkspaceStepInv, PTL DEF WorkspaceSpec

\* Help is asked of who can see the issue when the request is created.
THEOREM HelpIsAskedOfReaders == WorkspaceSpec => HelpGoesToReaders
<1>1. ASSUME WorkspaceInv, WorkspaceNext, NEW h \in HelpIds, help[h] = Unused, help'[h] # Unused
      PROVE  HasPermission(role[help'[h].assignee], HelpPermission[help'[h].kind])
  <2>1. DOMAIN help = HelpIds
    BY <1>1 DEF WorkspaceInv, WorkspaceTypes
  <2>2. ASSUME NEW c \in WorkspaceCalls, CreateHelp(c)
        PROVE  HasPermission(role[help'[h].assignee], HelpPermission[help'[h].kind])
    <3>1. doing[c].pc = "issue" /\ help'[h] = OpenRequest(doing[c])
      BY <1>1, <2>1, <2>2 DEF CreateHelp
    <3>2. help'[h].assignee = doing[c].assignee /\ help'[h].kind = doing[c].kind
      BY <3>1 DEF OpenRequest
    <3> QED
      BY <1>1, <3>1, <3>2 DEF WorkspaceInv, RecipientReads
  <2>3. ASSUME NEW u \in Members, NEW i \in HelpIds, NEW s \in {"OPEN", "DONE"}, CompleteHelp(u, i, s)
        PROVE  FALSE
    <3>1. help[i] # Unused /\ help' = [help EXCEPT ![i].status = s]
      BY <2>3 DEF CompleteHelp
    <3> QED
      BY <1>1, <2>1, <3>1
  <2>4. CASE UNCHANGED help
    BY <1>1, <2>4
  <2> QED
    BY <1>1, <2>2, <2>3, <2>4
    DEF WorkspaceNext, OpenRecord, BeginDelete, AskHelp, AskProject, ReadExisting, CheckAssignee,
        WriteEdit, WriteNew, DeleteRecord, TakeLock, ReadRecipient, CheckProject, CommitProject,
        DeleteProject, ChangeRole, Join, AccountIsDisconnected, saveVars
<1>2. WorkspaceInv /\ [WorkspaceNext]_workspaceVars =>
        [\A h \in HelpIds : help[h] = Unused /\ help'[h] # Unused =>
           HasPermission(role[help'[h].assignee], HelpPermission[help'[h].kind])]_workspaceVars
    BY <1>1
<1> QED
    BY <1>2, WorkspaceInitInv, WorkspaceStepInv, PTL DEF WorkspaceSpec, HelpGoesToReaders

\* Only the last step of a save of a project takes a save that passed its checks to rest.
LEMMA OnlyCommitEnds ==
    ASSUME WorkspaceInv, WorkspaceNext, NEW c \in WorkspaceCalls,
           doing[c].pc = "replace", doing'[c] = Resting
    PROVE  CommitProject(c)
<1>1. doing[c] # Resting /\ doing'[c] # doing[c] /\ doing \in [WorkspaceCalls -> Doings]
    BY DEF Resting, WorkspaceInv, WorkspaceTypes
<1>2. ASSUME NEW e \in WorkspaceCalls, NEW f, doing' = [doing EXCEPT ![e] = f] PROVE e = c
    BY <1>1, <1>2
<1>3. ASSUME NEW e \in WorkspaceCalls,
             \/ ReadExisting(e) \/ CheckAssignee(e) \/ WriteEdit(e) \/ WriteNew(e) \/ DeleteRecord(e)
             \/ TakeLock(e) \/ ReadRecipient(e) \/ CreateHelp(e) \/ CheckProject(e)
      PROVE  FALSE
  <2>1. doing[e].pc # "replace"
    BY <1>3 DEF ReadExisting, CheckAssignee, WriteEdit, WriteNew, DeleteRecord, TakeLock,
                ReadRecipient, CreateHelp, CheckProject
  <2>2. Rest(e) \/ \E f : MoveTo(e, f)
    BY <1>3, Zenon DEF ReadExisting, CheckAssignee, WriteEdit, WriteNew, DeleteRecord, TakeLock,
                ReadRecipient, CreateHelp, CheckProject, Release
  <2> QED
    BY <1>2, <2>1, <2>2 DEF Rest, MoveTo
<1>4. ASSUME NEW e \in WorkspaceCalls, NEW f, Begin(e, f) PROVE FALSE
    BY <1>1, <1>2, <1>4 DEF Begin
<1>5. CASE UNCHANGED doing
    BY <1>1, <1>5
<1>6. ASSUME NEW e \in WorkspaceCalls, CommitProject(e) PROVE e = c
    BY <1>2, <1>6 DEF CommitProject, Release, Rest
<1>7. ASSUME NEW e \in WorkspaceCalls, NEW u \in Members, NEW r, NEW k, NEW t, NEW a, NEW p, NEW s,
             \/ OpenRecord(e, u, r, k, a) \/ BeginDelete(e, u, r)
             \/ AskHelp(e, u, k, t, a) \/ AskProject(e, u, p, s)
      PROVE  FALSE
    BY <1>4, <1>7 DEF OpenRecord, BeginDelete, AskHelp, AskProject
<1>8. ASSUME NEW u \in Members, NEW h, NEW s, NEW p, NEW new,
             \/ CompleteHelp(u, h, s) \/ DeleteProject(u, p) \/ ChangeRole(u, new) \/ Join(u, new)
      PROVE  UNCHANGED doing
    BY <1>8 DEF CompleteHelp, DeleteProject, ChangeRole, Join
<1>9. ASSUME NEW a, AccountIsDisconnected(a) PROVE UNCHANGED doing
    BY <1>9 DEF AccountIsDisconnected
<1> QED
    BY <1>3, <1>5, <1>6, <1>7, <1>8, <1>9 DEF WorkspaceNext

\* A save of a project takes effect as a whole and as it was asked.
THEOREM ProjectsAreOneSave == WorkspaceSpec => ProjectIsOneSave
<1>1. ASSUME WorkspaceInv, WorkspaceNext, NEW c \in WorkspaceCalls,
             doing[c].pc = "replace", doing'[c] = Resting
      PROVE  \/ project'[doing[c].row] = doing[c].chosen
             \/ ~ doing[c].chosen \subseteq accounts
             \/ ~ doing[c].new /\ doing[c].row \notin projects
    BY <1>1, OnlyCommitEnds, CommitProjectKeeps
<1>2. WorkspaceInv /\ [WorkspaceNext]_workspaceVars =>
        [\A c \in WorkspaceCalls : doing[c].pc = "replace" /\ doing'[c] = Resting =>
           \/ project'[doing[c].row] = doing[c].chosen
           \/ ~ doing[c].chosen \subseteq accounts
           \/ ~ doing[c].new /\ doing[c].row \notin projects]_workspaceVars
    BY <1>1
<1> QED
    BY <1>2, WorkspaceInitInv, WorkspaceStepInv, PTL DEF WorkspaceSpec, ProjectIsOneSave

-----------------------------------------------------------------------------
(* CloudConnections.                                                       *)

Claimed == {"collect", "store", "fail"}

-----------------------------------------------------------------------------
(* The invariant.                                                          *)

\* The row's last write is the latest thing it knows: no snapshot was read
\* after it, and a claim still standing is that write.
RowIsDated ==
    /\ \A p \in Capabilities : cloud.snapshot[p].at <= cloud.updatedAt
    /\ cloud.token # NoToken => cloud.updatedAt = cloud.token

\* What a call read is younger than what it compares the row with.
ReadIsYounger ==
    \A c \in CloudCalls :
        /\ visit[c].step \in {"check", "replace"} =>
             visit[c].seen < visit[c].at /\ visit[c].credential.given = visit[c].at
        /\ visit[c].step \in Claimed => visit[c].token # NoToken
        /\ visit[c].step = "store" => visit[c].token < visit[c].at

\* While the row holds a refresh's token it holds the credentials it uses.
ClaimIsMine ==
    \A c \in CloudCalls :
        /\ visit[c].step \in {"claim"} \cup Claimed => visit[c].credential # NoCredential
        /\ visit[c].step \in Claimed /\ cloud.token = visit[c].token =>
             cloud.credential = visit[c].credential

\* ConnectedIsOneCollection, said of the row itself.
OneCollection ==
    cloud.status = "CONNECTED" =>
        \E at \in 1..moment : \A p \in Capabilities :
            cloud.snapshot[p] = [at |-> at, by |-> cloud.credential.given]

\* DisconnectedHasNone, with the row that does not exist yet.
LiveHasCredentials == cloud.credential = NoCredential <=> cloud.status \in {"NONE", "DISCONNECTED"}

IInv ==
    /\ CloudTypes /\ RowIsDated /\ ReadIsYounger /\ ClaimIsMine
    /\ OneCollection /\ LiveHasCredentials

-----------------------------------------------------------------------------
(* Lemmas.                                                                 *)

\* The rows and the visits a type invariant allows up to a moment.
Until(now)       == 0..now
GivenBy(now)     == [given : Until(now), table : BOOLEAN]
ReadBy(now)      == [at : Until(now), by : Until(now)]
SnapshotsBy(now) == [Capabilities -> ReadBy(now)]

CloudRows(now) ==
    [status : CloudStatus, credential : GivenBy(now), snapshot : SnapshotsBy(now),
     token : Until(now), leased : BOOLEAN, updatedAt : Until(now)]

Visits(now) ==
    [step : CloudSteps, credential : GivenBy(now), seen : Until(now),
     token : Until(now), at : Until(now), ready : SUBSET Capabilities]

LEMMA TypesAsSets ==
    CloudTypes <=> /\ moment \in Nat /\ cloud \in CloudRows(moment)
                   /\ visit \in [CloudCalls -> Visits(moment)]
BY DEF CloudTypes, CloudRows, Visits, Moments, Credentials, Until, GivenBy, ReadBy, SnapshotsBy

LEMMA TypesNext ==
    ASSUME moment' \in Nat, cloud' \in CloudRows(moment'), visit' \in [CloudCalls -> Visits(moment')]
    PROVE  CloudTypes'
BY DEF CloudTypes, CloudRows, Visits, Moments, Credentials, Until, GivenBy, ReadBy, SnapshotsBy

\* What was a moment stays one.
LEMMA MomentsGrow ==
    ASSUME NEW m \in Nat, NEW n \in Nat, m <= n
    PROVE  CloudRows(m) \subseteq CloudRows(n) /\ Visits(m) \subseteq Visits(n)
<1>1. Until(m) \subseteq Until(n)
    BY DEF Until
<1>2. GivenBy(m) \subseteq GivenBy(n) /\ SnapshotsBy(m) \subseteq SnapshotsBy(n)
    BY <1>1 DEF GivenBy, ReadBy, SnapshotsBy
<1> QED
    BY <1>1, <1>2 DEF CloudRows, Visits

\* Now is a moment, and so is each before it.
LEMMA NowIsAMoment ==
    ASSUME NEW now \in Nat
    PROVE  now \in Until(now) /\ NoToken \in Until(now) /\ NoCredential \in GivenBy(now)
BY DEF Until, GivenBy, NoToken, NoCredential

\* The parts of rows and visits that are compared.
LEMMA Parts ==
    ASSUME NEW now \in Nat
    PROVE  /\ \A row \in CloudRows(now) :
                /\ row.updatedAt \in 0..now /\ row.token \in 0..now
                /\ \A p \in Capabilities : row.snapshot[p].at \in 0..now
           /\ \A v \in Visits(now) :
                /\ v.at \in 0..now /\ v.token \in 0..now /\ v.seen \in 0..now
                /\ v.credential.given \in 0..now
BY DEF CloudRows, Visits, Until, GivenBy, ReadBy, SnapshotsBy

\* A call goes on, and remembers what it may remember.
LEMMA BecomesTypes ==
    ASSUME CloudTypes, NEW c \in CloudCalls, NEW v, Becomes(c, v),
           moment' \in Nat, moment <= moment', v \in Visits(moment'),
           cloud' \in CloudRows(moment')
    PROVE  /\ CloudTypes'
           /\ visit'[c] = v
           /\ \A d \in CloudCalls \ {c} : visit'[d] = visit[d]
<1>1. visit \in [CloudCalls -> Visits(moment')]
    BY TypesAsSets, MomentsGrow
<1>2. visit' = [visit EXCEPT ![c] = v]
    BY DEF Becomes
<1>3. visit' \in [CloudCalls -> Visits(moment')]
    BY <1>1, <1>2
<1>4. CloudTypes'
    BY <1>3, TypesNext
<1> QED
    BY <1>1, <1>2, <1>4

LEMMA IdleIsAVisit ==
    ASSUME NEW now \in Nat
    PROVE  NoVisit \in Visits(now)
BY NowIsAMoment DEF NoVisit, Visits, CloudSteps, NoToken

\* The row is not written: what is said of it alone still holds.
LEMMA RowUntouched ==
    ASSUME IInv, cloud' = cloud, moment' \in Nat, moment <= moment'
    PROVE  RowIsDated' /\ OneCollection' /\ LiveHasCredentials' /\ cloud' \in CloudRows(moment')
<1>1. cloud \in CloudRows(moment')
    BY TypesAsSets, MomentsGrow DEF IInv
<1>2. 1..moment \subseteq 1..moment'
    BY DEF IInv, CloudTypes
<1>3. OneCollection'
    BY <1>2 DEF IInv, OneCollection
<1> QED
    BY <1>1, <1>3 DEF IInv, RowIsDated, LiveHasCredentials

\* A call writes the row and goes, and no call's token is in it any more.
LEMMA RowTakenBack ==
    ASSUME IInv, NEW c \in CloudCalls, Becomes(c, NoVisit), CloudTypes', cloud'.token = NoToken
    PROVE  ReadIsYounger' /\ ClaimIsMine'
<1>1. visit'[c] = NoVisit /\ \A d \in CloudCalls \ {c} : visit'[d] = visit[d]
    BY DEF IInv, CloudTypes, Becomes
<1> QED
    BY <1>1 DEF IInv, ReadIsYounger, ClaimIsMine, NoVisit, Claimed

\* A call ends without writing, or fails to begin.
LEMMA GivesUp ==
    ASSUME IInv, NEW c \in CloudCalls, Becomes(c, NoVisit), cloud' = cloud,
           moment' \in Nat, moment <= moment'
    PROVE  IInv'
<1>1. RowIsDated' /\ OneCollection' /\ LiveHasCredentials' /\ cloud' \in CloudRows(moment')
    BY RowUntouched
<1>2. /\ CloudTypes' /\ visit'[c] = NoVisit
      /\ \A d \in CloudCalls \ {c} : visit'[d] = visit[d]
    BY <1>1, BecomesTypes, IdleIsAVisit DEF IInv
<1>3. ReadIsYounger' /\ ClaimIsMine'
    BY <1>2 DEF IInv, ReadIsYounger, ClaimIsMine, NoVisit, Claimed
<1> QED
    BY <1>1, <1>2, <1>3 DEF IInv

\* A call goes on without writing.
LEMMA GoesOn ==
    ASSUME IInv, NEW c \in CloudCalls, NEW v, Becomes(c, v), cloud' = cloud,
           moment' \in Nat, moment <= moment', v \in Visits(moment'),
           v.step \in {"check", "replace"} => v.seen < v.at /\ v.credential.given = v.at,
           v.step \in Claimed => v.token # NoToken,
           v.step = "store" => v.token < v.at,
           v.step \in {"claim"} \cup Claimed => v.credential # NoCredential,
           v.step \in Claimed /\ cloud.token = v.token => cloud.credential = v.credential
    PROVE  IInv'
<1>1. RowIsDated' /\ OneCollection' /\ LiveHasCredentials' /\ cloud' \in CloudRows(moment')
    BY RowUntouched
<1>2. /\ CloudTypes' /\ visit'[c] = v
      /\ \A d \in CloudCalls \ {c} : visit'[d] = visit[d]
    BY <1>1, BecomesTypes DEF IInv
<1>3. ReadIsYounger' /\ ClaimIsMine'
    BY <1>2 DEF IInv, ReadIsYounger, ClaimIsMine
<1> QED
    BY <1>1, <1>2, <1>3 DEF IInv

-----------------------------------------------------------------------------
(* The steps that write the row.                                           *)

\* What an update leaves in the row.
LEMMA UpdatedTypes ==
    ASSUME NEW now \in Nat, NEW row \in CloudRows(now), NEW v \in Visits(now)
    PROVE  /\ Updated(row, v, now) \in CloudRows(now)
           /\ Updated(row, v, now).token = NoToken
           /\ Updated(row, v, now).updatedAt = now
           /\ Updated(row, v, now).credential = row.credential
           /\ Updated(row, v, now).status \in {"CONNECTED", "NEEDS_ATTENTION"}
           /\ Updated(row, v, now).status = "CONNECTED" => v.ready = Capabilities
           /\ \A p \in Capabilities :
                Updated(row, v, now).snapshot[p] =
                  IF p \in v.ready THEN [at |-> v.at, by |-> v.credential.given]
                  ELSE row.snapshot[p]
<1> DEFINE f == [p \in Capabilities |-> IF p \in v.ready THEN [at |-> v.at, by |-> v.credential.given]
                                      ELSE row.snapshot[p]]
           st == IF v.ready = Capabilities THEN "CONNECTED" ELSE "NEEDS_ATTENTION"
<1>1. [at |-> v.at, by |-> v.credential.given] \in ReadBy(now)
    BY DEF Visits, GivenBy, ReadBy
<1>2. f \in SnapshotsBy(now)
    BY <1>1 DEF CloudRows, SnapshotsBy
<1>3. /\ st \in CloudStatus /\ st \in {"CONNECTED", "NEEDS_ATTENTION"}
      /\ st = "CONNECTED" => v.ready = Capabilities
    BY DEF CloudStatus
<1>4. Updated(row, v, now) =
        [row EXCEPT !.status = st, !.snapshot = f, !.token = NoToken, !.leased = FALSE,
                    !.updatedAt = now]
    BY DEF Updated
<1>5. \A p \in Capabilities : f[p] = IF p \in v.ready THEN [at |-> v.at, by |-> v.credential.given]
                                     ELSE row.snapshot[p]
    OBVIOUS
<1> HIDE DEF f, st
<1>6. /\ Updated(row, v, now) \in CloudRows(now) /\ Updated(row, v, now).token = NoToken
      /\ Updated(row, v, now).updatedAt = now
      /\ Updated(row, v, now).credential = row.credential
      /\ Updated(row, v, now).status = st /\ Updated(row, v, now).snapshot = f
    BY <1>2, <1>3, <1>4, NowIsAMoment DEF CloudRows
<1> QED
    BY <1>3, <1>5, <1>6

LEMMA ReplaceKeeps ==
    ASSUME IInv, NEW c \in CloudCalls, ReplaceCredentials(c), cloud.updatedAt = visit[c].seen
    PROVE  /\ IInv'
           /\ \A p \in Capabilities : cloud.snapshot[p].at <= cloud'.snapshot[p].at
<1> DEFINE v == visit[c]
           u == Updated(cloud, v, moment')
<1>1. /\ moment \in Nat /\ moment' \in Nat /\ moment' = moment + 1
      /\ visit[c].step = "replace" /\ Becomes(c, NoVisit)
      /\ cloud' = [u EXCEPT !.credential = v.credential]
    BY DEF ReplaceCredentials, Pass, IInv, CloudTypes
<1>2. cloud \in CloudRows(moment) /\ cloud \in CloudRows(moment') /\ v \in Visits(moment) /\ v \in Visits(moment')
    BY <1>1, TypesAsSets, MomentsGrow DEF IInv
<1>3. v.seen < v.at /\ v.credential.given = v.at
    BY <1>1 DEF IInv, ReadIsYounger
<1>4. /\ v.at \in 1..moment /\ v.credential # NoCredential
    BY <1>1, <1>2, <1>3, Parts DEF NoCredential
<1>5. /\ u \in CloudRows(moment') /\ u.token = NoToken /\ u.updatedAt = moment'
      /\ u.status \in {"CONNECTED", "NEEDS_ATTENTION"}
      /\ u.status = "CONNECTED" => v.ready = Capabilities
      /\ \A p \in Capabilities :
           u.snapshot[p] = IF p \in v.ready THEN [at |-> v.at, by |-> v.credential.given]
                           ELSE cloud.snapshot[p]
    BY <1>1, <1>2, UpdatedTypes
<1> HIDE DEF u
<1>6. /\ cloud' \in CloudRows(moment') /\ cloud'.credential = v.credential
      /\ cloud'.token = NoToken /\ cloud'.updatedAt = moment'
      /\ cloud'.status = u.status /\ cloud'.snapshot = u.snapshot
    BY <1>1, <1>2, <1>5 DEF CloudRows, Visits
<1>7. \A p \in Capabilities : cloud.snapshot[p].at <= cloud.updatedAt /\ cloud.snapshot[p].at \in Nat
    BY <1>1, <1>2, Parts DEF IInv, RowIsDated
<1>8. CloudTypes'
    BY <1>1, <1>6, BecomesTypes, IdleIsAVisit DEF IInv
<1>9. ReadIsYounger' /\ ClaimIsMine'
    BY <1>1, <1>6, <1>8, RowTakenBack
<1>10. RowIsDated'
    BY <1>1, <1>2, <1>4, <1>5, <1>6, <1>7, Parts DEF RowIsDated
<1>11. OneCollection'
    BY <1>1, <1>3, <1>4, <1>5, <1>6 DEF OneCollection
<1>12. LiveHasCredentials'
    BY <1>4, <1>5, <1>6 DEF LiveHasCredentials
<1>13. \A p \in Capabilities : cloud.snapshot[p].at <= cloud'.snapshot[p].at
    BY <1>1, <1>2, <1>3, <1>5, <1>6, <1>7, Parts
<1> QED
    BY <1>8, <1>9, <1>10, <1>11, <1>12, <1>13 DEF IInv

LEMMA StoreKeeps ==
    ASSUME IInv, NEW c \in CloudCalls, StoreRefresh(c), cloud.token = visit[c].token
    PROVE  /\ IInv'
           /\ \A p \in Capabilities : cloud.snapshot[p].at <= cloud'.snapshot[p].at
<1> DEFINE v == visit[c]
           u == Updated(cloud, v, moment')
<1>1. /\ moment \in Nat /\ moment' \in Nat /\ moment' = moment + 1
      /\ visit[c].step = "store" /\ Becomes(c, NoVisit) /\ cloud' = u
    BY DEF StoreRefresh, Pass, IInv, CloudTypes
<1>2. cloud \in CloudRows(moment) /\ cloud \in CloudRows(moment') /\ v \in Visits(moment) /\ v \in Visits(moment')
    BY <1>1, TypesAsSets, MomentsGrow DEF IInv
<1>3. v.token < v.at /\ v.token # NoToken
    BY <1>1 DEF IInv, ReadIsYounger, Claimed
<1>4. cloud.credential = v.credential /\ v.credential # NoCredential /\ cloud.updatedAt = v.token
    BY <1>1, <1>3 DEF IInv, ClaimIsMine, RowIsDated, Claimed
<1>5. /\ cloud' \in CloudRows(moment') /\ cloud'.token = NoToken /\ cloud'.updatedAt = moment'
      /\ cloud'.credential = cloud.credential
      /\ cloud'.status \in {"CONNECTED", "NEEDS_ATTENTION"}
      /\ cloud'.status = "CONNECTED" => v.ready = Capabilities
      /\ \A p \in Capabilities :
           cloud'.snapshot[p] = IF p \in v.ready THEN [at |-> v.at, by |-> v.credential.given]
                                ELSE cloud.snapshot[p]
    BY <1>1, <1>2, UpdatedTypes
<1>6. v.at \in 1..moment
    BY <1>1, <1>2, <1>3, Parts
<1>7. \A p \in Capabilities : cloud.snapshot[p].at <= cloud.updatedAt /\ cloud.snapshot[p].at \in Nat
    BY <1>1, <1>2, Parts DEF IInv, RowIsDated
<1>8. CloudTypes'
    BY <1>1, <1>5, BecomesTypes, IdleIsAVisit DEF IInv
<1>9. ReadIsYounger' /\ ClaimIsMine'
    BY <1>1, <1>5, <1>8, RowTakenBack
<1>10. RowIsDated'
    BY <1>1, <1>2, <1>5, <1>6, <1>7, Parts DEF RowIsDated
<1>11. OneCollection'
    BY <1>1, <1>4, <1>5, <1>6 DEF OneCollection
<1>12. LiveHasCredentials'
    BY <1>4, <1>5 DEF LiveHasCredentials
<1>13. \A p \in Capabilities : cloud.snapshot[p].at <= cloud'.snapshot[p].at
    BY <1>1, <1>2, <1>3, <1>4, <1>5, <1>7, Parts
<1> QED
    BY <1>8, <1>9, <1>10, <1>11, <1>12, <1>13 DEF IInv

\* A claim's token is a moment no other call can have.
LEMMA ClaimKeeps ==
    ASSUME IInv, NEW c \in CloudCalls, ClaimRefresh(c), MayClaim(c)
    PROVE  IInv' /\ cloud'.snapshot = cloud.snapshot
<1> DEFINE v == [visit[c] EXCEPT !.step = "collect", !.token = moment']
<1>1. /\ moment \in Nat /\ moment' \in Nat /\ moment' = moment + 1
      /\ visit[c].step = "claim" /\ Becomes(c, v)
      /\ cloud' = [cloud EXCEPT !.token = moment', !.leased = TRUE, !.updatedAt = moment']
      /\ cloud.credential = visit[c].credential
    BY DEF ClaimRefresh, Pass, IInv, CloudTypes, MayClaim
<1>2. /\ cloud \in CloudRows(moment) /\ cloud \in CloudRows(moment')
      /\ visit[c] \in Visits(moment) /\ visit[c] \in Visits(moment')
      /\ \A d \in CloudCalls : visit[d].token \in 0..moment
    BY <1>1, TypesAsSets, MomentsGrow, Parts DEF IInv
<1>3. /\ cloud' \in CloudRows(moment') /\ cloud'.token = moment' /\ cloud'.updatedAt = moment'
      /\ cloud'.snapshot = cloud.snapshot /\ cloud'.credential = cloud.credential
      /\ cloud'.status = cloud.status
    BY <1>1, <1>2, NowIsAMoment DEF CloudRows
<1>4. /\ v \in Visits(moment') /\ v.step = "collect" /\ v.token = moment'
      /\ v.credential = visit[c].credential
    BY <1>1, <1>2, NowIsAMoment DEF Visits, CloudSteps
<1> HIDE DEF v
<1>5. /\ CloudTypes' /\ visit'[c] = v
      /\ \A d \in CloudCalls \ {c} : visit'[d] = visit[d]
    BY <1>1, <1>3, <1>4, BecomesTypes DEF IInv
<1>6. ReadIsYounger'
    BY <1>1, <1>4, <1>5 DEF IInv, ReadIsYounger, NoToken
<1>7. visit[c].credential # NoCredential
    BY <1>1 DEF IInv, ClaimIsMine
<1>8. \A d \in CloudCalls \ {c} : cloud'.token # visit'[d].token
    BY <1>1, <1>2, <1>3, <1>5
<1>9. ClaimIsMine'
    BY <1>1, <1>3, <1>4, <1>5, <1>7, <1>8 DEF IInv, ClaimIsMine
<1>10. RowIsDated'
    BY <1>1, <1>2, <1>3, Parts DEF IInv, RowIsDated
<1>11. OneCollection'
    BY <1>1, <1>3 DEF IInv, OneCollection
<1>12. LiveHasCredentials'
    BY <1>3 DEF IInv, LiveHasCredentials
<1> QED
    BY <1>3, <1>5, <1>6, <1>9, <1>10, <1>11, <1>12 DEF IInv

\* A refresh that fails, a lease that ends and a disconnection leave the snapshots.
LEMMA FailKeeps ==
    ASSUME IInv, NEW c \in CloudCalls, FailRefresh(c), cloud.token = visit[c].token
    PROVE  IInv' /\ cloud'.snapshot = cloud.snapshot
<1>1. /\ moment \in Nat /\ moment' \in Nat /\ moment' = moment + 1
      /\ visit[c].step = "fail" /\ Becomes(c, NoVisit)
      /\ cloud' = [cloud EXCEPT !.status = "NEEDS_ATTENTION", !.token = NoToken,
                                !.leased = FALSE, !.updatedAt = moment']
    BY DEF FailRefresh, Pass, IInv, CloudTypes
<1>2. cloud \in CloudRows(moment) /\ cloud \in CloudRows(moment')
    BY <1>1, TypesAsSets, MomentsGrow DEF IInv
<1>3. cloud.credential = visit[c].credential /\ visit[c].credential # NoCredential
    BY <1>1 DEF IInv, ClaimIsMine, Claimed
<1>4. /\ cloud' \in CloudRows(moment') /\ cloud'.token = NoToken /\ cloud'.updatedAt = moment'
      /\ cloud'.snapshot = cloud.snapshot /\ cloud'.credential = cloud.credential
      /\ cloud'.status = "NEEDS_ATTENTION"
    BY <1>1, <1>2, NowIsAMoment DEF CloudRows, CloudStatus
<1>5. CloudTypes'
    BY <1>1, <1>4, BecomesTypes, IdleIsAVisit DEF IInv
<1>6. ReadIsYounger' /\ ClaimIsMine'
    BY <1>1, <1>4, <1>5, RowTakenBack
<1>7. RowIsDated'
    BY <1>1, <1>2, <1>4, Parts DEF IInv, RowIsDated
<1>8. OneCollection' /\ LiveHasCredentials'
    BY <1>3, <1>4 DEF OneCollection, LiveHasCredentials
<1> QED
    BY <1>4, <1>5, <1>6, <1>7, <1>8 DEF IInv

LEMMA LeaseEndKeeps ==
    ASSUME IInv, CloudLeaseEnds
    PROVE  IInv' /\ cloud'.snapshot = cloud.snapshot
<1>1. cloud \in CloudRows(moment) /\ moment' = moment /\ visit' = visit
      /\ cloud' = [cloud EXCEPT !.leased = FALSE]
    BY TypesAsSets DEF IInv, CloudLeaseEnds
<1>2. /\ cloud' \in CloudRows(moment') /\ cloud'.token = cloud.token
      /\ cloud'.updatedAt = cloud.updatedAt /\ cloud'.status = cloud.status
      /\ cloud'.snapshot = cloud.snapshot /\ cloud'.credential = cloud.credential
    BY <1>1 DEF CloudRows
<1>3. CloudTypes'
    BY <1>1, <1>2, TypesAsSets, TypesNext DEF IInv
<1> QED
    BY <1>1, <1>2, <1>3
    DEF IInv, RowIsDated, ReadIsYounger, ClaimIsMine, OneCollection, LiveHasCredentials

LEMMA DisconnectKeeps ==
    ASSUME IInv, DisconnectCloud
    PROVE  IInv' /\ cloud'.snapshot = cloud.snapshot
<1>1. /\ moment \in Nat /\ moment' \in Nat /\ moment' = moment + 1 /\ visit' = visit
      /\ cloud' = [cloud EXCEPT !.credential = NoCredential, !.status = "DISCONNECTED",
                                !.token = NoToken, !.leased = FALSE, !.updatedAt = moment']
    BY DEF DisconnectCloud, Pass, IInv, CloudTypes, TokenAfterDisconnect
<1>2. /\ cloud \in CloudRows(moment) /\ cloud \in CloudRows(moment')
      /\ visit \in [CloudCalls -> Visits(moment')]
    BY <1>1, TypesAsSets, MomentsGrow DEF IInv
<1>3. /\ cloud' \in CloudRows(moment') /\ cloud'.token = NoToken /\ cloud'.updatedAt = moment'
      /\ cloud'.snapshot = cloud.snapshot /\ cloud'.credential = NoCredential
      /\ cloud'.status = "DISCONNECTED"
    BY <1>1, <1>2, NowIsAMoment DEF CloudRows, CloudStatus
<1>4. CloudTypes'
    BY <1>1, <1>2, <1>3, TypesNext
<1>5. ReadIsYounger' /\ ClaimIsMine'
    BY <1>1, <1>3 DEF IInv, ReadIsYounger, ClaimIsMine
<1>6. RowIsDated'
    BY <1>1, <1>2, <1>3, Parts DEF IInv, RowIsDated
<1> QED
    BY <1>3, <1>4, <1>5, <1>6 DEF IInv, OneCollection, LiveHasCredentials

-----------------------------------------------------------------------------
(* The theorems.                                                           *)

LEMMA CloudInitInv == CloudInit => IInv
<1> SUFFICES ASSUME CloudInit PROVE IInv
    OBVIOUS
<1>1. CloudTypes
    BY DEF CloudInit, CloudTypes, NoCloudRow, NoVisit, NoCredential, NoSnapshot, NoToken,
           CloudStatus, Moments, Credentials, CloudSteps
<1> QED
    BY <1>1 DEF CloudInit, IInv, RowIsDated, ReadIsYounger, ClaimIsMine, OneCollection,
                LiveHasCredentials, NoCloudRow, NoVisit, NoSnapshot, NoToken, Claimed

LEMMA CloudStepInv ==
    IInv /\ [CloudNext]_cloudVars =>
        IInv' /\ \A p \in Capabilities : cloud.snapshot[p].at <= cloud'.snapshot[p].at
<1> SUFFICES ASSUME IInv, [CloudNext]_cloudVars
             PROVE  IInv' /\ \A p \in Capabilities : cloud.snapshot[p].at <= cloud'.snapshot[p].at
    OBVIOUS
<1>1. /\ moment \in Nat /\ cloud \in CloudRows(moment) /\ visit \in [CloudCalls -> Visits(moment)]
    BY TypesAsSets DEF IInv
<1>2. \A p \in Capabilities : cloud.snapshot[p].at <= cloud.snapshot[p].at
    BY <1>1, Parts
<1>3. ASSUME NEW c \in CloudCalls, StartConnect(c)
      PROVE  IInv' /\ cloud' = cloud
  <2> DEFINE v == [NoVisit EXCEPT !.step = "verify", !.seen = cloud.updatedAt]
  <2>1. v \in Visits(moment') /\ v.step = "verify"
    <3>1. cloud.updatedAt \in Until(moment') /\ NoVisit \in Visits(moment')
      BY <1>1, <1>3, IdleIsAVisit DEF StartConnect, CloudRows
    <3> QED
      BY <3>1 DEF Visits, CloudSteps
  <2>2. Becomes(c, v) /\ cloud' = cloud /\ moment' = moment
    BY <1>3 DEF StartConnect
  <2> HIDE DEF v
  <2> QED
    BY <1>1, <2>1, <2>2, GoesOn DEF Claimed
<1>4. ASSUME NEW c \in CloudCalls, VerifyConnect(c)
      PROVE  IInv' /\ cloud' = cloud
  <2>1. /\ moment' = moment + 1 /\ moment' \in Nat /\ cloud' = cloud /\ visit[c] \in Visits(moment)
        /\ visit[c] \in Visits(moment')
    BY <1>1, <1>4, MomentsGrow DEF VerifyConnect, Pass
  <2>2. PICK table \in BOOLEAN : \E ready \in Collected(table) :
          Becomes(c, IF "inventory" \in ready
                     THEN [visit[c] EXCEPT !.step = "check", !.at = moment', !.ready = ready,
                                           !.credential = [given |-> moment', table |-> table]]
                     ELSE NoVisit)
    BY <1>4 DEF VerifyConnect
  <2>3. PICK ready \in SUBSET Capabilities :
          Becomes(c, IF "inventory" \in ready
                     THEN [visit[c] EXCEPT !.step = "check", !.at = moment', !.ready = ready,
                                           !.credential = [given |-> moment', table |-> table]]
                     ELSE NoVisit)
    BY <2>2 DEF Collected
  <2> DEFINE v == [visit[c] EXCEPT !.step = "check", !.at = moment', !.ready = ready,
                                   !.credential = [given |-> moment', table |-> table]]
  <2>4. CASE "inventory" \in ready
    <3>1. v \in Visits(moment') /\ v.step = "check" /\ v.seen < v.at /\ v.credential.given = v.at
      <4> DEFINE given == [given |-> moment', table |-> table]
      <4>1. given \in GivenBy(moment') /\ given.given = moment' /\ visit[c].seen < moment'
        BY <1>1, <2>1, NowIsAMoment, Parts DEF GivenBy
      <4> HIDE DEF given
      <4>2. LET w == [visit[c] EXCEPT !.step = "check", !.at = moment', !.ready = ready,
                                      !.credential = given]
            IN  /\ w \in Visits(moment') /\ w.step = "check" /\ w.seen = visit[c].seen
                /\ w.at = moment' /\ w.credential = given
        BY <2>1, <4>1, NowIsAMoment DEF Visits, CloudSteps
      <4> QED
        BY <4>1, <4>2 DEF given
    <3>2. Becomes(c, v)
      BY <2>3, <2>4
    <3> HIDE DEF v
    <3> QED
      BY <1>1, <2>1, <3>1, <3>2, GoesOn DEF Claimed
  <2>5. CASE "inventory" \notin ready
    BY <1>1, <2>1, <2>3, <2>5, GivesUp
  <2> QED
    BY <2>4, <2>5
<1>5. ASSUME NEW c \in CloudCalls, CheckConnect(c)
      PROVE  IInv' /\ cloud' = cloud
  <2> DEFINE v == [visit[c] EXCEPT !.step = "replace"]
  <2>1. v \in Visits(moment') /\ v.step = "replace" /\ v.seen < v.at /\ v.credential.given = v.at
    BY <1>1, <1>5 DEF CheckConnect, Visits, CloudSteps, IInv, ReadIsYounger
  <2>2. (Becomes(c, v) \/ Becomes(c, NoVisit)) /\ cloud' = cloud /\ moment' = moment
    BY <1>5 DEF CheckConnect
  <2> HIDE DEF v
  <2> QED
    BY <1>1, <2>1, <2>2, GoesOn, GivesUp DEF Claimed
<1>6. ASSUME NEW c \in CloudCalls, StartRefresh(c)
      PROVE  IInv' /\ cloud' = cloud
  <2> DEFINE v == [NoVisit EXCEPT !.step = "claim", !.credential = cloud.credential]
  <2>1. v \in Visits(moment') /\ v.step = "claim" /\ v.credential # NoCredential
    <3>1. /\ cloud.credential \in GivenBy(moment') /\ NoVisit \in Visits(moment')
          /\ cloud.credential # NoCredential
      BY <1>1, <1>6, IdleIsAVisit DEF StartRefresh, CloudRows
    <3> QED
      BY <3>1 DEF Visits, CloudSteps
  <2>2. Becomes(c, v) /\ cloud' = cloud /\ moment' = moment
    BY <1>6 DEF StartRefresh
  <2> HIDE DEF v
  <2> QED
    BY <1>1, <2>1, <2>2, GoesOn DEF Claimed
<1>7. ASSUME NEW c \in CloudCalls, CollectRefresh(c)
      PROVE  IInv' /\ cloud' = cloud
  <2>1. /\ moment' = moment + 1 /\ moment' \in Nat /\ cloud' = cloud /\ visit[c] \in Visits(moment)
        /\ visit[c] \in Visits(moment') /\ visit[c].step = "collect"
    BY <1>1, <1>7, MomentsGrow DEF CollectRefresh, Pass
  <2>2. PICK ready \in SUBSET Capabilities :
          Becomes(c, [visit[c] EXCEPT !.step = "store", !.at = moment', !.ready = ready])
    <3>1. visit[c].credential.table \in BOOLEAN
      BY <2>1 DEF Visits, GivenBy
    <3> QED
      BY <1>7, <3>1 DEF CollectRefresh, Collected
  <2> DEFINE v == [visit[c] EXCEPT !.step = "store", !.at = moment', !.ready = ready]
  <2>3. /\ v \in Visits(moment') /\ v.step = "store" /\ v.token < v.at /\ v.token = visit[c].token
        /\ v.credential = visit[c].credential
    <3>1. visit[c].token < moment' /\ moment' \in Until(moment')
      BY <1>1, <2>1, NowIsAMoment, Parts
    <3>2. v \in Visits(moment') /\ v.step = "store" /\ v.at = moment' /\ v.token = visit[c].token
          /\ v.credential = visit[c].credential
      BY <2>1, <3>1 DEF Visits, CloudSteps
    <3> QED
      BY <3>1, <3>2
  <2>4. Becomes(c, v)
    BY <2>2
  <2> HIDE DEF v
  <2> QED
    BY <1>1, <2>1, <2>3, <2>4, GoesOn DEF IInv, ReadIsYounger, ClaimIsMine, Claimed
<1>8. ASSUME NEW c \in CloudCalls, visit[c].step \in {"collect", "store"},
             Becomes(c, [visit[c] EXCEPT !.step = "fail"]), UNCHANGED <<cloud, moment>>
      PROVE  IInv' /\ cloud' = cloud
  <2> DEFINE v == [visit[c] EXCEPT !.step = "fail"]
  <2>1. /\ v \in Visits(moment') /\ v.step = "fail" /\ v.token = visit[c].token
        /\ v.credential = visit[c].credential /\ Becomes(c, v)
    BY <1>1, <1>8 DEF Visits, CloudSteps
  <2> HIDE DEF v
  <2> QED
    BY <1>1, <1>8, <2>1, GoesOn DEF IInv, ReadIsYounger, ClaimIsMine, Claimed
<1>9. ASSUME NEW c \in CloudCalls, RefreshThrows(c)
      PROVE  IInv' /\ cloud' = cloud
    BY <1>8, <1>9 DEF RefreshThrows
<1>10. ASSUME NEW c \in CloudCalls,
              \/ CallEnds(c)
              \/ ReplaceCredentials(c) /\ cloud.updatedAt # visit[c].seen
              \/ ClaimRefresh(c) /\ ~MayClaim(c)
              \/ FailRefresh(c) /\ cloud.token # visit[c].token
       PROVE  IInv' /\ cloud' = cloud
    BY <1>1, <1>10, GivesUp DEF CallEnds, ReplaceCredentials, ClaimRefresh, FailRefresh
<1>11. ASSUME NEW c \in CloudCalls, StoreRefresh(c), cloud.token # visit[c].token
       PROVE  IInv' /\ cloud' = cloud
    BY <1>8, <1>11 DEF StoreRefresh
<1>12. CASE UNCHANGED cloudVars
    BY <1>2, <1>12 DEF cloudVars, IInv, CloudTypes, Moments, Credentials, RowIsDated, ReadIsYounger,
                       ClaimIsMine, OneCollection, LiveHasCredentials
<1> QED
    BY <1>2, <1>3, <1>4, <1>5, <1>6, <1>7, <1>9, <1>10, <1>11, <1>12, ReplaceKeeps, StoreKeeps,
       ClaimKeeps, FailKeeps, LeaseEndKeeps, DisconnectKeeps
    DEF CloudNext

\* The row and the calls have their types.
THEOREM CloudTypeCorrect == CloudSpec => []CloudTypes
<1>1. IInv => CloudTypes
    BY DEF IInv
<1> QED
    BY <1>1, CloudInitInv, CloudStepInv, PTL DEF CloudSpec

\* What a CONNECTED row shows was collected at once, with the credentials it holds,
\* whatever reconnections, refreshes, disconnections and lease ends overlapped.
THEOREM OneCollectionPerConnection == CloudSpec => []ConnectedIsOneCollection
<1>1. IInv => ConnectedIsOneCollection
  <2> SUFFICES ASSUME IInv, NEW may \in SUBSET Capabilities, Shown(may).status = "CONNECTED"
               PROVE  \E at \in 1..moment : \A p \in may :
                        Shown(may).snapshot[p] = [at |-> at, by |-> cloud.credential.given]
    BY DEF ConnectedIsOneCollection
  <2>1. cloud.status = "CONNECTED" /\ \A p \in may : Shown(may).snapshot[p] = cloud.snapshot[p]
    BY DEF Shown
  <2> QED
    BY <2>1 DEF IInv, OneCollection
<1> QED
    BY <1>1, CloudInitInv, CloudStepInv, PTL DEF CloudSpec

\* No refresh or failure brings a disconnected row back to life.
THEOREM NoLifeAfterDisconnect == CloudSpec => []DisconnectedHasNone
<1>1. IInv => DisconnectedHasNone
    BY DEF IInv, LiveHasCredentials, DisconnectedHasNone, Known
<1> QED
    BY <1>1, CloudInitInv, CloudStepInv, PTL DEF CloudSpec

\* A late answer never overwrites a later snapshot.
THEOREM LaterSnapshotsStay == CloudSpec => SnapshotsMoveForward
<1>1. IInv /\ [CloudNext]_cloudVars =>
        [\A p \in Capabilities : cloud.snapshot[p].at <= cloud'.snapshot[p].at]_cloudVars
    BY CloudStepInv
<1> QED
    BY <1>1, CloudInitInv, CloudStepInv, PTL DEF CloudSpec, SnapshotsMoveForward

-----------------------------------------------------------------------------
(* Membership: types.                                                      *)

\* The role matrix gives every role a set of permissions and a rank.
LEMMA NoRoleIsNoRole == NoRole \notin Roles
BY DEF NoRole, Roles

\* createOrganization() leaves the founder as the owner.
LEMMA MemberInitTypes == MembershipInit => MembershipTypes
<1> SUFFICES ASSUME MembershipInit PROVE MembershipTypes
  OBVIOUS
<1>1. "OWNER" \in Roles
  BY DEF Roles
<1>2. member \in [Users -> Roles \cup {NoRole}]
  BY <1>1 DEF MembershipInit
<1> QED
  BY <1>2 DEF MembershipInit, MembershipTypes

\* What authorisation, and finding an invitation, put into a request.
LEMMA RequestTypes ==
  ASSUME MembershipTypes,
         NEW q \in MemberRequests, NEW op \in Ops, NEW u \in Users, NEW x \in Roles \cup {NoRole},
         NEW t \in Users \cup {NoUser}, NEW r \in Roles \cup {NoRole},
         NEW i \in Invites \cup {NoInvite},
         member' = member, invite' = invite,
         req' = [req EXCEPT ![q] = [pc |-> op, actor |-> u, access |-> x,
                                    target |-> t, role |-> r, inv |-> i]]
  PROVE  MembershipTypes'
BY DEF MembershipTypes

\* A request that ends keeps the types.
LEMMA FinishTypes ==
  ASSUME MembershipTypes, NEW q \in MemberRequests, FinishRequest(q)
  PROVE  req' \in [MemberRequests -> {Idle} \cup
           [pc : Ops, actor : Users, access : Roles \cup {NoRole},
            target : Users \cup {NoUser}, role : Roles \cup {NoRole}, inv : Invites \cup {NoInvite}]]
BY DEF MembershipTypes, FinishRequest

\* A request in flight has an operation and its user.
LEMMA RequestInFlight ==
  ASSUME MembershipTypes, NEW q \in MemberRequests, req[q].pc # "idle"
  PROVE  /\ req[q] \in [pc : Ops, actor : Users, access : Roles \cup {NoRole},
                        target : Users \cup {NoUser}, role : Roles \cup {NoRole},
                        inv : Invites \cup {NoInvite}]
         /\ req[q] # Idle
BY DEF MembershipTypes, Idle

-----------------------------------------------------------------------------
(* The invariant.                                                          *)

\* A request that accepts carries an invitation of its own user.
AcceptsOwn ==
  \A q \in MemberRequests : req[q].pc = "accept" =>
    /\ req[q].inv \in Invites
    /\ invite[req[q].inv].state # "none"
    /\ invite[req[q].inv].email = req[q].actor

\* A request that manages a member names one; one that invites names a user and a role.
Targets ==
  \A q \in MemberRequests :
    /\ req[q].pc \in Managing \cup {"invite", "create"} => req[q].target \in Users
    /\ req[q].pc \in {"change", "invite", "create"} => req[q].role \in Roles
    /\ req[q].pc = "revoke" => req[q].inv \in Invites

MemberInv == MembershipTypes /\ AcceptsOwn /\ Targets /\ AlwaysAnOwner

-----------------------------------------------------------------------------
(* One lemma for each part of a request's life.                            *)

\* Authorisation and FindInvite() keep the invariant: they write nothing but the request.
LEMMA AskIInv ==
  ASSUME MemberInv, NEW q \in MemberRequests, Ask(q)
  PROVE  MemberInv'
<1> USE DEF MemberInv
<1>1. PICK u \in Users :
        \/ \E t \in Users, r \in Assignable :
             \/ AuthorizeRequest(q, u, "invite", t, r, NoInvite)
             \/ AuthorizeRequest(q, u, "change", t, r, NoInvite)
        \/ \E t \in Users : AuthorizeRequest(q, u, "remove", t, NoRole, NoInvite)
        \/ \E i \in Invites : \/ AuthorizeRequest(q, u, "revoke", NoUser, NoRole, i)
                              \/ FindInvite(q, u, i)
  BY DEF Ask
<1>2. ASSUME NEW op \in Ops \ {"accept", "create"}, NEW t \in Users \cup {NoUser},
             NEW r \in Roles \cup {NoRole}, NEW i \in Invites \cup {NoInvite},
             AuthorizeRequest(q, u, op, t, r, i),
             op \in {"invite", "change"} => t \in Users /\ r \in Roles,
             op = "remove" => t \in Users,
             op = "revoke" => i \in Invites
      PROVE  MemberInv'
  <2>1. member' = member /\ invite' = invite
    BY <1>2 DEF AuthorizeRequest
  <2>2. req' = [req EXCEPT ![q] = [pc |-> op, actor |-> u, access |-> member[u],
                                   target |-> t, role |-> r, inv |-> i]]
    BY <1>2 DEF AuthorizeRequest
  <2>3. member[u] \in Roles \cup {NoRole}
    BY DEF MembershipTypes
  <2>4. MembershipTypes'
    BY <2>1, <2>2, <2>3, RequestTypes
  <2>5. req \in [MemberRequests -> {Idle} \cup
          [pc : Ops, actor : Users, access : Roles \cup {NoRole},
           target : Users \cup {NoUser}, role : Roles \cup {NoRole}, inv : Invites \cup {NoInvite}]]
    BY DEF MembershipTypes
  <2>6. AcceptsOwn'
    BY <1>2, <2>1, <2>2, <2>5 DEF AcceptsOwn
  <2>7. Targets'
    BY <1>2, <2>1, <2>2, <2>5 DEF Targets, Managing, Ops
  <2> QED
    BY <2>1, <2>4, <2>6, <2>7 DEF AlwaysAnOwner
<1>3. ASSUME NEW i \in Invites, FindInvite(q, u, i) PROVE MemberInv'
  <2>1. member' = member /\ invite' = invite
    BY <1>3 DEF FindInvite
  <2>2. req' = [req EXCEPT ![q] = [pc |-> "accept", actor |-> u, access |-> NoRole,
                                   target |-> NoUser, role |-> NoRole, inv |-> i]]
    BY <1>3 DEF FindInvite
  <2>3. "accept" \in Ops
    BY DEF Ops
  <2>4. MembershipTypes'
    BY <2>1, <2>2, <2>3, RequestTypes
  <2>5. req \in [MemberRequests -> {Idle} \cup
          [pc : Ops, actor : Users, access : Roles \cup {NoRole},
           target : Users \cup {NoUser}, role : Roles \cup {NoRole}, inv : Invites \cup {NoInvite}]]
    BY DEF MembershipTypes
  <2>6. invite[i].state = "open" /\ invite[i].email = u
    BY <1>3 DEF FindInvite
  <2>7. AcceptsOwn'
    BY <2>1, <2>2, <2>5, <2>6 DEF AcceptsOwn
  <2>8. Targets'
    BY <2>1, <2>2, <2>5 DEF Targets, Managing
  <2> QED
    BY <2>1, <2>4, <2>7, <2>8 DEF AlwaysAnOwner
<1>4. Assignable \subseteq Roles
  BY MembershipAssumption
<1>5. {"invite", "change", "remove", "revoke"} \subseteq Ops \ {"accept", "create"}
  BY DEF Ops
<1>6. ASSUME NEW t \in Users, NEW r \in Assignable,
             \/ AuthorizeRequest(q, u, "invite", t, r, NoInvite)
             \/ AuthorizeRequest(q, u, "change", t, r, NoInvite)
      PROVE  MemberInv'
  BY <1>2, <1>4, <1>5, <1>6
<1>7. ASSUME NEW t \in Users, AuthorizeRequest(q, u, "remove", t, NoRole, NoInvite)
      PROVE  MemberInv'
  BY <1>2, <1>5, <1>7
<1>8. ASSUME NEW i \in Invites, AuthorizeRequest(q, u, "revoke", NoUser, NoRole, i)
      PROVE  MemberInv'
  BY <1>2, <1>5, <1>8
<1> QED
  BY <1>1, <1>3, <1>6, <1>7, <1>8

\* When a request ends, the other requests have what they had.
LEMMA FinishRequests ==
  ASSUME MemberInv, NEW q \in MemberRequests, FinishRequest(q)
  PROVE  /\ \A x \in MemberRequests : req'[x] = IF x = q THEN Idle ELSE req[x]
         /\ Targets'
<1>1. \A x \in MemberRequests : req'[x] = IF x = q THEN Idle ELSE req[x]
  BY DEF MemberInv, MembershipTypes, FinishRequest
<1>2. Targets'
  BY <1>1 DEF MemberInv, Targets, Idle, Managing
<1> QED
  BY <1>1, <1>2

\* Invitations never become blank and never change their address: what an acceptance found
\* stays true while others write.
LEMMA FinishAccepts ==
  ASSUME MemberInv, NEW q \in MemberRequests, FinishRequest(q),
         \A i \in Invites : invite[i].state # "none" =>
           invite'[i].state # "none" /\ invite'[i].email = invite[i].email
  PROVE  AcceptsOwn'
<1>1. \A x \in MemberRequests : req'[x] = IF x = q THEN Idle ELSE req[x]
  BY FinishRequests
<1> QED
  BY <1>1 DEF MemberInv, AcceptsOwn, Idle

\* inviteMember() after its checks, and the insert.
LEMMA InviteIInv ==
  ASSUME MemberInv, NEW q \in MemberRequests, CheckInvite(q) \/ \E i \in Invites : CreateInvite(q, i)
  PROVE  MemberInv'
<1> USE DEF MemberInv
<1>1. CASE CheckInvite(q) /\ FinishRequest(q)
  <2>1. member' = member /\ invite' = invite
    BY <1>1 DEF CheckInvite
  <2>2. MembershipTypes'
    BY <1>1, <2>1, FinishTypes DEF MembershipTypes
  <2> QED
    BY <1>1, <2>1, <2>2, FinishRequests, FinishAccepts DEF AlwaysAnOwner
<1>2. CASE CheckInvite(q) /\ req' = [req EXCEPT ![q].pc = "create"]
  <2>1. member' = member /\ invite' = invite /\ req[q].pc = "invite"
    BY <1>2 DEF CheckInvite
  <2>2. req[q] \in [pc : Ops, actor : Users, access : Roles \cup {NoRole},
                    target : Users \cup {NoUser}, role : Roles \cup {NoRole},
                    inv : Invites \cup {NoInvite}]
    BY <2>1, RequestInFlight
  <2>3. MembershipTypes'
    BY <1>2, <2>1, <2>2 DEF MembershipTypes, Ops
  <2>4. AcceptsOwn' /\ Targets'
    BY <1>2, <2>1, <2>2 DEF MembershipTypes, AcceptsOwn, Targets, Managing
  <2> QED
    BY <2>1, <2>3, <2>4 DEF AlwaysAnOwner
<1>3. ASSUME NEW i \in Invites, CreateInvite(q, i) PROVE MemberInv'
  <2>1. member' = member /\ FinishRequest(q) /\ invite[i] = Blank /\ req[q].pc = "create"
    BY <1>3 DEF CreateInvite
  <2>2. invite' = [invite EXCEPT ![i] =
          [email |-> req[q].target, role |-> req[q].role, state |-> "open"]]
    BY <1>3 DEF CreateInvite
  <2>3. req[q].target \in Users /\ req[q].role \in Roles
    BY <2>1 DEF Targets
  <2>4. MembershipTypes'
    BY <2>1, <2>2, <2>3, FinishTypes DEF MembershipTypes, Open
  <2>5. \A k \in Invites : invite[k].state # "none" => invite'[k] = invite[k]
    BY <2>1, <2>2 DEF MembershipTypes, Blank
  <2>6. AcceptsOwn' /\ Targets'
    BY <2>1, <2>5, FinishRequests, FinishAccepts
  <2> QED
    BY <2>1, <2>4, <2>6 DEF AlwaysAnOwner
<1> QED
  BY <1>1, <1>2, <1>3 DEF CheckInvite

\* An invitation in the hands of its user or an administrator keeps address and role.
LEMMA InviteStates ==
  ASSUME MembershipTypes, NEW i \in Invites, invite[i].state \in Open,
         NEW s \in Open \cup {"accepted", "revoked"},
         invite' = [invite EXCEPT ![i].state = s]
  PROVE  /\ invite' \in [Invites -> {Blank} \cup
              [email : Users, role : Roles, state : Open \cup {"accepted", "revoked"}]]
         /\ invite'[i].state = s
         /\ \A k \in Invites : invite[k].state # "none" =>
              invite'[k].state # "none" /\ invite'[k].email = invite[k].email
         /\ invite[i].role \in Roles
<1>1. invite[i] \in [email : Users, role : Roles, state : Open \cup {"accepted", "revoked"}]
  BY DEF MembershipTypes, Blank, Open
<1>2. [invite[i] EXCEPT !.state = s] \in
        [email : Users, role : Roles, state : Open \cup {"accepted", "revoked"}]
  BY <1>1
<1>3. invite' = [invite EXCEPT ![i] = [invite[i] EXCEPT !.state = s]]
  OBVIOUS
<1> QED
  BY <1>1, <1>2, <1>3 DEF MembershipTypes, Open

\* Revocation, expiry and acceptance.
LEMMA RevokeIInv ==
  ASSUME MemberInv, NEW q \in MemberRequests, Revoke(q)
  PROVE  MemberInv'
<1> USE DEF MemberInv
<1>1. member' = member /\ FinishRequest(q) /\ req[q].inv \in Invites
  BY DEF Revoke, Targets
<1>2. invite' \in [Invites -> {Blank} \cup
        [email : Users, role : Roles, state : Open \cup {"accepted", "revoked"}]]
  BY <1>1, InviteStates DEF Revoke, MembershipTypes
<1>3. \A k \in Invites : invite[k].state # "none" =>
        invite'[k].state # "none" /\ invite'[k].email = invite[k].email
  BY <1>1, InviteStates DEF Revoke
<1>4. MembershipTypes'
  BY <1>1, <1>2, FinishTypes DEF MembershipTypes
<1> QED
  BY <1>1, <1>3, <1>4, FinishRequests, FinishAccepts DEF AlwaysAnOwner

\* An invitation expires.
LEMMA ExpireIInv ==
  ASSUME MemberInv, NEW i \in Invites, Expire(i)
  PROVE  MemberInv'
<1> USE DEF MemberInv
<1>1. member' = member /\ req' = req /\ invite[i].state \in Open
  BY DEF Expire, Open
<1>2. invite' = [invite EXCEPT ![i].state = "late"] /\ "late" \in Open
  BY DEF Expire, Open
<1>3. MembershipTypes'
  BY <1>1, <1>2, InviteStates DEF MembershipTypes
<1>4. \A k \in Invites : invite[k].state # "none" =>
        invite'[k].state # "none" /\ invite'[k].email = invite[k].email
  BY <1>1, <1>2, InviteStates
<1> QED
  BY <1>1, <1>3, <1>4 DEF AcceptsOwn, Targets, AlwaysAnOwner

\* Nobody loses a role when an invitation is accepted.
LEMMA AcceptIInv ==
  ASSUME MemberInv, NEW q \in MemberRequests, AcceptInvite(q)
  PROVE  MemberInv'
<1> USE DEF MemberInv
<1> DEFINE i == req[q].inv
           u == req[q].actor
<1>1. req[q].pc = "accept" /\ FinishRequest(q)
  BY DEF AcceptInvite
<1>2. i \in Invites /\ u \in Users
  BY <1>1, RequestInFlight DEF AcceptsOwn
<1>3. CASE ~ Unclaimed(i)
  <2>1. member' = member /\ invite' = invite
    BY <1>3 DEF AcceptInvite
  <2>2. MembershipTypes'
    BY <1>1, <2>1, FinishTypes DEF MembershipTypes
  <2> QED
    BY <1>1, <2>1, <2>2, FinishRequests, FinishAccepts DEF AlwaysAnOwner
<1>4. CASE Unclaimed(i)
  <2>1. invite[i].state \in Open /\ invite' = [invite EXCEPT ![i].state = "accepted"]
    BY <1>4 DEF AcceptInvite, Unclaimed
  <2>2. member' = [member EXCEPT ![u] = IF member[u] = NoRole THEN invite[i].role ELSE member[u]]
    BY <1>4 DEF AcceptInvite
  <2>3. invite[i].role \in Roles
    BY <1>2, <2>1, InviteStates
  <2>4. MembershipTypes'
    BY <1>1, <1>2, <2>1, <2>2, <2>3, FinishTypes, InviteStates DEF MembershipTypes
  <2>5. AlwaysAnOwner'
    BY <1>2, <2>2, NoRoleIsNoRole DEF AlwaysAnOwner, MembershipTypes, NoRole
  <2>6. AcceptsOwn' /\ Targets'
    BY <1>1, <1>2, <2>1, InviteStates, FinishRequests, FinishAccepts
  <2> QED
    BY <2>4, <2>5, <2>6
<1> QED
  BY <1>3, <1>4

\* A role change or a removal leaves an owner, or is rolled back.
LEMMA ManageIInv ==
  ASSUME MemberInv, NEW q \in MemberRequests, Manage(q)
  PROVE  MemberInv'
<1> USE DEF MemberInv
<1>1. req[q].pc \in Managing /\ FinishRequest(q) /\ invite' = invite
  BY DEF Manage
<1>2. req[q].target \in Users /\ NewRole(q) \in Roles \cup {NoRole}
  BY <1>1 DEF Targets, NewRole
<1>3. member' = member \/ (Allowed(q) /\ member' = Outcome(q))
  BY DEF Manage
<1>4. Outcome(q) \in [Users -> Roles \cup {NoRole}]
  BY <1>2 DEF Outcome, MembershipTypes
<1>5. MembershipTypes'
  BY <1>1, <1>3, <1>4, FinishTypes DEF MembershipTypes
<1>6. AlwaysAnOwner'
  BY <1>3 DEF Allowed, AllowedWith, AlwaysAnOwner
<1> QED
  BY <1>1, <1>5, <1>6, FinishRequests, FinishAccepts

\* A request that is dropped changes nothing.
LEMMA DropIInv ==
  ASSUME MemberInv, NEW q \in MemberRequests, Drop(q)
  PROVE  MemberInv'
<1> USE DEF MemberInv
<1>1. member' = member /\ invite' = invite /\ FinishRequest(q)
  BY DEF Drop
<1>2. MembershipTypes'
  BY <1>1, FinishTypes DEF MembershipTypes
<1> QED
  BY <1>1, <1>2, FinishRequests, FinishAccepts DEF AlwaysAnOwner

\* Every step keeps the invariant.
LEMMA NextIInv == MemberInv /\ [MembershipNext]_membershipVars => MemberInv'
<1> SUFFICES ASSUME MemberInv, [MembershipNext]_membershipVars PROVE MemberInv'
  OBVIOUS
<1>1. CASE UNCHANGED membershipVars
  BY <1>1 DEF membershipVars, MemberInv, MembershipTypes, AcceptsOwn, Targets, AlwaysAnOwner
<1>2. CASE MembershipNext
  BY <1>2, AskIInv, InviteIInv, RevokeIInv, AcceptIInv, ManageIInv, DropIInv, ExpireIInv DEF MembershipNext
<1> QED
  BY <1>1, <1>2

\* A new workspace.
LEMMA InitIInv == MembershipInit => MemberInv
<1> SUFFICES ASSUME MembershipInit PROVE MemberInv
  OBVIOUS
<1>1. MembershipTypes
  BY MemberInitTypes
<1>2. AcceptsOwn /\ Targets
  BY DEF MembershipInit, Idle, AcceptsOwn, Targets, Managing
<1>3. AlwaysAnOwner
  BY MembershipAssumption DEF MembershipInit, AlwaysAnOwner
<1> QED
  BY <1>1, <1>2, <1>3 DEF MemberInv

-----------------------------------------------------------------------------
(* The theorems.                                                           *)

\* The invariant holds in every reachable state.
LEMMA MemberInvAlways == MembershipSpec => []MemberInv
<1> QED
  BY InitIInv, NextIInv, PTL DEF MembershipSpec

\* Memberships, invitations and requests keep their types.
THEOREM MembersTypeCorrect == MembershipSpec => []MembershipTypes
<1>1. MemberInv => MembershipTypes
  BY DEF MemberInv
<1> QED
  BY <1>1, MemberInvAlways, PTL

\* A workspace never loses its last owner.
THEOREM OwnerRemains == MembershipSpec => []AlwaysAnOwner
<1>1. MemberInv => AlwaysAnOwner
  BY DEF MemberInv
<1> QED
  BY <1>1, MemberInvAlways, PTL

\* Of those who may manage members, only an owner may give or take the roles OWNER and
\* ADMIN: the matrix lets nobody else do what canAssignRole() must forbid.
LEMMA OnlyOwnerAssigns ==
  ASSUME NEW r \in Roles \cup {NoRole}, NEW new, NEW old,
         HasPermission(r, "members:manage"),
         CanAssignRole(r, new, old),
         {new, old} \cap Privileged # {}
  PROVE  r = "OWNER"
<1>1. r \in {"OWNER", "ADMIN"}
  BY DEF HasPermission, RolePermissions, ReadBase, Roles
<1>2. Rank["ADMIN"] = 80 /\ Rank["OWNER"] = 100
  BY DEF Rank, Roles
<1>3. ASSUME r = "ADMIN" PROVE FALSE
  <2>1. Rank[new] < 80 /\ Rank[old] < 80
    BY <1>2, <1>3 DEF CanAssignRole
  <2>2. new \in {"OWNER", "ADMIN"} \/ old \in {"OWNER", "ADMIN"}
    BY DEF Privileged
  <2> QED
    BY <1>2, <2>1, <2>2
<1> QED
  BY <1>1, <1>3

\* A request that changes the role of a member u is somebody else's, who is an owner now.
LEMMA ManageByOwner ==
  ASSUME MemberInv, NEW q \in MemberRequests, Manage(q), NEW u \in Users,
         member'[u] # member[u],
         {member[u], member'[u]} \cap Privileged # {}
  PROVE  req[q].actor # u /\ member[req[q].actor] = "OWNER"
<1>1. req[q].pc \in Managing /\ Allowed(q) /\ member' = Outcome(q)
  BY DEF Manage
<1>2. req[q].actor \in Users /\ req[q].target \in Users
  BY <1>1, RequestInFlight DEF MemberInv, Targets, Managing
<1>3. u = req[q].target /\ member'[u] = NewRole(q)
  BY <1>1, <1>2 DEF MemberInv, MembershipTypes, Outcome
<1>4. {AskedRole(q), member[u]} \cap Privileged # {}
  BY <1>3 DEF AskedRole, NewRole, Privileged, NoRole
<1>5. member[req[q].actor] \in Roles \cup {NoRole}
  BY <1>2 DEF MemberInv, MembershipTypes
<1>6. HasPermission(member[req[q].actor], "members:manage")
      /\ req[q].target # req[q].actor
      /\ CanAssignRole(member[req[q].actor], AskedRole(q), member[u])
  BY <1>1, <1>3 DEF Allowed, AllowedWith
<1> QED
  BY <1>3, <1>4, <1>5, <1>6, OnlyOwnerAssigns

\* What each step may do to the members: nothing, let an invited newcomer in, or carry out
\* a request of management.
LEMMA MemberChanges ==
  ASSUME MemberInv, MembershipNext
  PROVE  \/ member' = member
         \/ \E q \in MemberRequests : AcceptInvite(q)
         \/ \E q \in MemberRequests : Manage(q)
<1>1. ASSUME NEW q \in MemberRequests, Ask(q) PROVE member' = member
  BY <1>1 DEF Ask, AuthorizeRequest, FindInvite
<1>2. ASSUME NEW q \in MemberRequests,
             CheckInvite(q) \/ (\E i \in Invites : CreateInvite(q, i)) \/ Revoke(q) \/ Drop(q)
      PROVE  member' = member
  BY <1>2 DEF CheckInvite, CreateInvite, Revoke, Drop
<1>3. ASSUME NEW i \in Invites, Expire(i) PROVE member' = member
  BY <1>3 DEF Expire
<1> QED
  BY <1>1, <1>2, <1>3 DEF MembershipNext

\* An acceptance changes the role of its user only, from none to the invitation's, and uses
\* the invitation up.
LEMMA AcceptChanges ==
  ASSUME MemberInv, NEW q \in MemberRequests, AcceptInvite(q), NEW u \in Users, member'[u] # member[u]
  PROVE  /\ member[u] = NoRole
         /\ \E i \in Invites :
              /\ invite[i].email = u /\ invite[i].role = member'[u]
              /\ invite[i].state \in Open /\ invite'[i].state = "accepted"
<1> DEFINE i == req[q].inv
<1>1. req[q].pc = "accept" /\ i \in Invites /\ invite[i].email = req[q].actor
  BY DEF AcceptInvite, MemberInv, AcceptsOwn
<1>2. req[q].actor \in Users
  BY <1>1, RequestInFlight DEF MemberInv
<1>3. invite[i].state \in Open /\ invite' = [invite EXCEPT ![i].state = "accepted"]
  BY DEF AcceptInvite, Unclaimed
<1>4. member' = [member EXCEPT ![req[q].actor] =
                   IF member[req[q].actor] = NoRole THEN invite[i].role
                                                    ELSE member[req[q].actor]]
  BY <1>3 DEF AcceptInvite, Unclaimed
<1>5. u = req[q].actor /\ member[u] = NoRole /\ member'[u] = invite[i].role
  BY <1>2, <1>4 DEF MemberInv, MembershipTypes
<1>6. invite'[i].state = "accepted"
  BY <1>1, <1>3, InviteStates DEF MemberInv
<1> QED
  BY <1>1, <1>3, <1>5, <1>6

\* Owners and administrators are made and unmade by owners, at the time it happens.
THEOREM PrivilegedChanges == MembershipSpec => PrivilegedByOwner
<1>1. ASSUME MemberInv, [MembershipNext]_membershipVars, NEW u \in Users,
             member[u] # NoRole, member'[u] # member[u],
             {member[u], member'[u]} \cap Privileged # {}
      PROVE  \E q \in MemberRequests :
               /\ req[q].pc \in Managing /\ req'[q] = Idle
               /\ req[q].actor # u /\ member[req[q].actor] = "OWNER"
  <2>1. MembershipNext
    BY <1>1 DEF membershipVars
  <2>2. PICK q \in MemberRequests : Manage(q)
    BY <1>1, <2>1, MemberChanges, AcceptChanges
  <2>3. req[q].pc \in Managing /\ req'[q] = Idle
    BY <1>1, <2>2, FinishRequests DEF Manage
  <2> QED
    BY <1>1, <2>2, <2>3, ManageByOwner
<1>2. MemberInv /\ [MembershipNext]_membershipVars => [\A u \in Users :
        /\ member[u] # NoRole
        /\ member'[u] # member[u]
        /\ {member[u], member'[u]} \cap Privileged # {}
        => \E q \in MemberRequests :
             /\ req[q].pc \in Managing /\ req'[q] = Idle
             /\ req[q].actor # u /\ member[req[q].actor] = "OWNER"]_membershipVars
  BY <1>1
<1> QED
  BY <1>2, MemberInvAlways, PTL DEF MembershipSpec, PrivilegedByOwner

\* Used and revoked invitations stay as they are.
LEMMA ClosedStaysClosed ==
  ASSUME MemberInv, [MembershipNext]_membershipVars, NEW i \in Invites, invite[i].state \in {"accepted", "revoked"}
  PROVE  invite'[i] = invite[i]
<1>1. invite[i].state \notin Open /\ invite[i] # Blank
  BY DEF Open, Blank
<1>2. invite \in [Invites -> {Blank} \cup
        [email : Users, role : Roles, state : Open \cup {"accepted", "revoked"}]]
  BY DEF MemberInv, MembershipTypes
<1>3. CASE UNCHANGED membershipVars
  BY <1>3 DEF membershipVars
<1>4. ASSUME NEW q \in MemberRequests, Ask(q) PROVE invite'[i] = invite[i]
  BY <1>4 DEF Ask, AuthorizeRequest, FindInvite
<1>5. ASSUME NEW q \in MemberRequests, CheckInvite(q) \/ Manage(q) \/ Drop(q)
      PROVE  invite'[i] = invite[i]
  BY <1>5 DEF CheckInvite, Manage, Drop
<1>6. ASSUME NEW q \in MemberRequests, NEW k \in Invites, CreateInvite(q, k)
      PROVE  invite'[i] = invite[i]
  BY <1>1, <1>2, <1>6 DEF CreateInvite
<1>7. ASSUME NEW q \in MemberRequests, Revoke(q) PROVE invite'[i] = invite[i]
  BY <1>1, <1>2, <1>7 DEF Revoke
<1>8. ASSUME NEW q \in MemberRequests, AcceptInvite(q) PROVE invite'[i] = invite[i]
  BY <1>1, <1>2, <1>8 DEF AcceptInvite, Unclaimed
<1>9. ASSUME NEW k \in Invites, Expire(k) PROVE invite'[i] = invite[i]
  BY <1>1, <1>2, <1>9 DEF Expire, Open
<1> QED
  BY <1>3, <1>4, <1>5, <1>6, <1>7, <1>8, <1>9 DEF MembershipNext

\* An invitation lets its own user in, once.
THEOREM SingleUse == MembershipSpec => InvitationsAreSingleUse
<1>1. ASSUME MemberInv, [MembershipNext]_membershipVars, NEW u \in Users, member[u] = NoRole, member'[u] # NoRole
      PROVE  \E i \in Invites :
               /\ invite[i].email = u /\ invite[i].role = member'[u]
               /\ invite[i].state \in Open /\ invite'[i].state = "accepted"
  <2>1. MembershipNext
    BY <1>1 DEF membershipVars
  <2>2. ASSUME NEW q \in MemberRequests, Manage(q) PROVE member'[u] = NoRole
    <3>1. member' = member \/ (Allowed(q) /\ member' = Outcome(q))
      BY <2>2 DEF Manage
    <3>2. CASE Allowed(q) /\ member' = Outcome(q)
      <4>1. u # req[q].target
        BY <1>1, <3>2 DEF Allowed, AllowedWith
      <4> QED
        BY <1>1, <3>2, <4>1 DEF Outcome, MemberInv, MembershipTypes
    <3> QED
      BY <1>1, <3>1, <3>2
  <2>3. PICK q \in MemberRequests : AcceptInvite(q)
    BY <1>1, <2>1, <2>2, MemberChanges
  <2> QED
    BY <1>1, <2>3, AcceptChanges
<1>2. MemberInv /\ [MembershipNext]_membershipVars =>
        [/\ \A u \in Users : member[u] = NoRole /\ member'[u] # NoRole =>
              \E i \in Invites :
                /\ invite[i].email = u /\ invite[i].role = member'[u]
                /\ invite[i].state \in Open /\ invite'[i].state = "accepted"
         /\ \A i \in Invites : invite[i].state \in {"accepted", "revoked"} =>
              invite'[i] = invite[i]]_membershipVars
  BY <1>1, ClosedStaysClosed
<1> QED
  BY <1>2, MemberInvAlways, PTL DEF MembershipSpec, InvitationsAreSingleUse
=============================================================================
