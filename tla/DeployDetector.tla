--------------------------- MODULE DeployDetector ---------------------------
(***************************************************************************)
(* Deploy markers. DeployDetector.Append watches the version each service  *)
(* reports, remembers the last one in memory and queues a marker when it   *)
(* changes; a flush loop writes the queued markers of each tenant to       *)
(* SQLite in a transaction (sqlite.Store.InsertDeploys), which skips a     *)
(* marker that repeats the newest stored version. The memory is lost in a  *)
(* crash, the table is not.                                                *)
(***************************************************************************)
EXTENDS Integers, Sequences, SequencesExt, FiniteSets

CONSTANTS
    Tenants,         \* tenants whose entries arrive
    DeployApps,      \* applications
    Versions,        \* versions found by versionFromEntry
    MaxTs,           \* bound: timestamps are 1 .. MaxTs (unix milliseconds)
    MaxTrackedApps,  \* maxTrackedApps of the code (10000)
    MaxMarkers,      \* bound: markers queued altogether
    MaxDeployFaults  \* bound: failed inserts and crashes together

ASSUME DeployAssumption ==
    /\ MaxTs \in Nat /\ MaxTrackedApps \in Nat
    /\ MaxMarkers \in Nat /\ MaxDeployFaults \in Nat

Keys == Tenants \X DeployApps
Marker == [app : DeployApps, version : Versions, ts : 1 .. MaxTs]

VARIABLES
    last,          \* d.last: a function from the services seen to their version
    pending,       \* d.pending: markers queued per tenant
    flushing,      \* the map a running flush took, tenants done removed
    inTx,          \* the tenant whose insert transaction is open, {} or {tenant}
    txRows,        \* the rows of that tenant as the transaction sees them
    txAt,          \* markers of flushing[tenant] the transaction has handled
    detector,      \* "up", "flushing", "closing" (the last flush), "closed", "down"
    deployTable,   \* rows of the deploys table per tenant, in insertion order
    seenTs,        \* history: the largest timestamp queued per service, ever
    outOfOrder,    \* history: services that queued a timestamp not above seenTs
    unmarked,      \* history: services whose last flushed markers were lost in a failed insert
    markers,       \* markers queued so far
    deployFaults

txVars == <<inTx, txRows, txAt>>
deployVars == <<last, pending, flushing, txVars, detector, deployTable, seenTs, outOfOrder,
                unmarked, markers, deployFaults>>

NoMarkers == [t \in Tenants |-> <<>>]
NothingSeen == [k \in {} |-> CHOOSE v \in Versions : TRUE]

DeployTypeOK ==
    /\ DOMAIN last \subseteq Keys
    /\ \A k \in DOMAIN last : last[k] \in Versions
    /\ Cardinality(DOMAIN last) <= MaxTrackedApps
    /\ pending \in [Tenants -> Seq(Marker)]
    /\ flushing \in [Tenants -> Seq(Marker)]
    /\ inTx \subseteq Tenants /\ txRows \in Seq(Marker) /\ txAt \in Nat
    /\ detector \in {"up", "flushing", "closing", "closed", "down"}
    /\ deployTable \in [Tenants -> Seq(Marker)]
    /\ seenTs \in [Keys -> 0 .. MaxTs]
    /\ outOfOrder \subseteq Keys /\ unmarked \subseteq Keys
    /\ markers \in 0 .. MaxMarkers /\ deployFaults \in 0 .. MaxDeployFaults

DeployInit ==
    /\ last = NothingSeen
    /\ pending = NoMarkers /\ flushing = NoMarkers
    /\ inTx = {} /\ txRows = <<>> /\ txAt = 0
    /\ detector = "up"
    /\ deployTable = NoMarkers
    /\ seenTs = [k \in Keys |-> 0]
    /\ outOfOrder = {} /\ unmarked = {}
    /\ markers = 0 /\ deployFaults = 0

\* Mutant: the map of services has no limit.
DetectVersionUncapped(t, a, v, ts) ==
    LET k == <<t, a>> IN
    /\ detector \in {"up", "flushing", "closing"} /\ markers < MaxMarkers
    /\ markers' = markers + 1
    /\ k \in DOMAIN last => last[k] # v
    /\ last' = [j \in DOMAIN last \cup {k} |-> IF j = k THEN v ELSE last[j]]
    /\ pending' = [pending EXCEPT ![t] = Append(@, [app |-> a, version |-> v, ts |-> ts])]
    /\ seenTs' = [seenTs EXCEPT ![k] = IF ts > @ THEN ts ELSE @]
    /\ outOfOrder' = IF ts > seenTs[k] THEN outOfOrder ELSE outOfOrder \cup {k}
    /\ UNCHANGED <<flushing, txVars, detector, deployTable, unmarked, deployFaults>>

\* Append of an entry whose version is not empty. A version already known, or
\* a new service when the map is full, leaves everything alone. ts is the
\* sender's clock. Entries may still arrive while the detector closes.
DetectVersion(t, a, v, ts) ==
    LET k == <<t, a>> IN
    /\ detector \in {"up", "flushing", "closing"} /\ markers < MaxMarkers
    /\ markers' = markers + 1
    /\ k \in DOMAIN last => last[k] # v
    /\ k \in DOMAIN last \/ Cardinality(DOMAIN last) < MaxTrackedApps
    /\ last' = [j \in DOMAIN last \cup {k} |-> IF j = k THEN v ELSE last[j]]
    /\ pending' = [pending EXCEPT ![t] = Append(@, [app |-> a, version |-> v, ts |-> ts])]
    /\ seenTs' = [seenTs EXCEPT ![k] = IF ts > @ THEN ts ELSE @]
    /\ outOfOrder' = IF ts > seenTs[k] THEN outOfOrder ELSE outOfOrder \cup {k}
    /\ UNCHANGED <<flushing, txVars, detector, deployTable, unmarked, deployFaults>>

\* The ticker fires, or Close stops the loop: flush takes the pending map.
StartFlush(next) ==
    /\ detector = "up"
    /\ detector' = next
    /\ flushing' = pending
    /\ pending' = NoMarkers
    /\ UNCHANGED <<last, txVars, deployTable, seenTs, outOfOrder, unmarked, deployFaults, markers>>

\* The version of the newest row of the app. Rows with equal timestamps come
\* back in an order SQL leaves open: any of them may be the one.
LatestVersions(rows, a) ==
    LET mine == {i \in DOMAIN rows : rows[i].app = a}
    IN {rows[i].version : i \in {i \in mine : \A j \in mine : rows[j].ts <= rows[i].ts}}

\* Mutant: the newest stored version is not compared.
InsertDeployAlways(rows, d) == {Append(rows, d)}

InsertDeploy(rows, d) ==
    LET latest == LatestVersions(rows, d.app)
    IN (IF latest = {} \/ latest \ {d.version} # {} THEN {Append(rows, d)} ELSE {})
       \cup (IF d.version \in latest THEN {rows} ELSE {})

\* InsertDeploys for one tenant of the flush's map: the transaction begins ...
BeginInsert(t) ==
    /\ inTx = {} /\ flushing[t] # <<>>
    /\ inTx' = {t} /\ txRows' = deployTable[t] /\ txAt' = 0
    /\ UNCHANGED <<last, pending, flushing, detector, deployTable, seenTs, outOfOrder, unmarked,
                   deployFaults, markers>>

\* ... handles one marker after the other ...
InsertNext(t) ==
    /\ inTx = {t} /\ txAt < Len(flushing[t])
    /\ txRows' \in InsertDeploy(txRows, flushing[t][txAt + 1])
    /\ txAt' = txAt + 1
    /\ UNCHANGED <<last, pending, flushing, inTx, detector, deployTable, seenTs, outOfOrder,
                   unmarked, deployFaults, markers>>

\* The flush is through with the tenant.
InsertReturns(t) ==
    /\ flushing' = [flushing EXCEPT ![t] = <<>>]
    /\ inTx' = {} /\ txRows' = <<>> /\ txAt' = 0

\* ... and commits ...
CommitInsert(t) ==
    /\ inTx = {t} /\ txAt = Len(flushing[t])
    /\ deployTable' = [deployTable EXCEPT ![t] = txRows]
    /\ unmarked' = unmarked \ {<<t, d.app>> : d \in ToSet(flushing[t])}
    /\ InsertReturns(t)
    /\ UNCHANGED <<last, pending, detector, seenTs, outOfOrder, deployFaults, markers>>

\* ... or a statement fails (beginning and committing included): it is rolled
\* back and logged, and the markers of this tenant are gone.
InsertFails(t) ==
    /\ inTx \subseteq {t} /\ flushing[t] # <<>> /\ deployFaults < MaxDeployFaults
    /\ deployFaults' = deployFaults + 1
    /\ unmarked' = unmarked \cup {<<t, d.app>> : d \in ToSet(flushing[t])}
    /\ InsertReturns(t)
    /\ UNCHANGED <<last, pending, detector, deployTable, seenTs, outOfOrder, markers>>

\* Mutant: the map is replaced when the flush is over, not when it starts.
EndFlushClears ==
    /\ detector \in {"flushing", "closing"} /\ flushing = NoMarkers
    /\ detector' = IF detector = "flushing" THEN "up" ELSE "closed"
    /\ pending' = NoMarkers
    /\ UNCHANGED <<last, flushing, txVars, deployTable, seenTs, outOfOrder, unmarked, deployFaults,
                   markers>>

EndFlush ==
    /\ detector \in {"flushing", "closing"} /\ flushing = NoMarkers
    /\ detector' = IF detector = "flushing" THEN "up" ELSE "closed"
    /\ UNCHANGED <<last, pending, flushing, txVars, deployTable, seenTs, outOfOrder, unmarked,
                   deployFaults, markers>>

\* The process dies, or ends after Close; the next one starts with empty maps.
StopDetector ==
    /\ detector # "down"
    /\ detector = "closed" \/ deployFaults < MaxDeployFaults
    /\ deployFaults' = IF detector = "closed" THEN deployFaults ELSE deployFaults + 1
    /\ detector' = "down"
    /\ last' = NothingSeen
    /\ pending' = NoMarkers /\ flushing' = NoMarkers
    /\ inTx' = {} /\ txRows' = <<>> /\ txAt' = 0
    /\ unmarked' = {}
    /\ UNCHANGED <<deployTable, seenTs, outOfOrder, markers>>

StartDetector ==
    /\ detector = "down"
    /\ detector' = "up"
    /\ UNCHANGED <<last, pending, flushing, txVars, deployTable, seenTs, outOfOrder, unmarked,
                   deployFaults, markers>>

DeployNext ==
    \/ \E t \in Tenants, a \in DeployApps, v \in Versions, ts \in 1 .. MaxTs :
          DetectVersion(t, a, v, ts)
    \/ \E next \in {"flushing", "closing"} : StartFlush(next)
    \/ \E t \in Tenants : BeginInsert(t) \/ InsertNext(t) \/ CommitInsert(t) \/ InsertFails(t)
    \/ EndFlush \/ StopDetector \/ StartDetector

DeploySafety == DeployInit /\ [][DeployNext]_deployVars

(***************************************************************************)
(* Properties                                                              *)
(***************************************************************************)

Queued(k) == \E d \in ToSet(pending[k[1]]) \cup ToSet(flushing[k[1]]) : d.app = k[2]

\* A service whose version the detector knows and whose markers are written
\* shows that version as its newest marker, through crashes, restarts, closing
\* flushes and failed inserts of others: the markers are missing or stale only
\* for a service whose own insert failed (until its next version or the next
\* restart, because last already holds this one) or whose timestamps ran
\* backwards.
MarkersFollowVersions ==
    \A k \in DOMAIN last :
       ~Queued(k) /\ k \notin unmarked /\ k \notin outOfOrder
          => LatestVersions(deployTable[k[1]], k[2]) = {last[k]}

\* Markers of a service with ordered timestamps alternate: two markers that
\* follow each other never carry the same version, although every restart
\* forgets what was seen ("this makes detection restart-safe").
MarkersAlternate ==
    \A k \in Keys \ outOfOrder :
       LET rows == deployTable[k[1]]
           mine == {i \in DOMAIN rows : rows[i].app = k[2]}
       IN \A i, j \in mine :
             i < j => /\ rows[i].ts < rows[j].ts
                      /\ (\A m \in mine : m <= i \/ j <= m) => rows[i].version # rows[j].version

\* DeployDetector with InsertDeploys: the markers follow the versions and alternate.
MarkersExact == MarkersFollowVersions /\ MarkersAlternate
=============================================================================
