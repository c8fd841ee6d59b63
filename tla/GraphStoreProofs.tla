-------------------------- MODULE GraphStoreProofs --------------------------
(***************************************************************************)
(* Theorems about what lives in the SQLite file beside the observed graph: *)
(* the deploy markers, for any tenants, services and versions, and the     *)
(* declared graph with the catalog, for any number of concurrent requests. *)
(***************************************************************************)
EXTENDS GraphStore, FiniteSetTheorems, WellFoundedInduction, TLAPS

-----------------------------------------------------------------------------
(* Sets of numbers *)

LEMMA LeastElement ==
    ASSUME NEW T \in SUBSET Nat, T # {}
    PROVE  \E x \in T : \A y \in T : x <= y
<1> DEFINE R == {p \in Nat \X Nat : p[1] < p[2]}
<1>1. IsWellFoundedOn(OpToRel(<, Nat), Nat)
  BY NatLessThanWellFounded
<1>2. OpToRel(<, Nat) = R
  BY Zenon DEF OpToRel
<1>3. IsWellFoundedOn(R, Nat)
  BY <1>1, <1>2
<1>4. PICK x \in T : \A y \in T : ~(<<y, x>> \in R)
  <2> HIDE DEF R
  <2> QED BY <1>3, WFMin
<1>5. ASSUME NEW y \in T PROVE x <= y
  <2>1. x \in Nat /\ y \in Nat
    OBVIOUS
  <2>2. ~(<<y, x>> \in R)
    BY <1>4, <1>5
  <2> QED BY <2>1, <2>2
<1> QED BY <1>5

LEMMA GreatestElement ==
    ASSUME NEW n \in Nat, NEW T \in SUBSET (1 .. n), T # {}
    PROVE  \E x \in T : \A y \in T : y <= x
<1> DEFINE U == {n - y : y \in T}
<1>1. U \in SUBSET Nat /\ U # {}
  <2>1. \A y \in T : y \in Nat /\ n - y \in Nat
    OBVIOUS
  <2>2. \A u \in U : u \in Nat
    BY <2>1
  <2>3. PICK y : y \in T
    OBVIOUS
  <2>4. n - y \in U
    BY <2>3
  <2> HIDE DEF U
  <2> QED BY <2>2, <2>4
<1>2. PICK u \in U : \A w \in U : u <= w
  <2> HIDE DEF U
  <2> QED BY <1>1, LeastElement
<1>3. PICK x \in T : u = n - x
  OBVIOUS
<1>4. ASSUME NEW y \in T PROVE y <= x
  <2>1. u <= n - y
    BY <1>2
  <2> QED BY <1>3, <2>1
<1> QED BY <1>4

-----------------------------------------------------------------------------
(* Sequences of markers *)

Mine(s, a) == {i \in DOMAIN s : s[i].app = a}

\* The timestamps of the app increase.
Ordered(s, a) == \A i, j \in Mine(s, a) : i < j => s[i].ts < s[j].ts

\* Neighbours among the rows of the app have different versions.
Alternate(s, a) ==
    \A i, j \in Mine(s, a) :
       i < j /\ (\A m \in Mine(s, a) : m <= i \/ j <= m) => s[i].version # s[j].version

\* Every marker of the app in s is older than those in u from place n on.
Before(s, u, n, a) == \A i \in Mine(s, a), j \in Mine(u, a) : j >= n => s[i].ts < u[j].ts

Upto(s, a, m) == \A i \in Mine(s, a) : s[i].ts <= m

\* Among the first n markers, the last one of the app carries v.
NewestOf(s, n, a, v) ==
    \E i \in Mine(s, a) : /\ i <= n /\ s[i].version = v
                          /\ \A j \in Mine(s, a) : j <= n => j <= i
Newest(s, a, v) == NewestOf(s, Len(s), a, v)

LEMMA MineAppend ==
    ASSUME NEW s \in Seq(Marker), NEW d \in Marker, NEW a
    PROVE  /\ Append(s, d) \in Seq(Marker)
           /\ Mine(Append(s, d), a) = Mine(s, a) \cup (IF d.app = a THEN {Len(s) + 1} ELSE {})
           /\ \A i \in Mine(s, a) : i \in 1 .. Len(s) /\ Append(s, d)[i] = s[i]
           /\ Append(s, d)[Len(s) + 1] = d /\ Len(Append(s, d)) = Len(s) + 1
BY DEF Mine

LEMMA MineIndex ==
    ASSUME NEW s \in Seq(Marker), NEW a, NEW i \in Mine(s, a)
    PROVE  i \in 1 .. Len(s) /\ s[i] \in Marker /\ s[i].ts \in Nat /\ s[i].app = a
<1>1. i \in 1 .. Len(s) /\ s[i].app = a
  BY DEF Mine
<1>2. s[i] \in Marker
  BY <1>1
<1>3. s[i].ts \in 1 .. MaxTs
  BY <1>2 DEF Marker
<1> QED BY <1>1, <1>2, <1>3, DeployAssumption

\* A marker newer than all of its app is appended.
LEMMA AppendNewer ==
    ASSUME NEW s \in Seq(Marker), NEW d \in Marker, NEW a,
           Ordered(s, a),
           d.app = a => \A i \in Mine(s, a) : s[i].ts < d.ts
    PROVE  Ordered(Append(s, d), a)
<1> USE MineAppend, MineIndex
<1>1. CASE d.app = a
  BY <1>1 DEF Ordered
<1>2. CASE d.app # a
  BY <1>2 DEF Ordered
<1> QED BY <1>1, <1>2

LEMMA AppendNewest ==
    ASSUME NEW s \in Seq(Marker), NEW d \in Marker, NEW a
    PROVE  /\ d.app = a => Newest(Append(s, d), a, d.version)
           /\ d.app # a => \A v : Newest(s, a, v) => Newest(Append(s, d), a, v)
<1> USE MineAppend, MineIndex
<1>1. CASE d.app = a
  BY <1>1 DEF Newest, NewestOf
<1>2. CASE d.app # a
  BY <1>2 DEF Newest, NewestOf
<1> QED BY <1>1, <1>2

\* The app's newest row tells what the SELECT of InsertDeploys finds.
LEMMA LatestIsNewest ==
    ASSUME NEW rows \in Seq(Marker), NEW a, Ordered(rows, a)
    PROVE  /\ \A v : Newest(rows, a, v) => LatestVersions(rows, a) = {v}
           /\ LatestVersions(rows, a) = {} => Mine(rows, a) = {}
           /\ \A v \in LatestVersions(rows, a) : Newest(rows, a, v)
<1> USE MineIndex
<1> DEFINE top == {i \in Mine(rows, a) : \A j \in Mine(rows, a) : rows[j].ts <= rows[i].ts}
<1>1. LatestVersions(rows, a) = {rows[i].version : i \in top}
  BY DEF LatestVersions, Mine
<1>2. \A i \in Mine(rows, a) : (\A j \in Mine(rows, a) : j <= i) <=> i \in top
  BY DEF Ordered
<1>3. \A i, j \in top : i = j
  BY DEF Ordered
<1> HIDE DEF top
<1>4. ASSUME NEW v, Newest(rows, a, v) PROVE LatestVersions(rows, a) = {v}
  <2>1. PICK i \in Mine(rows, a) : rows[i].version = v /\ \A j \in Mine(rows, a) : j <= i
    BY <1>4 DEF Newest, NewestOf
  <2>2. i \in top
    BY <1>2, <2>1
  <2> QED BY <1>1, <1>3, <2>1, <2>2
<1>5. ASSUME Mine(rows, a) # {} PROVE LatestVersions(rows, a) # {}
  <2>1. \E i \in Mine(rows, a) : \A j \in Mine(rows, a) : j <= i
    <3> DEFINE T == Mine(rows, a)
    <3>1. T \in SUBSET (1 .. Len(rows)) /\ T # {} /\ Len(rows) \in Nat
      BY <1>5
    <3> HIDE DEF T
    <3>2. \E i \in T : \A j \in T : j <= i
      BY <3>1, GreatestElement
    <3> QED BY <3>2 DEF T
  <2>2. PICK i \in Mine(rows, a) : \A j \in Mine(rows, a) : j <= i
    BY <2>1
  <2>3. i \in top
    BY <1>2, <2>2
  <2>4. rows[i].version \in LatestVersions(rows, a)
    BY <1>1, <2>3
  <2> QED BY <2>4
<1>6. ASSUME NEW v \in LatestVersions(rows, a) PROVE Newest(rows, a, v)
  <2>1. PICK i \in top : rows[i].version = v
    BY <1>1
  <2>2. i \in Mine(rows, a) /\ \A j \in Mine(rows, a) : j <= i
    BY <1>2, <2>1 DEF top
  <2> QED BY <2>1, <2>2 DEF Newest, NewestOf
<1> QED BY <1>4, <1>5, <1>6

-----------------------------------------------------------------------------
(* The inductive invariant of the detector *)

\* A transaction is open only in a flush, for a tenant of its map.
TxShape ==
    /\ detector \notin {"flushing", "closing"} => flushing = NoMarkers
    /\ \A t \in inTx : inTx = {t} /\ flushing[t] # <<>> /\ txAt <= Len(flushing[t])

\* What InsertDeploys may do to the rows, seen from service k: rows are stored
\* in the order of their timestamps, older than everything that is queued.
RowsInv(k, rows, n) ==
    LET t == k[1]  a == k[2] IN
    /\ Ordered(rows, a) /\ Alternate(rows, a)
    /\ Before(rows, flushing[t], n, a) /\ Before(rows, pending[t], 1, a)
    /\ Upto(rows, a, seenTs[k])

QueueInv(k) ==
    LET t == k[1]  a == k[2] IN
    /\ Ordered(flushing[t], a) /\ Ordered(pending[t], a)
    /\ Before(flushing[t], pending[t], 1, a)
    /\ Upto(flushing[t], a, seenTs[k]) /\ Upto(pending[t], a, seenTs[k])

\* The open transaction shows the version of the marker it handled last, or
\* what the table shows.
TxInv(k) ==
    LET t == k[1]  a == k[2] IN
    t \in inTx =>
       /\ RowsInv(k, txRows, txAt + 1)
       /\ \A v \in Versions : NewestOf(flushing[t], txAt, a, v) => Newest(txRows, a, v)
       /\ (\A i \in Mine(flushing[t], a) : i > txAt)
             => \A v \in Versions : Newest(deployTable[t], a, v) => Newest(txRows, a, v)

\* The version in memory is that of the newest queued marker, or of the newest row.
LastInv(k) ==
    LET t == k[1]  a == k[2] IN
    k \in DOMAIN last =>
       /\ Mine(pending[t], a) # {} => Newest(pending[t], a, last[k])
       /\ Mine(pending[t], a) = {} /\ Mine(flushing[t], a) # {} => Newest(flushing[t], a, last[k])
       /\ Mine(pending[t], a) = {} /\ Mine(flushing[t], a) = {} /\ k \notin unmarked
             => Newest(deployTable[t], a, last[k])

ServiceInv(k) ==
    RowsInv(k, deployTable[k[1]], 1) /\ QueueInv(k) /\ TxInv(k) /\ LastInv(k)

DeployInv ==
    /\ DeployTypeOK /\ IsFiniteSet(DOMAIN last) /\ TxShape
    /\ \A k \in Keys \ outOfOrder : ServiceInv(k)

LEMMA DeployInvInit == DeployInit => DeployInv
<1> SUFFICES ASSUME DeployInit PROVE DeployInv
  OBVIOUS
<1>1. DOMAIN last = {} /\ IsFiniteSet(DOMAIN last) /\ Cardinality(DOMAIN last) = 0
  BY FS_EmptySet DEF DeployInit, NothingSeen
<1>2. NoMarkers \in [Tenants -> Seq(Marker)]
  BY DEF NoMarkers
<1>3. DeployTypeOK
  BY <1>1, <1>2, DeployAssumption DEF DeployInit, DeployTypeOK
<1>4. TxShape
  BY DEF DeployInit, TxShape
<1>5. ASSUME NEW k \in Keys PROVE ServiceInv(k)
  <2>1. k[1] \in Tenants
    BY DEF Keys
  <2>2. \A a : Mine(NoMarkers[k[1]], a) = {}
    BY <2>1 DEF NoMarkers, Mine
  <2>3. deployTable = NoMarkers /\ pending = NoMarkers /\ flushing = NoMarkers /\ inTx = {}
    BY DEF DeployInit
  <2> QED BY <1>1, <2>2, <2>3 DEF ServiceInv, RowsInv, QueueInv, TxInv, LastInv, Ordered, Alternate,
             Before, Upto
<1> QED BY <1>1, <1>3, <1>4, <1>5 DEF DeployInv

\* Queries of the invariant for the types of a service's sequences.
LEMMA ServiceTypes ==
    ASSUME DeployTypeOK, NEW k \in Keys
    PROVE  /\ k[1] \in Tenants /\ k[2] \in DeployApps /\ k = <<k[1], k[2]>>
           /\ deployTable[k[1]] \in Seq(Marker) /\ flushing[k[1]] \in Seq(Marker)
           /\ pending[k[1]] \in Seq(Marker) /\ txRows \in Seq(Marker) /\ txAt \in Nat
           /\ seenTs[k] \in Nat
<1>1. k[1] \in Tenants /\ k[2] \in DeployApps /\ k = <<k[1], k[2]>>
  BY DEF Keys
<1> QED BY <1>1, DeployAssumption DEF DeployTypeOK

LEMMA NoMine == \A a : Mine(<<>>, a) = {}
BY DEF Mine

-----------------------------------------------------------------------------
(* The steps of the detector *)

\* A new version is queued behind everything its service has.
LEMMA DetectVersionKeeps ==
    ASSUME DeployInv, NEW t \in Tenants, NEW a \in DeployApps, NEW v \in Versions,
           NEW ts \in 1 .. MaxTs, DetectVersion(t, a, v, ts)
    PROVE  DeployInv'
<1> DEFINE k0 == <<t, a>>
           d == [app |-> a, version |-> v, ts |-> ts]
<1>1. DeployTypeOK /\ IsFiniteSet(DOMAIN last) /\ TxShape
  BY DEF DeployInv
<1>2. d \in Marker /\ k0 \in Keys /\ d.app = a /\ d.ts = ts /\ d.version = v
  BY DEF Marker, Keys
<1>3. pending' = [pending EXCEPT ![t] = Append(pending[t], d)]
  BY <1>1 DEF DetectVersion, DeployTypeOK
<1>4. pending' \in [Tenants -> Seq(Marker)]
  BY <1>1, <1>2, <1>3 DEF DeployTypeOK
<1>5. /\ DOMAIN last' = DOMAIN last \cup {k0}
      /\ last'[k0] = v /\ \A j \in DOMAIN last : j # k0 => last'[j] = last[j]
  BY DEF DetectVersion
<1>6. IsFiniteSet(DOMAIN last') /\ Cardinality(DOMAIN last') <= MaxTrackedApps
  <2>1. /\ IsFiniteSet(DOMAIN last \cup {k0})
        /\ Cardinality(DOMAIN last \cup {k0}) =
              IF k0 \in DOMAIN last THEN Cardinality(DOMAIN last) ELSE Cardinality(DOMAIN last) + 1
    BY <1>1, FS_AddElement
  <2>2. Cardinality(DOMAIN last) \in Nat
    BY <1>1, FS_CardinalityType
  <2>3. Cardinality(DOMAIN last) <= MaxTrackedApps
    BY <1>1 DEF DeployTypeOK
  <2>4. k0 \in DOMAIN last \/ Cardinality(DOMAIN last) < MaxTrackedApps
    BY DEF DetectVersion
  <2> QED BY <1>5, <2>1, <2>2, <2>3, <2>4, DeployAssumption
<1>7. /\ seenTs \in [Keys -> 0 .. MaxTs] /\ seenTs' \in [Keys -> 0 .. MaxTs]
      /\ seenTs'[k0] >= ts /\ \A k \in Keys : seenTs'[k] >= seenTs[k]
  <2>1. seenTs \in [Keys -> 0 .. MaxTs] /\ ts \in 0 .. MaxTs /\ MaxTs \in Nat
    BY <1>1, DeployAssumption DEF DeployTypeOK
  <2>2. seenTs' = [seenTs EXCEPT ![k0] = IF ts > seenTs[k0] THEN ts ELSE seenTs[k0]]
    BY <1>2, <2>1 DEF DetectVersion
  <2> HIDE DEF k0
  <2>3. seenTs' \in [Keys -> 0 .. MaxTs]
    BY <1>2, <2>1, <2>2
  <2>4. seenTs'[k0] >= ts /\ seenTs'[k0] >= seenTs[k0]
    BY <1>2, <2>1, <2>2
  <2>5. ASSUME NEW k \in Keys PROVE seenTs'[k] >= seenTs[k]
    BY <1>2, <2>1, <2>2, <2>4
  <2> QED BY <2>1, <2>3, <2>4, <2>5
<1>8. outOfOrder \subseteq outOfOrder' /\ outOfOrder' \subseteq Keys
      /\ (k0 \notin outOfOrder' => ts > seenTs[k0])
  BY <1>1, <1>2 DEF DeployTypeOK, DetectVersion
<1>9. /\ UNCHANGED <<flushing, inTx, txRows, txAt, detector, deployTable, unmarked, deployFaults>>
      /\ markers' \in 0 .. MaxMarkers
  BY <1>1, DeployAssumption DEF DeployTypeOK, DetectVersion, txVars
<1>10. DeployTypeOK'
  <2>1. DOMAIN last' \subseteq Keys /\ \A k \in DOMAIN last' : last'[k] \in Versions
    BY <1>1, <1>2, <1>5 DEF DeployTypeOK
  <2> QED BY <1>1, <1>4, <1>6, <1>7, <1>8, <1>9, <2>1 DEF DeployTypeOK
<1>11. TxShape'
  BY <1>1, <1>9 DEF TxShape
<1>12. ASSUME NEW k \in Keys \ outOfOrder' PROVE ServiceInv(k)'
  <2>1. ServiceInv(k)
    BY <1>8 DEF DeployInv
  <2> DEFINE u == k[1]  b == k[2]
  <2>2. u \in Tenants /\ k = <<u, b>> /\ deployTable[u] \in Seq(Marker)
        /\ flushing[u] \in Seq(Marker) /\ pending[u] \in Seq(Marker) /\ txRows \in Seq(Marker)
        /\ seenTs[k] \in Nat /\ seenTs'[k] \in Nat
    BY <1>1, <1>7, ServiceTypes, DeployAssumption
  <2>3. CASE u # t
    <3>1. pending'[u] = pending[u] /\ k # k0
      BY <1>1, <1>3, <2>2, <2>3 DEF DeployTypeOK
    <3>2. seenTs'[k] = seenTs[k] /\ (k \in DOMAIN last' <=> k \in DOMAIN last)
          /\ (k \in DOMAIN last => last'[k] = last[k])
      BY <1>1, <1>5, <3>1 DEF DetectVersion, DeployTypeOK
    <3> QED BY <1>9, <2>1, <3>1, <3>2 DEF ServiceInv, RowsInv, QueueInv, TxInv, LastInv
  <2>4. CASE u = t
    <3>1. pending'[u] = Append(pending[u], d)
      BY <1>1, <1>3, <2>2, <2>4 DEF DeployTypeOK
    <3> DEFINE P == pending[u]  Q == pending'[u]
    <3>2. /\ Mine(Q, b) = Mine(P, b) \cup (IF a = b THEN {Len(P) + 1} ELSE {})
          /\ \A i \in Mine(P, b) : i \in 1 .. Len(P) /\ Q[i] = P[i]
          /\ Q[Len(P) + 1] = d
      BY <1>2, <2>2, <3>1, MineAppend
    <3>3. a = b => k = k0 /\ ts > seenTs[k]
      BY <1>8, <2>2, <2>4
    <3>4. ASSUME NEW s \in Seq(Marker), Upto(s, b, seenTs[k])
          PROVE  Upto(s, b, seenTs'[k]) /\ (a = b => \A i \in Mine(s, b) : s[i].ts < d.ts)
      BY <1>2, <1>7, <2>2, <3>3, <3>4, MineIndex, SMTT(60) DEF Upto
    <3>5. Ordered(Q, b)
      BY <1>2, <2>1, <2>2, <3>1, <3>4, AppendNewer DEF ServiceInv, QueueInv
    <3>6. Upto(Q, b, seenTs'[k])
      <4>1. Upto(P, b, seenTs'[k])
        BY <2>1, <2>2, <3>4 DEF ServiceInv, QueueInv
      <4> QED BY <1>2, <1>7, <2>2, <3>2, <3>3, <4>1 DEF Upto
    <3>7. ASSUME NEW s \in Seq(Marker), Upto(s, b, seenTs[k]), Before(s, P, 1, b)
          PROVE  Before(s, Q, 1, b)
      BY <1>2, <2>2, <3>2, <3>4, <3>7, MineIndex DEF Before
    <3>8. QueueInv(k)'
      BY <1>9, <2>1, <2>2, <3>4, <3>5, <3>6, <3>7 DEF ServiceInv, QueueInv
    <3>9. ASSUME NEW s \in Seq(Marker), NEW n, RowsInv(k, s, n) PROVE RowsInv(k, s, n)'
      BY <1>9, <2>2, <3>4, <3>7, <3>9 DEF RowsInv
    <3>10. RowsInv(k, deployTable[u], 1)' /\ TxInv(k)'
      BY <1>9, <2>1, <2>2, <3>9 DEF ServiceInv, TxInv, RowsInv
    <3>11. LastInv(k)'
      <4>1. CASE a = b
        <5>1. Newest(Q, b, v) /\ Mine(Q, b) # {}
          BY <1>2, <2>2, <3>1, <3>2, <4>1, AppendNewest
        <5> QED BY <1>5, <3>3, <4>1, <5>1 DEF LastInv
      <4>2. CASE a # b
        <5>1. Mine(Q, b) = Mine(P, b) /\ k # k0
          BY <2>2, <3>2, <4>2
        <5>2. \A w : Newest(P, b, w) => Newest(Q, b, w)
          BY <1>2, <2>2, <3>1, <4>2, AppendNewest
        <5> QED BY <1>5, <1>9, <2>1, <5>1, <5>2 DEF ServiceInv, LastInv
      <4> QED BY <4>1, <4>2
    <3> QED BY <3>8, <3>10, <3>11 DEF ServiceInv
  <2> QED BY <2>3, <2>4
<1> QED BY <1>6, <1>10, <1>11, <1>12 DEF DeployInv

\* flush takes the queue over and leaves an empty one.
LEMMA StartFlushKeeps ==
    ASSUME DeployInv, NEW next \in {"flushing", "closing"}, StartFlush(next)
    PROVE  DeployInv'
<1>1. DeployTypeOK /\ IsFiniteSet(DOMAIN last) /\ TxShape
  BY DEF DeployInv
<1>2. flushing = NoMarkers /\ inTx = {}
  <2>1. flushing = NoMarkers
    BY <1>1 DEF TxShape, StartFlush
  <2> QED BY <1>1, <2>1 DEF TxShape, NoMarkers, DeployTypeOK
<1>3. /\ flushing' = pending /\ pending' = NoMarkers /\ detector' \in {"flushing", "closing"}
      /\ UNCHANGED <<last, inTx, txRows, txAt, deployTable, seenTs, outOfOrder, unmarked,
                     deployFaults, markers>>
  BY DEF StartFlush, txVars
<1>4. DeployTypeOK'
  <2>1. NoMarkers \in [Tenants -> Seq(Marker)]
    BY DEF NoMarkers
  <2> QED BY <1>1, <1>3, <2>1 DEF DeployTypeOK
<1>5. TxShape'
  BY <1>2, <1>3 DEF TxShape
<1>6. ASSUME NEW k \in Keys \ outOfOrder' PROVE ServiceInv(k)'
  <2>1. ServiceInv(k) /\ k[1] \in Tenants
    BY <1>3 DEF DeployInv, Keys
  <2>2. \A a : Mine(flushing[k[1]], a) = {} /\ Mine(pending'[k[1]], a) = {}
    BY <1>2, <1>3, <2>1, NoMine DEF NoMarkers
  <2>3. RowsInv(k, deployTable[k[1]], 1)' /\ QueueInv(k)'
    BY <1>3, <2>1, <2>2 DEF ServiceInv, RowsInv, QueueInv, Ordered, Before, Upto
  <2>4. LastInv(k)'
    BY <1>3, <2>1, <2>2 DEF ServiceInv, LastInv
  <2>5. TxInv(k)'
    BY <1>2, <1>3 DEF TxInv
  <2> QED BY <2>3, <2>4, <2>5 DEF ServiceInv
<1> QED BY <1>1, <1>3, <1>4, <1>5, <1>6 DEF DeployInv

LEMMA BeginInsertKeeps ==
    ASSUME DeployInv, NEW t \in Tenants, BeginInsert(t)
    PROVE  DeployInv'
<1>1. DeployTypeOK /\ IsFiniteSet(DOMAIN last) /\ TxShape
  BY DEF DeployInv
<1>2. /\ inTx' = {t} /\ txRows' = deployTable[t] /\ txAt' = 0 /\ flushing[t] # <<>>
      /\ UNCHANGED <<last, pending, flushing, detector, deployTable, seenTs, outOfOrder, unmarked,
                     deployFaults, markers>>
  BY DEF BeginInsert
<1>3. DeployTypeOK'
  BY <1>1, <1>2 DEF DeployTypeOK
<1>4. TxShape'
  <2>1. Len(flushing[t]) \in Nat
    BY <1>1 DEF DeployTypeOK
  <2> QED BY <1>1, <1>2, <2>1 DEF TxShape
<1>5. ASSUME NEW k \in Keys \ outOfOrder' PROVE ServiceInv(k)'
  <2>1. ServiceInv(k)
    BY <1>2 DEF DeployInv
  <2>2. RowsInv(k, deployTable[k[1]], 1)' /\ QueueInv(k)' /\ LastInv(k)'
    BY <1>2, <2>1 DEF ServiceInv, RowsInv, QueueInv, LastInv
  <2>3. TxInv(k)'
    <3>1. ASSUME k[1] = t PROVE TxInv(k)'
      <4>1. \A i \in Mine(flushing[t], k[2]) : i > 0 /\ ~(i <= 0)
        BY <1>1, <3>1, MineIndex DEF DeployTypeOK
      <4>2. \A v : ~NewestOf(flushing[t], 0, k[2], v)
        BY <4>1 DEF NewestOf
      <4> QED BY <1>2, <2>2, <3>1, <4>1, <4>2 DEF TxInv, RowsInv
    <3> QED BY <1>2, <3>1 DEF TxInv
  <2> QED BY <2>2, <2>3 DEF ServiceInv
<1> QED BY <1>1, <1>2, <1>3, <1>4, <1>5 DEF DeployInv

\* A row appended behind all rows of its app, with another version than the newest.
LEMMA AppendAlternates ==
    ASSUME NEW rows \in Seq(Marker), NEW d \in Marker, NEW a, Ordered(rows, a), Alternate(rows, a),
           d.app = a => LatestVersions(rows, a) # {d.version}
    PROVE  Alternate(Append(rows, d), a)
<1> USE MineAppend, MineIndex
<1> DEFINE Q == Append(rows, d)
<1>1. CASE d.app # a
  BY <1>1 DEF Alternate
<1>2. CASE d.app = a
  <2> SUFFICES ASSUME NEW i \in Mine(Q, a), NEW j \in Mine(Q, a), i < j,
                      \A m \in Mine(Q, a) : m <= i \/ j <= m
               PROVE  Q[i].version # Q[j].version
    BY DEF Alternate
  <2>1. CASE j \in Mine(rows, a)
    <3>1. i \in Mine(rows, a)
      BY <1>2, <2>1
    <3>2. \A m \in Mine(rows, a) : m <= i \/ j <= m
      BY <1>2
    <3>3. Q[i] = rows[i] /\ Q[j] = rows[j]
      BY <2>1, <3>1
    <3> QED BY <2>1, <3>1, <3>2, <3>3 DEF Alternate
  <2>2. CASE j = Len(rows) + 1
    <3>1. i \in Mine(rows, a) /\ Q[i] = rows[i] /\ Q[j] = d
      BY <1>2, <2>2
    <3>2. \A m \in Mine(rows, a) : m <= i
      BY <1>2, <2>2
    <3>3. Newest(rows, a, rows[i].version)
      BY <3>1, <3>2 DEF Newest, NewestOf
    <3>4. LatestVersions(rows, a) = {rows[i].version}
      BY <3>3, LatestIsNewest
    <3> QED BY <1>2, <3>1, <3>4
  <2> QED BY <1>2, <2>1, <2>2
<1> QED BY <1>1, <1>2

\* One marker of the transaction, seen from a service of the tenant.
LEMMA InsertNextKeepsService ==
    ASSUME DeployInv, NEW k \in Keys, InsertNext(k[1]), ServiceInv(k)
    PROVE  TxInv(k)'
<1> DEFINE t == k[1]  b == k[2]  n == txAt + 1  F == flushing[t]  d == F[n]
           P == pending[t]  R == txRows  Q == txRows'
<1>1. /\ t \in Tenants /\ F \in Seq(Marker) /\ P \in Seq(Marker) /\ R \in Seq(Marker)
      /\ txAt \in Nat /\ seenTs[k] \in Nat
  BY ServiceTypes DEF DeployInv
<1>2. /\ inTx = {t} /\ n \in 1 .. Len(F) /\ Q \in InsertDeploy(R, d) /\ txAt' = n
      /\ UNCHANGED <<pending, flushing, inTx, deployTable, seenTs>>
  BY <1>1 DEF InsertNext
<1>3. d \in Marker /\ (n \in Mine(F, b) <=> d.app = b)
  BY <1>1, <1>2 DEF Mine
<1>4. TxInv(k) /\ RowsInv(k, R, n) /\ QueueInv(k)
  BY <1>2 DEF ServiceInv, TxInv
<1>5. \/ Q = Append(R, d) /\ LatestVersions(R, d.app) # {d.version}
      \/ Q = R /\ d.version \in LatestVersions(R, d.app)
  BY <1>2 DEF InsertDeploy
<1>6. d.app = b => \A i \in Mine(R, b) : R[i].ts < d.ts
  BY <1>1, <1>2, <1>3, <1>4, SMTT(60) DEF RowsInv, Before
<1>7. Ordered(R, b) /\ Alternate(R, b) /\ Before(R, F, n, b) /\ Before(R, P, 1, b)
      /\ Upto(R, b, seenTs[k])
  BY <1>4 DEF RowsInv
<1>8. Q \in Seq(Marker) /\ Ordered(Q, b) /\ Alternate(Q, b)
  <2>1. CASE Q = R
    BY <1>1, <1>7, <2>1
  <2>2. CASE Q = Append(R, d) /\ LatestVersions(R, d.app) # {d.version}
    <3> HIDE DEF d, Q, R, b
    <3>1. Append(R, d) \in Seq(Marker)
      BY <1>1, <1>3
    <3>2. Ordered(Append(R, d), b)
      BY <1>1, <1>3, <1>6, <1>7, AppendNewer
    <3>3. Alternate(Append(R, d), b)
      BY <1>1, <1>3, <1>7, <2>2, AppendAlternates
    <3> QED BY <2>2, <3>1, <3>2, <3>3
  <2> QED BY <1>5, <2>1, <2>2
\* Every row of the app is an old one or the marker itself.
<1>9. \A i \in Mine(Q, b) : (i \in Mine(R, b) /\ Q[i] = R[i]) \/ (d.app = b /\ Q[i] = d)
  <2> HIDE DEF d, Q, R, b
  <2>1. CASE Q = Append(R, d)
    BY <1>1, <1>3, <2>1, MineAppend
  <2>2. CASE Q = R
    BY <2>2
  <2> QED BY <1>5, <2>1, <2>2
<1>10. Before(Q, F, n + 1, b)
  <2> SUFFICES ASSUME NEW i \in Mine(Q, b), NEW j \in Mine(F, b), j >= n + 1
               PROVE  Q[i].ts < F[j].ts
    BY DEF Before
  <2>1. j \in Nat /\ j >= n /\ n < j
    BY <1>1, MineIndex
  <2>2. CASE i \in Mine(R, b) /\ Q[i] = R[i]
    BY <1>7, <2>1, <2>2 DEF Before
  <2>3. CASE d.app = b /\ Q[i] = d
    BY <1>3, <1>4, <2>1, <2>3 DEF QueueInv, Ordered
  <2> QED BY <1>9, <2>2, <2>3
<1>11. Before(Q, P, 1, b)
  <2> SUFFICES ASSUME NEW i \in Mine(Q, b), NEW j \in Mine(P, b), j >= 1
               PROVE  Q[i].ts < P[j].ts
    BY DEF Before
  <2>1. CASE i \in Mine(R, b) /\ Q[i] = R[i]
    BY <1>7, <2>1 DEF Before
  <2>2. CASE d.app = b /\ Q[i] = d
    BY <1>3, <1>4, <2>2 DEF QueueInv, Before
  <2> QED BY <1>9, <2>1, <2>2
<1>12. Upto(Q, b, seenTs[k])
  BY <1>3, <1>4, <1>7, <1>9 DEF QueueInv, Upto
<1>13. RowsInv(k, txRows, txAt + 1)'
  BY <1>2, <1>8, <1>10, <1>11, <1>12 DEF RowsInv
<1>14. d.app = b => Newest(Q, b, d.version)
  <2> HIDE DEF d, Q, R, b
  <2>1. CASE Q = Append(R, d)
    BY <1>1, <1>3, <2>1, AppendNewest
  <2>2. CASE Q = R /\ d.version \in LatestVersions(R, d.app)
    BY <1>1, <1>7, <2>2, LatestIsNewest
  <2> QED BY <1>5, <2>1, <2>2
<1>15. d.app # b => \A v : Newest(R, b, v) => Newest(Q, b, v)
  <2> HIDE DEF d, Q, R, b
  <2> QED BY <1>1, <1>3, <1>5, AppendNewest
<1>16. ASSUME NEW v \in Versions, NewestOf(F, n, b, v) PROVE Newest(Q, b, v)
  <2>1. PICK i \in Mine(F, b) : i <= n /\ F[i].version = v /\ \A j \in Mine(F, b) : j <= n => j <= i
    BY <1>16 DEF NewestOf
  <2>2. \A j \in Mine(F, b) : j \in Nat
    BY <1>1, MineIndex
  <2>3. CASE d.app = b
    <3>1. i = n
      BY <1>1, <1>3, <2>1, <2>2, <2>3
    <3> QED BY <1>14, <2>1, <2>3, <3>1
  <2>4. CASE d.app # b
    <3>1. \A j \in Mine(F, b) : j <= n => j <= txAt
      BY <1>1, <1>3, <2>2, <2>4
    <3>2. NewestOf(F, txAt, b, v)
      BY <1>1, <2>1, <2>2, <3>1 DEF NewestOf
    <3> QED BY <1>2, <1>4, <1>15, <2>4, <3>2 DEF TxInv
  <2> QED BY <2>3, <2>4
<1>17. ASSUME \A i \in Mine(F, b) : i > n, NEW v \in Versions, Newest(deployTable[t], b, v)
       PROVE  Newest(Q, b, v)
  <2>1. d.app # b
    BY <1>1, <1>3, <1>17
  <2>2. \A i \in Mine(F, b) : i > txAt
    BY <1>1, <1>17, MineIndex
  <2>3. Newest(R, b, v)
    BY <1>2, <1>4, <1>17, <2>2 DEF TxInv
  <2> QED BY <1>15, <2>1, <2>3
<1> QED BY <1>2, <1>13, <1>16, <1>17 DEF TxInv

LEMMA InsertNextKeeps ==
    ASSUME DeployInv, NEW t \in Tenants, InsertNext(t)
    PROVE  DeployInv'
<1>1. DeployTypeOK /\ IsFiniteSet(DOMAIN last) /\ TxShape
  BY DEF DeployInv
<1>2. /\ inTx = {t} /\ txAt < Len(flushing[t]) /\ txAt' = txAt + 1
      /\ txRows' \in InsertDeploy(txRows, flushing[t][txAt + 1])
      /\ UNCHANGED <<last, pending, flushing, inTx, detector, deployTable, seenTs, outOfOrder,
                     unmarked, deployFaults, markers>>
  BY DEF InsertNext
<1>3. flushing[t] \in Seq(Marker) /\ txAt \in Nat /\ txRows \in Seq(Marker)
      /\ txAt + 1 \in 1 .. Len(flushing[t])
  BY <1>1, <1>2 DEF DeployTypeOK
<1>4. txRows' \in Seq(Marker)
  <2>1. flushing[t][txAt + 1] \in Marker
    BY <1>3
  <2> QED BY <1>2, <1>3, <2>1 DEF InsertDeploy
<1>5. DeployTypeOK'
  BY <1>1, <1>2, <1>3, <1>4 DEF DeployTypeOK
<1>6. TxShape'
  BY <1>1, <1>2, <1>3 DEF TxShape
<1>7. ASSUME NEW k \in Keys \ outOfOrder' PROVE ServiceInv(k)'
  <2>1. ServiceInv(k)
    BY <1>2 DEF DeployInv
  <2>2. RowsInv(k, deployTable[k[1]], 1)' /\ QueueInv(k)' /\ LastInv(k)'
    BY <1>2, <2>1 DEF ServiceInv, RowsInv, QueueInv, LastInv
  <2>3. TxInv(k)'
    <3>1. CASE k[1] = t
      BY <2>1, <3>1, InsertNextKeepsService
    <3>2. CASE k[1] # t
      BY <1>2, <3>2 DEF TxInv
    <3> QED BY <3>1, <3>2
  <2> QED BY <2>2, <2>3 DEF ServiceInv
<1> QED BY <1>1, <1>2, <1>5, <1>6, <1>7 DEF DeployInv

\* The transaction's rows become the table.
LEMMA CommitInsertKeeps ==
    ASSUME DeployInv, NEW t \in Tenants, CommitInsert(t)
    PROVE  DeployInv'
<1>1. DeployTypeOK /\ IsFiniteSet(DOMAIN last) /\ TxShape
  BY DEF DeployInv
<1>2. /\ inTx = {t} /\ txAt = Len(flushing[t]) /\ deployTable' = [deployTable EXCEPT ![t] = txRows]
      /\ unmarked' = unmarked \ {<<t, d.app>> : d \in ToSet(flushing[t])}
      /\ flushing' = [flushing EXCEPT ![t] = <<>>]
      /\ inTx' = {} /\ txRows' = <<>> /\ txAt' = 0
      /\ UNCHANGED <<last, pending, detector, seenTs, outOfOrder, deployFaults, markers>>
  BY DEF CommitInsert, InsertReturns
<1>3. DeployTypeOK'
  <2>1. unmarked' \subseteq Keys /\ <<>> \in Seq(Marker)
    BY <1>1, <1>2 DEF DeployTypeOK
  <2>2. flushing' \in [Tenants -> Seq(Marker)] /\ deployTable' \in [Tenants -> Seq(Marker)]
    BY <1>1, <1>2, <2>1 DEF DeployTypeOK
  <2> QED BY <1>1, <1>2, <2>1, <2>2 DEF DeployTypeOK
<1>4. TxShape'
  <2>1. CASE detector \in {"flushing", "closing"}
    BY <1>2, <2>1 DEF TxShape
  <2>2. CASE detector \notin {"flushing", "closing"}
    BY <1>1, <1>2, <2>2 DEF TxShape, NoMarkers
  <2> QED BY <2>1, <2>2
<1>5. ASSUME NEW k \in Keys \ outOfOrder' PROVE ServiceInv(k)'
  <2> DEFINE u == k[1]  b == k[2]
  <2>1. ServiceInv(k)
    BY <1>2 DEF DeployInv
  <2>2. u \in Tenants /\ k = <<u, b>> /\ flushing[u] \in Seq(Marker)
    BY <1>1, ServiceTypes
  <2>3. TxInv(k)'
    BY <1>2 DEF TxInv
  <2>4. CASE u # t
    <3>1. deployTable'[u] = deployTable[u] /\ flushing'[u] = flushing[u]
      BY <1>1, <1>2, <2>2, <2>4 DEF DeployTypeOK
    <3>2. k \in unmarked' <=> k \in unmarked
      BY <1>2, <2>2, <2>4
    <3>3. RowsInv(k, deployTable[u], 1)' /\ QueueInv(k)' /\ LastInv(k)'
      BY <1>2, <2>1, <3>1, <3>2 DEF ServiceInv, RowsInv, QueueInv, LastInv
    <3> QED BY <2>3, <3>3 DEF ServiceInv
  <2>5. CASE u = t
    <3>1. deployTable'[u] = txRows /\ flushing'[u] = <<>>
      BY <1>1, <1>2, <2>2, <2>5 DEF DeployTypeOK
    <3>2. RowsInv(k, txRows, txAt + 1) /\ QueueInv(k) /\ TxInv(k) /\ LastInv(k)
      BY <1>2, <2>1, <2>5 DEF ServiceInv, TxInv
    <3>3. RowsInv(k, deployTable[u], 1)' /\ QueueInv(k)'
      BY <1>2, <3>1, <3>2, NoMine DEF RowsInv, QueueInv, Ordered, Before, Upto
    <3>4. LastInv(k)'
      <4> SUFFICES ASSUME k \in DOMAIN last, Mine(pending[u], b) = {}, k \notin unmarked'
                   PROVE  Newest(txRows, b, last[k])
        BY <1>2, <3>1, <3>2, NoMine DEF LastInv
      <4>1. last[k] \in Versions
        BY <1>1 DEF DeployTypeOK
      <4>2. CASE Mine(flushing[u], b) # {}
        <5>1. NewestOf(flushing[u], txAt, b, last[k])
          BY <1>2, <2>5, <3>2, <4>2 DEF LastInv, Newest
        <5> QED BY <1>2, <2>5, <3>2, <4>1, <5>1 DEF TxInv
      <4>3. CASE Mine(flushing[u], b) = {}
        <5>1. \A d \in ToSet(flushing[u]) : d.app # b
          BY <2>2, <4>3 DEF Mine, ToSet
        <5>2. k \notin unmarked
          BY <1>2, <2>2, <5>1
        <5>3. Newest(deployTable[u], b, last[k])
          BY <3>2, <4>3, <5>2 DEF LastInv
        <5> QED BY <1>2, <2>5, <3>2, <4>1, <4>3, <5>3 DEF TxInv
      <4> QED BY <4>2, <4>3
    <3> QED BY <2>3, <3>3, <3>4 DEF ServiceInv
  <2> QED BY <2>4, <2>5
<1> QED BY <1>1, <1>2, <1>3, <1>4, <1>5 DEF DeployInv

\* A failed transaction leaves the table alone; its services are noted.
LEMMA InsertFailsKeeps ==
    ASSUME DeployInv, NEW t \in Tenants, InsertFails(t)
    PROVE  DeployInv'
<1>1. DeployTypeOK /\ IsFiniteSet(DOMAIN last) /\ TxShape
  BY DEF DeployInv
<1>2. /\ unmarked' = unmarked \cup {<<t, d.app>> : d \in ToSet(flushing[t])}
      /\ flushing' = [flushing EXCEPT ![t] = <<>>]
      /\ inTx' = {} /\ txRows' = <<>> /\ txAt' = 0
      /\ UNCHANGED <<last, pending, detector, deployTable, seenTs, outOfOrder, markers>>
  BY DEF InsertFails, InsertReturns
<1>3. DeployTypeOK'
  <2>1. deployFaults' \in 0 .. MaxDeployFaults
    BY <1>1, DeployAssumption DEF InsertFails, DeployTypeOK
  <2>2. flushing[t] \in Seq(Marker)
    BY <1>1 DEF DeployTypeOK
  <2>3. \A d \in ToSet(flushing[t]) : d.app \in DeployApps
    <3>1. \A d \in ToSet(flushing[t]) : d \in Marker
      BY <2>2 DEF ToSet
    <3> QED BY <3>1 DEF Marker
  <2>4. unmarked' \subseteq Keys
    BY <1>1, <1>2, <2>3 DEF DeployTypeOK, Keys
  <2>5. flushing' \in [Tenants -> Seq(Marker)] /\ <<>> \in Seq(Marker)
    BY <1>1, <1>2 DEF DeployTypeOK
  <2> QED BY <1>1, <1>2, <2>1, <2>4, <2>5 DEF DeployTypeOK
<1>4. TxShape'
  <2>1. CASE detector \in {"flushing", "closing"}
    BY <1>2, <2>1 DEF TxShape
  <2>2. CASE detector \notin {"flushing", "closing"}
    BY <1>1, <1>2, <2>2 DEF TxShape, NoMarkers
  <2> QED BY <2>1, <2>2
<1>5. ASSUME NEW k \in Keys \ outOfOrder' PROVE ServiceInv(k)'
  <2> DEFINE u == k[1]  b == k[2]
  <2>1. ServiceInv(k)
    BY <1>2 DEF DeployInv
  <2>2. u \in Tenants /\ k = <<u, b>> /\ flushing[u] \in Seq(Marker)
    BY <1>1, ServiceTypes
  <2>3. TxInv(k)'
    BY <1>2 DEF TxInv
  <2>4. CASE u # t
    <3>1. flushing'[u] = flushing[u]
      BY <1>1, <1>2, <2>2, <2>4 DEF DeployTypeOK
    <3>2. k \in unmarked' <=> k \in unmarked
      BY <1>2, <2>2, <2>4
    <3>3. RowsInv(k, deployTable[u], 1)' /\ QueueInv(k)' /\ LastInv(k)'
      BY <1>2, <2>1, <3>1, <3>2 DEF ServiceInv, RowsInv, QueueInv, LastInv
    <3> QED BY <2>3, <3>3 DEF ServiceInv
  <2>5. CASE u = t
    <3>1. flushing'[u] = <<>>
      BY <1>1, <1>2, <2>2, <2>5 DEF DeployTypeOK
    <3>2. RowsInv(k, deployTable[u], 1)' /\ QueueInv(k)'
      BY <1>2, <2>1, <3>1, NoMine DEF ServiceInv, RowsInv, QueueInv, Ordered, Before, Upto
    <3>3. k \notin unmarked' => k \notin unmarked /\ Mine(flushing[u], b) = {}
      <4>1. ASSUME NEW i \in Mine(flushing[u], b) PROVE k \in unmarked'
        <5>1. flushing[u][i] \in ToSet(flushing[t]) /\ flushing[u][i].app = b
          BY <2>2, <2>5 DEF Mine, ToSet
        <5> QED BY <1>2, <2>2, <2>5, <5>1
      <4> QED BY <1>2, <4>1
    <3>4. LastInv(k)'
      BY <1>2, <2>1, <3>1, <3>3, NoMine DEF ServiceInv, LastInv
    <3> QED BY <2>3, <3>2, <3>4 DEF ServiceInv
  <2> QED BY <2>4, <2>5
<1> QED BY <1>1, <1>2, <1>3, <1>4, <1>5 DEF DeployInv

\* The flush ends, the process starts.
LEMMA DetectorTurns ==
    ASSUME DeployInv, EndFlush \/ StartDetector
    PROVE  DeployInv'
<1>1. DeployTypeOK /\ IsFiniteSet(DOMAIN last) /\ TxShape
  BY DEF DeployInv
<1>2. /\ flushing = NoMarkers /\ detector' \in {"up", "closed"}
      /\ UNCHANGED <<last, pending, flushing, inTx, txRows, txAt, deployTable, seenTs, outOfOrder,
                     unmarked, deployFaults, markers>>
  BY <1>1 DEF EndFlush, StartDetector, TxShape, txVars
<1>3. DeployTypeOK' /\ TxShape'
  BY <1>1, <1>2 DEF DeployTypeOK, TxShape
<1>4. ASSUME NEW k \in Keys \ outOfOrder' PROVE ServiceInv(k)'
  <2>1. ServiceInv(k)
    BY <1>2 DEF DeployInv
  <2> QED BY <1>2, <2>1 DEF ServiceInv, RowsInv, QueueInv, TxInv, LastInv
<1> QED BY <1>1, <1>2, <1>3, <1>4 DEF DeployInv

\* A crash keeps the table and forgets the rest.
LEMMA StopDetectorKeeps ==
    ASSUME DeployInv, StopDetector
    PROVE  DeployInv'
<1>1. DeployTypeOK /\ IsFiniteSet(DOMAIN last) /\ TxShape
  BY DEF DeployInv
<1>2. /\ last' = NothingSeen /\ pending' = NoMarkers /\ flushing' = NoMarkers /\ detector' = "down"
      /\ inTx' = {} /\ txRows' = <<>> /\ txAt' = 0 /\ unmarked' = {}
      /\ UNCHANGED <<deployTable, seenTs, outOfOrder, markers>>
  BY DEF StopDetector
<1>3. DOMAIN last' = {} /\ IsFiniteSet(DOMAIN last') /\ Cardinality(DOMAIN last') = 0
  BY <1>2, FS_EmptySet DEF NothingSeen
<1>4. DeployTypeOK'
  <2>1. deployFaults' \in 0 .. MaxDeployFaults
    BY <1>1, DeployAssumption DEF StopDetector, DeployTypeOK
  <2>2. NoMarkers \in [Tenants -> Seq(Marker)]
    BY DEF NoMarkers
  <2> QED BY <1>1, <1>2, <1>3, <2>1, <2>2, DeployAssumption DEF DeployTypeOK
<1>5. TxShape'
  BY <1>2 DEF TxShape
<1>6. ASSUME NEW k \in Keys \ outOfOrder' PROVE ServiceInv(k)'
  <2>1. ServiceInv(k) /\ k[1] \in Tenants
    BY <1>2 DEF DeployInv, Keys
  <2>2. \A a : Mine(flushing'[k[1]], a) = {} /\ Mine(pending'[k[1]], a) = {}
    BY <1>2, <2>1, NoMine DEF NoMarkers
  <2> QED BY <1>2, <1>3, <2>1, <2>2 DEF ServiceInv, RowsInv, QueueInv, TxInv, LastInv, Ordered,
             Before, Upto
<1> QED BY <1>3, <1>4, <1>5, <1>6 DEF DeployInv

-----------------------------------------------------------------------------
(* The theorems about the markers *)

THEOREM DeployInvariance == DeploySafety => []DeployInv
<1>1. ASSUME DeployInv, [DeployNext]_deployVars PROVE DeployInv'
  <2>1. CASE UNCHANGED deployVars
    <3>1. UNCHANGED <<last, pending, flushing, inTx, txRows, txAt, detector, deployTable, seenTs,
                      outOfOrder, unmarked, markers, deployFaults>>
      BY <2>1 DEF deployVars, txVars
    <3>2. DeployTypeOK' /\ TxShape' /\ IsFiniteSet(DOMAIN last')
      BY <1>1, <3>1 DEF DeployInv, DeployTypeOK, TxShape
    <3>3. ASSUME NEW k \in Keys \ outOfOrder' PROVE ServiceInv(k)'
      <4>1. ServiceInv(k)
        BY <1>1, <3>1 DEF DeployInv
      <4> QED BY <3>1, <4>1 DEF ServiceInv, RowsInv, QueueInv, TxInv, LastInv
    <3> QED BY <3>2, <3>3 DEF DeployInv
  <2>2. CASE DeployNext
    BY <1>1, <2>2, DetectVersionKeeps, StartFlushKeeps, BeginInsertKeeps, InsertNextKeeps,
       CommitInsertKeeps, InsertFailsKeeps, DetectorTurns, StopDetectorKeeps DEF DeployNext
  <2> QED BY <1>1, <2>1, <2>2
<1> QED BY <1>1, DeployInvInit, PTL DEF DeploySafety

\* Every reachable state of the detector has its type; among others the map of
\* the last versions never exceeds maxTrackedApps.
THEOREM DeployTypeCorrect == DeploySafety => []DeployTypeOK
<1>1. DeployInv => DeployTypeOK
  BY DEF DeployInv
<1> QED BY <1>1, DeployInvariance, PTL

\* DeployDetector with InsertDeploys: through crashes, failed and interrupted
\* transactions, the markers of a service with ordered timestamps alternate, and
\* the newest one is the version in memory.
THEOREM MarkersExactHolds == DeploySafety => []MarkersExact
<1>1. ASSUME DeployInv PROVE MarkersExact
  <2>1. DeployTypeOK
    BY <1>1 DEF DeployInv
  <2>2. MarkersFollowVersions
    <3> SUFFICES ASSUME NEW k \in DOMAIN last, ~Queued(k), k \notin unmarked, k \notin outOfOrder
                 PROVE  LatestVersions(deployTable[k[1]], k[2]) = {last[k]}
      BY DEF MarkersFollowVersions
    <3>1. k \in Keys
      BY <2>1 DEF DeployTypeOK
    <3>2. ServiceInv(k)
      BY <1>1, <3>1 DEF DeployInv
    <3>3. deployTable[k[1]] \in Seq(Marker) /\ pending[k[1]] \in Seq(Marker)
          /\ flushing[k[1]] \in Seq(Marker)
      BY <2>1, <3>1, ServiceTypes
    <3>4. Mine(pending[k[1]], k[2]) = {} /\ Mine(flushing[k[1]], k[2]) = {}
      <4>1. \A i \in DOMAIN pending[k[1]] : pending[k[1]][i] \in ToSet(pending[k[1]])
        BY <3>3 DEF ToSet
      <4>2. \A i \in DOMAIN flushing[k[1]] : flushing[k[1]][i] \in ToSet(flushing[k[1]])
        BY <3>3 DEF ToSet
      <4> QED BY <4>1, <4>2 DEF Queued, Mine
    <3>5. Newest(deployTable[k[1]], k[2], last[k])
      BY <3>2, <3>4 DEF ServiceInv, LastInv
    <3>6. Ordered(deployTable[k[1]], k[2])
      BY <3>2 DEF ServiceInv, RowsInv
    <3> QED BY <3>3, <3>5, <3>6, LatestIsNewest
  <2>3. MarkersAlternate
    <3> SUFFICES ASSUME NEW k \in Keys \ outOfOrder,
                        Ordered(deployTable[k[1]], k[2]), Alternate(deployTable[k[1]], k[2])
                 PROVE  \A i, j \in Mine(deployTable[k[1]], k[2]) :
                           i < j => /\ deployTable[k[1]][i].ts < deployTable[k[1]][j].ts
                                    /\ (\A m \in Mine(deployTable[k[1]], k[2]) : m <= i \/ j <= m)
                                         => deployTable[k[1]][i].version # deployTable[k[1]][j].version
      BY <1>1 DEF MarkersAlternate, Mine, DeployInv, ServiceInv, RowsInv
    <3> QED BY DEF Ordered, Alternate
  <2> QED BY <2>2, <2>3 DEF MarkersExact
<1> QED BY <1>1, DeployInvariance, PTL

-----------------------------------------------------------------------------
(* Sequences without repetition *)

\* A valid graph has at most as many nodes and edges as ValidateDeclared allows.
LEMMA InjectiveSize ==
    ASSUME NEW S, NEW s \in Seq(S)
    PROVE  IsFiniteSet(ToSet(s)) /\ Cardinality(ToSet(s)) <= Len(s)
<1>1. Len(s) \in Nat /\ s \in [1 .. Len(s) -> ToSet(s)]
  BY DEF ToSet
<1>2. s \in Surjection(1 .. Len(s), ToSet(s))
  BY <1>1 DEF Surjection, ToSet
<1>3. ExistsSurjection(1 .. Len(s), ToSet(s))
  BY <1>2 DEF ExistsSurjection
<1> QED BY <1>1, <1>3, FS_NatSurjection, FS_SurjCardinalityBound

\* What SetToSeq promises.
LEMMA SetToSeqExact ==
    ASSUME NEW S, IsFiniteSet(S)
    PROVE  /\ SetToSeq(S) \in Seq(S) /\ Len(SetToSeq(S)) = Cardinality(S)
           /\ IsInjective(SetToSeq(S)) /\ ToSet(SetToSeq(S)) \subseteq S
<1> DEFINE n == Cardinality(S)
<1>1. n \in Nat /\ ExistsBijection(1 .. n, S)
  BY FS_CardinalityType
<1>2. \E f \in [1 .. n -> S] : IsInjective(f)
  BY <1>1 DEF ExistsBijection, Bijection, Injection
<1> DEFINE q == SetToSeq(S)
<1>3. q \in [1 .. n -> S] /\ IsInjective(q)
  BY <1>2 DEF SetToSeq
<1>4. q \in Seq(S) /\ Len(q) = n /\ ToSet(q) \subseteq S
  <2> HIDE DEF q, n
  <2> QED BY <1>1, <1>3 DEF ToSet
<1> QED BY <1>3, <1>4

-----------------------------------------------------------------------------
(* The inductive invariant of the requests *)

Importing == {"list", "delete", "save", "imported"}

\* The entries of the file up to place n that may be written for app a.
Good(metas, n, a) == {i \in 1 .. n : metas[i].app = a /\ ValidMeta(metas[i])}

\* What ReplaceDeclared stores, and a read has seen of it.
SmallNodes(N) == N \subseteq AdminApps /\ IsFiniteSet(N) /\ Cardinality(N) <= MaxNodes
SmallEdges(E) ==
    E \subseteq {e \in Pairs : e[1] # e[2]} /\ IsFiniteSet(E) /\ Cardinality(E) <= MaxEdges

\* How far the import has come.
ImportShape(q) ==
    /\ DOMAIN q = {"op", "graph", "metas", "drop", "at", "alone", "clean", "before"}
    /\ q.graph \in Graphs /\ q.metas \in Catalogs /\ q.drop \subseteq AdminApps
    /\ q.at \in Nat /\ 1 <= q.at /\ q.at <= Len(q.metas) + 1
    /\ q.op = "list" => q.at = 1 /\ q.drop = {}
    /\ q.op = "delete" => q.at = 1 /\ q.drop \cap (config \cup Incoming(q.metas)) = {}
    /\ q.op = "save" => q.drop = {}
    /\ q.op = "imported" => q.drop = {} /\ q.at = Len(q.metas) + 1

\* What the import has made of the row of app a.
Row(q, a) ==
    /\ q.op = "list" \/ a \in config => catalog[a] = q.before[a]
    /\ q.op # "list" /\ a \notin config \cup Incoming(q.metas) \cup q.drop => catalog[a] = NoMeta
    /\ a \in Incoming(q.metas) /\ Good(q.metas, q.at - 1, a) = {} => catalog[a] = q.before[a]
    /\ a \notin config =>
          \A i \in Good(q.metas, q.at - 1, a) :
             (\A j \in Good(q.metas, q.at - 1, a) : j <= i) => catalog[a] = q.metas[i].meta

ImportInv(q) ==
    q.op \in Importing =>
       /\ ImportShape(q)
       /\ q.alone /\ q.clean =>
             /\ declNodes = ToSet(q.graph.nodes) /\ declEdges = ToSet(q.graph.edges)
             /\ \A a \in AdminApps : Row(q, a)

ReadInv(q) ==
    /\ q.op = "read" => SmallNodes(q.nodes)
    /\ q.op = "merged" =>
          \E N \in SUBSET AdminApps, E \in SUBSET Pairs : q.answer = MergeDeclared(q.topo, N, E)
    /\ q.op = "exported" => ValidDeclared(q.graph)

AdminInv ==
    /\ AdminTypeOK /\ DOMAIN req = Clients
    /\ SmallNodes(declNodes) /\ SmallEdges(declEdges)
    /\ \A c \in Clients : ImportInv(req[c]) /\ ReadInv(req[c])

LEMMA AdminInvInit == AdminInit => AdminInv
<1> SUFFICES ASSUME AdminInit PROVE AdminInv
  OBVIOUS
<1>1. DOMAIN req = Clients /\ \A c \in Clients : req[c].op = "idle"
  BY DEF AdminInit, Idle
<1>2. AdminTypeOK
  BY <1>1, GraphAdminAssumption DEF AdminInit, AdminTypeOK
<1>3. SmallNodes(declNodes) /\ SmallEdges(declEdges)
  BY FS_EmptySet, GraphAdminAssumption DEF AdminInit, SmallNodes, SmallEdges
<1>4. \A c \in Clients : ImportInv(req[c]) /\ ReadInv(req[c])
  BY <1>1 DEF ImportInv, ReadInv, Importing
<1> QED BY <1>1, <1>2, <1>3, <1>4 DEF AdminInv

\* What DeclareTopology and ImportDeclared put in the tables.
LEMMA ReplacedTables ==
    ASSUME NEW g \in Graphs, ValidDeclared(g)
    PROVE  SmallNodes(ToSet(g.nodes)) /\ SmallEdges(ToSet(g.edges))
<1>1. /\ g.nodes \in Seq(AdminApps \cup {Blank})
      /\ g.edges \in Seq((AdminApps \cup {Blank}) \X (AdminApps \cup {Blank}))
  BY GraphAdminAssumption
<1>2. Len(g.nodes) \in Nat /\ Len(g.edges) \in Nat
  BY <1>1
<1>3. IsFiniteSet(ToSet(g.nodes)) /\ Cardinality(ToSet(g.nodes)) <= MaxNodes
  BY <1>1, <1>2, InjectiveSize, FS_CardinalityType, GraphAdminAssumption DEF ValidDeclared
<1>4. IsFiniteSet(ToSet(g.edges)) /\ Cardinality(ToSet(g.edges)) <= MaxEdges
  BY <1>1, <1>2, InjectiveSize, FS_CardinalityType, GraphAdminAssumption DEF ValidDeclared
<1> QED BY <1>3, <1>4 DEF ValidDeclared, SmallNodes, SmallEdges

\* DeclaredGraph's answer passes ValidateDeclared again.
LEMMA ExportValid ==
    ASSUME NEW N, NEW E, SmallNodes(N), SmallEdges(E)
    PROVE  ValidDeclared([nodes |-> SetToSeq(N), edges |-> SetToSeq(E)])
BY SetToSeqExact DEF SmallNodes, SmallEdges, ValidDeclared

-----------------------------------------------------------------------------
(* The steps of the requests *)

\* What a step of c's request does to the others: nothing, or it is a write and
\* the imports under way are no longer alone.
Beside(c) ==
    \A d \in Clients \ {c} :
       \/ req'[d] = req[d] /\ (UNCHANGED adminTables \/ req[d].op \notin Importing)
       \/ req[d].op \in Importing /\ req'[d] = [req[d] EXCEPT !.alone = FALSE]

LEMMA DisturbBeside ==
    ASSUME AdminInv, NEW c \in Clients, NEW q, req' = Disturb(c, q)
    PROVE  DOMAIN req' = Clients /\ req'[c] = q /\ Beside(c)
BY DEF Disturb, Beside, Importing

LEMMA ExceptBeside ==
    ASSUME AdminInv, NEW c \in Clients, NEW q, req' = [req EXCEPT ![c] = q], UNCHANGED adminTables
    PROVE  DOMAIN req' = Clients /\ req'[c] = q /\ Beside(c)
BY DEF Beside, AdminInv

LEMMA BesideKept ==
    ASSUME AdminInv, NEW c \in Clients, Beside(c), UNCHANGED config, NEW d \in Clients \ {c}
    PROVE  ImportInv(req[d])' /\ ReadInv(req[d])' /\ req'[d].op = req[d].op
<1>1. ImportInv(req[d]) /\ ReadInv(req[d])
  BY DEF AdminInv
<1>2. CASE req'[d] = req[d] /\ UNCHANGED adminTables
  BY <1>1, <1>2 DEF ImportInv, ReadInv, ImportShape, Row, adminTables
<1>3. CASE req'[d] = req[d] /\ req[d].op \notin Importing
  BY <1>1, <1>3 DEF ImportInv, ReadInv
<1>4. CASE req[d].op \in Importing /\ req'[d] = [req[d] EXCEPT !.alone = FALSE]
  <2>1. ImportShape(req[d])
    BY <1>1, <1>4 DEF ImportInv
  <2>2. DOMAIN req[d] = {"op", "graph", "metas", "drop", "at", "alone", "clean", "before"}
    BY <2>1 DEF ImportShape
  <2>3. DOMAIN req'[d] = DOMAIN req[d]
    BY <1>4
  <2>4. /\ req'[d].alone = FALSE /\ req'[d].op = req[d].op /\ req'[d].graph = req[d].graph
        /\ req'[d].metas = req[d].metas /\ req'[d].drop = req[d].drop /\ req'[d].at = req[d].at
    BY <1>4, <2>2
  <2>5. ImportShape(req[d])'
    BY <2>1, <2>3, <2>4 DEF ImportShape
  <2>6. req'[d].op \notin {"read", "merged", "exported"}
    BY <1>4, <2>4 DEF Importing
  <2> QED BY <2>4, <2>5, <2>6 DEF ImportInv, ReadInv
<1> QED BY <1>2, <1>3, <1>4 DEF Beside

\* A step of c keeps the invariant if it keeps c's own part and the tables' types.
LEMMA StepKeeps ==
    ASSUME AdminInv, NEW c \in Clients, Beside(c), DOMAIN req' = Clients, UNCHANGED <<config, observed>>,
           ImportInv(req[c])', ReadInv(req[c])',
           req'[c].op \in {"idle", "list", "delete", "save", "imported", "read", "merged", "exported"},
           catalog' \in [AdminApps -> Metas \cup {NoMeta}], SmallNodes(declNodes'), SmallEdges(declEdges'),
           started' \in 0 .. MaxRequests, dbFailures' \in 0 .. MaxDbFailures
    PROVE  AdminInv'
<1>1. \A d \in Clients : ImportInv(req[d])' /\ ReadInv(req[d])'
  BY BesideKept
<1>2. \A d \in Clients :
         req'[d].op \in {"idle", "list", "delete", "save", "imported", "read", "merged", "exported"}
  BY BesideKept DEF AdminInv, AdminTypeOK
<1>3. AdminTypeOK'
  BY <1>2 DEF AdminInv, AdminTypeOK, SmallNodes, SmallEdges
<1> QED BY <1>1, <1>3 DEF AdminInv, SmallNodes, SmallEdges

\* What the guards of a request and of a statement say of the counters.
LEMMA Counters ==
    ASSUME AdminInv
    PROVE  /\ \A c : Begin(c) => started' \in 0 .. MaxRequests
           /\ Works \/ Fails => dbFailures' \in 0 .. MaxDbFailures
           /\ started \in 0 .. MaxRequests /\ dbFailures \in 0 .. MaxDbFailures
BY GraphAdminAssumption DEF AdminInv, AdminTypeOK, Begin, Works, Fails

LEMMA IdleInv ==
    ASSUME NEW q, q.op = "idle"
    PROVE  ImportInv(q) /\ ReadInv(q)
BY DEF ImportInv, ReadInv, Importing

LEMMA DeclareTopologyKeeps ==
    ASSUME AdminInv, NEW c \in Clients, NEW g \in Graphs, DeclareTopology(c, g)
    PROVE  AdminInv'
<1>1. /\ Begin(c) /\ Works /\ ValidDeclared(g) /\ req' = Disturb(c, Idle)
      /\ declNodes' = ToSet(g.nodes) /\ declEdges' = ToSet(g.edges)
      /\ UNCHANGED <<config, catalog, observed>>
  BY DEF DeclareTopology, ReplaceDeclared
<1>2. DOMAIN req' = Clients /\ req'[c] = Idle /\ Beside(c)
  BY <1>1, DisturbBeside
<1>3. req'[c].op = "idle"
  BY <1>2 DEF Idle
<1>4. ImportInv(req[c])' /\ ReadInv(req[c])'
  BY <1>3 DEF ImportInv, ReadInv, Importing
<1>5. SmallNodes(declNodes') /\ SmallEdges(declEdges') /\ catalog' \in [AdminApps -> Metas \cup {NoMeta}]
  BY <1>1, ReplacedTables DEF AdminInv, AdminTypeOK
<1> QED BY <1>1, <1>2, <1>3, <1>4, <1>5, Counters, StepKeeps

LEMMA CatalogEditKeeps ==
    ASSUME AdminInv, NEW c \in Clients, NEW a \in AdminApps, NEW m \in Metas \cup {NoMeta},
           Begin(c), Works, catalog' = [catalog EXCEPT ![a] = m], req' = Disturb(c, Idle),
           UNCHANGED <<config, declNodes, declEdges, observed>>
    PROVE  AdminInv'
<1>2. DOMAIN req' = Clients /\ req'[c] = Idle /\ Beside(c)
  BY DisturbBeside
<1>3. req'[c].op = "idle"
  BY <1>2 DEF Idle
<1>4. ImportInv(req[c])' /\ ReadInv(req[c])'
  BY <1>3 DEF ImportInv, ReadInv, Importing
<1>5. SmallNodes(declNodes') /\ SmallEdges(declEdges') /\ catalog' \in [AdminApps -> Metas \cup {NoMeta}]
  BY DEF AdminInv, AdminTypeOK
<1> QED BY <1>2, <1>3, <1>4, <1>5, Counters, StepKeeps

LEMMA ImportDeclaredKeeps ==
    ASSUME AdminInv, NEW c \in Clients, NEW g \in Graphs, NEW metas \in Catalogs,
           ImportDeclared(c, g, metas)
    PROVE  AdminInv'
<1> DEFINE q == [op |-> "list", graph |-> g, metas |-> metas, drop |-> {}, at |-> 1,
                 alone |-> TRUE, clean |-> TRUE, before |-> catalog]
<1>1. /\ Begin(c) /\ Works /\ ValidDeclared(g) /\ req' = Disturb(c, q)
      /\ declNodes' = ToSet(g.nodes) /\ declEdges' = ToSet(g.edges)
      /\ UNCHANGED <<config, catalog, observed>>
  BY DEF ImportDeclared, ReplaceDeclared
<1>2. DOMAIN req' = Clients /\ req'[c] = q /\ Beside(c)
  <2> HIDE DEF q
  <2> QED BY <1>1, DisturbBeside
<1>3. /\ q.op = "list" /\ q.graph = g /\ q.metas = metas /\ q.drop = {} /\ q.at = 1
      /\ q.before = catalog
      /\ DOMAIN q = {"op", "graph", "metas", "drop", "at", "alone", "clean", "before"}
  OBVIOUS
<1>4. ImportInv(req[c])' /\ ReadInv(req[c])'
  <2> HIDE DEF q
  <2>1. Len(metas) \in Nat
    BY GraphAdminAssumption
  <2>2. ImportShape(req[c])'
    BY <1>2, <1>3, <2>1 DEF ImportShape
  <2>3. \A a \in AdminApps : Row(req[c], a)'
    <3>1. \A a : Good(metas, 1 - 1, a) = {}
      BY DEF Good
    <3> QED BY <1>1, <1>2, <1>3, <3>1 DEF Row
  <2> QED BY <1>1, <1>2, <1>3, <2>2, <2>3 DEF ImportInv, ReadInv
<1>5. SmallNodes(declNodes') /\ SmallEdges(declEdges') /\ catalog' \in [AdminApps -> Metas \cup {NoMeta}]
  BY <1>1, ReplacedTables DEF AdminInv, AdminTypeOK
<1>6. req'[c].op = "list"
  BY <1>2, <1>3
<1> HIDE DEF q
<1> QED BY <1>1, <1>2, <1>4, <1>5, <1>6, Counters, StepKeeps

\* The parts of an import that its own steps read.
LEMMA ImportParts ==
    ASSUME AdminInv, NEW c \in Clients, req[c].op \in Importing
    PROVE  /\ ImportShape(req[c])
           /\ DOMAIN req[c] = {"op", "graph", "metas", "drop", "at", "alone", "clean", "before"}
           /\ Len(req[c].metas) \in Nat /\ req[c].at \in Nat
           /\ req[c].alone /\ req[c].clean =>
                 /\ declNodes = ToSet(req[c].graph.nodes) /\ declEdges = ToSet(req[c].graph.edges)
                 /\ \A a \in AdminApps : Row(req[c], a)
<1>1. ImportInv(req[c])
  BY DEF AdminInv
<1>2. ImportShape(req[c])
  BY <1>1 DEF ImportInv
<1>3. req[c].metas \in Catalogs
  BY <1>2 DEF ImportShape
<1> QED BY <1>1, <1>2, <1>3, GraphAdminAssumption DEF ImportInv, ImportShape

LEMMA ImportListKeeps ==
    ASSUME AdminInv, NEW c \in Clients, ImportList(c)
    PROVE  AdminInv'
<1> DEFINE q == req[c]  p == req'[c]
           listed == ListedApps \ (config \cup Incoming(q.metas))
<1>1. q.op = "list" /\ q.op \in Importing /\ DOMAIN req = Clients
      /\ UNCHANGED <<config, catalog, declNodes, declEdges, observed, started>>
  BY DEF ImportList, Importing, adminTables, AdminInv
<1>2. /\ ImportShape(q) /\ Len(q.metas) \in Nat
      /\ DOMAIN q = {"op", "graph", "metas", "drop", "at", "alone", "clean", "before"}
  BY <1>1, ImportParts
<1>3. DOMAIN req' = Clients /\ Beside(c)
  BY <1>1 DEF ImportList, Beside, adminTables
<1>4. /\ p.op = "delete" /\ p.graph = q.graph /\ p.metas = q.metas /\ p.at = q.at
      /\ p.alone = q.alone /\ p.before = q.before
      /\ DOMAIN p = {"op", "graph", "metas", "drop", "at", "alone", "clean", "before"}
  BY <1>1, <1>2 DEF ImportList
<1>5. /\ p.drop \in {q.drop, listed}
      /\ (p.clean = q.clean /\ p.drop = listed) \/ p.clean = FALSE
  BY <1>1, <1>2 DEF ImportList
<1>6. q.at = 1 /\ q.drop = {} /\ q.graph \in Graphs /\ q.metas \in Catalogs
  BY <1>1, <1>2 DEF ImportShape
<1>7. listed \subseteq AdminApps /\ listed \cap (config \cup Incoming(q.metas)) = {}
  BY DEF ListedApps, AdminInv, AdminTypeOK
<1>8. ImportShape(req[c])'
  <2>1. p.drop \subseteq AdminApps /\ p.drop \cap (config \cup Incoming(q.metas)) = {}
    BY <1>5, <1>6, <1>7
  <2> HIDE DEF listed
  <2> QED BY <1>1, <1>2, <1>4, <1>6, <2>1 DEF ImportShape
<1>9. ASSUME p.alone, p.clean, NEW a \in AdminApps PROVE Row(req[c], a)'
  <2>1. q.alone /\ q.clean /\ p.drop = listed
    BY <1>4, <1>5, <1>9
  <2>2. Row(q, a)
    BY <1>1, <2>1, ImportParts
  <2>3. catalog[a] = q.before[a]
    BY <1>1, <2>2 DEF Row
  <2>4. a \notin config \cup Incoming(q.metas) \cup listed => catalog[a] = NoMeta
    BY DEF ListedApps
  <2>5. Good(q.metas, q.at - 1, a) = {}
    BY <1>6 DEF Good
  <2> HIDE DEF listed
  <2> QED BY <1>1, <1>4, <2>1, <2>3, <2>4, <2>5 DEF Row
<1>10. p.alone /\ p.clean => q.alone /\ q.clean
  BY <1>4, <1>5
<1>11. ImportInv(req[c])' /\ ReadInv(req[c])'
  <2> HIDE DEF p, q, listed
  <2>1. p.alone /\ p.clean => declNodes' = ToSet(p.graph.nodes) /\ declEdges' = ToSet(p.graph.edges)
    BY <1>1, <1>4, <1>10, ImportParts DEF q
  <2> QED BY <1>4, <1>8, <1>9, <2>1 DEF ImportInv, ReadInv, p
<1>12. Works \/ Fails
  BY DEF ImportList
<1>13. SmallNodes(declNodes') /\ SmallEdges(declEdges') /\ catalog' \in [AdminApps -> Metas \cup {NoMeta}]
  BY <1>1 DEF AdminInv, AdminTypeOK
<1>14. req'[c].op = "delete"
  BY <1>4
<1> HIDE DEF p, q, listed
<1> QED BY <1>1, <1>3, <1>11, <1>12, <1>13, <1>14, Counters, StepKeeps

LEMMA ImportDeleteKeeps ==
    ASSUME AdminInv, NEW c \in Clients, ImportDelete(c)
    PROVE  AdminInv'
<1> DEFINE q == req[c]  p == req'[c]
<1>1. q.op = "delete" /\ q.op \in Importing /\ DOMAIN req = Clients
      /\ UNCHANGED <<config, declNodes, declEdges, observed, started>>
  BY DEF ImportDelete, Importing, AdminInv
<1>2. /\ ImportShape(q) /\ Len(q.metas) \in Nat
      /\ DOMAIN q = {"op", "graph", "metas", "drop", "at", "alone", "clean", "before"}
  BY <1>1, ImportParts
<1>3. /\ q.at = 1 /\ q.drop \subseteq AdminApps /\ q.graph \in Graphs /\ q.metas \in Catalogs
      /\ q.drop \cap (config \cup Incoming(q.metas)) = {}
  BY <1>1, <1>2 DEF ImportShape
<1>4. PICK a \in q.drop :
         LET rest == [q EXCEPT !.drop = q.drop \ {a}] IN
         \/ /\ catalog' = [catalog EXCEPT ![a] = NoMeta] /\ Works
            /\ req' = Disturb(c, rest)
         \/ /\ Fails /\ req' = [req EXCEPT ![c] = [rest EXCEPT !.clean = FALSE]]
            /\ UNCHANGED catalog
  BY DEF ImportDelete
<1> DEFINE rest == [q EXCEPT !.drop = q.drop \ {a}]
           spoiled == [rest EXCEPT !.clean = FALSE]
<1>5. /\ DOMAIN req' = Clients /\ Beside(c)
      /\ \/ catalog' = [catalog EXCEPT ![a] = NoMeta] /\ Works /\ p = rest
         \/ catalog' = catalog /\ Fails /\ p = spoiled
  <2> HIDE DEF rest, spoiled
  <2>1. CASE catalog' = [catalog EXCEPT ![a] = NoMeta] /\ Works /\ req' = Disturb(c, rest)
    BY <2>1, DisturbBeside
  <2>2. CASE Fails /\ req' = [req EXCEPT ![c] = spoiled] /\ UNCHANGED catalog
    BY <1>1, <2>2, ExceptBeside DEF adminTables
  <2> QED BY <1>4, <2>1, <2>2 DEF rest, spoiled
<1>6. /\ p.op = "delete" /\ p.graph = q.graph /\ p.metas = q.metas /\ p.at = q.at
      /\ p.alone = q.alone /\ p.before = q.before /\ p.drop = q.drop \ {a}
      /\ DOMAIN p = {"op", "graph", "metas", "drop", "at", "alone", "clean", "before"}
  BY <1>1, <1>2, <1>5
<1>7. \/ catalog' = [catalog EXCEPT ![a] = NoMeta] /\ p.clean = q.clean
      \/ p.clean = FALSE
  BY <1>2, <1>5
<1>8. catalog \in [AdminApps -> Metas \cup {NoMeta}] /\ catalog' \in [AdminApps -> Metas \cup {NoMeta}]
  <2>1. catalog \in [AdminApps -> Metas \cup {NoMeta}]
    BY DEF AdminInv, AdminTypeOK
  <2> HIDE DEF rest, spoiled
  <2> QED BY <1>5, <2>1
<1>9. Works \/ Fails
  BY <1>5
<1> HIDE DEF rest, spoiled, p, q
<1>10. ImportShape(req[c])'
  BY <1>1, <1>2, <1>3, <1>6 DEF ImportShape, p
<1>11. p.alone /\ p.clean => q.alone /\ q.clean /\ catalog' = [catalog EXCEPT ![a] = NoMeta]
  BY <1>6, <1>7
<1>12. ASSUME p.alone, p.clean, NEW b \in AdminApps PROVE Row(req[c], b)'
  <2>1. Row(q, b)
    BY <1>1, <1>11, <1>12, ImportParts DEF q
  <2>2. catalog'[b] = IF b = a THEN NoMeta ELSE catalog[b]
    BY <1>8, <1>11, <1>12
  <2>3. a \notin config \cup Incoming(q.metas)
    BY <1>3
  <2>4. Good(q.metas, q.at - 1, b) = {}
    BY <1>3 DEF Good
  <2> QED BY <1>1, <1>6, <2>1, <2>2, <2>3, <2>4 DEF Row, p
<1>13. ImportInv(req[c])' /\ ReadInv(req[c])'
  <2>1. p.alone /\ p.clean => declNodes' = ToSet(p.graph.nodes) /\ declEdges' = ToSet(p.graph.edges)
    BY <1>1, <1>6, <1>11, ImportParts DEF q
  <2> QED BY <1>6, <1>10, <1>12, <2>1 DEF ImportInv, ReadInv, p
<1>14. SmallNodes(declNodes') /\ SmallEdges(declEdges')
  BY <1>1 DEF AdminInv
<1> QED BY <1>1, <1>5, <1>6, <1>8, <1>9, <1>13, <1>14, Counters, StepKeeps DEF p

\* The two steps that only turn to the next phase.
LEMMA ImportTurnsKeeps ==
    ASSUME AdminInv, NEW c \in Clients, ImportDeleted(c) \/ Imported(c)
    PROVE  AdminInv'
<1> DEFINE q == req[c]  p == req'[c]
<1>1. /\ q.op \in Importing /\ DOMAIN req = Clients
      /\ \/ q.op = "delete" /\ q.drop = {} /\ req' = [req EXCEPT ![c].op = "save"]
         \/ q.op = "save" /\ q.at > Len(q.metas) /\ req' = [req EXCEPT ![c].op = "imported"]
      /\ UNCHANGED <<config, catalog, declNodes, declEdges, observed, started, dbFailures>>
  BY DEF ImportDeleted, Imported, Importing, AdminInv, adminTables
<1>2. /\ ImportShape(q) /\ Len(q.metas) \in Nat /\ q.at \in Nat
      /\ DOMAIN q = {"op", "graph", "metas", "drop", "at", "alone", "clean", "before"}
  BY <1>1, ImportParts
<1>3. DOMAIN req' = Clients /\ Beside(c)
  BY <1>1 DEF Beside, adminTables
<1>4. /\ p.graph = q.graph /\ p.metas = q.metas /\ p.at = q.at /\ p.drop = q.drop
      /\ p.alone = q.alone /\ p.before = q.before /\ p.clean = q.clean
      /\ DOMAIN p = {"op", "graph", "metas", "drop", "at", "alone", "clean", "before"}
  BY <1>1, <1>2
<1>5. \/ q.op = "delete" /\ q.drop = {} /\ p.op = "save"
      \/ q.op = "save" /\ q.at > Len(q.metas) /\ p.op = "imported"
  BY <1>1, <1>2
<1>6. ImportShape(req[c])'
  BY <1>1, <1>2, <1>4, <1>5 DEF ImportShape
<1>7. p.alone /\ p.clean => q.alone /\ q.clean
  BY <1>4
<1> HIDE DEF p, q
<1>8. ASSUME p.alone, p.clean, NEW b \in AdminApps PROVE Row(req[c], b)'
  <2>1. Row(q, b)
    BY <1>1, <1>7, <1>8, ImportParts DEF q
  <2> QED BY <1>1, <1>4, <1>5, <2>1 DEF Row, p
<1>9. ImportInv(req[c])' /\ ReadInv(req[c])'
  <2>1. p.alone /\ p.clean => declNodes' = ToSet(p.graph.nodes) /\ declEdges' = ToSet(p.graph.edges)
    BY <1>1, <1>4, <1>7, ImportParts DEF q
  <2> QED BY <1>5, <1>6, <1>8, <2>1 DEF ImportInv, ReadInv, p
<1>10. SmallNodes(declNodes') /\ SmallEdges(declEdges') /\ catalog' \in [AdminApps -> Metas \cup {NoMeta}]
  BY <1>1 DEF AdminInv, AdminTypeOK
<1>11. started' \in 0 .. MaxRequests /\ dbFailures' \in 0 .. MaxDbFailures
  BY <1>1, Counters
<1> QED BY <1>1, <1>3, <1>5, <1>9, <1>10, <1>11, StepKeeps DEF p

\* The entry at place n joins the ones that were written, if it is accepted.
LEMMA GoodNext ==
    ASSUME NEW metas \in Catalogs, NEW n \in Nat, 1 <= n, NEW a
    PROVE  Good(metas, n, a) = Good(metas, n - 1, a) \cup
              (IF metas[n].app = a /\ ValidMeta(metas[n]) THEN {n} ELSE {})
BY DEF Good

LEMMA ImportSaveKeeps ==
    ASSUME AdminInv, NEW c \in Clients, ImportSave(c)
    PROVE  AdminInv'
<1> DEFINE q == req[c]  p == req'[c]  n == q.at  m == q.metas[n]
           rest == [q EXCEPT !.at = q.at + 1]
           spoiled == [rest EXCEPT !.clean = FALSE]
<1>1. q.op = "save" /\ q.op \in Importing /\ DOMAIN req = Clients /\ n <= Len(q.metas)
      /\ UNCHANGED <<config, declNodes, declEdges, observed, started>>
  BY DEF ImportSave, Importing, AdminInv
<1>2. /\ ImportShape(q) /\ Len(q.metas) \in Nat /\ n \in Nat
      /\ DOMAIN q = {"op", "graph", "metas", "drop", "at", "alone", "clean", "before"}
  BY <1>1, ImportParts
<1>3. 1 <= n /\ q.drop = {} /\ q.graph \in Graphs /\ q.metas \in Catalogs
  BY <1>1, <1>2 DEF ImportShape
<1>4. \/ /\ ValidMeta(m) /\ m.app \notin config
         /\ catalog' = [catalog EXCEPT ![m.app] = m.meta] /\ Works /\ req' = Disturb(c, rest)
      \/ /\ ~ValidMeta(m) \/ m.app \in config
         /\ req' = [req EXCEPT ![c] = rest] /\ Works /\ UNCHANGED catalog
      \/ Fails /\ req' = [req EXCEPT ![c] = spoiled] /\ UNCHANGED catalog
  BY DEF ImportSave
<1>5. /\ DOMAIN req' = Clients /\ Beside(c) /\ (Works \/ Fails)
      /\ \/ /\ ValidMeta(m) /\ m.app \notin config
            /\ catalog' = [catalog EXCEPT ![m.app] = m.meta] /\ p = rest
         \/ (~ValidMeta(m) \/ m.app \in config) /\ catalog' = catalog /\ p = rest
         \/ catalog' = catalog /\ p = spoiled
  <2> HIDE DEF rest, spoiled, m
  <2>1. CASE /\ ValidMeta(m) /\ m.app \notin config
             /\ catalog' = [catalog EXCEPT ![m.app] = m.meta] /\ Works /\ req' = Disturb(c, rest)
    BY <2>1, DisturbBeside
  <2>2. CASE /\ ~ValidMeta(m) \/ m.app \in config
             /\ req' = [req EXCEPT ![c] = rest] /\ Works /\ UNCHANGED catalog
    BY <1>1, <2>2, ExceptBeside DEF adminTables
  <2>3. CASE Fails /\ req' = [req EXCEPT ![c] = spoiled] /\ UNCHANGED catalog
    BY <1>1, <2>3, ExceptBeside DEF adminTables
  <2> QED BY <1>4, <2>1, <2>2, <2>3
<1>6. /\ p.op = "save" /\ p.graph = q.graph /\ p.metas = q.metas /\ p.at = n + 1
      /\ p.alone = q.alone /\ p.before = q.before /\ p.drop = q.drop
      /\ DOMAIN p = {"op", "graph", "metas", "drop", "at", "alone", "clean", "before"}
  BY <1>1, <1>2, <1>5
<1>7. \/ /\ ValidMeta(m) /\ m.app \notin config
         /\ catalog' = [catalog EXCEPT ![m.app] = m.meta] /\ p.clean = q.clean
      \/ (~ValidMeta(m) \/ m.app \in config) /\ catalog' = catalog /\ p.clean = q.clean
      \/ p.clean = FALSE
  BY <1>2, <1>5
<1>8. catalog \in [AdminApps -> Metas \cup {NoMeta}] /\ catalog' \in [AdminApps -> Metas \cup {NoMeta}]
  <2>1. catalog \in [AdminApps -> Metas \cup {NoMeta}]
    BY DEF AdminInv, AdminTypeOK
  <2> HIDE DEF rest, spoiled, m
  <2> QED BY <1>5, <2>1 DEF ValidMeta
<1> HIDE DEF rest, spoiled, p, q, m
<1>9. ImportShape(req[c])'
  BY <1>1, <1>2, <1>3, <1>6 DEF ImportShape, p
<1>10. p.alone /\ p.clean =>
          /\ q.alone /\ q.clean
          /\ \/ ValidMeta(m) /\ m.app \notin config /\ catalog' = [catalog EXCEPT ![m.app] = m.meta]
             \/ (~ValidMeta(m) \/ m.app \in config) /\ catalog' = catalog
  BY <1>6, <1>7
<1>11. m.app \in Incoming(q.metas)
  <2>1. n \in DOMAIN q.metas
    BY <1>1, <1>2, <1>3, GraphAdminAssumption
  <2> QED BY <2>1 DEF Incoming, ToSet, m
<1>12. ASSUME p.alone, p.clean, NEW b \in AdminApps PROVE Row(req[c], b)'
  <2>1. Row(q, b)
    BY <1>1, <1>10, <1>12, ImportParts DEF q
  <2>2. Good(q.metas, n, b) = Good(q.metas, n - 1, b) \cup (IF m.app = b /\ ValidMeta(m) THEN {n} ELSE {})
    BY <1>2, <1>3, GoodNext DEF m
  <2>3. \A i \in Good(q.metas, n - 1, b) : i \in Int /\ i < n
    BY <1>2 DEF Good
  <2>4. (n + 1) - 1 = n /\ n \in Int
    BY <1>2
  <2>5. CASE b # m.app \/ ~ValidMeta(m)
    <3>1. catalog'[b] = catalog[b] /\ Good(q.metas, n, b) = Good(q.metas, n - 1, b)
      BY <1>8, <1>10, <1>12, <2>2, <2>5 DEF ValidMeta
    <3> QED BY <1>1, <1>6, <2>1, <2>4, <3>1, SMTT(60) DEF Row, p
  <2>6. CASE b = m.app /\ ValidMeta(m) /\ b \in config
    <3>1. catalog'[b] = catalog[b] /\ catalog[b] = q.before[b]
      BY <1>10, <1>12, <2>1, <2>6 DEF Row
    <3>2. b \in config' /\ p.before[b] = q.before[b]
      BY <1>1, <1>6, <2>6
    <3> QED BY <3>1, <3>2 DEF Row, p
  <2>7. CASE b = m.app /\ ValidMeta(m) /\ b \notin config
    <3>1. catalog'[b] = m.meta
      BY <1>8, <1>10, <1>12, <2>7
    <3>2. n \in Good(q.metas, n, b) /\ \A i \in Good(q.metas, n, b) : i <= n /\ i \in Int
      BY <2>2, <2>3, <2>4, <2>7
    <3>3. \A i \in Good(q.metas, n, b) : (\A j \in Good(q.metas, n, b) : j <= i) => i = n
      BY <2>4, <3>2
    <3>4. p.op # "list" /\ p.metas = q.metas /\ p.at - 1 = n /\ b \in Incoming(q.metas)
      BY <1>6, <1>11, <2>4, <2>7
    <3> QED BY <1>1, <2>7, <3>1, <3>2, <3>3, <3>4 DEF Row, p, m
  <2> QED BY <2>5, <2>6, <2>7
<1>13. ImportInv(req[c])' /\ ReadInv(req[c])'
  <2>1. p.alone /\ p.clean => declNodes' = ToSet(p.graph.nodes) /\ declEdges' = ToSet(p.graph.edges)
    BY <1>1, <1>6, <1>10, ImportParts DEF q
  <2> QED BY <1>6, <1>9, <1>12, <2>1 DEF ImportInv, ReadInv, p
<1>14. SmallNodes(declNodes') /\ SmallEdges(declEdges')
  BY <1>1 DEF AdminInv
<1> QED BY <1>1, <1>5, <1>6, <1>8, <1>13, <1>14, Counters, StepKeeps DEF p

\* A step that writes nothing and leaves c's request outside an import.
LEMMA ReadStepKeeps ==
    ASSUME AdminInv, NEW c \in Clients, NEW q, req' = [req EXCEPT ![c] = q],
           q.op \in {"idle", "read", "merged", "exported"}, ReadInv(q),
           UNCHANGED <<config, adminTables, observed>>,
           started' \in 0 .. MaxRequests, dbFailures' \in 0 .. MaxDbFailures
    PROVE  AdminInv'
<1>1. DOMAIN req' = Clients /\ req'[c] = q /\ Beside(c)
  BY ExceptBeside
<1>2. ImportInv(req[c])' /\ ReadInv(req[c])'
  BY <1>1 DEF ImportInv, ReadInv, Importing
<1>3. SmallNodes(declNodes') /\ SmallEdges(declEdges') /\ catalog' \in [AdminApps -> Metas \cup {NoMeta}]
  BY DEF AdminInv, AdminTypeOK, adminTables
<1> QED BY <1>1, <1>2, <1>3, StepKeeps

LEMMA ReadsKeep ==
    ASSUME AdminInv, NEW c \in Clients,
           (\E for \in {"topology", "project"} : ReadNodes(c, for)) \/ ReadEdges(c)
              \/ ReadFails(c) \/ Answered(c)
    PROVE  AdminInv'
<1>1. CASE \E for \in {"topology", "project"} : ReadNodes(c, for)
  <2>1. PICK for \in {"topology", "project"} : ReadNodes(c, for)
    BY <1>1
  <2> DEFINE q == [op |-> "read", for |-> for, topo |-> observed, nodes |-> declNodes]
  <2>2. req' = [req EXCEPT ![c] = q] /\ UNCHANGED <<config, adminTables, observed, dbFailures>> /\ Begin(c)
    BY <2>1 DEF ReadNodes
  <2>3. q.op = "read" /\ ReadInv(q)
    BY DEF ReadInv, AdminInv
  <2> HIDE DEF q
  <2> QED BY <2>2, <2>3, Counters, ReadStepKeeps
<1>2. CASE ReadEdges(c)
  <2>1. req[c].op = "read" /\ SmallNodes(req[c].nodes) /\ SmallEdges(declEdges)
    BY <1>2 DEF ReadEdges, AdminInv, ReadInv
  <2>2. UNCHANGED <<config, adminTables, observed, started, dbFailures>>
    BY <1>2 DEF ReadEdges
  <2> DEFINE merged == [op |-> "merged", topo |-> req[c].topo,
                        answer |-> MergeDeclared(req[c].topo, req[c].nodes, declEdges)]
             graph == [nodes |-> SetToSeq(req[c].nodes), edges |-> SetToSeq(declEdges)]
             exported == [op |-> "exported", graph |-> graph]
  <2>3. req' = [req EXCEPT ![c] = merged] \/ req' = [req EXCEPT ![c] = exported]
    BY <1>2 DEF ReadEdges
  <2>4. merged.op = "merged" /\ ReadInv(merged)
    BY <2>1 DEF ReadInv, SmallNodes, SmallEdges
  <2>5. exported.op = "exported" /\ ReadInv(exported)
    <3>1. ValidDeclared(graph)
      BY <2>1, ExportValid
    <3>2. exported.op = "exported" /\ exported.graph = graph
      OBVIOUS
    <3> HIDE DEF exported, graph
    <3> QED BY <3>1, <3>2 DEF ReadInv
  <2> HIDE DEF merged, exported
  <2> QED BY <2>2, <2>3, <2>4, <2>5, Counters, ReadStepKeeps
<1>3. CASE ReadFails(c)
  <2>1. Fails /\ UNCHANGED <<config, adminTables, observed, started>>
    BY <1>3 DEF ReadFails
  <2> DEFINE merged == [op |-> "merged", topo |-> req[c].topo,
                        answer |-> MergeDeclared(req[c].topo, {}, {})]
  <2>2. req' = [req EXCEPT ![c] = merged] \/ req' = [req EXCEPT ![c] = Idle]
    BY <1>3 DEF ReadFails
  <2>3. merged.op = "merged" /\ ReadInv(merged)
    BY DEF ReadInv
  <2>4. Idle.op = "idle" /\ ReadInv(Idle)
    BY DEF ReadInv, Idle
  <2> HIDE DEF merged
  <2> QED BY <2>1, <2>2, <2>3, <2>4, Counters, ReadStepKeeps
<1>4. CASE Answered(c)
  <2>1. req' = [req EXCEPT ![c] = Idle] /\ UNCHANGED <<config, adminTables, observed, started, dbFailures>>
    BY <1>4 DEF Answered
  <2>2. Idle.op = "idle" /\ ReadInv(Idle)
    BY DEF ReadInv, Idle
  <2> QED BY <2>1, <2>2, Counters, ReadStepKeeps
<1> QED BY <1>1, <1>2, <1>3, <1>4

LEMMA RestartKeeps ==
    ASSUME AdminInv, NEW newConfig \in Configs, RestartAdmin(newConfig)
    PROVE  AdminInv'
<1>1. /\ started' \in 0 .. MaxRequests /\ config' \subseteq AdminApps
      /\ UNCHANGED <<catalog, declNodes, declEdges, observed, dbFailures>>
  BY GraphAdminAssumption DEF RestartAdmin, adminTables, AdminInv, AdminTypeOK
<1>2. DOMAIN req' = Clients /\ \A c \in Clients : req'[c].op = "idle"
  BY DEF RestartAdmin, Idle
<1>3. \A c \in Clients : ImportInv(req[c])' /\ ReadInv(req[c])'
  BY <1>2 DEF ImportInv, ReadInv, Importing
<1>4. AdminTypeOK'
  BY <1>1, <1>2 DEF AdminInv, AdminTypeOK
<1> QED BY <1>1, <1>2, <1>3, <1>4 DEF AdminInv, SmallNodes, SmallEdges

-----------------------------------------------------------------------------
(* The theorems about the declared graph and the catalog *)

THEOREM AdminInvariance == AdminSafety => []AdminInv
<1>1. ASSUME AdminInv, [AdminNext]_adminVars PROVE AdminInv'
  <2>1. CASE UNCHANGED adminVars
    BY <1>1, <2>1 DEF adminVars, AdminInv, AdminTypeOK, SmallNodes, SmallEdges, ImportInv, ImportShape,
       Row, ReadInv
  <2>2. ASSUME NEW c \in Clients, NEW g \in Graphs,
               DeclareTopology(c, g) \/ \E metas \in Catalogs : ImportDeclared(c, g, metas)
        PROVE  AdminInv'
    BY <1>1, <2>2, DeclareTopologyKeeps, ImportDeclaredKeeps
  <2>3. ASSUME NEW c \in Clients, NEW a \in AdminApps,
               DeleteMeta(c, a) \/ \E m \in Metas : PutMeta(c, a, m)
        PROVE  AdminInv'
    BY <1>1, <2>3, CatalogEditKeeps DEF DeleteMeta, PutMeta
  <2>4. ASSUME NEW c \in Clients,
               ImportList(c) \/ ImportDelete(c) \/ ImportDeleted(c) \/ ImportSave(c) \/ Imported(c)
        PROVE  AdminInv'
    BY <1>1, <2>4, ImportListKeeps, ImportDeleteKeeps, ImportTurnsKeeps, ImportSaveKeeps
  <2>5. CASE AdminNext
    BY <1>1, <2>2, <2>3, <2>4, <2>5, ReadsKeep, RestartKeeps DEF AdminNext
  <2> QED BY <1>1, <2>1, <2>5
<1> QED BY <1>1, AdminInvInit, PTL DEF AdminSafety

\* Every reachable state of the declared graph's tables, the catalog and the
\* requests under way has its type.
THEOREM AdminTypeCorrect == AdminSafety => []AdminTypeOK
<1>1. AdminInv => AdminTypeOK
  BY DEF AdminInv
<1> QED BY <1>1, AdminInvariance, PTL

\* An import that met no failed statement and no other writer has replaced the
\* declared graph and the runtime catalog of importProject's request, and the
\* rows of config-defined apps are as before.
THEOREM ImportReplacesHolds == AdminSafety => []ImportReplaces
<1>1. ASSUME AdminInv PROVE ImportReplaces
  <2> SUFFICES ASSUME NEW c \in Clients, req[c].op = "imported", req[c].alone, req[c].clean
               PROVE
          LET metas == req[c].metas
              good(a) == {i \in DOMAIN metas : metas[i].app = a /\ ValidMeta(metas[i])}
          IN /\ declNodes = ToSet(req[c].graph.nodes) /\ declEdges = ToSet(req[c].graph.edges)
             /\ \A a \in AdminApps :
                   \/ a \in config /\ catalog[a] = req[c].before[a]
                   \/ a \notin config /\ good(a) # {}
                        /\ \E i \in good(a) : /\ \A j \in good(a) : j <= i
                                              /\ catalog[a] = metas[i].meta
                   \/ a \notin config /\ good(a) = {} /\ a \in Incoming(metas)
                        /\ catalog[a] = req[c].before[a]
                   \/ a \notin config \cup Incoming(metas) /\ catalog[a] = NoMeta
    BY DEF ImportReplaces
  <2> DEFINE q == req[c]  metas == q.metas
             good(a) == {i \in DOMAIN metas : metas[i].app = a /\ ValidMeta(metas[i])}
  <2>1. q.op \in Importing /\ DOMAIN metas = 1 .. Len(metas) /\ Len(metas) \in Nat
    <3>1. q.op \in Importing
      BY DEF Importing
    <3>2. metas \in Catalogs
      BY <1>1, <3>1, ImportParts DEF ImportShape
    <3> QED BY <3>1, <3>2, GraphAdminAssumption
  <2>2. /\ ImportShape(q) /\ declNodes = ToSet(q.graph.nodes) /\ declEdges = ToSet(q.graph.edges)
        /\ \A a \in AdminApps : Row(q, a)
    BY <1>1, <2>1, ImportParts
  <2>3. q.drop = {} /\ q.at - 1 = Len(metas)
    BY <2>1, <2>2 DEF ImportShape
  <2>4. ASSUME NEW a \in AdminApps
        PROVE  \/ a \in config /\ catalog[a] = q.before[a]
               \/ a \notin config /\ good(a) # {}
                    /\ \E i \in good(a) : /\ \A j \in good(a) : j <= i
                                          /\ catalog[a] = metas[i].meta
               \/ a \notin config /\ good(a) = {} /\ a \in Incoming(metas)
                    /\ catalog[a] = q.before[a]
               \/ a \notin config \cup Incoming(metas) /\ catalog[a] = NoMeta
    <3>1. good(a) = Good(metas, q.at - 1, a)
      BY <2>1, <2>3 DEF Good
    <3>2. Row(q, a)
      BY <2>2
    <3> DEFINE G == Good(metas, q.at - 1, a)
    <3>3. CASE a \in config
      BY <3>2, <3>3 DEF Row
    <3>4. CASE a \notin config /\ G # {}
      <4>1. G \in SUBSET (1 .. Len(metas))
        BY <2>3 DEF Good
      <4>2. PICK i \in G : \A j \in G : j <= i
        <5> HIDE DEF G
        <5> QED BY <2>1, <3>4, <4>1, GreatestElement
      <4>3. catalog[a] = metas[i].meta
        BY <3>2, <3>4, <4>2 DEF Row
      <4> QED BY <3>1, <3>4, <4>2, <4>3
    <3>5. CASE a \notin config /\ G = {} /\ a \in Incoming(metas)
      <4>1. catalog[a] = q.before[a]
        BY <3>2, <3>5 DEF Row
      <4> QED BY <3>1, <3>5, <4>1
    <3>6. CASE a \notin config /\ a \notin Incoming(metas)
      <4>1. catalog[a] = NoMeta
        BY <2>3, <3>2, <3>6 DEF Row
      <4> QED BY <3>6, <4>1
    <3> QED BY <3>3, <3>4, <3>5, <3>6
  <2> QED BY <2>2, <2>4
<1> QED BY <1>1, AdminInvariance, PTL

\* Whatever writes fall between the queries of a read: the merged topology shows
\* every declared edge with both its ends and keeps what was observed, and an
\* exported project passes ValidateDeclared.
THEOREM AnswersCoherentHolds == AdminSafety => []AnswersCoherent
<1>1. ASSUME AdminInv PROVE AnswersCoherent
  <2> SUFFICES ASSUME NEW c \in Clients
               PROVE  /\ req[c].op = "merged" =>
                            LET t == req[c].answer IN
                            /\ t.edges \ req[c].topo.edges \subseteq MermaidLinks(t)
                            /\ req[c].topo.nodes \subseteq t.nodes \ t.declaredOnlyNodes
                            /\ t.nodes \ req[c].topo.nodes = t.declaredOnlyNodes
                            /\ req[c].topo.edges \subseteq t.edges
                      /\ req[c].op = "exported" => ValidDeclared(req[c].graph)
    BY DEF AnswersCoherent
  <2>1. ReadInv(req[c])
    BY <1>1 DEF AdminInv
  <2>2. ASSUME req[c].op = "merged"
        PROVE  LET t == req[c].answer IN
               /\ t.edges \ req[c].topo.edges \subseteq MermaidLinks(t)
               /\ req[c].topo.nodes \subseteq t.nodes \ t.declaredOnlyNodes
               /\ t.nodes \ req[c].topo.nodes = t.declaredOnlyNodes
               /\ req[c].topo.edges \subseteq t.edges
    <3>1. PICK N \in SUBSET AdminApps, E \in SUBSET Pairs :
             req[c].answer = MergeDeclared(req[c].topo, N, E)
      BY <2>1, <2>2 DEF ReadInv
    <3> DEFINE topo == req[c].topo  t == req[c].answer  new == E \ topo.edges
               ends == UNION {{e[1], e[2]} : e \in new}
    <3>2. /\ t.nodes = topo.nodes \cup N \cup ends
          /\ t.declaredOnlyNodes = (N \cup ends) \ topo.nodes
          /\ t.edges = topo.edges \cup E
      BY <3>1 DEF MergeDeclared
    <3>3. \A e \in new : e[1] \in ends /\ e[2] \in ends
      OBVIOUS
    <3> HIDE DEF t, ends, topo
    <3>4. t.edges \ topo.edges = new
      BY <3>2
    <3>5. t.edges \ topo.edges \subseteq MermaidLinks(t)
      BY <3>2, <3>3, <3>4 DEF MermaidLinks
    <3>6. topo.nodes \subseteq t.nodes \ t.declaredOnlyNodes /\ topo.edges \subseteq t.edges
          /\ t.nodes \ topo.nodes = t.declaredOnlyNodes
      BY <3>2
    <3> QED BY <3>5, <3>6 DEF t, topo
  <2> QED BY <2>1, <2>2 DEF ReadInv
<1> QED BY <1>1, AdminInvariance, PTL

-----------------------------------------------------------------------------
(* Both on one database *)

\* Interleaved on one database, each component keeps its invariant: what the
\* other one writes is in other tables.
THEOREM GraphStoreTypeCorrect == GraphStoreSafety => []GraphStoreTypeOK
<1>1. GraphStoreSafety => AdminSafety
  <2>1. GraphStoreInit => AdminInit
    BY DEF GraphStoreInit
  <2>2. [GraphStoreNext]_<<adminVars, deployVars>> => [AdminNext]_adminVars
    BY DEF GraphStoreNext
  <2> QED BY <2>1, <2>2, PTL DEF GraphStoreSafety, AdminSafety
<1>2. GraphStoreSafety => DeploySafety
  <2>1. GraphStoreInit => DeployInit
    BY DEF GraphStoreInit
  <2>2. [GraphStoreNext]_<<adminVars, deployVars>> => [DeployNext]_deployVars
    BY DEF GraphStoreNext
  <2> QED BY <2>1, <2>2, PTL DEF GraphStoreSafety, DeploySafety
<1>3. AdminTypeOK /\ DeployTypeOK => GraphStoreTypeOK
  BY DEF GraphStoreTypeOK
<1> QED BY <1>1, <1>2, <1>3, AdminTypeCorrect, DeployTypeCorrect, PTL
=============================================================================
