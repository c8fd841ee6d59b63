------------------------ MODULE GraphExtractorProofs ------------------------
(***************************************************************************)
(* The graph's write path for any applications, ids, entries, caps and     *)
(* bounds: its maps keep their types, the groups map keeps its cap, stored *)
(* rows only move forward, and the aggregates are exactly those of the     *)
(* entries appended (Accounts, the invariant of the second half: a sum per *)
(* key over rows, batch, live map and losses, which each step preserves).  *)
(***************************************************************************)
EXTENDS GraphExtractor, FiniteSetTheorems, TLAPS

Agg == [origin : SUBSET {"trace", "inferred"}, count : Nat \ {0}, errors : Nat, lastSeen : Nat]

Maps(K, V) == UNION {[D -> V] : D \in SUBSET K}

Entry == [app : Apps \cup {None}, err : BOOLEAN, ts : Nat,
          trace : Ids \cup {None}, corr : Ids \cup {None}, peer : Apps \cup {None}]

GroupState == [lastApp : Apps, lastSeen : Nat]

Groups == {f \in Maps(GroupKeys, GroupState) :
              IsFiniteSet(DOMAIN f) /\ Cardinality(DOMAIN f) <= MaxGroups}

Mem == [nodes : Maps(Apps, Agg), edges : Maps(EdgeKeys, Agg), groups : Groups, dropped : Nat]

Batch == [nodes : Maps(Apps, Agg), edges : Maps(EdgeKeys, Agg)]

Row == [first : Nat, agg : Agg]

Tables == [nodes : Maps(Apps, Row), edges : Maps(EdgeKeys, Row)]

Control ==
    /\ clock \in Nat /\ cutoff \in Int
    /\ stopped \in BOOLEAN /\ final \in BOOLEAN
    /\ loop \in {"select", "upsert", "metrics", "evict", "evicting", "done"}

\* TypeOK, together with the types of the stored rows, which it does not mention.
IInv ==
    /\ Control
    /\ mem \in Mem /\ batch \in Batch
    /\ store \in Tables

-----------------------------------------------------------------------------
(* Maps *)

\* A function is a map when its domain and its values are.
LEMMA MapIntro ==
    ASSUME NEW K, NEW V, NEW D \in SUBSET K, NEW f \in [D -> V]
    PROVE  f \in Maps(K, V)
BY DEF Maps

\* And a map is such a function.
LEMMA MapElim ==
    ASSUME NEW K, NEW V, NEW f \in Maps(K, V)
    PROVE  f \in [DOMAIN f -> V] /\ DOMAIN f \subseteq K
BY DEF Maps

\* make(map[...]...) is a map of any type.
LEMMA EmptyMap == ASSUME NEW K, NEW V PROVE Empty \in Maps(K, V) /\ DOMAIN Empty = {}
<1>1. Empty \in [{} -> V] /\ DOMAIN Empty = {}
  BY DEF Empty
<1>2. QED
  BY <1>1, MapIntro

\* An assignment to a map keeps its type and adds its key.
LEMMA PutMap ==
    ASSUME NEW K, NEW V, NEW f \in Maps(K, V), NEW k \in K, NEW v \in V
    PROVE  Put(f, k, v) \in Maps(K, V) /\ DOMAIN Put(f, k, v) = DOMAIN f \cup {k}
<1>1. f \in [DOMAIN f -> V] /\ DOMAIN f \subseteq K
  BY MapElim
<1>2. Put(f, k, v) \in [DOMAIN f \cup {k} -> V] /\ DOMAIN Put(f, k, v) = DOMAIN f \cup {k}
  BY <1>1 DEF Put
<1>3. QED
  BY <1>1, <1>2, MapIntro

\* Counting an observation in a node or an edge keeps the map of aggregates.
LEMMA BumpMap ==
    ASSUME NEW K, NEW f \in Maps(K, Agg), NEW k \in K,
           NEW origin \in SUBSET {"trace", "inferred"}, NEW err \in BOOLEAN, NEW t \in Nat
    PROVE  Bump(f, k, origin, err, t) \in Maps(K, Agg)
<1> DEFINE s == IF k \in DOMAIN f THEN f[k] ELSE Fresh
           v == [origin   |-> s.origin \cup origin, count |-> s.count + 1,
                 errors   |-> IF err THEN s.errors + 1 ELSE s.errors,
                 lastSeen |-> Later(t, s.lastSeen)]
<1>1. s.origin \in SUBSET {"trace", "inferred"} /\ s.count \in Nat
      /\ s.errors \in Nat /\ s.lastSeen \in Nat
  <2>1. CASE k \in DOMAIN f
    <3>1. f[k] \in Agg
      BY <2>1, MapElim
    <3>2. QED
      BY <2>1, <3>1 DEF Agg
  <2>2. CASE k \notin DOMAIN f
    BY <2>2 DEF Fresh
  <2>3. QED
    BY <2>1, <2>2
<1> HIDE DEF s
<1>2. v \in Agg
  <2>1. s.origin \cup origin \in SUBSET {"trace", "inferred"}
    BY <1>1
  <2>2. s.count + 1 \in Nat \ {0} /\ (IF err THEN s.errors + 1 ELSE s.errors) \in Nat
        /\ Later(t, s.lastSeen) \in Nat
    BY <1>1 DEF Later
  <2>3. QED
    BY <2>1, <2>2 DEF Agg
<1>3. Bump(f, k, origin, err, t) = Put(f, k, v)
  BY DEF Bump, s
<1>4. Put(f, k, v) \in Maps(K, Agg)
  <2> HIDE DEF v
  <2>1. v \in Agg
    BY <1>2
  <2>2. QED
    BY <2>1, PutMap
<1>5. QED
  BY <1>3, <1>4

-----------------------------------------------------------------------------
(* Append *)

\* bumpEdge keeps the extractor's maps.
LEMMA BumpEdgeKeeps ==
    ASSUME NEW m \in Mem, NEW k \in EdgeKeys, NEW origin \in {"trace", "inferred"},
           NEW e \in Entry, NEW t \in Nat
    PROVE  /\ BumpEdge(m, k, origin, e, t) \in Mem
           /\ BumpEdge(m, k, origin, e, t).groups = m.groups
<1>1. Bump(m.edges, k, {origin}, e.err, t) \in Maps(EdgeKeys, Agg)
  BY BumpMap DEF Mem, Entry
<1>2. QED
  BY <1>1 DEF BumpEdge, Mem

\* linkGroup keeps the maps and the cap on groups.
LEMMA LinkGroupKeeps ==
    ASSUME NEW m \in Mem, NEW g \in GroupKeys, NEW origin \in {"trace", "inferred"},
           NEW e \in Entry, e.app \in Apps, NEW t \in Nat
    PROVE  LinkGroup(m, g, origin, e, t) \in Mem
<1> DEFINE full   == g \notin DOMAIN m.groups /\ Cardinality(DOMAIN m.groups) >= MaxGroups
           last   == IF g \in DOMAIN m.groups THEN m.groups[g].lastApp ELSE None
           linked == IF last \in {None, e.app} THEN m
                     ELSE BumpEdge(m, <<last, e.app>>, origin, e, t)
           state  == [lastApp |-> e.app, lastSeen |-> t]
           grown  == Put(m.groups, g, state)
<1>1. CASE full
  BY <1>1 DEF LinkGroup, Mem
<1>2. CASE ~full
  <2>1. m.groups \in Maps(GroupKeys, GroupState)
        /\ IsFiniteSet(DOMAIN m.groups) /\ Cardinality(DOMAIN m.groups) <= MaxGroups
    BY DEF Mem, Groups
  <2>2. last \in Apps \cup {None}
    <3>1. m.groups \in [DOMAIN m.groups -> GroupState]
      BY <2>1, MapElim
    <3>2. QED
      BY <3>1 DEF GroupState
  <2>3. linked \in Mem /\ linked.groups = m.groups
    <3>1. CASE last \in {None, e.app}
      BY <3>1
    <3>2. CASE last \notin {None, e.app}
      <4>1. <<last, e.app>> \in EdgeKeys
        BY <2>2, <3>2 DEF EdgeKeys
      <4>2. QED
        BY <3>2, <4>1, BumpEdgeKeeps
    <3>3. QED
      BY <3>1, <3>2
  <2>4. grown \in Maps(GroupKeys, GroupState)
        /\ DOMAIN grown = DOMAIN m.groups \cup {g}
    <3>1. state \in GroupState
      BY DEF GroupState
    <3> HIDE DEF state
    <3>2. Put(m.groups, g, state) \in Maps(GroupKeys, GroupState)
      BY ONLY <2>1, <3>1, g \in GroupKeys, PutMap
    <3>3. DOMAIN Put(m.groups, g, state) = DOMAIN m.groups \cup {g}
      BY DEF Put
    <3>4. QED
      BY <3>2, <3>3
  <2>5. IsFiniteSet(DOMAIN grown) /\ Cardinality(DOMAIN grown) <= MaxGroups
    <3>1. CASE g \in DOMAIN m.groups
      <4>1. DOMAIN grown = DOMAIN m.groups
        BY <2>4, <3>1
      <4>2. QED
        BY <2>1, <4>1
    <3>2. CASE g \notin DOMAIN m.groups
      <4>1. /\ IsFiniteSet(DOMAIN m.groups \cup {g})
            /\ Cardinality(DOMAIN m.groups \cup {g}) = Cardinality(DOMAIN m.groups) + 1
        BY <2>1, <3>2, FS_AddElement
      <4>2. Cardinality(DOMAIN m.groups) \in Nat
        BY <2>1, FS_CardinalityType
      <4>3. QED
        BY <1>2, <2>4, <3>2, <4>1, <4>2, GraphAssumption
    <3>3. QED
      BY <3>1, <3>2
  <2>6. grown \in Groups
    BY <2>4, <2>5 DEF Groups
  <2>7. LinkGroup(m, g, origin, e, t) = [linked EXCEPT !.groups = grown]
    BY <1>2, <2>3 DEF LinkGroup
  <2>8. QED
    BY <2>3, <2>6, <2>7 DEF Mem
<1>3. QED
  BY <1>1, <1>2

\* Append keeps the maps: a node, then the three signals.
LEMMA ObservedKeeps ==
    ASSUME NEW m \in Mem, NEW e \in Entry, clock \in Nat
    PROVE  Observed(m, e) \in Mem
<1> DEFINE t == TimeOf(e)
           n == [m EXCEPT !.nodes = Bump(@, e.app, {}, e.err, t)]
           x == ByTrace(n, e, t)
           y == ByCorr(x, e, t)
<1>1. t \in Nat
  BY DEF TimeOf, Entry
<1>2. CASE e.app = None
  BY <1>2 DEF Observed
<1>3. CASE e.app # None
  <2>1. e.app \in Apps
    BY <1>3 DEF Entry
  <2>2. n \in Mem
    <3>1. Bump(m.nodes, e.app, {}, e.err, t) \in Maps(Apps, Agg)
      <4>1. m.nodes \in Maps(Apps, Agg) /\ e.err \in BOOLEAN
        BY DEF Mem, Entry
      <4>2. {} \in SUBSET {"trace", "inferred"}
        OBVIOUS
      <4>3. QED
        BY <1>1, <2>1, <4>1, <4>2, BumpMap
    <3>2. QED
      BY <3>1 DEF Mem
  <2>3. x \in Mem
    <3>1. e.trace # None => <<"trace", e.trace>> \in GroupKeys
      BY DEF Entry, GroupKeys
    <3>2. QED
      BY <1>1, <2>1, <2>2, <3>1, LinkGroupKeeps DEF ByTrace
  <2>4. y \in Mem
    <3>1. e.corr # None => <<"corr", e.corr>> \in GroupKeys
      BY DEF Entry, GroupKeys
    <3>2. QED
      BY <1>1, <2>1, <2>3, <3>1, LinkGroupKeeps DEF ByCorr
  <2>5. ByPeer(y, e, t) \in Mem
    <3>1. e.peer # None => <<e.app, e.peer>> \in EdgeKeys
      BY <2>1 DEF Entry, EdgeKeys
    <3>2. QED
      BY <1>1, <2>4, <3>1, BumpEdgeKeeps DEF ByPeer
  <2>6. QED
    BY <1>3, <2>5 DEF Observed
<1>4. QED
  BY <1>2, <1>3

\* The server's own warning is an entry.
LEMMA WarningIsEntry == Warning \in Entry
BY GraphAssumption DEF Warning, Entry

-----------------------------------------------------------------------------
(* The stores *)

\* UpsertGraph keeps the type of a table, and its rows only move forward.
LEMMA UpsertedFacts ==
    ASSUME NEW K, NEW rows \in Maps(K, Row), NEW aggs \in Maps(K, Agg)
    PROVE  Upserted(rows, aggs) \in Maps(K, Row) /\ RowsAdvance(rows, Upserted(rows, aggs))
<1> DEFINE D   == DOMAIN rows \cup DOMAIN aggs
           new == Upserted(rows, aggs)
<1>1. rows \in [DOMAIN rows -> Row] /\ aggs \in [DOMAIN aggs -> Agg] /\ D \in SUBSET K
  BY MapElim
<1>2. ASSUME NEW s \in Agg, NEW u \in Agg
      PROVE  /\ Merge(s, u) \in Agg
             /\ s.origin \subseteq Merge(s, u).origin
             /\ Merge(s, u).count >= s.count /\ Merge(s, u).errors >= s.errors
             /\ Merge(s, u).lastSeen >= s.lastSeen
  BY DEF Merge, Agg, Later
<1>3. DOMAIN new = D /\ new = [k \in D |-> new[k]]
  BY DEF Upserted
<1>4. ASSUME NEW k \in D PROVE new[k] \in Row
  <2>1. CASE k \notin DOMAIN aggs
    BY <1>1, <2>1 DEF Upserted
  <2>2. CASE k \in DOMAIN aggs /\ k \notin DOMAIN rows
    <3>1. new[k] = [first |-> aggs[k].lastSeen, agg |-> aggs[k]]
      BY <2>2 DEF Upserted
    <3>2. aggs[k] \in Agg
      BY <1>1, <2>2
    <3>3. QED
      BY <3>1, <3>2 DEF Row, Agg
  <2>3. CASE k \in DOMAIN aggs /\ k \in DOMAIN rows
    <3>1. new[k] = [first |-> rows[k].first, agg |-> Merge(rows[k].agg, aggs[k])]
      BY <2>3 DEF Upserted
    <3>2. rows[k] \in Row /\ aggs[k] \in Agg
      BY <1>1, <2>3
    <3>3. Merge(rows[k].agg, aggs[k]) \in Agg
      BY <1>2, <3>2 DEF Row
    <3>4. QED
      BY <3>1, <3>2, <3>3 DEF Row
  <2>4. QED
    BY <2>1, <2>2, <2>3
<1>5. new \in Maps(K, Row)
  <2>1. new \in [D -> Row]
    BY <1>3, <1>4
  <2>2. QED
    BY <1>1, <2>1, MapIntro
<1>6. ASSUME NEW k \in DOMAIN rows
      PROVE  /\ new[k].first = rows[k].first
             /\ rows[k].agg.origin \subseteq new[k].agg.origin
             /\ new[k].agg.count >= rows[k].agg.count
             /\ new[k].agg.errors >= rows[k].agg.errors
             /\ new[k].agg.lastSeen >= rows[k].agg.lastSeen
  <2>1. rows[k] \in Row /\ rows[k].agg \in Agg
    BY <1>1 DEF Row
  <2>2. CASE k \notin DOMAIN aggs
    <3>1. new[k] = rows[k]
      BY <2>2 DEF Upserted
    <3>2. QED
      BY <2>1, <3>1 DEF Agg
  <2>3. CASE k \in DOMAIN aggs
    <3>1. new[k] = [first |-> rows[k].first, agg |-> Merge(rows[k].agg, aggs[k])]
      BY <2>3 DEF Upserted
    <3>2. aggs[k] \in Agg
      BY <1>1, <2>3
    <3>3. QED
      BY <1>2, <2>1, <3>1, <3>2
  <2>4. QED
    BY <2>2, <2>3
<1>7. QED
  BY <1>3, <1>5, <1>6 DEF RowsAdvance

-----------------------------------------------------------------------------
(* Induction *)

\* NewExtractor starts with empty maps.
LEMMA FreshFacts == FreshMem \in Mem /\ EmptyBatch \in Batch
<1>1. Empty \in Groups
  <2>1. Empty \in Maps(GroupKeys, GroupState) /\ DOMAIN Empty = {}
    BY EmptyMap
  <2>2. IsFiniteSet({}) /\ Cardinality({}) = 0
    BY FS_EmptySet
  <2>3. QED
    BY <2>1, <2>2, GraphAssumption DEF Groups
<1>2. QED
  BY <1>1, EmptyMap DEF FreshMem, Mem, EmptyBatch, Batch

\* A new extractor on empty stores satisfies the invariant.
LEMMA InitIInv == Init => IInv
<1> SUFFICES ASSUME Init PROVE IInv
  OBVIOUS
<1>1. EmptyBatch \in Tables
  BY EmptyMap DEF EmptyBatch, Tables
<1>2. Control
  <2>1. clock \in Nat /\ cutoff \in Int
    BY GraphAssumption DEF Init
  <2>2. QED
    BY <2>1, Zenon DEF Init, Control
<1>3. QED
  BY <1>1, <1>2, FreshFacts DEF Init, IInv

\* Append, from a handler or as a warning of the flush, keeps the invariant.
LEMMA ObserveKeeps ==
    ASSUME IInv, NEW e \in Entry, Observe(e), Control', UNCHANGED store, batch' \in Batch
    PROVE  IInv'
<1>1. mem' \in Mem
  BY ObservedKeeps DEF IInv, Control, Observe
<1>2. QED
  BY <1>1 DEF IInv

\* Taking the maps keeps the invariant.
LEMMA FlushKeeps == ASSUME IInv, NEW fin \in BOOLEAN, Flush(fin) PROVE IInv'
<1>1. mem' \in Mem
  <2>1. [mem EXCEPT !.nodes = Empty, !.edges = Empty] \in Mem
    BY EmptyMap DEF IInv, Mem
  <2>2. QED
    BY <2>1 DEF Flush
<1>2. batch' \in Batch
  BY DEF IInv, Flush, Mem, Batch
<1>3. Control'
  BY DEF IInv, Control, Flush, AfterFlush
<1>4. QED
  BY <1>1, <1>2, <1>3 DEF IInv, Flush

\* A committed transaction keeps the tables.
LEMMA UpsertKeeps == ASSUME IInv, UpsertCommits PROVE IInv'
<1>1. store.nodes \in Maps(Apps, Row) /\ store.edges \in Maps(EdgeKeys, Row)
      /\ batch.nodes \in Maps(Apps, Agg) /\ batch.edges \in Maps(EdgeKeys, Agg)
  BY DEF IInv, Tables, Batch
<1>2. store' \in Tables
  BY <1>1, UpsertedFacts DEF UpsertCommits, Tables
<1>3. QED
  BY <1>2 DEF IInv, Control, UpsertCommits

\* Eviction only shrinks the groups map.
LEMMA EvictKeeps == ASSUME IInv, Evict PROVE IInv'
<1> DEFINE D    == DOMAIN mem.groups \ Stale(mem, cutoff)
           rest == [g \in D |-> mem.groups[g]]
<1>1. mem.groups \in Maps(GroupKeys, GroupState) /\ IsFiniteSet(DOMAIN mem.groups)
      /\ Cardinality(DOMAIN mem.groups) <= MaxGroups
  BY DEF IInv, Mem, Groups
<1>2. mem.groups \in [DOMAIN mem.groups -> GroupState] /\ DOMAIN mem.groups \subseteq GroupKeys
  BY <1>1, MapElim
<1>3. rest \in [D -> GroupState] /\ DOMAIN rest = D /\ D \in SUBSET GroupKeys
  BY <1>2
<1>4. rest \in Maps(GroupKeys, GroupState)
  <2> HIDE DEF rest, D
  <2>1. QED
    BY <1>3, MapIntro
<1>5. IsFiniteSet(D) /\ Cardinality(D) <= Cardinality(DOMAIN mem.groups)
  <2>1. D \in SUBSET DOMAIN mem.groups
    OBVIOUS
  <2> HIDE DEF D
  <2>2. QED
    BY <1>1, <2>1, FS_Subset
<1>6. Cardinality(D) <= MaxGroups
  <2>1. Cardinality(D) \in Nat /\ Cardinality(DOMAIN mem.groups) \in Nat /\ MaxGroups \in Nat
    BY <1>1, <1>5, FS_CardinalityType, GraphAssumption
  <2> HIDE DEF D
  <2>2. QED
    BY <1>1, <1>5, <2>1
<1>7. rest \in Groups
  <2> HIDE DEF rest, D
  <2>1. QED
    BY <1>3, <1>4, <1>5, <1>6 DEF Groups
<1>8. mem' \in Mem
  <2>1. mem' = [mem EXCEPT !.groups = rest]
    BY DEF Evict
  <2> HIDE DEF rest
  <2>2. QED
    BY <1>7, <2>1 DEF IInv, Mem
<1>9. QED
  BY <1>8 DEF IInv, Control, Evict

\* Every step keeps the invariant.
LEMMA NextIInv == IInv /\ [Next]_vars => IInv'
<1> SUFFICES ASSUME IInv, [Next]_vars PROVE IInv'
  OBVIOUS
<1>1. CASE Advance
  BY <1>1 DEF Advance, IInv, Control
<1>2. ASSUME NEW e \in Entries, AppendEntry(e) PROVE IInv'
  <2>1. e \in Entry
    BY GraphAssumption DEF Entry
  <2>2. Control' /\ batch' \in Batch
    BY <1>2 DEF AppendEntry, IInv, Control
  <2>3. QED
    BY <1>2, <2>1, <2>2, ObserveKeeps DEF AppendEntry
<1>3. CASE Close
  BY <1>3 DEF Close, IInv, Control
<1>4. CASE Restart
  <2>1. cutoff' \in Int /\ clock' \in Nat
    BY <1>4 DEF Restart, IInv, Control
  <2>2. Control'
    BY <1>4, <2>1, Zenon DEF Restart, Control
  <2>3. QED
    BY <1>4, <2>2, FreshFacts DEF Restart, IInv
<1>5. CASE FlushOnTick \/ FlushOnStop
  BY <1>5, FlushKeeps DEF FlushOnTick, FlushOnStop
<1>6. CASE UpsertCommits
  BY <1>6, UpsertKeeps
<1>7. CASE UpsertFails
  <2>1. Control' /\ batch' \in Batch
    BY <1>7 DEF UpsertFails, IInv, Control
  <2>2. QED
    BY <1>7, <2>1, WarningIsEntry, ObserveKeeps DEF UpsertFails
<1>8. CASE InsertMetrics
  BY <1>8, FreshFacts DEF InsertMetrics, ApplyReturns, AfterFlush, IInv, Control
<1>9. CASE InsertMetricsFails
  <2>1. Control' /\ batch' \in Batch
    BY <1>9, FreshFacts DEF InsertMetricsFails, ApplyReturns, AfterFlush, IInv, Control
  <2>2. QED
    BY <1>9, <2>1, WarningIsEntry, ObserveKeeps DEF InsertMetricsFails, ApplyReturns
<1>10. CASE ReadCutoff
  <2>1. GroupTTL \in Nat
    BY GraphAssumption
  <2>2. QED
    BY <1>10, <2>1 DEF ReadCutoff, IInv, Control
<1>11. CASE Evict
  BY <1>11, EvictKeeps
<1>12. CASE UNCHANGED vars
  BY <1>12 DEF vars, IInv, Control
<1>13. QED
  BY <1>1, <1>2, <1>3, <1>4, <1>5, <1>6, <1>7, <1>8, <1>9, <1>10, <1>11, <1>12
     DEF Next, FlushLoop, Ended

\* The invariant holds in every reachable state.
THEOREM Invariance == Safety => []IInv
BY InitIInv, NextIInv, PTL DEF Safety

\* A map of aggregates, as TypeOK says it.
LEMMA MapIsAggOf ==
    ASSUME NEW K, NEW f \in Maps(K, Agg) PROVE DOMAIN f \subseteq K /\ AggOf(f)
<1>1. f \in [DOMAIN f -> Agg] /\ DOMAIN f \subseteq K
  BY MapElim
<1>2. QED
  BY <1>1 DEF AggOf, Agg

\* The maps of the extractor hold aggregates of their keys, and the groups map
\* never outgrows MaxGroups, whatever the entries, failed writes, evictions and restarts.
THEOREM TypeCorrect == Safety => []TypeOK
<1>1. IInv => TypeOK
  <2> SUFFICES ASSUME IInv PROVE TypeOK
    OBVIOUS
  <2>1. mem.nodes \in Maps(Apps, Agg) /\ mem.edges \in Maps(EdgeKeys, Agg)
        /\ batch.nodes \in Maps(Apps, Agg) /\ batch.edges \in Maps(EdgeKeys, Agg)
        /\ mem.groups \in Maps(GroupKeys, GroupState)
        /\ Cardinality(DOMAIN mem.groups) <= MaxGroups /\ mem.dropped \in Nat
    BY DEF IInv, Mem, Batch, Groups
  <2>2. DOMAIN mem.nodes \subseteq Apps /\ AggOf(mem.nodes)
        /\ DOMAIN mem.edges \subseteq EdgeKeys /\ AggOf(mem.edges)
        /\ DOMAIN batch.nodes \subseteq Apps /\ AggOf(batch.nodes)
        /\ DOMAIN batch.edges \subseteq EdgeKeys /\ AggOf(batch.edges)
    BY <2>1, MapIsAggOf
  <2>3. mem.groups \in [DOMAIN mem.groups -> GroupState]
        /\ DOMAIN mem.groups \subseteq GroupKeys
    BY <2>1, MapElim
  <2>4. QED
    BY <2>1, <2>2, <2>3 DEF TypeOK, IInv, Control, GroupState
<1>2. QED
  BY <1>1, Invariance, PTL

\* A table that is not written does not go back.
LEMMA RowsStay == ASSUME NEW K, NEW rows \in Maps(K, Row) PROVE RowsAdvance(rows, rows)
<1>1. ASSUME NEW k \in DOMAIN rows PROVE rows[k] \in Row
  BY MapElim
<1>2. QED
  BY <1>1 DEF RowsAdvance, Row, Agg

\* No flush, failed write or restart takes a stored row back: rows stay, first_seen
\* stays, counters and last_seen do not decrease and origin bits are not cleared.
THEOREM StoreAdvancesHolds == Safety => StoreAdvances
<1>1. ASSUME IInv, [Next]_vars
      PROVE  [RowsAdvance(store.nodes, store'.nodes) /\ RowsAdvance(store.edges, store'.edges)]_vars
  <2>1. store.nodes \in Maps(Apps, Row) /\ store.edges \in Maps(EdgeKeys, Row)
        /\ batch.nodes \in Maps(Apps, Agg) /\ batch.edges \in Maps(EdgeKeys, Agg)
    BY <1>1 DEF IInv, Tables, Batch
  <2>2. CASE UpsertCommits
    BY <2>1, <2>2, UpsertedFacts DEF UpsertCommits
  <2>3. CASE UNCHANGED store
    BY <2>1, <2>3, RowsStay
  <2>4. UpsertCommits \/ UNCHANGED store
    BY <1>1 DEF vars, Next, FlushLoop, Advance, AppendEntry, Close, Restart, Ended, Flush,
                FlushOnTick, FlushOnStop, UpsertFails, InsertMetrics, InsertMetricsFails,
                ApplyReturns, ReadCutoff, Evict
  <2>5. QED
    BY <2>2, <2>3, <2>4
<1>2. QED
  BY <1>1, Invariance, PTL DEF Safety, StoreAdvances

-----------------------------------------------------------------------------
(* The algebra of aggregates *)

\* An aggregate, or Fresh for a key that has none.
Agg0 == [origin : SUBSET {"trace", "inferred"}, count : Nat, errors : Nat, lastSeen : Nat]

\* What a map says of a key: nothing when it is absent.
At(f, k) == IF k \in DOMAIN f THEN f[k] ELSE Fresh

\* One more observation.
Add(s, origin, err, t) ==
    [origin |-> s.origin \cup origin, count |-> s.count + 1,
     errors |-> IF err THEN s.errors + 1 ELSE s.errors, lastSeen |-> Later(t, s.lastSeen)]

\* An entry of a map is an aggregate; an absent key counts nothing.
LEMMA AtType ==
    ASSUME NEW K, NEW f \in Maps(K, Agg), NEW k
    PROVE  At(f, k) \in Agg0 /\ (k \in DOMAIN f <=> At(f, k).count # 0) /\ Count(f, k) = At(f, k).count
<1>1. f \in [DOMAIN f -> Agg]
  BY MapElim
<1>2. CASE k \in DOMAIN f
  <2>1. f[k] \in Agg /\ At(f, k) = f[k] /\ Count(f, k) = f[k].count
    BY <1>1, <1>2 DEF At, Count
  <2>2. QED
    BY <1>2, <2>1 DEF Agg, Agg0
<1>3. CASE k \notin DOMAIN f
  BY <1>3 DEF At, Agg0, Fresh, Count
<1>4. QED
  BY <1>2, <1>3

\* The aggregate of nothing.
LEMMA FreshType == Fresh \in Agg0 /\ \A k : At(Empty, k) = Fresh
BY DEF Fresh, Agg0, At, Empty

\* Merging is commutative, and Fresh is its unit.
LEMMA MergeType ==
    ASSUME NEW s \in Agg0, NEW t \in Agg0
    PROVE  /\ Merge(s, t) \in Agg0 /\ Merge(s, t) = Merge(t, s)
           /\ Merge(s, Fresh) = s /\ Merge(Fresh, s) = s
<1>1. /\ s.origin \in SUBSET {"trace", "inferred"} /\ s.count \in Nat /\ s.errors \in Nat /\ s.lastSeen \in Nat
      /\ s = [origin |-> s.origin, count |-> s.count, errors |-> s.errors, lastSeen |-> s.lastSeen]
  BY DEF Agg0
<1>2. /\ t.origin \in SUBSET {"trace", "inferred"} /\ t.count \in Nat /\ t.errors \in Nat /\ t.lastSeen \in Nat
  BY DEF Agg0
<1>3. Merge(s, t) \in Agg0
  BY <1>1, <1>2 DEF Merge, Later, Agg0
<1>4. Merge(s, t) = Merge(t, s)
  <2>1. /\ s.origin \cup t.origin = t.origin \cup s.origin /\ s.count + t.count = t.count + s.count
        /\ s.errors + t.errors = t.errors + s.errors
        /\ Later(s.lastSeen, t.lastSeen) = Later(t.lastSeen, s.lastSeen)
    BY <1>1, <1>2 DEF Later
  <2>2. QED
    BY <2>1 DEF Merge
<1>5. Merge(s, Fresh) = s /\ Merge(Fresh, s) = s
  <2>1. /\ s.origin \cup {} = s.origin /\ s.count + 0 = s.count /\ s.errors + 0 = s.errors
        /\ Later(s.lastSeen, 0) = s.lastSeen
        /\ {} \cup s.origin = s.origin /\ 0 + s.count = s.count /\ 0 + s.errors = s.errors
        /\ Later(0, s.lastSeen) = s.lastSeen
    BY <1>1 DEF Later
  <2>2. Fresh.origin = {} /\ Fresh.count = 0 /\ Fresh.errors = 0 /\ Fresh.lastSeen = 0
    BY DEF Fresh
  <2>3. QED
    BY <1>1, <2>1, <2>2 DEF Merge
<1>6. QED
  BY <1>3, <1>4, <1>5

\* Merging is associative.
LEMMA MergeAssoc ==
    ASSUME NEW s \in Agg0, NEW t \in Agg0, NEW u \in Agg0
    PROVE  Merge(Merge(s, t), u) = Merge(s, Merge(t, u))
<1>1. /\ s.count \in Nat /\ s.errors \in Nat /\ s.lastSeen \in Nat
      /\ t.count \in Nat /\ t.errors \in Nat /\ t.lastSeen \in Nat
      /\ u.count \in Nat /\ u.errors \in Nat /\ u.lastSeen \in Nat
  BY DEF Agg0
<1>2. /\ (s.origin \cup t.origin) \cup u.origin = s.origin \cup (t.origin \cup u.origin)
      /\ (s.count + t.count) + u.count = s.count + (t.count + u.count)
      /\ (s.errors + t.errors) + u.errors = s.errors + (t.errors + u.errors)
      /\ Later(Later(s.lastSeen, t.lastSeen), u.lastSeen) = Later(s.lastSeen, Later(t.lastSeen, u.lastSeen))
  BY <1>1 DEF Later
<1>3. QED
  BY <1>2 DEF Merge

\* One more observation may be added before or after a merge.
LEMMA MergeAdd ==
    ASSUME NEW s \in Agg0, NEW t \in Agg0, NEW o \in SUBSET {"trace", "inferred"}, NEW err \in BOOLEAN,
           NEW at \in Nat
    PROVE  /\ Add(t, o, err, at) \in Agg0
           /\ Merge(s, Add(t, o, err, at)) = Add(Merge(s, t), o, err, at)
<1>1. /\ s.origin \in SUBSET {"trace", "inferred"} /\ t.origin \in SUBSET {"trace", "inferred"}
      /\ s.count \in Nat /\ s.errors \in Nat /\ s.lastSeen \in Nat
      /\ t.count \in Nat /\ t.errors \in Nat /\ t.lastSeen \in Nat
  BY DEF Agg0
<1>2. Add(t, o, err, at) \in Agg0
  <2>1. (IF err THEN t.errors + 1 ELSE t.errors) \in Nat
    <3>1. CASE err
      BY <1>1, <3>1
    <3>2. CASE ~err
      BY <1>1, <3>2
    <3>3. QED
      BY <3>1, <3>2
  <2>2. /\ t.origin \cup o \in SUBSET {"trace", "inferred"} /\ t.count + 1 \in Nat
        /\ Later(at, t.lastSeen) \in Nat
    <3>1. t.origin \cup o \in SUBSET {"trace", "inferred"}
      BY <1>1
    <3>2. t.count + 1 \in Nat
      BY <1>1
    <3>3. Later(at, t.lastSeen) \in Nat
      BY <1>1 DEF Later
    <3>4. QED
      BY <3>1, <3>2, <3>3
  <2>3. QED
    BY <2>1, <2>2, Zenon DEF Add, Agg0
<1>3. s.errors + (IF err THEN t.errors + 1 ELSE t.errors)
         = IF err THEN (s.errors + t.errors) + 1 ELSE s.errors + t.errors
  <2>1. CASE err
    BY <1>1, <2>1
  <2>2. CASE ~err
    BY <1>1, <2>2
  <2>3. QED
    BY <2>1, <2>2
<1>4. s.origin \cup (t.origin \cup o) = (s.origin \cup t.origin) \cup o
  OBVIOUS
<1>5. s.count + (t.count + 1) = (s.count + t.count) + 1
  BY <1>1
<1>6. Later(s.lastSeen, Later(at, t.lastSeen)) = Later(at, Later(s.lastSeen, t.lastSeen))
  BY <1>1 DEF Later
<1>7. Merge(s, Add(t, o, err, at)) = Add(Merge(s, t), o, err, at)
  <2>1. /\ Merge(s, t).origin = s.origin \cup t.origin /\ Merge(s, t).count = s.count + t.count
        /\ Merge(s, t).errors = s.errors + t.errors
        /\ Merge(s, t).lastSeen = Later(s.lastSeen, t.lastSeen)
    BY DEF Merge
  <2>2. LET u == Add(t, o, err, at)
        IN  /\ u.origin = t.origin \cup o /\ u.count = t.count + 1
            /\ u.errors = (IF err THEN t.errors + 1 ELSE t.errors)
            /\ u.lastSeen = Later(at, t.lastSeen)
    BY DEF Add
  <2>3. QED
    BY <1>3, <1>4, <1>5, <1>6, <2>1, <2>2, Zenon DEF Merge, Add
<1>8. QED
  BY <1>2, <1>7

\* A bump adds one observation to its key and none to another.
LEMMA AtBump ==
    ASSUME NEW f, NEW k, NEW o, NEW err, NEW at, NEW j
    PROVE  At(Bump(f, k, o, err, at), j) = IF j = k THEN Add(At(f, k), o, err, at) ELSE At(f, j)
BY DEF At, Bump, Put, Add

\* Merging maps merges them key by key.
LEMMA AtMergeAll ==
    ASSUME NEW K, NEW f \in Maps(K, Agg), NEW g \in Maps(K, Agg)
    PROVE  MergeAll(f, g) \in Maps(K, Agg) /\ \A k : At(MergeAll(f, g), k) = Merge(At(f, k), At(g, k))
<1> DEFINE h == MergeAll(f, g)
<1>1. /\ f \in [DOMAIN f -> Agg] /\ g \in [DOMAIN g -> Agg] /\ DOMAIN f \subseteq K /\ DOMAIN g \subseteq K
  BY MapElim
<1>2. DOMAIN h = DOMAIN f \cup DOMAIN g /\ h = [k \in DOMAIN f \cup DOMAIN g |-> h[k]]
  BY DEF MergeAll
<1>3. ASSUME NEW k PROVE At(h, k) = Merge(At(f, k), At(g, k))
  <2>1. At(f, k) \in Agg0 /\ At(g, k) \in Agg0
    BY AtType
  <2>2. CASE k \in DOMAIN f /\ k \in DOMAIN g
    BY <2>2 DEF At, MergeAll
  <2>3. CASE k \in DOMAIN f /\ k \notin DOMAIN g
    <3>1. At(h, k) = At(f, k) /\ At(g, k) = Fresh
      BY <2>3 DEF At, MergeAll
    <3>2. QED
      BY <2>1, <3>1, MergeType
  <2>4. CASE k \notin DOMAIN f /\ k \in DOMAIN g
    <3>1. At(h, k) = At(g, k) /\ At(f, k) = Fresh
      BY <2>4 DEF At, MergeAll
    <3>2. QED
      BY <2>1, <3>1, MergeType
  <2>5. CASE k \notin DOMAIN f /\ k \notin DOMAIN g
    <3>1. At(h, k) = Fresh /\ At(f, k) = Fresh /\ At(g, k) = Fresh
      BY <2>5 DEF At, MergeAll
    <3>2. QED
      BY <3>1, FreshType, MergeType
  <2>6. QED
    BY <2>2, <2>3, <2>4, <2>5
<1>4. ASSUME NEW k \in DOMAIN f \cup DOMAIN g PROVE h[k] \in Agg
  <2>1. h[k] = At(h, k) /\ At(f, k) \in Agg0 /\ At(g, k) \in Agg0
    BY <1>2, AtType DEF At
  <2>2. h[k] \in Agg0
    BY <1>3, <2>1, MergeType
  <2>3. h[k].count = At(f, k).count + At(g, k).count
    BY <1>3, <2>1 DEF Merge
  <2>4. At(f, k).count # 0 \/ At(g, k).count # 0
    BY AtType
  <2>5. At(f, k).count \in Nat /\ At(g, k).count \in Nat
    BY <2>1 DEF Agg0
  <2> HIDE DEF h
  <2>6. h[k].count # 0
    BY <2>3, <2>4, <2>5
  <2>7. QED
    BY <2>2, <2>6 DEF Agg0, Agg
<1>5. h \in Maps(K, Agg)
  <2>1. h \in [DOMAIN f \cup DOMAIN g -> Agg] /\ DOMAIN f \cup DOMAIN g \in SUBSET K
    BY <1>1, <1>2, <1>4
  <2> HIDE DEF h
  <2>2. QED
    BY <2>1, MapIntro
<1>6. QED
  BY <1>3, <1>5

\* The aggregates of the rows of a table.
LEMMA SavedFacts ==
    ASSUME NEW K, NEW rows \in Maps(K, Row)
    PROVE  Saved(rows) \in Maps(K, Agg)
<1>1. rows \in [DOMAIN rows -> Row] /\ DOMAIN rows \in SUBSET K
  BY MapElim
<1>2. Saved(rows) \in [DOMAIN rows -> Agg]
  BY <1>1 DEF Saved, Row
<1>3. QED
  BY <1>1, <1>2, MapIntro

\* An upsert merges the batch into the rows, key by key.
LEMMA AtUpserted ==
    ASSUME NEW K, NEW rows \in Maps(K, Row), NEW aggs \in Maps(K, Agg), NEW k
    PROVE  At(Saved(Upserted(rows, aggs)), k) = Merge(At(Saved(rows), k), At(aggs, k))
<1>1. Saved(rows) \in Maps(K, Agg) /\ At(Saved(rows), k) \in Agg0 /\ At(aggs, k) \in Agg0
  BY SavedFacts, AtType
<1>2. CASE k \in DOMAIN aggs /\ k \in DOMAIN rows
  BY <1>2 DEF At, Saved, Upserted
<1>3. CASE k \in DOMAIN aggs /\ k \notin DOMAIN rows
  <2>1. At(Saved(Upserted(rows, aggs)), k) = At(aggs, k) /\ At(Saved(rows), k) = Fresh
    BY <1>3 DEF At, Saved, Upserted
  <2>2. QED
    BY <1>1, <2>1, MergeType
<1>4. CASE k \notin DOMAIN aggs /\ k \in DOMAIN rows
  <2>1. At(Saved(Upserted(rows, aggs)), k) = At(Saved(rows), k) /\ At(aggs, k) = Fresh
    BY <1>4 DEF At, Saved, Upserted
  <2>2. QED
    BY <1>1, <2>1, MergeType
<1>5. CASE k \notin DOMAIN aggs /\ k \notin DOMAIN rows
  <2>1. At(Saved(Upserted(rows, aggs)), k) = Fresh /\ At(aggs, k) = Fresh /\ At(Saved(rows), k) = Fresh
    BY <1>5 DEF At, Saved, Upserted
  <2>2. QED
    BY <2>1, FreshType, MergeType
<1>6. QED
  BY <1>2, <1>3, <1>4, <1>5

-----------------------------------------------------------------------------
(* Aggregates of sets of sightings *)

\* v is the aggregate of the sightings S in the history h; that of none is Fresh.
SumOf(v, S, h) ==
    /\ IsFiniteSet(S)
    /\ v.origin = UNION {OriginOf(s[1]) : s \in S}
    /\ v.count = Cardinality(S)
    /\ v.errors = Cardinality({s \in S : h[s[3]].err})
    /\ \A s \in S : h[s[3]].at \in Nat /\ h[s[3]].at <= v.lastSeen
    /\ S # {} => \E s \in S : h[s[3]].at = v.lastSeen
    /\ S = {} => v.lastSeen = 0

\* No sightings, no aggregate.
LEMMA SumNone == ASSUME NEW h PROVE SumOf(Fresh, {}, h)
<1>1. IsFiniteSet({}) /\ Cardinality({}) = 0
  BY FS_EmptySet
<1>2. {s \in {} : h[s[3]].err} = {} /\ UNION {OriginOf(s[1]) : s \in {}} = {}
  OBVIOUS
<1>3. QED
  BY <1>1, <1>2 DEF SumOf, Fresh

\* One more sighting is one more observation.
LEMMA SumAdd ==
    ASSUME NEW v \in Agg0, NEW S, NEW h, SumOf(v, S, h), NEW x, x \notin S,
           h[x[3]].err \in BOOLEAN, h[x[3]].at \in Nat
    PROVE  SumOf(Add(v, OriginOf(x[1]), h[x[3]].err, h[x[3]].at), S \cup {x}, h)
<1> DEFINE w == Add(v, OriginOf(x[1]), h[x[3]].err, h[x[3]].at)
           E == {s \in S : h[s[3]].err}
           F == {s \in S \cup {x} : h[s[3]].err}
<1>1. /\ w.origin = v.origin \cup OriginOf(x[1]) /\ w.count = v.count + 1
      /\ w.errors = (IF h[x[3]].err THEN v.errors + 1 ELSE v.errors)
      /\ w.lastSeen = Later(h[x[3]].at, v.lastSeen)
  BY DEF Add
<1>2. /\ v.count \in Nat /\ v.errors \in Nat /\ v.lastSeen \in Nat
  BY DEF Agg0
<1> HIDE DEF w
<1>3. IsFiniteSet(S \cup {x}) /\ w.count = Cardinality(S \cup {x})
  BY <1>1, FS_AddElement DEF SumOf
<1>4. w.origin = UNION {OriginOf(s[1]) : s \in S \cup {x}}
  <2>1. UNION {OriginOf(s[1]) : s \in S \cup {x}} = (UNION {OriginOf(s[1]) : s \in S}) \cup OriginOf(x[1])
    BY Zenon
  <2>2. QED
    BY <1>1, <2>1 DEF SumOf
<1>5. w.errors = Cardinality(F)
  <2>1. IsFiniteSet(E) /\ v.errors = Cardinality(E) /\ x \notin E
    <3>1. E \in SUBSET S
      OBVIOUS
    <3>2. QED
      BY <3>1, FS_Subset DEF SumOf
  <2>2. CASE h[x[3]].err
    <3>1. F = E \cup {x}
      BY <2>2
    <3> HIDE DEF E, F
    <3>2. w.errors = v.errors + 1
      BY <1>1, <2>2, Zenon
    <3>3. Cardinality(E \cup {x}) = Cardinality(E) + 1
      BY <2>1, FS_AddElement
    <3>4. QED
      BY <2>1, <3>1, <3>2, <3>3
  <2>3. CASE ~h[x[3]].err
    <3>1. F = E
      BY <2>3
    <3>2. QED
      BY <1>1, <2>1, <2>3, <3>1
  <2>4. QED
    BY <2>2, <2>3
<1>6. ASSUME NEW s \in S \cup {x} PROVE h[s[3]].at \in Nat /\ h[s[3]].at <= w.lastSeen
  BY <1>1, <1>2 DEF SumOf, Later
<1>7. \E s \in S \cup {x} : h[s[3]].at = w.lastSeen
  <2>1. CASE h[x[3]].at > v.lastSeen
    BY <1>1, <2>1 DEF Later
  <2>2. CASE ~(h[x[3]].at > v.lastSeen)
    <3>1. w.lastSeen = v.lastSeen
      BY <1>1, <2>2 DEF Later
    <3>2. CASE S = {}
      <4>1. v.lastSeen = 0
        BY <3>2 DEF SumOf
      <4>2. h[x[3]].at = w.lastSeen
        BY <2>2, <3>1, <4>1
      <4>3. QED
        BY <4>2
    <3>3. CASE S # {}
      <4>1. \E s \in S : h[s[3]].at = v.lastSeen
        BY <3>3 DEF SumOf
      <4>2. QED
        BY <3>1, <4>1
    <3>4. QED
      BY <3>2, <3>3
  <2>3. QED
    BY <2>1, <2>2
<1>8. QED
  BY <1>3, <1>4, <1>5, <1>6, <1>7, Zenon DEF SumOf, w

\* An aggregate depends only on what its sightings point to.
LEMMA SumSame ==
    ASSUME NEW v, NEW S, NEW h, NEW j, SumOf(v, S, h), \A s \in S : j[s[3]] = h[s[3]]
    PROVE  SumOf(v, S, j)
<1>1. {s \in S : j[s[3]].err} = {s \in S : h[s[3]].err}
  OBVIOUS
<1>2. \A s \in S : j[s[3]].at \in Nat /\ j[s[3]].at <= v.lastSeen
  BY DEF SumOf
<1>3. S # {} => \E s \in S : j[s[3]].at = v.lastSeen
  BY DEF SumOf
<1>4. QED
  BY <1>1, <1>2, <1>3 DEF SumOf

\* The aggregate of a nonempty set of sightings is the one the specification defines.
LEMMA SumAggregate ==
    ASSUME NEW v \in Agg0, NEW S, SumOf(v, S, history), S # {}
    PROVE  v = Aggregate(S)
<1> DEFINE T == {history[s[3]].at : s \in S}
<1>1. v.lastSeen \in T /\ v.lastSeen \in Nat /\ \A y \in T : y \in Nat /\ v.lastSeen >= y
  <2>1. v.lastSeen \in Nat
    BY DEF Agg0
  <2>2. v.lastSeen \in T
    BY DEF SumOf
  <2>3. ASSUME NEW y \in T PROVE y \in Nat /\ v.lastSeen >= y
    <3>1. PICK s \in S : y = history[s[3]].at
      OBVIOUS
    <3>2. QED
      BY <2>1, <3>1 DEF SumOf
  <2>4. QED
    BY <2>1, <2>2, <2>3
<1>2. Max(T) = v.lastSeen
  <2> HIDE DEF T
  <2>1. \E x \in T : \A y \in T : x >= y
    BY <1>1
  <2>2. Max(T) \in T /\ \A y \in T : Max(T) >= y
    BY <2>1, Zenon DEF Max
  <2>3. QED
    BY <1>1, <2>2
<1>3. v = [origin |-> v.origin, count |-> v.count, errors |-> v.errors, lastSeen |-> v.lastSeen]
  BY DEF Agg0
<1>4. QED
  BY <1>2, <1>3 DEF SumOf, Aggregate

-----------------------------------------------------------------------------
(* The history grows by a record *)

\* The records of the history.
Record == [app : Apps \cup {None}, err : BOOLEAN, at : Nat, peer : Apps \cup {None},
           joined : SUBSET GroupKeys, removed : SUBSET GroupKeys]

\* Follows and the sightings, for any history h.
FollowsIn(h, g, src, j) ==
    \E i \in 1 .. (j - 1) :
        /\ g \in h[i].joined /\ h[i].app = src
        /\ \A m \in (i + 1) .. (j - 1) : g \notin h[m].joined \cup h[m].removed

\* The sightings of a node.
NodesIn(h, a) == {<<"entry", None, j>> : j \in {i \in 1 .. Len(h) : h[i].app = a}}

\* x is the sighting of edge k that entry j makes in group g, or by naming its peer.
InGroup(h, k, x, j, g) ==
    /\ x = <<g[1], g[2], j>>
    /\ g \in h[j].joined /\ h[j].app = k[2] /\ FollowsIn(h, g, k[1], j)
ByName(h, k, x, j) == x = <<"peer", None, j>> /\ h[j].app = k[1] /\ h[j].peer = k[2]

SightedAt(h, k, x, j) ==
    /\ k[1] # k[2]
    /\ (\E g \in GroupKeys : InGroup(h, k, x, j, g)) \/ ByName(h, k, x, j)

\* The sightings of an edge.
EdgesIn(h, k) ==
    IF k[1] = k[2] THEN {}
    ELSE {<<p[1][1], p[1][2], p[2]>> : p \in
             {q \in GroupKeys \X (1 .. Len(h)) :
                 /\ q[1] \in h[q[2]].joined /\ h[q[2]].app = k[2]
                 /\ FollowsIn(h, q[1], k[1], q[2])}}
         \cup {<<"peer", None, j>> : j \in
                 {i \in 1 .. Len(h) : h[i].app = k[1] /\ h[i].peer = k[2]}}

\* The sightings of an edge, one entry at a time.
LEMMA EdgesAre ==
    ASSUME NEW h, NEW k, NEW x
    PROVE  x \in EdgesIn(h, k) <=> \E j \in 1 .. Len(h) : SightedAt(h, k, x, j)
<1> DEFINE Q == {q \in GroupKeys \X (1 .. Len(h)) :
                    /\ q[1] \in h[q[2]].joined /\ h[q[2]].app = k[2]
                    /\ FollowsIn(h, q[1], k[1], q[2])}
           P == {i \in 1 .. Len(h) : h[i].app = k[1] /\ h[i].peer = k[2]}
<1>1. CASE k[1] = k[2]
  BY <1>1 DEF EdgesIn, SightedAt
<1>2. CASE k[1] # k[2]
  <2>1. EdgesIn(h, k) = {<<p[1][1], p[1][2], p[2]>> : p \in Q} \cup {<<"peer", None, j>> : j \in P}
    BY <1>2 DEF EdgesIn
  <2>2. (\E p \in Q : x = <<p[1][1], p[1][2], p[2]>>) <=>
           \E j \in 1 .. Len(h) : \E g \in GroupKeys : InGroup(h, k, x, j, g)
    <3>1. ASSUME NEW p \in Q, x = <<p[1][1], p[1][2], p[2]>>
          PROVE  p[2] \in 1 .. Len(h) /\ p[1] \in GroupKeys /\ InGroup(h, k, x, p[2], p[1])
      BY <3>1 DEF InGroup
    <3>2. ASSUME NEW j \in 1 .. Len(h), NEW g \in GroupKeys, InGroup(h, k, x, j, g)
          PROVE  <<g, j>> \in Q /\ x = <<<<g, j>>[1][1], <<g, j>>[1][2], <<g, j>>[2]>>
      BY <3>2 DEF InGroup
    <3> HIDE DEF Q
    <3>3. QED
      BY <3>1, <3>2
  <2>3. (\E j \in P : x = <<"peer", None, j>>) <=> \E j \in 1 .. Len(h) : ByName(h, k, x, j)
    BY DEF ByName
  <2> HIDE DEF P, Q
  <2>4. QED
    BY <1>2, <2>1, <2>2, <2>3 DEF SightedAt
<1>3. QED
  BY <1>1, <1>2

\* What was recorded stays.
LEMMA HistoryKept ==
    ASSUME NEW h \in Seq(Record), NEW rec \in Record
    PROVE  LET b == Append(h, rec)
           IN  /\ b \in Seq(Record) /\ Len(h) \in Nat
               /\ Len(b) = Len(h) + 1 /\ b[Len(h) + 1] = rec
               /\ \A i \in 1 .. Len(h) : b[i] = h[i]
               /\ 1 .. Len(b) = (1 .. Len(h)) \cup {Len(h) + 1}
OBVIOUS

\* Whether an entry follows another depends on what is recorded before it.
LEMMA FollowsKept ==
    ASSUME NEW h \in Seq(Record), NEW rec \in Record, NEW g, NEW src,
           NEW j \in 1 .. (Len(h) + 1)
    PROVE  FollowsIn(Append(h, rec), g, src, j) <=> FollowsIn(h, g, src, j)
<1>1. \A i \in 1 .. Len(h) : Append(h, rec)[i] = h[i]
  BY HistoryKept
<1>2. Len(h) \in Nat /\ 1 .. (j - 1) \subseteq 1 .. Len(h)
  OBVIOUS
<1>3. \A i \in 1 .. (j - 1) : (i + 1) .. (j - 1) \subseteq 1 .. Len(h)
  OBVIOUS
<1>4. QED
  BY <1>1, <1>2, <1>3 DEF FollowsIn

\* The next entry of g follows the record if that joined g, and what the record
\* followed if it neither joined nor removed g.
LEMMA FollowsNext ==
    ASSUME NEW h \in Seq(Record), NEW rec \in Record, NEW g, NEW src
    PROVE  FollowsIn(Append(h, rec), g, src, Len(h) + 2) <=>
               IF g \in rec.joined THEN rec.app = src
               ELSE g \notin rec.removed /\ FollowsIn(h, g, src, Len(h) + 1)
<1> DEFINE n == Len(h) + 1
           b == Append(h, rec)
<1>1. /\ Len(h) \in Nat /\ b[n] = rec
      /\ \A i \in 1 .. Len(h) : b[i] = h[i]
  BY HistoryKept
<1>2. n \in Nat /\ n - 1 = Len(h) /\ Len(h) + 2 = n + 1 /\ (n + 1) - 1 = n
  BY <1>1
<1> HIDE DEF n, b
<1>3. FollowsIn(b, g, src, n + 1) <=>
         \E i \in 1 .. n : /\ g \in b[i].joined /\ b[i].app = src
                           /\ \A m \in (i + 1) .. n : g \notin b[m].joined \cup b[m].removed
  BY <1>2 DEF FollowsIn
<1>4. FollowsIn(h, g, src, n) <=>
         \E i \in 1 .. Len(h) :
            /\ g \in h[i].joined /\ h[i].app = src
            /\ \A m \in (i + 1) .. Len(h) : g \notin h[m].joined \cup h[m].removed
  BY <1>2 DEF FollowsIn
<1>5. CASE g \in rec.joined
  <2>1. \A i \in 1 .. n : i # n => n \in (i + 1) .. n
    BY <1>1, <1>2
  <2>2. n \in 1 .. n /\ (n + 1) .. n = {}
    BY <1>1, <1>2
  <2>3. QED
    BY <1>1, <1>2, <1>3, <1>5, <2>1, <2>2 DEF n, b
<1>6. CASE g \notin rec.joined
  <2>1. \A i \in 1 .. n : g \in b[i].joined => i \in 1 .. Len(h)
    BY <1>1, <1>2, <1>6
  <2>2. \A i \in 1 .. Len(h) : (i + 1) .. n = ((i + 1) .. Len(h)) \cup {n}
    BY <1>1, <1>2
  <2>3. 1 .. Len(h) \subseteq 1 .. n
    BY <1>1, <1>2
  <2>4. \A i \in 1 .. Len(h) : (i + 1) .. Len(h) \subseteq 1 .. Len(h)
    BY <1>1
  <2>5. ASSUME NEW i \in 1 .. Len(h)
        PROVE  (\A m \in (i + 1) .. n : g \notin b[m].joined \cup b[m].removed)
               <=> /\ g \notin rec.removed
                   /\ \A m \in (i + 1) .. Len(h) : g \notin h[m].joined \cup h[m].removed
    BY <1>1, <1>6, <2>2, <2>4
  <2>6. FollowsIn(b, g, src, n + 1) <=> g \notin rec.removed /\ FollowsIn(h, g, src, n)
    BY <1>1, <1>3, <1>4, <2>1, <2>3, <2>5
  <2>7. QED
    BY <1>2, <1>6, <2>6 DEF n, b
<1>7. QED
  BY <1>5, <1>6

\* A record is one more sighting of its application.
LEMMA NodesNext ==
    ASSUME NEW h \in Seq(Record), NEW rec \in Record, NEW a
    PROVE  NodesIn(Append(h, rec), a) = NodesIn(h, a) \cup
              (IF rec.app = a THEN {<<"entry", None, Len(h) + 1>>} ELSE {})
<1> DEFINE b == Append(h, rec)
<1>1. /\ b[Len(h) + 1] = rec /\ \A i \in 1 .. Len(h) : b[i] = h[i]
      /\ 1 .. Len(b) = (1 .. Len(h)) \cup {Len(h) + 1}
  BY HistoryKept
<1> HIDE DEF b
<1>2. {i \in 1 .. Len(b) : b[i].app = a} =
         {i \in 1 .. Len(h) : h[i].app = a} \cup (IF rec.app = a THEN {Len(h) + 1} ELSE {})
  BY <1>1
<1>3. QED
  BY <1>2 DEF NodesIn, b

\* The sightings an earlier entry makes stay; the record makes its own.
LEMMA SightedNext ==
    ASSUME NEW h \in Seq(Record), NEW rec \in Record, NEW k, NEW x
    PROVE  LET n == Len(h) + 1
               b == Append(h, rec)
           IN  /\ \A j \in 1 .. Len(h) : SightedAt(b, k, x, j) <=> SightedAt(h, k, x, j)
               /\ SightedAt(b, k, x, n) <=>
                     /\ k[1] # k[2]
                     /\ \/ \E g \in GroupKeys : /\ x = <<g[1], g[2], n>> /\ g \in rec.joined
                                                /\ rec.app = k[2] /\ FollowsIn(h, g, k[1], n)
                        \/ x = <<"peer", None, n>> /\ rec.app = k[1] /\ rec.peer = k[2]
<1> DEFINE n == Len(h) + 1
           b == Append(h, rec)
<1>1. /\ Len(h) \in Nat /\ b[n] = rec /\ \A i \in 1 .. Len(h) : b[i] = h[i]
  BY HistoryKept
<1>2. n \in 1 .. n /\ 1 .. Len(h) \subseteq 1 .. n
  BY <1>1
<1>3. \A g, src : \A j \in 1 .. n : FollowsIn(b, g, src, j) <=> FollowsIn(h, g, src, j)
  BY FollowsKept
<1> HIDE DEF n, b
<1>4. ASSUME NEW j \in 1 .. Len(h) PROVE SightedAt(b, k, x, j) <=> SightedAt(h, k, x, j)
  BY <1>1, <1>2, <1>3 DEF SightedAt, InGroup, ByName
<1>5. SightedAt(b, k, x, n) <=>
                     /\ k[1] # k[2]
                     /\ \/ \E g \in GroupKeys : /\ x = <<g[1], g[2], n>> /\ g \in rec.joined
                                                /\ rec.app = k[2] /\ FollowsIn(h, g, k[1], n)
                        \/ x = <<"peer", None, n>> /\ rec.app = k[1] /\ rec.peer = k[2]
  BY <1>1, <1>2, <1>3 DEF SightedAt, InGroup, ByName
<1>6. QED
  BY <1>4, <1>5 DEF n, b

\* The history's sightings are those of the specification, before and after a step.
LEMMA SightingsIn ==
    /\ \A a : NodeSightings(a) = NodesIn(history, a)
    /\ \A k : EdgeSightings(k) = EdgesIn(history, k)
    /\ \A a : NodeSightings(a)' = NodesIn(history', a)
    /\ \A k : EdgeSightings(k)' = EdgesIn(history', k)
BY DEF NodeSightings, NodesIn, EdgeSightings, EdgesIn, Moments, Follows, FollowsIn

-----------------------------------------------------------------------------
(* What Append does to the aggregates *)

\* An observation, if c.
AddIf(c, s, origin, err, t) == IF c THEN Add(s, origin, err, t) ELSE s

\* The edge that linkGroup counts for an entry of e.app in group g.
Linked(groups, g, e, k) ==
    g \in DOMAIN groups /\ groups[g].lastApp # e.app /\ k = <<groups[g].lastApp, e.app>>

\* n is m with that edge counted, and the group, if there is room for it, handed to e.app.
LinkEffect(m, g, origin, e, t, n) ==
    /\ n.nodes = m.nodes
    /\ \A k : At(n.edges, k) =
          AddIf(Linked(m.groups, g, e, k), At(m.edges, k), {origin}, e.err, t)
    /\ DOMAIN m.groups \subseteq DOMAIN n.groups
    /\ DOMAIN n.groups \subseteq DOMAIN m.groups \cup {g}
    /\ \A f \in DOMAIN m.groups : f # g => n.groups[f] = m.groups[f]
    /\ g \in DOMAIN n.groups => n.groups[g].lastApp = e.app

\* That is what linkGroup does.
LEMMA LinkFacts ==
    ASSUME NEW m \in Mem, NEW g \in GroupKeys, NEW origin \in {"trace", "inferred"},
           NEW e \in Entry, e.app \in Apps, NEW t \in Nat
    PROVE  LinkEffect(m, g, origin, e, t, LinkGroup(m, g, origin, e, t))
<1> DEFINE full   == g \notin DOMAIN m.groups /\ Cardinality(DOMAIN m.groups) >= MaxGroups
           last   == IF g \in DOMAIN m.groups THEN m.groups[g].lastApp ELSE None
           linked == IF last \in {None, e.app} THEN m
                     ELSE BumpEdge(m, <<last, e.app>>, origin, e, t)
           state  == [lastApp |-> e.app, lastSeen |-> t]
           n      == LinkGroup(m, g, origin, e, t)
<1>1. CASE full
  <2>1. n = [m EXCEPT !.dropped = @ + 1]
    BY <1>1 DEF LinkGroup
  <2>2. n.nodes = m.nodes /\ n.edges = m.edges /\ n.groups = m.groups
    BY <2>1 DEF Mem
  <2>3. \A k : ~Linked(m.groups, g, e, k)
    BY <1>1 DEF Linked
  <2> HIDE DEF n
  <2>4. \A k : At(n.edges, k) = AddIf(Linked(m.groups, g, e, k), At(m.edges, k), {origin}, e.err, t)
    BY <2>2, <2>3 DEF AddIf
  <2>5. QED
    BY <1>1, <2>2, <2>4 DEF n, LinkEffect
<1>2. CASE ~full
  <2>1. m.groups \in [DOMAIN m.groups -> GroupState]
    BY MapElim DEF Mem, Groups
  <2>2. g \in DOMAIN m.groups => m.groups[g].lastApp \in Apps /\ m.groups[g].lastApp # None
    BY <2>1, GraphAssumption DEF GroupState
  <2>3. n = [linked EXCEPT !.groups = Put(linked.groups, g, state)]
    BY <1>2 DEF LinkGroup
  <2>4. /\ linked.nodes = m.nodes /\ linked.groups = m.groups
        /\ \A k : At(linked.edges, k) =
              AddIf(Linked(m.groups, g, e, k), At(m.edges, k), {origin}, e.err, t)
        /\ n = [linked EXCEPT !.groups = Put(linked.groups, g, state)]
        /\ linked \in Mem
    <3>1. CASE last \in {None, e.app}
      <4>1. \A k : ~Linked(m.groups, g, e, k)
        BY <2>2, <3>1 DEF Linked
      <4>2. QED
        BY <2>3, <3>1, <4>1 DEF AddIf
    <3>2. CASE last \notin {None, e.app}
      <4>1. linked = BumpEdge(m, <<last, e.app>>, origin, e, t)
        BY <3>2
      <4>2. /\ linked = [m EXCEPT !.edges = Bump(m.edges, <<last, e.app>>, {origin}, e.err, t)]
            /\ g \in DOMAIN m.groups /\ last = m.groups[g].lastApp
        BY <3>2 DEF BumpEdge
      <4>3. <<last, e.app>> \in EdgeKeys
        BY <2>2, <4>2 DEF EdgeKeys
      <4>4. \A k : Linked(m.groups, g, e, k) <=> k = <<last, e.app>>
        BY <3>2, <4>2 DEF Linked
      <4> HIDE DEF last
      <4>5. linked \in Mem
        BY <4>1, <4>3, BumpEdgeKeeps
      <4> HIDE DEF linked
      <4>6. /\ linked.nodes = m.nodes /\ linked.groups = m.groups
            /\ linked.edges = Bump(m.edges, <<last, e.app>>, {origin}, e.err, t)
        BY <4>2 DEF Mem
      <4>7. \A k : At(linked.edges, k) =
               AddIf(Linked(m.groups, g, e, k), At(m.edges, k), {origin}, e.err, t)
        BY <4>4, <4>6, AtBump DEF AddIf
      <4>8. QED
        BY <2>3, <4>5, <4>6, <4>7
    <3>3. QED
      BY <3>1, <3>2
  <2> HIDE DEF linked, n
  <2>5. /\ n.nodes = m.nodes /\ n.edges = linked.edges
        /\ n.groups = Put(m.groups, g, state)
    BY <2>4 DEF Mem
  <2>6. /\ DOMAIN n.groups = DOMAIN m.groups \cup {g}
        /\ \A f \in DOMAIN m.groups : f # g => n.groups[f] = m.groups[f]
        /\ n.groups[g].lastApp = e.app
    BY <2>5 DEF Put
  <2>7. QED
    BY <2>4, <2>5, <2>6 DEF n, LinkEffect
<1>3. QED
  BY <1>1, <1>2

\* The sightings an entry e makes when the extractor holds groups: by its trace, by
\* its correlation id, by its peer.
TraceLink(groups, e, k) == e.trace # None /\ Linked(groups, <<"trace", e.trace>>, e, k)
CorrLink(groups, e, k) == e.corr # None /\ Linked(groups, <<"corr", e.corr>>, e, k)
PeerLink(e, k) == e.peer \notin {None, e.app} /\ k = <<e.app, e.peer>>

\* Append counts the entry in its node and in one edge for each signal, and hands
\* the groups the entry joins to its application.
LEMMA ObservedFacts ==
    ASSUME NEW m \in Mem, NEW e \in Entry, e.app \in Apps, clock \in Nat
    PROVE  LET t == TimeOf(e)
               n == Observed(m, e)
           IN  /\ \A a : At(n.nodes, a) = AddIf(a = e.app, At(m.nodes, a), {}, e.err, t)
               /\ \A k : At(n.edges, k) =
                     AddIf(PeerLink(e, k),
                        AddIf(CorrLink(m.groups, e, k),
                           AddIf(TraceLink(m.groups, e, k), At(m.edges, k), {"trace"}, e.err, t),
                           {"inferred"}, e.err, t),
                        {"inferred"}, e.err, t)
               /\ DOMAIN m.groups \subseteq DOMAIN n.groups
               /\ DOMAIN n.groups \subseteq DOMAIN m.groups \cup GroupsOf(e)
               /\ \A g \in DOMAIN m.groups : g \notin GroupsOf(e) => n.groups[g] = m.groups[g]
               /\ \A g \in DOMAIN n.groups : g \in GroupsOf(e) => n.groups[g].lastApp = e.app
<1> DEFINE t  == TimeOf(e)
           m1 == [m EXCEPT !.nodes = Bump(@, e.app, {}, e.err, t)]
           m2 == ByTrace(m1, e, t)
           m3 == ByCorr(m2, e, t)
           m4 == ByPeer(m3, e, t)
           gt == <<"trace", e.trace>>
           gc == <<"corr", e.corr>>
<1>1. Observed(m, e) = m4 /\ t \in Nat /\ e.err \in BOOLEAN
  <2>1. e.app # None
    BY GraphAssumption
  <2>2. t \in Nat /\ e.err \in BOOLEAN
    BY DEF TimeOf, Entry
  <2>3. QED
    BY <2>1, <2>2 DEF Observed
<1>2. e.trace # None => gt \in GroupKeys
  BY DEF Entry, GroupKeys
<1>3. e.corr # None => gc \in GroupKeys
  BY DEF Entry, GroupKeys
<1>4. \A g : g \in GroupsOf(e) <=> (e.trace # None /\ g = gt) \/ (e.corr # None /\ g = gc)
  <2>1. None \notin Ids /\ e.trace \in Ids \cup {None} /\ e.corr \in Ids \cup {None}
    BY GraphAssumption DEF Entry
  <2>2. QED
    BY <2>1 DEF GroupsOf, GroupKeys
<1>5. gt # gc
  OBVIOUS
<1>6. /\ m1 \in Mem /\ m1.edges = m.edges /\ m1.groups = m.groups
      /\ m1.nodes = Bump(m.nodes, e.app, {}, e.err, t)
  <2>1. Bump(m.nodes, e.app, {}, e.err, t) \in Maps(Apps, Agg)
    <3>1. m.nodes \in Maps(Apps, Agg) /\ {} \in SUBSET {"trace", "inferred"}
      BY DEF Mem
    <3> HIDE DEF t
    <3>2. QED
      BY <1>1, <3>1, BumpMap
  <2> HIDE DEF t
  <2>2. QED
    BY <2>1 DEF Mem
<1> HIDE DEF m1, t
<1>7. /\ m2 \in Mem /\ m2.nodes = m1.nodes
      /\ \A k : At(m2.edges, k) = AddIf(TraceLink(m.groups, e, k), At(m.edges, k), {"trace"}, e.err, t)
      /\ DOMAIN m.groups \subseteq DOMAIN m2.groups
      /\ DOMAIN m2.groups \subseteq DOMAIN m.groups \cup (IF e.trace # None THEN {gt} ELSE {})
      /\ \A g \in DOMAIN m.groups : ~(e.trace # None /\ g = gt) => m2.groups[g] = m.groups[g]
      /\ e.trace # None /\ gt \in DOMAIN m2.groups => m2.groups[gt].lastApp = e.app
  <2>1. CASE e.trace = None
    <3>1. m2 = m1
      BY <2>1 DEF ByTrace
    <3>2. QED
      BY <1>6, <2>1, <3>1 DEF TraceLink, AddIf
  <2>2. CASE e.trace # None
    <3>1. m2 = LinkGroup(m1, gt, "trace", e, t)
      BY <2>2 DEF ByTrace
    <3>2. m2 \in Mem
      BY <1>1, <1>2, <1>6, <2>2, <3>1, LinkGroupKeeps
    <3>3. \A k : TraceLink(m.groups, e, k) <=> Linked(m1.groups, gt, e, k)
      BY <1>6, <2>2 DEF TraceLink
    <3> HIDE DEF m2
    <3>4. /\ m2.nodes = m1.nodes
          /\ \A k : At(m2.edges, k) = AddIf(Linked(m1.groups, gt, e, k), At(m1.edges, k), {"trace"}, e.err, t)
          /\ DOMAIN m1.groups \subseteq DOMAIN m2.groups
          /\ DOMAIN m2.groups \subseteq DOMAIN m1.groups \cup {gt}
          /\ \A f \in DOMAIN m1.groups : f # gt => m2.groups[f] = m1.groups[f]
          /\ gt \in DOMAIN m2.groups => m2.groups[gt].lastApp = e.app
      <4> HIDE DEF gt
      <4>1. LinkEffect(m1, gt, "trace", e, t, m2)
        BY <1>1, <1>2, <1>6, <2>2, <3>1, LinkFacts
      <4>2. QED
        BY <4>1 DEF LinkEffect
    <3>5. \A k : At(m2.edges, k) = AddIf(TraceLink(m.groups, e, k), At(m.edges, k), {"trace"}, e.err, t)
      BY <1>6, <3>3, <3>4 DEF AddIf
    <3>6. QED
      BY <1>6, <2>2, <3>2, <3>4, <3>5
  <2>3. QED
    BY <2>1, <2>2
<1> HIDE DEF m2
<1>8. \A k : CorrLink(m.groups, e, k) <=> CorrLink(m2.groups, e, k)
  <2>1. gc \in DOMAIN m.groups <=> gc \in DOMAIN m2.groups
    BY <1>5, <1>7
  <2>2. gc \in DOMAIN m.groups => m2.groups[gc] = m.groups[gc]
    BY <1>5, <1>7
  <2>3. QED
    BY <2>1, <2>2 DEF CorrLink, Linked
<1>9. /\ m3 \in Mem /\ m3.nodes = m1.nodes
      /\ \A k : At(m3.edges, k) = AddIf(CorrLink(m.groups, e, k), At(m2.edges, k), {"inferred"}, e.err, t)
      /\ DOMAIN m2.groups \subseteq DOMAIN m3.groups
      /\ DOMAIN m3.groups \subseteq DOMAIN m2.groups \cup (IF e.corr # None THEN {gc} ELSE {})
      /\ \A g \in DOMAIN m2.groups : ~(e.corr # None /\ g = gc) => m3.groups[g] = m2.groups[g]
      /\ e.corr # None /\ gc \in DOMAIN m3.groups => m3.groups[gc].lastApp = e.app
  <2>1. CASE e.corr = None
    <3>1. m3 = m2
      BY <2>1 DEF ByCorr
    <3>2. QED
      BY <1>7, <2>1, <3>1 DEF CorrLink, AddIf
  <2>2. CASE e.corr # None
    <3>1. m3 = LinkGroup(m2, gc, "inferred", e, t)
      BY <2>2 DEF ByCorr
    <3>2. m3 \in Mem
      BY <1>1, <1>3, <1>7, <2>2, <3>1, LinkGroupKeeps
    <3>3. \A k : CorrLink(m.groups, e, k) <=> Linked(m2.groups, gc, e, k)
      BY <1>8, <2>2 DEF CorrLink
    <3> HIDE DEF m3
    <3>4. /\ m3.nodes = m2.nodes
          /\ \A k : At(m3.edges, k) = AddIf(Linked(m2.groups, gc, e, k), At(m2.edges, k), {"inferred"}, e.err, t)
          /\ DOMAIN m2.groups \subseteq DOMAIN m3.groups
          /\ DOMAIN m3.groups \subseteq DOMAIN m2.groups \cup {gc}
          /\ \A f \in DOMAIN m2.groups : f # gc => m3.groups[f] = m2.groups[f]
          /\ gc \in DOMAIN m3.groups => m3.groups[gc].lastApp = e.app
      <4> HIDE DEF gc
      <4>1. LinkEffect(m2, gc, "inferred", e, t, m3)
        BY <1>1, <1>3, <1>7, <2>2, <3>1, LinkFacts
      <4>2. QED
        BY <4>1 DEF LinkEffect
    <3>5. \A k : At(m3.edges, k) = AddIf(CorrLink(m.groups, e, k), At(m2.edges, k), {"inferred"}, e.err, t)
      BY <3>3, <3>4 DEF AddIf
    <3>6. QED
      BY <1>7, <2>2, <3>2, <3>4, <3>5
  <2>3. QED
    BY <2>1, <2>2
<1> HIDE DEF m3
<1>10. /\ m4.nodes = m1.nodes /\ m4.groups = m3.groups
       /\ \A k : At(m4.edges, k) = AddIf(PeerLink(e, k), At(m3.edges, k), {"inferred"}, e.err, t)
  <2>1. CASE e.peer \in {None, e.app}
    BY <1>9, <2>1 DEF ByPeer, PeerLink, AddIf
  <2>2. CASE e.peer \notin {None, e.app}
    <3>1. m4 = [m3 EXCEPT !.edges = Bump(m3.edges, <<e.app, e.peer>>, {"inferred"}, e.err, t)]
      BY <2>2 DEF ByPeer, BumpEdge
    <3> HIDE DEF m4
    <3>2. /\ m4.nodes = m3.nodes /\ m4.groups = m3.groups
          /\ m4.edges = Bump(m3.edges, <<e.app, e.peer>>, {"inferred"}, e.err, t)
      BY <1>9, <3>1 DEF Mem
    <3>3. \A k : PeerLink(e, k) <=> k = <<e.app, e.peer>>
      BY <2>2 DEF PeerLink
    <3>4. QED
      BY <1>9, <3>2, <3>3, AtBump DEF AddIf
  <2>3. QED
    BY <2>1, <2>2
<1> HIDE DEF m4, gt, gc
<1>11. \A a : At(m4.nodes, a) = AddIf(a = e.app, At(m.nodes, a), {}, e.err, t)
  BY <1>6, <1>10, AtBump DEF AddIf
<1>12. /\ DOMAIN m.groups \subseteq DOMAIN m4.groups
       /\ DOMAIN m4.groups \subseteq DOMAIN m.groups \cup GroupsOf(e)
  BY <1>4, <1>7, <1>9, <1>10
<1>13. \A g \in DOMAIN m.groups : g \notin GroupsOf(e) => m4.groups[g] = m.groups[g]
  BY <1>4, <1>7, <1>9, <1>10
<1>14. \A g \in DOMAIN m4.groups : g \in GroupsOf(e) => m4.groups[g].lastApp = e.app
  <2> SUFFICES ASSUME NEW g \in DOMAIN m4.groups, g \in GroupsOf(e)
               PROVE  m4.groups[g].lastApp = e.app
    OBVIOUS
  <2>1. CASE e.corr # None /\ g = gc
    BY <1>9, <1>10, <2>1
  <2>2. CASE e.trace # None /\ g = gt
    <3>1. g # gc /\ g \in DOMAIN m2.groups
      BY <1>5, <1>9, <1>10, <2>2
    <3>2. QED
      BY <1>7, <1>9, <1>10, <2>2, <3>1
  <2>3. QED
    BY <1>4, <2>1, <2>2
<1>15. \A k : At(m4.edges, k) =
                     AddIf(PeerLink(e, k),
                        AddIf(CorrLink(m.groups, e, k),
                           AddIf(TraceLink(m.groups, e, k), At(m.edges, k), {"trace"}, e.err, t),
                           {"inferred"}, e.err, t),
                        {"inferred"}, e.err, t)
  BY <1>7, <1>9, <1>10
<1>16. QED
  BY <1>1, <1>11, <1>12, <1>13, <1>14, <1>15 DEF t

\* A conditional observation commutes with what the other maps hold, and counts
\* one sighting.
LEMMA AddIfFacts ==
    ASSUME NEW r \in Agg0, NEW s \in Agg0, NEW c \in BOOLEAN, NEW S, NEW h, NEW x, x \notin S,
           OriginOf(x[1]) \in SUBSET {"trace", "inferred"}, h[x[3]].err \in BOOLEAN, h[x[3]].at \in Nat,
           SumOf(Merge(r, s), S, h)
    PROVE  LET u == AddIf(c, s, OriginOf(x[1]), h[x[3]].err, h[x[3]].at)
           IN  u \in Agg0 /\ SumOf(Merge(r, u), S \cup (IF c THEN {x} ELSE {}), h)
<1> DEFINE o == OriginOf(x[1])
           b == h[x[3]].err
           a == h[x[3]].at
           u == AddIf(c, s, o, b, a)
<1>1. Merge(r, s) \in Agg0
  BY MergeType
<1>2. CASE c
  <2>1. u = Add(s, o, b, a)
    BY <1>2 DEF AddIf
  <2>2. u \in Agg0 /\ Merge(r, u) = Add(Merge(r, s), o, b, a)
    <3> HIDE DEF o, b, a, u
    <3>1. o \in SUBSET {"trace", "inferred"} /\ b \in BOOLEAN /\ a \in Nat
      BY Zenon DEF o, b, a
    <3>2. QED
      BY <2>1, <3>1, MergeAdd
  <2>3. SumOf(Add(Merge(r, s), o, b, a), S \cup {x}, h)
    BY <1>1, SumAdd
  <2> HIDE DEF u
  <2>4. QED
    BY <1>2, <2>2, <2>3, Zenon DEF u, o, b, a
<1>3. CASE ~c
  <2>1. u = s /\ S \cup (IF c THEN {x} ELSE {}) = S
    BY <1>3 DEF AddIf
  <2>2. QED
    BY <2>1
<1>4. QED
  BY <1>2, <1>3

-----------------------------------------------------------------------------
(* Groups and sightings after a step *)

\* The groups map knows of each group which application the next entry follows.
GroupsKnown ==
    \A g \in GroupKeys, src \in Apps :
        FollowsIn(history, g, src, Len(history) + 1) <=>
            g \in DOMAIN mem.groups /\ mem.groups[g].lastApp = src

\* The groups an entry may join: that of its trace, that of its correlation id.
LEMMA GroupsOfAre ==
    ASSUME NEW e \in Entry
    PROVE  /\ e.trace # None => <<"trace", e.trace>> \in GroupKeys
           /\ e.corr # None => <<"corr", e.corr>> \in GroupKeys
           /\ \A g : g \in GroupsOf(e) <=> \/ e.trace # None /\ g = <<"trace", e.trace>>
                                           \/ e.corr # None /\ g = <<"corr", e.corr>>
<1>1. None \notin Ids /\ e.trace \in Ids \cup {None} /\ e.corr \in Ids \cup {None}
  BY GraphAssumption DEF Entry
<1>2. QED
  BY <1>1 DEF GroupsOf, GroupKeys

\* An entry is recorded with the groups it joined.
LEMMA RecordedFacts ==
    ASSUME NEW e \in Entry, clock \in Nat
    PROVE  /\ Recorded(e) \in Record /\ Recorded(e).app = e.app /\ Recorded(e).peer = e.peer
           /\ Recorded(e).err = e.err /\ Recorded(e).at = TimeOf(e)
           /\ Recorded(e).joined = GroupsOf(e) \cap DOMAIN mem'.groups /\ Recorded(e).removed = {}
           /\ TimeOf(e) \in Nat /\ e.err \in BOOLEAN
<1>1. /\ e.app \in Apps \cup {None} /\ e.peer \in Apps \cup {None} /\ e.err \in BOOLEAN
      /\ TimeOf(e) \in Nat
  BY DEF Entry, TimeOf
<1>2. GroupsOf(e) \cap DOMAIN mem'.groups \in SUBSET GroupKeys
  BY DEF GroupsOf
<1>3. Recorded(e) \in Record
  BY <1>1, <1>2, Zenon DEF Recorded, Record
<1>4. QED
  BY <1>1, <1>3 DEF Recorded

\* Append keeps GroupsKnown.
LEMMA ObserveGroups ==
    ASSUME IInv, history \in Seq(Record), GroupsKnown, NEW e \in Entry, e.app \in Apps, Observe(e)
    PROVE  GroupsKnown' /\ history' = Append(history, Recorded(e)) /\ history' \in Seq(Record)
<1> DEFINE rec == Recorded(e)
           n   == Observed(mem, e)
<1>1. e.app # None /\ clock \in Nat /\ mem \in Mem
  BY GraphAssumption DEF IInv, Control
<1>2. mem' = n /\ history' = Append(history, rec)
  BY <1>1 DEF Observe
<1>3. /\ rec \in Record /\ rec.app = e.app /\ rec.removed = {}
      /\ rec.joined = GroupsOf(e) \cap DOMAIN mem'.groups
  BY <1>1, RecordedFacts
<1>4. /\ DOMAIN mem.groups \subseteq DOMAIN n.groups
      /\ DOMAIN n.groups \subseteq DOMAIN mem.groups \cup GroupsOf(e)
      /\ \A g \in DOMAIN mem.groups : g \notin GroupsOf(e) => n.groups[g] = mem.groups[g]
      /\ \A g \in DOMAIN n.groups : g \in GroupsOf(e) => n.groups[g].lastApp = e.app
  BY <1>1, ObservedFacts
<1> HIDE DEF rec, n
<1>5. Len(history') + 1 = Len(history) + 2 /\ history' \in Seq(Record)
  <2>1. /\ Append(history, rec) \in Seq(Record) /\ Len(history) \in Nat
        /\ Len(Append(history, rec)) = Len(history) + 1
    BY <1>3, HistoryKept
  <2>2. QED
    BY <1>2, <2>1
<1>6. ASSUME NEW g \in GroupKeys, NEW src \in Apps
      PROVE  FollowsIn(history', g, src, Len(history') + 1) <=>
                g \in DOMAIN mem'.groups /\ mem'.groups[g].lastApp = src
  <2>1. FollowsIn(history', g, src, Len(history') + 1) <=>
               IF g \in rec.joined THEN rec.app = src
               ELSE g \notin rec.removed /\ FollowsIn(history, g, src, Len(history) + 1)
    BY <1>2, <1>3, <1>5, FollowsNext
  <2>2. FollowsIn(history, g, src, Len(history) + 1) <=>
            g \in DOMAIN mem.groups /\ mem.groups[g].lastApp = src
    BY DEF GroupsKnown
  <2>3. QED
    BY <1>2, <1>3, <1>4, <2>1, <2>2
<1>7. QED
  BY <1>2, <1>5, <1>6 DEF GroupsKnown, rec

\* Sightings point into the history.
LEMMA SightingsPoint ==
    ASSUME NEW h, NEW k
    PROVE  /\ \A x \in EdgesIn(h, k) : x[3] \in 1 .. Len(h)
           /\ \A x \in NodesIn(h, k) : x[3] \in 1 .. Len(h)
<1>1. ASSUME NEW x \in EdgesIn(h, k) PROVE x[3] \in 1 .. Len(h)
  <2>1. PICK j \in 1 .. Len(h) : SightedAt(h, k, x, j)
    BY EdgesAre
  <2>2. x[3] = j
    BY <2>1 DEF SightedAt, InGroup, ByName
  <2>3. QED
    BY <2>2
<1>2. QED
  BY <1>1 DEF NodesIn

\* An entry is one sighting of its node.
LEMMA ObserveNodes ==
    ASSUME IInv, history \in Seq(Record), GroupsKnown, NEW e \in Entry, e.app \in Apps, Observe(e),
           NEW a \in Apps, NEW r \in Agg0, SumOf(Merge(r, At(mem.nodes, a)), NodesIn(history, a), history)
    PROVE  SumOf(Merge(r, At(mem'.nodes, a)), NodesIn(history', a), history')
<1> DEFINE rec == Recorded(e)
           n   == Len(history) + 1
           x   == <<"entry", None, n>>
           S   == NodesIn(history, a)
           c   == a = e.app
<1>1. e.app # None /\ clock \in Nat /\ mem \in Mem
  BY GraphAssumption DEF IInv, Control
<1>2. mem' = Observed(mem, e) /\ history' = Append(history, rec)
  BY <1>1 DEF Observe
<1>3. /\ rec \in Record /\ rec.app = e.app /\ rec.err = e.err /\ rec.at = TimeOf(e)
      /\ TimeOf(e) \in Nat /\ e.err \in BOOLEAN
  BY <1>1, RecordedFacts
<1>4. At(mem'.nodes, a) = AddIf(c, At(mem.nodes, a), {}, e.err, TimeOf(e))
  BY <1>1, <1>2, ObservedFacts, ZenonT(60)
<1> HIDE DEF rec
<1>5. /\ Len(history) \in Nat /\ history'[n] = rec
      /\ \A i \in 1 .. Len(history) : history'[i] = history[i]
  BY <1>2, <1>3, HistoryKept
<1>6. NodesIn(history', a) = S \cup (IF c THEN {x} ELSE {})
  BY <1>2, <1>3, NodesNext
<1>7. At(mem.nodes, a) \in Agg0
  BY <1>1, AtType DEF Mem
<1>8. x[1] = "entry" /\ x[3] = n /\ OriginOf(x[1]) = {}
  BY DEF OriginOf
<1>9. x \notin S /\ SumOf(Merge(r, At(mem.nodes, a)), S, history')
  <2>1. \A s \in S : s[3] \in 1 .. Len(history)
    BY SightingsPoint
  <2>2. x \notin S
    BY <1>5, <1>8, <2>1
  <2> HIDE DEF S
  <2>3. SumOf(Merge(r, At(mem.nodes, a)), S, history)
    BY DEF S
  <2>4. SumOf(Merge(r, At(mem.nodes, a)), S, history')
    BY <1>5, <2>1, <2>3, SumSame
  <2>5. QED
    BY <2>2, <2>4
<1>10. /\ history'[x[3]].err = e.err /\ history'[x[3]].at = TimeOf(e)
       /\ OriginOf(x[1]) \in SUBSET {"trace", "inferred"} /\ c \in BOOLEAN
       /\ history'[x[3]].err \in BOOLEAN /\ history'[x[3]].at \in Nat
  <2>1. history'[x[3]].err = e.err /\ history'[x[3]].at = TimeOf(e)
    BY <1>3, <1>5, <1>8
  <2>2. QED
    BY <1>3, <1>8, <2>1
<1> HIDE DEF x, c, S
<1>11. SumOf(Merge(r, AddIf(c, At(mem.nodes, a), OriginOf(x[1]), history'[x[3]].err, history'[x[3]].at)),
             S \cup (IF c THEN {x} ELSE {}), history')
  BY <1>7, <1>9, <1>10, AddIfFacts
<1>12. QED
  BY <1>4, <1>6, <1>8, <1>10, <1>11

\* The sightings an entry adds to an edge: one for each signal that links it.
LEMMA EdgesAfterEntry ==
    ASSUME IInv, history \in Seq(Record), GroupsKnown, NEW e \in Entry, e.app \in Apps, Observe(e),
           NEW k \in EdgeKeys
    PROVE  LET n == Len(history) + 1
           IN  EdgesIn(history', k) =
                  ((EdgesIn(history, k)
                      \cup (IF TraceLink(mem.groups, e, k) THEN {<<"trace", e.trace, n>>} ELSE {}))
                      \cup (IF CorrLink(mem.groups, e, k) THEN {<<"corr", e.corr, n>>} ELSE {}))
                      \cup (IF PeerLink(e, k) THEN {<<"peer", None, n>>} ELSE {})
<1> DEFINE rec == Recorded(e)
           n   == Len(history) + 1
           gt  == <<"trace", e.trace>>
           gc  == <<"corr", e.corr>>
<1>1. e.app # None /\ clock \in Nat /\ mem \in Mem
  BY GraphAssumption DEF IInv, Control
<1>2. mem' = Observed(mem, e) /\ history' = Append(history, rec)
  BY <1>1 DEF Observe
<1>3. /\ rec \in Record /\ rec.app = e.app /\ rec.peer = e.peer
      /\ rec.joined = GroupsOf(e) \cap DOMAIN mem'.groups
  BY <1>1, RecordedFacts
<1>4. DOMAIN mem.groups \subseteq DOMAIN mem'.groups
  BY <1>1, <1>2, ObservedFacts
<1>5. /\ e.trace # None => gt \in GroupKeys
      /\ e.corr # None => gc \in GroupKeys
      /\ \A g : g \in GroupsOf(e) <=> (e.trace # None /\ g = gt) \/ (e.corr # None /\ g = gc)
  BY GroupsOfAre
<1>6. k = <<k[1], k[2]>> /\ k[1] \in Apps /\ k[2] \in Apps /\ k[2] # None
  BY GraphAssumption DEF EdgeKeys
<1> HIDE DEF rec
<1>7. /\ Len(history) \in Nat /\ 1 .. Len(history') = (1 .. Len(history)) \cup {n}
  BY <1>2, <1>3, HistoryKept
<1>8. ASSUME NEW g \in GroupKeys
      PROVE  (k[1] # k[2] /\ g \in rec.joined /\ rec.app = k[2] /\ FollowsIn(history, g, k[1], n))
             <=> g \in GroupsOf(e) /\ Linked(mem.groups, g, e, k)
  <2>1. FollowsIn(history, g, k[1], n) <=> g \in DOMAIN mem.groups /\ mem.groups[g].lastApp = k[1]
    BY <1>6 DEF GroupsKnown
  <2>2. Linked(mem.groups, g, e, k) <=>
           /\ g \in DOMAIN mem.groups /\ mem.groups[g].lastApp = k[1] /\ e.app = k[2] /\ k[1] # k[2]
    <3>1. \A p, q : k = <<p, q>> <=> k[1] = p /\ k[2] = q
      BY <1>6
    <3>2. QED
      BY <3>1 DEF Linked
  <2>3. QED
    BY <1>3, <1>4, <2>1, <2>2
<1>9. PeerLink(e, k) <=> k[1] # k[2] /\ rec.app = k[1] /\ rec.peer = k[2]
  <2>1. k = <<e.app, e.peer>> <=> k[1] = e.app /\ k[2] = e.peer
    BY <1>6
  <2>2. QED
    BY <1>3, <1>6, <2>1 DEF PeerLink
<1>10. ASSUME NEW x
       PROVE  x \in EdgesIn(history', k) <=>
                 \/ x \in EdgesIn(history, k)
                 \/ TraceLink(mem.groups, e, k) /\ x = <<"trace", e.trace, n>>
                 \/ CorrLink(mem.groups, e, k) /\ x = <<"corr", e.corr, n>>
                 \/ PeerLink(e, k) /\ x = <<"peer", None, n>>
  <2>1. /\ x \in EdgesIn(history', k) <=> \E j \in 1 .. Len(history') : SightedAt(history', k, x, j)
        /\ x \in EdgesIn(history, k) <=> \E j \in 1 .. Len(history) : SightedAt(history, k, x, j)
    BY EdgesAre
  <2>2. /\ \A j \in 1 .. Len(history) : SightedAt(history', k, x, j) <=> SightedAt(history, k, x, j)
        /\ SightedAt(history', k, x, n) <=>
                     /\ k[1] # k[2]
                     /\ \/ \E g \in GroupKeys : /\ x = <<g[1], g[2], n>> /\ g \in rec.joined
                                                /\ rec.app = k[2] /\ FollowsIn(history, g, k[1], n)
                        \/ x = <<"peer", None, n>> /\ rec.app = k[1] /\ rec.peer = k[2]
    BY <1>2, <1>3, SightedNext, SMTT(60)
  <2>3. gt[1] = "trace" /\ gt[2] = e.trace /\ gc[1] = "corr" /\ gc[2] = e.corr
    OBVIOUS
  <2> HIDE DEF n, gt, gc
  <2>4. SightedAt(history', k, x, n) <=>
           \/ \E g \in GroupKeys : x = <<g[1], g[2], n>> /\ g \in GroupsOf(e) /\ Linked(mem.groups, g, e, k)
           \/ PeerLink(e, k) /\ x = <<"peer", None, n>>
    BY <1>8, <1>9, <2>2
  <2>5. (\E g \in GroupKeys : x = <<g[1], g[2], n>> /\ g \in GroupsOf(e) /\ Linked(mem.groups, g, e, k))
        <=> \/ e.trace # None /\ Linked(mem.groups, gt, e, k) /\ x = <<gt[1], gt[2], n>>
            \/ e.corr # None /\ Linked(mem.groups, gc, e, k) /\ x = <<gc[1], gc[2], n>>
    BY <1>5
  <2>6. /\ TraceLink(mem.groups, e, k) <=> e.trace # None /\ Linked(mem.groups, gt, e, k)
        /\ CorrLink(mem.groups, e, k) <=> e.corr # None /\ Linked(mem.groups, gc, e, k)
    BY DEF TraceLink, CorrLink, gt, gc
  <2>7. QED
    BY <1>7, <2>1, <2>2, <2>3, <2>4, <2>5, <2>6
<1>11. QED
  BY <1>10

\* An entry is counted in an edge once for each sighting it makes.
LEMMA ObserveEdges ==
    ASSUME IInv, history \in Seq(Record), GroupsKnown, NEW e \in Entry, e.app \in Apps, Observe(e),
           NEW k \in EdgeKeys, NEW r \in Agg0,
           SumOf(Merge(r, At(mem.edges, k)), EdgesIn(history, k), history)
    PROVE  SumOf(Merge(r, At(mem'.edges, k)), EdgesIn(history', k), history')
<1> DEFINE rec == Recorded(e)
           n   == Len(history) + 1
           xt  == <<"trace", e.trace, n>>
           xc  == <<"corr", e.corr, n>>
           xp  == <<"peer", None, n>>
           ct  == TraceLink(mem.groups, e, k)
           cc  == CorrLink(mem.groups, e, k)
           cp  == PeerLink(e, k)
           t   == TimeOf(e)
           S0  == EdgesIn(history, k)
           S1  == S0 \cup (IF ct THEN {xt} ELSE {})
           S2  == S1 \cup (IF cc THEN {xc} ELSE {})
           S3  == S2 \cup (IF cp THEN {xp} ELSE {})
           v0  == At(mem.edges, k)
           v1  == AddIf(ct, v0, {"trace"}, e.err, t)
           v2  == AddIf(cc, v1, {"inferred"}, e.err, t)
           v3  == AddIf(cp, v2, {"inferred"}, e.err, t)
<1>1. e.app # None /\ clock \in Nat /\ mem \in Mem
  BY GraphAssumption DEF IInv, Control
<1>2. mem' = Observed(mem, e) /\ history' = Append(history, rec)
  BY <1>1 DEF Observe
<1>3. /\ rec \in Record /\ rec.err = e.err /\ rec.at = TimeOf(e)
      /\ TimeOf(e) \in Nat /\ e.err \in BOOLEAN
  BY <1>1, RecordedFacts
<1>4. At(mem'.edges, k) = v3
  BY <1>1, <1>2, ObservedFacts
<1>5. EdgesIn(history', k) = S3
  BY EdgesAfterEntry
<1> HIDE DEF rec
<1>6. /\ Len(history) \in Nat /\ history'[n] = rec
      /\ \A i \in 1 .. Len(history) : history'[i] = history[i]
  BY <1>2, <1>3, HistoryKept
<1>7. v0 \in Agg0
  BY <1>1, AtType DEF Mem
<1>8. \A s \in S0 : s[3] \in 1 .. Len(history)
  BY SightingsPoint
<1>9. xt \notin S0 /\ xc \notin S1 /\ xp \notin S2
  <2>1. xt[3] = n /\ xc[3] = n /\ xp[3] = n /\ xt # xc /\ xt # xp /\ xc # xp /\ n \notin 1 .. Len(history)
    BY <1>6
  <2>2. QED
    BY <1>8, <2>1
<1>10. SumOf(Merge(r, v0), S0, history')
  <2> HIDE DEF S0, v0
  <2>1. SumOf(Merge(r, v0), S0, history)
    BY DEF S0, v0
  <2>2. QED
    BY <1>6, <1>8, <2>1, SumSame
<1>11. /\ OriginOf(xt[1]) = {"trace"} /\ OriginOf(xc[1]) = {"inferred"} /\ OriginOf(xp[1]) = {"inferred"}
       /\ {"trace"} \in SUBSET {"trace", "inferred"} /\ {"inferred"} \in SUBSET {"trace", "inferred"}
  BY DEF OriginOf
<1>12. /\ history'[xt[3]].err = e.err /\ history'[xt[3]].at = t
       /\ history'[xc[3]].err = e.err /\ history'[xc[3]].at = t
       /\ history'[xp[3]].err = e.err /\ history'[xp[3]].at = t
  BY <1>3, <1>6
<1>13. ct \in BOOLEAN /\ cc \in BOOLEAN /\ cp \in BOOLEAN
  BY DEF TraceLink, CorrLink, PeerLink, Linked
<1>14. ASSUME NEW s \in Agg0, NEW c \in BOOLEAN, NEW S, NEW x, x \notin S,
              OriginOf(x[1]) \in SUBSET {"trace", "inferred"},
              history'[x[3]].err = e.err, history'[x[3]].at = t,
              SumOf(Merge(r, s), S, history')
       PROVE  /\ AddIf(c, s, OriginOf(x[1]), e.err, t) \in Agg0
              /\ SumOf(Merge(r, AddIf(c, s, OriginOf(x[1]), e.err, t)), S \cup (IF c THEN {x} ELSE {}), history')
  <2>1. history'[x[3]].err \in BOOLEAN /\ history'[x[3]].at \in Nat
    BY <1>3, <1>14, Zenon
  <2>2. /\ AddIf(c, s, OriginOf(x[1]), history'[x[3]].err, history'[x[3]].at) \in Agg0
        /\ SumOf(Merge(r, AddIf(c, s, OriginOf(x[1]), history'[x[3]].err, history'[x[3]].at)),
                 S \cup (IF c THEN {x} ELSE {}), history')
    BY <1>14, <2>1, AddIfFacts
  <2>3. QED
    BY <1>14, <2>2, Zenon
<1> HIDE DEF n, xt, xc, xp, ct, cc, cp, t, S0, v0
<1>15. v1 \in Agg0 /\ SumOf(Merge(r, v1), S1, history')
  BY <1>7, <1>9, <1>10, <1>11, <1>12, <1>13, <1>14
<1> HIDE DEF v1, S1
<1>16. v2 \in Agg0 /\ SumOf(Merge(r, v2), S2, history')
  BY <1>9, <1>11, <1>12, <1>13, <1>14, <1>15
<1> HIDE DEF v2, S2
<1>17. v3 \in Agg0 /\ SumOf(Merge(r, v3), S3, history')
  BY <1>9, <1>11, <1>12, <1>13, <1>14, <1>16
<1>18. QED
  BY <1>4, <1>5, <1>17

-----------------------------------------------------------------------------
(* What is held outside the live maps *)

\* The stored row, the batch while no transaction has committed or lost it, and the lost.
Rest(l, rows, unsaved, gone, k) ==
    Merge(Merge(At(Saved(rows), k), IF l = "upsert" THEN At(unsaved, k) ELSE Fresh), At(gone, k))

\* The order of two merges does not matter.
LEMMA MergeSwap ==
    ASSUME NEW s \in Agg0, NEW t \in Agg0, NEW u \in Agg0
    PROVE  Merge(Merge(s, t), u) = Merge(Merge(s, u), t)
<1>1. Merge(Merge(s, t), u) = Merge(s, Merge(t, u)) /\ Merge(Merge(s, u), t) = Merge(s, Merge(u, t))
  BY MergeAssoc
<1>2. Merge(t, u) = Merge(u, t)
  BY MergeType
<1>3. QED
  BY <1>1, <1>2

\* Its parts are aggregates.
LEMMA RestType ==
    ASSUME NEW K, NEW rows \in Maps(K, Row), NEW unsaved \in Maps(K, Agg), NEW gone \in Maps(K, Agg),
           NEW k, NEW l
    PROVE  /\ At(Saved(rows), k) \in Agg0 /\ At(unsaved, k) \in Agg0 /\ At(gone, k) \in Agg0
           /\ Rest(l, rows, unsaved, gone, k) \in Agg0
<1>1. At(Saved(rows), k) \in Agg0 /\ At(unsaved, k) \in Agg0 /\ At(gone, k) \in Agg0
  BY SavedFacts, AtType
<1>2. (IF l = "upsert" THEN At(unsaved, k) ELSE Fresh) \in Agg0
  BY <1>1, FreshType
<1>3. Merge(At(Saved(rows), k), IF l = "upsert" THEN At(unsaved, k) ELSE Fresh) \in Agg0
  BY <1>1, <1>2, MergeType
<1>4. QED
  BY <1>1, <1>3, MergeType DEF Rest

\* A flush moves the live map to the batch.
LEMMA RestFlush ==
    ASSUME NEW rows, NEW unsaved, NEW gone, NEW live, NEW k, NEW l, NEW j,
           At(Saved(rows), k) \in Agg0, At(live, k) \in Agg0, At(gone, k) \in Agg0,
           l # "upsert", j = "upsert" \/ At(live, k) = Fresh
    PROVE  Rest(j, rows, live, gone, k) = Merge(Rest(l, rows, unsaved, gone, k), At(live, k))
<1> DEFINE a == At(Saved(rows), k)
           b == At(live, k)
           c == At(gone, k)
<1>1. a \in Agg0 /\ b \in Agg0 /\ c \in Agg0
  OBVIOUS
<1>2. Rest(l, rows, unsaved, gone, k) = Merge(Merge(a, Fresh), c)
  BY DEF Rest
<1>3. Rest(j, rows, live, gone, k) = Merge(Merge(a, b), c)
  <2>1. CASE j = "upsert"
    BY <2>1 DEF Rest
  <2>2. CASE j # "upsert"
    BY <2>2 DEF Rest
  <2>3. QED
    BY <2>1, <2>2
<1> HIDE DEF a, b, c
<1>4. Merge(a, Fresh) = a
  BY <1>1, MergeType
<1>5. QED
  BY <1>1, <1>2, <1>3, <1>4, MergeSwap DEF b

\* A committed transaction moves the batch to the rows.
LEMMA RestCommit ==
    ASSUME NEW K, NEW rows \in Maps(K, Row), NEW unsaved \in Maps(K, Agg), NEW gone \in Maps(K, Agg), NEW k
    PROVE  Rest("metrics", Upserted(rows, unsaved), unsaved, gone, k) = Rest("upsert", rows, unsaved, gone, k)
<1> DEFINE a == At(Saved(rows), k)
           b == At(unsaved, k)
           c == At(gone, k)
<1>1. a \in Agg0 /\ b \in Agg0 /\ c \in Agg0
  BY RestType
<1>2. At(Saved(Upserted(rows, unsaved)), k) = Merge(a, b)
  BY AtUpserted
<1>3. Rest("metrics", Upserted(rows, unsaved), unsaved, gone, k) = Merge(Merge(Merge(a, b), Fresh), c)
  BY <1>2 DEF Rest
<1>4. Merge(Merge(a, b), Fresh) = Merge(a, b)
  BY <1>1, MergeType
<1>5. QED
  BY <1>3, <1>4 DEF Rest

\* A failed transaction moves it to the lost.
LEMMA RestFail ==
    ASSUME NEW K, NEW rows \in Maps(K, Row), NEW unsaved \in Maps(K, Agg), NEW gone \in Maps(K, Agg), NEW k
    PROVE  Rest("metrics", rows, unsaved, MergeAll(gone, unsaved), k) = Rest("upsert", rows, unsaved, gone, k)
<1> DEFINE a == At(Saved(rows), k)
           b == At(unsaved, k)
           c == At(gone, k)
<1>1. a \in Agg0 /\ b \in Agg0 /\ c \in Agg0
  BY RestType
<1>2. At(MergeAll(gone, unsaved), k) = Merge(c, b)
  BY AtMergeAll
<1>3. Rest("metrics", rows, unsaved, MergeAll(gone, unsaved), k) = Merge(Merge(a, Fresh), Merge(c, b))
  BY <1>2 DEF Rest
<1>4. Rest("upsert", rows, unsaved, gone, k) = Merge(Merge(a, b), c)
  BY DEF Rest
<1> HIDE DEF a, b, c
<1>5. Merge(a, Fresh) = a /\ Merge(Merge(a, c), b) = Merge(a, Merge(c, b))
      /\ Merge(Merge(a, b), c) = Merge(Merge(a, c), b)
  BY <1>1, MergeType, MergeAssoc, MergeSwap
<1>6. QED
  BY <1>3, <1>4, <1>5

\* A restart moves the live map and an uncommitted batch to the lost.
LEMMA RestRestart ==
    ASSUME NEW K, NEW rows \in Maps(K, Row), NEW unsaved \in Maps(K, Agg), NEW gone \in Maps(K, Agg),
           NEW live \in Maps(K, Agg), NEW k, NEW l
    PROVE  Rest("select", rows, Empty,
                MergeAll(MergeAll(gone, live), IF l = "upsert" THEN unsaved ELSE Empty), k)
           = Merge(Rest(l, rows, unsaved, gone, k), At(live, k))
<1> DEFINE a == At(Saved(rows), k)
           b == IF l = "upsert" THEN At(unsaved, k) ELSE Fresh
           c == At(gone, k)
           d == At(live, k)
           f == IF l = "upsert" THEN unsaved ELSE Empty
<1>1. a \in Agg0 /\ b \in Agg0 /\ c \in Agg0 /\ d \in Agg0
  BY RestType, FreshType
<1>2. f \in Maps(K, Agg) /\ At(f, k) = b
  BY EmptyMap, FreshType
<1>3. At(MergeAll(MergeAll(gone, live), f), k) = Merge(Merge(c, d), b)
  <2> HIDE DEF f
  <2>1. MergeAll(gone, live) \in Maps(K, Agg) /\ At(MergeAll(gone, live), k) = Merge(c, d)
    BY AtMergeAll
  <2>2. QED
    BY <1>2, <2>1, AtMergeAll
<1>4. Rest("select", rows, Empty, MergeAll(MergeAll(gone, live), f), k)
         = Merge(Merge(a, Fresh), Merge(Merge(c, d), b))
  BY <1>3 DEF Rest
<1>5. Rest(l, rows, unsaved, gone, k) = Merge(Merge(a, b), c)
  BY DEF Rest
<1> HIDE DEF a, b, c, d
<1>6. Merge(a, Fresh) = a /\ Merge(c, d) \in Agg0 /\ Merge(a, b) \in Agg0
  BY <1>1, MergeType
<1>7. Merge(a, Merge(Merge(c, d), b)) = Merge(a, Merge(b, Merge(c, d)))
  BY <1>1, <1>6, MergeType
<1>8. Merge(a, Merge(b, Merge(c, d))) = Merge(Merge(a, b), Merge(c, d))
  BY <1>1, <1>6, MergeAssoc
<1>9. Merge(Merge(a, b), Merge(c, d)) = Merge(Merge(Merge(a, b), c), d)
  BY <1>1, <1>6, MergeAssoc
<1>10. QED
  BY <1>4, <1>5, <1>6, <1>7, <1>8, <1>9 DEF d

\* Otherwise the batch does not count.
LEMMA RestIdle ==
    ASSUME NEW rows, NEW unsaved, NEW other, NEW gone, NEW k, NEW l, NEW j, l # "upsert", j # "upsert"
    PROVE  Rest(l, rows, unsaved, gone, k) = Rest(j, rows, other, gone, k)
BY DEF Rest

-----------------------------------------------------------------------------
(* The accounting invariant *)

\* A count of the series; none when the key is absent.
Num(f, k) == IF k \in DOMAIN f THEN f[k] ELSE 0

\* The same, for the state of the system.
NodeRest(a) == Rest(loop, store.nodes, batch.nodes, lost.nodes, a)
EdgeRest(k) == Rest(loop, store.edges, batch.edges, lost.edges, k)

\* Types of the ghosts, and: a batch exists only while ApplyGraph runs.
Ghosts ==
    /\ lost \in Batch /\ history \in Seq(Record)
    /\ metrics \in Maps(EdgeKeys, Nat) /\ unmeasured \in Maps(EdgeKeys, Nat)
    /\ loop \notin {"upsert", "metrics"} => DOMAIN batch.nodes = {} /\ DOMAIN batch.edges = {}

\* Each node and edge sums its sightings.
NodeSums ==
    \A a \in Apps : SumOf(Merge(NodeRest(a), At(mem.nodes, a)), NodesIn(history, a), history)
EdgeSums ==
    \A k \in EdgeKeys : SumOf(Merge(EdgeRest(k), At(mem.edges, k)), EdgesIn(history, k), history)

\* What left the live maps is in the series, on its way there, or missing from it.
Metered ==
    \A k \in EdgeKeys :
        EdgeRest(k).count = Count(batch.edges, k) + (Num(metrics, k) + Num(unmeasured, k))

\* The inductive invariant of the accounting.
Accounts == IInv /\ Ghosts /\ GroupsKnown /\ NodeSums /\ EdgeSums /\ Metered

\* The maps of a state.
LEMMA AccountTypes ==
    ASSUME Accounts
    PROVE  /\ store.nodes \in Maps(Apps, Row) /\ store.edges \in Maps(EdgeKeys, Row)
           /\ batch.nodes \in Maps(Apps, Agg) /\ batch.edges \in Maps(EdgeKeys, Agg)
           /\ lost.nodes \in Maps(Apps, Agg) /\ lost.edges \in Maps(EdgeKeys, Agg)
           /\ mem.nodes \in Maps(Apps, Agg) /\ mem.edges \in Maps(EdgeKeys, Agg)
           /\ \A a : NodeRest(a) \in Agg0
           /\ \A k : EdgeRest(k) \in Agg0
<1>1. /\ store.nodes \in Maps(Apps, Row) /\ store.edges \in Maps(EdgeKeys, Row)
      /\ batch.nodes \in Maps(Apps, Agg) /\ batch.edges \in Maps(EdgeKeys, Agg)
      /\ lost.nodes \in Maps(Apps, Agg) /\ lost.edges \in Maps(EdgeKeys, Agg)
      /\ mem.nodes \in Maps(Apps, Agg) /\ mem.edges \in Maps(EdgeKeys, Agg)
  BY DEF Accounts, IInv, Ghosts, Tables, Batch, Mem
<1>2. QED
  BY <1>1, RestType DEF NodeRest, EdgeRest

\* A new extractor on empty stores has nothing to account for.
LEMMA AccountsInit == Init => Accounts
<1> SUFFICES ASSUME Init PROVE Accounts
  OBVIOUS
<1>1. IInv /\ EmptyBatch \in Batch
  BY InitIInv, FreshFacts
<1>2. /\ loop = "select" /\ history = <<>> /\ Len(history) = 0
      /\ store.nodes = Empty /\ store.edges = Empty /\ batch.nodes = Empty /\ batch.edges = Empty
      /\ lost.nodes = Empty /\ lost.edges = Empty /\ mem.nodes = Empty /\ mem.edges = Empty
      /\ mem.groups = Empty /\ metrics = Empty /\ unmeasured = Empty /\ DOMAIN Empty = {}
  BY DEF Init, EmptyBatch, FreshMem, Empty
<1>3. Ghosts
  <2>1. Empty \in Maps(EdgeKeys, Nat)
    BY EmptyMap
  <2>2. lost \in Batch
    BY <1>1 DEF Init
  <2>3. QED
    BY <1>2, <2>1, <2>2 DEF Ghosts
<1>4. GroupsKnown
  <2>1. \A g, src : ~FollowsIn(history, g, src, Len(history) + 1)
    BY <1>2 DEF FollowsIn
  <2>2. QED
    BY <1>2, <2>1 DEF GroupsKnown
<1>5. \A k : NodesIn(history, k) = {} /\ EdgesIn(history, k) = {}
  BY <1>2, SightingsPoint
<1>6. \A k : At(Empty, k) = Fresh /\ At(Saved(Empty), k) = Fresh
  BY DEF At, Saved, Empty
<1>7. Fresh \in Agg0 /\ Merge(Fresh, Fresh) = Fresh
  BY FreshType, MergeType
<1>8. \A k : NodeRest(k) = Fresh /\ EdgeRest(k) = Fresh
  BY <1>2, <1>6, <1>7 DEF NodeRest, EdgeRest, Rest
<1>9. NodeSums /\ EdgeSums
  BY <1>2, <1>5, <1>6, <1>7, <1>8, SumNone DEF NodeSums, EdgeSums
<1>10. Metered
  BY <1>2, <1>8 DEF Metered, Count, Num, Fresh
<1>11. QED
  BY <1>1, <1>3, <1>4, <1>9, <1>10 DEF Accounts

\* The sums stay when each key's total and the sightings do.
LEMMA SumsKept ==
    ASSUME NodeSums, EdgeSums,
           \A a \in Apps : /\ NodesIn(history', a) = NodesIn(history, a)
                           /\ Merge(NodeRest(a)', At(mem'.nodes, a)) = Merge(NodeRest(a), At(mem.nodes, a)),
           \A k \in EdgeKeys : /\ EdgesIn(history', k) = EdgesIn(history, k)
                               /\ Merge(EdgeRest(k)', At(mem'.edges, k)) = Merge(EdgeRest(k), At(mem.edges, k)),
           \A i \in 1 .. Len(history) : history'[i] = history[i]
    PROVE  NodeSums' /\ EdgeSums'
<1>1. ASSUME NEW v, NEW S, SumOf(v, S, history), \A x \in S : x[3] \in 1 .. Len(history)
      PROVE  SumOf(v, S, history')
  BY <1>1, SumSame
<1>2. ASSUME NEW a \in Apps
      PROVE  SumOf(Merge(NodeRest(a)', At(mem'.nodes, a)), NodesIn(history', a), history')
  <2>1. SumOf(Merge(NodeRest(a), At(mem.nodes, a)), NodesIn(history, a), history)
    BY DEF NodeSums
  <2>2. \A x \in NodesIn(history, a) : x[3] \in 1 .. Len(history)
    BY SightingsPoint
  <2>3. QED
    BY <1>1, <2>1, <2>2
<1>3. ASSUME NEW k \in EdgeKeys
      PROVE  SumOf(Merge(EdgeRest(k)', At(mem'.edges, k)), EdgesIn(history', k), history')
  <2>1. SumOf(Merge(EdgeRest(k), At(mem.edges, k)), EdgesIn(history, k), history)
    BY DEF EdgeSums
  <2>2. \A x \in EdgesIn(history, k) : x[3] \in 1 .. Len(history)
    BY SightingsPoint
  <2>3. QED
    BY <1>1, <2>1, <2>2
<1>4. QED
  BY <1>2, <1>3 DEF NodeSums, EdgeSums

\* Groups leave the map, by eviction or restart, as the history says; sightings stay.
LEMMA RemovalKeeps ==
    ASSUME history \in Seq(Record), GroupsKnown, NEW gs \in SUBSET GroupKeys,
           history' = IF gs = {} THEN history ELSE Append(history, Removal(gs)),
           DOMAIN mem'.groups = DOMAIN mem.groups \ gs,
           \A g \in DOMAIN mem'.groups : mem'.groups[g] = mem.groups[g]
    PROVE  /\ GroupsKnown' /\ history' \in Seq(Record)
           /\ \A a \in Apps : NodesIn(history', a) = NodesIn(history, a)
           /\ \A k \in EdgeKeys : EdgesIn(history', k) = EdgesIn(history, k)
           /\ \A i \in 1 .. Len(history) : history'[i] = history[i]
<1> DEFINE rec == Removal(gs)
<1>1. CASE gs = {}
  <2>1. history' = history /\ DOMAIN mem'.groups = DOMAIN mem.groups
    BY <1>1
  <2>2. GroupsKnown'
    BY <2>1 DEF GroupsKnown
  <2>3. QED
    BY <2>1, <2>2
<1>2. CASE gs # {}
  <2>1. rec \in Record /\ rec.app = None /\ rec.joined = {} /\ rec.removed = gs
    BY DEF Removal, Record
  <2>2. history' = Append(history, rec)
    BY <1>2
  <2> HIDE DEF rec
  <2>3. /\ history' \in Seq(Record) /\ Len(history) \in Nat /\ Len(history') = Len(history) + 1
        /\ \A i \in 1 .. Len(history) : history'[i] = history[i]
        /\ 1 .. Len(history') = (1 .. Len(history)) \cup {Len(history) + 1}
    BY <2>1, <2>2, HistoryKept
  <2>4. ASSUME NEW g \in GroupKeys, NEW src \in Apps
        PROVE  FollowsIn(history', g, src, Len(history') + 1) <=>
                  g \in DOMAIN mem'.groups /\ mem'.groups[g].lastApp = src
    <3>1. Len(history') + 1 = Len(history) + 2
      BY <2>3
    <3>2. FollowsIn(history', g, src, Len(history') + 1) <=>
             g \notin gs /\ FollowsIn(history, g, src, Len(history) + 1)
      BY <2>1, <2>2, <3>1, FollowsNext
    <3>3. FollowsIn(history, g, src, Len(history) + 1) <=>
             g \in DOMAIN mem.groups /\ mem.groups[g].lastApp = src
      BY DEF GroupsKnown
    <3>4. QED
      BY <3>2, <3>3
  <2>5. ASSUME NEW a \in Apps PROVE NodesIn(history', a) = NodesIn(history, a)
    <3>1. rec.app # a
      BY <2>1, GraphAssumption
    <3>2. NodesIn(history', a) = NodesIn(history, a) \cup
              (IF rec.app = a THEN {<<"entry", None, Len(history) + 1>>} ELSE {})
      BY <2>1, <2>2, NodesNext
    <3>3. QED
      BY <3>1, <3>2
  <2>6. ASSUME NEW k \in EdgeKeys PROVE EdgesIn(history', k) = EdgesIn(history, k)
    <3>1. rec.app # k[1] /\ rec.app # k[2]
      BY <2>1, GraphAssumption DEF EdgeKeys
    <3>2. ASSUME NEW x PROVE x \in EdgesIn(history', k) <=> x \in EdgesIn(history, k)
      <4>1. /\ x \in EdgesIn(history', k) <=> \E j \in 1 .. Len(history') : SightedAt(history', k, x, j)
            /\ x \in EdgesIn(history, k) <=> \E j \in 1 .. Len(history) : SightedAt(history, k, x, j)
        BY EdgesAre
      <4>2. /\ \A j \in 1 .. Len(history) : SightedAt(history', k, x, j) <=> SightedAt(history, k, x, j)
            /\ SightedAt(history', k, x, Len(history) + 1) <=>
                  /\ k[1] # k[2]
                  /\ \/ \E g \in GroupKeys :
                           /\ x = <<g[1], g[2], Len(history) + 1>> /\ g \in rec.joined
                           /\ rec.app = k[2] /\ FollowsIn(history, g, k[1], Len(history) + 1)
                     \/ x = <<"peer", None, Len(history) + 1>> /\ rec.app = k[1] /\ rec.peer = k[2]
        BY <2>1, <2>2, SightedNext
      <4>3. ~SightedAt(history', k, x, Len(history) + 1)
        BY <3>1, <4>2
      <4>4. QED
        BY <2>3, <4>1, <4>2, <4>3
    <3>3. QED
      BY <3>2
  <2>7. GroupsKnown'
    BY <2>4 DEF GroupsKnown
  <2>8. QED
    BY <2>3, <2>5, <2>6, <2>7
<1>3. QED
  BY <1>1, <1>2

-----------------------------------------------------------------------------
(* Every step keeps the accounts *)

\* Rows added to edge_metrics, or missing from it.
LEMMA CountedFacts ==
    ASSUME NEW f \in Maps(EdgeKeys, Nat), NEW aggs \in Maps(EdgeKeys, Agg)
    PROVE  /\ Counted(f, aggs) \in Maps(EdgeKeys, Nat)
           /\ \A k : Num(Counted(f, aggs), k) = Num(f, k) + Count(aggs, k)
           /\ \A k : Num(f, k) \in Nat /\ Count(aggs, k) \in Nat
<1> DEFINE D == DOMAIN f \cup DOMAIN aggs
<1>1. f \in [DOMAIN f -> Nat] /\ D \in SUBSET EdgeKeys
  BY MapElim
<1>2. ASSUME NEW k PROVE Num(f, k) \in Nat /\ Count(aggs, k) \in Nat
  <2>1. At(aggs, k) \in Agg0 /\ Count(aggs, k) = At(aggs, k).count
    BY AtType
  <2>2. QED
    BY <1>1, <2>1 DEF Num, Agg0
<1>3. Counted(f, aggs) = [k \in D |-> Num(f, k) + Count(aggs, k)]
  BY DEF Counted, Num
<1>4. Counted(f, aggs) \in [D -> Nat]
  BY <1>2, <1>3
<1>5. ASSUME NEW k PROVE Num(Counted(f, aggs), k) = Num(f, k) + Count(aggs, k)
  <2>1. CASE k \in D
    BY <1>3, <2>1 DEF Num
  <2>2. CASE k \notin D
    BY <1>3, <2>2 DEF Num, Count
  <2>3. QED
    BY <2>1, <2>2
<1> HIDE DEF D
<1>6. QED
  BY <1>1, <1>2, <1>4, <1>5, MapIntro

\* Append, while what is held outside the live maps stays.
LEMMA ObserveAccounts ==
    ASSUME Accounts, NEW e \in Entry, Observe(e),
           \A a \in Apps : NodeRest(a)' = NodeRest(a),
           \A k \in EdgeKeys : EdgeRest(k)' = EdgeRest(k)
    PROVE  GroupsKnown' /\ history' \in Seq(Record) /\ NodeSums' /\ EdgeSums'
<1>1. IInv /\ history \in Seq(Record) /\ GroupsKnown /\ NodeSums /\ EdgeSums
  BY DEF Accounts, Ghosts
<1>2. CASE e.app = None
  <2>1. mem' = mem /\ history' = history
    BY <1>2 DEF Observe, Observed
  <2>2. GroupsKnown' /\ history' \in Seq(Record)
    BY <1>1, <2>1 DEF GroupsKnown
  <2>3. NodeSums' /\ EdgeSums'
    BY <1>1, <2>1 DEF NodeSums, EdgeSums
  <2>4. QED
    BY <2>2, <2>3
<1>3. CASE e.app # None
  <2>1. e.app \in Apps
    BY <1>3 DEF Entry
  <2>2. GroupsKnown' /\ history' \in Seq(Record)
    BY <1>1, <2>1, ObserveGroups
  <2>3. ASSUME NEW a \in Apps
        PROVE  SumOf(Merge(NodeRest(a)', At(mem'.nodes, a)), NodesIn(history', a), history')
    <3>1. SumOf(Merge(NodeRest(a), At(mem.nodes, a)), NodesIn(history, a), history) /\ NodeRest(a) \in Agg0
      BY <1>1, AccountTypes DEF NodeSums
    <3>2. SumOf(Merge(NodeRest(a), At(mem'.nodes, a)), NodesIn(history', a), history')
      BY <1>1, <2>1, <3>1, ObserveNodes
    <3>3. QED
      BY <3>2
  <2>4. ASSUME NEW k \in EdgeKeys
        PROVE  SumOf(Merge(EdgeRest(k)', At(mem'.edges, k)), EdgesIn(history', k), history')
    <3>1. SumOf(Merge(EdgeRest(k), At(mem.edges, k)), EdgesIn(history, k), history) /\ EdgeRest(k) \in Agg0
      BY <1>1, AccountTypes DEF EdgeSums
    <3>2. SumOf(Merge(EdgeRest(k), At(mem'.edges, k)), EdgesIn(history', k), history')
      BY <1>1, <2>1, <3>1, ObserveEdges
    <3>3. QED
      BY <3>2
  <2>5. QED
    BY <2>2, <2>3, <2>4 DEF NodeSums, EdgeSums
<1>4. QED
  BY <1>2, <1>3

\* A step that leaves maps, stores and history alone and does not enter ApplyGraph.
LEMMA QuietAccounts ==
    ASSUME Accounts, IInv', UNCHANGED <<mem, batch, store, metrics, lost, unmeasured, history>>,
           \/ loop' = loop
           \/ loop \notin {"upsert", "metrics"} /\ loop' \notin {"upsert", "metrics"}
    PROVE  Accounts'
<1>1. (\A a : NodeRest(a)' = NodeRest(a)) /\ (\A k : EdgeRest(k)' = EdgeRest(k))
  BY DEF NodeRest, EdgeRest, Rest
<1>2. Ghosts'
  BY DEF Accounts, Ghosts
<1>3. GroupsKnown' /\ NodeSums' /\ EdgeSums' /\ Metered'
  BY <1>1 DEF Accounts, GroupsKnown, NodeSums, EdgeSums, Metered
<1>4. QED
  BY <1>2, <1>3 DEF Accounts

\* A handler's Append.
LEMMA AppendAccounts ==
    ASSUME Accounts, IInv', NEW e \in Entries, AppendEntry(e) PROVE Accounts'
<1>1. e \in Entry
  BY GraphAssumption DEF Entry
<1>2. Observe(e) /\ UNCHANGED <<loop, batch, store, metrics, lost, unmeasured>>
  BY DEF AppendEntry
<1>3. (\A a : NodeRest(a)' = NodeRest(a)) /\ (\A k : EdgeRest(k)' = EdgeRest(k))
  BY <1>2 DEF NodeRest, EdgeRest, Rest
<1>4. GroupsKnown' /\ history' \in Seq(Record) /\ NodeSums' /\ EdgeSums'
  BY <1>1, <1>2, <1>3, ObserveAccounts
<1>5. Ghosts' /\ Metered'
  BY <1>2, <1>3, <1>4 DEF Accounts, Ghosts, Metered
<1>6. QED
  BY <1>4, <1>5 DEF Accounts

\* The flush's swap.
LEMMA FlushAccounts ==
    ASSUME Accounts, IInv', NEW fin \in BOOLEAN, loop = "select", Flush(fin) PROVE Accounts'
<1>1. /\ batch'.nodes = mem.nodes /\ batch'.edges = mem.edges /\ mem'.nodes = Empty /\ mem'.edges = Empty
      /\ mem'.groups = mem.groups /\ UNCHANGED <<store, metrics, lost, unmeasured, history>>
  BY DEF Flush, Accounts, IInv, Mem
<1>2. /\ loop' = "upsert" \/ (DOMAIN mem.nodes = {} /\ DOMAIN mem.edges = {})
      /\ loop' \notin {"upsert", "metrics"} => DOMAIN mem.nodes = {} /\ DOMAIN mem.edges = {}
  BY DEF Flush, AfterFlush
<1>3. loop # "upsert" /\ DOMAIN batch.edges = {}
  BY DEF Accounts, Ghosts
<1>4. /\ store.nodes \in Maps(Apps, Row) /\ store.edges \in Maps(EdgeKeys, Row)
      /\ batch.nodes \in Maps(Apps, Agg) /\ batch.edges \in Maps(EdgeKeys, Agg)
      /\ lost.nodes \in Maps(Apps, Agg) /\ lost.edges \in Maps(EdgeKeys, Agg)
      /\ mem.nodes \in Maps(Apps, Agg) /\ mem.edges \in Maps(EdgeKeys, Agg)
      /\ (\A a : NodeRest(a) \in Agg0) /\ (\A k : EdgeRest(k) \in Agg0)
  BY AccountTypes
<1>5. ASSUME NEW a PROVE NodeRest(a)' = Merge(NodeRest(a), At(mem.nodes, a))
  <2>1. NodeRest(a)' = Rest(loop', store.nodes, mem.nodes, lost.nodes, a)
    BY <1>1 DEF NodeRest
  <2>2. Rest(loop', store.nodes, mem.nodes, lost.nodes, a)
           = Merge(Rest(loop, store.nodes, batch.nodes, lost.nodes, a), At(mem.nodes, a))
    <3>1. loop' = "upsert" \/ DOMAIN mem.nodes = {}
      BY <1>2
    <3>2. At(Saved(store.nodes), a) \in Agg0 /\ At(mem.nodes, a) \in Agg0 /\ At(lost.nodes, a) \in Agg0
      BY <1>4, SavedFacts, AtType
    <3>3. loop' = "upsert" \/ At(mem.nodes, a) = Fresh
      BY <3>1 DEF At
    <3>4. QED
      BY ONLY <1>3, <3>2, <3>3, RestFlush
  <2>3. QED
    BY <2>1, <2>2 DEF NodeRest
<1>6. ASSUME NEW k PROVE EdgeRest(k)' = Merge(EdgeRest(k), At(mem.edges, k))
  <2>1. EdgeRest(k)' = Rest(loop', store.edges, mem.edges, lost.edges, k)
    BY <1>1 DEF EdgeRest
  <2>2. Rest(loop', store.edges, mem.edges, lost.edges, k)
           = Merge(Rest(loop, store.edges, batch.edges, lost.edges, k), At(mem.edges, k))
    <3>1. loop' = "upsert" \/ DOMAIN mem.edges = {}
      BY <1>2
    <3>2. At(Saved(store.edges), k) \in Agg0 /\ At(mem.edges, k) \in Agg0 /\ At(lost.edges, k) \in Agg0
      BY <1>4, SavedFacts, AtType
    <3>3. loop' = "upsert" \/ At(mem.edges, k) = Fresh
      BY <3>1 DEF At
    <3>4. QED
      BY ONLY <1>3, <3>2, <3>3, RestFlush
  <2>3. QED
    BY <2>1, <2>2 DEF EdgeRest
<1>7. /\ \A a : At(mem.nodes, a) \in Agg0 /\ Merge(NodeRest(a), At(mem.nodes, a)) \in Agg0
      /\ \A k : At(mem.edges, k) \in Agg0 /\ Merge(EdgeRest(k), At(mem.edges, k)) \in Agg0
  BY <1>4, AtType, MergeType
<1>8. /\ \A a : Merge(NodeRest(a)', At(mem'.nodes, a)) = Merge(NodeRest(a), At(mem.nodes, a))
      /\ \A k : Merge(EdgeRest(k)', At(mem'.edges, k)) = Merge(EdgeRest(k), At(mem.edges, k))
  <2>1. \A k : At(Empty, k) = Fresh
    BY FreshType
  <2>2. QED
    BY <1>1, <1>5, <1>6, <1>7, <2>1, MergeType
<1>9. NodeSums' /\ EdgeSums'
  BY <1>1, <1>8, SumsKept DEF Accounts
<1>10. Ghosts' /\ GroupsKnown'
  BY <1>1, <1>2 DEF Accounts, Ghosts, GroupsKnown
<1>11. Metered'
  <2> SUFFICES ASSUME NEW k \in EdgeKeys
               PROVE  EdgeRest(k)'.count = Count(batch'.edges, k) + (Num(metrics', k) + Num(unmeasured', k))
    BY DEF Metered
  <2>1. EdgeRest(k).count = 0 + (Num(metrics, k) + Num(unmeasured, k))
    BY <1>3 DEF Accounts, Metered, Count
  <2>2. EdgeRest(k)'.count = EdgeRest(k).count + At(mem.edges, k).count
    BY <1>6 DEF Merge
  <2>3. Count(batch'.edges, k) = At(mem.edges, k).count
    BY <1>1, <1>4, AtType
  <2>4. Num(metrics, k) \in Nat /\ Num(unmeasured, k) \in Nat /\ At(mem.edges, k).count \in Nat
    BY <1>4, <1>7, CountedFacts DEF Accounts, Ghosts, Agg0
  <2>5. QED
    BY <1>1, <2>1, <2>2, <2>3, <2>4
<1>12. QED
  BY <1>9, <1>10, <1>11 DEF Accounts


\* The committed transaction.
LEMMA CommitAccounts == ASSUME Accounts, IInv', UpsertCommits PROVE Accounts'
<1>1. /\ loop = "upsert" /\ loop' = "metrics"
      /\ store'.nodes = Upserted(store.nodes, batch.nodes) /\ store'.edges = Upserted(store.edges, batch.edges)
      /\ UNCHANGED <<mem, batch, lost, metrics, unmeasured, history>>
  BY DEF UpsertCommits
<1>2. /\ store.nodes \in Maps(Apps, Row) /\ store.edges \in Maps(EdgeKeys, Row)
      /\ batch.nodes \in Maps(Apps, Agg) /\ batch.edges \in Maps(EdgeKeys, Agg)
      /\ lost.nodes \in Maps(Apps, Agg) /\ lost.edges \in Maps(EdgeKeys, Agg)
  BY AccountTypes
<1>3. ASSUME NEW a PROVE NodeRest(a)' = NodeRest(a)
  <2>1. Rest("metrics", Upserted(store.nodes, batch.nodes), batch.nodes, lost.nodes, a)
           = Rest("upsert", store.nodes, batch.nodes, lost.nodes, a)
    BY <1>2, RestCommit
  <2>2. QED
    BY <1>1, <2>1 DEF NodeRest
<1>4. ASSUME NEW k PROVE EdgeRest(k)' = EdgeRest(k)
  <2>1. Rest("metrics", Upserted(store.edges, batch.edges), batch.edges, lost.edges, k)
           = Rest("upsert", store.edges, batch.edges, lost.edges, k)
    BY <1>2, RestCommit
  <2>2. QED
    BY <1>1, <2>1 DEF EdgeRest
<1>5. NodeSums' /\ EdgeSums' /\ GroupsKnown' /\ Metered'
  BY <1>1, <1>3, <1>4 DEF Accounts, NodeSums, EdgeSums, GroupsKnown, Metered
<1>6. Ghosts'
  BY <1>1 DEF Accounts, Ghosts
<1>7. QED
  BY <1>5, <1>6 DEF Accounts

\* The failed transaction: the batch is lost to the tables, and its warning is observed.
LEMMA FailAccounts == ASSUME Accounts, IInv', UpsertFails PROVE Accounts'
<1>1. /\ loop = "upsert" /\ loop' = "metrics" /\ Observe(Warning)
      /\ lost' = [nodes |-> MergeAll(lost.nodes, batch.nodes), edges |-> MergeAll(lost.edges, batch.edges)]
      /\ UNCHANGED <<store, batch, metrics, unmeasured>>
  BY DEF UpsertFails
<1>2. /\ store.nodes \in Maps(Apps, Row) /\ store.edges \in Maps(EdgeKeys, Row)
      /\ batch.nodes \in Maps(Apps, Agg) /\ batch.edges \in Maps(EdgeKeys, Agg)
      /\ lost.nodes \in Maps(Apps, Agg) /\ lost.edges \in Maps(EdgeKeys, Agg)
  BY AccountTypes
<1>3. ASSUME NEW a PROVE NodeRest(a)' = NodeRest(a)
  <2>1. Rest("metrics", store.nodes, batch.nodes, MergeAll(lost.nodes, batch.nodes), a)
           = Rest("upsert", store.nodes, batch.nodes, lost.nodes, a)
    BY <1>2, RestFail
  <2>2. QED
    BY <1>1, <2>1 DEF NodeRest
<1>4. ASSUME NEW k PROVE EdgeRest(k)' = EdgeRest(k)
  <2>1. Rest("metrics", store.edges, batch.edges, MergeAll(lost.edges, batch.edges), k)
           = Rest("upsert", store.edges, batch.edges, lost.edges, k)
    BY <1>2, RestFail
  <2>2. QED
    BY <1>1, <2>1 DEF EdgeRest
<1>5. GroupsKnown' /\ history' \in Seq(Record) /\ NodeSums' /\ EdgeSums'
  BY <1>1, <1>3, <1>4, WarningIsEntry, ObserveAccounts
<1>6. lost' \in Batch
  <2>1. /\ MergeAll(lost.nodes, batch.nodes) \in Maps(Apps, Agg)
        /\ MergeAll(lost.edges, batch.edges) \in Maps(EdgeKeys, Agg)
    BY <1>2, AtMergeAll
  <2>2. QED
    BY <1>1, <2>1 DEF Batch
<1>7. Ghosts' /\ Metered'
  BY <1>1, <1>4, <1>5, <1>6 DEF Accounts, Ghosts, Metered
<1>8. QED
  BY <1>5, <1>7 DEF Accounts

\* The series gets the batch, or misses it, and ApplyGraph returns.
LEMMA ReturnMeters ==
    ASSUME Accounts, loop = "metrics", ApplyReturns,
           \/ metrics' = Counted(metrics, batch.edges) /\ unmeasured' = unmeasured
           \/ unmeasured' = Counted(unmeasured, batch.edges) /\ metrics' = metrics
    PROVE  /\ (\A a : NodeRest(a)' = NodeRest(a)) /\ (\A k : EdgeRest(k)' = EdgeRest(k))
           /\ metrics' \in Maps(EdgeKeys, Nat) /\ unmeasured' \in Maps(EdgeKeys, Nat)
           /\ Metered' /\ UNCHANGED lost /\ DOMAIN batch'.nodes = {} /\ DOMAIN batch'.edges = {}
<1>1. /\ UNCHANGED <<store, lost>> /\ loop # "upsert" /\ loop' # "upsert"
      /\ DOMAIN batch'.nodes = {} /\ DOMAIN batch'.edges = {}
  BY DEF ApplyReturns, AfterFlush, EmptyBatch, Empty
<1>2. (\A a : NodeRest(a)' = NodeRest(a)) /\ (\A k : EdgeRest(k)' = EdgeRest(k))
  BY <1>1, RestIdle DEF NodeRest, EdgeRest
<1>3. /\ metrics \in Maps(EdgeKeys, Nat) /\ unmeasured \in Maps(EdgeKeys, Nat)
      /\ batch.edges \in Maps(EdgeKeys, Agg)
  BY AccountTypes DEF Accounts, Ghosts
<1>4. /\ Counted(metrics, batch.edges) \in Maps(EdgeKeys, Nat)
      /\ Counted(unmeasured, batch.edges) \in Maps(EdgeKeys, Nat)
      /\ \A k : /\ Num(Counted(metrics, batch.edges), k) = Num(metrics, k) + Count(batch.edges, k)
                /\ Num(Counted(unmeasured, batch.edges), k) = Num(unmeasured, k) + Count(batch.edges, k)
                /\ Num(metrics, k) \in Nat /\ Num(unmeasured, k) \in Nat /\ Count(batch.edges, k) \in Nat
  BY <1>3, CountedFacts
<1>5. ASSUME NEW k \in EdgeKeys
      PROVE  EdgeRest(k)'.count = Count(batch'.edges, k) + (Num(metrics', k) + Num(unmeasured', k))
  <2>1. EdgeRest(k).count = Count(batch.edges, k) + (Num(metrics, k) + Num(unmeasured, k))
    BY DEF Accounts, Metered
  <2>2. Count(batch'.edges, k) = 0
    BY <1>1 DEF Count
  <2>3. Num(metrics', k) + Num(unmeasured', k) = Count(batch.edges, k) + (Num(metrics, k) + Num(unmeasured, k))
    BY <1>4
  <2>4. QED
    BY <1>2, <1>4, <2>1, <2>2, <2>3
<1>6. Metered'
  BY <1>5 DEF Metered
<1>7. QED
  BY <1>1, <1>2, <1>3, <1>4, <1>6

\* InsertEdgeMetrics, whatever came of it.
LEMMA InsertAccounts ==
    ASSUME Accounts, IInv', InsertMetrics \/ InsertMetricsFails PROVE Accounts'
<1>1. /\ loop = "metrics" /\ ApplyReturns
      /\ \/ metrics' = Counted(metrics, batch.edges) /\ unmeasured' = unmeasured
         \/ unmeasured' = Counted(unmeasured, batch.edges) /\ metrics' = metrics
      /\ (UNCHANGED <<mem, history>> \/ Observe(Warning))
  BY DEF InsertMetrics, InsertMetricsFails
<1>2. /\ (\A a : NodeRest(a)' = NodeRest(a)) /\ (\A k : EdgeRest(k)' = EdgeRest(k))
      /\ metrics' \in Maps(EdgeKeys, Nat) /\ unmeasured' \in Maps(EdgeKeys, Nat)
      /\ Metered' /\ UNCHANGED lost /\ DOMAIN batch'.nodes = {} /\ DOMAIN batch'.edges = {}
  BY <1>1, ReturnMeters
<1>3. GroupsKnown' /\ history' \in Seq(Record) /\ NodeSums' /\ EdgeSums'
  <2>1. CASE Observe(Warning)
    BY <1>2, <2>1, WarningIsEntry, ObserveAccounts
  <2>2. CASE UNCHANGED <<mem, history>>
    BY <1>2, <2>2 DEF Accounts, Ghosts, GroupsKnown, NodeSums, EdgeSums
  <2>3. QED
    BY <1>1, <2>1, <2>2
<1>4. Ghosts'
  BY <1>2, <1>3 DEF Accounts, Ghosts
<1>5. QED
  BY <1>2, <1>3, <1>4 DEF Accounts

\* Eviction: the history says which groups went.
LEMMA EvictAccounts == ASSUME Accounts, IInv', Evict PROVE Accounts'
<1> DEFINE gs == Stale(mem, cutoff)
<1>1. mem \in Mem /\ DOMAIN mem.groups \subseteq GroupKeys
  BY MapElim DEF Accounts, IInv, Mem, Groups
<1>2. /\ mem'.nodes = mem.nodes /\ mem'.edges = mem.edges
      /\ mem'.groups = [g \in DOMAIN mem.groups \ gs |-> mem.groups[g]]
  BY <1>1 DEF Evict, Mem
<1>3. /\ gs \in SUBSET GroupKeys
      /\ DOMAIN mem'.groups = DOMAIN mem.groups \ gs
      /\ \A g \in DOMAIN mem'.groups : mem'.groups[g] = mem.groups[g]
  BY <1>1, <1>2 DEF Stale
<1>4. history' = IF gs = {} THEN history ELSE Append(history, Removal(gs))
  BY DEF Evict
<1>5. loop \notin {"upsert", "metrics"} /\ loop' \notin {"upsert", "metrics"}
      /\ UNCHANGED <<batch, store, metrics, lost, unmeasured>>
  BY DEF Evict
<1> HIDE DEF gs
<1>6. /\ GroupsKnown' /\ history' \in Seq(Record)
      /\ \A a \in Apps : NodesIn(history', a) = NodesIn(history, a)
      /\ \A k \in EdgeKeys : EdgesIn(history', k) = EdgesIn(history, k)
      /\ \A i \in 1 .. Len(history) : history'[i] = history[i]
  BY <1>3, <1>4, RemovalKeeps DEF Accounts, Ghosts
<1>7. (\A a : NodeRest(a)' = NodeRest(a)) /\ (\A k : EdgeRest(k)' = EdgeRest(k))
  BY <1>5, RestIdle DEF NodeRest, EdgeRest
<1>8. NodeSums' /\ EdgeSums'
  BY <1>2, <1>6, <1>7, SumsKept DEF Accounts
<1>9. Ghosts' /\ Metered'
  BY <1>5, <1>6, <1>7 DEF Accounts, Ghosts, Metered
<1>10. QED
  BY <1>6, <1>8, <1>9 DEF Accounts

\* A restart: what was in memory is lost, to the tables and to the series.
LEMMA RestartAccounts == ASSUME Accounts, IInv', Restart PROVE Accounts'
<1> DEFINE ln == MergeAll(MergeAll(lost.nodes, mem.nodes), IF loop = "upsert" THEN batch.nodes ELSE Empty)
           le == MergeAll(MergeAll(lost.edges, mem.edges), IF loop = "upsert" THEN batch.edges ELSE Empty)
           gs == DOMAIN mem.groups
<1>1. /\ lost' = [nodes |-> ln, edges |-> le]
      /\ unmeasured' = Counted(Counted(unmeasured, mem.edges), batch.edges)
      /\ history' = IF gs = {} THEN history ELSE Append(history, Removal(gs))
      /\ loop' = "select" /\ UNCHANGED <<store, metrics>>
  BY DEF Restart
<1>2. /\ mem'.nodes = Empty /\ mem'.edges = Empty /\ DOMAIN mem'.groups = {}
      /\ batch'.nodes = Empty /\ batch'.edges = Empty /\ DOMAIN Empty = {}
  BY DEF Restart, FreshMem, EmptyBatch, Empty
<1>3. /\ store.nodes \in Maps(Apps, Row) /\ store.edges \in Maps(EdgeKeys, Row)
      /\ batch.nodes \in Maps(Apps, Agg) /\ batch.edges \in Maps(EdgeKeys, Agg)
      /\ lost.nodes \in Maps(Apps, Agg) /\ lost.edges \in Maps(EdgeKeys, Agg)
      /\ mem.nodes \in Maps(Apps, Agg) /\ mem.edges \in Maps(EdgeKeys, Agg)
      /\ (\A a : NodeRest(a) \in Agg0) /\ (\A k : EdgeRest(k) \in Agg0)
  BY AccountTypes
<1>4. gs \in SUBSET GroupKeys
  BY MapElim DEF Accounts, IInv, Mem, Groups
<1>5. ln \in Maps(Apps, Agg) /\ le \in Maps(EdgeKeys, Agg)
  <2>1. /\ MergeAll(lost.nodes, mem.nodes) \in Maps(Apps, Agg)
        /\ MergeAll(lost.edges, mem.edges) \in Maps(EdgeKeys, Agg)
    BY <1>3, AtMergeAll
  <2>2. /\ (IF loop = "upsert" THEN batch.nodes ELSE Empty) \in Maps(Apps, Agg)
        /\ (IF loop = "upsert" THEN batch.edges ELSE Empty) \in Maps(EdgeKeys, Agg)
    BY <1>3, EmptyMap
  <2>3. QED
    BY <2>1, <2>2, AtMergeAll
<1>6. ASSUME NEW a PROVE NodeRest(a)' = Merge(NodeRest(a), At(mem.nodes, a))
  <2>1. Rest("select", store.nodes, Empty, ln, a)
           = Merge(Rest(loop, store.nodes, batch.nodes, lost.nodes, a), At(mem.nodes, a))
    BY <1>3, RestRestart
  <2> HIDE DEF ln, le
  <2>2. QED
    BY <1>1, <1>2, <2>1 DEF NodeRest
<1>7. ASSUME NEW k PROVE EdgeRest(k)' = Merge(EdgeRest(k), At(mem.edges, k))
  <2>1. Rest("select", store.edges, Empty, le, k)
           = Merge(Rest(loop, store.edges, batch.edges, lost.edges, k), At(mem.edges, k))
    BY <1>3, RestRestart
  <2> HIDE DEF ln, le
  <2>2. QED
    BY <1>1, <1>2, <2>1 DEF EdgeRest
<1> HIDE DEF ln, le, gs
<1>8. /\ GroupsKnown' /\ history' \in Seq(Record)
      /\ \A a \in Apps : NodesIn(history', a) = NodesIn(history, a)
      /\ \A k \in EdgeKeys : EdgesIn(history', k) = EdgesIn(history, k)
      /\ \A i \in 1 .. Len(history) : history'[i] = history[i]
  <2>1. /\ DOMAIN mem'.groups = DOMAIN mem.groups \ gs
        /\ \A g \in DOMAIN mem'.groups : mem'.groups[g] = mem.groups[g]
    BY <1>2 DEF gs
  <2>2. QED
    BY <1>1, <1>4, <2>1, RemovalKeeps DEF Accounts, Ghosts
<1>9. /\ \A a : At(mem.nodes, a) \in Agg0 /\ Merge(NodeRest(a), At(mem.nodes, a)) \in Agg0
      /\ \A k : At(mem.edges, k) \in Agg0 /\ Merge(EdgeRest(k), At(mem.edges, k)) \in Agg0
  BY <1>3, AtType, MergeType
<1>10. /\ \A a : Merge(NodeRest(a)', At(mem'.nodes, a)) = Merge(NodeRest(a), At(mem.nodes, a))
       /\ \A k : Merge(EdgeRest(k)', At(mem'.edges, k)) = Merge(EdgeRest(k), At(mem.edges, k))
  <2>1. \A k : At(Empty, k) = Fresh
    BY FreshType
  <2>2. QED
    BY <1>2, <1>6, <1>7, <1>9, <2>1, MergeType, SMTT(60)
<1>11. NodeSums' /\ EdgeSums'
  BY <1>8, <1>10, SumsKept DEF Accounts
<1>12. metrics \in Maps(EdgeKeys, Nat) /\ unmeasured \in Maps(EdgeKeys, Nat)
  BY DEF Accounts, Ghosts
<1>13. Counted(unmeasured, mem.edges) \in Maps(EdgeKeys, Nat) /\ unmeasured' \in Maps(EdgeKeys, Nat)
  BY <1>1, <1>3, <1>12, CountedFacts
<1>14. Ghosts'
  <2>1. lost' \in Batch
    BY <1>1, <1>5 DEF Batch
  <2>2. metrics' \in Maps(EdgeKeys, Nat)
    BY <1>1, <1>12
  <2>3. QED
    BY <1>2, <1>8, <1>13, <2>1, <2>2 DEF Ghosts
<1>15. ASSUME NEW k \in EdgeKeys
       PROVE  EdgeRest(k)'.count = Count(batch'.edges, k) + (Num(metrics', k) + Num(unmeasured', k))
  <2>1. EdgeRest(k).count = Count(batch.edges, k) + (Num(metrics, k) + Num(unmeasured, k))
    BY DEF Accounts, Metered
  <2>2. EdgeRest(k)'.count = EdgeRest(k).count + Count(mem.edges, k)
    <3>1. Count(mem.edges, k) = At(mem.edges, k).count
      BY <1>3, AtType
    <3>2. QED
      BY <1>7, <3>1 DEF Merge
  <2>3. Num(unmeasured', k) = (Num(unmeasured, k) + Count(mem.edges, k)) + Count(batch.edges, k)
    <3>1. Num(Counted(unmeasured, mem.edges), k) = Num(unmeasured, k) + Count(mem.edges, k)
      BY <1>3, <1>12, CountedFacts
    <3>2. Num(unmeasured', k) = Num(Counted(unmeasured, mem.edges), k) + Count(batch.edges, k)
      BY <1>1, <1>3, <1>13, CountedFacts, ZenonT(60)
    <3>3. QED
      BY <3>1, <3>2
  <2>4. /\ Num(metrics, k) \in Nat /\ Num(unmeasured, k) \in Nat
        /\ Count(mem.edges, k) \in Nat /\ Count(batch.edges, k) \in Nat
    BY <1>3, <1>12, CountedFacts
  <2>5. Count(batch'.edges, k) = 0 /\ Num(metrics', k) = Num(metrics, k)
    BY <1>1, <1>2 DEF Count
  <2>6. QED
    BY <2>1, <2>2, <2>3, <2>4, <2>5
<1>16. Metered'
  BY <1>15 DEF Metered
<1>17. QED
  BY <1>8, <1>11, <1>14, <1>16 DEF Accounts

\* Every step keeps the accounts.
LEMMA AccountsNext == Accounts /\ [Next]_vars => Accounts'
<1> SUFFICES ASSUME Accounts, [Next]_vars PROVE Accounts'
  OBVIOUS
<1>1. IInv'
  BY NextIInv DEF Accounts
<1>2. CASE Advance \/ Close \/ Ended \/ UNCHANGED vars
  BY <1>1, <1>2, QuietAccounts DEF Advance, Close, Ended, vars
<1>3. CASE ReadCutoff
  BY <1>1, <1>3, QuietAccounts DEF ReadCutoff
<1>4. ASSUME NEW e \in Entries, AppendEntry(e) PROVE Accounts'
  BY <1>1, <1>4, AppendAccounts
<1>5. CASE Restart
  BY <1>1, <1>5, RestartAccounts
<1>6. CASE FlushOnTick \/ FlushOnStop
  BY <1>1, <1>6, FlushAccounts DEF FlushOnTick, FlushOnStop
<1>7. CASE UpsertCommits
  BY <1>1, <1>7, CommitAccounts
<1>8. CASE UpsertFails
  BY <1>1, <1>8, FailAccounts
<1>9. CASE InsertMetrics \/ InsertMetricsFails
  BY <1>1, <1>9, InsertAccounts
<1>10. CASE Evict
  BY <1>1, <1>10, EvictAccounts
<1>11. QED
  BY <1>2, <1>3, <1>4, <1>5, <1>6, <1>7, <1>8, <1>9, <1>10 DEF Next, FlushLoop

\* The accounts balance in every reachable state.
THEOREM AccountsInvariance == Safety => []Accounts
BY AccountsInit, AccountsNext, PTL DEF Safety

-----------------------------------------------------------------------------
(* The accounts are what the properties say *)

\* What the system holds for a key is what is outside the live map and what is in it.
LEMMA HeldFacts ==
    ASSUME NEW K, NEW rows \in Maps(K, Row), NEW unsaved \in Maps(K, Agg), NEW live \in Maps(K, Agg),
           NEW gone \in Maps(K, Agg)
    PROVE  /\ Held(rows, unsaved, live, gone) \in Maps(K, Agg)
           /\ \A k : At(Held(rows, unsaved, live, gone), k)
                        = Merge(Rest(loop, rows, unsaved, gone, k), At(live, k))
<1> DEFINE f == IF loop = "upsert" THEN unsaved ELSE Empty
           p == MergeAll(Saved(rows), f)
           q == MergeAll(live, gone)
<1>1. Saved(rows) \in Maps(K, Agg) /\ f \in Maps(K, Agg)
  BY SavedFacts, EmptyMap
<1>2. \A k : At(f, k) = IF loop = "upsert" THEN At(unsaved, k) ELSE Fresh
  BY FreshType
<1>3. Held(rows, unsaved, live, gone) = MergeAll(p, q)
  BY DEF Held
<1> HIDE DEF f
<1>4. /\ p \in Maps(K, Agg) /\ q \in Maps(K, Agg)
      /\ \A k : At(p, k) = Merge(At(Saved(rows), k), At(f, k)) /\ At(q, k) = Merge(At(live, k), At(gone, k))
  BY <1>1, AtMergeAll
<1> HIDE DEF p, q
<1>5. MergeAll(p, q) \in Maps(K, Agg) /\ \A k : At(MergeAll(p, q), k) = Merge(At(p, k), At(q, k))
  BY <1>4, AtMergeAll
<1>6. ASSUME NEW k
      PROVE  Merge(At(p, k), At(q, k)) = Merge(Rest(loop, rows, unsaved, gone, k), At(live, k))
  <2>1. At(p, k) \in Agg0 /\ At(live, k) \in Agg0 /\ At(gone, k) \in Agg0
    BY <1>4, AtType
  <2>2. Rest(loop, rows, unsaved, gone, k) = Merge(At(p, k), At(gone, k))
    BY <1>2, <1>4 DEF Rest
  <2>3. Merge(At(p, k), Merge(At(live, k), At(gone, k))) = Merge(Merge(At(p, k), At(live, k)), At(gone, k))
    BY <2>1, MergeAssoc
  <2>4. Merge(Merge(At(p, k), At(live, k)), At(gone, k)) = Merge(Merge(At(p, k), At(gone, k)), At(live, k))
    BY <2>1, MergeSwap
  <2>5. QED
    BY <1>4, <2>2, <2>3, <2>4
<1>7. QED
  BY <1>3, <1>5, <1>6

\* A key whose aggregate sums its sightings is held exactly when it was sighted.
LEMMA HeldExact ==
    ASSUME NEW K, NEW f \in Maps(K, Agg), NEW k, NEW S, SumOf(At(f, k), S, history)
    PROVE  (k \in DOMAIN f <=> S # {}) /\ (k \in DOMAIN f => f[k] = Aggregate(S))
<1>1. At(f, k) \in Agg0 /\ (k \in DOMAIN f <=> At(f, k).count # 0)
  BY AtType
<1>2. IsFiniteSet(S) /\ At(f, k).count = Cardinality(S)
  BY DEF SumOf
<1>3. Cardinality(S) = 0 <=> S = {}
  BY <1>2, FS_EmptySet
<1>4. k \in DOMAIN f => f[k] = At(f, k)
  BY DEF At
<1>5. S # {} => At(f, k) = Aggregate(S)
  BY <1>1, SumAggregate
<1>6. QED
  BY <1>1, <1>2, <1>3, <1>4, <1>5

\* Balanced accounts are exact aggregates, for nodes, edges and the series.
LEMMA AccountsExact == ASSUME Accounts PROVE AggregatesAccounted
<1>1. /\ store.nodes \in Maps(Apps, Row) /\ store.edges \in Maps(EdgeKeys, Row)
      /\ batch.nodes \in Maps(Apps, Agg) /\ batch.edges \in Maps(EdgeKeys, Agg)
      /\ lost.nodes \in Maps(Apps, Agg) /\ lost.edges \in Maps(EdgeKeys, Agg)
      /\ mem.nodes \in Maps(Apps, Agg) /\ mem.edges \in Maps(EdgeKeys, Agg)
      /\ (\A a : NodeRest(a) \in Agg0) /\ (\A k : EdgeRest(k) \in Agg0)
  BY AccountTypes
<1>2. NodesAccounted
  <2> DEFINE held == Held(store.nodes, batch.nodes, mem.nodes, lost.nodes)
  <2>1. /\ held \in Maps(Apps, Agg) /\ \A a : At(held, a) = Merge(NodeRest(a), At(mem.nodes, a))
    BY <1>1, HeldFacts DEF NodeRest
  <2>2. DOMAIN held \subseteq Apps
    BY <2>1, MapElim
  <2> HIDE DEF held
  <2>3. ASSUME NEW a \in Apps
        PROVE  /\ a \in DOMAIN held <=> NodeSightings(a) # {}
               /\ a \in DOMAIN held => held[a] = Aggregate(NodeSightings(a))
    <3>1. SumOf(At(held, a), NodeSightings(a), history)
      BY <2>1, SightingsIn DEF Accounts, NodeSums
    <3>2. QED
      BY <2>1, <3>1, HeldExact
  <2>4. DOMAIN held = {a \in Apps : NodeSightings(a) # {}}
    BY <2>2, <2>3
  <2>5. QED
    BY <2>2, <2>3, <2>4 DEF NodesAccounted, held
<1>3. EdgesAccounted
  <2> DEFINE held == Held(store.edges, batch.edges, mem.edges, lost.edges)
  <2>1. /\ held \in Maps(EdgeKeys, Agg) /\ \A k : At(held, k) = Merge(EdgeRest(k), At(mem.edges, k))
    BY <1>1, HeldFacts DEF EdgeRest
  <2>2. DOMAIN held \subseteq EdgeKeys
    BY <2>1, MapElim
  <2> HIDE DEF held
  <2>3. ASSUME NEW k \in EdgeKeys
        PROVE  /\ k \in DOMAIN held <=> EdgeSightings(k) # {}
               /\ k \in DOMAIN held => held[k] = Aggregate(EdgeSightings(k))
    <3>1. SumOf(At(held, k), EdgeSightings(k), history)
      BY <2>1, SightingsIn DEF Accounts, EdgeSums
    <3>2. QED
      BY <2>1, <3>1, HeldExact
  <2>4. DOMAIN held = {k \in EdgeKeys : EdgeSightings(k) # {}}
    BY <2>2, <2>3
  <2>5. QED
    BY <2>2, <2>3, <2>4 DEF EdgesAccounted, held
<1>4. MetricsAccounted
  <2> SUFFICES ASSUME NEW k \in EdgeKeys
               PROVE  Cardinality(EdgeSightings(k)) =
                         Count(mem.edges, k) + Count(batch.edges, k) + Num(metrics, k) + Num(unmeasured, k)
    BY DEF MetricsAccounted, Num
  <2>1. SumOf(Merge(EdgeRest(k), At(mem.edges, k)), EdgeSightings(k), history)
    BY SightingsIn DEF Accounts, EdgeSums
  <2>2. Cardinality(EdgeSightings(k)) = EdgeRest(k).count + At(mem.edges, k).count
    BY <2>1 DEF SumOf, Merge
  <2>3. EdgeRest(k).count = Count(batch.edges, k) + (Num(metrics, k) + Num(unmeasured, k))
    BY DEF Accounts, Metered
  <2>4. Count(mem.edges, k) = At(mem.edges, k).count
    BY <1>1, AtType
  <2>5. /\ Num(metrics, k) \in Nat /\ Num(unmeasured, k) \in Nat
        /\ Count(mem.edges, k) \in Nat /\ Count(batch.edges, k) \in Nat
    BY <1>1, CountedFacts DEF Accounts, Ghosts
  <2>6. QED
    BY <2>2, <2>3, <2>4, <2>5
<1>5. QED
  BY <1>2, <1>3, <1>4 DEF AggregatesAccounted

\* Every node, edge and metric holds exactly what the appended entries say, over the
\* tables, the batch in flight, the live maps and what failures and restarts lost.
THEOREM AggregatesAccountedHolds == Safety => []AggregatesAccounted
BY AccountsInvariance, AccountsExact, PTL
=============================================================================
