--------------------------- MODULE GraphExtractor ---------------------------
(***************************************************************************)
(* The architecture graph's write path: the extractor's in-memory          *)
(* aggregation and flush loop (internal/graph/extractor.go), the manager   *)
(* (ApplyGraph), the SQLite upsert and the edge metrics insert.            *)
(*                                                                         *)
(* Every key of the code carries the tenant; the model has one tenant.     *)
(* Time is a small number, 0 standing for the zero time.Time. A handler    *)
(* whose entry carries no time reads the clock before it takes the mutex;  *)
(* what the delay can do is what an entry with an older Ts does.           *)
(***************************************************************************)
EXTENDS Integers, Sequences, FiniteSets, FiniteSetsExt

CONSTANTS
    Apps,           \* application names
    Self,           \* the application name of the server's own records
    Ids,            \* trace and correlation ids
    None,           \* the empty string: no app, no id, no peer
    Entries,        \* the entries a handler may append
    MaxGroups,      \* ExtractorOptions.MaxGroups
    GroupTTL,       \* ExtractorOptions.GroupTTL
    MaxTime,        \* bound: the clock
    MaxEntries,     \* bound: entries appended by handlers
    MaxFailures     \* bound: failed writes to SQLite and ClickHouse, and restarts

\* The groupKind of a group and the Origin bit of its edges.
GroupKeys == {"trace", "corr"} \X Ids
EdgeKeys == Apps \X Apps

ASSUME GraphAssumption ==
    /\ Self \in Apps /\ None \notin Apps /\ None \notin Ids
    /\ Entries \subseteq [app : Apps \cup {None}, err : BOOLEAN, ts : Nat,
                          trace : Ids \cup {None}, corr : Ids \cup {None},
                          peer : Apps \cup {None}]
    /\ MaxGroups \in Nat \ {0} /\ GroupTTL \in Nat \ {0}
    /\ MaxTime \in Nat /\ MaxEntries \in Nat /\ MaxFailures \in Nat

VARIABLES
    clock,      \* time.Now()
    mem,        \* what x.mu guards: nodes, edges, groups, dropped
    stopped,    \* x.stop is closed
    loop,       \* where the flush goroutine is
    final,      \* the current flush is the one before the loop returns
    batch,      \* the aggregates handed to ApplyGraph
    cutoff,     \* evictGroups' cutoff
    store,      \* the tables nodes and edges of SQLite
    metrics,    \* edge -> sum of the counts in edge_metrics
    lost,       \* ghost: aggregates no transaction committed
    unmeasured, \* ghost: edge -> count that edge_metrics never got
    history,    \* ghost: entries and group removals, in the order of the mutex
    appended,   \* entries counted against MaxEntries
    failures    \* failed writes and restarts counted against MaxFailures

vars == <<clock, mem, stopped, loop, final, batch, cutoff, store, metrics,
          lost, unmeasured, history, appended, failures>>

-----------------------------------------------------------------------------
(* Maps of aggregates *)

Empty == [k \in {} |-> 0]

Put(f, k, v) == [x \in DOMAIN f \cup {k} |-> IF x = k THEN v ELSE f[x]]

Later(s, t) == IF s > t THEN s ELSE t

\* &nodeState{}, &edgeState{}; a node has no origin.
Fresh == [origin |-> {}, count |-> 0, errors |-> 0, lastSeen |-> 0]

\* What Append does to a node's state and bumpEdge to an edge's.
Bump(f, k, origin, err, at) ==
    LET s == IF k \in DOMAIN f THEN f[k] ELSE Fresh
    IN  Put(f, k, [origin   |-> s.origin \cup origin,
                   count    |-> s.count + 1,
                   errors   |-> IF err THEN s.errors + 1 ELSE s.errors,
                   lastSeen |-> Later(at, s.lastSeen)])

\* ON CONFLICT ... DO UPDATE
Merge(s, t) == [origin   |-> s.origin \cup t.origin,
                count    |-> s.count + t.count,
                errors   |-> s.errors + t.errors,
                lastSeen |-> Later(s.lastSeen, t.lastSeen)]

MergeAll(f, g) ==
    [k \in DOMAIN f \cup DOMAIN g |->
        IF k \notin DOMAIN f THEN g[k]
        ELSE IF k \notin DOMAIN g THEN f[k] ELSE Merge(f[k], g[k])]

Count(f, k) == IF k \in DOMAIN f THEN f[k].count ELSE 0

EmptyBatch == [nodes |-> Empty, edges |-> Empty]

-----------------------------------------------------------------------------
(* Append *)

FreshMem == [nodes |-> Empty, edges |-> Empty, groups |-> Empty, dropped |-> 0]

\* bumpEdge
BumpEdge(m, k, origin, e, at) ==
    [m EXCEPT !.edges = Bump(@, k, {origin}, e.err, at)]

\* Mutant: the cap is checked with > instead of >=.
LinkGroupOverCap(m, g, origin, e, at) ==
    IF g \notin DOMAIN m.groups /\ Cardinality(DOMAIN m.groups) > MaxGroups
    THEN [m EXCEPT !.dropped = @ + 1]
    ELSE [m EXCEPT !.groups = Put(@, g, [lastApp |-> e.app, lastSeen |-> at])]

\* Mutant: lastApp is set when the group is created and never moved on.
LinkGroupKeepsFirst(m, g, origin, e, at) ==
    IF g \notin DOMAIN m.groups /\ Cardinality(DOMAIN m.groups) >= MaxGroups
    THEN [m EXCEPT !.dropped = @ + 1]
    ELSE LET last   == IF g \in DOMAIN m.groups THEN m.groups[g].lastApp ELSE None
             linked == IF last \in {None, e.app} THEN m
                       ELSE BumpEdge(m, <<last, e.app>>, origin, e, at)
         IN  [linked EXCEPT !.groups =
                Put(@, g, [lastApp |-> IF last = None THEN e.app ELSE last, lastSeen |-> at])]

\* linkGroup: the group remembers only the application seen last.
LinkGroup(m, g, origin, e, at) ==
    IF g \notin DOMAIN m.groups /\ Cardinality(DOMAIN m.groups) >= MaxGroups
    THEN [m EXCEPT !.dropped = @ + 1]
    ELSE LET last   == IF g \in DOMAIN m.groups THEN m.groups[g].lastApp ELSE None
             linked == IF last \in {None, e.app} THEN m
                       ELSE BumpEdge(m, <<last, e.app>>, origin, e, at)
         IN  [linked EXCEPT !.groups = Put(@, g, [lastApp |-> e.app, lastSeen |-> at])]

\* The three signals of an entry, one after the other.
ByTrace(m, e, at) ==
    IF e.trace = None THEN m ELSE LinkGroup(m, <<"trace", e.trace>>, "trace", e, at)
ByCorr(m, e, at) ==
    IF e.corr = None THEN m ELSE LinkGroup(m, <<"corr", e.corr>>, "inferred", e, at)
ByPeer(m, e, at) ==
    IF e.peer \in {None, e.app} THEN m
    ELSE BumpEdge(m, <<e.app, e.peer>>, "inferred", e, at)

\* now := e.Ts, or the clock
TimeOf(e) == IF e.ts = 0 THEN clock ELSE e.ts

Observed(m, e) ==
    LET at == TimeOf(e)
        n  == [m EXCEPT !.nodes = Bump(@, e.app, {}, e.err, at)]
    IN  IF e.app = None THEN m ELSE ByPeer(ByCorr(ByTrace(n, e, at), e, at), e, at)

\* The ghost record of an entry: the groups it joined are those that exist after it.
GroupsOf(e) == {g \in GroupKeys : g[2] = (IF g[1] = "trace" THEN e.trace ELSE e.corr)}

Recorded(e) ==
    [app |-> e.app, err |-> e.err, at |-> TimeOf(e), peer |-> e.peer,
     joined |-> GroupsOf(e) \cap DOMAIN mem'.groups, removed |-> {}]

Removal(gs) ==
    [app |-> None, err |-> FALSE, at |-> 0, peer |-> None, joined |-> {}, removed |-> gs]

Observe(e) ==
    /\ mem' = Observed(mem, e)
    /\ history' = IF e.app = None THEN history ELSE Append(history, Recorded(e))

-----------------------------------------------------------------------------
\* The clock starts where a whole GroupTTL lies behind it.
Init ==
    /\ clock = GroupTTL + 1
    /\ mem = FreshMem
    /\ stopped = FALSE /\ loop = "select" /\ final = FALSE
    /\ batch = EmptyBatch /\ cutoff = 0
    /\ store = EmptyBatch /\ metrics = Empty
    /\ lost = EmptyBatch /\ unmeasured = Empty
    /\ history = <<>> /\ appended = 0 /\ failures = 0

Advance ==
    /\ clock < MaxTime
    /\ clock' = clock + 1
    /\ UNCHANGED <<mem, stopped, loop, final, batch, cutoff, store, metrics,
                   lost, unmeasured, history, appended, failures>>

\* A handler, or the self-log sink, appends an entry; the extractor accepts
\* entries after Close too.
AppendEntry(e) ==
    /\ appended < MaxEntries
    /\ appended' = appended + 1
    /\ Observe(e)
    /\ UNCHANGED <<clock, stopped, loop, final, batch, cutoff, store, metrics,
                   lost, unmeasured, failures>>

\* Close closes x.stop; its wait ends when loop = "done".
Close ==
    /\ ~stopped
    /\ stopped' = TRUE
    /\ UNCHANGED <<clock, mem, loop, final, batch, cutoff, store, metrics,
                   lost, unmeasured, history, appended, failures>>

\* What follows flush: evictGroups after a tick, the return after x.stop.
AfterFlush(fin) == IF fin THEN "done" ELSE "evict"

\* Mutant: the node map is handed over and not replaced.
FlushKeepsNodes(fin) ==
    /\ final' = fin
    /\ batch' = [nodes |-> mem.nodes, edges |-> mem.edges]
    /\ mem' = [mem EXCEPT !.edges = Empty]
    /\ loop' = IF DOMAIN mem.nodes = {} /\ DOMAIN mem.edges = {}
               THEN AfterFlush(fin) ELSE "upsert"
    /\ UNCHANGED <<clock, stopped, cutoff, store, metrics,
                   lost, unmeasured, history, appended, failures>>

\* flush: the maps are taken and replaced under the mutex, then ApplyGraph
\* runs without it.
Flush(fin) ==
    /\ final' = fin
    /\ batch' = [nodes |-> mem.nodes, edges |-> mem.edges]
    /\ mem' = [mem EXCEPT !.nodes = Empty, !.edges = Empty]
    /\ loop' = IF DOMAIN mem.nodes = {} /\ DOMAIN mem.edges = {}
               THEN AfterFlush(fin) ELSE "upsert"
    /\ UNCHANGED <<clock, stopped, cutoff, store, metrics,
                   lost, unmeasured, history, appended, failures>>

FlushOnTick == loop = "select" /\ Flush(FALSE)

FlushOnStop == loop = "select" /\ stopped /\ Flush(TRUE)

\* Mutant: last_seen = excluded.last_seen, without MAX.
UpsertedNoMax(rows, aggs) ==
    [k \in DOMAIN rows \cup DOMAIN aggs |->
        IF k \notin DOMAIN aggs THEN rows[k]
        ELSE IF k \notin DOMAIN rows
             THEN [first |-> aggs[k].lastSeen, agg |-> aggs[k]]
             ELSE [first |-> rows[k].first,
                   agg |-> [Merge(rows[k].agg, aggs[k]) EXCEPT !.lastSeen = aggs[k].lastSeen]]]

\* Rows of one table: first_seen is written once, the rest is merged.
Upserted(rows, aggs) ==
    [k \in DOMAIN rows \cup DOMAIN aggs |->
        IF k \notin DOMAIN aggs THEN rows[k]
        ELSE IF k \notin DOMAIN rows
             THEN [first |-> aggs[k].lastSeen, agg |-> aggs[k]]
             ELSE [first |-> rows[k].first, agg |-> Merge(rows[k].agg, aggs[k])]]

\* UpsertGraph commits.
UpsertCommits ==
    /\ loop = "upsert"
    /\ store' = [nodes |-> Upserted(store.nodes, batch.nodes),
                 edges |-> Upserted(store.edges, batch.edges)]
    /\ loop' = "metrics"
    /\ UNCHANGED <<clock, mem, stopped, final, batch, cutoff, metrics,
                   lost, unmeasured, history, appended, failures>>

\* A warning of the flush goroutine comes back as an entry of the server itself.
Warning == [app |-> Self, err |-> FALSE, ts |-> 0,
            trace |-> None, corr |-> None, peer |-> None]

\* Mutant: ApplyGraph returns after a failed upsert.
UpsertFailsReturns ==
    /\ loop = "upsert" /\ failures < MaxFailures
    /\ failures' = failures + 1
    /\ lost' = [nodes |-> MergeAll(lost.nodes, batch.nodes),
                edges |-> MergeAll(lost.edges, batch.edges)]
    /\ Observe(Warning)
    /\ batch' = EmptyBatch
    /\ loop' = AfterFlush(final)
    /\ UNCHANGED <<clock, stopped, final, cutoff, store, metrics,
                   unmeasured, appended>>

\* UpsertGraph fails and rolls back; ApplyGraph logs and goes on.
UpsertFails ==
    /\ loop = "upsert" /\ failures < MaxFailures
    /\ failures' = failures + 1
    /\ lost' = [nodes |-> MergeAll(lost.nodes, batch.nodes),
                edges |-> MergeAll(lost.edges, batch.edges)]
    /\ Observe(Warning)
    /\ loop' = "metrics"
    /\ UNCHANGED <<clock, stopped, final, batch, cutoff, store, metrics,
                   unmeasured, appended>>

\* The count column of the rows added to edge_metrics; errors travel with it.
Counted(f, aggs) ==
    [k \in DOMAIN f \cup DOMAIN aggs |->
        (IF k \in DOMAIN f THEN f[k] ELSE 0) + Count(aggs, k)]

ApplyReturns ==
    /\ batch' = EmptyBatch
    /\ loop' = AfterFlush(final)
    /\ UNCHANGED <<clock, stopped, final, cutoff, store, lost, appended>>

\* InsertEdgeMetrics, which does nothing for an empty slice.
InsertMetrics ==
    /\ loop = "metrics"
    /\ metrics' = Counted(metrics, batch.edges)
    /\ ApplyReturns
    /\ UNCHANGED <<mem, unmeasured, history, failures>>

\* Mutant: the flush goroutine ends on an error.
InsertMetricsFailsStops ==
    /\ loop = "metrics" /\ failures < MaxFailures /\ DOMAIN batch.edges # {}
    /\ failures' = failures + 1
    /\ unmeasured' = Counted(unmeasured, batch.edges)
    /\ Observe(Warning)
    /\ batch' = EmptyBatch
    /\ loop' = "done"
    /\ UNCHANGED <<clock, stopped, final, cutoff, store, metrics, lost, appended>>

\* InsertEdgeMetrics returns an error, whether or not the server applied it.
InsertMetricsFails ==
    /\ loop = "metrics" /\ failures < MaxFailures /\ DOMAIN batch.edges # {}
    /\ failures' = failures + 1
    /\ \/ metrics' = Counted(metrics, batch.edges) /\ UNCHANGED unmeasured
       \/ unmeasured' = Counted(unmeasured, batch.edges) /\ UNCHANGED metrics
    /\ Observe(Warning)
    /\ ApplyReturns

\* evictGroups reads the clock before it takes the mutex.
ReadCutoff ==
    /\ loop = "evict"
    /\ cutoff' = clock - GroupTTL
    /\ loop' = "evicting"
    /\ UNCHANGED <<clock, mem, stopped, final, batch, store, metrics,
                   lost, unmeasured, history, appended, failures>>

Stale(m, c) == {g \in DOMAIN m.groups : m.groups[g].lastSeen < c}

Evict ==
    /\ loop = "evicting"
    /\ mem' = [mem EXCEPT !.groups =
                  [g \in DOMAIN mem.groups \ Stale(mem, cutoff) |-> mem.groups[g]]]
    /\ history' = IF Stale(mem, cutoff) = {} THEN history
                  ELSE Append(history, Removal(Stale(mem, cutoff)))
    /\ loop' = "select"
    /\ cutoff' = 0
    /\ UNCHANGED <<clock, stopped, final, batch, store, metrics,
                   lost, unmeasured, appended, failures>>

\* The process ends, orderly or not, and a new extractor starts on the same stores.
Restart ==
    /\ failures < MaxFailures
    /\ failures' = failures + 1
    /\ lost' = [nodes |-> MergeAll(MergeAll(lost.nodes, mem.nodes),
                                   IF loop = "upsert" THEN batch.nodes ELSE Empty),
                edges |-> MergeAll(MergeAll(lost.edges, mem.edges),
                                   IF loop = "upsert" THEN batch.edges ELSE Empty)]
    /\ unmeasured' = Counted(Counted(unmeasured, mem.edges), batch.edges)
    /\ history' = IF DOMAIN mem.groups = {} THEN history
                  ELSE Append(history, Removal(DOMAIN mem.groups))
    /\ mem' = FreshMem /\ stopped' = FALSE /\ loop' = "select" /\ final' = FALSE
    /\ batch' = EmptyBatch /\ cutoff' = 0
    /\ UNCHANGED <<clock, store, metrics, appended>>

\* The loop has returned; nothing is left to wait for.
Ended == loop = "done" /\ UNCHANGED vars

FlushLoop ==
    \/ FlushOnTick \/ FlushOnStop \/ UpsertCommits \/ UpsertFails
    \/ InsertMetrics \/ InsertMetricsFails \/ ReadCutoff \/ Evict

Next ==
    \/ Advance
    \/ \E e \in Entries : AppendEntry(e)
    \/ Close \/ Restart \/ Ended
    \/ FlushLoop

Safety == Init /\ [][Next]_vars

\* The goroutine is scheduled, its ticker fires and each of its writes ends
\* (ApplyGraph runs under a 30 s context).
Spec == Safety /\ WF_vars(FlushLoop)
-----------------------------------------------------------------------------
(* Properties *)

AggOf(f) == \A k \in DOMAIN f :
    f[k] \in [origin : SUBSET {"trace", "inferred"}, count : Nat \ {0},
              errors : Nat, lastSeen : Nat]

\* The maps hold aggregates of their keys, and the groups map never outgrows
\* the cap that linkGroup enforces.
TypeOK ==
    /\ clock \in Nat /\ cutoff \in Int
    /\ stopped \in BOOLEAN /\ final \in BOOLEAN
    /\ loop \in {"select", "upsert", "metrics", "evict", "evicting", "done"}
    /\ DOMAIN mem.nodes \subseteq Apps /\ AggOf(mem.nodes)
    /\ DOMAIN mem.edges \subseteq EdgeKeys /\ AggOf(mem.edges)
    /\ DOMAIN mem.groups \subseteq GroupKeys
    /\ Cardinality(DOMAIN mem.groups) <= MaxGroups
    /\ \A g \in DOMAIN mem.groups : mem.groups[g] \in [lastApp : Apps, lastSeen : Nat]
    /\ mem.dropped \in Nat
    /\ DOMAIN batch.nodes \subseteq Apps /\ AggOf(batch.nodes)
    /\ DOMAIN batch.edges \subseteq EdgeKeys /\ AggOf(batch.edges)

Moments == 1 .. Len(history)

\* The sightings of a node: the entries of its application.
NodeSightings(a) == {<<"entry", None, j>> : j \in {i \in Moments : history[i].app = a}}

\* Entry j follows an entry of src in group g: nothing in between belongs to
\* g or removes it.
Follows(g, src, j) ==
    \E i \in 1 .. (j - 1) :
        /\ g \in history[i].joined /\ history[i].app = src
        /\ \A m \in (i + 1) .. (j - 1) : g \notin history[m].joined \cup history[m].removed

\* The sightings of an edge: one for each group in which an entry of dst
\* follows one of src, and one for each entry of src naming dst as its peer.
EdgeSightings(k) ==
    IF k[1] = k[2] THEN {}
    ELSE {<<p[1][1], p[1][2], p[2]>> : p \in
             {q \in GroupKeys \X Moments :
                 /\ q[1] \in history[q[2]].joined /\ history[q[2]].app = k[2]
                 /\ Follows(q[1], k[1], q[2])}}
         \cup {<<"peer", None, j>> : j \in
                 {i \in Moments : history[i].app = k[1] /\ history[i].peer = k[2]}}

OriginOf(kind) ==
    CASE kind = "trace" -> {"trace"}
      [] kind \in {"corr", "peer"} -> {"inferred"}
      [] OTHER -> {}

\* The aggregate of a nonempty set of sightings.
Aggregate(S) ==
    [origin   |-> UNION {OriginOf(s[1]) : s \in S},
     count    |-> Cardinality(S),
     errors   |-> Cardinality({s \in S : history[s[3]].err}),
     lastSeen |-> Max({history[s[3]].at : s \in S})]

\* Everything the system holds or has lost for the keys of one map.
Saved(rows) == [k \in DOMAIN rows |-> rows[k].agg]
Held(rows, unsaved, live, gone) ==
    MergeAll(MergeAll(Saved(rows), IF loop = "upsert" THEN unsaved ELSE Empty),
             MergeAll(live, gone))

\* Every entry of an application is counted once, as an entry and as an error,
\* over the stored row, the batch in flight, the live map and what a failed
\* transaction or a restart lost: no interleaving of handlers, flush and the
\* flush's own warnings loses or repeats one.
NodesAccounted ==
    LET held == Held(store.nodes, batch.nodes, mem.nodes, lost.nodes)
    IN  /\ DOMAIN held = {a \in Apps : NodeSightings(a) # {}}
        /\ \A a \in DOMAIN held : held[a] = Aggregate(NodeSightings(a))

\* The same of the edges, whose sightings are defined on the whole history: an
\* edge is drawn from each entry of a trace or correlation group to the next
\* one, in the order of the mutex and whatever flushes came in between, never
\* across an eviction, and never from a service to itself.
EdgesAccounted ==
    LET held == Held(store.edges, batch.edges, mem.edges, lost.edges)
    IN  /\ DOMAIN held = {k \in EdgeKeys : EdgeSightings(k) # {}}
        /\ \A k \in DOMAIN held : held[k] = Aggregate(EdgeSightings(k))

\* The metrics series gets each edge observation at most once and misses only
\* what its own insert failed to write or a restart lost: a failed SQLite
\* transaction costs it nothing.
MetricsAccounted ==
    \A k \in EdgeKeys :
        Cardinality(EdgeSightings(k)) =
            Count(mem.edges, k) + Count(batch.edges, k)
            + (IF k \in DOMAIN metrics THEN metrics[k] ELSE 0)
            + (IF k \in DOMAIN unmeasured THEN unmeasured[k] ELSE 0)

\* Nodes, edges and metrics together: what one flush, one failed write or one
\* warning does to one of them must not cost or repeat another.
AggregatesAccounted == NodesAccounted /\ EdgesAccounted /\ MetricsAccounted

RowsAdvance(old, new) ==
    /\ DOMAIN old \subseteq DOMAIN new
    /\ \A k \in DOMAIN old :
        /\ new[k].first = old[k].first
        /\ old[k].agg.origin \subseteq new[k].agg.origin
        /\ new[k].agg.count >= old[k].agg.count
        /\ new[k].agg.errors >= old[k].agg.errors
        /\ new[k].agg.lastSeen >= old[k].agg.lastSeen

\* UpsertGraph's contract (store.go: "counters add up, origin bits OR together,
\* last_seen advances"), over restarts and entries that arrive out of order.
StoreAdvances ==
    [][RowsAdvance(store.nodes, store'.nodes) /\ RowsAdvance(store.edges, store'.edges)]_vars

\* An aggregate that is in memory before Close leaves it: no failed write stops
\* the flush loop, and Close waits for a last flush.
EveryAggregateFlushes ==
    \A a \in Apps :
        (a \in DOMAIN mem.nodes /\ ~stopped) ~> (a \notin DOMAIN mem.nodes)
=============================================================================
