# LogDoc: TLA+ models, model checking and proofs

LogDoc is a log server written in Go. Entries arrive over HTTP, a native TCP
protocol, syslog, journald, Python logging, OTLP and source plugins; a fan-out
hands each one to the ClickHouse batcher, the live tail, the architecture-graph
extractor, the deploy detector and the notification engine. The server also
feeds its own log records back into the same components.

This directory holds TLA+ models of the parts whose correctness depends on
interleavings, failures, retries, restarts or timing. TLC checks the models on
small instances; TLAPS proves the listed theorems for all values of the
constants. `PROJECT.json` maps every definition to the lines it models and lists
runs, mutants (small plausible mistakes that each property must catch),
findings, hazards and theorems.

    tlc -workers 2 -config MCBatcher.cfg MCBatcher     # one run
    tlapm BatcherProofs.tla                            # one proof module

## 1. Inventory

| component | state | operations | hard behaviour |
|---|---|---|---|
| storage batcher (`internal/storage/batcher.go`) | channel of 4 batches, batch slice, `dropped` | Append, TryAppend, Close, loop, flushWithRetry | backpressure, retries after unknown outcomes, Close against late senders, its own log records |
| self log (`internal/selflog`, `selfSink` in `main.go`) | none | Handle, TryAppend | re-enters batcher, hub and extractor from any goroutine, theirs included |
| notification engine (`internal/notify/notify.go`) | rules with bucket rings, lastSeen, sends in flight | Append, tick, dispatch, SetRule, DeleteRule, Close | clock read outside the mutex, late ticks, rounding of windows, Close during sends |
| rules API and file (`notify/http.go`, `notify/rules.go`) | UI rules, JSON file | upsert, delete, load | crash between engine and file, changed configuration at a restart |
| match conditions (`notify/match.go`) | none | compileMatch | nesting, not/any/all |
| senders (`notify/senders.go`, `kafka.go`) | connections | Send | a send without a deadline (email) |
| graph extractor (`graph/extractor.go`) | node, edge and group maps | Append, flush, evictGroups, Close | entries during a flush, late timestamps, map at its cap |
| graph manager and stores (`graph/manager.go`, `graph/sqlite`, `clickhouse/edges.go`) | SQLite tables, ClickHouse series | ApplyGraph, UpsertGraph, InsertEdgeMetrics, reads | one of two writes failing |
| deploy detector (`graph/deploys.go`) | last version per app, pending markers | Append, flush, InsertDeploys | lost flush, out-of-order versions, restart |
| declared graph, catalog, project file (`graph/declared.go`, `catalog.go`, `project.go`, `diff.go`) | SQLite tables, config entries | replace, set, import, diff | import in several transactions |
| plugin host (`internal/plugins`) | one supervised process per plugin | supervise, runOnce, Close | crash in every phase, backoff, shutdown |
| authentication (`internal/auth`) | users, tokens, cached user count | UpsertUser, DeleteUser, tokens, login | last-admin check and write in different statements |
| live tail (`internal/tail`) | subscriber set and buffers | Subscribe, cancel, Append | slow subscribers, cancel against Append |
| ingest listeners (`internal/ingest`) | connections, journald reassembly buffers | accept, parse, Shutdown | framing guessed per message, entries split over datagrams, hand-written pickle machine, shutdown under one deadline |
| pipelines (`internal/pipeline`) | compiled steps, none between entries | Append | shared field maps, random map order, the cap on fields |
| query layer (`internal/query`, `clickhouse/query.go`) | none | plan, Matches, SQL, RecordQueryStats | the in-memory filter against SQL; telemetry in a goroutine of its own |
| server (`cmd/logdoc/main.go`) | wiring | run, shutdown | order of closes, log records of goroutines that outlive them |
| MCP server, snapshot, configuration, UI, plugin SDK | none or static | - | - |

Interactions: the fan-out calls `Append` of every consumer in turn on the
ingest goroutine, so a full batcher queue holds up the handler (and a source
plugin's stream), while hub, extractor, deploy detector and engine take a mutex
only. Every `slog` call in the process, including those of the batcher's and the
extractor's own goroutines, comes back through `selfSink`. On shutdown the
listeners stop first, then deferred closes run: account store, engine, plugin
host, deploy detector, extractor, graph store, batcher, ClickHouse.

What makes each component correct, in a sentence:

- batcher: accepted entries reach the store in order, or are counted as dropped;
  nothing is lost silently and Close always ends;
- engine: a rule fires exactly when its window says so, no more often than
  allowed, once per silence; senders are not used after they are closed;
- rules: what was acknowledged is in the file and in the engine after any crash;
- graph: node and edge totals are what the entry stream implies, through
  flushes, failures and restarts, and stored rows only move forward;
- plugins: one process per plugin at a time, restarted with the documented
  backoff, all gone after Close;
- deploy detector: the newest marker of a service is its last version, and no two
  neighbouring markers repeat one, through failed inserts and restarts;
- declared graph and catalog: an import that nobody disturbs replaces exactly what
  it should, and an answer put together from several queries is still coherent;
- live tail: each subscriber gets the stream without what met a full buffer, and
  never holds ingest up;
- decoders: what a peer sent whole comes out once, in order and unchanged, and what
  arrives cut or lost never turns into something else;
- pipelines: the result is what the steps say, whatever the order of Go's maps, and
  the caller's entry is not touched;
- server: when every listener drains in time, what handlers read and what they log is
  in the consumers before these close; log records of the goroutines nobody waits for,
  and of a last flush that fails, may still come after, and one that meets the closed
  batcher panics; and a stop ends.

## 2. Modules

| module | models | EXTENDS / INSTANCE |
|---|---|---|
| `EntryLedger` | abstract: what the batcher promises | |
| `Batcher` | batcher.go with the self-log path | INSTANCE EntryLedger (refinement) |
| `NotifyEngine` | notify.go, SetRule of rules.go | |
| `RulesStore` | notify/http.go, rules.go | |
| `GraphExtractor` | extractor.go, ApplyGraph, UpsertGraph, InsertEdgeMetrics | |
| `PluginHost` | plugins.go | |
| `DeployDetector` | deploys.go, InsertDeploys | |
| `GraphAdmin` | declared.go, catalog.go, project.go and the handlers that call them, their SQLite statements | |
| `Server` | run() of main.go: listeners, shutdown, deferred closes, fan-out, self sink; the listeners' goroutines and those that log | |
| `LiveTail` | tail/hub.go, tail/ws.go | |
| `Unpickler` | unpickle and entryFromPython of python.go | |
| `JournalDecoder` | the decoder and the packet loop of journald.go | EXTENDS WireBytes |
| `SyslogFraming` | readSyslogFrame, handleConn, the priority of syslog.go | EXTENDS WireBytes |
| `WireBytes` | bytes, levels and facilities both decoders use | |
| `Pipeline` | pipeline.go, steps.go | |
| `GraphStore` | the two over the one graph database | EXTENDS GraphAdmin, DeployDetector |
| `MCIngest` | the ingest path: one scene per component | EXTENDS LiveTail, Unpickler, JournalDecoder, SyslogFraming, Pipeline |
| `MC*` | TLC instances | EXTENDS the component |
| `BatcherProofs`, `NotifyEngineProofs`, `RulesStoreProofs`, `GraphExtractorProofs`, `PluginHostProofs`, `GraphStoreProofs`, `IngestProofs` (server, live tail and pipelines), `WireProofs` (syslog framing and journald) | theorems | EXTENDS the component, TLAPS |

### Batcher

An entry is the number under which the channel accepted it. `in`, `batch`,
`attempt`, `dropped` are the code's variables; `copies[n]` counts the rows the
store holds for entry n, because an insert that reports an error may have been
applied and is tried again. `loop` is the program counter of the goroutine:
`select`, `insert` (inside InsertBatch), `warn`/`error` (about to log), `sleep`,
`done`; `cont` says what follows the flush (ticker reset, back to select, return).
`AppendEntry` is not enabled while the channel is full, which is the handler's
wait; `SelfLog`, `LogRetry` and `LogDropped` are TryAppend, which discards
instead. A send on the closed channel panics, and no caller recovers: `panicked`
ends the behaviour. `MaxCalls` and `MaxFailures` bound callers and failed inserts.

`EntryLedger` has no channel, ticker, retries, duplicates or self logs: entries
are accepted, and settled in order in groups of at most BatchSize, each group
stored or lost as a whole. `RefinesLedger` maps the batcher onto it.

### NotifyEngine

Time is in abstract units, `Slot` per tick. A handler's `Append` is two actions,
`Stamp` (it reads the clock) and `Apply` (under the mutex); `Tick` evaluates every
rule at the time the ticker sent, not at the current one; both may be late by
`MaxDelay < Slot`. The rule record keeps the code's fields: the ring, the index,
captured entries (their stamps), fires, disabled, lastFired, silenced. Ghosts:
`hits` (matched entries since the last fire, with stamp and tick number), `newest`
(the largest stamp applied). All rules are UI rules, so any of them may be
replaced by `SetRule`. A send in flight is counted per rule and channel, since
dispatch starts one goroutine for each. The match is the default condition.

### RulesStore

Rules are names with a body, the channel they name: whether that channel is
configured decides whether a saved rule is accepted at a start. `RulesAPI.mu`
admits one mutation, whose steps (engine, file, reply) are separate actions;
`SaveFails` is a failed write, `Stop` ends the process anywhere, `Start` loads the
file under any configuration notify.New accepts. Ghosts: `acked`, `unsure`
(names whose latest call was not acknowledged), `shadowed` (names a start rejected).

### GraphExtractor

`mem` is what the mutex guards. `Observed` is Append with its three signals in
order; `Flush` swaps the maps under the mutex; `UpsertCommits`/`UpsertFails`,
`InsertMetrics`/`InsertMetricsFails` are ApplyGraph's two writes; every failure
logs, and the record re-enters as an entry of the server itself. `ReadCutoff` and
`Evict` are evictGroups, which reads the clock before it takes the mutex.
`Restart` keeps the stores only. The ghost `history` lists entries and group
removals in mutex order; the properties recompute nodes and edges from it. One
tenant is modelled: every key carries it and none crosses it.

### PluginHost

`at[p]` is the program counter of supervise/runOnce, one step per blocking call.
A child is none, alive or dead and not waited for. `Fails` lets each step fail
when it must (dead process, cancelled context) or by one of `MaxFaults` faults.

### DeployDetector

`last` and `pending` are the maps under the mutex, `flushing` is the map flush
took away. A tenant's transaction goes step by step: `BeginInsert`, `InsertNext`
for each marker, `CommitInsert`, or `InsertFails` at any point, which rolls it
back; `txRows` is the table as the transaction sees it. `InsertDeploy` is the set
of tables SQLite may have after one marker: rows of equal timestamps come back
from `ORDER BY ts DESC LIMIT 1` in an order SQL leaves open. Timestamps are the
sender's. Ghosts: `outOfOrder` (services whose timestamps did not increase) and
`unmarked` (services whose last insert failed and has not been made up for).
These two carve-outs are what the code does not do: a failed insert is not tried
again, and the newest row decides, not the last one.

### GraphAdmin

A request is a sequence of statements, each an action that succeeds or, within
`MaxDbFailures`, fails; requests of several clients interleave between them.
`ImportDeclared`, `ImportList`, `ImportDelete`, `ImportSave` are the POST of a
project; `ReadNodes` and `ReadEdges` the two queries of DeclaredGraph.
`MergeDeclared` is mergeDeclared on sets. Ghosts in a request: `alone` (no other
write since it began), `clean` (none of its statements failed), `before` (the
catalog it found). A restart may change the entries the config file defines.

### Server

`handler[h]` says where a goroutine is: not running, reading, or at a receiver of
`Path`: the fan-out for an entry, the self sink (hub, extractor, batcher) for a log
record. A TCP connection outlives its closed listener, a packet loop does not,
a request ends with its answer; each may log instead of delivering. `Loggers` only
log: the goroutines of the four consumers, for which their Close waits, the one that
copies a plugin's stderr and the one that inserts the telemetry of a query, for which
nobody waits (`Detached`). `run()` is `phase` and `at`; a Close is called when
`run()` gets to it and returns when its handlers are gone, or, for the listeners
that take the context, when the 15 seconds are over. The batcher is only open or
closed here: a send to a closed one panics, which is what `EntryLedger` says of it.
`Late` names what may reach a closed consumer even after a stop in which every
listener drained, and `DrainedStopLosesNothing` says that nothing else does and that
a panic comes from one of these. Such a panic may cost what the batcher has not
flushed yet; the property speaks of what reaches it in time. The engine closes before the plugin host, so a
streaming plugin's entry is late for it; a failed write in the last flush of the
extractor or the batcher logs into the consumer that is closing; stderr and telemetry
may come at any time.

### LiveTail

The RWMutex is `readers` and the handlers that wait for it; as in Go a waiting
writer keeps new readers out. `Offer` is the select with default. The client's
write may never end. `offered` is the history of what the hub tried to hand over.

### Unpickler, JournalDecoder, SyslogFraming

Each has the sender as an external part (Python's pickler for protocols 0, 1, 2 and 4,
the journal export format, an RFC 6587 client) that turns data into the bytes or
opcodes the code meets, cut anywhere, and the code's reader as actions. The
properties compare what comes out with what was sent. The unpickler's dicts are
references and its lists are values, as Go's maps and slices are there; a byte has
`Byte` values, so that integers of one to eight bytes, both signs, and one that is
too wide are all small enough to enumerate. `PickleRoundTrip` has two halves. `RecordExact` compares the decoded record
with the one that was pickled; the lists that are met again come back empty, which
`Remembered` says. `EntryExact` says what the entry
of a decoded frame is, attribute by attribute, from the pairs the client logged: it
uses neither `EntryFromPython` nor its helpers for what it expects. Protocol 0 is
refused at its first opcode of its own. Priorities go through
`Atoi`, with the signs and zeros strconv.Atoi takes. The syslog messages are those that the
framing they are sent in can carry (`Framable`), and the journal fields those that the
export format can (`JournalField`). What a source loses is named by `disturbed`: a
datagram, a buffer that grew too long, or a decoder thrown away with something in it.
A field that comes twice has its last value, as in the code's map.

### Pipeline

One action per selector, step and visited key: `todo` is the stack of Go map loops
under way, each with the keys it has still to visit, in any order. `Meaning`
computes the result of the steps without an order, step by step (`AfterSteps`) and
pipeline by pipeline (`AfterPipelines`); where the configuration makes
the order matter (`OrderFree` is false, or set fields read one another) the
property says nothing. Regular expressions and the JSON decoder are constants.

## 3. Runs

| run | shows | bounds |
|---|---|---|
| `batcher` | `TypeOK`, `Fifo`, `NoSilentLoss`, `BoundedCopies`, `PanicOnlyAfterClose`, `StoredInOrder`, `RefinesLedger`; `EveryEntrySettles`, `CloseReturns` | batches of 2, channel of 8, 11 calls, 2 failures: the queue is full while the loop retries or gives a batch up, appends wait, and log records, the loop's own among them, are discarded |
| `batcher_close` | `CloseFlushesEverything` fails | finding 1 |
| `notify` | `RingExact`, `ThresholdExact`, `SilenceExact`, `FiresWithinLimit`, `LastSeenFresh`, `NoSendAfterClose` | two buckets, 5 ticks, 4 entries, 2 handlers: an entry can go round the whole ring, a rule can fire, cool down and fire for the last time, an app can fall silent twice |
| `notify_window` | `CountedWithinWindow` fails | finding 2; nothing is late in this run |
| `rules` | `AckedIsSaved`, `EngineServesAcked`, `EngineRulesValid` | 2 rules, 2 channels, 4 calls, 2 restarts |
| `rules_lost` | `RulesSurviveRestarts` fails | finding 3 |
| `graph` | `AggregatesAccounted` (nodes, edges and metrics), `StoreAdvances`, `EveryAggregateFlushes` | 3 entries of 5 kinds, 2 groups, 1 failure or restart |
| `plugins` | `NoStrayProcess`, `BackoffExact`, `CrashedSourceRestarts`, `HostCloseReturns` | one plugin of each kind, 5 faults: the fourth wait is the first the cap shortens |
| `plugins_pipe` | `CrashedPluginRestarts` fails | finding 4 |
| `server` | `DrainedStopLosesNothing`, `StopEnds` | a connection, a packet loop, a request, a plugin stream and every goroutine that logs; one record, which can be at any receiver when any Close comes |
| `ingest` | `TailExact`, `IngestNeverWaits`; `PickleRoundTrip`; `JournalExact`; `FramesExact`; `PipelineExact` | tail: 2 clients with a buffer of 1, 2 goroutines; python: 4 protocols, 4-valued bytes, 8-byte integers, nested, shared, repeated and empty containers, every mapped key present, blank, None and absent; journald: 3 sources for a table of 2, a name that comes twice, datagrams of 1 to 3 bytes, one lost, a buffer of 7; syslog: streams of all framings cut at every byte, counts at and beyond the limits, signed and zero-padded priorities; pipelines: every step, a cap of 4 fields |
| `admin` | `ImportReplaces`, `AnswersCoherent`, `MarkersExact` | 2 clients, 3 requests, 1 failing statement: an import meets another import, a declare or an edit at each of its steps; graphs beyond the limit of nodes and beyond that of edges are refused; 2 tenants, 2 services, 3 markers with a table of 2, 1 crash or failed insert |

The components of `ingest` share no variables, and neither do the two of `admin`:
`scene` picks the one that moves, and the others stay in an initial state,
so one run asks all their questions. `CHECK_DEADLOCK FALSE` in these two runs and in
`server` says that a server that has exited, a connection that is over, a frame that
is decoded and a bound that is used up really are the end.

Symmetry is used only in runs without liveness properties (handlers in `notify`,
names and channels in the rules runs). Deadlock is checked in all the others; `Ended`
actions name the states where the component has stopped or a bound is used up.

Fairness:

- batcher: weak fairness of the loop (the goroutine is scheduled, InsertBatch has
  a 30 s context, sleeps end) and of the ticker; strong fairness of the two
  receives, because Go's `select` picks at random among ready cases and so does
  not pass over a channel for ever. Callers owe nothing.
- graph: weak fairness of the flush loop; ApplyGraph runs under a 30 s context.
- plugins: weak fairness of each supervisor. Handshake and describe have
  timeouts, Configure too; Recv ends with the process or the context; the batcher
  takes an entry eventually, which is `EveryEntrySettles`. Faults are finite:
  a plugin that always crashes is never served.
- server: `run()` goes on when what it waits for has come; the timer fires; a
  send that obeys its context ends (15 s); a handler passes an entry on (the
  batcher takes it: `EveryEntrySettles`; the hub does not wait: `IngestNeverWaits`)
  and leaves when its socket is closed. Peers owe nothing: a connection need not
  end and an SMTP dialogue need not either. That is why `StopEnds` names the two
  ways in which a stop can hang, `PythonHolds` (pythonSrv.Close has no deadline,
  `main.go:301`) and `SmtpHolds` (Email.Send ignores its context,
  `senders.go:105`); apart from them a stop ends.
- tail: an ingest goroutine inside Append runs, and a waiting writer gets the
  RWMutex. Clients owe nothing: no fairness for the WebSocket write.
- admin, notify and rules have safety and action properties only.

## 4. Findings

1. **A failed insert during Close panics** (`batcher_close`). flushWithRetry logs
   through slog, whose sink sends to the channel Close has closed
   (`batcher.go:145`, `selflog.go:52`). The batch is neither stored nor counted,
   although Close "waits for everything accumulated to be flushed".
2. **Windows are rounded up to whole slots** (`notify_window`). A 15 s window
   has two 10 s buckets: an event may count entries 20 s old and call them
   "in the last 15s".
3. **A rejected saved rule is erased** (`rules_lost`). A saved rule that one start
   rejects is skipped, and the next save writes the engine's rules only, so it is
   gone when its channel comes back: "UI rules survive restarts" does not hold.
4. **A dead pipe plugin is not restarted** (`plugins_pipe`). Its run waits for the
   host's context and nobody waits for the process.

What the checks confirm around them: up to Close the batcher never panics and
loses nothing silently; with a window of whole slots the ring is exact; rules
that no start rejects survive every crash; source plugins come back; in a stop
in which every listener drains, what was read is in the consumers before they close;
a whole Python record of protocol 1 or 2, or of 4 without frames, whose integers fit
int64 and whose lists occur once, is decoded as it was logged.

Where a comment promises more than the code does and no run of its own refutes it,
the passing property states what the code does instead:

- Host.Close "stops every plugin ... and waits" (`plugins.go:121`), but not for the
  goroutine that copies stderr (`plugins.go:178`), and the error of a telemetry insert
  "is only logged" (`clickhouse/query.go:110`) by a goroutine nobody waits for
  (`query/http.go:82`). After a stop in which every listener drained, such a record
  can come to the extractor after its last flush or to the closed batcher, where
  the send panics as in finding 1 (`Late` in `DrainedStopLosesNothing`).
- The unpickler announces "protocols 0-2 scalars, strings, dicts, lists, tuples"
  (`python.go:22`). The opcodes that are protocol 0's own (UNICODE, DICT, LIST, PUT,
  GET) are not in its switch, so such a record is refused (`Refused`); and the memo
  holds a list as it was before its items were appended (`python.go:406`), so that a
  list a record holds twice comes back empty the second time (`Remembered`).

Further limits of the code that the properties state as their exceptions (no document
or test promises otherwise): entries that a consumer gets
after its Close when the deadline abandoned a handler or a listener failed to
open; plugin entries that reach the engine after it closed, since it closes before
the plugin host; the extractor's record of a failed write in its last flush, which
nobody flushes any more; the stop that hangs on a Python connection or an SMTP server;
markers lost with a failed insert or repeated when timestamps run backwards.

## 5. Proofs

The theorems hold for every value of the constants that satisfies the named
assumption of the component's module. These say no more than what the code's
constants and its validation of the configuration give:

| assumption | says |
|---|---|
| `BatcherAssumption` | batch size and retries are positive |
| `NotifyAssumption` | a rule is a threshold or a silence rule; thresholds, windows, cooldowns, the slot and the capture limit are positive; a handler or a tick is late by less than a slot |
| `RulesAssumption` | None is no channel |
| `GraphAssumption` | entries are built from the applications and ids; cap and lifetime of groups are positive |
| `PluginAssumption` | the kinds are disjoint and 0 < backoffMin <= backoffMax |
| `DeployAssumption`, `GraphAdminAssumption` | the blank name is no application; graphs and catalogs are sequences of names; limits are numbers |
| `LiveTailAssumption` | filters are sets of tags, of which there are some; the buffer holds at least one entry |
| `ServerAssumption` | handlers belong to the listeners of `run()`, the plugins, or the goroutines that log; the bound on records is a number |
| `PipelineAssumption` | entries are records of six attributes, one of them a map; configurations are sequences of pipelines with at least one step, each of a known kind, a severity step with an input; the cap on fields is a number |
| `JournalAssumption` | entries are sequences of fields that the export format carries: a name is not empty and holds neither '=' nor a newline, the length of a value fits its size field; bytes are below 256; the table has a place |
| `SyslogAssumption` | the client sends what its framing can carry: a line holds no newline and does not begin with digits and a space that read as a count; a count is that of its message, without leading zeros, in the digits and up to the length the listener accepts |

Every invariant and action property that a run checks outside the Python decoder is
proved; what is not is named at the end of this section.

- **BatcherProofs**: `TypeCorrect`, `FifoHolds`, `NoSilentLossHolds`,
  `PanicOnlyAfterCloseHolds`, `BoundedCopiesHolds`, `StoredInOrderHolds`,
  `Refinement` (the batcher implements EntryLedger). The inductive invariant is
  `TypeOK /\ Fifo /\ Control /\ Rows /\ Lost`. `Control` ties the program counter
  to batch, attempt and cont (a flush in progress has a nonempty batch; a full
  batch is being flushed); `Rows` bounds the rows of settled entries by
  MaxRetries, those of the batch by the attempts made, and those of the channel by
  zero; `Lost` says which entries the counter stands for and needs the cardinality
  of an interval. Fifo alone is not inductive: giving a batch up has to know that
  its entries are the interval after the settled prefix and not lost already.
- **NotifyEngineProofs**: `TypeCorrect`, `FiresWithinLimitHolds`,
  `LastSeenFreshHolds`, `NoSendAfterCloseHolds`, `SilenceExactHolds`,
  `RingExactHolds`, `ThresholdExactHolds`: all the properties of the `notify` run.
  The base is `Types /\ Clock`: `Clock` says how far behind the clock a pending
  entry and a pending tick may be and where the next tick is, which is all that
  "late" means. `SilenceExact` needs `SilenceKnown`: what `silenced` and
  `lastFired` say about the gap that is open. `RingExact` needs `HitsTimed`, that
  the stamp of a counted entry lies within its tick; then an `Observe` adds to the
  current bucket (`RingObserved`), a `Rotate` shifts the distance to every bucket
  by one (`RingRotated`, modulo the number of slots) and a fire or a rule change
  empties the ring (`RingEmpty`). `ThresholdExact` compares the sum of the buckets
  with a number of entries: the recursive function that sums is the only solution
  of its equation (`BucketSumIs`), and the cardinalities of the buckets' entries are
  one (`RingSum`). Induction on a number goes through the least counterexample
  (`SmallestNumber`).
- **RulesStoreProofs**: `TypeCorrect`, `AckedIsSavedHolds`,
  `EngineServesAckedHolds`, `EngineRulesValidHolds`. The strengthening `Mutation`
  says what the operation in progress has done to engine and file, and
  `Agreement` that engine and file agree on every name that is neither unsure nor
  shadowed.
- **GraphExtractorProofs**: `TypeCorrect`, `StoreAdvancesHolds`,
  `AggregatesAccountedHolds`. The first invariant adds
  to TypeOK that the maps are functions of the right shape, that the groups map is
  finite (the cap is an argument about adding one key to a finite set) and that
  stored rows hold aggregates, without which "last_seen does not decrease" says
  nothing. The step that matters is `UpsertedFacts`, the ON CONFLICT merge.
  `AggregatesAccounted` is not inductive: it does not say why the next edge is drawn
  from the right application. Its strengthening is `Accounts`. `GroupsKnown` says that
  the groups map is what the history says: a group is there with lastApp src exactly
  when an entry appended now would follow one of src. `NodeSums` and `EdgeSums` give,
  for each key, the sum over rows, uncommitted batch, losses (`Rest`) and live map as
  the sum of its sightings, and `Metered` compares what left the live map with the
  series. Aggregates are a commutative monoid under Merge with unit Fresh
  (`MergeType`, `MergeAssoc`), so a flush, a commit, a failure and a restart only move
  a summand (`RestFlush`, `RestCommit`, `RestFail`, `RestRestart`); an Append adds one
  sighting per signal and one observation (`ObserveNodes`, `ObserveEdges`, `SumAdd`);
  an eviction changes no sighting that exists (`RemovalKeeps`).
- **PluginHostProofs**: `TypeCorrect` (a backoff stays within its bounds),
  `NoStrayProcessHolds`, `BackoffExactHolds`. The strengthening `Owned` says that a
  process or a published connection exists only at the places of runOnce that will
  clean it up; `AllReturned` that Close returned after every goroutine. For
  `BackoffExact`, `BackoffFollows` relates the wait to the number of short runs
  between two waits too, and `CappedDoubling` says that doubling and capping at each
  step is doubling n times and capping once (`PowerOfTwo`).
- **IngestProofs**, the live tail: `TailTypeCorrect`, `TailExactHolds`. `LockDiscipline` says that
  only registered subscribers are visited and that a channel is closed only after
  its subscriber is gone from the set, which no reader can still hold;
  `RealEntries` that what is offered is an entry. `TailExact` counts the offers that
  found room (`KeptUpTo`): what was sent, is being sent and is buffered is a
  sequence whose n-th element is the n-th such offer.
- **IngestProofs**, the server: `ServerTypeCorrect`, `DrainedStopHolds`. `Progress` places each
  listener and consumer before or after the point `run()` has reached, `Drained` says
  that a listener or consumer past its Close has no goroutine left that its Close
  waits for, unless a listener was abandoned, and `LogsOnly` that a goroutine that
  only logs is at a receiver of the self sink. `OnlyLate` is the step that matters: who
  is at a closed receiver is a goroutine nobody waits for, one of a consumer that is
  closing, or the plugin stream while the engine is closed and the host is not.
- **IngestProofs**, the pipelines: `PipelineTypeCorrect`, `PipelineExactHolds`, for any
  configuration and any answers of the patterns and of the JSON decoder. The invariant is
  `Position /\ Stack /\ OnAccount /\ Outcome`. `OnAccount` compares the entry with what
  the pipelines and steps so far mean; an account that is over (dropped, or open because
  an order matters) stays over. Inside a JSON loop the entry is described by a set V of
  keys (`Seen`: the message, the level and the fields are those of V) together with
  `Closed`: a key that is neither in V nor pending is under a key that is pending, so
  when nothing is pending V is every key. `CapMeansAll` says that where there is room
  for all names the cap binds only when every leaf is stored, so it never loses one.
  Inside a set loop the fields visited are a set too (`SetPart`), and no field that is
  read is one that the loop writes.
- **WireProofs**: `SyslogTypeCorrect`, `FramesExactHolds`, for any number of messages of
  any length and a connection that ends at any byte. The recursive functions `Wire`,
  `Spelled` and `EntriesOf` are shown to be the solutions of their equations once
  (`Recursion`: a function defined step by step up to n exists; `Induction` through the
  least counterexample). `StreamInv` says that what arrived is a prefix of what was
  sent; `ReaderInv` places the reader: between two messages (or before the newline
  behind an octet-counted one), after some digits of message k with `count` the number
  they spell, or at the end with k messages dealt with. `LineShape` and `OctetShape`
  say what a message looks like on the wire, `AfterCount` that the byte behind the
  digits tells the framings apart, `LineTaken` that a line comes out whole however
  many of its digits were consumed before, and `Ends` where each frame ends, from
  which the number of whole messages follows.
- **WireProofs**, journald: `JournalTypeCorrect`, `JournalExactHolds`, for any entries
  the format carries, any cut into datagrams, any table of sources and any loss.
  `InStep` places each source that lost nothing: k entries and j fields of the next are
  read (`Stands`), the decoder holds the bytes sent behind them and those j fields,
  and what was appended is what the first k entries make; unless feed is at work on
  the source, the item that follows has not arrived whole (`Short`). `Place` says where
  item j of entry k lies on the stream, `FieldShape` what it looks like there,
  `SizeRead` that the little-endian size is read back as the length, and `ItemAhead`
  what feed sees of an item in a buffer that may end anywhere in it: the line of a text
  field is there when all of it is, that of a binary field earlier. Each branch of feed
  then consumes exactly one item (`Advance`), a datagram appends to the buffer
  (`Arrives`), and a decoder that is thrown away while it holds something makes its
  source a disturbed one (`FoundIs`).
- **GraphStoreProofs**: `DeployTypeCorrect`, `MarkersExactHolds`, `AdminTypeCorrect`,
  `ImportReplacesHolds`, `AnswersCoherentHolds`, `GraphStoreTypeCorrect`. For
  `MarkersExact`, `ServiceInv` follows one service through the pending map, the
  flush's map, the open transaction and the table: timestamps increase along that
  path, and the version last seen is the newest marker of the last place that has
  one. For the imports, `ImportInv` says what the table must hold for each app when
  the first n metas are written; for the reads, `ReadInv` that what a request holds
  from its first query fits what it still has to read.

Only model-checked:

- the liveness properties `EveryEntrySettles`, `CloseReturns`,
  `EveryAggregateFlushes`, `CrashedSourceRestarts`, `HostCloseReturns`, `StopEnds`,
  `IngestNeverWaits`: fairness and ENABLED are outside the prover's reach;
- `PickleRoundTrip`: it compares the result with an encoder that folds over trees of
  any depth, an induction over data that the prover cannot do;
- the type invariant of the `ingest` run, of which every part but the unpickler's is
  proved.

## 6. Not modelled, and why

- Parsing of payloads: ld_format, RFC 5424 and 3164 bodies, timestamps, the OTLP
  and JSON field mappings, grok and regular expressions. Stateless text conversion;
  the models take its results as data.
- Read-only computation: the query layer (but for its telemetry goroutine), the diff, rates, Markdown, Backstage,
  snapshot export, the MCP server. They keep no state; ClickHouse and SQLite do the
  work.
- Match conditions: a stateless predicate over one entry; the engine's model
  uses the default condition.
- Authentication and accounts: access control is left outside this project, which is
  about the log and graph paths. The two races of the account service that the
  hazard list names stay without a property for that reason.
- Configuration, schema migration, routing, hashing and signing: data conversion.
- ClickHouse, SQLite, SMTP, Kafka, gRPC, the clients and the child processes are
  external: a write is applied, not applied, or applied and reported as failed; a
  process runs or is dead; a peer may do nothing for ever.
- The web UI is a built bundle; pluginpb is generated; the plugin SDK is the
  child's side of a protocol the host's model treats as external.

`PROJECT.json` gives the reason for each component.

## 7. Plan

1. Done: batcher, notification engine, rules persistence, graph extraction, plugin
   supervision; deploy detector; declared graph, catalog and project import; server
   start and shutdown; live tail; Python, journald and syslog decoding; pipelines;
   proofs of every safety property outside the Python decoder.
2. The ld_format parser as one more stream decoder, and Diff against a reference
   definition, if the model stays shorter than the code.
