------------------------------ MODULE Batcher ------------------------------
(***************************************************************************)
(* The storage batcher (internal/storage/batcher.go): a bounded channel    *)
(* fed by the ingest handlers and by the server's own log records, and one *)
(* goroutine that groups entries into batches and inserts them with        *)
(* retries.                                                                *)
(*                                                                         *)
(* An entry is the number under which the channel accepted it, so the      *)
(* first entry is 1 and the channel's history is 1 .. accepted.            *)
(*                                                                         *)
(* The self-log path (internal/selflog, selfSink in cmd/logdoc/main.go) is *)
(* part of the component: flushWithRetry logs through slog, whose handler  *)
(* calls TryAppend on the very batcher that is flushing.                   *)
(***************************************************************************)
EXTENDS Integers, Sequences, FiniteSets

CONSTANTS
    BatchSize,      \* BatcherOptions.BatchSize
    MaxRetries,     \* BatcherOptions.MaxRetries: attempts in all
    MaxCalls,       \* bound: Append calls and self-log records made outside the loop
    MaxFailures     \* bound: InsertBatch calls that return an error

ASSUME BatcherAssumption ==
    /\ BatchSize \in Nat \ {0}
    /\ MaxRetries \in Nat \ {0}
    /\ MaxCalls \in Nat
    /\ MaxFailures \in Nat

VARIABLES
    in,         \* the buffered channel b.in
    closed,     \* close(b.in) has happened
    batch,      \* the loop's batch slice
    loop,       \* where the loop goroutine is
    cont,       \* what the loop does when the current flush returns
    attempt,    \* flushWithRetry's attempt
    tick,       \* a value is ready on ticker.C
    accepted,   \* entries the channel accepted so far
    copies,     \* copies[n]: rows the store holds for entry n
    lost,       \* entries of the batches given up on
    dropped,    \* the counter b.dropped
    panicked,   \* a send on the closed channel ended the process
    calls,      \* calls counted against MaxCalls
    failures    \* failed inserts counted against MaxFailures

loopVars == <<batch, loop, cont, attempt, tick>>
vars == <<in, closed, batch, loop, cont, attempt, tick, accepted, copies,
          lost, dropped, panicked, calls, failures>>

-----------------------------------------------------------------------------
\* make(chan model.Entry, opts.BatchSize*4)
Capacity == BatchSize * 4

LoopStates == {"select", "insert", "warn", "sleep", "error", "done"}

TypeOK ==
    /\ in \in Seq(Nat \ {0}) /\ Len(in) <= Capacity
    /\ closed \in BOOLEAN
    /\ batch \in Seq(Nat \ {0}) /\ Len(batch) <= BatchSize
    /\ loop \in LoopStates
    /\ cont \in {"reset", "select", "exit"}
    /\ attempt \in 0 .. MaxRetries
    /\ tick \in BOOLEAN
    /\ accepted \in Nat
    /\ copies \in Seq(Nat) /\ Len(copies) = accepted
    /\ lost \in SUBSET (1 .. accepted)
    /\ dropped \in Nat
    /\ panicked \in BOOLEAN
    /\ calls \in 0 .. MaxCalls
    /\ failures \in 0 .. MaxFailures

\* NewBatcher starts the loop with an empty batch and a fresh ticker.
Init ==
    /\ in = <<>> /\ closed = FALSE
    /\ batch = <<>> /\ loop = "select" /\ cont = "select"
    /\ attempt = 0 /\ tick = FALSE
    /\ accepted = 0 /\ copies = <<>> /\ lost = {} /\ dropped = 0
    /\ panicked = FALSE /\ calls = 0 /\ failures = 0

-----------------------------------------------------------------------------
(* The channel *)

\* A send that finds room.
Send ==
    /\ ~closed /\ Len(in) < Capacity
    /\ accepted' = accepted + 1
    /\ in' = Append(in, accepted + 1)
    /\ copies' = Append(copies, 0)
    /\ UNCHANGED panicked

\* A send on the closed channel, a waiting one included, panics; no caller
\* recovers, so the process ends.
SendPanics ==
    /\ closed
    /\ panicked' = TRUE
    /\ UNCHANGED <<in, accepted, copies>>

\* The default branch of TryAppend's select: the record is discarded.
Discard ==
    /\ ~closed /\ Len(in) = Capacity
    /\ UNCHANGED <<in, accepted, copies, panicked>>

\* Mutant of TryAppendEntry: a log record waits for room as an entry does.
TryAppendWaits == Send \/ SendPanics

TryAppendEntry == Send \/ SendPanics \/ Discard

\* An ingest handler calls Append; it waits (is not enabled) while the queue is full.
AppendEntry ==
    /\ ~panicked /\ calls < MaxCalls
    /\ calls' = calls + 1
    /\ Send \/ SendPanics
    /\ UNCHANGED <<closed, loopVars, lost, dropped, failures>>

\* Any other goroutine logs: Handler.Handle calls TryAppend through selfSink.
SelfLog ==
    /\ ~panicked /\ calls < MaxCalls
    /\ calls' = calls + 1
    /\ TryAppendEntry
    /\ UNCHANGED <<closed, loopVars, lost, dropped, failures>>

\* Close: the once-guarded close(b.in). Its wait on b.done ends when loop = "done".
Close ==
    /\ ~panicked /\ ~closed
    /\ closed' = TRUE
    /\ UNCHANGED <<in, loopVars, accepted, copies, lost, dropped, panicked, calls, failures>>

-----------------------------------------------------------------------------
(* The loop goroutine *)

\* The loop is at s in a process that still runs.
At(s) == loop = s /\ ~panicked

\* What follows a flush: ticker.Reset discards a tick that is waiting, and
\* returning closes b.done.
AfterFlush(c) ==
    /\ batch' = <<>>
    /\ loop' = IF c = "exit" THEN "done" ELSE "select"
    /\ tick' = IF c = "reset" THEN FALSE ELSE tick

\* The closure flush: nothing for an empty batch, else flushWithRetry.
Flush(c) ==
    IF batch = <<>>
    THEN /\ loop' = IF c = "exit" THEN "done" ELSE "select"
         /\ UNCHANGED <<batch, cont, attempt>>
    ELSE /\ loop' = "insert" /\ cont' = c /\ attempt' = 1
         /\ UNCHANGED batch

\* Mutant of Receive: the batch is flushed one entry too late.
ReceiveLate ==
    /\ At("select") /\ in # <<>>
    /\ in' = Tail(in)
    /\ batch' = Append(batch, Head(in))
    /\ IF Len(batch) + 1 > BatchSize
       THEN loop' = "insert" /\ cont' = "reset" /\ attempt' = 1
       ELSE UNCHANGED <<loop, cont, attempt>>
    /\ UNCHANGED <<closed, tick, accepted, copies, lost, dropped, panicked, calls, failures>>

\* Mutant of Receive: a full batch is flushed before the entry is added, which is then forgotten.
ReceiveForgets ==
    /\ At("select") /\ in # <<>>
    /\ in' = Tail(in)
    /\ IF Len(batch) + 1 >= BatchSize /\ batch # <<>>
       THEN loop' = "insert" /\ cont' = "reset" /\ attempt' = 1 /\ UNCHANGED batch
       ELSE batch' = Append(batch, Head(in)) /\ UNCHANGED <<loop, cont, attempt>>
    /\ UNCHANGED <<closed, tick, accepted, copies, lost, dropped, panicked, calls, failures>>

\* case e, ok := <-b.in with ok: the batch is flushed as soon as it is full.
Receive ==
    /\ At("select") /\ in # <<>>
    /\ in' = Tail(in)
    /\ batch' = Append(batch, Head(in))
    /\ IF Len(batch) + 1 >= BatchSize
       THEN loop' = "insert" /\ cont' = "reset" /\ attempt' = 1
       ELSE UNCHANGED <<loop, cont, attempt>>
    /\ UNCHANGED <<closed, tick, accepted, copies, lost, dropped, panicked, calls, failures>>

\* Mutant of ReceiveClosed: the loop returns without the final flush.
ReceiveClosedNoFlush ==
    /\ At("select") /\ in = <<>> /\ closed
    /\ loop' = "done"
    /\ UNCHANGED <<in, closed, batch, cont, attempt, tick, accepted, copies, lost, dropped,
                   panicked, calls, failures>>

\* Mutant of ReceiveClosed: the loop flushes but goes on selecting.
ReceiveClosedGoesOn ==
    /\ At("select") /\ in = <<>> /\ closed
    /\ Flush("select")
    /\ UNCHANGED <<in, closed, tick, accepted, copies, lost, dropped, panicked, calls, failures>>

\* case e, ok := <-b.in with !ok: a closed channel is drained before ok is false.
ReceiveClosed ==
    /\ At("select") /\ in = <<>> /\ closed
    /\ Flush("exit")
    /\ UNCHANGED <<in, closed, tick, accepted, copies, lost, dropped, panicked, calls, failures>>

\* Mutant of ReceiveTick: only full batches are flushed.
ReceiveTickNoFlush ==
    /\ At("select") /\ tick
    /\ tick' = FALSE
    /\ UNCHANGED <<in, closed, batch, loop, cont, attempt, accepted, copies, lost, dropped,
                   panicked, calls, failures>>

\* case <-ticker.C
ReceiveTick ==
    /\ At("select") /\ tick
    /\ tick' = FALSE
    /\ Flush("select")
    /\ UNCHANGED <<in, closed, accepted, copies, lost, dropped, panicked, calls, failures>>

\* Mutant of Stored: the insert skips the first entry of the batch.
StoredSkipsFirst == [n \in 1 .. accepted |->
              IF \E i \in 2 .. Len(batch) : batch[i] = n THEN copies[n] + 1 ELSE copies[n]]

\* One more row for every entry of the batch.
Stored == [n \in 1 .. accepted |->
              IF \E i \in 1 .. Len(batch) : batch[i] = n THEN copies[n] + 1 ELSE copies[n]]

\* InsertBatch returns nil.
InsertOK ==
    /\ At("insert")
    /\ copies' = Stored
    /\ AfterFlush(cont)
    /\ UNCHANGED <<in, closed, cont, attempt, accepted, lost, dropped, panicked, calls, failures>>

\* Mutant of InsertFails: a batch that is given up is not counted.
InsertFailsUncounted ==
    /\ At("insert") /\ failures < MaxFailures
    /\ failures' = failures + 1
    /\ copies' \in {copies, Stored}
    /\ loop' = IF attempt >= MaxRetries THEN "error" ELSE "warn"
    /\ UNCHANGED <<in, closed, batch, cont, attempt, tick, accepted, lost, dropped, panicked, calls>>

\* Mutant of InsertFails: one attempt too many.
InsertFailsExtraAttempt ==
    /\ At("insert") /\ failures < MaxFailures
    /\ failures' = failures + 1
    /\ copies' \in {copies, Stored}
    /\ IF attempt > MaxRetries
       THEN /\ loop' = "error"
            /\ dropped' = dropped + Len(batch)
            /\ lost' = lost \cup {batch[i] : i \in 1 .. Len(batch)}
       ELSE /\ loop' = "warn"
            /\ UNCHANGED <<dropped, lost>>
    /\ UNCHANGED <<in, closed, batch, cont, attempt, tick, accepted, panicked, calls>>

\* InsertBatch returns an error. An error or the 30s deadline after Send has
\* reached the server leaves the rows in the store.
InsertFails ==
    /\ At("insert") /\ failures < MaxFailures
    /\ failures' = failures + 1
    /\ copies' \in {copies, Stored}
    /\ IF attempt >= MaxRetries
       THEN /\ loop' = "error"
            /\ dropped' = dropped + Len(batch)
            /\ lost' = lost \cup {batch[i] : i \in 1 .. Len(batch)}
       ELSE /\ loop' = "warn"
            /\ UNCHANGED <<dropped, lost>>
    /\ UNCHANGED <<in, closed, batch, cont, attempt, tick, accepted, panicked, calls>>

\* slog.Warn("batch flush failed, retrying"), which re-enters the batcher.
LogRetry ==
    /\ At("warn")
    /\ TryAppendEntry
    /\ loop' = "sleep"
    /\ UNCHANGED <<closed, batch, cont, attempt, tick, lost, dropped, calls, failures>>

\* time.Sleep(delay) is over; attempt++.
Wake ==
    /\ At("sleep")
    /\ loop' = "insert" /\ attempt' = attempt + 1
    /\ UNCHANGED <<in, closed, batch, cont, tick, accepted, copies, lost, dropped,
                   panicked, calls, failures>>

\* slog.Error("batch dropped after retries"), after which flush returns.
LogDropped ==
    /\ At("error")
    /\ TryAppendEntry
    /\ AfterFlush(cont)
    /\ UNCHANGED <<closed, cont, attempt, lost, dropped, calls, failures>>

\* time.NewTicker: at most one tick waits on ticker.C; none after Stop.
TickerFires ==
    /\ ~panicked /\ loop # "done" /\ ~tick
    /\ tick' = TRUE
    /\ UNCHANGED <<in, closed, batch, loop, cont, attempt, accepted, copies, lost,
                   dropped, panicked, calls, failures>>

-----------------------------------------------------------------------------
Callers == AppendEntry \/ SelfLog \/ Close

LoopStep ==
    \/ Receive \/ ReceiveClosed \/ ReceiveTick
    \/ InsertOK \/ InsertFails
    \/ LogRetry \/ Wake \/ LogDropped

\* After a panic nothing runs; after the loop has returned nothing has to.
Ended ==
    /\ panicked \/ loop = "done"
    /\ UNCHANGED vars

Next == Callers \/ LoopStep \/ TickerFires \/ Ended

\* The loop goroutine is scheduled, InsertBatch returns within its deadline,
\* sleeps end, and the ticker keeps firing. Go's select chooses at random among
\* the ready cases, so a channel that is ready again and again is received from.
\* Callers owe nothing.
Fairness ==
    /\ WF_vars(LoopStep)
    /\ WF_vars(TickerFires)
    /\ SF_vars(Receive)
    /\ SF_vars(ReceiveClosed)

Safety == Init /\ [][Next]_vars
Spec == Safety /\ Fairness

-----------------------------------------------------------------------------
(* Properties *)

\* Entries whose batch has been inserted or given up: the prefix of the
\* history that is neither in the channel nor in the batch.
Settled == accepted - Len(batch) - Len(in)

\* The batch continues the settled prefix and the channel continues the batch:
\* nothing is skipped, repeated or reordered between Append and InsertBatch.
Fifo ==
    /\ Settled >= 0
    /\ \A i \in 1 .. Len(batch) : batch[i] = Settled + i
    /\ \A i \in 1 .. Len(in) : in[i] = Settled + Len(batch) + i

\* Every entry that left the batch is in the store, or is one that Dropped()
\* counts: the counter equals the entries given up, whatever the retries did.
NoSilentLoss ==
    /\ \A n \in 1 .. Settled : copies[n] > 0 \/ n \in lost
    /\ dropped = Cardinality(lost)

\* A retry may store a batch again (the error came after the rows were
\* written), but never more often than there were attempts; entries that have
\* not been tried yet have no rows.
BoundedCopies ==
    /\ \A n \in 1 .. accepted : copies[n] <= MaxRetries
    /\ \A i \in 1 .. Len(in) : copies[in[i]] = 0

\* Rows become visible in the order in which the channel accepted the entries:
\* when an entry gets a row, each earlier one has a row or was given up.
StoredInOrder ==
    [][\A n \in 1 .. accepted : copies'[n] > copies[n] =>
          \A m \in 1 .. n : copies'[m] > 0 \/ m \in lost]_vars

\* Only a send after Close can panic, so a server that is not shutting down
\* does not; and the loop returns only with an empty channel and batch.
PanicOnlyAfterClose ==
    /\ panicked => closed
    /\ loop = "done" => closed /\ in = <<>> /\ batch = <<>>

\* Backpressure is temporary: while the queue is full and the loop retries, Append
\* waits and TryAppend discards, the loop's own log records included, which "must
\* never be able to block the batcher itself" (batcher.go:71); so every accepted
\* entry is stored or given up, unless the process ends first. Entries settle in
\* order (Fifo): either all are settled again and again, or ever more are.
EveryEntrySettles ==
    \/ []<>(Settled = accepted \/ panicked)
    \/ []<><<Settled' > Settled>>_vars

\* Close returns: it waits for b.done, which the loop closes.
CloseReturns == closed ~> (loop = "done" \/ panicked)

\* "Close waits for everything accumulated to be flushed and stops the
\* Batcher" (batcher.go:88): when the batcher has stopped, for either reason,
\* every accepted entry is in the store or counted as dropped.
CloseFlushesEverything ==
    (panicked \/ loop = "done") =>
        \A n \in 1 .. accepted : copies[n] > 0 \/ n \in lost
-----------------------------------------------------------------------------
(* The abstract specification *)

Phase ==
    IF panicked THEN "crashed"
    ELSE IF loop = "done" THEN "finished"
    ELSE IF closed THEN "closed" ELSE "open"

\* A batch given up is settled when it is counted, before its record is logged.
Ledger == INSTANCE EntryLedger WITH
    settled <- IF loop = "error" THEN Settled + Len(batch) ELSE Settled,
    phase <- Phase

\* The batcher implements the ledger: channel, ticks, retries, repeated rows and
\* re-entrant self logs do not show in which entries are settled, how and when.
RefinesLedger == Ledger!Spec
=============================================================================
