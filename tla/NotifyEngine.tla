---------------------------- MODULE NotifyEngine ----------------------------
(***************************************************************************)
(* The notification engine (internal/notify/notify.go): rules evaluated    *)
(* over the live stream on a periodic tick.                                *)
(*                                                                         *)
(* Time is counted in abstract units, Slot of them per tick. A handler     *)
(* reads the clock before it takes the engine's mutex, and the tick        *)
(* carries the ticker's time, not the time at which it is evaluated; both  *)
(* may be late by up to MaxDelay, which is less than a slot.               *)
(*                                                                         *)
(* A rule's match is the default one (an error of the rule's application); *)
(* the compiled match tree only changes which entries match.               *)
(***************************************************************************)
EXTENDS Integers, Sequences, FiniteSets, FiniteSetsExt, SequencesExt

CONSTANTS
    ThresholdRules, \* names of the error_threshold rules
    SilenceRules,   \* names of the silence rules
    Handlers,       \* concurrent ingest goroutines
    Apps,           \* application names
    AnyApp,         \* the empty App of a threshold rule
    App,            \* rule -> application
    Threshold,      \* threshold rule -> entries per window
    Window,         \* rule -> duration
    Cooldown,       \* rule -> duration
    MaxFires,       \* rule -> the rule's max_fires, Unset if it has none
    Unset,
    Senders,        \* the configured notification channels
    Channels,       \* rule -> the channels it names, {} if it names none
    Slot,           \* the tick period and bucket width
    MaxCaptured,    \* entries kept for the payload
    MaxDelay,       \* bound: lateness of a handler or of a tick
    MaxTime,        \* bound: the clock
    MaxEntries      \* bound: entries stamped by handlers

Rules == ThresholdRules \cup SilenceRules

ASSUME NotifyAssumption ==
    /\ ThresholdRules \cap SilenceRules = {}
    /\ App \in [Rules -> Apps \cup {AnyApp}]
    /\ \A r \in SilenceRules : App[r] \in Apps
    /\ Threshold \in [ThresholdRules -> Nat \ {0}]
    /\ Window \in [Rules -> Nat \ {0}]
    /\ Cooldown \in [Rules -> Nat \ {0}]
    /\ \A r \in Rules : MaxFires[r] = Unset \/ MaxFires[r] \in Int
    /\ Channels \in [Rules -> SUBSET Senders]
    /\ Slot \in Nat \ {0} /\ MaxCaptured \in Nat \ {0}
    /\ MaxDelay \in Nat /\ MaxDelay < Slot
    /\ MaxTime \in Nat \ {0} /\ MaxEntries \in Nat

VARIABLES
    now,        \* the clock
    pending,    \* handler -> the entry it has stamped and not yet applied
    lastSeen,   \* app -> stamp of the entry applied last, 0 if none
    rules,      \* rule -> its counters
    tickAt,     \* the time waiting on t.C, 0 if none
    closed,     \* e.done is closed
    loop,       \* the evaluation loop: "running" | "returned"
    inflight,   \* rule and channel -> send goroutines not yet finished
    closeReturned,
    ticks,      \* ghost: ticks evaluated
    hits,       \* ghost: threshold rule -> matched entries since its last fire
    newest,     \* ghost: app -> largest stamp applied
    stamped     \* entries counted against MaxEntries

vars == <<now, pending, lastSeen, rules, tickAt, closed, loop, inflight,
          closeReturned, ticks, hits, newest, stamped>>

-----------------------------------------------------------------------------
(* Rules *)

\* n := int((r.Window + slot - 1) / slot)
Slots(r) == (Window[r] + Slot - 1) \div Slot

Buckets(r) == 0 .. (Slots(r) - 1)

\* maxFiresAllowed: unset is unlimited, 0 is once.
MaxFiresAllowed(r) ==
    IF MaxFires[r] = Unset THEN -1
    ELSE IF MaxFires[r] <= 0 THEN 1 ELSE MaxFires[r]

\* The zero time lies further back than any cooldown.
Never(r) == -Cooldown[r]

\* buildRule
FreshRule(r) ==
    [buckets |-> [b \in Buckets(r) |-> 0], cur |-> 0, entries |-> <<>>,
     fires |-> 0, disabled |-> FALSE, lastFired |-> Never(r), silenced |-> FALSE]

NoEntry == [app |-> AnyApp, error |-> FALSE, at |-> 0]

\* The default condition: lvl >= ERROR, and the rule's app if it has one.
Matches(r, e) == e.error /\ App[r] \in {AnyApp, e.app}

\* The loop of tick that adds the buckets up.
BucketSum(q) ==
    LET n == Cardinality(DOMAIN q.buckets)
        sum[i \in 0 .. n] == IF i = 0 THEN 0 ELSE sum[i - 1] + q.buckets[i - 1]
    IN sum[n]

-----------------------------------------------------------------------------
Init ==
    /\ now = 1
    /\ pending = [h \in Handlers |-> NoEntry]
    /\ lastSeen = [a \in Apps |-> 0]
    /\ rules = [r \in Rules |-> FreshRule(r)]
    /\ tickAt = 0 /\ closed = FALSE /\ loop = "running"
    /\ inflight = [p \in Rules \X Senders |-> 0] /\ closeReturned = FALSE
    /\ ticks = 0
    /\ hits = [r \in ThresholdRules |-> <<>>]
    /\ newest = [a \in Apps |-> 0]
    /\ stamped = 0

\* Nothing that is late is later than MaxDelay; the ticker adds a tick at
\* every multiple of Slot.
Advance ==
    /\ now < MaxTime
    /\ \A h \in Handlers : pending[h] # NoEntry => now - pending[h].at < MaxDelay
    /\ tickAt # 0 => now - tickAt < MaxDelay
    /\ now' = now + 1
    /\ tickAt' = IF now' % Slot = 0 /\ loop = "running" THEN now' ELSE tickAt
    /\ UNCHANGED <<pending, lastSeen, rules, closed, loop, inflight, closeReturned,
                   ticks, hits, newest, stamped>>

\* Append, first half: now := e.now().
Stamp(h) ==
    /\ pending[h] = NoEntry /\ stamped < MaxEntries
    /\ stamped' = stamped + 1
    /\ \E a \in Apps, err \in BOOLEAN :
          pending' = [pending EXCEPT ![h] = [app |-> a, error |-> err, at |-> now]]
    /\ UNCHANGED <<now, lastSeen, rules, tickAt, closed, loop, inflight, closeReturned,
                   ticks, hits, newest>>

\* Mutant of Observed: the entry is counted in the next bucket, the one the tick clears.
ObservedInNextBucket(q, e) ==
    [q EXCEPT !.buckets[(q.cur + 1) % Cardinality(DOMAIN q.buckets)] = @ + 1,
              !.entries = IF Len(@) = MaxCaptured THEN Append(Tail(@), e.at) ELSE Append(@, e.at)]

\* A matched entry is counted in the current bucket and captured; the oldest
\* captured entry makes room.
Observed(q, e) ==
    [q EXCEPT !.buckets[q.cur] = @ + 1,
              !.entries = IF Len(@) = MaxCaptured THEN Append(Tail(@), e.at) ELSE Append(@, e.at)]

Counts(r, e) == r \in ThresholdRules /\ ~rules[r].disabled /\ Matches(r, e)

\* Mutant of Apply: only matched entries are noted in lastSeen.
ApplyErrorsOnly(h) ==
    LET e == pending[h] IN
    /\ e # NoEntry
    /\ pending' = [pending EXCEPT ![h] = NoEntry]
    /\ lastSeen' = [lastSeen EXCEPT ![e.app] = IF e.error THEN e.at ELSE @]
    /\ rules' = [r \in Rules |-> IF Counts(r, e) THEN Observed(rules[r], e) ELSE rules[r]]
    /\ newest' = [newest EXCEPT ![e.app] = IF e.at > @ THEN e.at ELSE @]
    /\ hits' = [r \in ThresholdRules |->
                   IF Counts(r, e) THEN Append(hits[r], [at |-> e.at, tick |-> ticks])
                   ELSE hits[r]]
    /\ UNCHANGED <<now, tickAt, closed, loop, inflight, closeReturned, ticks, stamped>>

\* Append, second half, under the mutex.
Apply(h) ==
    LET e == pending[h] IN
    /\ e # NoEntry
    /\ pending' = [pending EXCEPT ![h] = NoEntry]
    /\ lastSeen' = [lastSeen EXCEPT ![e.app] = e.at]
    /\ rules' = [r \in Rules |-> IF Counts(r, e) THEN Observed(rules[r], e) ELSE rules[r]]
    /\ newest' = [newest EXCEPT ![e.app] = IF e.at > @ THEN e.at ELSE @]
    /\ hits' = [r \in ThresholdRules |->
                   IF Counts(r, e) THEN Append(hits[r], [at |-> e.at, tick |-> ticks])
                   ELSE hits[r]]
    /\ UNCHANGED <<now, tickAt, closed, loop, inflight, closeReturned, ticks, stamped>>

\* Mutant of CountFire: a rule is retired one fire too late.
CountFireLate(r, q) ==
    [q EXCEPT !.fires = @ + 1,
              !.disabled = MaxFiresAllowed(r) >= 0 /\ q.fires + 1 > MaxFiresAllowed(r)]

\* countFire
CountFire(r, q) ==
    [q EXCEPT !.fires = @ + 1,
              !.disabled = MaxFiresAllowed(r) >= 0 /\ q.fires + 1 >= MaxFiresAllowed(r)]

\* Mutant of Rotated: the index is not taken modulo the ring.
RotatedNoWrap(q) == [q EXCEPT !.cur = @ + 1, !.buckets[q.cur + 1] = 0]

\* The next bucket becomes the current one and is cleared.
Rotated(q) ==
    LET next == (q.cur + 1) % Cardinality(DOMAIN q.buckets) IN
    [q EXCEPT !.cur = next, !.buckets[next] = 0]

\* Captured entries that slid out of the window leave from the front.
Pruned(r, q, t) ==
    [q EXCEPT !.entries = LET keep == {i \in 1 .. Len(@) : @[i] >= t - Window[r]} IN
                          IF keep = {} THEN <<>> ELSE SubSeq(@, Min(keep), Len(@))]

Cooled(r, q, t) == t - q.lastFired >= Cooldown[r]

\* Mutant of ThresholdFires: the sum must exceed the threshold.
ThresholdFiresAbove(r, q, t) == BucketSum(q) > Threshold[r] /\ Cooled(r, q, t)

\* Mutant of ThresholdFires: the sum includes a bucket's worth of grace.
ThresholdFiresBelow(r, q, t) == BucketSum(q) + 1 >= Threshold[r] /\ Cooled(r, q, t)

ThresholdFires(r, q, t) == BucketSum(q) >= Threshold[r] /\ Cooled(r, q, t)

Silent(r, t) == lastSeen[App[r]] # 0 /\ t - lastSeen[App[r]] >= Window[r]

\* Mutant of SilenceFires: the gap may be reported again after the cooldown.
SilenceFiresAgain(r, q, t) == Silent(r, t) /\ Cooled(r, q, t)

SilenceFires(r, q, t) == Silent(r, t) /\ ~q.silenced /\ Cooled(r, q, t)

Fires(r, t) ==
    /\ ~rules[r].disabled
    /\ IF r \in ThresholdRules THEN ThresholdFires(r, rules[r], t)
       ELSE SilenceFires(r, rules[r], t)

\* One rule's part of tick: prune, decide, reset what a fire consumed, rotate.
EvaluatedThreshold(r, t) ==
    LET q == Pruned(r, rules[r], t)
        fired == CountFire(r, [q EXCEPT !.lastFired = t, !.entries = <<>>,
                                        !.buckets = [b \in Buckets(r) |-> 0]])
    IN Rotated(IF Fires(r, t) THEN fired ELSE q)

\* Mutant of EvaluatedSilence: a service that speaks again stays marked as reported.
EvaluatedSilenceNoReset(r, t) ==
    LET q == rules[r] IN
    IF Fires(r, t) THEN CountFire(r, [q EXCEPT !.silenced = TRUE, !.lastFired = t]) ELSE q

\* A silence rule's part of tick.
EvaluatedSilence(r, t) ==
    LET q == rules[r] IN
    IF ~Silent(r, t) THEN [q EXCEPT !.silenced = FALSE]
    ELSE IF Fires(r, t) THEN CountFire(r, [q EXCEPT !.silenced = TRUE, !.lastFired = t])
    ELSE q

Evaluated(r, t) ==
    IF rules[r].disabled THEN rules[r]
    ELSE IF r \in ThresholdRules THEN EvaluatedThreshold(r, t) ELSE EvaluatedSilence(r, t)

\* dispatch: a rule that names no channel goes to all of them.
Selected(r) == IF Channels[r] = {} THEN Senders ELSE Channels[r]

\* case now := <-t.C: tick under the mutex, then dispatch, which starts the sends.
Tick ==
    /\ loop = "running" /\ tickAt # 0
    /\ tickAt' = 0
    /\ rules' = [r \in Rules |-> Evaluated(r, tickAt)]
    /\ inflight' = [p \in Rules \X Senders |->
                       IF Fires(p[1], tickAt) /\ p[2] \in Selected(p[1]) THEN inflight[p] + 1
                       ELSE inflight[p]]
    /\ ticks' = ticks + 1
    /\ hits' = [r \in ThresholdRules |-> IF Fires(r, tickAt) THEN <<>> ELSE hits[r]]
    /\ UNCHANGED <<now, pending, lastSeen, closed, loop, closeReturned, newest, stamped>>

\* A send ends: delivered, failed (logged, not retried) or out of time.
SendEnds(p) ==
    /\ inflight[p] > 0
    /\ inflight' = [inflight EXCEPT ![p] = @ - 1]
    /\ UNCHANGED <<now, pending, lastSeen, rules, tickAt, closed, loop, closeReturned,
                   ticks, hits, newest, stamped>>

\* SetRule for an existing UI rule: the built rule replaces it, counters included.
SetRule(r) ==
    /\ rules' = [rules EXCEPT ![r] = FreshRule(r)]
    /\ rules[r] # FreshRule(r)
    /\ hits' = [q \in ThresholdRules |-> IF q = r THEN <<>> ELSE hits[q]]
    /\ UNCHANGED <<now, pending, lastSeen, tickAt, closed, loop, inflight, closeReturned,
                   ticks, newest, stamped>>

\* Close, first step: close(e.done).
Close ==
    /\ ~closed
    /\ closed' = TRUE
    /\ UNCHANGED <<now, pending, lastSeen, rules, tickAt, loop, inflight, closeReturned,
                   ticks, hits, newest, stamped>>

\* case <-e.done; a waiting tick may still be chosen first.
LoopReturns ==
    /\ loop = "running" /\ closed
    /\ loop' = "returned"
    /\ tickAt' = 0
    /\ UNCHANGED <<now, pending, lastSeen, rules, closed, inflight, closeReturned,
                   ticks, hits, newest, stamped>>

\* Mutant of CloseReturns: Close waits for the loop only.
CloseReturnsEarly ==
    /\ closed /\ loop = "returned" /\ ~closeReturned
    /\ closeReturned' = TRUE
    /\ UNCHANGED <<now, pending, lastSeen, rules, tickAt, closed, loop, inflight,
                   ticks, hits, newest, stamped>>

\* Close, last step: e.wg.Wait() is over and the senders are closed.
CloseReturns ==
    /\ closed /\ loop = "returned" /\ ~closeReturned
    /\ \A p \in DOMAIN inflight : inflight[p] = 0
    /\ closeReturned' = TRUE
    /\ UNCHANGED <<now, pending, lastSeen, rules, tickAt, closed, loop, inflight,
                   ticks, hits, newest, stamped>>

Ended == now = MaxTime /\ closeReturned /\ UNCHANGED vars

Next ==
    \/ Advance
    \/ \E h \in Handlers : Stamp(h) \/ Apply(h)
    \/ Tick
    \/ \E p \in Rules \X Senders : SendEnds(p)
    \/ \E r \in Rules : SetRule(r)
    \/ Close \/ LoopReturns \/ CloseReturns
    \/ Ended

Spec == Init /\ [][Next]_vars

-----------------------------------------------------------------------------
(* Properties *)

RuleState(r) ==
    [buckets : [Buckets(r) -> Nat], cur : Buckets(r), entries : Seq(Nat),
     fires : Nat, disabled : BOOLEAN, lastFired : Int, silenced : BOOLEAN]

TypeOK ==
    /\ now \in 1 .. MaxTime
    /\ \A h \in Handlers : pending[h] = NoEntry \/
          pending[h] \in [app : Apps, error : BOOLEAN, at : 1 .. MaxTime]
    /\ lastSeen \in [Apps -> 0 .. MaxTime]
    /\ DOMAIN rules = Rules
    /\ \A r \in ThresholdRules : rules[r] \in RuleState(r) /\ Len(rules[r].entries) <= MaxCaptured
    /\ tickAt \in 0 .. MaxTime
    /\ closed \in BOOLEAN /\ loop \in {"running", "returned"} /\ closeReturned \in BOOLEAN
    /\ inflight \in [Rules \X Senders -> Nat] /\ ticks \in Nat

\* Entries matched by r whose apply happened k ticks ago, since the last fire.
Ago(r, k) == Cardinality({i \in DOMAIN hits[r] : ticks - hits[r][i].tick = k})

\* The ring is exact: the bucket j places behind the current one holds the
\* entries that were applied j ticks ago, for every j the window covers. Nothing
\* survives a full turn and nothing is counted twice.
RingExact ==
    \A r \in ThresholdRules : ~rules[r].disabled =>
        \A j \in Buckets(r) :
            rules[r].buckets[(rules[r].cur - j + Slots(r)) % Slots(r)] = Ago(r, j)

\* Matched entries stamped at t or later, since the last fire.
StampedFrom(r, t) == Cardinality({i \in DOMAIN hits[r] : hits[r][i].at >= t})

\* Spurious: too few of the entries a threshold event counts were stamped
\* within the slots that make up the window, give or take MaxDelay.
Spurious(r) ==
    /\ rules'[r].fires > rules[r].fires
    /\ StampedFrom(r, tickAt - Slots(r) * Slot - MaxDelay) < Threshold[r]

\* Missed: a tick leaves a live, cooled rule unfired although enough entries
\* were stamped in the window.
Missed(r) ==
    /\ ticks' > ticks /\ ~rules[r].disabled /\ rules'[r].fires = rules[r].fires
    /\ Cooled(r, rules[r], tickAt)
    /\ StampedFrom(r, tickAt - Slots(r) * Slot + MaxDelay + 1) >= Threshold[r]

\* A threshold event of Engine.tick is never spurious and never missed.
ThresholdExact == [][\A r \in ThresholdRules : ~Spurious(r) /\ ~Missed(r)]_vars

\* A rule never fires more often than max_fires allows (0 means once), and it
\* is disabled exactly when that number is reached.
FiresWithinLimit ==
    \A r \in Rules : LET allowed == MaxFiresAllowed(r) IN
        /\ allowed >= 0 => rules[r].fires <= allowed
        /\ rules[r].disabled <=> (allowed >= 0 /\ rules[r].fires = allowed)

\* Concurrent handlers may apply their stamps out of order, but lastSeen never
\* falls behind the newest entry by more than MaxDelay.
LastSeenFresh == \A a \in Apps : newest[a] - lastSeen[a] <= MaxDelay

\* A second report for one gap: the app has not spoken since the first.
Repeated(r) ==
    /\ rules'[r].fires > rules[r].fires /\ rules[r].fires > 0
    /\ newest[App[r]] <= rules[r].lastFired - Window[r]

\* A gap without a report: the app has spoken after the last report and has then
\* been silent for a window, and a tick outside the cooldown does not report it.
Unreported(r) ==
    /\ Window[r] > Slot + MaxDelay /\ ticks' > ticks /\ ~rules[r].disabled
    /\ Silent(r, tickAt) /\ Cooled(r, rules[r], tickAt)
    /\ lastSeen[App[r]] > rules[r].lastFired - Window[r]
    /\ rules'[r].fires <= rules[r].fires

\* Engine.tick reports each gap of a silence rule's app once. The window must be
\* longer than a slot for the "each": a shorter one can end and begin again
\* between two ticks, and the rule stays marked as reported.
SilenceExact == [][\A r \in SilenceRules : ~Repeated(r) /\ ~Unreported(r)]_vars

\* Close returns only after the last send, and no send starts afterwards, so a
\* sender is never used after it was closed.
NoSendAfterClose ==
    closeReturned => loop = "returned" /\ \A p \in DOMAIN inflight : inflight[p] = 0

\* "N entries with lvl >= ERROR within a sliding window" (notify.go:5), and the
\* message's "N error entries in the last <window>": an event counts at least
\* Threshold entries not older than Window.
CountedWithinWindow ==
    [][\A r \in ThresholdRules : rules'[r].fires > rules[r].fires =>
          StampedFrom(r, tickAt - Window[r]) >= Threshold[r]]_vars
=============================================================================
