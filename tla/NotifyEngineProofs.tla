------------------------- MODULE NotifyEngineProofs -------------------------
(***************************************************************************)
(* Theorems about the notification engine, for any rules, windows, slots   *)
(* and delays shorter than a slot, and any number of ingest goroutines.    *)
(***************************************************************************)
EXTENDS NotifyEngine, FiniteSetTheorems, WellFoundedInduction, TLAPS

-----------------------------------------------------------------------------
(* Arithmetic *)

LEMMA SmallestNumber ==
    ASSUME NEW T \in SUBSET Nat, T # {}
    PROVE  \E x \in T : \A y \in T : x <= y
<1> DEFINE less == {p \in Nat \X Nat : p[1] < p[2]}
<1>1. IsWellFoundedOn(OpToRel(<, Nat), Nat) /\ OpToRel(<, Nat) = less
  <2>1. OpToRel(<, Nat) = less
    BY Zenon DEF OpToRel
  <2> QED BY <2>1, NatLessThanWellFounded
<1>2. IsWellFoundedOn(less, Nat)
  BY <1>1
<1>3. PICK x \in T : \A y \in T : ~(<<y, x>> \in less)
  <2> HIDE DEF less
  <2> QED BY <1>2, WFMin
<1>4. ASSUME NEW y \in T PROVE x <= y
  <2>1. x \in Nat /\ y \in Nat /\ ~(<<y, x>> \in less)
    BY <1>3
  <2> QED BY <2>1
<1> QED BY <1>4

LEMMA WrapOnce ==
    ASSUME NEW n \in Nat \ {0}, NEW x \in 0 .. (2 * n - 1)
    PROVE  x % n = IF x < n THEN x ELSE x - n
OBVIOUS

LEMMA Times ==
    ASSUME NEW n \in Nat, NEW x \in Int, NEW y \in Int
    PROVE  /\ x <= y => x * n <= y * n
           /\ (x + y) * n = x * n + y * n /\ (x - y) * n = x * n - y * n
           /\ (x + 1) * n = x * n + n /\ x * n \in Int
OBVIOUS

\* The clock starts at 1: with slots of one unit the first tick is at 2.
Offset == IF Slot = 1 THEN 1 ELSE 0

\* The clock reading of the next tick after k of them is the next multiple of Slot.
LEMMA TickTimes ==
    ASSUME NEW k \in Nat, NEW x \in Nat
    PROVE  /\ x = (k + 1) * Slot + Offset => x % Slot = 0
           /\ k * Slot + Offset < x /\ x < (k + 1) * Slot + Offset => x % Slot # 0
<1>1. CASE Slot = 1
  BY <1>1 DEF Offset
<1>2. CASE Slot # 1
  <2>1. Offset = 0 /\ Slot \in Nat \ {0} /\ k * Slot \in Int /\ (k + 1) * Slot = k * Slot + Slot
    BY <1>2, NotifyAssumption, Times DEF Offset
  <2>2. ASSUME x = (k + 1) * Slot PROVE x % Slot = 0
    BY <2>1, <2>2
  <2>3. ASSUME k * Slot < x, x < (k + 1) * Slot PROVE x % Slot # 0
    <3>1. PICK r \in Int : r = x - k * Slot
      BY <2>1
    <3>2. x = k * Slot + r /\ 0 <= r /\ r < Slot /\ r # 0
      BY <2>1, <2>3, <3>1
    <3>3. x % Slot = r
      BY <2>1, <3>2
    <3> QED BY <3>2, <3>3
  <2> QED BY <2>1, <2>2, <2>3
<1> QED BY <1>1, <1>2

LEMMA SlotsType ==
    ASSUME NEW r \in Rules
    PROVE  /\ Slots(r) \in Nat \ {0} /\ Buckets(r) = 0 .. (Slots(r) - 1)
           /\ Cardinality(Buckets(r)) = Slots(r) /\ 0 \in Buckets(r)
<1>1. Window[r] \in Nat \ {0} /\ Slot \in Nat \ {0}
  BY NotifyAssumption
<1>2. Slots(r) \in Nat \ {0}
  BY <1>1 DEF Slots
<1>3. Cardinality(0 .. (Slots(r) - 1)) = Slots(r)
  BY <1>2, FS_Interval
<1> QED BY <1>2, <1>3 DEF Buckets

-----------------------------------------------------------------------------
(* What the engine does to one rule *)

Typed(r, q) == q \in RuleState(r) /\ Len(q.entries) <= MaxCaptured

\* The fields no step of an entry or a tick touches by accident.
LEMMA FreshTyped ==
    ASSUME NEW r \in Rules
    PROVE  Typed(r, FreshRule(r))
<1>1. Cooldown[r] \in Nat /\ MaxCaptured \in Nat
  BY NotifyAssumption
<1>2. [b \in Buckets(r) |-> 0] \in [Buckets(r) -> Nat] /\ 0 \in Buckets(r)
  BY SlotsType
<1>3. FreshRule(r) \in RuleState(r)
  BY <1>1, <1>2 DEF FreshRule, RuleState, Never
<1> QED BY <1>1, <1>3 DEF Typed, FreshRule

LEMMA ObservedFacts ==
    ASSUME NEW r \in Rules, NEW q, Typed(r, q), NEW e, e.at \in Nat
    PROVE  LET p == Observed(q, e) IN
           /\ Typed(r, p)
           /\ p.buckets = [q.buckets EXCEPT ![q.cur] = q.buckets[q.cur] + 1]
           /\ p.cur = q.cur /\ p.fires = q.fires /\ p.disabled = q.disabled
           /\ p.lastFired = q.lastFired /\ p.silenced = q.silenced
<1> DEFINE p == Observed(q, e)
           es == IF Len(q.entries) = MaxCaptured THEN Append(Tail(q.entries), e.at)
                 ELSE Append(q.entries, e.at)
           bs == [q.buckets EXCEPT ![q.cur] = q.buckets[q.cur] + 1]
<1>1. /\ q \in RuleState(r) /\ Len(q.entries) <= MaxCaptured /\ MaxCaptured \in Nat \ {0}
      /\ q.entries \in Seq(Nat) /\ q.buckets \in [Buckets(r) -> Nat] /\ q.cur \in Buckets(r)
  BY NotifyAssumption DEF Typed, RuleState
<1>2. es \in Seq(Nat) /\ Len(es) <= MaxCaptured
  BY <1>1
<1>3. bs \in [Buckets(r) -> Nat]
  BY <1>1
<1>4. p = [q EXCEPT !.buckets = bs, !.entries = es]
  BY <1>1 DEF Observed, RuleState
<1> HIDE DEF es, bs, p
<1>5. /\ p.buckets = bs /\ p.entries = es /\ p.cur = q.cur /\ p.fires = q.fires
      /\ p.disabled = q.disabled /\ p.lastFired = q.lastFired /\ p.silenced = q.silenced
  BY <1>1, <1>4 DEF RuleState
<1>6. p \in RuleState(r)
  BY <1>1, <1>2, <1>3, <1>4 DEF RuleState
<1> QED BY <1>2, <1>5, <1>6 DEF Typed, bs, p

LEMMA PrunedFacts ==
    ASSUME NEW r \in Rules, NEW q, Typed(r, q), NEW t \in Nat
    PROVE  LET p == Pruned(r, q, t) IN
           /\ Typed(r, p) /\ p.buckets = q.buckets /\ p.cur = q.cur /\ p.fires = q.fires
           /\ p.disabled = q.disabled /\ p.lastFired = q.lastFired /\ p.silenced = q.silenced
<1> DEFINE p == Pruned(r, q, t)  s == q.entries
           keep == {i \in 1 .. Len(s) : s[i] >= t - Window[r]}
           es == IF keep = {} THEN <<>> ELSE SubSeq(s, Min(keep), Len(s))
<1>1. /\ q \in RuleState(r) /\ s \in Seq(Nat) /\ Len(s) <= MaxCaptured /\ MaxCaptured \in Nat
  BY NotifyAssumption DEF Typed, RuleState
<1>2. p = [q EXCEPT !.entries = es]
  BY DEF Pruned
<1>3. es \in Seq(Nat) /\ Len(es) <= MaxCaptured
  <2>1. CASE keep = {}
    BY <1>1, <2>1
  <2>2. CASE keep # {}
    <3>1. keep \in SUBSET Nat /\ keep \subseteq 1 .. Len(s)
      OBVIOUS
    <3>2. Min(keep) \in keep
      <4> HIDE DEF keep
      <4> QED BY <2>2, <3>1, SmallestNumber DEF Min
    <3>3. Min(keep) \in 1 .. Len(s)
      BY <3>1, <3>2
    <3> HIDE DEF keep
    <3> QED BY <1>1, <2>2, <3>3
  <2> QED BY <2>1, <2>2
<1> HIDE DEF es, p, keep
<1>4. /\ p.entries = es /\ p.buckets = q.buckets /\ p.cur = q.cur /\ p.fires = q.fires
      /\ p.disabled = q.disabled /\ p.lastFired = q.lastFired /\ p.silenced = q.silenced
  BY <1>1, <1>2 DEF RuleState
<1>5. p \in RuleState(r)
  BY <1>1, <1>2, <1>3 DEF RuleState
<1> QED BY <1>3, <1>4, <1>5 DEF Typed, p

LEMMA CountFireFacts ==
    ASSUME NEW r \in Rules, NEW q, Typed(r, q)
    PROVE  LET p == CountFire(r, q) IN
           /\ Typed(r, p) /\ p.buckets = q.buckets /\ p.cur = q.cur /\ p.fires = q.fires + 1
           /\ p.disabled = (MaxFiresAllowed(r) >= 0 /\ q.fires + 1 >= MaxFiresAllowed(r))
           /\ p.lastFired = q.lastFired /\ p.silenced = q.silenced
<1> DEFINE p == CountFire(r, q)
           off == MaxFiresAllowed(r) >= 0 /\ q.fires + 1 >= MaxFiresAllowed(r)
<1>1. q \in RuleState(r) /\ q.fires + 1 \in Nat
  BY DEF Typed, RuleState
<1>2. off \in BOOLEAN /\ p = [q EXCEPT !.fires = q.fires + 1, !.disabled = off]
  BY DEF CountFire
<1> HIDE DEF off, p
<1>3. /\ p.fires = q.fires + 1 /\ p.entries = q.entries /\ p.buckets = q.buckets /\ p.cur = q.cur
      /\ p.lastFired = q.lastFired /\ p.silenced = q.silenced /\ p.disabled = off
  BY <1>1, <1>2 DEF RuleState
<1>4. p \in RuleState(r)
  BY <1>1, <1>2 DEF RuleState
<1> QED BY <1>3, <1>4 DEF Typed, off, p

LEMMA RotatedFacts ==
    ASSUME NEW r \in Rules, NEW q, Typed(r, q)
    PROVE  LET p == Rotated(q) IN
           /\ Typed(r, p) /\ p.cur = (q.cur + 1) % Slots(r)
           /\ p.buckets = [q.buckets EXCEPT ![(q.cur + 1) % Slots(r)] = 0]
           /\ p.fires = q.fires /\ p.disabled = q.disabled
           /\ p.lastFired = q.lastFired /\ p.silenced = q.silenced
<1> DEFINE p == Rotated(q)  next == (q.cur + 1) % Slots(r)
           bs == [q.buckets EXCEPT ![next] = 0]
<1>1. q \in RuleState(r) /\ q.buckets \in [Buckets(r) -> Nat] /\ q.cur \in Buckets(r)
  BY DEF Typed, RuleState
<1>2. Cardinality(DOMAIN q.buckets) = Slots(r)
  BY <1>1, SlotsType
<1>3. next \in Buckets(r)
  BY <1>1, SlotsType
<1>4. p = [q EXCEPT !.cur = next, !.buckets = bs]
  BY <1>1, <1>2 DEF Rotated, RuleState
<1>5. bs \in [Buckets(r) -> Nat]
  BY <1>1, <1>3
<1> HIDE DEF next, bs, p
<1>6. /\ p.cur = next /\ p.buckets = bs /\ p.entries = q.entries /\ p.fires = q.fires
      /\ p.disabled = q.disabled /\ p.lastFired = q.lastFired /\ p.silenced = q.silenced
  BY <1>1, <1>4 DEF RuleState
<1>7. p \in RuleState(r)
  BY <1>1, <1>3, <1>4, <1>5 DEF RuleState
<1> QED BY <1>6, <1>7 DEF Typed, next, bs, p

\* A threshold rule's part of tick.
LEMMA EvaluatedThresholdFacts ==
    ASSUME NEW r \in ThresholdRules, Typed(r, rules[r]), NEW t \in Nat
    PROVE  LET q == rules[r]  p == EvaluatedThreshold(r, t) IN
           /\ Typed(r, p)
           /\ Fires(r, t) =>
                 /\ p.fires = q.fires + 1 /\ p.lastFired = t
                 /\ p.disabled = (MaxFiresAllowed(r) >= 0 /\ q.fires + 1 >= MaxFiresAllowed(r))
                 /\ \A b \in Buckets(r) : p.buckets[b] = 0
           /\ ~Fires(r, t) =>
                 /\ p.fires = q.fires /\ p.lastFired = q.lastFired /\ p.disabled = q.disabled
                 /\ p.cur = (q.cur + 1) % Slots(r)
                 /\ p.buckets = [q.buckets EXCEPT ![(q.cur + 1) % Slots(r)] = 0]
<1> DEFINE q == rules[r]  u == Pruned(r, q, t)  zero == [b \in Buckets(r) |-> 0]
           w == [u EXCEPT !.lastFired = t, !.entries = <<>>, !.buckets = zero]
           f == CountFire(r, w)
<1>1. r \in Rules
  BY DEF Rules
<1>2. /\ Typed(r, u) /\ u.buckets = q.buckets /\ u.cur = q.cur /\ u.fires = q.fires
      /\ u.disabled = q.disabled /\ u.lastFired = q.lastFired
  BY <1>1, PrunedFacts
<1>3. Typed(r, w) /\ w.fires = u.fires /\ w.lastFired = t /\ w.buckets = zero
  <2> HIDE DEF u
  <2>1. u \in RuleState(r) /\ zero \in [Buckets(r) -> Nat] /\ MaxCaptured \in Nat
    BY <1>2, NotifyAssumption DEF Typed
  <2> HIDE DEF zero
  <2>2. w \in RuleState(r)
    <3>1. t \in Int /\ <<>> \in Seq(Nat)
      OBVIOUS
    <3> QED BY <2>1, <3>1 DEF RuleState
  <2>3. w.fires = u.fires /\ w.lastFired = t /\ w.buckets = zero /\ w.entries = <<>>
    BY <2>1 DEF RuleState
  <2> HIDE DEF w
  <2> QED BY <2>1, <2>2, <2>3 DEF Typed
<1>4. /\ Typed(r, f) /\ f.buckets = w.buckets /\ f.fires = w.fires + 1 /\ f.lastFired = w.lastFired
      /\ f.disabled = (MaxFiresAllowed(r) >= 0 /\ w.fires + 1 >= MaxFiresAllowed(r))
  <2> HIDE DEF w
  <2> QED BY <1>1, <1>3, CountFireFacts
<1>5. EvaluatedThreshold(r, t) = Rotated(IF Fires(r, t) THEN f ELSE u)
  BY DEF EvaluatedThreshold
<1>6. CASE Fires(r, t)
  <2>1. EvaluatedThreshold(r, t) = Rotated(f)
    BY <1>5, <1>6
  <2> HIDE DEF f, u, w
  <2>2. /\ Typed(r, Rotated(f)) /\ Rotated(f).fires = f.fires /\ Rotated(f).lastFired = f.lastFired
        /\ Rotated(f).disabled = f.disabled
        /\ Rotated(f).buckets = [f.buckets EXCEPT ![(f.cur + 1) % Slots(r)] = 0]
    BY <1>1, <1>4, RotatedFacts
  <2>3. \A b \in Buckets(r) : Rotated(f).buckets[b] = 0
    BY <1>3, <1>4, <2>2
  <2> QED BY <1>2, <1>3, <1>4, <1>6, <2>1, <2>2, <2>3
<1>7. CASE ~Fires(r, t)
  <2>1. EvaluatedThreshold(r, t) = Rotated(u)
    BY <1>5, <1>7
  <2> HIDE DEF f, u, w
  <2>2. /\ Typed(r, Rotated(u)) /\ Rotated(u).fires = u.fires /\ Rotated(u).lastFired = u.lastFired
        /\ Rotated(u).disabled = u.disabled /\ Rotated(u).cur = (u.cur + 1) % Slots(r)
        /\ Rotated(u).buckets = [u.buckets EXCEPT ![(u.cur + 1) % Slots(r)] = 0]
    BY <1>1, <1>2, RotatedFacts
  <2> QED BY <1>2, <1>7, <2>1, <2>2
<1> QED BY <1>6, <1>7

\* A silence rule's part of tick.
LEMMA EvaluatedSilenceFacts ==
    ASSUME NEW r \in SilenceRules, Typed(r, rules[r]), ~rules[r].disabled, NEW t \in Nat
    PROVE  LET q == rules[r]  p == EvaluatedSilence(r, t) IN
           /\ Typed(r, p)
           /\ Fires(r, t) =>
                 /\ p.fires = q.fires + 1 /\ p.lastFired = t /\ p.silenced = TRUE
                 /\ p.disabled = (MaxFiresAllowed(r) >= 0 /\ q.fires + 1 >= MaxFiresAllowed(r))
           /\ ~Fires(r, t) =>
                 /\ p.fires = q.fires /\ p.lastFired = q.lastFired /\ p.disabled = q.disabled
           /\ ~Silent(r, t) => p.silenced = FALSE
           /\ Silent(r, t) /\ ~Fires(r, t) => p = q
           /\ Fires(r, t) <=> Silent(r, t) /\ ~q.silenced /\ Cooled(r, q, t)
<1> DEFINE q == rules[r]  s == [q EXCEPT !.silenced = FALSE]
           w == [q EXCEPT !.silenced = TRUE, !.lastFired = t]
           f == CountFire(r, w)
<1>1. r \in Rules /\ r \notin ThresholdRules
  BY NotifyAssumption DEF Rules
<1>2. q \in RuleState(r) /\ Len(q.entries) <= MaxCaptured
  BY DEF Typed
<1>3. /\ s \in RuleState(r) /\ s.entries = q.entries /\ s.fires = q.fires
      /\ s.lastFired = q.lastFired /\ s.disabled = q.disabled
  BY <1>2 DEF RuleState
<1>4. s.silenced = FALSE
  BY <1>2 DEF RuleState
<1>5. /\ w \in RuleState(r) /\ w.entries = q.entries /\ w.fires = q.fires
      /\ w.lastFired = t
  <2>1. t \in Int
    OBVIOUS
  <2>2. w \in RuleState(r)
    BY <1>2, <2>1 DEF RuleState
  <2>3. w.entries = q.entries /\ w.fires = q.fires /\ w.lastFired = t
    BY <1>2 DEF RuleState
  <2> QED BY <2>2, <2>3
<1>6. w.silenced = TRUE
  BY <1>2 DEF RuleState
<1>7. Typed(r, s) /\ Typed(r, w)
  BY <1>2, <1>3, <1>5 DEF Typed
<1>8. /\ Typed(r, f) /\ f.fires = w.fires + 1 /\ f.lastFired = w.lastFired /\ f.silenced = w.silenced
      /\ f.disabled = (MaxFiresAllowed(r) >= 0 /\ w.fires + 1 >= MaxFiresAllowed(r))
  <2> HIDE DEF w
  <2> QED BY <1>1, <1>7, CountFireFacts
<1>9. Fires(r, t) <=> Silent(r, t) /\ ~q.silenced /\ Cooled(r, q, t)
  BY <1>1 DEF Fires, SilenceFires
<1>10. EvaluatedSilence(r, t) = IF ~Silent(r, t) THEN s ELSE IF Fires(r, t) THEN f ELSE q
  BY DEF EvaluatedSilence
<1> HIDE DEF s, w, f
<1>11. CASE ~Silent(r, t)
  BY <1>3, <1>4, <1>7, <1>9, <1>10, <1>11
<1>12. CASE Fires(r, t)
  BY <1>5, <1>6, <1>8, <1>9, <1>10, <1>12
<1>13. CASE Silent(r, t) /\ ~Fires(r, t)
  BY <1>9, <1>10, <1>13
<1> QED BY <1>11, <1>12, <1>13

\* Evaluated, for the rule it stands for.
LEMMA EvaluatedTyped ==
    ASSUME NEW r \in Rules, Typed(r, rules[r]), NEW t \in Nat
    PROVE  Typed(r, Evaluated(r, t))
<1>1. CASE rules[r].disabled
  BY <1>1 DEF Evaluated
<1>2. CASE ~rules[r].disabled /\ r \in ThresholdRules
  BY <1>2, EvaluatedThresholdFacts DEF Evaluated
<1>3. CASE ~rules[r].disabled /\ r \notin ThresholdRules
  BY <1>3, EvaluatedSilenceFacts DEF Evaluated, Rules
<1> QED BY <1>1, <1>2, <1>3

-----------------------------------------------------------------------------
(* Types and the clock *)

Entry == [app : Apps, error : BOOLEAN, at : 1 .. MaxTime]
Hit == [at : Nat, tick : Nat]

Types ==
    /\ now \in 1 .. MaxTime /\ tickAt \in 0 .. MaxTime /\ ticks \in Nat
    /\ pending \in [Handlers -> Entry \cup {NoEntry}]
    /\ lastSeen \in [Apps -> 0 .. MaxTime] /\ newest \in [Apps -> 0 .. MaxTime]
    /\ DOMAIN rules = Rules /\ \A r \in Rules : Typed(r, rules[r])
    /\ hits \in [ThresholdRules -> Seq(Hit)]
    /\ closed \in BOOLEAN /\ loop \in {"running", "returned"} /\ closeReturned \in BOOLEAN
    /\ inflight \in [Rules \X Senders -> Nat]

\* The clock, what is late with respect to it, and the number of ticks.
Clock ==
    /\ \A h \in Handlers : pending[h] # NoEntry =>
          pending[h].at <= now /\ now - pending[h].at <= MaxDelay
    /\ \A a \in Apps : lastSeen[a] <= newest[a] /\ newest[a] <= now
    /\ ticks * Slot + Offset <= now
    /\ tickAt # 0 =>
          /\ loop = "running" /\ tickAt = (ticks + 1) * Slot + Offset
          /\ tickAt <= now /\ now - tickAt <= MaxDelay
    /\ loop = "running" /\ tickAt = 0 => now < (ticks + 1) * Slot + Offset

LEMMA PendingEntry ==
    ASSUME Types, NEW h \in Handlers, pending[h] # NoEntry
    PROVE  pending[h] \in Entry /\ pending[h].at \in 1 .. MaxTime /\ pending[h].app \in Apps
           /\ pending[h].at \in Nat
BY NotifyAssumption DEF Types, Entry

LEMMA TypesInit == Init => Types /\ Clock
<1> SUFFICES ASSUME Init PROVE Types /\ Clock
  OBVIOUS
<1>1. /\ now = 1 /\ tickAt = 0 /\ ticks = 0 /\ loop = "running"
      /\ MaxTime \in Nat \ {0} /\ Slot \in Nat \ {0} /\ MaxDelay \in Nat
  BY NotifyAssumption DEF Init
<1>2. DOMAIN rules = Rules /\ \A r \in Rules : Typed(r, rules[r])
  BY FreshTyped DEF Init
<1>3. Types
  <2>1. pending \in [Handlers -> Entry \cup {NoEntry}]
    BY DEF Init
  <2>2. hits \in [ThresholdRules -> Seq(Hit)] /\ inflight \in [Rules \X Senders -> Nat]
    BY DEF Init
  <2>3. lastSeen \in [Apps -> 0 .. MaxTime] /\ newest \in [Apps -> 0 .. MaxTime]
    BY <1>1 DEF Init
  <2>4. closed \in BOOLEAN /\ closeReturned \in BOOLEAN
    BY Zenon DEF Init
  <2>5. now \in 1 .. MaxTime /\ tickAt \in 0 .. MaxTime /\ ticks \in Nat /\ loop \in {"running", "returned"}
    BY <1>1
  <2> QED BY <1>2, <2>1, <2>2, <2>3, <2>4, <2>5 DEF Types
<1>4. Clock
  <2>1. 0 * Slot = 0 /\ (0 + 1) * Slot = Slot /\ Offset <= 1 /\ 1 < Slot + Offset /\ Offset \in Nat
    BY <1>1 DEF Offset
  <2>2. \A h \in Handlers : pending[h] = NoEntry
    BY DEF Init
  <2>3. \A a \in Apps : lastSeen[a] = 0 /\ newest[a] = 0
    BY DEF Init
  <2> QED BY <1>1, <2>1, <2>2, <2>3 DEF Clock
<1> QED BY <1>3, <1>4

LEMMA TypesNext == Types /\ Clock /\ [Next]_vars => Types'
<1> SUFFICES ASSUME Types, Clock, [Next]_vars PROVE Types'
  OBVIOUS
<1> USE DEF Types
<1>1. CASE Advance
  BY <1>1, NotifyAssumption DEF Advance
<1>2. ASSUME NEW h \in Handlers, Stamp(h) PROVE Types'
  <2>1. PICK a \in Apps, err \in BOOLEAN :
           pending' = [pending EXCEPT ![h] = [app |-> a, error |-> err, at |-> now]]
    BY <1>2 DEF Stamp
  <2>2. [app |-> a, error |-> err, at |-> now] \in Entry
    BY DEF Entry
  <2>3. pending' \in [Handlers -> Entry \cup {NoEntry}]
    BY <2>1, <2>2
  <2> QED BY <1>2, <2>3 DEF Stamp
<1>3. ASSUME NEW h \in Handlers, Apply(h) PROVE Types'
  <2> DEFINE e == pending[h]
  <2>1. e \in Entry /\ e.at \in 1 .. MaxTime /\ e.app \in Apps /\ e.at \in Nat
    BY <1>3, PendingEntry DEF Apply
  <2>2. \A r \in Rules : Typed(r, Observed(rules[r], e))
    BY <2>1, ObservedFacts
  <2>3. DOMAIN rules' = Rules /\ \A r \in Rules : Typed(r, rules'[r])
    BY <1>3, <2>2 DEF Apply
  <2>4. hits' \in [ThresholdRules -> Seq(Hit)]
    <3>1. [at |-> e.at, tick |-> ticks] \in Hit
      BY <2>1 DEF Hit
    <3>2. \A r \in ThresholdRules : Append(hits[r], [at |-> e.at, tick |-> ticks]) \in Seq(Hit)
      BY <3>1
    <3>3. hits' = [r \in ThresholdRules |->
                     IF Counts(r, e) THEN Append(hits[r], [at |-> e.at, tick |-> ticks]) ELSE hits[r]]
      BY <1>3 DEF Apply
    <3> HIDE DEF e
    <3> QED BY <3>2, <3>3
  <2>5. pending' \in [Handlers -> Entry \cup {NoEntry}]
    BY <1>3 DEF Apply
  <2>6. lastSeen' \in [Apps -> 0 .. MaxTime] /\ newest' \in [Apps -> 0 .. MaxTime]
    BY <1>3, <2>1 DEF Apply
  <2> QED BY <1>3, <2>3, <2>4, <2>5, <2>6 DEF Apply
<1>4. CASE Tick
  <2>1. tickAt \in Nat
    BY NotifyAssumption
  <2>2. DOMAIN rules' = Rules /\ \A r \in Rules : Typed(r, rules'[r])
    BY <1>4, <2>1, EvaluatedTyped DEF Tick
  <2>3. hits' \in [ThresholdRules -> Seq(Hit)]
    BY <1>4 DEF Tick
  <2>4. inflight' \in [Rules \X Senders -> Nat]
    BY <1>4 DEF Tick
  <2>5. tickAt' \in 0 .. MaxTime /\ ticks' \in Nat
    BY <1>4, NotifyAssumption DEF Tick
  <2> QED BY <1>4, <2>2, <2>3, <2>4, <2>5 DEF Tick
<1>5. ASSUME NEW p \in Rules \X Senders, SendEnds(p) PROVE Types'
  <2>1. inflight' \in [Rules \X Senders -> Nat]
    BY <1>5 DEF SendEnds
  <2> QED BY <1>5, <2>1 DEF SendEnds
<1>6. ASSUME NEW r \in Rules, SetRule(r) PROVE Types'
  <2>1. DOMAIN rules' = Rules /\ \A q \in Rules : Typed(q, rules'[q])
    BY <1>6, FreshTyped DEF SetRule
  <2>2. hits' \in [ThresholdRules -> Seq(Hit)]
    BY <1>6 DEF SetRule
  <2> QED BY <1>6, <2>1, <2>2 DEF SetRule
<1>7. CASE Close
  BY <1>7 DEF Close
<1>8. CASE LoopReturns
  BY <1>8, NotifyAssumption DEF LoopReturns
<1>9. CASE CloseReturns
  BY <1>9 DEF CloseReturns
<1>10. CASE UNCHANGED vars
  BY <1>10 DEF vars
<1> QED BY <1>1, <1>2, <1>3, <1>4, <1>5, <1>6, <1>7, <1>8, <1>9, <1>10 DEF Next, Ended

\* A handler's stamp and a tick on its way, one unit later.
LEMMA AdvanceClock == ASSUME Types, Clock, Advance PROVE Clock'
<1>1. /\ now' = now + 1 /\ now \in Nat /\ now' \in Nat /\ ticks \in Nat /\ tickAt \in Nat
      /\ Slot \in Nat \ {0} /\ MaxDelay \in Nat /\ MaxDelay < Slot /\ Offset \in Nat
      /\ UNCHANGED <<pending, lastSeen, newest, ticks, loop>>
  BY NotifyAssumption DEF Advance, Types, Offset
<1>2. /\ (ticks + 1) * Slot = ticks * Slot + Slot /\ ticks * Slot \in Int
      /\ ((ticks + 1) + 1) * Slot = (ticks + 1) * Slot + Slot /\ (ticks + 1) * Slot \in Int
  BY <1>1, Times
<1>3. tickAt' = IF now' % Slot = 0 /\ loop = "running" THEN now' ELSE tickAt
  BY DEF Advance
<1>4. \A h \in Handlers : pending'[h] # NoEntry => pending'[h].at <= now' /\ now' - pending'[h].at <= MaxDelay
  <2> SUFFICES ASSUME NEW h \in Handlers, pending[h] # NoEntry
               PROVE  pending[h].at <= now' /\ now' - pending[h].at <= MaxDelay
    BY <1>1
  <2>1. pending[h].at \in Nat
    BY PendingEntry
  <2>2. pending[h].at <= now /\ now - pending[h].at < MaxDelay
    BY DEF Clock, Advance
  <2> QED BY <1>1, <2>1, <2>2
<1>5. \A a \in Apps : lastSeen'[a] <= newest'[a] /\ newest'[a] <= now'
  <2> SUFFICES ASSUME NEW a \in Apps PROVE lastSeen[a] <= newest[a] /\ newest[a] <= now'
    BY <1>1
  <2>1. newest[a] \in Nat /\ lastSeen[a] \in Nat
    BY NotifyAssumption DEF Types
  <2>2. lastSeen[a] <= newest[a] /\ newest[a] <= now
    BY DEF Clock
  <2> QED BY <1>1, <2>1, <2>2
<1>6. ticks' * Slot + Offset <= now'
  BY <1>1, <1>2 DEF Clock
<1>7. CASE tickAt # 0
  <2>1. tickAt = (ticks + 1) * Slot + Offset /\ tickAt <= now /\ now - tickAt < MaxDelay /\ loop = "running"
    BY <1>7 DEF Clock, Advance
  <2>2. (ticks + 1) * Slot + Offset < now' /\ now' < ((ticks + 1) + 1) * Slot + Offset
    BY <1>1, <1>2, <2>1
  <2>3. now' % Slot # 0
    <3>1. PICK k \in Nat : k = ticks + 1
      BY <1>1
    <3>2. k * Slot + Offset < now' /\ now' < (k + 1) * Slot + Offset
      BY <2>2, <3>1
    <3> QED BY <1>1, <3>2, TickTimes
  <2>4. tickAt' = tickAt /\ now' - tickAt <= MaxDelay /\ tickAt <= now'
    BY <1>1, <1>3, <2>1, <2>3
  <2> QED BY <1>1, <1>4, <1>5, <1>6, <1>7, <2>1, <2>4 DEF Clock
<1>8. CASE tickAt = 0 /\ loop = "running"
  <2>1. ticks * Slot + Offset < now' /\ now' <= (ticks + 1) * Slot + Offset
    BY <1>1, <1>2, <1>8 DEF Clock
  <2>2. CASE now' = (ticks + 1) * Slot + Offset
    <3>1. tickAt' = now' /\ now' # 0
      <4>1. now' % Slot = 0
        BY <1>1, <2>2, TickTimes
      <4> QED BY <1>1, <1>3, <1>8, <4>1
    <3> QED BY <1>1, <1>4, <1>5, <1>6, <1>8, <2>2, <3>1 DEF Clock
  <2>3. CASE now' < (ticks + 1) * Slot + Offset
    <3>1. tickAt' = 0
      BY <1>1, <1>3, <1>8, <2>1, <2>3, TickTimes
    <3> QED BY <1>1, <1>4, <1>5, <1>6, <1>8, <2>3, <3>1 DEF Clock
  <2> QED BY <1>1, <1>2, <2>1, <2>2, <2>3
<1>9. CASE tickAt = 0 /\ loop # "running"
  BY <1>1, <1>3, <1>4, <1>5, <1>6, <1>9 DEF Clock
<1> QED BY <1>7, <1>8, <1>9

LEMMA ClockNext == Types /\ Clock /\ [Next]_vars => Clock'
<1> SUFFICES ASSUME Types, Clock, [Next]_vars PROVE Clock'
  OBVIOUS
<1>1. CASE Advance
  BY <1>1, AdvanceClock
<1>2. ASSUME NEW h \in Handlers, Stamp(h) PROVE Clock'
  <2>1. PICK a \in Apps, err \in BOOLEAN :
           pending' = [pending EXCEPT ![h] = [app |-> a, error |-> err, at |-> now]]
    BY <1>2 DEF Stamp
  <2>2. UNCHANGED <<now, lastSeen, newest, ticks, tickAt, loop>> /\ now \in Nat /\ MaxDelay \in Nat
    BY <1>2, NotifyAssumption DEF Stamp, Types
  <2>3. ASSUME NEW g \in Handlers, pending'[g] # NoEntry
        PROVE  pending'[g].at <= now /\ now - pending'[g].at <= MaxDelay
    <3>1. CASE g = h
      <4>1. pending'[g].at = now
        BY <2>1, <3>1 DEF Types
      <4> QED BY <2>2, <4>1
    <3>2. CASE g # h
      <4>1. pending'[g] = pending[g]
        BY <2>1, <3>2 DEF Types
      <4> QED BY <2>3, <4>1 DEF Clock
    <3> QED BY <3>1, <3>2
  <2> QED BY <2>2, <2>3 DEF Clock
<1>3. ASSUME NEW h \in Handlers, Apply(h) PROVE Clock'
  <2> DEFINE e == pending[h]
  <2>1. e.at \in Nat /\ e.app \in Apps /\ e.at <= now /\ now \in Nat
    BY <1>3, PendingEntry, NotifyAssumption DEF Apply, Clock, Types
  <2>2. UNCHANGED <<now, ticks, tickAt, loop>> /\ pending' = [pending EXCEPT ![h] = NoEntry]
    BY <1>3 DEF Apply
  <2>3. ASSUME NEW g \in Handlers, pending'[g] # NoEntry
        PROVE  pending'[g].at <= now /\ now - pending'[g].at <= MaxDelay
    <3>1. pending'[g] = pending[g] /\ g # h
      BY <2>2, <2>3 DEF Types
    <3> QED BY <2>3, <3>1 DEF Clock
  <2>4. ASSUME NEW a \in Apps PROVE lastSeen'[a] <= newest'[a] /\ newest'[a] <= now
    <3>1. /\ newest[a] \in Nat /\ lastSeen[a] \in Nat /\ lastSeen[a] <= newest[a] /\ newest[a] <= now
      BY NotifyAssumption DEF Types, Clock
    <3>2. /\ lastSeen' = [lastSeen EXCEPT ![e.app] = e.at]
          /\ newest' = [newest EXCEPT ![e.app] = IF e.at > newest[e.app] THEN e.at ELSE newest[e.app]]
      BY <1>3, <2>1 DEF Apply, Types
    <3> HIDE DEF e
    <3> QED BY <2>1, <3>1, <3>2 DEF Types
  <2> QED BY <2>2, <2>3, <2>4 DEF Clock
<1>4. CASE Tick
  <2>1. /\ tickAt # 0 /\ tickAt' = 0 /\ ticks' = ticks + 1 /\ UNCHANGED <<now, pending, lastSeen, newest, loop>>
    BY <1>4 DEF Tick
  <2>2. /\ now \in Nat /\ tickAt \in Nat /\ ticks \in Nat /\ Offset \in Nat
        /\ Slot \in Nat \ {0} /\ MaxDelay \in Nat /\ MaxDelay < Slot
    BY NotifyAssumption DEF Types, Offset
  <2>3. (ticks' + 1) * Slot = ticks' * Slot + Slot /\ ticks' * Slot \in Int
    BY <2>1, <2>2, Times
  <2>4. tickAt = ticks' * Slot + Offset /\ tickAt <= now /\ now - tickAt <= MaxDelay
    BY <2>1 DEF Clock
  <2>5. ticks' * Slot + Offset <= now /\ now < (ticks' + 1) * Slot + Offset
    BY <2>2, <2>3, <2>4
  <2> QED BY <2>1, <2>5 DEF Clock
<1>5. ASSUME NEW p \in Rules \X Senders, SendEnds(p) PROVE Clock'
  BY <1>5 DEF SendEnds, Clock
<1>6. ASSUME NEW r \in Rules, SetRule(r) PROVE Clock'
  BY <1>6 DEF SetRule, Clock
<1>7. CASE Close
  BY <1>7 DEF Close, Clock
<1>8. CASE LoopReturns
  BY <1>8 DEF LoopReturns, Clock
<1>9. CASE CloseReturns
  BY <1>9 DEF CloseReturns, Clock
<1>10. CASE UNCHANGED vars
  BY <1>10 DEF vars, Clock
<1> QED BY <1>1, <1>2, <1>3, <1>4, <1>5, <1>6, <1>7, <1>8, <1>9, <1>10 DEF Next, Ended

LEMMA AllowedType ==
    ASSUME NEW r \in Rules
    PROVE  MaxFiresAllowed(r) \in Int /\ (MaxFiresAllowed(r) >= 0 => MaxFiresAllowed(r) >= 1)
BY NotifyAssumption DEF MaxFiresAllowed

\* One rule of FiresWithinLimit.
WithinLimit(r, q) ==
    LET allowed == MaxFiresAllowed(r) IN
    /\ allowed >= 0 => q.fires <= allowed
    /\ q.disabled <=> (allowed >= 0 /\ q.fires = allowed)

LEMMA FreshWithinLimit ==
    ASSUME NEW r \in Rules
    PROVE  WithinLimit(r, FreshRule(r))
BY AllowedType DEF WithinLimit, FreshRule

LEMMA EvaluatedWithinLimit ==
    ASSUME NEW r \in Rules, Typed(r, rules[r]), NEW t \in Nat, WithinLimit(r, rules[r])
    PROVE  WithinLimit(r, Evaluated(r, t))
<1> DEFINE q == rules[r]  p == Evaluated(r, t)
<1>1. CASE q.disabled
  BY <1>1 DEF Evaluated
<1>2. CASE ~q.disabled
  <2>1. \/ p.fires = q.fires /\ p.disabled = q.disabled
        \/ /\ p.fires = q.fires + 1
           /\ p.disabled = (MaxFiresAllowed(r) >= 0 /\ q.fires + 1 >= MaxFiresAllowed(r))
    <3>1. CASE r \in ThresholdRules
      BY <1>2, <3>1, EvaluatedThresholdFacts DEF Evaluated
    <3>2. CASE r \notin ThresholdRules
      BY <1>2, <3>2, EvaluatedSilenceFacts DEF Evaluated, Rules
    <3> QED BY <3>1, <3>2
  <2>2. q.fires \in Nat /\ MaxFiresAllowed(r) \in Int
    BY AllowedType DEF Typed, RuleState
  <2> HIDE DEF p, q
  <2>3. CASE p.fires = q.fires /\ p.disabled = q.disabled
    BY <2>3 DEF WithinLimit, p, q
  <2>4. CASE /\ p.fires = q.fires + 1
             /\ p.disabled = (MaxFiresAllowed(r) >= 0 /\ q.fires + 1 >= MaxFiresAllowed(r))
    <3>1. MaxFiresAllowed(r) >= 0 => q.fires + 1 <= MaxFiresAllowed(r)
      BY <1>2, <2>2 DEF WithinLimit, q
    <3>2. MaxFiresAllowed(r) >= 0 => p.fires <= MaxFiresAllowed(r)
      BY <2>4, <3>1
    <3>3. q.fires + 1 >= MaxFiresAllowed(r) /\ MaxFiresAllowed(r) >= 0
             <=> MaxFiresAllowed(r) >= 0 /\ p.fires = MaxFiresAllowed(r)
      BY <2>2, <2>4, <3>1
    <3>4. p.disabled <=> (MaxFiresAllowed(r) >= 0 /\ p.fires = MaxFiresAllowed(r))
      BY <2>4, <3>3
    <3> QED BY <3>2, <3>4 DEF WithinLimit, p
  <2> QED BY <2>1, <2>3, <2>4
<1> QED BY <1>1, <1>2

LEMMA LimitNext == Types /\ FiresWithinLimit /\ [Next]_vars => FiresWithinLimit'
<1> SUFFICES ASSUME Types, [Next]_vars, \A r \in Rules : WithinLimit(r, rules[r])
             PROVE  \A r \in Rules : WithinLimit(r, rules'[r])
  BY DEF FiresWithinLimit, WithinLimit
<1>1. ASSUME NEW h \in Handlers, Apply(h), NEW r \in Rules PROVE WithinLimit(r, rules'[r])
  <2>1. pending[h].at \in Nat /\ Typed(r, rules[r])
    BY <1>1, PendingEntry DEF Apply, Types
  <2>2. /\ Observed(rules[r], pending[h]).fires = rules[r].fires
        /\ Observed(rules[r], pending[h]).disabled = rules[r].disabled
    BY <2>1 DEF Observed, Typed, RuleState
  <2>3. rules'[r] = Observed(rules[r], pending[h]) \/ rules'[r] = rules[r]
    BY <1>1 DEF Apply
  <2> QED BY <2>2, <2>3 DEF WithinLimit
<1>2. ASSUME Tick, NEW r \in Rules PROVE WithinLimit(r, rules'[r])
  <2>1. tickAt \in Nat /\ Typed(r, rules[r]) /\ rules'[r] = Evaluated(r, tickAt)
    BY <1>2, NotifyAssumption DEF Tick, Types
  <2> QED BY <2>1, EvaluatedWithinLimit
<1>3. ASSUME NEW u \in Rules, SetRule(u), NEW r \in Rules PROVE WithinLimit(r, rules'[r])
  <2>1. rules'[r] = FreshRule(r) \/ rules'[r] = rules[r]
    BY <1>3 DEF SetRule, Types
  <2> QED BY <2>1, FreshWithinLimit
<1>4. CASE UNCHANGED rules
  BY <1>4
<1> QED BY <1>1, <1>2, <1>3, <1>4 DEF Next, vars, Ended, Advance, Stamp, SendEnds, Close, LoopReturns,
           CloseReturns

LEMMA FreshNext == Types /\ Clock /\ LastSeenFresh /\ [Next]_vars => LastSeenFresh'
<1> SUFFICES ASSUME Types, Clock, LastSeenFresh, [Next]_vars PROVE LastSeenFresh'
  OBVIOUS
<1>1. ASSUME NEW h \in Handlers, Apply(h) PROVE LastSeenFresh'
  <2> DEFINE e == pending[h]
  <2>1. /\ e.at \in Nat /\ e.app \in Apps /\ e.at <= now /\ now - e.at <= MaxDelay
        /\ now \in Nat /\ MaxDelay \in Nat
    BY <1>1, PendingEntry, NotifyAssumption DEF Apply, Clock, Types
  <2>2. /\ lastSeen' = [lastSeen EXCEPT ![e.app] = e.at]
        /\ newest' = [newest EXCEPT ![e.app] = IF e.at > newest[e.app] THEN e.at ELSE newest[e.app]]
    BY <1>1, <2>1 DEF Apply, Types
  <2>3. ASSUME NEW a \in Apps PROVE newest'[a] - lastSeen'[a] <= MaxDelay
    <3>1. newest[a] \in Nat /\ lastSeen[a] \in Nat /\ newest[a] <= now /\ newest[a] - lastSeen[a] <= MaxDelay
      BY NotifyAssumption DEF Types, Clock, LastSeenFresh
    <3> HIDE DEF e
    <3> QED BY <2>1, <2>2, <3>1 DEF Types
  <2> QED BY <2>3 DEF LastSeenFresh
<1>2. CASE UNCHANGED <<lastSeen, newest>>
  BY <1>2 DEF LastSeenFresh
<1> QED BY <1>1, <1>2 DEF Next, vars, Ended, Advance, Stamp, SendEnds, Close, LoopReturns,
           CloseReturns, Tick, SetRule

LEMMA CloseNext == Types /\ NoSendAfterClose /\ [Next]_vars => NoSendAfterClose'
<1> SUFFICES ASSUME Types, NoSendAfterClose, [Next]_vars PROVE NoSendAfterClose'
  OBVIOUS
<1>1. CASE CloseReturns
  BY <1>1 DEF CloseReturns, NoSendAfterClose
<1>2. CASE Tick
  BY <1>2 DEF Tick, NoSendAfterClose
<1>3. ASSUME NEW p \in Rules \X Senders, SendEnds(p) PROVE NoSendAfterClose'
  <2>1. inflight[p] # 0 /\ p \in DOMAIN inflight
    BY <1>3 DEF SendEnds, Types
  <2> QED BY <1>3, <2>1 DEF SendEnds, NoSendAfterClose
<1>4. CASE LoopReturns
  BY <1>4 DEF LoopReturns, NoSendAfterClose
<1>5. CASE UNCHANGED <<closeReturned, loop, inflight>>
  BY <1>5 DEF NoSendAfterClose
<1> QED BY <1>1, <1>2, <1>3, <1>4, <1>5 DEF Next, vars, Ended, Advance, Stamp, Apply, Close, SetRule

-----------------------------------------------------------------------------
BaseInv == Types /\ Clock /\ FiresWithinLimit /\ LastSeenFresh /\ NoSendAfterClose

THEOREM Invariance == Spec => []BaseInv
<1>1. Init => BaseInv
  <2> SUFFICES ASSUME Init PROVE FiresWithinLimit /\ LastSeenFresh /\ NoSendAfterClose
    BY TypesInit DEF BaseInv
  <2>1. \A r \in Rules : WithinLimit(r, rules[r])
    BY FreshWithinLimit DEF Init
  <2>2. FiresWithinLimit
    BY <2>1 DEF FiresWithinLimit, WithinLimit
  <2>3. LastSeenFresh
    BY NotifyAssumption DEF Init, LastSeenFresh
  <2>4. NoSendAfterClose
    BY DEF Init, NoSendAfterClose
  <2> QED BY <2>2, <2>3, <2>4
<1>2. BaseInv /\ [Next]_vars => BaseInv'
  BY TypesNext, ClockNext, LimitNext, FreshNext, CloseNext DEF BaseInv
<1> QED BY <1>1, <1>2, PTL DEF Spec

\* Every reachable state of the engine has its type: the captured entries stay
\* within maxCaptured, and cur within the ring.
THEOREM TypeCorrect == Spec => []TypeOK
<1>1. ASSUME BaseInv PROVE TypeOK
  <2>1. Types
    BY <1>1 DEF BaseInv
  <2>2. \A h \in Handlers : pending[h] = NoEntry \/
           pending[h] \in [app : Apps, error : BOOLEAN, at : 1 .. MaxTime]
    BY <2>1 DEF Types, Entry
  <2>3. \A r \in ThresholdRules : rules[r] \in RuleState(r) /\ Len(rules[r].entries) <= MaxCaptured
    BY <2>1 DEF Types, Typed, Rules
  <2> QED BY <2>1, <2>2, <2>3 DEF Types, TypeOK
<1> QED BY <1>1, Invariance, PTL

\* A rule never fires more often than max_fires allows, and it is disabled
\* exactly when that number is reached (countFire).
THEOREM FiresWithinLimitHolds == Spec => []FiresWithinLimit
<1>1. BaseInv => FiresWithinLimit
  BY DEF BaseInv
<1> QED BY <1>1, Invariance, PTL

\* However the handlers of Append overtake each other, lastSeen is behind the
\* newest entry by at most MaxDelay.
THEOREM LastSeenFreshHolds == Spec => []LastSeenFresh
<1>1. BaseInv => LastSeenFresh
  BY DEF BaseInv
<1> QED BY <1>1, Invariance, PTL

\* Close returns after the last send of dispatch, and none starts afterwards.
THEOREM NoSendAfterCloseHolds == Spec => []NoSendAfterClose
<1>1. BaseInv => NoSendAfterClose
  BY DEF BaseInv
<1> QED BY <1>1, Invariance, PTL

-----------------------------------------------------------------------------
(* Silence rules *)

\* One silence rule: when it last fired, that it is armed again only by an entry
\* that came after its last report, and that while it stays marked as reported
\* the application has either not spoken since or has spoken since the last tick.
SilenceKnown(r) ==
    LET q == rules[r]  seen == lastSeen[App[r]] IN
    /\ q.lastFired <= ticks * Slot + Offset
    /\ q.fires > 0 => seen > 0
    /\ q.fires > 0 /\ ~q.silenced => newest[App[r]] > q.lastFired - Window[r]
    /\ q.silenced /\ ~q.disabled /\ Window[r] > Slot + MaxDelay =>
          \/ seen <= q.lastFired - Window[r]
          \/ seen >= ticks * Slot + Offset - MaxDelay

SilenceInv == \A r \in SilenceRules : SilenceKnown(r)

LEMMA SilenceTypes ==
    ASSUME Types, NEW r \in SilenceRules
    PROVE  /\ r \in Rules /\ r \notin ThresholdRules /\ App[r] \in Apps /\ Typed(r, rules[r])
           /\ rules[r].fires \in Nat /\ rules[r].lastFired \in Int
           /\ lastSeen[App[r]] \in Nat /\ newest[App[r]] \in Nat
           /\ Window[r] \in Nat \ {0} /\ Cooldown[r] \in Nat
           /\ now \in Nat /\ tickAt \in Nat /\ ticks \in Nat /\ Offset \in Nat
           /\ Slot \in Nat \ {0} /\ MaxDelay \in Nat /\ MaxDelay < Slot
           /\ ticks * Slot \in Int /\ (ticks + 1) * Slot = ticks * Slot + Slot
<1>1. r \in Rules /\ r \notin ThresholdRules /\ App[r] \in Apps
  BY NotifyAssumption DEF Rules
<1>2. Typed(r, rules[r]) /\ rules[r].fires \in Nat /\ rules[r].lastFired \in Int
  BY <1>1 DEF Types, Typed, RuleState
<1>3. lastSeen[App[r]] \in Nat /\ newest[App[r]] \in Nat
  BY <1>1, NotifyAssumption DEF Types
<1>4. Window[r] \in Nat \ {0} /\ Cooldown[r] \in Nat
  BY <1>1, NotifyAssumption
<1>5. /\ now \in Nat /\ tickAt \in Nat /\ ticks \in Nat /\ Offset \in Nat
      /\ Slot \in Nat \ {0} /\ MaxDelay \in Nat /\ MaxDelay < Slot
  BY NotifyAssumption DEF Types, Offset
<1>6. ticks * Slot \in Int /\ (ticks + 1) * Slot = ticks * Slot + Slot
  BY <1>5, Times
<1> QED BY <1>1, <1>2, <1>3, <1>4, <1>5, <1>6

\* A rule just built has not fired.
LEMMA FreshSilence ==
    ASSUME NEW r \in SilenceRules, NEW k \in Nat
    PROVE  LET q == FreshRule(r) IN
           q.lastFired <= k * Slot + Offset /\ q.fires = 0 /\ q.silenced = FALSE
<1>1. Cooldown[r] \in Nat /\ Slot \in Nat /\ Offset \in Nat /\ r \in Rules
  BY NotifyAssumption DEF Offset, Rules
<1>2. k * Slot >= 0 /\ k * Slot \in Int
  BY <1>1
<1>3. FreshRule(r).lastFired = -Cooldown[r]
  BY DEF FreshRule, Never
<1>4. FreshRule(r).fires = 0
  BY DEF FreshRule
<1>5. FreshRule(r).silenced = FALSE
  BY DEF FreshRule
<1> QED BY <1>1, <1>2, <1>3, <1>4, <1>5

LEMMA SilenceInit == Init => SilenceInv
<1> SUFFICES ASSUME Init, NEW r \in SilenceRules PROVE SilenceKnown(r)
  BY DEF SilenceInv
<1>1. ticks = 0 /\ rules[r] = FreshRule(r)
  BY DEF Init, Rules
<1>2. rules[r].lastFired <= 0 * Slot + Offset /\ rules[r].fires = 0 /\ rules[r].silenced = FALSE
  BY <1>1, FreshSilence
<1> QED BY <1>1, <1>2 DEF SilenceKnown

\* What a tick does to a silence rule, from which both halves of SilenceExact follow.
LEMMA SilenceTick ==
    ASSUME Types, Clock, Tick, NEW r \in SilenceRules
    PROVE  LET q == rules[r]  p == rules'[r] IN
           /\ tickAt = ticks * Slot + Slot + Offset
           /\ q.disabled => p = q
           /\ ~q.disabled =>
                 \/ /\ ~Silent(r, tickAt) /\ p.fires = q.fires /\ p.lastFired = q.lastFired
                    /\ p.silenced = FALSE
                 \/ /\ Silent(r, tickAt) /\ ~q.silenced /\ Cooled(r, q, tickAt)
                    /\ p.fires = q.fires + 1 /\ p.lastFired = tickAt /\ p.silenced = TRUE
                 \/ /\ Silent(r, tickAt) /\ ~(~q.silenced /\ Cooled(r, q, tickAt)) /\ p = q
<1> DEFINE q == rules[r]
<1>1. tickAt # 0 /\ tickAt = (ticks + 1) * Slot + Offset /\ rules'[r] = Evaluated(r, tickAt)
  BY SilenceTypes DEF Tick, Clock
<1>2. tickAt = ticks * Slot + Slot + Offset
  BY <1>1, SilenceTypes
<1>3. ASSUME q.disabled PROVE rules'[r] = q
  BY <1>1, <1>3 DEF Evaluated
<1>4. ASSUME ~q.disabled
      PROVE  /\ rules'[r] = EvaluatedSilence(r, tickAt)
             /\ Typed(r, rules[r]) /\ tickAt \in Nat
  BY <1>1, <1>4, SilenceTypes DEF Evaluated
<1>5. ASSUME ~q.disabled
      PROVE  LET p == EvaluatedSilence(r, tickAt) IN
           /\ Fires(r, tickAt) => p.fires = q.fires + 1 /\ p.lastFired = tickAt /\ p.silenced = TRUE
           /\ ~Fires(r, tickAt) => p.fires = q.fires /\ p.lastFired = q.lastFired
           /\ ~Silent(r, tickAt) => p.silenced = FALSE
           /\ Silent(r, tickAt) /\ ~Fires(r, tickAt) => p = q
           /\ Fires(r, tickAt) <=> Silent(r, tickAt) /\ ~q.silenced /\ Cooled(r, q, tickAt)
  BY <1>4, <1>5, EvaluatedSilenceFacts
<1> QED BY <1>2, <1>3, <1>4, <1>5

LEMMA SilenceNext == Types /\ Clock /\ SilenceInv /\ [Next]_vars => SilenceInv'
<1> SUFFICES ASSUME Types, Clock, [Next]_vars, NEW r \in SilenceRules, SilenceKnown(r)
             PROVE  SilenceKnown(r)'
  BY DEF SilenceInv
<1> DEFINE q == rules[r]  a == App[r]
<1>1. ASSUME NEW h \in Handlers, Apply(h) PROVE SilenceKnown(r)'
  <2> DEFINE e == pending[h]
  <2>1. /\ e.at \in Nat /\ e.at >= 1 /\ e.app \in Apps /\ e.at <= now /\ now - e.at <= MaxDelay
        /\ ticks * Slot + Offset <= now
    BY <1>1, PendingEntry, NotifyAssumption DEF Apply, Clock, Types
  <2>2. /\ lastSeen' = [lastSeen EXCEPT ![e.app] = e.at]
        /\ newest' = [newest EXCEPT ![e.app] = IF e.at > newest[e.app] THEN e.at ELSE newest[e.app]]
    BY <1>1, <2>1 DEF Apply, Types
  <2>3. rules'[r] = rules[r] /\ ticks' = ticks
    BY <1>1, SilenceTypes DEF Apply, Counts
  <2>4. PICK edge \in Int : edge = ticks * Slot + Offset
    BY SilenceTypes
  <2>5. /\ a \in Apps /\ DOMAIN lastSeen = Apps /\ DOMAIN newest = Apps
        /\ lastSeen[a] \in Nat /\ newest[a] \in Nat /\ now \in Nat /\ MaxDelay \in Nat
    BY SilenceTypes DEF Types
  <2> HIDE DEF e, a
  <2>6. \/ lastSeen'[a] = lastSeen[a]
        \/ lastSeen'[a] > 0 /\ lastSeen'[a] >= edge - MaxDelay
    BY <2>1, <2>2, <2>4, <2>5
  <2>7. newest'[a] \in Nat /\ newest'[a] >= newest[a] /\ lastSeen'[a] \in Nat
    BY <2>1, <2>2, <2>5
  <2> QED BY <2>3, <2>4, <2>6, <2>7, SilenceTypes DEF SilenceKnown, a
<1>2. ASSUME Tick PROVE SilenceKnown(r)'
  <2> DEFINE p == rules'[r]
  <2>1. /\ ticks' = ticks + 1 /\ lastSeen' = lastSeen /\ newest' = newest
        /\ (ticks + 1) * Slot + Offset = tickAt /\ tickAt = ticks * Slot + Slot + Offset
    BY <1>2, SilenceTypes, SilenceTick DEF Tick
  <2>2. lastSeen[a] <= newest[a]
    BY SilenceTypes DEF Clock
  <2>3. CASE q.disabled
    <3>1. p = q
      BY <1>2, <2>3, SilenceTick
    <3>2. q.lastFired <= tickAt
      BY <2>1, SilenceTypes DEF SilenceKnown
    <3> QED BY <2>1, <2>3, <3>1, <3>2 DEF SilenceKnown
  <2>4. CASE /\ ~Silent(r, tickAt) /\ p.fires = q.fires /\ p.lastFired = q.lastFired
             /\ p.silenced = FALSE
    <3>1. q.fires > 0 => tickAt - lastSeen[a] < Window[r]
      BY <2>1, <2>4, SilenceTypes DEF Silent, SilenceKnown
    <3> HIDE DEF p
    <3>2. q.fires > 0 => newest[a] > q.lastFired - Window[r]
      BY <2>1, <2>2, <3>1, SilenceTypes DEF SilenceKnown
    <3>3. p.lastFired <= ticks' * Slot + Offset
      BY <2>1, <2>4, SilenceTypes DEF SilenceKnown
    <3>4. /\ p.fires > 0 => lastSeen[a] > 0
          /\ p.fires > 0 => newest[a] > p.lastFired - Window[r]
      BY <2>4, <3>2 DEF SilenceKnown
    <3> QED BY <2>1, <2>4, <3>3, <3>4 DEF SilenceKnown, p
  <2>5. CASE /\ Silent(r, tickAt) /\ p.fires = q.fires + 1 /\ p.lastFired = tickAt /\ p.silenced = TRUE
    <3>1. lastSeen[a] # 0 /\ tickAt - lastSeen[a] >= Window[r]
      BY <2>5 DEF Silent
    <3>2. lastSeen[a] > 0 /\ lastSeen[a] <= tickAt - Window[r]
      BY <3>1, SilenceTypes
    <3> QED BY <2>1, <2>5, <3>2, SilenceTypes DEF SilenceKnown
  <2>6. CASE Silent(r, tickAt) /\ p = q
    <3>1. tickAt - lastSeen[a] >= Window[r]
      BY <2>6 DEF Silent
    <3>2. Window[r] > Slot + MaxDelay => ~(lastSeen[a] >= ticks * Slot + Offset - MaxDelay)
      BY <2>1, <3>1, SilenceTypes
    <3>3. q.lastFired <= tickAt
      BY <2>1, SilenceTypes DEF SilenceKnown
    <3> QED BY <2>1, <2>6, <3>2, <3>3, SilenceTypes DEF SilenceKnown
  <2> QED BY <1>2, <2>3, <2>4, <2>5, <2>6, SilenceTick
<1>3. ASSUME NEW u \in Rules, SetRule(u) PROVE SilenceKnown(r)'
  <2>1. rules'[r] = FreshRule(r) \/ rules'[r] = rules[r]
    BY <1>3, SilenceTypes DEF SetRule, Types
  <2>2. UNCHANGED <<lastSeen, newest, ticks>>
    BY <1>3 DEF SetRule
  <2>3. CASE rules'[r] = FreshRule(r)
    <3>1. /\ rules'[r].lastFired <= ticks' * Slot + Offset /\ rules'[r].fires = 0
          /\ rules'[r].silenced = FALSE
      BY <2>2, <2>3, FreshSilence, SilenceTypes
    <3> QED BY <3>1 DEF SilenceKnown
  <2> QED BY <2>1, <2>2, <2>3 DEF SilenceKnown
<1>4. CASE UNCHANGED <<rules, lastSeen, newest, ticks>>
  BY <1>4 DEF SilenceKnown
<1> QED BY <1>1, <1>2, <1>3, <1>4 DEF Next, vars, Ended, Advance, Stamp, SendEnds, Close, LoopReturns,
           CloseReturns

\* Engine.tick reports each gap of a silence rule's application once: never a
\* second time for the same gap, and, when the window is longer than a slot and
\* a delay, always a first time.
THEOREM SilenceExactHolds == Spec => SilenceExact
<1>1. Spec => []SilenceInv
  <2>1. BaseInv /\ SilenceInv /\ [Next]_vars => SilenceInv'
    BY SilenceNext DEF BaseInv
  <2> QED BY <2>1, Invariance, SilenceInit, PTL DEF Spec
<1>2. BaseInv /\ SilenceInv /\ [Next]_vars =>
         [\A r \in SilenceRules : ~Repeated(r) /\ ~Unreported(r)]_vars
  <2> SUFFICES ASSUME Types, Clock, SilenceInv, [Next]_vars, NEW r \in SilenceRules
               PROVE  ~Repeated(r) /\ ~Unreported(r)
    BY DEF BaseInv
  <2> DEFINE q == rules[r]  p == rules'[r]  a == App[r]
  <2>1. SilenceKnown(r)
    BY DEF SilenceInv
  <2>2. CASE Tick
    <3>1. CASE q.disabled
      <4>1. p = q
        BY <2>2, <3>1, SilenceTick
      <4> QED BY <3>1, <4>1, SilenceTypes DEF Repeated, Unreported
    <3>2. CASE ~Silent(r, tickAt) /\ p.fires = q.fires
      BY <3>2, SilenceTypes DEF Repeated, Unreported
    <3>3. CASE ~q.silenced /\ p.fires = q.fires + 1
      BY <2>1, <3>3, SilenceTypes DEF Repeated, Unreported, SilenceKnown
    <3>4. CASE ~q.disabled /\ Silent(r, tickAt) /\ ~(~q.silenced /\ Cooled(r, q, tickAt)) /\ p = q
      <4>1. ~Repeated(r)
        BY <3>4, SilenceTypes DEF Repeated
      <4>2. ASSUME Unreported(r) PROVE FALSE
        <5>1. /\ q.silenced /\ Window[r] > Slot + MaxDelay /\ lastSeen[a] > q.lastFired - Window[r]
              /\ tickAt - lastSeen[a] >= Window[r]
          BY <3>4, <4>2 DEF Unreported, Silent
        <5>2. lastSeen[a] >= ticks * Slot + Offset - MaxDelay
          BY <2>1, <3>4, <5>1, SilenceTypes DEF SilenceKnown
        <5>3. tickAt = ticks * Slot + Slot + Offset
          BY <2>2, SilenceTick
        <5> QED BY <5>1, <5>2, <5>3, SilenceTypes
      <4> QED BY <4>1, <4>2
    <3> QED BY <2>2, <3>1, <3>2, <3>3, <3>4, SilenceTick
  <2>3. ASSUME ~Tick PROVE ticks' = ticks /\ (p = q \/ p = FreshRule(r))
    <3>1. r \in Rules /\ r \notin ThresholdRules /\ DOMAIN rules = Rules
      BY SilenceTypes DEF Types
    <3>2. ASSUME NEW h \in Handlers, Apply(h) PROVE ticks' = ticks /\ p = q
      BY <3>1, <3>2 DEF Apply, Counts
    <3>3. ASSUME NEW u \in Rules, SetRule(u) PROVE ticks' = ticks /\ (p = q \/ p = FreshRule(r))
      BY <3>1, <3>3 DEF SetRule
    <3> QED BY <2>3, <3>2, <3>3 DEF Next, vars, Ended, Advance, Stamp, SendEnds, Close,
               LoopReturns, CloseReturns
  <2>4. CASE ~Tick
    <3>1. FreshRule(r).fires = 0 /\ ticks' = ticks /\ (p = q \/ p = FreshRule(r))
      BY <2>3, <2>4 DEF FreshRule
    <3> QED BY <3>1, SilenceTypes DEF Repeated, Unreported
  <2> QED BY <2>2, <2>4
<1> QED BY <1>1, <1>2, Invariance, PTL DEF Spec, SilenceExact

-----------------------------------------------------------------------------
(* The ring of a threshold rule *)

\* Where the bucket of j ticks ago lies, and how a tick moves it.
LEMMA RingIndex ==
    ASSUME NEW n \in Nat \ {0}, NEW c \in 0 .. (n - 1), NEW j \in 0 .. (n - 1)
    PROVE  /\ (c - j + n) % n = IF j <= c THEN c - j ELSE c - j + n
           /\ (c - j + n) % n \in 0 .. (n - 1)
           /\ (c + 1) % n = IF c + 1 < n THEN c + 1 ELSE 0
           /\ (c + 1) % n \in 0 .. (n - 1)
<1>1. (c - j + n) % n = IF c - j + n < n THEN c - j + n ELSE c - j + n - n
  <2>1. PICK x \in 0 .. (2 * n - 1) : x = c - j + n
    OBVIOUS
  <2>2. x % n = IF x < n THEN x ELSE x - n
    BY WrapOnce
  <2> QED BY <2>1, <2>2
<1>2. (c + 1) % n = IF c + 1 < n THEN c + 1 ELSE c + 1 - n
  <2>1. PICK x \in 0 .. (2 * n - 1) : x = c + 1
    OBVIOUS
  <2>2. x % n = IF x < n THEN x ELSE x - n
    BY WrapOnce
  <2> QED BY <2>1, <2>2
<1> QED BY <1>1, <1>2

\* The tick in which an entry was counted bounds its stamp on both sides.
TimedHit(x, k, l) ==
    /\ x.tick <= k
    /\ x.at >= x.tick * Slot + Offset - MaxDelay
    /\ l = "running" => x.at <= (x.tick + 1) * Slot + Offset + MaxDelay

HitsTimed ==
    \A r \in ThresholdRules : \A i \in DOMAIN hits[r] : TimedHit(hits[r][i], ticks, loop)

LEMMA HitsTimedNext == Types /\ Clock /\ HitsTimed /\ [Next]_vars => HitsTimed'
<1> SUFFICES ASSUME Types, Clock, HitsTimed, [Next]_vars,
                    NEW r \in ThresholdRules, NEW i \in DOMAIN hits'[r]
             PROVE  TimedHit(hits'[r][i], ticks', loop')
  BY DEF HitsTimed
<1>1. ticks \in Nat /\ hits[r] \in Seq(Hit) /\ now \in Nat
  BY NotifyAssumption DEF Types
<1>2. ASSUME hits'[r] = hits[r], ticks' = ticks \/ ticks' = ticks + 1, loop' = "running" => loop = "running"
      PROVE  TimedHit(hits'[r][i], ticks', loop')
  <2>1. i \in DOMAIN hits[r] /\ hits[r][i] \in Hit
    BY <1>1, <1>2
  <2>2. TimedHit(hits[r][i], ticks, loop) /\ hits[r][i].tick \in Nat
    BY <2>1 DEF HitsTimed, Hit
  <2> QED BY <1>1, <1>2, <2>2 DEF TimedHit
<1>3. ASSUME NEW h \in Handlers, Apply(h), hits'[r] = Append(hits[r], [at |-> pending[h].at, tick |-> ticks]),
             i = Len(hits[r]) + 1
      PROVE  TimedHit(hits'[r][i], ticks', loop')
  <2>1. hits'[r][i] = [at |-> pending[h].at, tick |-> ticks]
    BY <1>1, <1>3
  <2>2. hits'[r][i].at = pending[h].at /\ hits'[r][i].tick = ticks /\ ticks' = ticks /\ loop' = loop
    BY <1>3, <2>1 DEF Apply
  <2>3. /\ pending[h].at \in Nat /\ pending[h].at <= now /\ now - pending[h].at <= MaxDelay
        /\ MaxDelay \in Nat
    BY <1>3, PendingEntry, NotifyAssumption DEF Apply, Clock
  <2>4. PICK from \in Int, to \in Int : from = ticks * Slot + Offset /\ to = (ticks + 1) * Slot + Offset
    BY <1>1, NotifyAssumption DEF Offset
  <2>5. from <= now /\ (loop = "running" => now <= to + MaxDelay)
    <3>1. from <= now
      BY <2>4 DEF Clock
    <3>2. loop = "running" /\ tickAt = 0 => now < to
      BY <2>4 DEF Clock
    <3>3. tickAt # 0 => tickAt = to /\ now - tickAt <= MaxDelay
      BY <2>4 DEF Clock
    <3> QED BY <1>1, <2>3, <3>1, <3>2, <3>3
  <2>6. pending[h].at >= from - MaxDelay /\ (loop = "running" => pending[h].at <= to + MaxDelay)
    BY <1>1, <2>3, <2>4, <2>5
  <2>7. /\ hits'[r][i].tick * Slot + Offset = from
        /\ (hits'[r][i].tick + 1) * Slot + Offset = to
    BY <2>2, <2>4
  <2>8. hits'[r][i].tick <= ticks'
    BY <1>1, <2>2
  <2>9. hits'[r][i].at >= hits'[r][i].tick * Slot + Offset - MaxDelay
    <3>1. Slot \in Nat /\ Offset \in Nat /\ ticks * Slot \in Int
      BY <1>1, NotifyAssumption DEF Offset
    <3> QED BY <1>1, <2>2, <2>3, <2>4, <2>6, <3>1
  <2>10. loop' = "running" => hits'[r][i].at <= (hits'[r][i].tick + 1) * Slot + Offset + MaxDelay
    BY <2>2, <2>6, <2>7
  <2> QED BY <2>8, <2>9, <2>10 DEF TimedHit
<1>4. ASSUME NEW h \in Handlers, Apply(h)
      PROVE  TimedHit(hits'[r][i], ticks', loop')
  <2>1. /\ ticks' = ticks /\ loop' = loop
        /\ hits'[r] = hits[r] \/ hits'[r] = Append(hits[r], [at |-> pending[h].at, tick |-> ticks])
    BY <1>4 DEF Apply
  <2>2. CASE hits'[r] = hits[r]
    BY <1>2, <2>1, <2>2
  <2>3. CASE hits'[r] = Append(hits[r], [at |-> pending[h].at, tick |-> ticks]) /\ i # Len(hits[r]) + 1
    <3>1. i \in DOMAIN hits[r] /\ hits'[r][i] = hits[r][i]
      BY <1>1, <2>3
    <3> QED BY <2>1, <3>1 DEF HitsTimed
  <2> QED BY <1>3, <1>4, <2>1, <2>2, <2>3
<1>5. CASE Tick
  <2>1. hits'[r] = hits[r] \/ hits'[r] = <<>>
    BY <1>5 DEF Tick
  <2>2. hits'[r] # <<>>
    OBVIOUS
  <2> QED BY <1>2, <1>5, <2>1, <2>2 DEF Tick
<1>6. ASSUME NEW u \in Rules, SetRule(u) PROVE hits'[r] = hits[r] /\ ticks' = ticks /\ loop' = loop
  <2>1. hits'[r] = hits[r] \/ hits'[r] = <<>>
    BY <1>6 DEF SetRule
  <2>2. hits'[r] # <<>>
    OBVIOUS
  <2> QED BY <1>6, <2>1, <2>2 DEF SetRule
<1>7. CASE LoopReturns
  BY <1>2, <1>7 DEF LoopReturns
<1>8. CASE UNCHANGED <<hits, ticks, loop>>
  BY <1>2, <1>8
<1> QED BY <1>2, <1>4, <1>5, <1>6, <1>7, <1>8 DEF Next, vars, Ended, Advance, Stamp, SendEnds,
           Close, CloseReturns

\* The matched entries of s that were applied k ticks before tick t, and the
\* claim of RingExact for one rule q and the entries s.
Old(s, t, k) == {i \in DOMAIN s : t - s[i].tick = k}

RingOf(q, s, t, n) ==
    \A j \in 0 .. (n - 1) : q.buckets[(q.cur - j + n) % n] = Cardinality(Old(s, t, j))

LEMMA OldFinite ==
    ASSUME NEW s \in Seq(Hit), NEW t, NEW k
    PROVE  IsFiniteSet(Old(s, t, k)) /\ Cardinality(Old(s, t, k)) \in Nat
<1>1. IsFiniteSet(1 .. Len(s)) /\ Old(s, t, k) \in SUBSET (1 .. Len(s))
  BY FS_Interval DEF Old
<1> QED BY <1>1, FS_Subset, FS_CardinalityType

\* A matched entry joins the entries of this tick.
LEMMA OldAppend ==
    ASSUME NEW s \in Seq(Hit), NEW t \in Nat, NEW x \in Hit, x.tick = t, NEW k \in Nat
    PROVE  Cardinality(Old(Append(s, x), t, k))
              = IF k = 0 THEN Cardinality(Old(s, t, k)) + 1 ELSE Cardinality(Old(s, t, k))
<1> DEFINE m == Len(s) + 1
<1>1. /\ DOMAIN s = 1 .. Len(s) /\ DOMAIN Append(s, x) = 1 .. m /\ Len(s) \in Nat
      /\ Append(s, x)[m] = x /\ \A i \in 1 .. Len(s) : Append(s, x)[i] = s[i]
  OBVIOUS
<1>2. m \notin Old(s, t, k) /\ IsFiniteSet(Old(s, t, k))
  <2>1. m \notin 1 .. Len(s)
    BY <1>1
  <2>2. m \notin Old(s, t, k)
    BY <1>1, <2>1 DEF Old
  <2> QED BY <2>2, OldFinite
<1>3. CASE k = 0
  <2>1. Old(Append(s, x), t, k) = Old(s, t, k) \cup {m}
    <3> HIDE DEF m
    <3>1. ASSUME NEW i PROVE i \in Old(Append(s, x), t, k) <=> i \in Old(s, t, k) \/ i = m
      <4>1. i \in 1 .. m <=> i \in 1 .. Len(s) \/ i = m
        BY <1>1 DEF m
      <4> QED BY <1>1, <1>3, <4>1 DEF Old, Hit
    <3> QED BY <3>1
  <2> HIDE DEF m
  <2> QED BY <1>2, <1>3, <2>1, FS_AddElement
<1>4. CASE k # 0
  <2>1. Old(Append(s, x), t, k) = Old(s, t, k)
    <3> HIDE DEF m
    <3>1. ASSUME NEW i PROVE i \in Old(Append(s, x), t, k) <=> i \in Old(s, t, k)
      <4>1. i \in 1 .. m <=> i \in 1 .. Len(s) \/ i = m
        BY <1>1 DEF m
      <4>2. t - x.tick # k
        BY <1>4
      <4> QED BY <1>1, <4>1, <4>2 DEF Old
    <3> QED BY <3>1
  <2> QED BY <1>4, <2>1
<1> QED BY <1>3, <1>4

LEMMA RingObserved ==
    ASSUME NEW r \in ThresholdRules, NEW q, Typed(r, q), NEW e, e.at \in Nat,
           NEW s \in Seq(Hit), NEW t \in Nat, RingOf(q, s, t, Slots(r)),
           NEW x \in Hit, x.tick = t
    PROVE  RingOf(Observed(q, e), Append(s, x), t, Slots(r))
<1> DEFINE p == Observed(q, e)  n == Slots(r)
<1>1. r \in Rules /\ n \in Nat \ {0} /\ Buckets(r) = 0 .. (n - 1)
  BY SlotsType DEF Rules
<1>2. /\ p.buckets = [q.buckets EXCEPT ![q.cur] = q.buckets[q.cur] + 1] /\ p.cur = q.cur
  BY <1>1, ObservedFacts
<1>3. q.cur \in 0 .. (n - 1) /\ q.buckets \in [0 .. (n - 1) -> Nat]
  BY <1>1 DEF Typed, RuleState
<1> HIDE DEF p, n
<1>4. ASSUME NEW j \in 0 .. (n - 1)
      PROVE  p.buckets[(p.cur - j + n) % n] = Cardinality(Old(Append(s, x), t, j))
  <2>1. PICK b \in 0 .. (n - 1) : b = (q.cur - j + n) % n
    BY <1>1, <1>3, RingIndex
  <2>2. b = IF j <= q.cur THEN q.cur - j ELSE q.cur - j + n
    BY <1>1, <1>3, <2>1, RingIndex
  <2>3. b = q.cur <=> j = 0
    BY <1>1, <1>3, <2>2
  <2>4. q.buckets[b] = Cardinality(Old(s, t, j))
    BY <2>1 DEF RingOf, n
  <2>5. p.buckets[b] = IF j = 0 THEN q.buckets[b] + 1 ELSE q.buckets[b]
    BY <1>2, <1>3, <2>3
  <2>6. Cardinality(Old(Append(s, x), t, j))
           = IF j = 0 THEN Cardinality(Old(s, t, j)) + 1 ELSE Cardinality(Old(s, t, j))
    <3>1. j \in Nat
      BY <1>1
    <3> QED BY <3>1, OldAppend
  <2> QED BY <1>2, <2>1, <2>4, <2>5, <2>6
<1> QED BY <1>4 DEF RingOf, n, p

\* A tick without a fire: what was j ticks ago is now j + 1 ticks ago, and the
\* bucket that falls out of the window becomes the empty one of the new tick.
LEMMA RingRotated ==
    ASSUME NEW n \in Nat \ {0}, NEW q, NEW p, NEW s \in Seq(Hit), NEW t \in Nat,
           \A i \in DOMAIN s : s[i].tick <= t,
           q.cur \in 0 .. (n - 1), q.buckets \in [0 .. (n - 1) -> Nat],
           p.cur = (q.cur + 1) % n, p.buckets = [q.buckets EXCEPT ![(q.cur + 1) % n] = 0],
           RingOf(q, s, t, n)
    PROVE  RingOf(p, s, t + 1, n)
<1>1. PICK c \in 0 .. (n - 1) : c = (q.cur + 1) % n
  BY RingIndex
<1>2. c = IF q.cur + 1 < n THEN q.cur + 1 ELSE 0
  BY <1>1, RingIndex
<1>3. ASSUME NEW i \in DOMAIN s PROVE s[i].tick \in Nat /\ s[i].tick <= t
  <2>1. s[i] \in Hit
    OBVIOUS
  <2> QED BY <2>1 DEF Hit
<1>4. ASSUME NEW j \in 0 .. (n - 1)
      PROVE  p.buckets[(p.cur - j + n) % n] = Cardinality(Old(s, t + 1, j))
  <2>1. PICK b \in 0 .. (n - 1) : b = (c - j + n) % n
    BY RingIndex
  <2>2. b = IF j <= c THEN c - j ELSE c - j + n
    BY <2>1, RingIndex
  <2>3. CASE j = 0
    <3>1. b = c
      BY <2>2, <2>3
    <3>2. Old(s, t + 1, j) = {}
      BY <1>3, <2>3, SMTT(60) DEF Old
    <3> QED BY <1>1, <2>1, <3>1, <3>2, FS_EmptySet
  <2>4. CASE j # 0
    <3>1. PICK k \in 0 .. (n - 1) : k = j - 1
      BY <2>4
    <3>2. PICK a \in 0 .. (n - 1) : a = (q.cur - k + n) % n
      BY RingIndex
    <3>3. a = IF k <= q.cur THEN q.cur - k ELSE q.cur - k + n
      BY <3>2, RingIndex
    <3>4. b = a /\ b # c
      <4>1. q.cur \in Int /\ q.cur >= 0 /\ q.cur <= n - 1
        OBVIOUS
      <4>2. CASE q.cur + 1 < n
        BY <1>2, <2>2, <2>4, <3>1, <3>3, <4>1, <4>2, SMTT(60)
      <4>3. CASE ~(q.cur + 1 < n)
        BY <1>2, <2>2, <2>4, <3>1, <3>3, <4>1, <4>3
      <4> QED BY <4>2, <4>3
    <3>5. q.buckets[a] = Cardinality(Old(s, t, k))
      BY <3>2 DEF RingOf
    <3>6. Old(s, t + 1, j) = Old(s, t, k)
      <4>1. ASSUME NEW i \in DOMAIN s PROVE (t + 1) - s[i].tick = j <=> t - s[i].tick = k
        <5>1. PICK x \in Nat : x = s[i].tick
          BY <1>3
        <5>2. (t + 1) - x = j <=> t - x = k
          BY <3>1
        <5> QED BY <5>1, <5>2
      <4> QED BY <4>1 DEF Old
    <3> QED BY <1>1, <2>1, <3>4, <3>5, <3>6, ZenonT(90)
  <2> QED BY <2>3, <2>4
<1> QED BY <1>4 DEF RingOf

LEMMA RingEmpty ==
    ASSUME NEW n \in Nat \ {0}, NEW q, NEW t, q.cur \in 0 .. (n - 1),
           \A b \in 0 .. (n - 1) : q.buckets[b] = 0
    PROVE  RingOf(q, <<>>, t, n)
<1>1. ASSUME NEW j \in 0 .. (n - 1)
      PROVE  q.buckets[(q.cur - j + n) % n] = Cardinality(Old(<<>>, t, j))
  <2>1. Old(<<>>, t, j) = {} /\ (q.cur - j + n) % n \in 0 .. (n - 1)
    BY RingIndex DEF Old
  <2> QED BY <2>1, FS_EmptySet
<1> QED BY <1>1 DEF RingOf

RingHolds(r) == ~rules[r].disabled => RingOf(rules[r], hits[r], ticks, Slots(r))

LEMMA RingExactOf == RingExact <=> \A r \in ThresholdRules : RingHolds(r)
BY DEF RingExact, RingHolds, RingOf, Old, Ago, Buckets

LEMMA FreshRing ==
    ASSUME NEW r \in ThresholdRules, NEW t
    PROVE  RingOf(FreshRule(r), <<>>, t, Slots(r))
<1>1. r \in Rules /\ Slots(r) \in Nat \ {0} /\ Buckets(r) = 0 .. (Slots(r) - 1)
  BY SlotsType DEF Rules
<1>2. FreshRule(r).cur = 0 /\ FreshRule(r).buckets = [b \in Buckets(r) |-> 0]
  BY DEF FreshRule
<1>3. FreshRule(r).cur \in 0 .. (Slots(r) - 1)
  BY <1>1, <1>2
<1>4. \A b \in 0 .. (Slots(r) - 1) : FreshRule(r).buckets[b] = 0
  BY <1>1, <1>2
<1> QED BY <1>1, <1>3, <1>4, RingEmpty

LEMMA RingInit == Init => RingExact /\ HitsTimed
<1> SUFFICES ASSUME Init PROVE RingExact /\ HitsTimed
  OBVIOUS
<1>1. ASSUME NEW r \in ThresholdRules PROVE rules[r] = FreshRule(r) /\ hits[r] = <<>>
  BY DEF Init, Rules
<1>2. HitsTimed
  BY <1>1 DEF HitsTimed
<1>3. ASSUME NEW r \in ThresholdRules PROVE RingHolds(r)
  BY <1>1, FreshRing DEF RingHolds
<1> QED BY <1>2, <1>3, RingExactOf

LEMMA RingTick ==
    ASSUME Types, Clock, HitsTimed, Tick, NEW r \in ThresholdRules, RingHolds(r)
    PROVE  RingHolds(r)'
<1> DEFINE q == rules[r]  p == rules'[r]  n == Slots(r)
<1>1. /\ r \in Rules /\ n \in Nat \ {0} /\ Buckets(r) = 0 .. (n - 1) /\ Typed(r, q)
      /\ tickAt \in Nat /\ ticks \in Nat /\ hits[r] \in Seq(Hit)
  BY SlotsType, NotifyAssumption DEF Rules, Types
<1>2. p = Evaluated(r, tickAt) /\ ticks' = ticks + 1
      /\ hits'[r] = IF Fires(r, tickAt) THEN <<>> ELSE hits[r]
  BY <1>1 DEF Tick
<1>3. CASE q.disabled
  BY <1>2, <1>3 DEF Evaluated, RingHolds
<1>4. CASE ~q.disabled
  <2>1. p = EvaluatedThreshold(r, tickAt)
    BY <1>2, <1>4 DEF Evaluated
  <2>2. /\ Typed(r, p)
        /\ Fires(r, tickAt) => \A b \in Buckets(r) : p.buckets[b] = 0
        /\ ~Fires(r, tickAt) =>
              /\ p.cur = (q.cur + 1) % n
              /\ p.buckets = [q.buckets EXCEPT ![(q.cur + 1) % n] = 0]
    BY <1>1, <2>1, EvaluatedThresholdFacts
  <2>3. p.cur \in 0 .. (n - 1) /\ q.cur \in 0 .. (n - 1) /\ q.buckets \in [0 .. (n - 1) -> Nat]
    BY <1>1, <2>2 DEF Typed, RuleState
  <2>4. RingOf(q, hits[r], ticks, n)
    BY <1>4 DEF RingHolds
  <2> HIDE DEF p, q, n
  <2>5. CASE Fires(r, tickAt)
    <3>1. RingOf(p, <<>>, ticks', n)
      BY <1>1, <2>2, <2>3, <2>5, RingEmpty
    <3> QED BY <1>2, <2>5, <3>1 DEF RingHolds, p, n
  <2>6. CASE ~Fires(r, tickAt)
    <3>1. \A i \in DOMAIN hits[r] : hits[r][i].tick <= ticks
      BY DEF HitsTimed, TimedHit
    <3>2. RingOf(p, hits[r], ticks + 1, n)
      BY <1>1, <2>2, <2>3, <2>4, <2>6, <3>1, RingRotated
    <3> QED BY <1>2, <2>6, <3>2 DEF RingHolds, p, n
  <2> QED BY <2>5, <2>6
<1> QED BY <1>3, <1>4

LEMMA RingNext == Types /\ Clock /\ HitsTimed /\ RingExact /\ [Next]_vars => RingExact'
<1> SUFFICES ASSUME Types, Clock, HitsTimed, [Next]_vars, NEW r \in ThresholdRules, RingHolds(r)
             PROVE  RingHolds(r)'
  <2>1. RingExact' <=> \A r \in ThresholdRules : RingHolds(r)'
    BY DEF RingExact, RingHolds, RingOf, Old, Ago, Buckets
  <2> QED BY <2>1, RingExactOf
<1>1. /\ r \in Rules /\ Typed(r, rules[r]) /\ ticks \in Nat /\ hits[r] \in Seq(Hit) /\ DOMAIN rules = Rules
  BY DEF Rules, Types
<1>2. ASSUME NEW h \in Handlers, Apply(h) PROVE RingHolds(r)'
  <2> DEFINE x == [at |-> pending[h].at, tick |-> ticks]
  <2>1. pending[h].at \in Nat /\ ticks' = ticks
    BY <1>2, PendingEntry DEF Apply
  <2>2. CASE Counts(r, pending[h])
    <3>1. /\ rules'[r] = Observed(rules[r], pending[h]) /\ hits'[r] = Append(hits[r], x)
          /\ ~rules[r].disabled
      BY <1>1, <1>2, <2>2 DEF Apply, Counts
    <3>2. x \in Hit /\ x.tick = ticks /\ RingOf(rules[r], hits[r], ticks, Slots(r))
      BY <1>1, <2>1, <3>1 DEF Hit, RingHolds
    <3>3. RingOf(Observed(rules[r], pending[h]), Append(hits[r], x), ticks, Slots(r))
      <4> HIDE DEF x
      <4> QED BY <1>1, <2>1, <3>2, RingObserved
    <3> QED BY <2>1, <3>1, <3>3 DEF RingHolds
  <2>3. CASE ~Counts(r, pending[h])
    BY <1>1, <1>2, <2>1, <2>3 DEF Apply, RingHolds
  <2> QED BY <2>2, <2>3
<1>3. ASSUME NEW u \in Rules, SetRule(u) PROVE RingHolds(r)'
  <2>1. CASE u = r
    <3>1. rules'[r] = FreshRule(r) /\ hits'[r] = <<>>
      BY <1>1, <1>3, <2>1 DEF SetRule
    <3> QED BY <3>1, FreshRing DEF RingHolds
  <2>2. CASE u # r
    BY <1>1, <1>3, <2>2 DEF SetRule, RingHolds
  <2> QED BY <2>1, <2>2
<1>4. CASE Tick
  BY <1>4, RingTick
<1>5. CASE UNCHANGED <<rules, hits, ticks>>
  BY <1>5 DEF RingHolds
<1> QED BY <1>2, <1>3, <1>4, <1>5 DEF Next, vars, Ended, Advance, Stamp, SendEnds, Close, LoopReturns,
           CloseReturns

LEMMA RingInvariance == Spec => [](BaseInv /\ HitsTimed /\ RingExact)
<1>1. BaseInv /\ HitsTimed /\ RingExact /\ [Next]_vars => HitsTimed' /\ RingExact'
  BY HitsTimedNext, RingNext DEF BaseInv
<1> QED BY <1>1, Invariance, RingInit, PTL DEF Spec

\* The ring of buckets that observe fills and tick rotates is exact at all times:
\* the bucket j places behind cur holds the entries applied j ticks ago.
THEOREM RingExactHolds == Spec => []RingExact
BY RingInvariance, PTL

-----------------------------------------------------------------------------
(* Threshold rules *)

\* The recursive function of BucketSum, by the equation that defines it.
Adds(f, q, n) == f = [i \in 0 .. n |-> IF i = 0 THEN 0 ELSE f[i - 1] + q.buckets[i - 1]]

LEMMA BucketSumChosen ==
    ASSUME NEW q, NEW n, n = Cardinality(DOMAIN q.buckets), NEW g, Adds(g, q, n)
    PROVE  \E f : Adds(f, q, n) /\ BucketSum(q) = f[n]
<1> DEFINE f == CHOOSE h : Adds(h, q, n)
<1>1. Adds(f, q, n)
  <2>1. \E h : Adds(h, q, n)
    BY Zenon
  <2> QED BY <2>1, Zenon
<1>2. BucketSum(q) = f[n]
  BY Zenon DEF BucketSum, Adds
<1> QED BY <1>1, <1>2, Zenon

\* The equation has one solution, so any solution at hand gives the sum.
LEMMA BucketSumIs ==
    ASSUME NEW q, NEW n \in Nat, n = Cardinality(DOMAIN q.buckets), NEW g, Adds(g, q, n)
    PROVE  BucketSum(q) = g[n]
<1>1. PICK f : Adds(f, q, n) /\ BucketSum(q) = f[n]
  BY BucketSumChosen
<1>2. /\ f[0] = 0 /\ g[0] = 0
      /\ \A i \in 1 .. n : f[i] = f[i - 1] + q.buckets[i - 1] /\ g[i] = g[i - 1] + q.buckets[i - 1]
  BY <1>1 DEF Adds
<1>3. ASSUME NEW m \in 0 .. n, f[m] # g[m] PROVE FALSE
  <2> DEFINE T == {i \in 0 .. n : f[i] # g[i]}
  <2>1. T \in SUBSET Nat /\ T # {}
    BY <1>3
  <2>2. PICK x \in T : \A y \in T : x <= y
    BY <2>1, SmallestNumber
  <2>3. x \in 1 .. n /\ f[x] # g[x]
    BY <1>2, <2>2
  <2>4. x - 1 \in 0 .. n /\ x - 1 \notin T
    BY <2>2, <2>3
  <2>5. f[x - 1] = g[x - 1]
    BY <2>4
  <2> QED BY <1>2, <2>3, <2>5
<1> QED BY <1>1, <1>3

LEMMA RingInverse ==
    ASSUME NEW n \in Nat \ {0}, NEW c \in 0 .. (n - 1), NEW j \in 0 .. (n - 1), NEW b \in 0 .. (n - 1)
    PROVE  (c - j + n) % n = b <=> j = (c - b + n) % n
<1>1. (c - j + n) % n = IF j <= c THEN c - j ELSE c - j + n
  BY RingIndex
<1>2. (c - b + n) % n = IF b <= c THEN c - b ELSE c - b + n
  BY RingIndex
<1> QED BY <1>1, <1>2

\* The buckets add up to the entries of the last n ticks: the partial sums count
\* the entries whose bucket lies below the index.
LEMMA RingSum ==
    ASSUME NEW n \in Nat \ {0}, NEW q, NEW s \in Seq(Hit), NEW t \in Nat,
           \A i \in DOMAIN s : s[i].tick <= t,
           q.cur \in 0 .. (n - 1), q.buckets \in [0 .. (n - 1) -> Nat], RingOf(q, s, t, n)
    PROVE  BucketSum(q) = Cardinality({i \in DOMAIN s : t - s[i].tick < n})
<1> DEFINE Age(i) == t - s[i].tick
           Place(j) == (q.cur - j + n) % n
           Below(m) == {i \in DOMAIN s : Age(i) < n /\ Place(Age(i)) < m}
           g == [m \in 0 .. n |-> Cardinality(Below(m))]
<1>1. ASSUME NEW i \in DOMAIN s PROVE Age(i) \in Nat
  <2>1. s[i] \in Hit
    OBVIOUS
  <2>2. s[i].tick \in Nat /\ s[i].tick <= t
    BY <2>1 DEF Hit
  <2> QED BY <2>2
<1>2. ASSUME NEW j \in 0 .. (n - 1) PROVE Place(j) \in 0 .. (n - 1)
  BY RingIndex
<1>3. ASSUME NEW i \in DOMAIN s, Age(i) < n PROVE Age(i) \in 0 .. (n - 1) /\ Place(Age(i)) \in 0 .. (n - 1)
  <2>1. Age(i) \in 0 .. (n - 1)
    BY <1>1, <1>3
  <2> HIDE DEF Age, Place
  <2> QED BY <1>2, <2>1
<1>4. \A j, b \in 0 .. (n - 1) : Place(j) = b <=> j = Place(b)
  BY RingInverse, ZenonT(60)
<1>5. \A j \in 0 .. (n - 1) : q.buckets[Place(j)] = Cardinality(Old(s, t, j))
  BY DEF RingOf
<1>6. \A j : Old(s, t, j) = {i \in DOMAIN s : Age(i) = j}
  BY DEF Old
<1>7. IsFiniteSet(DOMAIN s)
  <2>1. DOMAIN s = 1 .. Len(s) /\ Len(s) \in Nat
    OBVIOUS
  <2> QED BY <2>1, FS_Interval
<1> HIDE DEF Age, Place
<1>8. ASSUME NEW m PROVE IsFiniteSet(Below(m)) /\ Cardinality(Below(m)) \in Nat
  <2>1. Below(m) \in SUBSET DOMAIN s
    OBVIOUS
  <2> HIDE DEF Below
  <2> QED BY <1>7, <2>1, FS_Subset, FS_CardinalityType
<1>9. Below(0) = {}
  BY <1>3
<1>10. ASSUME NEW m \in 1 .. n
       PROVE  Cardinality(Below(m)) = Cardinality(Below(m - 1)) + q.buckets[m - 1]
  <2>1. PICK b \in 0 .. (n - 1) : b = m - 1
    OBVIOUS
  <2>2. PICK j \in 0 .. (n - 1) : j = Place(b)
    BY <1>2
  <2>3. q.buckets[b] = Cardinality(Old(s, t, j))
    BY <1>4, <1>5, <2>2
  <2>4. ASSUME NEW i \in DOMAIN s
        PROVE  i \in Below(m) <=> i \in Below(b) \/ i \in Old(s, t, j)
    <3>1. CASE Age(i) < n
      <4>1. Place(Age(i)) < m <=> Place(Age(i)) < b \/ Place(Age(i)) = b
        <5>1. PICK x \in 0 .. (n - 1) : x = Place(Age(i))
          BY <1>3, <3>1
        <5>2. x < m <=> x < b \/ x = b
          BY <2>1
        <5> QED BY <5>1, <5>2
      <4>2. Place(Age(i)) = b <=> Age(i) = j
        BY <1>3, <1>4, <2>2, <3>1
      <4> QED BY <1>6, <3>1, <4>1, <4>2
    <3>2. CASE ~(Age(i) < n)
      BY <1>1, <1>6, <3>2
    <3> QED BY <3>1, <3>2
  <2>5. Below(m) = Below(b) \cup Old(s, t, j)
    BY <1>6, <2>4
  <2>6. Below(b) \cap Old(s, t, j) = {}
    <3>1. ASSUME NEW i \in Below(b), i \in Old(s, t, j) PROVE FALSE
      <4>1. Age(i) = j /\ Place(j) < b
        BY <1>6, <3>1
      <4>2. Place(j) = b
        BY <1>4, <2>2
      <4> QED BY <4>1, <4>2
    <3> QED BY <3>1
  <2>7. IsFiniteSet(Below(b)) /\ IsFiniteSet(Old(s, t, j)) /\ Cardinality(Old(s, t, j)) \in Nat
        /\ Cardinality(Below(b)) \in Nat
    BY <1>8, OldFinite
  <2> HIDE DEF Below
  <2>8. Cardinality(Below(m)) = Cardinality(Below(b)) + Cardinality(Old(s, t, j)) - Cardinality({})
    BY <2>5, <2>6, <2>7, FS_Union
  <2> QED BY <2>1, <2>3, <2>7, <2>8, FS_EmptySet
<1>11. Below(n) = {i \in DOMAIN s : Age(i) < n}
  BY <1>3
<1> HIDE DEF Below
<1>12. Adds(g, q, n)
  <2>1. ASSUME NEW m \in 0 .. n
        PROVE  g[m] = IF m = 0 THEN 0 ELSE g[m - 1] + q.buckets[m - 1]
    <3>1. CASE m = 0
      BY <1>9, <3>1, FS_EmptySet
    <3>2. CASE m # 0
      <4>1. m \in 1 .. n /\ m - 1 \in 0 .. n
        BY <3>2
      <4> QED BY <1>10, <3>2, <4>1
    <3> QED BY <3>1, <3>2
  <2> QED BY <2>1 DEF Adds
<1>13. n \in Nat /\ n = Cardinality(DOMAIN q.buckets)
  <2>1. DOMAIN q.buckets = 0 .. (n - 1) /\ 0 \in Int /\ n - 1 \in Int /\ ~(0 > n - 1)
    OBVIOUS
  <2>2. Cardinality(0 .. (n - 1)) = (n - 1) - 0 + 1
    BY <2>1, FS_Interval
  <2> QED BY <2>1, <2>2
<1>14. BucketSum(q) = g[n]
  <2> HIDE DEF g
  <2> QED BY <1>12, <1>13, BucketSumIs
<1>15. g[n] = Cardinality(Below(n))
  OBVIOUS
<1> QED BY <1>11, <1>14, <1>15 DEF Age

\* The sum lies between the entries stamped in the window less a delay and the
\* entries stamped in the window and a delay more.
LEMMA SumBounds ==
    ASSUME Types, Clock, HitsTimed, NEW r \in ThresholdRules, RingHolds(r), ~rules[r].disabled,
           tickAt # 0
    PROVE  /\ BucketSum(rules[r]) \in Nat
           /\ BucketSum(rules[r]) <= StampedFrom(r, tickAt - Slots(r) * Slot - MaxDelay)
           /\ StampedFrom(r, tickAt - Slots(r) * Slot + MaxDelay + 1) <= BucketSum(rules[r])
           /\ \A t : StampedFrom(r, t) \in Nat
<1> DEFINE q == rules[r]  n == Slots(r)  s == hits[r]
           A == {i \in DOMAIN s : ticks - s[i].tick < n}
           F(t) == {i \in DOMAIN s : s[i].at >= t}
<1>1. /\ r \in Rules /\ n \in Nat \ {0} /\ Buckets(r) = 0 .. (n - 1) /\ Typed(r, q)
      /\ ticks \in Nat /\ s \in Seq(Hit) /\ Offset \in Nat
      /\ Slot \in Nat \ {0} /\ MaxDelay \in Nat
  BY SlotsType, NotifyAssumption DEF Rules, Types, Offset
<1>2. q.cur \in 0 .. (n - 1) /\ q.buckets \in [0 .. (n - 1) -> Nat]
  BY <1>1 DEF Typed, RuleState
<1>3. tickAt = (ticks + 1) * Slot + Offset /\ loop = "running"
  BY DEF Clock
<1>4. PICK w \in Int, T \in Int : w = n * Slot /\ T = (ticks + 1) * Slot /\ tickAt = T + Offset
  BY <1>1, <1>3
<1>5. IsFiniteSet(DOMAIN s)
  <2>1. DOMAIN s = 1 .. Len(s) /\ Len(s) \in Nat
    BY <1>1
  <2>2. IsFiniteSet(1 .. Len(s))
    <3> HIDE DEF s
    <3> QED BY <2>1, FS_Interval
  <2> QED BY <2>1, <2>2
<1>6. ASSUME NEW i \in DOMAIN s
      PROVE  /\ s[i].at \in Nat /\ s[i].tick \in Nat /\ s[i].tick <= ticks
             /\ s[i].at >= s[i].tick * Slot + Offset - MaxDelay
             /\ s[i].at <= (s[i].tick + 1) * Slot + Offset + MaxDelay
  <2>1. s[i] \in Hit
    BY <1>1
  <2> QED BY <1>3, <2>1 DEF Hit, HitsTimed, TimedHit
<1>7. BucketSum(q) = Cardinality(A)
  <2>1. RingOf(q, s, ticks, n)
    BY DEF RingHolds
  <2>2. \A i \in DOMAIN s : s[i].tick <= ticks
    BY <1>6
  <2> HIDE DEF q, s, n
  <2> QED BY <1>1, <1>2, <2>1, <2>2, RingSum, SMTT(60)
<1>8. \A t : StampedFrom(r, t) = Cardinality(F(t))
  BY DEF StampedFrom
<1>9. IsFiniteSet(A) /\ \A t : IsFiniteSet(F(t))
  <2>1. A \in SUBSET DOMAIN s /\ \A t : F(t) \in SUBSET DOMAIN s
    OBVIOUS
  <2> HIDE DEF A, F
  <2> QED BY <1>5, <2>1, FS_Subset
<1>10. A \subseteq F(tickAt - n * Slot - MaxDelay)
  <2>1. ASSUME NEW i \in DOMAIN s, ticks - s[i].tick < n PROVE s[i].at >= tickAt - n * Slot - MaxDelay
    <3>1. PICK k \in Nat, y \in Nat : k = s[i].tick /\ y = s[i].at
      BY <1>6
    <3>2. PICK z \in Int : z = k * Slot
      BY <1>1
    <3>3. y >= z + Offset - MaxDelay
      BY <1>6, <3>1, <3>2
    <3>4. (ticks + 1) - n <= k
      BY <1>1, <2>1, <3>1
    <3>5. T - w <= z
      <4>1. ((ticks + 1) - n) * Slot <= k * Slot
        BY <1>1, <3>4, Times, SMTT(60)
      <4>2. ((ticks + 1) - n) * Slot = (ticks + 1) * Slot - n * Slot
        BY <1>1, Times
      <4> QED BY <1>4, <3>2, <4>1, <4>2
    <3>6. y >= (T + Offset) - w - MaxDelay
      BY <1>1, <1>4, <3>3, <3>5, SMTT(60)
    <3> QED BY <1>4, <3>1, <3>6
  <2> QED BY <2>1
<1>11. F(tickAt - n * Slot + MaxDelay + 1) \subseteq A
  <2>1. ASSUME NEW i \in DOMAIN s, s[i].at >= tickAt - n * Slot + MaxDelay + 1
        PROVE  ticks - s[i].tick < n
    <3>1. PICK k \in Nat, y \in Nat : k = s[i].tick /\ y = s[i].at
      BY <1>6
    <3>2. PICK z \in Int : z = (k + 1) * Slot
      BY <1>1
    <3>3. y <= z + Offset + MaxDelay
      BY <1>6, <3>1, <3>2
    <3>4. y >= ((T + Offset) - w) + MaxDelay + 1
      BY <1>4, <2>1, <3>1
    <3>5. T - w < z
      BY <1>1, <1>4, <3>3, <3>4, SMTT(60)
    <3>6. ASSUME k + 1 <= (ticks + 1) - n PROVE FALSE
      <4>1. (k + 1) * Slot <= ((ticks + 1) - n) * Slot
        <5>1. PICK u \in Int, v \in Int : u = k + 1 /\ v = (ticks + 1) - n
          BY <1>1
        <5>2. u * Slot <= v * Slot
          BY <1>1, <3>6, <5>1, Times
        <5> QED BY <5>1, <5>2
      <4>2. ((ticks + 1) - n) * Slot = (ticks + 1) * Slot - n * Slot
        BY <1>1, Times
      <4> QED BY <1>4, <3>2, <3>5, <4>1, <4>2
    <3> QED BY <1>1, <3>1, <3>6, SMTT(60)
  <2> QED BY <2>1
<1> HIDE DEF A, F
<1>12. \A t : Cardinality(F(t)) \in Nat
  BY <1>9, FS_CardinalityType
<1>13. Cardinality(A) \in Nat /\ Cardinality(A) <= Cardinality(F(tickAt - n * Slot - MaxDelay))
  BY <1>9, <1>10, FS_Subset, FS_CardinalityType
<1>14. Cardinality(F(tickAt - n * Slot + MaxDelay + 1)) <= Cardinality(A)
  BY <1>9, <1>11, FS_Subset
<1> QED BY <1>7, <1>8, <1>12, <1>13, <1>14

\* A threshold event of Engine.tick is never spurious and never missed: against
\* the entries stamped in the slots of the window it errs by MaxDelay at most.
THEOREM ThresholdExactHolds == Spec => ThresholdExact
<1>1. BaseInv /\ HitsTimed /\ RingExact /\ [Next]_vars =>
         [\A r \in ThresholdRules : ~Spurious(r) /\ ~Missed(r)]_vars
  <2> SUFFICES ASSUME Types, Clock, HitsTimed, RingExact, [Next]_vars, NEW r \in ThresholdRules
               PROVE  ~Spurious(r) /\ ~Missed(r)
    BY DEF BaseInv
  <2> DEFINE q == rules[r]  p == rules'[r]
  <2>1. /\ r \in Rules /\ Typed(r, q) /\ q.fires \in Nat /\ RingHolds(r) /\ Threshold[r] \in Nat
        /\ DOMAIN rules = Rules /\ tickAt \in Nat /\ ticks \in Nat
    BY RingExactOf, NotifyAssumption DEF Rules, Types, Typed, RuleState
  <2>2. CASE Tick
    <3>1. p = Evaluated(r, tickAt) /\ tickAt # 0
      BY <2>1, <2>2 DEF Tick
    <3>2. CASE q.disabled
      BY <2>1, <3>1, <3>2 DEF Evaluated, Spurious, Missed
    <3>3. CASE ~q.disabled
      <4>1. p = EvaluatedThreshold(r, tickAt)
        BY <3>1, <3>3 DEF Evaluated
      <4>2. p.fires = IF Fires(r, tickAt) THEN q.fires + 1 ELSE q.fires
        <5>1. /\ Fires(r, tickAt) => EvaluatedThreshold(r, tickAt).fires = q.fires + 1
              /\ ~Fires(r, tickAt) => EvaluatedThreshold(r, tickAt).fires = q.fires
          BY <2>1, EvaluatedThresholdFacts
        <5> QED BY <4>1, <5>1
      <4>3. Fires(r, tickAt) <=> BucketSum(q) >= Threshold[r] /\ Cooled(r, q, tickAt)
        BY <3>3 DEF Fires, ThresholdFires
      <4>4. /\ BucketSum(q) \in Nat
            /\ BucketSum(q) <= StampedFrom(r, tickAt - Slots(r) * Slot - MaxDelay)
            /\ StampedFrom(r, tickAt - Slots(r) * Slot + MaxDelay + 1) <= BucketSum(q)
            /\ \A t : StampedFrom(r, t) \in Nat
        BY <2>1, <3>1, <3>3, SumBounds
      <4> HIDE DEF p, q
      <4>5. ~Spurious(r)
        BY <2>1, <4>2, <4>3, <4>4 DEF Spurious, p, q
      <4>6. ~Missed(r)
        BY <2>1, <4>2, <4>3, <4>4 DEF Missed, p, q
      <4> QED BY <4>5, <4>6
    <3> QED BY <3>2, <3>3
  <2>3. ASSUME ~Tick PROVE ticks' = ticks /\ (p.fires = q.fires \/ p.fires = 0)
    <3>1. ASSUME NEW h \in Handlers, Apply(h) PROVE ticks' = ticks /\ p.fires = q.fires
      <4>1. pending[h].at \in Nat /\ ticks' = ticks
        BY <3>1, PendingEntry DEF Apply
      <4>2. Observed(q, pending[h]).fires = q.fires
        BY <2>1 DEF Observed, Typed, RuleState
      <4> QED BY <2>1, <3>1, <4>1, <4>2 DEF Apply
    <3>2. ASSUME NEW u \in Rules, SetRule(u) PROVE ticks' = ticks /\ (p.fires = q.fires \/ p.fires = 0)
      <4>1. p = q \/ p = FreshRule(r)
        BY <2>1, <3>2 DEF SetRule
      <4>2. FreshRule(r).fires = 0
        BY DEF FreshRule
      <4> QED BY <3>2, <4>1, <4>2 DEF SetRule
    <3> QED BY <2>3, <3>1, <3>2 DEF Next, vars, Ended, Advance, Stamp, SendEnds, Close,
               LoopReturns, CloseReturns
  <2>4. CASE ~Tick
    BY <2>1, <2>3, <2>4 DEF Spurious, Missed
  <2> QED BY <2>2, <2>4
<1> QED BY <1>1, RingInvariance, PTL DEF Spec, ThresholdExact
=============================================================================
