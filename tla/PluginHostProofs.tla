-------------------------- MODULE PluginHostProofs --------------------------
(* Theorems about plugin supervision, for any number of plugins and faults. *)
EXTENDS PluginHost, FiniteSetTheorems, TLAPS

\* Where a goroutine is tells what it owns: a connection is published only by
\* the run of a pipe that is served or is being taken down, and a goroutine
\* between two runs has nothing.
Owned ==
    \A p \in Plugins :
        /\ client[p] => p \in Pipes /\ at[p] \in {"serve", "unpublish"}
        /\ at[p] = "configure" => p \in Pipes
        /\ at[p] \in {"launch", "exited", "wait", "returned"} => child[p] = "none"
        /\ strays[p] = 0

\* wg.Wait has returned, so every goroutine has, and it stays there.
AllReturned == closeReturned => \A p \in Plugins : at[p] = "returned"

IInv == TypeOK /\ Owned /\ AllReturned

\* The initial state satisfies the invariant.
LEMMA InitHolds == Init => IInv
<1> SUFFICES ASSUME Init PROVE IInv
  OBVIOUS
<1>1. BackoffMin \in BackoffMin .. BackoffMax /\ 0 \in 0 .. MaxFaults
  BY PluginAssumption
<1>2. TypeOK
  BY <1>1 DEF Init, TypeOK, Places
<1>3. Owned /\ AllReturned
  BY DEF Init, Owned, AllReturned
<1> QED BY <1>2, <1>3 DEF IInv

\* A step of the goroutine of p preserves the invariant; only Reap and Launch
\* touch the process, only SetUp and Unpublish the connection.
LEMMA SuperviseHolds ==
  ASSUME IInv, NEW p \in Plugins, Supervise(p)
  PROVE  IInv'
<1> USE PluginAssumption DEF IInv
<1>1. CASE Launch(p)
  BY <1>1 DEF Launch, Go, TypeOK, Owned, AllReturned, Places
<1>2. CASE LaunchFails(p)
  BY <1>2 DEF LaunchFails, Fails, Go, TypeOK, Owned, AllReturned, Places
<1>3. CASE SetUp(p)
  <2>1. TypeOK'
    <3>1. CASE at[p] = "handshake"
      BY <1>3, <3>1 DEF SetUp, Go, TypeOK, Places
    <3>2. CASE at[p] = "describe"
      BY <1>3, <3>2 DEF SetUp, Go, TypeOK, Places
    <3>3. CASE at[p] = "configure"
      <4>1. at' = [at EXCEPT ![p] = "serve"]
        BY <1>3, <3>3 DEF SetUp, Go
      <4>2. client' \in [Plugins -> BOOLEAN]
        <5>1. client' = [client EXCEPT ![p] = TRUE]
          BY <1>3, <3>3 DEF SetUp
        <5>2. client \in [Plugins -> BOOLEAN]
          BY DEF TypeOK
        <5> QED BY <5>1, <5>2, Zenon
      <4>3. at' \in [Plugins -> Places]
        BY <4>1 DEF TypeOK, Places
      <4>4. UNCHANGED <<child, strays, backoff, shorts, cancelled, closeReturned, faults>>
        BY <1>3 DEF SetUp
      <4> QED BY <4>2, <4>3, <4>4 DEF TypeOK
    <3> QED BY <1>3, <3>1, <3>2, <3>3 DEF SetUp
  <2>2. Owned'
    <3>1. CASE at[p] = "configure"
      BY <1>3, <3>1 DEF SetUp, Go, TypeOK, Owned, Plugins
    <3>2. CASE at[p] # "configure"
      BY <1>3, <3>2 DEF SetUp, Go, TypeOK, Owned, Plugins
    <3> QED BY <3>1, <3>2
  <2>3. AllReturned'
    BY <1>3 DEF SetUp, Go, TypeOK, AllReturned
  <2> QED BY <2>1, <2>2, <2>3
<1>4. CASE SetUpFails(p)
  BY <1>4 DEF SetUpFails, Fails, Go, TypeOK, Owned, AllReturned, Places
<1>5. CASE Receive(p)
  BY <1>5 DEF Receive, Go, TypeOK, Owned, AllReturned, Places
<1>6. CASE Appended(p)
  BY <1>6 DEF Appended, Go, TypeOK, Owned, AllReturned, Places
<1>7. CASE StreamEnds(p)
  BY <1>7 DEF StreamEnds, Fails, Go, TypeOK, Owned, AllReturned, Places
<1>8. CASE PipeEnds(p)
  BY <1>8 DEF PipeEnds, Go, TypeOK, Owned, AllReturned, Places
<1>9. CASE Unpublish(p)
  BY <1>9 DEF Unpublish, Go, TypeOK, Owned, AllReturned, Places
<1>10. CASE Reap(p)
  BY <1>10 DEF Reap, Go, TypeOK, Owned, AllReturned, Places
<1>11. CASE Exited(p)
  BY <1>11 DEF Exited, Go, TypeOK, Owned, AllReturned, Places
<1>12. CASE WaitEnds(p)
  BY <1>12 DEF WaitEnds, Smaller, Go, TypeOK, Owned, AllReturned, Places
<1>13. CASE WaitCancelled(p)
  BY <1>13 DEF WaitCancelled, Go, TypeOK, Owned, AllReturned, Places
<1> QED
  BY <1>1, <1>2, <1>3, <1>4, <1>5, <1>6, <1>7, <1>8, <1>9, <1>10, <1>11, <1>12, <1>13
     DEF Supervise

\* Every step of the host preserves the invariant.
LEMMA NextHolds == IInv /\ [Next]_vars => IInv'
<1> SUFFICES ASSUME IInv, [Next]_vars PROVE IInv'
  OBVIOUS
<1> USE PluginAssumption
<1>1. ASSUME NEW p \in Plugins, Supervise(p) PROVE IInv'
  BY <1>1, SuperviseHolds
<1>2. ASSUME NEW p \in Plugins, Crash(p) \/ Killed(p) PROVE IInv'
  BY <1>2 DEF Crash, Killed, IInv, TypeOK, Owned, AllReturned
<1>3. CASE Close
  BY <1>3 DEF Close, IInv, TypeOK, Owned, AllReturned
<1>4. CASE CloseReturns
  BY <1>4 DEF CloseReturns, IInv, TypeOK, Owned, AllReturned
<1>5. CASE UNCHANGED vars
  BY <1>5 DEF vars, IInv, TypeOK, Owned, AllReturned
<1> QED
  BY <1>1, <1>2, <1>3, <1>4, <1>5 DEF Next, Ended

\* The invariant holds in every reachable state.
THEOREM Invariance == Safety => []IInv
  BY InitHolds, NextHolds, PTL DEF Safety

\* The variables keep their types; in particular a backoff never leaves
\* backoffMin .. backoffMax.
THEOREM TypeCorrect == Safety => []TypeOK
<1>1. IInv => TypeOK
  BY DEF IInv
<1> QED BY Invariance, <1>1, PTL

\* However runs end and whenever Close is called, no process is started beside
\* an older one and none survives Close.
THEOREM NoStrayProcessHolds == Safety => []NoStrayProcess
<1>1. IInv => NoStrayProcess
  BY DEF IInv, Owned, AllReturned, NoStrayProcess
<1> QED BY Invariance, <1>1, PTL

-----------------------------------------------------------------------------
(* The backoff *)

\* Doubling, from the number of subsets of 1 .. n.
LEMMA PowerOfTwo ==
    2^0 = 1 /\ \A n \in Nat : 2^n \in Nat \ {0} /\ 2^(n + 1) = 2 * 2^n
<1>1. ASSUME NEW n \in Nat
      PROVE  IsFiniteSet(SUBSET (1 .. n)) /\ Cardinality(SUBSET (1 .. n)) = 2^n /\ 2^n \in Nat
  <2>1. IsFiniteSet(1 .. n) /\ Cardinality(1 .. n) = n
    BY FS_Interval
  <2>2. QED
    BY <2>1, FS_SUBSET, FS_CardinalityType
<1>2. 2^0 = 1
  <2>1. SUBSET (1 .. 0) = {{}}
    OBVIOUS
  <2>2. Cardinality({{}}) = 1
    BY FS_Singleton
  <2>3. QED
    BY <1>1, <2>1, <2>2
<1>3. ASSUME NEW n \in Nat PROVE 2^(n + 1) = 2 * 2^n
  <2> DEFINE A == SUBSET (1 .. n)
             f == [T \in A |-> T \cup {n + 1}]
             B == {f[T] : T \in A}
  <2>1. SUBSET (1 .. n + 1) = A \cup B
    <3>1. ASSUME NEW T \in SUBSET (1 .. n + 1) PROVE T \in A \cup B
      <4>1. CASE n + 1 \notin T
        <5>1. \A i \in T : i \in 1 .. n
          BY <4>1
        <5>2. QED
          BY <5>1
      <4>2. CASE n + 1 \in T
        <5>1. T \ {n + 1} \in A
          OBVIOUS
        <5>2. T = f[T \ {n + 1}]
          BY <4>2, <5>1
        <5>3. QED
          BY <5>1, <5>2
      <4>3. QED
        BY <4>1, <4>2
    <3>2. ASSUME NEW T \in A PROVE T \in SUBSET (1 .. n + 1) /\ f[T] \in SUBSET (1 .. n + 1)
      OBVIOUS
    <3>3. ASSUME NEW U \in A \cup B PROVE U \in SUBSET (1 .. n + 1)
      <4> HIDE DEF A, f
      <4>1. QED
        BY <3>2, <3>3
    <3> HIDE DEF A, B
    <3>4. QED
      BY <3>1, <3>3
  <2>2. A \cap B = {}
    <3>1. ASSUME NEW T \in A PROVE n + 1 \notin T /\ n + 1 \in f[T]
      OBVIOUS
    <3>2. QED
      BY <3>1
  <2>3. f \in Bijection(A, B)
    <3>1. ASSUME NEW T \in A, NEW U \in A, f[T] = f[U] PROVE T = U
      <4>1. T = f[T] \ {n + 1} /\ U = f[U] \ {n + 1}
        OBVIOUS
      <4>2. QED
        BY <3>1, <4>1
    <3>2. f \in [A -> B] /\ DOMAIN f = A
      OBVIOUS
    <3> HIDE DEF A, f
    <3>3. QED
      BY <3>1, <3>2 DEF Bijection, Injection, Surjection, IsInjective
  <2>4. IsFiniteSet(A) /\ Cardinality(A) = 2^n /\ 2^n \in Nat
    BY <1>1
  <2>5. IsFiniteSet(B) /\ Cardinality(B) = 2^n
    <3> HIDE DEF A, B, f
    <3>1. QED
      BY <2>3, <2>4, FS_Bijection DEF ExistsBijection
  <2>6. Cardinality(A \cup B) = Cardinality(A) + Cardinality(B) - Cardinality(A \cap B)
    <3> HIDE DEF A, B
    <3>1. QED
      BY <2>4, <2>5, FS_Union
  <2>7. Cardinality(SUBSET (1 .. n + 1)) = 2^(n + 1)
    BY <1>1
  <2> HIDE DEF A, B
  <2>8. Cardinality(A \cap B) = 0
    BY <2>2, FS_EmptySet
  <2>9. 2^(n + 1) = Cardinality(A) + Cardinality(B) - Cardinality(A \cap B)
    BY <2>1, <2>6, <2>7
  <2>10. QED
    BY <2>4, <2>5, <2>8, <2>9
<1>4. ASSUME NEW n \in Nat PROVE 2^n # 0
  <2>1. {} \in SUBSET (1 .. n)
    OBVIOUS
  <2>2. QED
    BY <1>1, <2>1, FS_EmptySet
<1>5. QED
  BY <1>1, <1>2, <1>3, <1>4

\* Between two doublings, and while a run is up, backoff and the number of short
\* runs agree as well.
BackoffFollows ==
    \A p \in Plugins : backoff[p] = Smaller(BackoffMin * 2^shorts[p], BackoffMax)

\* Doubling a capped value and capping it again is doubling the uncapped one.
LEMMA CappedDoubling ==
  ASSUME NEW b \in Nat, NEW n \in Nat, b = Smaller(BackoffMin * 2^n, BackoffMax)
  PROVE  Smaller(b * 2, BackoffMax) = Smaller(BackoffMin * 2^(n + 1), BackoffMax)
<1> DEFINE d == BackoffMin * 2^n
<1>1. BackoffMin \in Nat /\ BackoffMax \in Nat
  BY PluginAssumption
<1>2. 2^n \in Nat /\ 2^(n + 1) = 2 * 2^n
  BY PowerOfTwo
<1>3. d \in Nat /\ BackoffMin * 2^(n + 1) = d * 2
  <2> DEFINE w == 2^n
  <2>1. w \in Nat /\ 2^(n + 1) = 2 * w
    BY <1>2
  <2> HIDE DEF w
  <2>2. BackoffMin * w \in Nat /\ BackoffMin * (2 * w) = (BackoffMin * w) * 2
    BY <1>1, <2>1
  <2> QED BY <2>1, <2>2 DEF w
<1> HIDE DEF d
<1>4. b = Smaller(d, BackoffMax)
  BY DEF d
<1>5. Smaller(b * 2, BackoffMax) = Smaller(d * 2, BackoffMax)
  BY <1>1, <1>3, <1>4 DEF Smaller
<1> QED BY <1>3, <1>5

\* Every step keeps the backoff in step with the count of short runs: only
\* WaitEnds doubles it and only Exited resets it, each together with the count.
LEMMA BackoffKept == IInv /\ BackoffFollows /\ [Next]_vars => BackoffFollows'
<1> SUFFICES ASSUME IInv, BackoffFollows, [Next]_vars PROVE BackoffFollows'
  OBVIOUS
<1>1. backoff \in [Plugins -> Nat] /\ shorts \in [Plugins -> Nat]
  BY PluginAssumption DEF IInv, TypeOK
<1>2. ASSUME NEW p \in Plugins, WaitEnds(p) PROVE BackoffFollows'
  <2>1. Smaller(backoff[p] * 2, BackoffMax) = Smaller(BackoffMin * 2^(shorts[p] + 1), BackoffMax)
    BY <1>1, CappedDoubling DEF BackoffFollows
  <2>2. backoff'[p] = Smaller(backoff[p] * 2, BackoffMax) /\ shorts'[p] = shorts[p] + 1
    BY <1>1, <1>2 DEF WaitEnds
  <2>3. \A q \in Plugins \ {p} : backoff'[q] = backoff[q] /\ shorts'[q] = shorts[q]
    BY <1>1, <1>2 DEF WaitEnds
  <2> QED BY <2>1, <2>2, <2>3 DEF BackoffFollows
<1>3. ASSUME NEW p \in Plugins, Exited(p) PROVE BackoffFollows'
  <2>1. BackoffMin = Smaller(BackoffMin * 2^0, BackoffMax)
    <3>1. BackoffMin * 2^0 = BackoffMin
      BY PowerOfTwo, PluginAssumption
    <3> QED BY <3>1, PluginAssumption DEF Smaller
  <2>2. \/ backoff'[p] = backoff[p] /\ shorts'[p] = shorts[p]
        \/ backoff'[p] = BackoffMin /\ shorts'[p] = 0
    BY <1>1, <1>3 DEF Exited
  <2>3. \A q \in Plugins \ {p} : backoff'[q] = backoff[q] /\ shorts'[q] = shorts[q]
    BY <1>1, <1>3 DEF Exited
  <2> QED BY <2>1, <2>2, <2>3 DEF BackoffFollows
<1>4. CASE UNCHANGED <<backoff, shorts>>
  BY <1>4 DEF BackoffFollows
<1>5. (\E p \in Plugins : WaitEnds(p) \/ Exited(p)) \/ UNCHANGED <<backoff, shorts>>
  BY DEF Next, vars, Supervise, Launch, LaunchFails, SetUp, SetUpFails, Receive, Appended,
         StreamEnds, PipeEnds, Unpublish, Reap, WaitCancelled, Crash, Killed, Close,
         CloseReturns, Ended
<1> QED BY <1>2, <1>3, <1>4, <1>5

\* Before the n-th restart after a long run, supervise waits backoffMin doubled
\* n times and capped at backoffMax, for every plugin and any number of runs.
THEOREM BackoffExactHolds == Safety => []BackoffExact
<1>1. Init => BackoffFollows
  <2> SUFFICES ASSUME Init, NEW p \in Plugins
               PROVE  backoff[p] = Smaller(BackoffMin * 2^shorts[p], BackoffMax)
    BY DEF BackoffFollows
  <2>1. backoff[p] = BackoffMin /\ shorts[p] = 0
    BY DEF Init
  <2>2. BackoffMin * 2^0 = BackoffMin
    BY PowerOfTwo, PluginAssumption
  <2> QED BY <2>1, <2>2, PluginAssumption DEF Smaller
<1>2. BackoffFollows => BackoffExact
  BY DEF BackoffFollows, BackoffExact
<1> QED BY <1>1, <1>2, Invariance, BackoffKept, PTL DEF Safety
=============================================================================
