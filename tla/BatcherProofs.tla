--------------------------- MODULE BatcherProofs ---------------------------
(***************************************************************************)
(* Safety of the batcher for every batch size, every number of attempts    *)
(* and every number of calls and failures.                                 *)
(***************************************************************************)
EXTENDS Batcher, FiniteSetTheorems, TLAPS

Flushing == loop \in {"insert", "warn", "sleep", "error"}

\* Where the loop is says how full the batch is, how many attempts it has had,
\* and whether the channel is closed and drained.
Control ==
    /\ loop = "select" => Len(batch) < BatchSize
    /\ Flushing => Len(batch) > 0 /\ attempt >= 1
    /\ loop \in {"warn", "sleep"} => attempt < MaxRetries
    /\ (Flushing /\ cont = "exit") => closed /\ in = <<>>
    /\ loop = "done" => closed /\ in = <<>> /\ batch = <<>>
    /\ panicked => closed

\* How many rows an entry of the current batch can have.
BatchCopies ==
    CASE loop = "insert" -> attempt - 1
      [] loop \in {"warn", "sleep", "error"} -> attempt
      [] OTHER -> 0

\* Rows of the settled entries, of the batch and of the channel.
Rows ==
    /\ \A n \in 1 .. Settled : copies[n] <= MaxRetries
    /\ \A n \in 1 .. accepted : n > Settled => copies[n] <= BatchCopies
    /\ \A n \in 1 .. accepted : n > Settled + Len(batch) => copies[n] = 0
    /\ \A n \in 1 .. Settled : copies[n] > 0 \/ n \in lost

\* Entries given up: settled ones and, between the count and the return of
\* flush, the whole current batch.
LostSoFar == IF loop = "error" THEN Settled + Len(batch) ELSE Settled

Lost ==
    /\ \A n \in lost : n <= LostSoFar
    /\ loop = "error" => \A n \in 1 .. accepted :
                            n > Settled /\ n <= Settled + Len(batch) => n \in lost
    /\ dropped = Cardinality(lost)

IInv == TypeOK /\ Fifo /\ Control /\ Rows /\ Lost

-----------------------------------------------------------------------------
(* Facts about the channel and about the store *)

\* The channel holds the youngest entries, in order.
Youngest == \A i \in 1 .. Len(in) : in[i] = accepted - Len(in) + i

\* A send that finds room extends the channel and the history by one entry
\* without rows.
LEMMA SendFacts ==
    ASSUME TypeOK, Youngest, Send
    PROVE  /\ in' \in Seq(Nat \ {0}) /\ Len(in') = Len(in) + 1 /\ Len(in') <= Capacity
           /\ accepted' \in Nat /\ accepted' = accepted + 1
           /\ copies' \in Seq(Nat) /\ Len(copies') = accepted'
           /\ \A n \in 1 .. accepted : copies'[n] = copies[n]
           /\ copies'[accepted + 1] = 0
           /\ Youngest'
           /\ ~closed /\ panicked' = panicked
<1>1. /\ in \in Seq(Nat \ {0}) /\ Len(in) \in Nat
      /\ accepted \in Nat /\ copies \in Seq(Nat) /\ Len(copies) = accepted
      /\ Capacity \in Nat
  BY BatcherAssumption DEF TypeOK, Capacity
<1>2. /\ in' \in Seq(Nat \ {0}) /\ Len(in') = Len(in) + 1 /\ Len(in') <= Capacity
      /\ \A i \in 1 .. Len(in) : in'[i] = in[i]
      /\ in'[Len(in) + 1] = accepted + 1
  BY <1>1 DEF Send
<1>3. /\ copies' \in Seq(Nat) /\ Len(copies') = accepted + 1
      /\ \A n \in 1 .. accepted : copies'[n] = copies[n]
      /\ copies'[accepted + 1] = 0
  BY <1>1 DEF Send
<1>4. accepted' = accepted + 1 /\ ~closed /\ panicked' = panicked
  BY DEF Send
<1>5. ASSUME NEW i \in 1 .. Len(in')
      PROVE  in'[i] = accepted' - Len(in') + i
  <2>1. CASE i <= Len(in)
    <3>1. i \in 1 .. Len(in)
      BY <1>1, <1>2, <2>1
    <3>2. in'[i] = accepted - Len(in) + i
      BY <3>1, <1>2 DEF Youngest
    <3> QED
      BY <3>2, <1>1, <1>2, <1>4
  <2>2. CASE i > Len(in)
    <3>1. i = Len(in) + 1
      BY <1>1, <1>2, <2>2
    <3> QED
      BY <3>1, <1>1, <1>2, <1>4
  <2> QED
    BY <2>1, <2>2, <1>1, <1>2
<1>6. Youngest'
  BY <1>5 DEF Youngest
<1> QED
  BY <1>1, <1>2, <1>3, <1>4, <1>6

\* However a call of TryAppend ends, it leaves the rows of all earlier entries
\* alone, and it panics only on a closed channel.
LEMMA TryAppendFacts ==
    ASSUME TypeOK, Youngest, Send \/ SendPanics \/ Discard
    PROVE  /\ in' \in Seq(Nat \ {0}) /\ Len(in') <= Capacity
           /\ accepted' \in Nat /\ accepted' >= accepted
           /\ accepted' - Len(in') = accepted - Len(in)
           /\ copies' \in Seq(Nat) /\ Len(copies') = accepted'
           /\ \A n \in 1 .. accepted : copies'[n] = copies[n]
           /\ \A n \in 1 .. accepted' : n > accepted => copies'[n] = 0
           /\ Youngest'
           /\ panicked' \in BOOLEAN /\ (panicked' => panicked \/ closed)
           /\ closed => in' = in
<1>0. /\ in \in Seq(Nat \ {0}) /\ Len(in) \in Nat /\ Len(in) <= Capacity /\ accepted \in Nat
      /\ copies \in Seq(Nat) /\ Len(copies) = accepted
  BY DEF TypeOK
<1>1. CASE Send
  <2>1. panicked' \in BOOLEAN /\ (panicked' => panicked)
    BY <1>1, SendFacts DEF TypeOK
  <2>2. /\ in' \in Seq(Nat \ {0}) /\ Len(in') = Len(in) + 1 /\ Len(in') <= Capacity
        /\ accepted' \in Nat /\ accepted' = accepted + 1
        /\ copies' \in Seq(Nat) /\ Len(copies') = accepted'
        /\ \A n \in 1 .. accepted : copies'[n] = copies[n]
        /\ copies'[accepted + 1] = 0
        /\ Youngest' /\ ~closed
    BY <1>1, SendFacts
  <2>3. \A n \in 1 .. accepted' : n > accepted => copies'[n] = 0
    BY <1>0, <2>2
  <2>4. accepted' >= accepted /\ accepted' - Len(in') = accepted - Len(in)
    BY <1>0, <2>2
  <2> QED
    BY <2>1, <2>2, <2>3, <2>4
<1>2. CASE SendPanics \/ Discard
  <2>1. UNCHANGED <<in, accepted, copies>>
    BY <1>2 DEF SendPanics, Discard
  <2>2. Youngest'
    BY <2>1 DEF Youngest
  <2>3. panicked' \in BOOLEAN /\ (panicked' => panicked \/ closed)
    <3>1. CASE SendPanics
      BY <3>1 DEF SendPanics
    <3>2. CASE Discard
      <4>1. panicked' = panicked
        BY <3>2 DEF Discard
      <4> QED
        BY <4>1 DEF TypeOK
    <3> QED
      BY <1>2, <3>1, <3>2
  <2> QED
    BY <1>0, <2>1, <2>2, <2>3
<1> QED
  BY <1>1, <1>2

\* An insert that reaches the store adds a row to the entries of the batch and
\* to no other.
LEMMA StoredFacts ==
    ASSUME TypeOK, Fifo
    PROVE  /\ Stored \in Seq(Nat) /\ Len(Stored) = accepted
           /\ \A n \in 1 .. accepted :
                 Stored[n] = IF n > Settled /\ n <= Settled + Len(batch)
                             THEN copies[n] + 1 ELSE copies[n]
<1>1. /\ accepted \in Nat /\ copies \in Seq(Nat) /\ Len(copies) = accepted
      /\ Len(batch) \in Nat /\ Settled \in Int /\ Settled >= 0
      /\ \A n \in 1 .. accepted : copies[n] \in Nat
      /\ \A i \in 1 .. Len(batch) : batch[i] = Settled + i
  <2>1. /\ accepted \in Nat /\ copies \in Seq(Nat) /\ Len(copies) = accepted
        /\ Len(batch) \in Nat /\ Len(in) \in Nat
    BY DEF TypeOK
  <2>2. \A n \in 1 .. accepted : copies[n] \in Nat
    BY <2>1
  <2>3. Settled \in Int /\ Settled >= 0
    BY <2>1 DEF Fifo, Settled
  <2>4. \A i \in 1 .. Len(batch) : batch[i] = Settled + i
    BY DEF Fifo
  <2> QED
    BY <2>1, <2>2, <2>3, <2>4
<1>2. \A n \in 1 .. accepted : (\E i \in 1 .. Len(batch) : batch[i] = n)
                                  <=> n > Settled /\ n <= Settled + Len(batch)
  <2> SUFFICES ASSUME NEW n \in 1 .. accepted
               PROVE  (\E i \in 1 .. Len(batch) : batch[i] = n)
                          <=> n > Settled /\ n <= Settled + Len(batch)
    OBVIOUS
  <2>1. ASSUME NEW i \in 1 .. Len(batch), batch[i] = n
        PROVE  n > Settled /\ n <= Settled + Len(batch)
    BY <1>1, <2>1
  <2>2. ASSUME n > Settled /\ n <= Settled + Len(batch)
        PROVE  \E i \in 1 .. Len(batch) : batch[i] = n
    <3>1. n - Settled \in 1 .. Len(batch) /\ batch[n - Settled] = n
      BY <1>1, <2>2
    <3> QED
      BY <3>1
  <2> QED
    BY <2>1, <2>2
<1>3. Stored \in [1 .. accepted -> Nat]
  BY <1>1 DEF Stored
<1>4. Stored \in Seq(Nat) /\ Len(Stored) = accepted
  BY <1>1, <1>3
<1>5. \A n \in 1 .. accepted :
                 Stored[n] = IF n > Settled /\ n <= Settled + Len(batch)
                             THEN copies[n] + 1 ELSE copies[n]
  BY <1>2 DEF Stored
<1> QED
  BY <1>4, <1>5

\* The numeric facts of the invariant, in the form the steps below use.
LEMMA Numbers ==
    ASSUME TypeOK, Fifo
    PROVE  /\ accepted \in Nat /\ Len(batch) \in Nat /\ Len(in) \in Nat
           /\ Settled \in Nat /\ accepted = Settled + Len(batch) + Len(in)
           /\ \A n \in 1 .. accepted : copies[n] \in Nat
           /\ lost \in SUBSET (1 .. accepted) /\ dropped \in Nat
           /\ attempt \in 0 .. MaxRetries /\ MaxRetries \in Nat /\ MaxRetries >= 1
           /\ BatchSize \in Nat /\ BatchSize >= 1
           /\ Youngest
<1>1. /\ accepted \in Nat /\ Len(batch) \in Nat /\ Len(in) \in Nat
      /\ copies \in Seq(Nat) /\ Len(copies) = accepted
      /\ lost \in SUBSET (1 .. accepted) /\ dropped \in Nat
      /\ attempt \in 0 .. MaxRetries
  BY DEF TypeOK
<1>2. \A n \in 1 .. accepted : copies[n] \in Nat
  BY <1>1
<1>3. Settled \in Nat /\ accepted = Settled + Len(batch) + Len(in)
  BY <1>1 DEF Fifo, Settled
<1>4. MaxRetries \in Nat /\ MaxRetries >= 1 /\ BatchSize \in Nat /\ BatchSize >= 1
  BY BatcherAssumption
<1>5. Youngest
  BY <1>1, <1>3 DEF Fifo, Youngest
<1> QED
  BY <1>1, <1>2, <1>3, <1>4, <1>5

\* Fifo in the next state, from the batch's part and the channel's part.
LEMMA SettledFifo ==
    ASSUME Youngest', Settled' >= 0, accepted' \in Nat,
           in' \in Seq(Nat \ {0}), batch' \in Seq(Nat \ {0}),
           \A i \in 1 .. Len(batch') : batch'[i] = Settled' + i
    PROVE  Fifo'
<1>1. Len(in') \in Nat /\ Len(batch') \in Nat
  OBVIOUS
<1>2. \A i \in 1 .. Len(in') : in'[i] = Settled' + Len(batch') + i
  BY <1>1 DEF Youngest, Settled
<1> QED
  BY <1>2 DEF Fifo

\* A call of TryAppend keeps what is known of rows and of lost entries, as
\* long as the loop stays in the same part of the flush.
LEMMA TryAppendKeeps ==
    ASSUME IInv, Send \/ SendPanics \/ Discard, UNCHANGED <<batch, attempt, lost, dropped>>,
           BatchCopies' = BatchCopies, (loop' = "error") <=> (loop = "error")
    PROVE  Fifo' /\ Rows' /\ Lost' /\ lost' \in SUBSET (1 .. accepted')
<1>1. TypeOK /\ Fifo /\ Rows /\ Lost /\ UNCHANGED batch
  BY DEF IInv
<1>2. /\ accepted' \in Nat /\ accepted' >= accepted
      /\ \A n \in 1 .. accepted : copies'[n] = copies[n]
      /\ \A n \in 1 .. accepted' : n > accepted => copies'[n] = 0
      /\ Settled' = Settled
      /\ Fifo'
  <2>1. /\ Youngest /\ accepted \in Nat /\ Len(batch) \in Nat /\ Len(in) \in Nat
        /\ Settled \in Nat
    BY <1>1, Numbers
  <2>2. /\ accepted' \in Nat /\ accepted' >= accepted
        /\ \A n \in 1 .. accepted : copies'[n] = copies[n]
        /\ \A n \in 1 .. accepted' : n > accepted => copies'[n] = 0
        /\ in' \in Seq(Nat \ {0}) /\ Youngest'
        /\ accepted' - Len(in') = accepted - Len(in)
    BY <1>1, <2>1, TryAppendFacts
  <2>3. Settled' = Settled
    BY <2>1, <2>2 DEF Settled
  <2>4. Fifo'
    <3>1. batch' \in Seq(Nat \ {0}) /\ Settled' >= 0
      BY <1>1, <2>1, <2>3 DEF TypeOK
    <3>2. \A i \in 1 .. Len(batch') : batch'[i] = Settled' + i
      BY <1>1, <2>3 DEF Fifo
    <3> QED
      BY <2>2, <3>1, <3>2, SettledFifo
  <2> QED
    BY <2>2, <2>3, <2>4
<1>3. /\ accepted \in Nat /\ Len(batch) \in Nat /\ Len(in) \in Nat
      /\ Settled \in Nat /\ accepted = Settled + Len(batch) + Len(in)
      /\ lost \in SUBSET (1 .. accepted)
  BY <1>1, Numbers
<1>4. BatchCopies \in Nat
  <2>1. attempt \in Nat /\ (loop = "insert" => attempt >= 1)
    BY <1>1, Numbers DEF IInv, Control, Flushing
  <2> QED
    BY <2>1 DEF BatchCopies
<1>5. Rows'
  <2>1. \A n \in 1 .. accepted' : n \in 1 .. accepted \/ n > accepted
    BY <1>2, <1>3
  <2>2. \A n \in 1 .. Settled : n \in 1 .. accepted
    BY <1>3
  <2>3. Len(batch') = Len(batch) /\ lost' = lost
    OBVIOUS
  <2>4. \A n \in 1 .. Settled' : copies'[n] <= MaxRetries
    BY <1>1, <1>2, <2>2 DEF Rows
  <2>5. \A n \in 1 .. accepted' : n > Settled' => copies'[n] <= BatchCopies'
    BY <1>1, <1>2, <1>4, <2>1 DEF Rows
  <2>6. \A n \in 1 .. accepted' : n > Settled' + Len(batch') => copies'[n] = 0
    BY <1>1, <1>2, <2>1, <2>3 DEF Rows
  <2>7. \A n \in 1 .. Settled' : copies'[n] > 0 \/ n \in lost'
    BY <1>1, <1>2, <2>2, <2>3 DEF Rows
  <2> QED
    BY <2>4, <2>5, <2>6, <2>7 DEF Rows
<1>6. Lost'
  <2>1. Len(batch') = Len(batch) /\ lost' = lost /\ dropped' = dropped
    OBVIOUS
  <2>2. LostSoFar' = LostSoFar
    BY <1>2, <2>1 DEF LostSoFar
  <2>3. \A n \in lost' : n <= LostSoFar'
    BY <1>1, <2>1, <2>2 DEF Lost
  <2>4. loop' = "error" => \A n \in 1 .. accepted' :
                              n > Settled' /\ n <= Settled' + Len(batch') => n \in lost'
    <3> SUFFICES ASSUME loop = "error", NEW n \in 1 .. accepted',
                        n > Settled, n <= Settled + Len(batch)
                 PROVE  n \in lost
      BY <1>2, <2>1
    <3>1. n \in 1 .. accepted
      BY <1>2, <1>3
    <3> QED
      BY <1>1, <3>1 DEF Lost
  <2>5. dropped' = Cardinality(lost')
    BY <1>1, <2>1 DEF Lost
  <2> QED
    BY <2>3, <2>4, <2>5 DEF Lost
<1>7. lost' \in SUBSET (1 .. accepted')
  BY <1>2, <1>3
<1> QED
  BY <1>2, <1>5, <1>6, <1>7

-----------------------------------------------------------------------------
(* The invariant *)

\* NewBatcher establishes the invariant: nothing accepted, nothing stored.
LEMMA InitIInv == Init => IInv
<1> SUFFICES ASSUME Init PROVE IInv
  OBVIOUS
<1>0. /\ in = <<>> /\ batch = <<>> /\ copies = <<>> /\ accepted = 0 /\ lost = {}
      /\ attempt = 0 /\ dropped = 0 /\ calls = 0 /\ failures = 0
  BY DEF Init
<1>1. Len(in) = 0 /\ Len(batch) = 0 /\ Len(copies) = 0 /\ Settled = 0
  <2>1. Len(in) = 0
    BY <1>0
  <2>2. Len(batch) = 0
    BY <1>0
  <2>3. Len(copies) = 0
    BY <1>0
  <2>4. accepted = 0
    BY <1>0
  <2>5. Settled = 0
    BY <2>1, <2>2, <2>4 DEF Settled
  <2> QED
    BY <2>1, <2>2, <2>3, <2>5
<1>2. TypeOK
  <2>1. /\ in \in Seq(Nat \ {0}) /\ batch \in Seq(Nat \ {0}) /\ copies \in Seq(Nat)
    BY <1>0
  <2>2. /\ Len(in) <= Capacity /\ Len(batch) <= BatchSize /\ Len(copies) = accepted
        /\ accepted \in Nat /\ attempt \in 0 .. MaxRetries /\ dropped \in Nat
        /\ calls \in 0 .. MaxCalls /\ failures \in 0 .. MaxFailures
    BY <1>0, <1>1, BatcherAssumption DEF Capacity
  <2>3. /\ closed \in BOOLEAN /\ tick \in BOOLEAN /\ panicked \in BOOLEAN
        /\ loop \in LoopStates /\ cont \in {"reset", "select", "exit"}
    BY DEF Init, LoopStates
  <2> QED
    BY <1>0, <2>1, <2>2, <2>3 DEF TypeOK
<1>3. Fifo
  <2>1. Settled >= 0 /\ 1 .. Len(batch) = {} /\ 1 .. Len(in) = {}
    BY <1>1
  <2> QED
    BY <2>1 DEF Fifo
<1>4. Control
  <2>1. Len(batch) < BatchSize
    BY <1>1, BatcherAssumption
  <2>2. loop = "select" /\ ~panicked
    BY DEF Init
  <2> QED
    BY <2>1, <2>2 DEF Control, Flushing
<1>5. Rows
  <2>1. 1 .. Settled = {} /\ 1 .. accepted = {}
    BY <1>0, <1>1
  <2> QED
    BY <2>1 DEF Rows
<1>6. Lost
  BY FS_EmptySet DEF Init, Lost
<1> QED
  BY <1>2, <1>3, <1>4, <1>5, <1>6 DEF IInv

\* Calls from outside the loop.
LEMMA CallersKeep == ASSUME IInv, AppendEntry \/ SelfLog PROVE IInv'
<1>1. Send \/ SendPanics \/ Discard
  BY DEF AppendEntry, SelfLog, TryAppendEntry
<1>2. /\ UNCHANGED <<closed, batch, loop, cont, attempt, tick, lost, dropped, failures>>
      /\ calls' = calls + 1 /\ calls < MaxCalls
  BY DEF AppendEntry, SelfLog, loopVars
<1>3. Fifo' /\ Rows' /\ Lost' /\ lost' \in SUBSET (1 .. accepted')
  <2>1. BatchCopies' = BatchCopies
    BY <1>2 DEF BatchCopies
  <2> QED
    BY <1>1, <1>2, <2>1, TryAppendKeeps
<1>4. /\ in' \in Seq(Nat \ {0}) /\ Len(in') <= Capacity
      /\ accepted' \in Nat
      /\ copies' \in Seq(Nat) /\ Len(copies') = accepted'
      /\ panicked' \in BOOLEAN /\ (panicked' => panicked \/ closed)
      /\ closed => in' = in
  BY <1>1, Numbers, TryAppendFacts DEF IInv
<1>5. TypeOK'
  <2>1. calls' \in 0 .. MaxCalls
    BY <1>2, BatcherAssumption DEF IInv, TypeOK
  <2>2. /\ closed' \in BOOLEAN /\ batch' \in Seq(Nat \ {0}) /\ Len(batch') <= BatchSize
        /\ loop' \in LoopStates /\ cont' \in {"reset", "select", "exit"}
        /\ attempt' \in 0 .. MaxRetries /\ tick' \in BOOLEAN /\ dropped' \in Nat
        /\ failures' \in 0 .. MaxFailures
    BY <1>2 DEF IInv, TypeOK
  <2> QED
    BY <1>3, <1>4, <2>1, <2>2 DEF TypeOK
<1>6. Control'
  BY <1>2, <1>4 DEF IInv, Control, Flushing
<1> QED
  BY <1>3, <1>5, <1>6 DEF IInv

\* close(b.in) changes no entry.
LEMMA CloseKeeps == ASSUME IInv, Close PROVE IInv'
<1>1. /\ closed' = TRUE
      /\ UNCHANGED <<in, batch, loop, cont, attempt, tick, accepted, copies, lost, dropped,
                     panicked, calls, failures>>
  BY DEF Close, loopVars
<1>2. TypeOK'
  BY <1>1 DEF IInv, TypeOK
<1>3. Settled' = Settled /\ Fifo'
  BY <1>1 DEF IInv, Fifo, Settled
<1>4. Control'
  BY <1>1 DEF IInv, Control, Flushing
<1>5. Rows' /\ Lost'
  BY <1>1, <1>3 DEF IInv, Rows, Lost, LostSoFar, BatchCopies
<1> QED
  BY <1>2, <1>3, <1>4, <1>5 DEF IInv

\* A tick changes no entry.
LEMMA TickerKeeps == ASSUME IInv, TickerFires PROVE IInv'
<1>1. /\ tick' = TRUE
      /\ UNCHANGED <<in, closed, batch, loop, cont, attempt, accepted, copies, lost, dropped,
                     panicked, calls, failures>>
  BY DEF TickerFires
<1>2. TypeOK'
  BY <1>1 DEF IInv, TypeOK
<1>3. Settled' = Settled /\ Fifo'
  BY <1>1 DEF IInv, Fifo, Settled
<1>4. Control'
  BY <1>1 DEF IInv, Control, Flushing
<1>5. Rows' /\ Lost'
  BY <1>1, <1>3 DEF IInv, Rows, Lost, LostSoFar, BatchCopies
<1> QED
  BY <1>2, <1>3, <1>4, <1>5 DEF IInv

\* The receiving cases that flush what the batch holds.
LEMMA FlushKeeps == ASSUME IInv, ReceiveClosed \/ ReceiveTick PROVE IInv'
<1>1. /\ loop = "select"
      /\ UNCHANGED <<in, closed, batch, accepted, copies, lost, dropped, panicked, calls, failures>>
      /\ tick' \in BOOLEAN
  BY DEF ReceiveClosed, ReceiveTick, At, Flush, IInv, TypeOK
<1>2. Settled' = Settled /\ Fifo'
  BY <1>1 DEF IInv, Fifo, Settled
<1>3. CASE batch = <<>>
  <2>1. UNCHANGED <<cont, attempt>> /\ loop' \in {"select", "done"}
    BY <1>3 DEF ReceiveClosed, ReceiveTick, Flush
  <2>2. loop' = "done" => in = <<>> /\ closed
    BY <1>3 DEF ReceiveClosed, ReceiveTick, Flush
  <2>3. TypeOK'
    BY <1>1, <2>1 DEF IInv, TypeOK, LoopStates
  <2>4. Control'
    BY <1>1, <1>3, <2>1, <2>2 DEF IInv, Control, Flushing
  <2>5. Rows' /\ Lost'
    BY <1>1, <1>2, <2>1 DEF IInv, Rows, Lost, LostSoFar, BatchCopies
  <2> QED
    BY <1>2, <2>3, <2>4, <2>5 DEF IInv
<1>4. CASE batch # <<>>
  <2>1. loop' = "insert" /\ attempt' = 1 /\ cont' \in {"exit", "select"}
    BY <1>4 DEF ReceiveClosed, ReceiveTick, Flush
  <2>2. cont' = "exit" => in = <<>> /\ closed
    BY <1>4 DEF ReceiveClosed, ReceiveTick, Flush
  <2>3. TypeOK'
    BY <1>1, <2>1, BatcherAssumption DEF IInv, TypeOK, LoopStates
  <2>4. Control'
    <3>1. Len(batch) > 0
      BY <1>4 DEF IInv, TypeOK
    <3> QED
      BY <1>1, <2>1, <2>2, <3>1 DEF IInv, Control, Flushing
  <2>5. BatchCopies' = BatchCopies
    BY <1>1, <2>1 DEF BatchCopies
  <2>6. Rows' /\ Lost'
    BY <1>1, <1>2, <2>1, <2>5 DEF IInv, Rows, Lost, LostSoFar
  <2> QED
    BY <1>2, <2>3, <2>4, <2>6 DEF IInv
<1> QED
  BY <1>3, <1>4

\* The end of a sleep starts the next attempt on the same batch.
LEMMA WakeKeeps == ASSUME IInv, Wake PROVE IInv'
<1>1. /\ loop = "sleep" /\ loop' = "insert" /\ attempt' = attempt + 1
      /\ UNCHANGED <<in, closed, batch, cont, tick, accepted, copies, lost, dropped,
                     panicked, calls, failures>>
  BY DEF Wake, At
<1>2. /\ attempt \in Nat /\ attempt >= 1 /\ attempt < MaxRetries /\ MaxRetries \in Nat
  BY <1>1, BatcherAssumption DEF IInv, TypeOK, Control, Flushing
<1>3. TypeOK'
  BY <1>1, <1>2 DEF IInv, TypeOK, LoopStates
<1>4. Settled' = Settled /\ Fifo'
  BY <1>1 DEF IInv, Fifo, Settled
<1>5. Control'
  BY <1>1, <1>2 DEF IInv, Control, Flushing
<1>6. BatchCopies' = BatchCopies
  BY <1>1, <1>2 DEF BatchCopies
<1>7. Rows' /\ Lost'
  BY <1>1, <1>4, <1>6 DEF IInv, Rows, Lost, LostSoFar
<1> QED
  BY <1>3, <1>4, <1>5, <1>7 DEF IInv

\* Receiving moves the oldest entry of the channel to the end of the batch.
LEMMA ReceiveKeeps == ASSUME IInv, Receive PROVE IInv'
<1>1. /\ loop = "select" /\ in # <<>> /\ in' = Tail(in) /\ batch' = Append(batch, Head(in))
      /\ UNCHANGED <<closed, tick, accepted, copies, lost, dropped, panicked, calls, failures>>
  BY DEF Receive, At
<1>2. /\ in \in Seq(Nat \ {0}) /\ batch \in Seq(Nat \ {0}) /\ Len(in) <= Capacity
      /\ Capacity \in Nat /\ Len(batch) < BatchSize
  BY <1>1, BatcherAssumption DEF IInv, TypeOK, Control, Capacity
<1>3. /\ accepted \in Nat /\ Len(batch) \in Nat /\ Len(in) \in Nat
      /\ Settled \in Nat /\ accepted = Settled + Len(batch) + Len(in)
      /\ BatchSize \in Nat
  BY Numbers DEF IInv
<1>4. /\ in' \in Seq(Nat \ {0}) /\ Len(in') = Len(in) - 1
      /\ \A i \in 1 .. Len(in') : in'[i] = in[i + 1]
      /\ Len(in) > 0
  BY <1>1, <1>2
<1>5. /\ batch' \in Seq(Nat \ {0}) /\ Len(batch') = Len(batch) + 1
      /\ \A i \in 1 .. Len(batch) : batch'[i] = batch[i]
      /\ batch'[Len(batch) + 1] = in[1]
  BY <1>1, <1>2
<1>6. Settled' = Settled
  BY <1>1, <1>3, <1>4, <1>5 DEF Settled
<1>7. Fifo'
  <2>1. in[1] = Settled + Len(batch) + 1
    BY <1>3, <1>4 DEF IInv, Fifo
  <2>2. \A i \in 1 .. Len(batch') : batch'[i] = Settled' + i
    <3> SUFFICES ASSUME NEW i \in 1 .. Len(batch') PROVE batch'[i] = Settled + i
      BY <1>6
    <3>1. CASE i <= Len(batch)
      <4>1. i \in 1 .. Len(batch)
        BY <3>1, <1>3, <1>5
      <4> QED
        BY <4>1, <1>5 DEF IInv, Fifo
    <3>2. CASE i > Len(batch)
      <4>1. i = Len(batch) + 1
        BY <3>2, <1>3, <1>5
      <4> QED
        BY <4>1, <2>1, <1>3, <1>5
    <3> QED
      BY <3>1, <3>2, <1>3, <1>5
  <2>3. \A i \in 1 .. Len(in') : in'[i] = Settled' + Len(batch') + i
    <3> SUFFICES ASSUME NEW i \in 1 .. Len(in') PROVE in'[i] = Settled + Len(batch') + i
      BY <1>6
    <3>1. i + 1 \in 1 .. Len(in) /\ in'[i] = in[i + 1]
      BY <1>3, <1>4
    <3>2. in[i + 1] = Settled + Len(batch) + (i + 1)
      BY <3>1 DEF IInv, Fifo
    <3> QED
      BY <3>1, <3>2, <1>3, <1>5
  <2> QED
    BY <2>2, <2>3, <1>3, <1>6 DEF Fifo
<1>8. \/ /\ Len(batch) + 1 < BatchSize /\ UNCHANGED <<loop, cont, attempt>>
      \/ loop' = "insert" /\ cont' = "reset" /\ attempt' = 1
  BY <1>3 DEF Receive
<1>9. TypeOK'
  <2>1. Len(in') <= Capacity /\ Len(batch') <= BatchSize
    BY <1>2, <1>3, <1>4, <1>5
  <2>2. /\ loop' \in LoopStates /\ cont' \in {"reset", "select", "exit"}
        /\ attempt' \in 0 .. MaxRetries
    BY <1>8, BatcherAssumption DEF IInv, TypeOK, LoopStates
  <2> QED
    BY <1>1, <1>4, <1>5, <2>1, <2>2 DEF IInv, TypeOK
<1>10. Control'
  <2>1. Len(batch') > 0 /\ (loop' = "select" => Len(batch') < BatchSize)
    BY <1>1, <1>3, <1>5, <1>8
  <2> QED
    BY <1>1, <1>8, <2>1 DEF IInv, Control, Flushing
<1>11. BatchCopies = 0 /\ BatchCopies' = 0
  BY <1>1, <1>8 DEF BatchCopies
<1>12. Rows'
  <2>1. \A n \in 1 .. accepted' : n > Settled' => copies'[n] <= BatchCopies'
    BY <1>1, <1>6, <1>11 DEF IInv, Rows
  <2>2. \A n \in 1 .. accepted' : n > Settled' + Len(batch') => copies'[n] = 0
    BY <1>1, <1>3, <1>5, <1>6 DEF IInv, Rows
  <2> QED
    BY <1>1, <1>6, <2>1, <2>2 DEF IInv, Rows
<1>13. Lost'
  BY <1>1, <1>6, <1>8 DEF IInv, Lost, LostSoFar
<1> QED
  BY <1>7, <1>9, <1>10, <1>12, <1>13 DEF IInv

\* A retry's warning re-enters the channel and leaves the batch alone.
LEMMA LogRetryKeeps == ASSUME IInv, LogRetry PROVE IInv'
<1>1. /\ Send \/ SendPanics \/ Discard
      /\ loop = "warn" /\ loop' = "sleep"
      /\ UNCHANGED <<closed, batch, cont, attempt, tick, lost, dropped, calls, failures>>
  BY DEF LogRetry, At, TryAppendEntry
<1>2. Fifo' /\ Rows' /\ Lost' /\ lost' \in SUBSET (1 .. accepted')
  <2>1. BatchCopies' = BatchCopies
    BY <1>1 DEF BatchCopies
  <2> QED
    BY <1>1, <2>1, TryAppendKeeps
<1>3. /\ in' \in Seq(Nat \ {0}) /\ Len(in') <= Capacity
      /\ accepted' \in Nat
      /\ copies' \in Seq(Nat) /\ Len(copies') = accepted'
      /\ panicked' \in BOOLEAN /\ (panicked' => panicked \/ closed)
      /\ closed => in' = in
  BY <1>1, Numbers, TryAppendFacts DEF IInv
<1>4. TypeOK'
  <2>1. /\ closed' \in BOOLEAN /\ batch' \in Seq(Nat \ {0}) /\ Len(batch') <= BatchSize
        /\ loop' \in LoopStates /\ cont' \in {"reset", "select", "exit"}
        /\ attempt' \in 0 .. MaxRetries /\ tick' \in BOOLEAN /\ dropped' \in Nat
        /\ calls' \in 0 .. MaxCalls /\ failures' \in 0 .. MaxFailures
    BY <1>1 DEF IInv, TypeOK, LoopStates
  <2> QED
    BY <1>2, <1>3, <2>1 DEF TypeOK
<1>5. Control'
  BY <1>1, <1>3 DEF IInv, Control, Flushing
<1> QED
  BY <1>2, <1>4, <1>5 DEF IInv

\* The k numbers that follow a.
LEMMA NextNumbers ==
    ASSUME NEW a \in Nat, NEW k \in Nat
    PROVE  IsFiniteSet((a + 1) .. (a + k)) /\ Cardinality((a + 1) .. (a + k)) = k
<1>1. a + 1 \in Int /\ a + k \in Int
  OBVIOUS
<1>2. /\ IsFiniteSet((a + 1) .. (a + k))
      /\ Cardinality((a + 1) .. (a + k))
           = IF a + 1 > a + k THEN 0 ELSE (a + k) - (a + 1) + 1
  BY <1>1, FS_Interval
<1>3. (IF a + 1 > a + k THEN 0 ELSE (a + k) - (a + 1) + 1) = k
  OBVIOUS
<1> QED
  BY <1>2, <1>3

\* The entries of the batch are the numbers that follow the settled ones.
LEMMA BatchNumbers ==
    ASSUME TypeOK, Fifo
    PROVE  {batch[i] : i \in 1 .. Len(batch)} = (Settled + 1) .. (Settled + Len(batch))
<1>0. Len(batch) \in Nat /\ Settled \in Nat
  BY Numbers
<1>1. \A i \in 1 .. Len(batch) : batch[i] = Settled + i
  BY DEF Fifo
<1>2. ASSUME NEW n \in (Settled + 1) .. (Settled + Len(batch))
      PROVE  n \in {batch[i] : i \in 1 .. Len(batch)}
  <2>1. n - Settled \in 1 .. Len(batch) /\ batch[n - Settled] = n
    BY <1>0, <1>1
  <2> QED
    BY <2>1
<1>3. ASSUME NEW i \in 1 .. Len(batch)
      PROVE  batch[i] \in (Settled + 1) .. (Settled + Len(batch))
  BY <1>0, <1>1
<1> QED
  BY <1>2, <1>3

\* A flush that returns settles the whole batch.
LEMMA BatchSettles ==
    ASSUME TypeOK, Fifo, batch' = <<>>, UNCHANGED <<in, accepted>>
    PROVE  Settled' = Settled + Len(batch) /\ Fifo' /\ batch' \in Seq(Nat \ {0}) /\ Len(batch') = 0
<1>1. /\ accepted \in Nat /\ Len(batch) \in Nat /\ Len(in) \in Nat
      /\ Settled \in Nat /\ accepted = Settled + Len(batch) + Len(in)
      /\ Youngest
  BY Numbers
<1>2. Len(batch') = 0 /\ batch' \in Seq(Nat \ {0})
  OBVIOUS
<1>3. in' = in /\ accepted' = accepted /\ in \in Seq(Nat \ {0})
  BY DEF TypeOK
<1>4. Settled' = Settled + Len(batch)
  BY <1>1, <1>2, <1>3 DEF Settled
<1>5. Youngest'
  BY <1>1, <1>3 DEF Youngest
<1>6. Fifo'
  <2>1. 1 .. Len(batch') = {} /\ Settled' >= 0
    BY <1>1, <1>2, <1>4
  <2> QED
    BY <1>1, <1>2, <1>3, <1>5, <2>1, SettledFifo
<1> QED
  BY <1>2, <1>4, <1>6

\* A successful insert gives every entry of the batch a row and settles it.
LEMMA InsertOKKeeps == ASSUME IInv, InsertOK PROVE IInv'
<1>1. /\ loop = "insert" /\ copies' = Stored /\ batch' = <<>>
      /\ loop' = (IF cont = "exit" THEN "done" ELSE "select")
      /\ tick' \in BOOLEAN
      /\ UNCHANGED <<in, closed, cont, attempt, accepted, lost, dropped, panicked, calls, failures>>
  BY DEF InsertOK, AfterFlush, At, IInv, TypeOK
<1>2. TypeOK /\ Fifo /\ Control /\ Rows /\ Lost
  BY DEF IInv
<1>3. /\ accepted \in Nat /\ Len(batch) \in Nat /\ Len(in) \in Nat
      /\ Settled \in Nat /\ accepted = Settled + Len(batch) + Len(in)
      /\ \A n \in 1 .. accepted : copies[n] \in Nat
      /\ attempt \in 0 .. MaxRetries /\ MaxRetries \in Nat
  BY <1>2, Numbers
<1>4. /\ Settled' = Settled + Len(batch) /\ Fifo'
      /\ batch' \in Seq(Nat \ {0}) /\ Len(batch') = 0
  BY <1>1, <1>2, BatchSettles
<1>5. /\ copies' \in Seq(Nat) /\ Len(copies') = accepted
      /\ \A n \in 1 .. accepted :
            copies'[n] = IF n > Settled /\ n <= Settled + Len(batch)
                         THEN copies[n] + 1 ELSE copies[n]
  BY <1>1, <1>2, StoredFacts
<1>6. TypeOK'
  <2>1. Len(batch') <= BatchSize
    BY <1>4, BatcherAssumption
  <2>2. loop' \in LoopStates
    BY <1>1 DEF LoopStates
  <2> QED
    BY <1>1, <1>2, <1>4, <1>5, <2>1, <2>2 DEF TypeOK
<1>7. Control'
  <2>1. Len(batch') < BatchSize
    BY <1>4, BatcherAssumption
  <2> QED
    BY <1>1, <1>2, <2>1 DEF Control, Flushing
<1>8. Rows'
  <2>1. \A n \in 1 .. accepted : n > Settled => copies[n] <= attempt - 1
    BY <1>1, <1>2 DEF Rows, BatchCopies
  <2>2. \A n \in 1 .. Settled' : n \in 1 .. accepted
    BY <1>3, <1>4
  <2>3. ASSUME NEW n \in 1 .. Settled'
        PROVE  copies'[n] <= MaxRetries
    <3>1. n \in 1 .. accepted /\ copies[n] \in Nat
      BY <1>3, <2>2
    <3>2. CASE n <= Settled
      <4>1. n \in 1 .. Settled /\ copies'[n] = copies[n]
        BY <1>3, <1>5, <3>1, <3>2
      <4> QED
        BY <1>2, <4>1 DEF Rows
    <3>3. CASE n > Settled
      <4>1. copies[n] <= attempt - 1 /\ copies'[n] = copies[n] + 1
        BY <1>3, <1>4, <1>5, <2>1, <3>1, <3>3
      <4> QED
        BY <1>3, <3>1, <4>1
    <3> QED
      BY <3>2, <3>3, <1>3, <3>1
  <2>4. ASSUME NEW n \in 1 .. accepted', n > Settled'
        PROVE  copies'[n] = 0
    <3>1. n \in 1 .. accepted /\ n > Settled + Len(batch) /\ copies'[n] = copies[n]
      BY <1>1, <1>3, <1>4, <1>5, <2>4
    <3> QED
      BY <1>2, <3>1 DEF Rows
  <2>5. BatchCopies' = 0
    BY <1>1 DEF BatchCopies
  <2>6. \A n \in 1 .. Settled' : copies'[n] > 0 \/ n \in lost'
    BY <1>1, <1>2, <1>3, <1>4, <1>5, <2>2 DEF Rows
  <2>7. \A n \in 1 .. accepted' : n > Settled' + Len(batch') => copies'[n] = 0
    BY <1>1, <1>3, <1>4, <2>4
  <2>8. \A n \in 1 .. accepted' : n > Settled' => copies'[n] <= BatchCopies'
    BY <2>4, <2>5
  <2> QED
    BY <2>3, <2>6, <2>7, <2>8 DEF Rows
<1>9. Lost'
  <2>1. \A n \in lost : n \in Nat /\ n <= Settled
    BY <1>1, <1>2 DEF Lost, LostSoFar, TypeOK
  <2>2. LostSoFar' = Settled + Len(batch) /\ loop' # "error"
    BY <1>1, <1>4 DEF LostSoFar
  <2>3. \A n \in lost' : n <= LostSoFar'
    BY <1>1, <1>3, <2>1, <2>2
  <2> QED
    BY <1>1, <1>2, <2>2, <2>3 DEF Lost
<1> QED
  BY <1>4, <1>6, <1>7, <1>8, <1>9 DEF IInv

\* A failed insert may have added rows; after the last attempt the whole batch
\* is counted as lost, and none of its entries was counted before.
LEMMA InsertFailsKeeps == ASSUME IInv, InsertFails PROVE IInv'
<1>1. /\ loop = "insert" /\ copies' \in {copies, Stored}
      /\ failures < MaxFailures /\ failures' = failures + 1
      /\ UNCHANGED <<in, closed, batch, cont, attempt, tick, accepted, panicked, calls>>
  BY DEF InsertFails, At
<1>2. TypeOK /\ Fifo /\ Control /\ Rows /\ Lost
  BY DEF IInv
<1>3. /\ accepted \in Nat /\ Len(batch) \in Nat /\ Len(in) \in Nat
      /\ Settled \in Nat /\ accepted = Settled + Len(batch) + Len(in)
      /\ \A n \in 1 .. accepted : copies[n] \in Nat
      /\ lost \in SUBSET (1 .. accepted) /\ dropped \in Nat
      /\ attempt \in 0 .. MaxRetries /\ MaxRetries \in Nat
  BY <1>2, Numbers
<1>4. Len(batch) > 0 /\ attempt >= 1
  BY <1>1, <1>2 DEF Control, Flushing
<1>5. Settled' = Settled /\ Fifo'
  BY <1>1, <1>2 DEF Fifo, Settled
<1>6. /\ copies' \in Seq(Nat) /\ Len(copies') = accepted
      /\ \A n \in 1 .. accepted :
            /\ copies'[n] >= copies[n] /\ copies'[n] <= copies[n] + 1
            /\ n <= Settled \/ n > Settled + Len(batch) => copies'[n] = copies[n]
  <2>1. CASE copies' = copies
    BY <1>2, <1>3, <2>1 DEF TypeOK
  <2>2. CASE copies' = Stored
    BY <1>2, <1>3, <2>2, StoredFacts
  <2> QED
    BY <1>1, <2>1, <2>2
<1>7. \/ attempt >= MaxRetries /\ loop' = "error" /\ dropped' = dropped + Len(batch)
         /\ lost' = lost \cup {batch[i] : i \in 1 .. Len(batch)}
      \/ attempt < MaxRetries /\ loop' = "warn" /\ dropped' = dropped /\ lost' = lost
  BY <1>3 DEF InsertFails
<1>8. /\ \A n \in lost : n \in Nat /\ n <= Settled
      /\ IsFiniteSet(lost) /\ dropped = Cardinality(lost)
  <2>1. IsFiniteSet(1 .. accepted)
    BY <1>3, FS_Interval
  <2>2. IsFiniteSet(lost)
    BY <1>3, <2>1, FS_Subset
  <2> QED
    BY <1>1, <1>2, <1>3, <2>2 DEF Lost, LostSoFar
<1>9. {batch[i] : i \in 1 .. Len(batch)} = (Settled + 1) .. (Settled + Len(batch))
  BY <1>2, BatchNumbers
<1>10. lost' \in SUBSET (1 .. accepted) /\ dropped' \in Nat
  <2>1. (Settled + 1) .. (Settled + Len(batch)) \subseteq 1 .. accepted
    BY <1>3
  <2>2. dropped' \in Nat
    BY <1>3, <1>7
  <2>3. lost' = lost \/ lost' = lost \cup ((Settled + 1) .. (Settled + Len(batch)))
    BY <1>7, <1>9
  <2> QED
    BY <1>3, <2>1, <2>2, <2>3
<1>11. TypeOK'
  <2>1. loop' \in LoopStates
    BY <1>7 DEF LoopStates
  <2>2. failures' \in 0 .. MaxFailures
    BY <1>1, <1>2, BatcherAssumption DEF TypeOK
  <2> QED
    BY <1>1, <1>2, <1>6, <1>10, <2>1, <2>2 DEF TypeOK
<1>12. Control'
  BY <1>1, <1>2, <1>4, <1>7 DEF Control, Flushing
<1>13. Rows'
  <2>1. BatchCopies = attempt - 1 /\ BatchCopies' = attempt
    BY <1>1, <1>7 DEF BatchCopies
  <2>2. \A n \in 1 .. Settled : n \in 1 .. accepted /\ copies'[n] = copies[n]
    BY <1>3, <1>6
  <2>3. \A n \in 1 .. accepted : n > Settled => copies[n] <= attempt - 1
    BY <1>2, <2>1 DEF Rows
  <2>4. \A n \in 1 .. accepted : n > Settled => copies'[n] <= attempt
    BY <1>3, <1>6, <2>3
  <2>5. \A n \in 1 .. accepted : n > Settled + Len(batch) => copies'[n] = 0
    BY <1>2, <1>6 DEF Rows
  <2>6. \A n \in 1 .. Settled : copies'[n] <= MaxRetries /\ (copies'[n] > 0 \/ n \in lost')
    BY <1>2, <1>7, <2>2 DEF Rows
  <2> QED
    BY <1>1, <1>5, <2>1, <2>4, <2>5, <2>6 DEF Rows
<1>14. Lost'
  <2>1. CASE loop' = "error"
    <3>1. /\ dropped' = dropped + Len(batch)
          /\ lost' = lost \cup ((Settled + 1) .. (Settled + Len(batch)))
      BY <1>7, <1>9, <2>1
    <3>2. LostSoFar' = Settled + Len(batch)
      BY <1>1, <1>5, <2>1 DEF LostSoFar
    <3>3. \A n \in lost' : n <= LostSoFar'
      BY <1>3, <1>8, <3>1, <3>2
    <3>4. \A n \in 1 .. accepted' :
             n > Settled' /\ n <= Settled' + Len(batch') => n \in lost'
      BY <1>1, <1>3, <1>5, <3>1
    <3>5. dropped' = Cardinality(lost')
      <4>1. /\ IsFiniteSet((Settled + 1) .. (Settled + Len(batch)))
            /\ Cardinality((Settled + 1) .. (Settled + Len(batch))) = Len(batch)
        BY <1>3, NextNumbers
      <4>2. lost \cap ((Settled + 1) .. (Settled + Len(batch))) = {}
        BY <1>3, <1>8
      <4>3. Cardinality(lost') = Cardinality(lost) + Len(batch) - Cardinality({})
        <5> DEFINE group == (Settled + 1) .. (Settled + Len(batch))
        <5>1. IsFiniteSet(lost) /\ IsFiniteSet(group)
          BY <1>8, <4>1
        <5>2. Cardinality(lost \cup group)
                 = Cardinality(lost) + Cardinality(group) - Cardinality(lost \cap group)
          <6> HIDE DEF group
          <6> QED
            BY <5>1, FS_Union
        <5> QED
          BY <3>1, <4>1, <4>2, <5>2
      <4> QED
        BY <1>3, <1>8, <3>1, <4>3, FS_EmptySet
    <3> QED
      BY <2>1, <3>3, <3>4, <3>5 DEF Lost
  <2>2. CASE loop' = "warn"
    <3>1. dropped' = dropped /\ lost' = lost
      BY <1>7, <2>2
    <3>2. LostSoFar' = LostSoFar
      BY <1>1, <1>5, <2>2 DEF LostSoFar
    <3> QED
      BY <1>2, <2>2, <3>1, <3>2 DEF Lost
  <2> QED
    BY <1>7, <2>1, <2>2
<1> QED
  BY <1>5, <1>11, <1>12, <1>13, <1>14 DEF IInv

\* The record about a lost batch may itself be accepted; then flush returns.
LEMMA LogDroppedKeeps == ASSUME IInv, LogDropped PROVE IInv'
<1>1. /\ Send \/ SendPanics \/ Discard
      /\ loop = "error" /\ batch' = <<>>
      /\ loop' = (IF cont = "exit" THEN "done" ELSE "select")
      /\ tick' \in BOOLEAN
      /\ UNCHANGED <<closed, cont, attempt, lost, dropped, calls, failures>>
  BY DEF LogDropped, At, TryAppendEntry, AfterFlush, IInv, TypeOK
<1>2. TypeOK /\ Fifo /\ Control /\ Rows /\ Lost
  BY DEF IInv
<1>3. /\ accepted \in Nat /\ Len(batch) \in Nat /\ Len(in) \in Nat
      /\ Settled \in Nat /\ accepted = Settled + Len(batch) + Len(in)
      /\ \A n \in 1 .. accepted : copies[n] \in Nat
      /\ lost \in SUBSET (1 .. accepted)
      /\ attempt \in 0 .. MaxRetries /\ MaxRetries \in Nat
      /\ Youngest
  BY <1>2, Numbers
<1>4. /\ in' \in Seq(Nat \ {0}) /\ Len(in') <= Capacity
      /\ accepted' \in Nat /\ accepted' >= accepted
      /\ accepted' - Len(in') = accepted - Len(in)
      /\ copies' \in Seq(Nat) /\ Len(copies') = accepted'
      /\ \A n \in 1 .. accepted : copies'[n] = copies[n]
      /\ \A n \in 1 .. accepted' : n > accepted => copies'[n] = 0
      /\ Youngest'
      /\ panicked' \in BOOLEAN /\ (panicked' => panicked \/ closed)
      /\ closed => in' = in
  BY <1>1, <1>2, <1>3, TryAppendFacts
<1>5. /\ Len(batch') = 0 /\ batch' \in Seq(Nat \ {0}) /\ Len(in') \in Nat
  BY <1>1, <1>4
<1>6. Settled' = Settled + Len(batch)
  BY <1>3, <1>4, <1>5 DEF Settled
<1>7. Fifo'
  <2>1. 1 .. Len(batch') = {} /\ Settled' >= 0
    BY <1>3, <1>5, <1>6
  <2> QED
    BY <1>4, <1>5, <2>1, SettledFifo
<1>8. TypeOK'
  <2>1. Len(batch') <= BatchSize
    BY <1>5, BatcherAssumption
  <2>2. loop' \in LoopStates
    BY <1>1 DEF LoopStates
  <2>3. lost' \in SUBSET (1 .. accepted')
    BY <1>1, <1>3, <1>4
  <2>4. /\ closed' \in BOOLEAN /\ cont' \in {"reset", "select", "exit"}
        /\ attempt' \in 0 .. MaxRetries /\ dropped' \in Nat
        /\ calls' \in 0 .. MaxCalls /\ failures' \in 0 .. MaxFailures
    BY <1>1, <1>2 DEF TypeOK
  <2> QED
    BY <1>1, <1>4, <1>5, <2>1, <2>2, <2>3, <2>4 DEF TypeOK
<1>9. Control'
  <2>1. Len(batch') < BatchSize
    BY <1>5, BatcherAssumption
  <2> QED
    BY <1>1, <1>2, <1>4, <2>1 DEF Control, Flushing
<1>10. \A n \in 1 .. Settled' : n \in 1 .. accepted /\ copies'[n] = copies[n]
  BY <1>3, <1>4, <1>6
<1>11. Rows'
  <2>1. \A n \in 1 .. accepted : n > Settled => copies[n] <= attempt
    BY <1>1, <1>2 DEF Rows, BatchCopies
  <2>2. \A n \in 1 .. Settled' : copies[n] <= MaxRetries
    <3> SUFFICES ASSUME NEW n \in 1 .. Settled' PROVE copies[n] <= MaxRetries
      OBVIOUS
    <3>1. n \in 1 .. accepted /\ copies[n] \in Nat
      BY <1>3, <1>10
    <3>2. CASE n <= Settled
      BY <1>2, <1>3, <3>1, <3>2 DEF Rows
    <3>3. CASE n > Settled
      BY <1>3, <2>1, <3>1, <3>3
    <3> QED
      BY <1>3, <3>1, <3>2, <3>3
  <2>3. ASSUME NEW n \in 1 .. accepted', n > Settled'
        PROVE  copies'[n] = 0
    <3>1. CASE n > accepted
      BY <1>4, <3>1
    <3>2. CASE n <= accepted
      <4>1. n \in 1 .. accepted /\ n > Settled + Len(batch)
        BY <1>3, <1>4, <1>6, <2>3, <3>2
      <4> QED
        BY <1>2, <1>4, <4>1 DEF Rows
    <3> QED
      BY <1>3, <3>1, <3>2
  <2>4. ASSUME NEW n \in 1 .. Settled'
        PROVE  copies'[n] > 0 \/ n \in lost'
    <3>1. CASE n <= Settled
      <4>1. n \in 1 .. Settled
        BY <1>3, <3>1
      <4> QED
        BY <1>1, <1>2, <1>10, <4>1 DEF Rows
    <3>2. CASE n > Settled
      <4>1. n \in 1 .. accepted /\ n > Settled /\ n <= Settled + Len(batch)
        BY <1>3, <1>6, <1>10, <3>2
      <4> QED
        BY <1>1, <1>2, <4>1 DEF Lost
    <3> QED
      BY <1>3, <1>6, <3>1, <3>2
  <2>5. BatchCopies' = 0
    BY <1>1 DEF BatchCopies
  <2>6. \A n \in 1 .. accepted' : n > Settled' + Len(batch') => copies'[n] = 0
    BY <1>3, <1>5, <1>6, <2>3
  <2>7. \A n \in 1 .. accepted' : n > Settled' => copies'[n] <= BatchCopies'
    BY <2>3, <2>5
  <2>8. \A n \in 1 .. Settled' : copies'[n] <= MaxRetries
    BY <1>10, <2>2
  <2> QED
    BY <2>4, <2>6, <2>7, <2>8 DEF Rows
<1>12. Lost'
  <2>1. LostSoFar' = LostSoFar /\ loop' # "error"
    BY <1>1, <1>6 DEF LostSoFar
  <2> QED
    BY <1>1, <1>2, <2>1 DEF Lost
<1> QED
  BY <1>7, <1>8, <1>9, <1>11, <1>12 DEF IInv

\* The inductive step: one lemma per action.
LEMMA NextIInv == IInv /\ [Next]_vars => IInv'
<1> SUFFICES ASSUME IInv, [Next]_vars PROVE IInv'
  OBVIOUS
<1>1. CASE AppendEntry \/ SelfLog
  BY <1>1, CallersKeep
<1>2. CASE Close
  BY <1>2, CloseKeeps
<1>3. CASE Receive
  BY <1>3, ReceiveKeeps
<1>4. CASE ReceiveClosed \/ ReceiveTick
  BY <1>4, FlushKeeps
<1>5. CASE InsertOK
  BY <1>5, InsertOKKeeps
<1>6. CASE InsertFails
  BY <1>6, InsertFailsKeeps
<1>7. CASE LogRetry
  BY <1>7, LogRetryKeeps
<1>8. CASE Wake
  BY <1>8, WakeKeeps
<1>9. CASE LogDropped
  BY <1>9, LogDroppedKeeps
<1>10. CASE TickerFires
  BY <1>10, TickerKeeps
<1>11. CASE UNCHANGED vars
  <2>1. UNCHANGED <<in, closed, batch, loop, cont, attempt, tick, accepted, copies, lost,
                    dropped, panicked, calls, failures>>
    BY <1>11 DEF vars
  <2>2. TypeOK'
    BY <2>1 DEF IInv, TypeOK
  <2>3. Settled' = Settled /\ Fifo'
    BY <2>1 DEF IInv, Fifo, Settled
  <2>4. Control'
    BY <2>1 DEF IInv, Control, Flushing
  <2>5. Rows' /\ Lost'
    BY <2>1, <2>3 DEF IInv, Rows, Lost, LostSoFar, BatchCopies
  <2> QED
    BY <2>2, <2>3, <2>4, <2>5 DEF IInv
<1> QED
  BY <1>1, <1>2, <1>3, <1>4, <1>5, <1>6, <1>7, <1>8, <1>9, <1>10, <1>11
     DEF Next, Callers, LoopStep, Ended

\* In every reachable state of the batcher the inductive invariant holds.
THEOREM Invariance == Safety => []IInv
BY InitIInv, NextIInv, PTL DEF Safety

\* The variables keep their types: the channel never holds more than its
\* capacity, the batch never more than BatchSize, and the attempts stay within
\* MaxRetries.
THEOREM TypeCorrect == Safety => []TypeOK
<1>1. IInv => TypeOK
  BY DEF IInv
<1> QED
  BY <1>1, Invariance, PTL

\* Entries reach InsertBatch in the order in which Append and TryAppend
\* accepted them, none skipped and none twice in a batch.
THEOREM FifoHolds == Safety => []Fifo
<1>1. IInv => Fifo
  BY DEF IInv
<1> QED
  BY <1>1, Invariance, PTL

\* No entry leaves the batcher without a row or a count in Dropped().
THEOREM NoSilentLossHolds == Safety => []NoSilentLoss
<1>1. IInv => NoSilentLoss
  BY DEF IInv, Rows, Lost, NoSilentLoss
<1> QED
  BY <1>1, Invariance, PTL

\* Nothing panics before Close, and the loop returns with nothing left behind.
THEOREM PanicOnlyAfterCloseHolds == Safety => []PanicOnlyAfterClose
<1>1. IInv => PanicOnlyAfterClose
  BY DEF IInv, Control, PanicOnlyAfterClose
<1> QED
  BY <1>1, Invariance, PTL

\* However often an insert errs after its rows were written, an entry has at
\* most MaxRetries rows, and an entry that waits in the channel has none.
THEOREM BoundedCopiesHolds == Safety => []BoundedCopies
<1>1. IInv => BoundedCopies
  <2> SUFFICES ASSUME IInv PROVE BoundedCopies
    OBVIOUS
  <2>1. /\ accepted \in Nat /\ Len(batch) \in Nat /\ Len(in) \in Nat
        /\ Settled \in Nat /\ accepted = Settled + Len(batch) + Len(in)
        /\ attempt \in 0 .. MaxRetries /\ MaxRetries \in Nat
        /\ \A n \in 1 .. accepted : copies[n] \in Nat
    BY Numbers DEF IInv
  <2>2. BatchCopies \in Int /\ BatchCopies <= MaxRetries
    BY <2>1 DEF BatchCopies
  <2>3. ASSUME NEW n \in 1 .. accepted PROVE copies[n] <= MaxRetries
    <3>1. CASE n <= Settled
      BY <2>1, <3>1 DEF IInv, Rows
    <3>2. CASE n > Settled
      <4>1. copies[n] <= BatchCopies
        BY <3>2 DEF IInv, Rows
      <4> QED
        BY <2>1, <2>2, <4>1
    <3> QED
      BY <2>1, <3>1, <3>2
  <2>4. ASSUME NEW i \in 1 .. Len(in) PROVE copies[in[i]] = 0
    <3>1. in[i] = Settled + Len(batch) + i
      BY DEF IInv, Fifo
    <3>2. in[i] \in 1 .. accepted /\ in[i] > Settled + Len(batch)
      BY <2>1, <3>1
    <3> QED
      BY <3>2 DEF IInv, Rows
  <2> QED
    BY <2>3, <2>4 DEF BoundedCopies
<1> QED
  BY <1>1, Invariance, PTL

\* A step that adds a row to an entry leaves no earlier entry without a row,
\* unless that one was given up.
THEOREM StoredInOrderHolds == Safety => StoredInOrder
<1> DEFINE Ordered == \A n \in 1 .. accepted : copies'[n] > copies[n] =>
                         \A m \in 1 .. n : copies'[m] > 0 \/ m \in lost
<1>1. IInv /\ [Next]_vars => [Ordered]_vars
  <2> SUFFICES ASSUME IInv, Next PROVE Ordered
    BY Zenon
  <2>1. TypeOK /\ Fifo /\ Rows
    BY DEF IInv
  <2>2. /\ accepted \in Nat /\ Len(batch) \in Nat /\ Len(in) \in Nat
        /\ Settled \in Nat /\ accepted = Settled + Len(batch) + Len(in)
        /\ \A n \in 1 .. accepted : copies[n] \in Nat
        /\ Youngest
    BY <2>1, Numbers
  <2>3. CASE \A n \in 1 .. accepted : copies'[n] = copies[n]
    <3>1. \A n \in 1 .. accepted : ~(copies'[n] > copies[n])
      BY <2>2, <2>3
    <3> QED
      BY <3>1
  <2>4. CASE copies' = Stored
    <3> SUFFICES ASSUME NEW n \in 1 .. accepted, copies'[n] > copies[n], NEW m \in 1 .. n
                 PROVE  copies'[m] > 0 \/ m \in lost
      OBVIOUS
    <3>1. \A k \in 1 .. accepted :
             copies'[k] = IF k > Settled /\ k <= Settled + Len(batch)
                          THEN copies[k] + 1 ELSE copies[k]
      BY <2>1, <2>4, StoredFacts
    <3>2. n <= Settled + Len(batch) /\ m \in 1 .. accepted /\ m <= n
      BY <2>2, <3>1
    <3>3. CASE m <= Settled
      <4>1. m \in 1 .. Settled /\ copies'[m] = copies[m]
        BY <2>2, <3>1, <3>2, <3>3
      <4> QED
        BY <2>1, <4>1 DEF Rows
    <3>4. CASE m > Settled
      BY <2>2, <3>1, <3>2, <3>4, SMTT(60)
    <3> QED
      BY <2>2, <3>2, <3>3, <3>4
  <2>5. CASE Send \/ SendPanics \/ Discard
    BY <2>1, <2>2, <2>3, <2>5, TryAppendFacts
  <2>6. (\A n \in 1 .. accepted : copies'[n] = copies[n]) \/ copies' = Stored
        \/ Send \/ SendPanics \/ Discard
    <3>1. CASE copies' = copies
      BY <3>1
    <3>2. CASE AppendEntry \/ SelfLog \/ LogRetry \/ LogDropped
      BY <3>2 DEF AppendEntry, SelfLog, LogRetry, LogDropped, TryAppendEntry
    <3>3. CASE InsertOK \/ InsertFails
      BY <3>1, <3>3 DEF InsertOK, InsertFails
    <3>4. CASE Close \/ Receive \/ ReceiveClosed \/ ReceiveTick \/ Wake \/ TickerFires \/ Ended
      BY <3>1, <3>4 DEF Close, Receive, ReceiveClosed, ReceiveTick, Wake, TickerFires, Ended, vars
    <3> QED
      BY <3>2, <3>3, <3>4 DEF Next, Callers, LoopStep
  <2> QED
    BY <2>3, <2>4, <2>5, <2>6
<1> QED
  BY <1>1, Invariance, PTL DEF Safety, StoredInOrder

-----------------------------------------------------------------------------
(* Refinement of the ledger *)

\* A step that changes neither the history, nor what is settled, nor the
\* phase is a stuttering step of the ledger.
LEMMA LedgerStutters ==
    ASSUME accepted' = accepted, LostSoFar' = LostSoFar, lost' = lost, Phase' = Phase
    PROVE  UNCHANGED Ledger!ledgerVars
BY DEF Ledger!ledgerVars, LostSoFar

\* A call of TryAppend is an Accept, a Crash or a stuttering step of the ledger.
LEMMA TryAppendRefines ==
    ASSUME IInv, Send \/ SendPanics \/ Discard, ~panicked,
           LostSoFar' = LostSoFar, UNCHANGED <<closed, lost>>,
           ~closed => loop' # "done"
    PROVE  Ledger!Next \/ UNCHANGED Ledger!ledgerVars
<1>1. ~closed => loop # "done"
  BY DEF IInv, Control
<1>2. CASE Send
  <2>1. ~closed /\ accepted' = accepted + 1 /\ panicked' = panicked
    BY <1>2 DEF Send
  <2>2. Phase = "open" /\ Phase' = "open"
    BY <1>1, <2>1 DEF Phase
  <2>3. Ledger!Accept
    BY <2>1, <2>2 DEF Ledger!Accept, LostSoFar
  <2> QED
    BY <2>3 DEF Ledger!Next
<1>3. CASE SendPanics
  <2>1. closed /\ panicked' = TRUE /\ accepted' = accepted
    BY <1>3 DEF SendPanics
  <2>2. Phase \in {"closed", "finished"} /\ Phase' = "crashed"
    BY <2>1 DEF Phase
  <2>3. Ledger!Crash
    BY <2>1, <2>2 DEF Ledger!Crash, LostSoFar
  <2> QED
    BY <2>3 DEF Ledger!Next
<1>4. CASE Discard
  <2>1. ~closed /\ accepted' = accepted /\ panicked' = panicked
    BY <1>4 DEF Discard
  <2>2. Phase' = Phase
    BY <1>1, <2>1 DEF Phase
  <2> QED
    BY <2>1, <2>2, LedgerStutters
<1> QED
  BY <1>2, <1>3, <1>4

\* Every step of the batcher is a step of the ledger or leaves it unchanged.
LEMMA StepRefines ==
    ASSUME IInv, IInv', Next
    PROVE  Ledger!Next \/ UNCHANGED Ledger!ledgerVars
<1>0. /\ accepted \in Nat /\ Len(batch) \in Nat /\ Len(in) \in Nat
      /\ Settled \in Nat /\ accepted = Settled + Len(batch) + Len(in)
      /\ BatchSize \in Nat /\ Len(batch) <= BatchSize
  BY Numbers DEF IInv, TypeOK
<1>1. CASE AppendEntry \/ SelfLog
  <2>1. /\ Send \/ SendPanics \/ Discard
        /\ ~panicked /\ UNCHANGED <<closed, batch, loop, lost>>
    BY <1>1 DEF AppendEntry, SelfLog, TryAppendEntry, loopVars
  <2>2. LostSoFar' = LostSoFar
    <3>1. accepted' - Len(in') = accepted - Len(in) /\ accepted' \in Nat /\ Len(in') \in Nat
      BY <2>1, Numbers, TryAppendFacts DEF IInv
    <3>2. Settled' = Settled
      BY <1>0, <2>1, <3>1, SMTT(60) DEF Settled
    <3> QED
      BY <2>1, <3>2 DEF LostSoFar
  <2>3. ~closed => loop' # "done"
    BY <2>1 DEF IInv, Control
  <2> QED
    BY <2>1, <2>2, <2>3, TryAppendRefines
<1>2. CASE Close
  <2>1. /\ ~panicked /\ ~closed /\ closed' = TRUE
        /\ UNCHANGED <<in, batch, loop, accepted, lost, panicked>>
    BY <1>2 DEF Close, loopVars
  <2>2. LostSoFar' = LostSoFar
    BY <2>1 DEF LostSoFar, Settled
  <2>3. Phase = "open" /\ Phase' = "closed"
    BY <2>1 DEF Phase, IInv, Control
  <2>4. Ledger!Close
    BY <2>1, <2>2, <2>3 DEF Ledger!Close, LostSoFar
  <2> QED
    BY <2>4 DEF Ledger!Next
<1>3. CASE Receive
  <2>1. /\ loop = "select" /\ loop' \in {"select", "insert"}
        /\ in # <<>> /\ in' = Tail(in) /\ batch' = Append(batch, Head(in))
        /\ UNCHANGED <<closed, accepted, lost, panicked>>
    BY <1>3 DEF Receive, At
  <2>2. Len(in') = Len(in) - 1 /\ Len(batch') = Len(batch) + 1
    BY <2>1 DEF IInv, TypeOK
  <2>3. Settled' = Settled
    BY <1>0, <2>1, <2>2 DEF Settled
  <2>4. LostSoFar' = LostSoFar /\ Phase' = Phase
    BY <2>1, <2>3 DEF LostSoFar, Phase
  <2> QED
    BY <2>1, <2>4, LedgerStutters
<1>4. CASE ReceiveClosed \/ ReceiveTick
  <2>1. /\ loop = "select" /\ ~panicked /\ loop' \in {"select", "insert", "done"}
        /\ UNCHANGED <<in, closed, batch, accepted, lost, panicked>>
        /\ loop' = "done" => batch = <<>> /\ in = <<>> /\ closed
    BY <1>4 DEF ReceiveClosed, ReceiveTick, At, Flush
  <2>2. LostSoFar' = LostSoFar
    BY <2>1 DEF LostSoFar, Settled
  <2>3. CASE loop' = "done"
    <3>1. Len(in) = 0 /\ Len(batch) = 0
      BY <2>1, <2>3
    <3>2. Phase = "closed" /\ Phase' = "finished"
      BY <2>1, <2>3 DEF Phase
    <3>3. LostSoFar = accepted
      BY <1>0, <2>1, <3>1 DEF LostSoFar
    <3>4. Ledger!Finish
      BY <2>1, <2>2, <3>2, <3>3 DEF Ledger!Finish, LostSoFar
    <3> QED
      BY <3>4 DEF Ledger!Next
  <2>4. CASE loop' # "done"
    <3>1. Phase' = Phase
      BY <2>1, <2>4 DEF Phase
    <3> QED
      BY <2>1, <2>2, <3>1, LedgerStutters
  <2> QED
    BY <2>3, <2>4
<1>5. CASE InsertOK
  <2>1. /\ loop = "insert" /\ ~panicked /\ batch' = <<>>
        /\ loop' = (IF cont = "exit" THEN "done" ELSE "select")
        /\ UNCHANGED <<in, closed, accepted, lost, panicked>>
    BY <1>5 DEF InsertOK, AfterFlush, At
  <2>2. Settled' = Settled + Len(batch)
    BY <2>1, BatchSettles DEF IInv
  <2>3. LostSoFar = Settled /\ LostSoFar' = Settled + Len(batch)
    BY <2>1, <2>2 DEF LostSoFar
  <2>4. Len(batch) \in 1 .. BatchSize /\ Settled + Len(batch) <= accepted
    BY <1>0, <2>1 DEF IInv, Control, Flushing
  <2>5. Phase \in {"open", "closed"}
    BY <2>1 DEF Phase
  <2>6. \/ Phase' = Phase
        \/ Phase = "closed" /\ LostSoFar' = accepted /\ Phase' = "finished"
    <3>1. CASE cont = "exit"
      <4>1. closed /\ Len(in) = 0
        BY <2>1, <3>1 DEF IInv, Control, Flushing
      <4> QED
        BY <1>0, <2>1, <2>3, <3>1, <4>1 DEF Phase
    <3>2. CASE cont # "exit"
      BY <2>1, <3>2 DEF Phase
    <3> QED
      BY <3>1, <3>2
  <2>7. Ledger!Settle
    BY <2>1, <2>3, <2>4, <2>5, <2>6 DEF Ledger!Settle, LostSoFar
  <2> QED
    BY <2>7 DEF Ledger!Next
<1>6. CASE InsertFails
  <2>1. /\ loop = "insert" /\ ~panicked
        /\ UNCHANGED <<in, closed, batch, accepted, panicked>>
    BY <1>6 DEF InsertFails, At
  <2>2. Settled' = Settled
    BY <2>1 DEF Settled
  <2>3. CASE loop' = "error"
    <3>1. lost' = lost \cup {batch[i] : i \in 1 .. Len(batch)}
      BY <1>6, <2>3 DEF InsertFails
    <3>2. {batch[i] : i \in 1 .. Len(batch)} = (Settled + 1) .. (Settled + Len(batch))
      BY BatchNumbers DEF IInv
    <3>3. LostSoFar = Settled /\ LostSoFar' = Settled + Len(batch)
      BY <2>1, <2>2, <2>3 DEF LostSoFar
    <3>4. Len(batch) \in 1 .. BatchSize /\ Settled + Len(batch) <= accepted
      BY <1>0, <2>1 DEF IInv, Control, Flushing
    <3>5. Phase \in {"open", "closed"} /\ Phase' = Phase
      BY <2>1, <2>3 DEF Phase
    <3>6. Ledger!Settle
      BY <2>1, <3>1, <3>2, <3>3, <3>4, <3>5 DEF Ledger!Settle, LostSoFar
    <3> QED
      BY <3>6 DEF Ledger!Next
  <2>4. CASE loop' # "error"
    <3>1. loop' = "warn" /\ lost' = lost
      BY <1>6, <2>4 DEF InsertFails
    <3>2. LostSoFar' = LostSoFar /\ Phase' = Phase
      BY <2>1, <2>2, <3>1 DEF LostSoFar, Phase
    <3> QED
      BY <2>1, <3>1, <3>2, LedgerStutters
  <2> QED
    BY <2>3, <2>4
<1>7. CASE LogRetry
  <2>1. /\ Send \/ SendPanics \/ Discard
        /\ loop = "warn" /\ loop' = "sleep"
        /\ ~panicked /\ UNCHANGED <<closed, batch, lost>>
    BY <1>7 DEF LogRetry, At, TryAppendEntry
  <2>2. LostSoFar' = LostSoFar
    <3>1. accepted' - Len(in') = accepted - Len(in) /\ accepted' \in Nat /\ Len(in') \in Nat
      BY <2>1, Numbers, TryAppendFacts DEF IInv
    <3>2. Settled' = Settled
      BY <1>0, <2>1, <3>1, SMTT(60) DEF Settled
    <3> QED
      BY <2>1, <3>2 DEF LostSoFar
  <2> QED
    BY <2>1, <2>2, TryAppendRefines
<1>8. CASE LogDropped
  <2>1. /\ Send \/ SendPanics \/ Discard
        /\ loop = "error" /\ batch' = <<>> /\ ~panicked
        /\ loop' = (IF cont = "exit" THEN "done" ELSE "select")
        /\ UNCHANGED <<closed, lost>>
    BY <1>8 DEF LogDropped, At, TryAppendEntry, AfterFlush
  <2>2. LostSoFar' = LostSoFar
    <3>1. accepted' - Len(in') = accepted - Len(in) /\ accepted' \in Nat /\ Len(in') \in Nat
      BY <2>1, Numbers, TryAppendFacts DEF IInv
    <3>2. Len(batch') = 0
      BY <2>1
    <3>3. Settled' = Settled + Len(batch)
      BY <1>0, <3>1, <3>2 DEF Settled
    <3> QED
      BY <2>1, <3>3 DEF LostSoFar
  <2>3. ~closed => loop' # "done"
    BY <2>1 DEF IInv, Control, Flushing
  <2> QED
    BY <2>1, <2>2, <2>3, TryAppendRefines
<1>9. CASE Wake \/ TickerFires
  <2>1. /\ loop' = loop \/ (loop = "sleep" /\ loop' = "insert")
        /\ UNCHANGED <<in, closed, batch, accepted, lost, panicked>>
    BY <1>9 DEF Wake, TickerFires, At
  <2>2. LostSoFar' = LostSoFar /\ Phase' = Phase
    BY <2>1 DEF LostSoFar, Settled, Phase
  <2> QED
    BY <2>1, <2>2, LedgerStutters
<1>10. CASE Ended
  <2>1. UNCHANGED <<in, closed, batch, loop, accepted, lost, panicked>>
    BY <1>10 DEF Ended, vars
  <2>2. LostSoFar' = LostSoFar /\ Phase' = Phase
    BY <2>1 DEF LostSoFar, Settled, Phase
  <2> QED
    BY <2>1, <2>2, LedgerStutters
<1> QED
  BY <1>1, <1>2, <1>3, <1>4, <1>5, <1>6, <1>7, <1>8, <1>9, <1>10
     DEF Next, Callers, LoopStep

\* The batcher implements the ledger.
THEOREM Refinement == Safety => RefinesLedger
<1>1. Init => Ledger!Init
  <2> SUFFICES ASSUME Init PROVE Ledger!Init
    OBVIOUS
  <2>1. Settled = 0
    <3>1. Len(in) = 0
      BY DEF Init
    <3>2. Len(batch) = 0
      BY DEF Init
    <3>3. accepted = 0
      BY DEF Init
    <3> QED
      BY <3>1, <3>2, <3>3 DEF Settled
  <2>2. Phase = "open" /\ loop = "select"
    BY DEF Init, Phase
  <2>3. accepted = 0 /\ lost = {}
    BY DEF Init
  <2> QED
    BY <2>1, <2>2, <2>3 DEF Ledger!Init
<1>2. IInv /\ IInv' /\ [Next]_vars => [Ledger!Next]_(Ledger!ledgerVars)
  <2>1. CASE UNCHANGED vars
    <3>1. UNCHANGED <<in, closed, batch, loop, accepted, lost, panicked>>
      BY <2>1 DEF vars
    <3>2. LostSoFar' = LostSoFar /\ Phase' = Phase
      BY <3>1 DEF LostSoFar, Settled, Phase
    <3>3. UNCHANGED Ledger!ledgerVars
      BY <3>1, <3>2, LedgerStutters
    <3> QED
      BY <3>3
  <2> QED
    BY <2>1, StepRefines
<1> QED
  BY <1>1, <1>2, Invariance, PTL DEF Safety, RefinesLedger, Ledger!Spec

=============================================================================
