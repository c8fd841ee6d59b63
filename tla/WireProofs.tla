----------------------------- MODULE WireProofs -----------------------------
(***************************************************************************)
(* Theorems about the byte-level decoders, syslog framing first and the    *)
(* journald export format after it: whatever a peer sends, what arrived    *)
(* whole comes out once, in order and unchanged.                           *)
(***************************************************************************)
EXTENDS SyslogFraming, JournalDecoder, SequenceTheorems, FiniteSetTheorems, WellFoundedInduction, TLAPS

-----------------------------------------------------------------------------
(* Induction and recursion up to a number *)

\* A set of numbers that holds 0 and with each number the next holds them all.
LEMMA Induction ==
    ASSUME NEW n \in Nat, NEW T, 0 \in T, \A i \in 1 .. n : i - 1 \in T => i \in T
    PROVE  0 .. n \subseteq T
<1> DEFINE less == {p \in Nat \X Nat : p[1] < p[2]}
           Out == (0 .. n) \ T
<1>1. IsWellFoundedOn(less, Nat)
  <2>1. OpToRel(<, Nat) = less
    BY Zenon DEF OpToRel
  <2> QED BY <2>1, NatLessThanWellFounded
<1>2. ASSUME Out # {} PROVE FALSE
  <2>1. Out \in SUBSET Nat
    OBVIOUS
  <2>2. PICK x \in Out : \A y \in Out : ~(<<y, x>> \in less)
    <3> HIDE DEF less, Out
    <3> QED BY <1>1, <1>2, <2>1, WFMin
  <2>3. x \in 1 .. n /\ x \notin T
    BY <2>2
  <2>4. x - 1 \in Nat /\ x - 1 \in 0 .. n /\ <<x - 1, x>> \in less
    BY <2>3
  <2>5. x - 1 \notin Out
    <3> HIDE DEF less, Out
    <3> QED BY <2>2, <2>4
  <2> QED BY <2>3, <2>4, <2>5
<1> QED BY <1>2

\* A function that is defined step by step up to n.
Follows(g, b, n, F) == g = [i \in 0 .. n |-> IF i = 0 THEN b ELSE F[<<g[i - 1], i>>]]

LEMMA Recursion ==
    ASSUME NEW S, NEW b \in S, NEW n \in Nat, NEW F \in [S \X (1 .. n) -> S]
    PROVE  \E g \in [0 .. n -> S] : Follows(g, b, n, F)
<1> DEFINE Is(g, k) == g \in [0 .. k -> S] /\ g[0] = b /\ \A i \in 1 .. k : g[i] = F[<<g[i - 1], i>>]
           T == {k \in 0 .. n : \E g : Is(g, k)}
<1>1. 0 \in T
  <2>1. Is([i \in 0 .. 0 |-> b], 0)
    OBVIOUS
  <2>2. \E g : Is(g, 0)
    <3> HIDE DEF Is
    <3> QED BY <2>1
  <2> QED BY <2>2
<1>2. ASSUME NEW k \in 1 .. n, k - 1 \in T PROVE k \in T
  <2>1. PICK g : Is(g, k - 1)
    <3> HIDE DEF Is
    <3> QED BY <1>2
  <2> DEFINE h == [i \in 0 .. k |-> IF i = k THEN F[<<g[k - 1], k>>] ELSE g[i]]
  <2>2. g[k - 1] \in S /\ k \in Nat /\ k # 0
    BY <2>1
  <2>3. F[<<g[k - 1], k>>] \in S
    BY <2>2
  <2>4. h \in [0 .. k -> S]
    BY <2>1, <2>3
  <2>5. h[0] = b
    BY <2>1, <2>2
  <2>6. ASSUME NEW i \in 1 .. k PROVE h[i] = F[<<h[i - 1], i>>]
    <3>1. CASE i = k
      <4>1. h[i] = F[<<g[k - 1], k>>] /\ h[i - 1] = g[i - 1]
        BY <3>1, <2>2
      <4> HIDE DEF h
      <4> QED BY <3>1, <4>1
    <3>2. CASE i # k
      <4>1. i \in 1 .. (k - 1) /\ i - 1 \in 0 .. k /\ i - 1 # k /\ i \in 0 .. k
        BY <3>2
      <4>2. h[i] = g[i] /\ h[i - 1] = g[i - 1]
        BY <3>2, <4>1
      <4>3. g[i] = F[<<g[i - 1], i>>]
        BY <2>1, <4>1
      <4> HIDE DEF h
      <4> QED BY <4>2, <4>3
    <3> QED BY <3>1, <3>2
  <2>7. Is(h, k)
    <3> HIDE DEF h
    <3> QED BY <2>4, <2>5, <2>6
  <2>8. \E f : Is(f, k)
    <3> HIDE DEF Is, h
    <3> QED BY <2>7
  <2> HIDE DEF Is
  <2> QED BY <2>8
<1>3. 0 .. n \subseteq T
  <2> HIDE DEF T
  <2> QED BY <1>1, <1>2, Induction
<1>4. PICK g : Is(g, n)
  <2>1. n \in T
    <3> HIDE DEF T
    <3> QED BY <1>3
  <2> HIDE DEF Is
  <2> QED BY <2>1
<1>5. Follows(g, b, n, F)
  BY <1>4 DEF Follows
<1> QED BY <1>4, <1>5

-----------------------------------------------------------------------------
(* What the client puts on the wire *)

WireBy(f, ms) ==
    f = [i \in 0 .. Len(ms) |-> IF i = 0 THEN <<>> ELSE f[i - 1] \o OnWire(ms[i])]

LEMMA OnWireType ==
    ASSUME NEW m \in Messages
    PROVE  OnWire(m) \in Seq(Ascii) /\ OnWire(m) # <<>>
<1>1. /\ m.msg \in Seq(Ascii) /\ m.count \in Seq(Digit)
      /\ m.how \in {"line", "octets", "octets and newline"}
  BY DEF Messages
<1>2. Digit \subseteq Ascii /\ Space \in Ascii /\ NewLine \in Ascii
  BY DEF Digit, Ascii, Space, NewLine
<1>3. m.count \in Seq(Ascii)
  BY <1>1, <1>2, SeqMonotonic
<1> DEFINE front == m.count \o <<Space>>
<1>4. front \in Seq(Ascii) /\ front # <<>>
  BY <1>2, <1>3
<1> HIDE DEF front
<1>5. CASE m.how = "line"
  BY <1>1, <1>2, <1>5 DEF OnWire
<1>6. front \o m.msg \in Seq(Ascii) /\ front \o m.msg # <<>>
  <2> DEFINE text == m.msg
  <2>1. text \in Seq(Ascii)
    BY <1>1
  <2> HIDE DEF text
  <2>2. front \o text \in Seq(Ascii) /\ front \o text # <<>>
    BY <1>4, <2>1
  <2> QED BY <2>2 DEF text
<1> DEFINE frame == front \o m.msg
<1> HIDE DEF frame
<1>7. frame \o <<NewLine>> \in Seq(Ascii) /\ frame \o <<NewLine>> # <<>>
  BY <1>2, <1>6 DEF frame
<1>8. CASE m.how # "line"
  BY <1>1, <1>6, <1>7, <1>8 DEF OnWire, front, frame
<1> QED BY <1>5, <1>8

LEMMA WireIs ==
    ASSUME NEW ms \in Seq(Messages)
    PROVE  /\ Wire(ms) \in [0 .. Len(ms) -> Seq(Ascii)]
           /\ Wire(ms)[0] = <<>>
           /\ \A i \in 1 .. Len(ms) : Wire(ms)[i] = Wire(ms)[i - 1] \o OnWire(ms[i])
<1> DEFINE n == Len(ms)
           F == [p \in Seq(Ascii) \X (1 .. n) |-> p[1] \o OnWire(ms[p[2]])]
           f == Wire(ms)
<1>1. n \in Nat /\ \A i \in 1 .. n : ms[i] \in Messages
  OBVIOUS
<1>2. ASSUME NEW p \in Seq(Ascii) \X (1 .. n) PROVE p[1] \o OnWire(ms[p[2]]) \in Seq(Ascii)
  <2>1. p[1] \in Seq(Ascii) /\ p[2] \in 1 .. n
    OBVIOUS
  <2> HIDE DEF n
  <2> QED BY <1>1, <2>1, OnWireType
<1>3. F \in [Seq(Ascii) \X (1 .. n) -> Seq(Ascii)]
  BY <1>2
<1>4. PICK g \in [0 .. n -> Seq(Ascii)] : Follows(g, <<>>, n, F)
  <2>1. <<>> \in Seq(Ascii)
    OBVIOUS
  <2> HIDE DEF F, n
  <2> QED BY <1>1, <1>3, <2>1, Recursion
<1>5. WireBy(g, ms)
  <2>1. ASSUME NEW i \in 1 .. n PROVE F[<<g[i - 1], i>>] = g[i - 1] \o OnWire(ms[i])
    <3>1. g[i - 1] \in Seq(Ascii)
      <4> HIDE DEF F, n
      <4> QED BY <1>1
    <3> HIDE DEF n
    <3> QED BY <3>1
  <2>2. ASSUME NEW i \in 0 .. n, i # 0 PROVE F[<<g[i - 1], i>>] = g[i - 1] \o OnWire(ms[i])
    <3>1. i \in 1 .. n
      BY <1>1, <2>2
    <3> HIDE DEF F, n
    <3> QED BY <2>1, <3>1
  <2>3. g = [i \in 0 .. n |-> IF i = 0 THEN <<>> ELSE g[i - 1] \o OnWire(ms[i])]
    <3> HIDE DEF F, n
    <3> QED BY <1>4, <2>2, Zenon DEF Follows
  <2> QED BY <2>3, Zenon DEF WireBy
<1>6. f = [i \in 0 .. n |-> IF i = 0 THEN <<>> ELSE f[i - 1] \o OnWire(ms[i])]
  <2>1. f = CHOOSE h : WireBy(h, ms)
    BY Zenon DEF Wire, WireBy
  <2>2. WireBy(f, ms)
    <3> HIDE DEF f
    <3> QED BY <1>5, <2>1, Zenon
  <2> HIDE DEF f
  <2> QED BY <2>2, Zenon DEF WireBy
<1> HIDE DEF n, F, f
<1>7. DOMAIN f = 0 .. n /\ f = [i \in 0 .. n |-> f[i]]
  BY <1>6, Zenon
<1>8. f[0] = <<>>
  <2>1. 0 \in 0 .. n
    BY <1>1
  <2> QED BY <1>6, <2>1, Zenon
<1>9. ASSUME NEW i \in 1 .. n PROVE f[i] = f[i - 1] \o OnWire(ms[i])
  <2>1. i \in 0 .. n /\ i # 0
    BY <1>1
  <2> QED BY <1>6, <2>1, Zenon
<1> DEFINE T == {i \in 0 .. n : f[i] \in Seq(Ascii)}
<1>10. 0 .. n \subseteq T
  <2>1. 0 \in T
    <3>1. 0 \in 0 .. n /\ <<>> \in Seq(Ascii)
      BY <1>1
    <3> QED BY <1>8, <3>1
  <2>2. ASSUME NEW i \in 1 .. n, i - 1 \in T PROVE i \in T
    <3>1. i \in 0 .. n /\ f[i - 1] \in Seq(Ascii) /\ ms[i] \in Messages
      BY <1>1, <2>2
    <3>2. f[i - 1] \o OnWire(ms[i]) \in Seq(Ascii)
      BY <3>1, OnWireType
    <3> QED BY <1>9, <3>1, <3>2
  <2> HIDE DEF T
  <2> QED BY <1>1, <2>1, <2>2, Induction
<1>11. f \in [0 .. n -> Seq(Ascii)] /\ \A i \in 0 .. n : f[i] \in Seq(Ascii)
  BY <1>7, <1>10
<1> QED BY <1>8, <1>9, <1>11 DEF n, f

SpelledBy(f, ds) ==
    f = [i \in 0 .. Len(ds) |-> IF i = 0 THEN 0 ELSE 10 * f[i - 1] + ds[i] - 48]

LEMMA SpelledIs ==
    ASSUME NEW ds \in Seq(Int)
    PROVE  /\ \A i \in 0 .. Len(ds) : Spelled(ds)[i] \in Int
           /\ Spelled(ds)[0] = 0
           /\ \A i \in 1 .. Len(ds) : Spelled(ds)[i] = 10 * Spelled(ds)[i - 1] + ds[i] - 48
<1> DEFINE n == Len(ds)
           F == [p \in Int \X (1 .. n) |-> 10 * p[1] + ds[p[2]] - 48]
           f == Spelled(ds)
<1>1. n \in Nat /\ \A i \in 1 .. n : ds[i] \in Int
  OBVIOUS
<1>2. ASSUME NEW p \in Int \X (1 .. n) PROVE 10 * p[1] + ds[p[2]] - 48 \in Int
  <2>1. p[1] \in Int /\ p[2] \in 1 .. n
    OBVIOUS
  <2> HIDE DEF n
  <2> QED BY <1>1, <2>1
<1>3. F \in [Int \X (1 .. n) -> Int]
  BY <1>2
<1>4. PICK g \in [0 .. n -> Int] : Follows(g, 0, n, F)
  <2>1. 0 \in Int
    OBVIOUS
  <2> HIDE DEF F, n
  <2> QED BY <1>1, <1>3, <2>1, Recursion
<1>5. SpelledBy(g, ds)
  <2>1. ASSUME NEW i \in 1 .. n PROVE F[<<g[i - 1], i>>] = 10 * g[i - 1] + ds[i] - 48
    <3>1. g[i - 1] \in Int
      <4> HIDE DEF F, n
      <4> QED BY <1>1
    <3> HIDE DEF n
    <3> QED BY <3>1
  <2>2. ASSUME NEW i \in 0 .. n, i # 0 PROVE F[<<g[i - 1], i>>] = 10 * g[i - 1] + ds[i] - 48
    <3>1. i \in 1 .. n
      BY <1>1, <2>2
    <3> HIDE DEF F, n
    <3> QED BY <2>1, <3>1
  <2>3. g = [i \in 0 .. n |-> IF i = 0 THEN 0 ELSE 10 * g[i - 1] + ds[i] - 48]
    <3> HIDE DEF F, n
    <3> QED BY <1>4, <2>2, Zenon DEF Follows
  <2> QED BY <2>3, Zenon DEF SpelledBy
<1>6. f = [i \in 0 .. n |-> IF i = 0 THEN 0 ELSE 10 * f[i - 1] + ds[i] - 48]
  <2>1. f = CHOOSE h : SpelledBy(h, ds)
    BY Zenon DEF Spelled, SpelledBy
  <2>2. SpelledBy(f, ds)
    <3> HIDE DEF f
    <3> QED BY <1>5, <2>1, Zenon
  <2> HIDE DEF f
  <2> QED BY <2>2, Zenon DEF SpelledBy
<1> HIDE DEF n, F, f
<1>7. DOMAIN f = 0 .. n /\ f = [i \in 0 .. n |-> f[i]]
  BY <1>6, Zenon
<1>8. f[0] = 0
  <2>1. 0 \in 0 .. n
    BY <1>1
  <2> QED BY <1>6, <2>1, Zenon
<1>9. ASSUME NEW i \in 1 .. n PROVE f[i] = 10 * f[i - 1] + ds[i] - 48
  <2>1. i \in 0 .. n /\ i # 0
    BY <1>1
  <2> QED BY <1>6, <2>1, Zenon
<1> DEFINE T == {i \in 0 .. n : f[i] \in Int}
<1>10. 0 .. n \subseteq T
  <2>1. 0 \in T
    <3>1. 0 \in 0 .. n /\ 0 \in Int
      BY <1>1
    <3> QED BY <1>8, <3>1
  <2>2. ASSUME NEW i \in 1 .. n, i - 1 \in T PROVE i \in T
    <3>1. i \in 0 .. n /\ f[i - 1] \in Int /\ ds[i] \in Int
      BY <1>1, <2>2
    <3>2. 10 * f[i - 1] + ds[i] - 48 \in Int
      BY <3>1
    <3> QED BY <1>9, <3>1, <3>2
  <2> HIDE DEF T
  <2> QED BY <1>1, <2>1, <2>2, Induction
<1>11. f \in [0 .. n -> Int] /\ \A i \in 0 .. n : f[i] \in Int
  BY <1>7, <1>10
<1> QED BY <1>8, <1>9, <1>11 DEF n, f

\* A number depends on the digits read so far only.
LEMMA SpelledAgrees ==
    ASSUME NEW v \in Seq(Int), NEW w \in Seq(Int), NEW d \in Nat, d <= Len(v), d <= Len(w),
           \A i \in 1 .. d : v[i] = w[i]
    PROVE  Spelled(v)[d] = Spelled(w)[d]
<1> DEFINE T == {i \in 0 .. d : Spelled(v)[i] = Spelled(w)[i]}
<1>1. 0 \in T
  BY SpelledIs
<1>2. ASSUME NEW i \in 1 .. d, i - 1 \in T PROVE i \in T
  <2>1. i \in 1 .. Len(v) /\ i \in 1 .. Len(w) /\ v[i] = w[i] /\ Spelled(v)[i - 1] = Spelled(w)[i - 1]
    BY <1>2
  <2>2. Spelled(v)[i] = 10 * Spelled(v)[i - 1] + v[i] - 48 /\ Spelled(w)[i] = 10 * Spelled(w)[i - 1] + w[i] - 48
    BY <2>1, SpelledIs
  <2> QED BY <2>1, <2>2
<1>3. 0 .. d \subseteq T
  <2> HIDE DEF T
  <2> QED BY <1>1, <1>2, Induction
<1> QED BY <1>3

-----------------------------------------------------------------------------
(* Searching and trimming *)

LEMMA IndexByteIs ==
    ASSUME NEW s \in Seq(Ascii), NEW b, NEW i \in 1 .. Len(s), s[i] = b,
           \A j \in 1 .. (i - 1) : s[j] # b
    PROVE  IndexByte(s, b) = i
<1> DEFINE First(k) == s[k] = b /\ \A j \in 1 .. (k - 1) : s[j] # b
           x == CHOOSE k \in DOMAIN s : First(k)
<1>1. DOMAIN s = 1 .. Len(s) /\ Len(s) \in Nat
  OBVIOUS
<1>2. i \in DOMAIN s /\ First(i)
  BY <1>1
<1>3. x \in DOMAIN s /\ First(x)
  <2> HIDE DEF First
  <2> QED BY <1>2, Zenon
<1>4. x = i
  <2>1. x \in 1 .. Len(s) /\ First(x)
    BY <1>1, <1>3
  <2> HIDE DEF x
  <2> QED BY <1>1, <1>2, <2>1
<1>5. b \in ToSet(s)
  BY <1>1 DEF ToSet
<1>6. IndexByte(s, b) = x
  BY <1>5, Zenon DEF IndexByte
<1> QED BY <1>4, <1>6

LEMMA IndexByteNone ==
    ASSUME NEW s \in Seq(Ascii), NEW b, \A i \in 1 .. Len(s) : s[i] # b
    PROVE  IndexByte(s, b) = 0
<1>1. DOMAIN s = 1 .. Len(s)
  OBVIOUS
<1>2. b \notin ToSet(s)
  BY <1>1 DEF ToSet
<1> QED BY <1>2, Zenon DEF IndexByte

Break == {CR, NewLine}

\* The first n bytes are what is left without the line breaks at the end.
Keeps(line, n) ==
    /\ n \in 0 .. Len(line) /\ (n > 0 => line[n] \notin Break)
    /\ \A j \in (n + 1) .. Len(line) : line[j] \in Break

LEMMA TrimmedIs ==
    ASSUME NEW line \in Seq(Ascii)
    PROVE  \E n \in 0 .. Len(line) : Keeps(line, n) /\ Trimmed(line) = SubSeq(line, 1, n)
<1> DEFINE content == {i \in DOMAIN line : line[i] \notin {CR, NewLine}}
<1>1. DOMAIN line = 1 .. Len(line) /\ Len(line) \in Nat
  OBVIOUS
<1>2. CASE content = {}
  <2>1. Keeps(line, 0)
    BY <1>1, <1>2 DEF Keeps, Break
  <2>2. Trimmed(line) = SubSeq(line, 1, 0)
    BY <1>2, Zenon DEF Trimmed
  <2> QED BY <1>1, <2>1, <2>2
<1>3. CASE content # {}
  <2>1. PICK c : c \in content
    BY <1>3
  <2> DEFINE T == {k \in 0 .. Len(line) : (\E j \in content : j <= k) => \E i \in content : i <= k /\ \A j \in content : j <= k => j <= i}
  <2>2. 0 \in T
    BY <1>1
  <2>3. ASSUME NEW k \in 1 .. Len(line), k - 1 \in T PROVE k \in T
    <3>1. CASE k \in content
      BY <1>1, <3>1
    <3>2. CASE k \notin content
      <4>1. \A j \in content : j <= k <=> j <= k - 1
        BY <1>1, <3>2
      <4>2. k \in 0 .. Len(line)
        BY <1>1
      <4> HIDE DEF content
      <4> QED BY <2>3, <4>1, <4>2
    <3> QED BY <3>1, <3>2
  <2>4. Len(line) \in T
    <3>1. 0 .. Len(line) \subseteq T
      <4> HIDE DEF T
      <4> QED BY <1>1, <2>2, <2>3, Induction
    <3> HIDE DEF T
    <3> QED BY <1>1, <3>1
  <2>5. \A j \in content : j \in 1 .. Len(line)
    BY <1>1
  <2>6. \E i \in content : \A j \in content : j <= i
    <3> HIDE DEF content
    <3> QED BY <1>1, <2>1, <2>4, <2>5
  <2> DEFINE x == CHOOSE i \in content : \A j \in content : j <= i
  <2>7. x \in content /\ \A j \in content : j <= x
    <3> HIDE DEF content
    <3> QED BY <2>6, Zenon
  <2>8. Trimmed(line) = SubSeq(line, 1, x)
    BY <1>3, Zenon DEF Trimmed
  <2> HIDE DEF x
  <2>9. x \in 0 .. Len(line) /\ Keeps(line, x)
    <3>1. x \in 1 .. Len(line) /\ line[x] \notin Break
      BY <1>1, <2>7 DEF Break
    <3>2. ASSUME NEW j \in (x + 1) .. Len(line) PROVE line[j] \in Break
      <4>1. j \in DOMAIN line /\ ~(j <= x)
        BY <1>1, <3>1
      <4>2. j \notin content
        <5> HIDE DEF content
        <5> QED BY <2>7, <4>1
      <4> QED BY <4>1, <4>2 DEF Break
    <3> QED BY <1>1, <3>1, <3>2 DEF Keeps
  <2> QED BY <2>8, <2>9
<1> QED BY <1>2, <1>3

\* A newline behind a line changes nothing.
LEMMA TrimNewLine ==
    ASSUME NEW line \in Seq(Ascii)
    PROVE  Trimmed(Append(line, NewLine)) = Trimmed(line)
<1> DEFINE more == Append(line, NewLine)
<1>1. /\ more \in Seq(Ascii) /\ Len(more) = Len(line) + 1 /\ Len(line) \in Nat
      /\ more[Len(line) + 1] = NewLine /\ \A j \in 1 .. Len(line) : more[j] = line[j]
  BY DEF Ascii, NewLine
<1> HIDE DEF more
<1>2. PICK n \in 0 .. Len(line) : Keeps(line, n) /\ Trimmed(line) = SubSeq(line, 1, n)
  BY TrimmedIs
<1>3. PICK k \in 0 .. Len(more) : Keeps(more, k) /\ Trimmed(more) = SubSeq(more, 1, k)
  BY <1>1, TrimmedIs
<1>4. k \in 0 .. Len(line)
  <2>1. k # Len(line) + 1
    BY <1>1, <1>3 DEF Keeps, Break
  <2> QED BY <1>1, <2>1
<1>5. k = n
  <2>1. ASSUME k < n PROVE FALSE
    BY <1>1, <1>2, <1>3, <1>4, <2>1 DEF Keeps
  <2>2. ASSUME n < k PROVE FALSE
    BY <1>1, <1>2, <1>3, <1>4, <2>2 DEF Keeps
  <2> QED BY <1>4, <2>1, <2>2
<1>6. SubSeq(more, 1, n) = SubSeq(line, 1, n)
  BY <1>1, <1>2
<1> QED BY <1>2, <1>3, <1>5, <1>6 DEF more

LEMMA BlankTrimmed ==
    ASSUME NEW line \in Seq(Ascii)
    PROVE  IsBlank(Trimmed(line)) <=> IsBlank(line)
<1>1. PICK n \in 0 .. Len(line) : Keeps(line, n) /\ Trimmed(line) = SubSeq(line, 1, n)
  BY TrimmedIs
<1> DEFINE t == SubSeq(line, 1, n)
<1>2. /\ Len(line) \in Nat /\ DOMAIN line = 1 .. Len(line)
      /\ DOMAIN t = 1 .. n /\ \A j \in 1 .. n : t[j] = line[j]
  OBVIOUS
<1> HIDE DEF t
<1>3. IsBlank(line) <=> \A j \in 1 .. Len(line) : line[j] \in White
  BY <1>2 DEF IsBlank, ToSet
<1>4. IsBlank(t) <=> \A j \in 1 .. n : line[j] \in White
  BY <1>2 DEF IsBlank, ToSet
<1>5. Break \subseteq White
  BY DEF Break, White
<1>6. \A j \in 1 .. Len(line) : j \in 1 .. n \/ line[j] \in White
  BY <1>1, <1>2, <1>5 DEF Keeps
<1>7. \A j \in 1 .. n : j \in 1 .. Len(line)
  BY <1>2
<1> QED BY <1>1, <1>3, <1>4, <1>6, <1>7 DEF t

-----------------------------------------------------------------------------
(* What is due, and where a message lies on the wire *)

Entries == {EntryFromSyslog(Trimmed(line)) : line \in Seq(Ascii)}

LEMMA AndEntryType ==
    ASSUME NEW due \in Seq(Entries), NEW m \in Messages
    PROVE  AndEntry(due, m) \in Seq(Entries)
<1>1. m.msg \in Seq(Ascii)
  BY DEF Messages
<1>2. EntryFromSyslog(Trimmed(m.msg)) \in Entries
  BY <1>1, Zenon DEF Entries
<1> DEFINE e == EntryFromSyslog(Trimmed(m.msg))
<1> HIDE DEF e
<1>3. Append(due, e) \in Seq(Entries)
  BY <1>2 DEF e
<1> QED BY <1>3 DEF AndEntry, e

EntriesOfBy(f, ms) == f = [i \in 0 .. Len(ms) |-> IF i = 0 THEN <<>> ELSE AndEntry(f[i - 1], ms[i])]

LEMMA EntriesOfIs ==
    ASSUME NEW ms \in Seq(Messages)
    PROVE  /\ EntriesOf(ms) \in [0 .. Len(ms) -> Seq(Entries)]
           /\ EntriesOf(ms)[0] = <<>>
           /\ \A i \in 1 .. Len(ms) : EntriesOf(ms)[i] = AndEntry(EntriesOf(ms)[i - 1], ms[i])
<1> DEFINE n == Len(ms)
           F == [p \in Seq(Entries) \X (1 .. n) |-> AndEntry(p[1], ms[p[2]])]
           f == EntriesOf(ms)
<1>1. n \in Nat /\ \A i \in 1 .. n : ms[i] \in Messages
  OBVIOUS
<1>2. ASSUME NEW p \in Seq(Entries) \X (1 .. n) PROVE AndEntry(p[1], ms[p[2]]) \in Seq(Entries)
  <2>1. p[1] \in Seq(Entries) /\ p[2] \in 1 .. n
    OBVIOUS
  <2> HIDE DEF n
  <2> QED BY <1>1, <2>1, AndEntryType
<1>3. F \in [Seq(Entries) \X (1 .. n) -> Seq(Entries)]
  BY <1>2
<1>4. PICK g \in [0 .. n -> Seq(Entries)] : Follows(g, <<>>, n, F)
  <2>1. <<>> \in Seq(Entries)
    OBVIOUS
  <2> HIDE DEF F, n
  <2> QED BY <1>1, <1>3, <2>1, Recursion
<1>5. EntriesOfBy(g, ms)
  <2>1. ASSUME NEW i \in 1 .. n PROVE F[<<g[i - 1], i>>] = AndEntry(g[i - 1], ms[i])
    <3>1. g[i - 1] \in Seq(Entries)
      <4> HIDE DEF F, n
      <4> QED BY <1>1
    <3> HIDE DEF n
    <3> QED BY <3>1
  <2>2. ASSUME NEW i \in 0 .. n, i # 0 PROVE F[<<g[i - 1], i>>] = AndEntry(g[i - 1], ms[i])
    <3>1. i \in 1 .. n
      BY <1>1, <2>2
    <3> HIDE DEF F, n
    <3> QED BY <2>1, <3>1
  <2>3. g = [i \in 0 .. n |-> IF i = 0 THEN <<>> ELSE AndEntry(g[i - 1], ms[i])]
    <3> HIDE DEF F, n
    <3> QED BY <1>4, <2>2, Zenon DEF Follows
  <2> QED BY <2>3, Zenon DEF EntriesOfBy
<1>6. f = [i \in 0 .. n |-> IF i = 0 THEN <<>> ELSE AndEntry(f[i - 1], ms[i])]
  <2>1. f = CHOOSE h : EntriesOfBy(h, ms)
    BY Zenon DEF EntriesOf, EntriesOfBy
  <2>2. EntriesOfBy(f, ms)
    <3> HIDE DEF f
    <3> QED BY <1>5, <2>1, Zenon
  <2> HIDE DEF f
  <2> QED BY <2>2, Zenon DEF EntriesOfBy
<1> HIDE DEF n, F, f
<1>7. DOMAIN f = 0 .. n /\ f = [i \in 0 .. n |-> f[i]]
  BY <1>6, Zenon
<1>8. f[0] = <<>>
  <2>1. 0 \in 0 .. n
    BY <1>1
  <2> QED BY <1>6, <2>1, Zenon
<1>9. ASSUME NEW i \in 1 .. n PROVE f[i] = AndEntry(f[i - 1], ms[i])
  <2>1. i \in 0 .. n /\ i # 0
    BY <1>1
  <2> QED BY <1>6, <2>1, Zenon
<1> DEFINE T == {i \in 0 .. n : f[i] \in Seq(Entries)}
<1>10. 0 .. n \subseteq T
  <2>1. 0 \in T
    <3>1. 0 \in 0 .. n /\ <<>> \in Seq(Entries)
      BY <1>1
    <3> QED BY <1>8, <3>1
  <2>2. ASSUME NEW i \in 1 .. n, i - 1 \in T PROVE i \in T
    <3>1. i \in 0 .. n /\ f[i - 1] \in Seq(Entries) /\ ms[i] \in Messages
      BY <1>1, <2>2
    <3>2. AndEntry(f[i - 1], ms[i]) \in Seq(Entries)
      BY <3>1, AndEntryType
    <3> QED BY <1>9, <3>1, <3>2
  <2> HIDE DEF T
  <2> QED BY <1>1, <2>1, <2>2, Induction
<1>11. f \in [0 .. n -> Seq(Entries)] /\ \A i \in 0 .. n : f[i] \in Seq(Entries)
  BY <1>7, <1>10
<1> QED BY <1>8, <1>9, <1>11 DEF n, f

\* Nothing that is sent later changes what was sent.
LEMMA WirePrefix ==
    ASSUME NEW ms \in Seq(Messages), NEW k \in 0 .. Len(ms), NEW n \in k .. Len(ms)
    PROVE  LET w == Wire(ms) IN
           Len(w[k]) <= Len(w[n]) /\ \A p \in 1 .. Len(w[k]) : w[n][p] = w[k][p]
<1> DEFINE w == Wire(ms)
           Holds(j) == Len(w[k]) <= Len(w[j]) /\ \A p \in 1 .. Len(w[k]) : w[j][p] = w[k][p]
           T == {d \in 0 .. (n - k) : Holds(k + d)}
<1>1. /\ \A i \in 0 .. Len(ms) : w[i] \in Seq(Ascii) /\ Len(w[i]) \in Nat
      /\ \A i \in 1 .. Len(ms) : w[i] = w[i - 1] \o OnWire(ms[i])
      /\ \A i \in 1 .. Len(ms) : OnWire(ms[i]) \in Seq(Ascii) /\ Len(OnWire(ms[i])) \in Nat
  <2>1. /\ w \in [0 .. Len(ms) -> Seq(Ascii)]
        /\ \A i \in 1 .. Len(ms) : w[i] = w[i - 1] \o OnWire(ms[i])
    BY WireIs
  <2>2. ASSUME NEW i \in 1 .. Len(ms)
        PROVE  OnWire(ms[i]) \in Seq(Ascii) /\ Len(OnWire(ms[i])) \in Nat
    <3>1. ms[i] \in Messages
      OBVIOUS
    <3>2. OnWire(ms[i]) \in Seq(Ascii)
      BY <3>1, OnWireType
    <3> QED BY <3>2, LenProperties
  <2> HIDE DEF w
  <2>3. ASSUME NEW i \in 0 .. Len(ms) PROVE w[i] \in Seq(Ascii) /\ Len(w[i]) \in Nat
    <3>1. w[i] \in Seq(Ascii)
      BY <2>1
    <3> QED BY <3>1, LenProperties
  <2> QED BY <2>1, <2>2, <2>3
<1>2. Len(ms) \in Nat /\ k \in Nat /\ n \in Nat /\ k <= n /\ n <= Len(ms)
  OBVIOUS
<1> HIDE DEF w
<1>3. 0 \in T
  BY <1>1, <1>2
<1>4. ASSUME NEW d \in 1 .. (n - k), d - 1 \in T PROVE d \in T
  <2> DEFINE j == k + d
  <2>1. /\ j \in 1 .. Len(ms) /\ j - 1 = k + (d - 1) /\ j - 1 \in 0 .. Len(ms)
        /\ d \in 0 .. (n - k)
    BY <1>2
  <2>2. Holds(j - 1)
    BY <1>4, <2>1
  <2>3. w[j] = w[j - 1] \o OnWire(ms[j]) /\ w[j - 1] \in Seq(Ascii) /\ OnWire(ms[j]) \in Seq(Ascii)
        /\ Len(w[j - 1]) \in Nat /\ Len(OnWire(ms[j])) \in Nat /\ Len(w[k]) \in Nat
    BY <1>1, <1>2, <2>1
  <2> HIDE DEF j
  <2>4. Len(w[j]) = Len(w[j - 1]) + Len(OnWire(ms[j]))
        /\ \A p \in 1 .. Len(w[j - 1]) : w[j][p] = w[j - 1][p]
    <3> DEFINE a == w[j - 1]  b == OnWire(ms[j])
    <3>1. a \in Seq(Ascii) /\ b \in Seq(Ascii) /\ Len(a) \in Nat /\ Len(b) \in Nat /\ w[j] = a \o b
      BY <2>3
    <3> HIDE DEF a, b
    <3>2. Len(a \o b) = Len(a) + Len(b)
          /\ \A p \in 1 .. Len(a) + Len(b) : (a \o b)[p] = IF p <= Len(a) THEN a[p] ELSE b[p - Len(a)]
      BY <3>1, ConcatProperties
    <3>3. \A p \in 1 .. Len(a) : (a \o b)[p] = a[p]
      BY <3>1, <3>2
    <3> QED BY <3>1, <3>2, <3>3 DEF a, b
  <2>5. Len(w[k]) <= Len(w[j])
    <3>1. Len(w[k]) <= Len(w[j - 1])
      BY <2>2
    <3> DEFINE x == Len(w[j])  y == Len(w[j - 1])  z == Len(w[k])  l == Len(OnWire(ms[j]))
    <3>2. x = y + l /\ l \in Nat /\ y \in Nat /\ z \in Nat /\ z <= y
      BY <2>3, <2>4, <3>1
    <3> HIDE DEF x, y, z, l
    <3>3. z <= x
      BY <3>2
    <3> QED BY <3>3 DEF x, z
  <2>6. ASSUME NEW p \in 1 .. Len(w[k]) PROVE w[j][p] = w[k][p]
    <3>1. p \in 1 .. Len(w[j - 1])
      BY <2>2, <2>3
    <3> QED BY <2>2, <2>4, <3>1
  <2>7. Holds(j)
    BY <2>5, <2>6
  <2> QED BY <2>1, <2>7 DEF j
<1>5. n - k \in T
  <2>1. n - k \in Nat /\ n - k \in 0 .. (n - k)
    BY <1>2
  <2> HIDE DEF T
  <2> QED BY <1>3, <1>4, <2>1, Induction
<1>6. Holds(n)
  <2>1. k + (n - k) = n
    BY <1>2
  <2> QED BY <1>5, <2>1
<1> QED BY <1>6 DEF w

\* Message k lies behind the messages before it.
LEMMA OnTheWire ==
    ASSUME NEW ms \in Seq(Messages), NEW k \in 1 .. Len(ms)
    PROVE  LET w == Wire(ms)  m == OnWire(ms[k]) IN
           /\ Len(w[k - 1]) \in Nat /\ Len(m) \in Nat \ {0}
           /\ Len(w[k]) = Len(w[k - 1]) + Len(m) /\ Len(w[k]) <= Len(w[Len(ms)])
           /\ \A p \in 1 .. Len(m) : w[Len(ms)][Len(w[k - 1]) + p] = m[p]
<1> DEFINE w == Wire(ms)  m == OnWire(ms[k])  n == Len(ms)
<1>1. /\ k \in 0 .. n /\ k - 1 \in 0 .. n /\ n \in k .. n /\ n \in Nat
      /\ w[k - 1] \in Seq(Ascii) /\ w[k] \in Seq(Ascii) /\ w[k] = w[k - 1] \o m
      /\ m \in Seq(Ascii) /\ m # <<>>
  <2>1. k \in 0 .. n /\ k - 1 \in 0 .. n /\ n \in k .. n /\ n \in Nat /\ ms[k] \in Messages
    OBVIOUS
  <2> QED BY <2>1, WireIs, OnWireType
<1>2. Len(w[k]) <= Len(w[n]) /\ \A p \in 1 .. Len(w[k]) : w[n][p] = w[k][p]
  BY <1>1, WirePrefix
<1> HIDE DEF w, m
<1>3. /\ Len(w[k - 1]) \in Nat /\ Len(m) \in Nat \ {0} /\ Len(w[k]) = Len(w[k - 1]) + Len(m)
      /\ \A p \in 1 .. Len(m) : w[k][Len(w[k - 1]) + p] = m[p]
  <2>1. Len(w[k - 1]) \in Nat /\ Len(m) \in Nat \ {0}
    BY <1>1
  <2>2. Len(w[k]) = Len(w[k - 1]) + Len(m)
        /\ \A i \in 1 .. Len(w[k - 1]) + Len(m) :
              w[k][i] = IF i <= Len(w[k - 1]) THEN w[k - 1][i] ELSE m[i - Len(w[k - 1])]
    BY <1>1, ConcatProperties
  <2>3. ASSUME NEW p \in 1 .. Len(m) PROVE w[k][Len(w[k - 1]) + p] = m[p]
    <3>1. PICK i \in Int : i = Len(w[k - 1]) + p
      BY <2>1
    <3>2. i \in 1 .. Len(w[k - 1]) + Len(m) /\ ~(i <= Len(w[k - 1])) /\ i - Len(w[k - 1]) = p
      BY <2>1, <3>1
    <3> QED BY <2>2, <3>1, <3>2
  <2> QED BY <2>1, <2>2, <2>3
<1>4. ASSUME NEW p \in 1 .. Len(m) PROVE w[n][Len(w[k - 1]) + p] = m[p]
  <2>1. Len(w[k - 1]) + p \in 1 .. Len(w[k])
    BY <1>3
  <2> QED BY <1>2, <1>3, <2>1
<1> QED BY <1>2, <1>3, <1>4 DEF w, m

-----------------------------------------------------------------------------
(* The syslog reader *)

Sent(k) == Len(Wire(syslogSent)[k])
Due(k) == EntriesOf(syslogSent)[k]

\* What arrives is a prefix of what the client sends.
StreamInv ==
    /\ syslogSent \in Seq(Messages) /\ \A i \in 1 .. Len(syslogSent) : Framable(syslogSent[i])
    /\ received \in Seq(Ascii) /\ Len(received) <= Sent(Len(syslogSent))
    /\ \A p \in 1 .. Len(received) : received[p] = Wire(syslogSent)[Len(syslogSent)][p]

\* k messages are dealt with; the newline behind the last may be left to read.
BetweenFrames(k) ==
    /\ \/ frameAt = Sent(k)
       \/ k > 0 /\ syslogSent[k].how = "octets and newline" /\ frameAt = Sent(k) - 1
    /\ syslogged = Due(k)

\* Some digits at the head of message k are read.
InCount(k) ==
    /\ k > 0 /\ frameAt = Sent(k - 1) + digits /\ syslogged = Due(k - 1)
    /\ digits \in 1 .. MaxDigits /\ digits <= Len(OnWire(syslogSent[k]))
    /\ OnWire(syslogSent[k])[1] # 48 /\ \A i \in 1 .. digits : OnWire(syslogSent[k])[i] \in Digit
    /\ count = Spelled(OnWire(syslogSent[k]))[digits]

\* k messages arrived whole, and perhaps the beginning of a line.
Finished(k) ==
    /\ k > 0 => FrameEnd(k) <= Len(received)
    /\ k < Len(syslogSent) => FrameEnd(k + 1) > Len(received)
    /\ \/ syslogged = Due(k)
       \/ /\ k < Len(syslogSent) /\ syslogSent[k + 1].how = "line"
          /\ \E j \in 1 .. Len(syslogSent[k + 1].msg) :
                syslogged = Append(Due(k), EntryFromSyslog(Trimmed(SubSeq(syslogSent[k + 1].msg, 1, j))))

ReaderInv ==
    \E k \in 0 .. Len(syslogSent) :
       /\ reading = "first" => BetweenFrames(k)
       /\ reading = "count" => InCount(k)
       /\ reading = "over" => Finished(k)

SyslogInv == SyslogTypeOK /\ StreamInv /\ ReaderInv

\* The bytes of message k that have arrived are its own.
LEMMA Incoming ==
    ASSUME StreamInv, NEW k \in 1 .. Len(syslogSent)
    PROVE  LET m == OnWire(syslogSent[k]) IN
           /\ syslogSent[k] \in Messages /\ Framable(syslogSent[k]) /\ m \in Seq(Ascii)
           /\ Sent(k - 1) \in Nat /\ Len(m) \in Nat \ {0} /\ Sent(k) = Sent(k - 1) + Len(m)
           /\ Len(received) \in Nat
           /\ \A p \in 1 .. Len(m) :
                 Sent(k - 1) + p <= Len(received) => received[Sent(k - 1) + p] = m[p]
           /\ Due(k) = AndEntry(Due(k - 1), syslogSent[k])
<1> DEFINE m == OnWire(syslogSent[k])  w == Wire(syslogSent)  n == Len(syslogSent)
<1>1. /\ syslogSent \in Seq(Messages) /\ received \in Seq(Ascii)
      /\ \A p \in 1 .. Len(received) : received[p] = w[n][p]
  BY DEF StreamInv
<1>2. syslogSent[k] \in Messages /\ Framable(syslogSent[k]) /\ Len(received) \in Nat
  <2>1. syslogSent[k] \in Messages /\ Len(received) \in Nat
    BY <1>1
  <2>2. Framable(syslogSent[k])
    BY Zenon DEF StreamInv
  <2> QED BY <2>1, <2>2
<1>3. m \in Seq(Ascii)
  BY <1>2, OnWireType
<1>4. /\ Len(w[k - 1]) \in Nat /\ Len(m) \in Nat \ {0} /\ Len(w[k]) = Len(w[k - 1]) + Len(m)
      /\ \A p \in 1 .. Len(m) : w[n][Len(w[k - 1]) + p] = m[p]
  BY <1>1, OnTheWire
<1>5. Due(k) = AndEntry(Due(k - 1), syslogSent[k])
  BY <1>1, EntriesOfIs DEF Due
<1> HIDE DEF m, w, n
<1>6. ASSUME NEW p \in 1 .. Len(m), Len(w[k - 1]) + p <= Len(received)
      PROVE  received[Len(w[k - 1]) + p] = m[p]
  <2>1. Len(w[k - 1]) + p \in 1 .. Len(received)
    BY <1>2, <1>4, <1>6
  <2> QED BY <1>1, <1>4, <2>1
<1> QED BY <1>2, <1>3, <1>4, <1>5, <1>6 DEF Sent, m, w

\* A newline-delimited message on the wire.
LEMMA LineShape ==
    ASSUME NEW m \in Messages, Framable(m), m.how = "line"
    PROVE  LET w == OnWire(m) IN
           /\ m.msg \in Seq(Ascii) /\ Len(m.msg) \in Nat
           /\ Len(w) = Len(m.msg) + 1 /\ w[Len(m.msg) + 1] = NewLine
           /\ \A p \in 1 .. Len(m.msg) : w[p] = m.msg[p] /\ m.msg[p] # NewLine
           /\ \A d \in 1 .. MaxDigits :
                 ~ (/\ d < Len(w) /\ w[1] # 48 /\ w[d + 1] = Space
                    /\ \A i \in 1 .. d : w[i] \in Digit
                    /\ Spelled(w)[d] \in 1 .. MaxSyslogFrame)
<1> DEFINE t == m.msg  w == OnWire(m)
<1>1. t \in Seq(Ascii) /\ Len(t) \in Nat /\ DOMAIN t = 1 .. Len(t)
  <2>1. t \in Seq(Ascii)
    BY DEF Messages
  <2> QED BY <2>1
<1>2. w = Append(t, NewLine)
  BY DEF OnWire
<1>3. NewLine \notin ToSet(t) /\ ~LooksCounted(t)
  BY DEF Framable
<1> HIDE DEF t, w
<1>4. w \in Seq(Ascii) /\ Len(w) = Len(t) + 1 /\ w[Len(t) + 1] = NewLine /\ \A p \in 1 .. Len(t) : w[p] = t[p]
  BY <1>1, <1>2 DEF Ascii, NewLine
<1>5. \A p \in 1 .. Len(t) : t[p] # NewLine
  BY <1>1, <1>3 DEF ToSet
<1>6. ASSUME NEW d \in 1 .. MaxDigits, d < Len(w), w[1] # 48, w[d + 1] = Space,
             \A i \in 1 .. d : w[i] \in Digit, Spelled(w)[d] \in 1 .. MaxSyslogFrame
      PROVE  FALSE
  <2>1. d \in Nat \ {0} /\ d < Len(t) /\ d + 1 \in 1 .. Len(t)
    <3>1. d \in Nat \ {0}
      BY SyslogAssumption
    <3>2. d # Len(t) /\ d < Len(t) + 1
      BY <1>4, <1>6 DEF NewLine, Space
    <3> DEFINE l == Len(t)
    <3>3. l \in Nat /\ d # l /\ d < l + 1
      BY <1>1, <3>2
    <3> HIDE DEF l
    <3>4. d < l /\ d + 1 \in 1 .. l
      BY <3>1, <3>3
    <3> QED BY <3>1, <3>4 DEF l
  <2>2. t[1] # 48 /\ t[d + 1] = Space /\ \A i \in 1 .. d : t[i] \in Digit
    BY <1>1, <1>4, <1>6, <2>1
  <2>3. Spelled(w)[d] = Spelled(t)[d]
    <3>1. t \in Seq(Int) /\ w \in Seq(Int)
      <4>1. Ascii \subseteq Int
        BY DEF Ascii
      <4> QED BY <1>1, <1>4, <4>1, SeqMonotonic
    <3>2. \A i \in 1 .. d : w[i] = t[i]
      BY <1>1, <1>4, <2>1
    <3>3. d \in Nat /\ d <= Len(t) /\ d <= Len(w)
      BY <1>1, <1>4, <2>1
    <3> QED BY <3>1, <3>2, <3>3, SpelledAgrees
  <2> QED BY <1>3, <1>6, <2>1, <2>2, <2>3 DEF LooksCounted
<1> QED BY <1>1, <1>4, <1>5, <1>6 DEF t, w

LEMMA Concatenated ==
    ASSUME NEW S, NEW a \in Seq(S), NEW b \in Seq(S)
    PROVE  /\ a \o b \in Seq(S) /\ Len(a) \in Nat /\ Len(b) \in Nat /\ Len(a \o b) = Len(a) + Len(b)
           /\ \A i \in 1 .. Len(a) : (a \o b)[i] = a[i]
           /\ \A p \in 1 .. Len(b) : (a \o b)[Len(a) + p] = b[p]
<1>1. Len(a) \in Nat /\ Len(b) \in Nat
  BY LenProperties
<1>2. /\ a \o b \in Seq(S) /\ Len(a \o b) = Len(a) + Len(b)
      /\ \A i \in 1 .. Len(a) + Len(b) : (a \o b)[i] = IF i <= Len(a) THEN a[i] ELSE b[i - Len(a)]
  BY ConcatProperties
<1>3. \A i \in 1 .. Len(a) : (a \o b)[i] = a[i]
  BY <1>1, <1>2
<1>4. ASSUME NEW p \in 1 .. Len(b) PROVE (a \o b)[Len(a) + p] = b[p]
  <2>1. PICK i \in Int : i = Len(a) + p
    BY <1>1
  <2>2. i \in 1 .. Len(a) + Len(b) /\ ~(i <= Len(a)) /\ i - Len(a) = p
    BY <1>1, <2>1
  <2> QED BY <1>2, <2>1, <2>2
<1> QED BY <1>1, <1>2, <1>3, <1>4

\* A count, a space and a text.
LEMMA CountedBytes ==
    ASSUME NEW ds \in Seq(Ascii), NEW t \in Seq(Ascii)
    PROVE  LET w == ds \o <<Space>> \o t IN
           /\ w \in Seq(Ascii) /\ Len(ds) \in Nat /\ Len(t) \in Nat
           /\ Len(w) = Len(ds) + 1 + Len(t)
           /\ \A i \in 1 .. Len(ds) : w[i] = ds[i]
           /\ w[Len(ds) + 1] = Space
           /\ \A p \in 1 .. Len(t) : w[Len(ds) + 1 + p] = t[p]
<1>1. PICK front \in Seq(Ascii) :
         /\ front = ds \o <<Space>>
         /\ Len(front) = Len(ds) + 1 /\ Len(ds) \in Nat /\ Len(t) \in Nat
         /\ front[Len(ds) + 1] = Space /\ \A i \in 1 .. Len(ds) : front[i] = ds[i]
  <2> DEFINE f == ds \o <<Space>>
  <2>1. /\ f \in Seq(Ascii) /\ Len(f) = Len(ds) + 1 /\ Len(ds) \in Nat /\ Len(t) \in Nat
        /\ f[Len(ds) + 1] = Space /\ \A i \in 1 .. Len(ds) : f[i] = ds[i]
    BY DEF Space, Ascii
  <2>2. f = ds \o <<Space>>
    OBVIOUS
  <2> HIDE DEF f
  <2> QED BY <2>1, <2>2
<1>2. PICK w \in Seq(Ascii) :
         /\ w = front \o t /\ Len(w) = Len(front) + Len(t)
         /\ \A i \in 1 .. Len(front) : w[i] = front[i]
         /\ \A p \in 1 .. Len(t) : w[Len(front) + p] = t[p]
  <2> DEFINE f == front \o t
  <2>1. /\ f \in Seq(Ascii) /\ Len(f) = Len(front) + Len(t)
        /\ \A i \in 1 .. Len(front) : f[i] = front[i]
        /\ \A p \in 1 .. Len(t) : f[Len(front) + p] = t[p]
    BY Concatenated
  <2>2. f = front \o t
    OBVIOUS
  <2> HIDE DEF f
  <2> QED BY <2>1, <2>2
<1>3. \A i \in 1 .. Len(ds) : w[i] = ds[i]
  BY <1>1, <1>2
<1>4. w[Len(ds) + 1] = Space
  BY <1>1, <1>2
<1>5. \A p \in 1 .. Len(t) : w[Len(ds) + 1 + p] = t[p]
  BY <1>1, <1>2
<1>6. Len(w) = Len(ds) + 1 + Len(t)
  BY <1>1, <1>2
<1> QED BY <1>1, <1>2, <1>3, <1>4, <1>5, <1>6

\* An octet-counted message on the wire: count, space, text.
LEMMA OctetShape ==
    ASSUME NEW m \in Messages, Framable(m), m.how # "line"
    PROVE  LET w == OnWire(m)  c == Len(m.count)  l == Len(m.msg) IN
           /\ m.how \in {"octets", "octets and newline"}
           /\ m.msg \in Seq(Ascii) /\ c \in 1 .. MaxDigits /\ c \in Nat \ {0}
           /\ l \in 1 .. MaxSyslogFrame /\ l \in Nat \ {0}
           /\ w[1] # 48 /\ \A i \in 1 .. c : w[i] \in Digit
           /\ w[c + 1] = Space /\ Spelled(w)[c] = l
           /\ \A p \in 1 .. l : w[c + 1 + p] = m.msg[p]
           /\ m.how = "octets" => Len(w) = c + 1 + l
           /\ m.how = "octets and newline" => Len(w) = c + 1 + l + 1 /\ w[c + 1 + l + 1] = NewLine
<1>1. PICK t \in Seq(Ascii), ds \in Seq(Digit) : t = m.msg /\ ds = m.count
  BY DEF Messages
<1>2. m.how \in {"octets", "octets and newline"}
  BY DEF Messages
<1>3. Len(ds) \in 1 .. MaxDigits /\ ds[1] # 48 /\ Spelled(ds)[Len(ds)] = Len(t)
      /\ Len(t) \in 1 .. MaxSyslogFrame
  BY <1>1 DEF Framable
<1>4. Digit \subseteq Ascii /\ NewLine \in Ascii /\ Ascii \subseteq Int
  BY DEF Digit, Ascii, NewLine
<1>5. ds \in Seq(Ascii) /\ ds \in Seq(Int) /\ \A i \in 1 .. Len(ds) : ds[i] \in Digit
  <2>1. ds \in Seq(Ascii)
    BY <1>4, SeqMonotonic
  <2>2. ds \in Seq(Int)
    BY <1>4, <2>1, SeqMonotonic
  <2> QED BY <2>1, <2>2
<1>6. PICK frame \in Seq(Ascii) :
         /\ frame = ds \o <<Space>> \o t /\ Len(ds) \in Nat /\ Len(t) \in Nat
         /\ Len(frame) = Len(ds) + 1 + Len(t)
         /\ \A i \in 1 .. Len(ds) : frame[i] = ds[i]
         /\ frame[Len(ds) + 1] = Space
         /\ \A p \in 1 .. Len(t) : frame[Len(ds) + 1 + p] = t[p]
  BY <1>5, CountedBytes
<1>7. OnWire(m) = IF m.how = "octets" THEN frame ELSE frame \o <<NewLine>>
  BY <1>1, <1>2, <1>6 DEF OnWire
<1>8. PICK w \in Seq(Ascii) :
         /\ w = OnWire(m)
         /\ \A i \in 1 .. Len(frame) : w[i] = frame[i]
         /\ m.how = "octets" => Len(w) = Len(frame)
         /\ m.how = "octets and newline" => Len(w) = Len(frame) + 1 /\ w[Len(frame) + 1] = NewLine
  <2>1. CASE m.how = "octets"
    BY <1>6, <1>7, <2>1
  <2>2. CASE m.how = "octets and newline"
    <3>1. OnWire(m) = Append(frame, NewLine)
      <4>1. frame \o <<NewLine>> = Append(frame, NewLine)
        BY <1>4, AppendIsConcat
      <4> QED BY <1>7, <2>2, <4>1
    <3>2. /\ Append(frame, NewLine) \in Seq(Ascii) /\ Len(Append(frame, NewLine)) = Len(frame) + 1
          /\ Append(frame, NewLine)[Len(frame) + 1] = NewLine
          /\ \A i \in 1 .. Len(frame) : Append(frame, NewLine)[i] = frame[i]
      BY <1>4, AppendProperties
    <3> QED BY <2>2, <3>1, <3>2
  <2> QED BY <1>2, <2>1, <2>2
<1> DEFINE c == Len(ds)  l == Len(t)
<1>9. /\ c \in Nat \ {0} /\ l \in Nat \ {0} /\ Len(frame) = c + 1 + l
      /\ \A i \in 1 .. c : frame[i] = ds[i] /\ ds[i] \in Digit
      /\ frame[c + 1] = Space
      /\ \A p \in 1 .. l : frame[c + 1 + p] = t[p]
  BY <1>3, <1>5, <1>6
<1> HIDE DEF c, l
<1> DEFINE e == Len(frame)
<1>10. /\ e = c + 1 + l /\ e \in Nat /\ \A i \in 1 .. c : i \in 1 .. e
       /\ c + 1 \in 1 .. e /\ \A p \in 1 .. l : c + 1 + p \in 1 .. e
  BY <1>9
<1> HIDE DEF e
<1>11. \A i \in 1 .. e : w[i] = frame[i]
  BY <1>8 DEF e
<1>12. \A i \in 1 .. c : w[i] = ds[i] /\ w[i] \in Digit
  BY <1>9, <1>10, <1>11
<1>13. w[c + 1] = Space
  BY <1>9, <1>10, <1>11
<1>14. \A p \in 1 .. l : w[c + 1 + p] = t[p]
  BY <1>9, <1>10, <1>11
<1>15. Spelled(w)[c] = l
  <2>1. w \in Seq(Int)
    BY <1>4, SeqMonotonic
  <2>2. c \in Nat /\ c <= Len(ds) /\ c <= Len(w)
    <3>1. e <= Len(w) /\ Len(w) \in Nat
      <4>1. Len(w) = e \/ Len(w) = e + 1
        BY <1>2, <1>8 DEF e
      <4> QED BY <1>10, <4>1
    <3>2. c \in Nat /\ l \in Nat /\ c <= Len(ds)
      BY <1>6, <1>9 DEF c
    <3> QED BY <1>10, <3>1, <3>2
  <2>3. \A i \in 1 .. c : w[i] = ds[i]
    BY <1>12
  <2>4. Spelled(w)[c] = Spelled(ds)[c]
    BY <1>5, <2>1, <2>2, <2>3, SpelledAgrees
  <2> QED BY <1>3, <2>4 DEF c, l
<1>16. w[1] # 48
  <2>1. 1 \in 1 .. c
    BY <1>9
  <2> QED BY <1>3, <1>12, <2>1
<1>17. m.how = "octets" => Len(w) = c + 1 + l
  BY <1>8, <1>9
<1>18. m.how = "octets and newline" => Len(w) = c + 1 + l + 1 /\ w[c + 1 + l + 1] = NewLine
  BY <1>8, <1>9
<1>19. c = Len(m.count) /\ l = Len(m.msg) /\ t = m.msg
  BY <1>1 DEF c, l
<1>20. c \in 1 .. MaxDigits /\ l \in 1 .. MaxSyslogFrame
  BY <1>3 DEF c, l
<1>21. w = OnWire(m)
  BY <1>8
<1> QED BY <1>2, <1>9, <1>12, <1>13, <1>14, <1>15, <1>16, <1>17, <1>18, <1>19, <1>20, <1>21, Zenon

\* A line put together from what was read before and what is read now.
LEMMA Joined ==
    ASSUME NEW t \in Seq(Ascii), NEW d \in 0 .. Len(t), NEW a \in Seq(Ascii), NEW j \in 0 .. Len(a),
           NEW x \in Seq(Ascii), Len(x) = d + j,
           \A i \in 1 .. d : x[i] = t[i], \A i \in 1 .. j : x[d + i] = a[i]
    PROVE  SubSeq(t, 1, d) \o SubSeq(a, 1, j) = x
<1>1. PICK u \in Seq(Ascii) : u = SubSeq(t, 1, d) /\ Len(u) = d /\ \A i \in 1 .. d : u[i] = t[i]
  <2> DEFINE f == SubSeq(t, 1, d)
  <2>1. f \in Seq(Ascii) /\ Len(f) = d /\ \A i \in 1 .. d : f[i] = t[i]
    OBVIOUS
  <2>2. f = SubSeq(t, 1, d)
    OBVIOUS
  <2> HIDE DEF f
  <2> QED BY <2>1, <2>2
<1>2. PICK v \in Seq(Ascii) : v = SubSeq(a, 1, j) /\ Len(v) = j /\ \A i \in 1 .. j : v[i] = a[i]
  <2> DEFINE f == SubSeq(a, 1, j)
  <2>1. f \in Seq(Ascii) /\ Len(f) = j /\ \A i \in 1 .. j : f[i] = a[i]
    OBVIOUS
  <2>2. f = SubSeq(a, 1, j)
    OBVIOUS
  <2> HIDE DEF f
  <2> QED BY <2>1, <2>2
<1>3. PICK y \in Seq(Ascii) :
         /\ y = u \o v /\ Len(y) = d + j
         /\ \A i \in 1 .. d : y[i] = u[i]
         /\ \A i \in 1 .. j : y[d + i] = v[i]
  <2> DEFINE f == u \o v
  <2>1. /\ f \in Seq(Ascii) /\ Len(f) = d + j
        /\ \A i \in 1 .. d : f[i] = u[i]
        /\ \A i \in 1 .. j : f[d + i] = v[i]
    <3>1. u \in Seq(Ascii) /\ v \in Seq(Ascii) /\ Len(u) = d /\ Len(v) = j
      BY <1>1, <1>2
    <3>2. /\ f \in Seq(Ascii) /\ Len(f) = Len(u) + Len(v)
          /\ \A i \in 1 .. Len(u) : f[i] = u[i]
          /\ \A i \in 1 .. Len(v) : f[Len(u) + i] = v[i]
      BY Concatenated
    <3> HIDE DEF f
    <3> QED BY <3>1, <3>2
  <2>2. f = u \o v
    OBVIOUS
  <2> HIDE DEF f
  <2> QED BY <2>1, <2>2
<1>4. y = x
  <2>1. ASSUME NEW i \in 1 .. Len(y) PROVE y[i] = x[i]
    <3>1. CASE i <= d
      <4>1. i \in 1 .. d
        BY <3>1
      <4> QED BY <1>1, <1>3, <4>1
    <3>2. CASE d < i
      <4>1. PICK p \in 1 .. j : i = d + p
        <5>1. d \in Nat /\ j \in Nat /\ i - d \in 1 .. j /\ i = d + (i - d)
          BY <1>3, <3>2
        <5> QED BY <5>1
      <4>2. y[d + p] = v[p] /\ v[p] = a[p] /\ x[d + p] = a[p]
        BY <1>2, <1>3, <4>1
      <4> QED BY <4>1, <4>2
    <3>3. d \in Nat /\ i \in Nat
      OBVIOUS
    <3> QED BY <3>1, <3>2, <3>3
  <2>2. Len(y) = Len(x)
    BY <1>3
  <2> QED BY <2>1, <2>2, SeqEqual
<1> QED BY <1>1, <1>2, <1>3, <1>4

\* Of a line t of which d bytes are consumed the reader takes, out of what is
\* ahead, the rest and the newline, or all there is of it.
LEMMA RestOfLine ==
    ASSUME NEW t \in Seq(Ascii), NEW a \in Seq(Ascii), NEW d \in 0 .. Len(t), 0 < Len(a),
           \A p \in 1 .. Len(t) : t[p] # NewLine,
           \A i \in 1 .. Len(a) : d + i <= Len(t) => a[i] = t[d + i],
           \A i \in 1 .. Len(a) : d + i = Len(t) + 1 => a[i] = NewLine
    PROVE  LET nl == IndexByte(a, NewLine)
               taken == IF nl = 0 THEN Len(a) ELSE nl
               text == SubSeq(t, 1, d) \o SubSeq(a, 1, taken)
           IN \/ /\ Len(t) + 1 <= d + Len(a) /\ nl # 0 /\ taken = Len(t) + 1 - d
                 /\ text = Append(t, NewLine)
              \/ /\ d + Len(a) <= Len(t) /\ nl = 0 /\ taken = Len(a)
                 /\ \E j \in 1 .. Len(t) : text = SubSeq(t, 1, j)
<1>1. PICK l \in Nat, c \in Nat : l = Len(t) /\ c = Len(a) /\ d \in Nat /\ d <= l /\ 0 < c
  BY LenProperties
<1>2. CASE l + 1 <= d + c
  <2>1. PICK i \in Nat : i = l + 1 - d /\ i \in 1 .. c /\ d + i = l + 1 /\ i # 0
    <3>1. l + 1 - d \in 1 .. c /\ d + (l + 1 - d) = l + 1
      BY <1>1, <1>2
    <3> QED BY <3>1
  <2>2. a[i] = NewLine
    BY <1>1, <2>1
  <2>3. ASSUME NEW p \in 1 .. (i - 1) PROVE a[p] # NewLine /\ a[p] = t[d + p] /\ d + p \in 1 .. l
    <3>1. p \in 1 .. c /\ d + p <= l /\ d + p \in 1 .. l
      BY <1>1, <2>1
    <3> QED BY <1>1, <3>1
  <2>4. IndexByte(a, NewLine) = i
    <3>1. i \in 1 .. Len(a)
      BY <1>1, <2>1
    <3> QED BY <2>2, <2>3, <3>1, IndexByteIs
  <2>5. SubSeq(t, 1, d) \o SubSeq(a, 1, i) = Append(t, NewLine)
    <3>1. PICK x \in Seq(Ascii) :
             x = Append(t, NewLine) /\ Len(x) = l + 1 /\ x[l + 1] = NewLine
             /\ \A p \in 1 .. l : x[p] = t[p]
      <4>1. NewLine \in Ascii
        BY DEF NewLine, Ascii
      <4>2. Append(t, NewLine) \in Seq(Ascii) /\ Len(Append(t, NewLine)) = Len(t) + 1
            /\ Append(t, NewLine)[Len(t) + 1] = NewLine
            /\ \A p \in 1 .. Len(t) : Append(t, NewLine)[p] = t[p]
        BY <4>1, AppendProperties
      <4> QED BY <1>1, <4>2
    <3>2. i \in 0 .. Len(a) /\ Len(x) = d + i
      BY <1>1, <2>1, <3>1
    <3>3. \A p \in 1 .. d : x[p] = t[p]
      BY <1>1, <3>1
    <3>4. ASSUME NEW p \in 1 .. i PROVE x[d + p] = a[p]
      <4>1. CASE p = i
        BY <2>1, <2>2, <3>1, <4>1
      <4>2. CASE p # i
        <5>1. p \in 1 .. (i - 1)
          BY <4>2
        <5>2. a[p] = t[d + p] /\ d + p \in 1 .. l
          BY <2>3, <5>1
        <5> QED BY <3>1, <5>2
      <4> QED BY <4>1, <4>2
    <3> QED BY <3>1, <3>2, <3>3, <3>4, Joined
  <2> QED BY <1>1, <1>2, <2>1, <2>4, <2>5
<1>3. CASE d + c <= l
  <2>1. PICK j \in Nat : j = d + c /\ j \in 1 .. l
    BY <1>1, <1>3
  <2>2. ASSUME NEW i \in 1 .. c PROVE a[i] = t[d + i] /\ a[i] # NewLine /\ d + i \in 1 .. j
    <3>1. d + i \in 1 .. l /\ d + i \in 1 .. j /\ d + i <= l
      BY <1>1, <2>1
    <3> QED BY <1>1, <3>1
  <2>3. IndexByte(a, NewLine) = 0
    BY <1>1, <2>2, IndexByteNone
  <2>4. SubSeq(t, 1, d) \o SubSeq(a, 1, c) = SubSeq(t, 1, j)
    <3>1. PICK x \in Seq(Ascii) :
             x = SubSeq(t, 1, j) /\ Len(x) = j /\ \A p \in 1 .. j : x[p] = t[p]
      <4> DEFINE f == SubSeq(t, 1, j)
      <4>1. f \in Seq(Ascii) /\ Len(f) = j /\ \A p \in 1 .. j : f[p] = t[p]
        BY <1>1, <2>1
      <4>2. f = SubSeq(t, 1, j)
        OBVIOUS
      <4> HIDE DEF f
      <4> QED BY <4>1, <4>2
    <3>2. Len(x) = d + c /\ c \in 0 .. Len(a)
      BY <1>1, <2>1, <3>1
    <3>3. \A p \in 1 .. d : x[p] = t[p]
      BY <1>1, <2>1, <3>1
    <3>4. ASSUME NEW p \in 1 .. c PROVE x[d + p] = a[p]
      BY <2>2, <3>1
    <3>5. d \in 0 .. Len(t)
      OBVIOUS
    <3>6. SubSeq(t, 1, d) \o SubSeq(a, 1, c) = x
      BY <3>2, <3>3, <3>4, <3>5, Joined, SMTT(60)
    <3> QED BY <3>1, <3>6
  <2>5. l = Len(t) /\ c = Len(a)
    BY <1>1
  <2>6. \E p \in 1 .. l : SubSeq(t, 1, d) \o SubSeq(a, 1, c) = SubSeq(t, 1, p)
    BY <2>1, <2>4
  <2> QED BY <1>3, <2>3, <2>5, <2>6
<1>4. l + 1 <= d + c \/ d + c <= l
  BY <1>1
<1> QED BY <1>2, <1>3, <1>4

\* What is ahead of the reader.
LEMMA AheadIs ==
    ASSUME StreamInv, frameAt \in 0 .. Len(received)
    PROVE  /\ Ahead \in Seq(Ascii) /\ Len(Ahead) = Len(received) - frameAt
           /\ \A i \in 1 .. Len(received) - frameAt : Ahead[i] = received[frameAt + i]
<1>1. received \in Seq(Ascii) /\ Len(received) \in Nat
  BY DEF StreamInv
<1> QED BY <1>1 DEF Ahead

\* Message k being a line, the reader takes the rest of it.
LEMMA LineTaken ==
    ASSUME StreamInv, NEW k \in 1 .. Len(syslogSent), syslogSent[k].how = "line",
           NEW d \in 0 .. Len(syslogSent[k].msg), frameAt = Sent(k - 1) + d, frameAt < Len(received)
    PROVE  LET t == syslogSent[k].msg
               nl == IndexByte(Ahead, NewLine)
               taken == IF nl = 0 THEN Len(Ahead) ELSE nl
               text == SubSeq(t, 1, d) \o SubSeq(Ahead, 1, taken)
           IN \/ /\ Sent(k) <= Len(received) /\ nl # 0 /\ frameAt + taken = Sent(k)
                 /\ text = Append(t, NewLine)
              \/ /\ Len(received) < Sent(k) /\ nl = 0 /\ frameAt + taken = Len(received)
                 /\ \E j \in 1 .. Len(t) : text = SubSeq(t, 1, j)
<1> DEFINE m == syslogSent[k]
<1>1. /\ m \in Messages /\ Framable(m) /\ OnWire(m) \in Seq(Ascii)
      /\ Sent(k - 1) \in Nat /\ Sent(k) = Sent(k - 1) + Len(OnWire(m)) /\ Len(received) \in Nat
      /\ \A p \in 1 .. Len(OnWire(m)) :
            Sent(k - 1) + p <= Len(received) => received[Sent(k - 1) + p] = OnWire(m)[p]
  BY Incoming
<1>2. /\ m.msg \in Seq(Ascii) /\ Len(m.msg) \in Nat
      /\ Len(OnWire(m)) = Len(m.msg) + 1 /\ OnWire(m)[Len(m.msg) + 1] = NewLine
      /\ \A p \in 1 .. Len(m.msg) : OnWire(m)[p] = m.msg[p] /\ m.msg[p] # NewLine
  BY <1>1, LineShape
<1> HIDE DEF m
<1>3. PICK t \in Seq(Ascii), w \in Seq(Ascii) : t = m.msg /\ w = OnWire(m)
  BY <1>1, <1>2
<1>4. PICK s \in Nat, R \in Nat, l \in Nat : s = Sent(k - 1) /\ R = Len(received) /\ l = Len(m.msg)
  BY <1>1, <1>2
<1>5. /\ t = m.msg /\ w = OnWire(m) /\ s = Sent(k - 1) /\ R = Len(received)
      /\ l = Len(t) /\ Len(w) = l + 1 /\ w[l + 1] = NewLine
      /\ \A p \in 1 .. l : w[p] = t[p] /\ t[p] # NewLine
      /\ Sent(k) = s + l + 1
      /\ \A p \in 1 .. (l + 1) : s + p <= R => received[s + p] = w[p]
  <2>1. l = Len(t) /\ Len(w) = l + 1 /\ w[l + 1] = NewLine
        /\ \A p \in 1 .. l : w[p] = t[p] /\ t[p] # NewLine
    BY <1>2, <1>3, <1>4
  <2>2. Sent(k) = s + l + 1
    <3>1. Sent(k) = s + (l + 1)
      BY <1>1, <1>3, <1>4, <2>1
    <3> QED BY <3>1
  <2>3. \A p \in 1 .. (l + 1) : s + p <= R => received[s + p] = w[p]
    BY <1>1, <1>3, <1>4, <2>1
  <2> QED BY <1>3, <1>4, <2>1, <2>2, <2>3
<1>6. Sent(k) = s + l + 1 /\ s \in Nat /\ l \in Nat /\ R \in Nat
  BY <1>5
<1>7. d \in Nat /\ d <= l /\ frameAt = s + d /\ frameAt \in Nat /\ frameAt < R
  BY <1>5 DEF m
<1>8. PICK a \in Seq(Ascii), c \in Nat :
         /\ a = Ahead /\ Len(a) = c /\ c = R - frameAt /\ 0 < c
         /\ \A i \in 1 .. c : a[i] = received[frameAt + i]
  <2>1. frameAt \in 0 .. Len(received)
    BY <1>5, <1>7
  <2>2. /\ Ahead \in Seq(Ascii) /\ Len(Ahead) = R - frameAt
        /\ \A i \in 1 .. R - frameAt : Ahead[i] = received[frameAt + i]
    BY <1>5, <2>1, AheadIs
  <2>3. R - frameAt \in Nat /\ 0 < R - frameAt
    <3>1. PICK f \in Nat : f = frameAt /\ f < R
      BY <1>7
    <3>2. R - f \in Nat /\ 0 < R - f
      BY <3>1
    <3> QED BY <3>1, <3>2
  <2> QED BY <2>2, <2>3
<1>9. /\ \A i \in 1 .. c :
            d + i <= l + 1 => s + (d + i) = frameAt + i /\ s + (d + i) <= R /\ d + i \in 1 .. (l + 1)
      /\ l + 1 <= d + c => s + l + 1 <= R /\ frameAt + (l + 1 - d) = s + l + 1
      /\ d + c <= l => R < s + l + 1 /\ frameAt + c = R
  <2>1. PICK f \in Nat, e \in Nat, q \in Nat : f = frameAt /\ e = d /\ q = c
    BY <1>7, <1>8
  <2>2. f = s + e /\ f < R /\ e <= l /\ q = R - f
    BY <1>7, <1>8, <2>1
  <2>3. /\ \A i \in 1 .. q :
              e + i <= l + 1 => s + (e + i) = f + i /\ s + (e + i) <= R /\ e + i \in 1 .. (l + 1)
        /\ l + 1 <= e + q => s + l + 1 <= R /\ f + (l + 1 - e) = s + l + 1
        /\ e + q <= l => R < s + l + 1 /\ f + q = R
    BY <2>2
  <2> QED BY <2>1, <2>3, Zenon
<1>10. ASSUME NEW i \in 1 .. c, d + i <= l + 1 PROVE a[i] = w[d + i]
  <2>1. s + (d + i) = frameAt + i /\ s + (d + i) <= R /\ d + i \in 1 .. (l + 1)
    BY <1>9, <1>10
  <2>2. received[s + (d + i)] = w[d + i]
    BY <1>5, <2>1
  <2> QED BY <1>8, <2>1, <2>2
<1>11. ASSUME NEW i \in 1 .. c, d + i <= l PROVE a[i] = t[d + i]
  <2>1. d + i \in 1 .. l /\ d + i <= l + 1
    BY <1>5, <1>7, <1>11
  <2> QED BY <1>5, <1>10, <2>1
<1>12. ASSUME NEW i \in 1 .. c, d + i = l + 1 PROVE a[i] = NewLine
  <2>1. d + i <= l + 1
    BY <1>5, <1>12
  <2> QED BY <1>5, <1>10, <1>12, <2>1, ZenonT(60)
<1> DEFINE nl == IndexByte(a, NewLine)
           taken == IF nl = 0 THEN c ELSE nl
           text == SubSeq(t, 1, d) \o SubSeq(a, 1, taken)
<1>13. \/ /\ l + 1 <= d + c /\ nl # 0 /\ taken = l + 1 - d /\ text = Append(t, NewLine)
       \/ /\ d + c <= l /\ nl = 0 /\ taken = c /\ \E j \in 1 .. l : text = SubSeq(t, 1, j)
  <2>1. d \in 0 .. Len(t) /\ 0 < Len(a) /\ \A p \in 1 .. Len(t) : t[p] # NewLine
    BY <1>5, <1>7, <1>8
  <2>2. \A i \in 1 .. Len(a) : d + i <= Len(t) => a[i] = t[d + i]
    BY <1>5, <1>8, <1>11
  <2>3. \A i \in 1 .. Len(a) : d + i = Len(t) + 1 => a[i] = NewLine
    BY <1>5, <1>8, <1>12
  <2>4. \/ /\ Len(t) + 1 <= d + Len(a) /\ nl # 0 /\ taken = Len(t) + 1 - d
           /\ text = Append(t, NewLine)
        \/ /\ d + Len(a) <= Len(t) /\ nl = 0 /\ taken = Len(a)
           /\ \E j \in 1 .. Len(t) : text = SubSeq(t, 1, j)
    <3>1. Len(a) = c
      BY <1>8
    <3> QED BY <2>1, <2>2, <2>3, <3>1, RestOfLine, ZenonT(60)
  <2> HIDE DEF text, taken, nl
  <2> QED BY <1>5, <1>8, <2>4
<1>14. /\ nl = IndexByte(Ahead, NewLine) /\ taken = (IF nl = 0 THEN Len(Ahead) ELSE nl)
       /\ text = SubSeq(m.msg, 1, d) \o SubSeq(Ahead, 1, taken)
  BY <1>5, <1>8
<1> HIDE DEF nl, taken, text
<1> USE DEF m
<1>15. CASE /\ l + 1 <= d + c /\ nl # 0 /\ taken = l + 1 - d /\ text = Append(t, NewLine)
  <2>1. Sent(k) <= R /\ frameAt + taken = Sent(k)
    BY <1>6, <1>9, <1>15
  <2> QED BY <1>5, <1>14, <1>15, <2>1
<1>16. CASE /\ d + c <= l /\ nl = 0 /\ taken = c /\ \E j \in 1 .. l : text = SubSeq(t, 1, j)
  <2>1. R < Sent(k) /\ frameAt + taken = R
    BY <1>6, <1>9, <1>16
  <2> QED BY <1>5, <1>14, <1>16, <2>1, ZenonT(60)
<1> QED BY <1>13, <1>15, <1>16

\* The reader reads message k, a line, to its end or to the end of the connection.
LEMMA LineRead ==
    ASSUME StreamInv, frameAt \in 0 .. Len(received), NEW k \in 1 .. Len(syslogSent),
           syslogSent[k].how = "line", NEW d \in 0 .. Len(syslogSent[k].msg),
           frameAt = Sent(k - 1) + d, frameAt < Len(received), syslogged = Due(k - 1),
           ReadLine(SubSeq(syslogSent[k].msg, 1, d))
    PROVE  LET t == syslogSent[k].msg IN
           /\ UNCHANGED <<syslogSent, received, count, digits>>
           /\ \/ /\ reading' = "first" /\ frameAt' = Sent(k) /\ Sent(k) <= Len(received)
                 /\ syslogged' = Due(k)
              \/ /\ reading' = "over" /\ frameAt' = Len(received) /\ Len(received) < Sent(k)
                 /\ \/ syslogged' = Due(k - 1)
                    \/ \E j \in 1 .. Len(t) :
                          syslogged' = Append(Due(k - 1), EntryFromSyslog(Trimmed(SubSeq(t, 1, j))))
<1> DEFINE t == syslogSent[k].msg
           nl == IndexByte(Ahead, NewLine)
           taken == IF nl = 0 THEN Len(Ahead) ELSE nl
           text == SubSeq(t, 1, d) \o SubSeq(Ahead, 1, taken)
<1>1. \/ /\ Sent(k) <= Len(received) /\ nl # 0 /\ frameAt + taken = Sent(k)
         /\ text = Append(t, NewLine)
      \/ /\ Len(received) < Sent(k) /\ nl = 0 /\ frameAt + taken = Len(received)
         /\ \E j \in 1 .. Len(t) : text = SubSeq(t, 1, j)
  BY LineTaken
<1>2. /\ AppendFrame(text) /\ frameAt' = frameAt + taken
      /\ reading' = IF nl = 0 THEN "over" ELSE "first"
      /\ UNCHANGED <<syslogSent, received, count, digits>>
  BY DEF ReadLine, UNCHANGED_Client
<1>3. t \in Seq(Ascii) /\ Due(k) = AndEntry(Due(k - 1), syslogSent[k])
  <2>1. syslogSent[k] \in Messages /\ Due(k) = AndEntry(Due(k - 1), syslogSent[k])
    BY Incoming
  <2> QED BY <2>1 DEF Messages
<1>4. Due(k) = IF IsBlank(t) THEN Due(k - 1) ELSE Append(Due(k - 1), EntryFromSyslog(Trimmed(t)))
  BY <1>3 DEF AndEntry
<1>5. syslogged' = IF IsBlank(Trimmed(text)) THEN Due(k - 1)
                   ELSE Append(Due(k - 1), EntryFromSyslog(Trimmed(text)))
  BY <1>2 DEF AppendFrame
<1> HIDE DEF t, nl, taken, text
<1>6. CASE /\ Sent(k) <= Len(received) /\ nl # 0 /\ frameAt + taken = Sent(k)
           /\ text = Append(t, NewLine)
  <2>1. Trimmed(text) = Trimmed(t) /\ (IsBlank(Trimmed(t)) <=> IsBlank(t))
    BY <1>3, <1>6, TrimNewLine, BlankTrimmed
  <2>2. syslogged' = Due(k)
    BY <1>4, <1>5, <2>1
  <2> QED BY <1>2, <1>6, <2>2
<1>7. CASE /\ Len(received) < Sent(k) /\ nl = 0 /\ frameAt + taken = Len(received)
           /\ \E j \in 1 .. Len(t) : text = SubSeq(t, 1, j)
  <2>1. \/ syslogged' = Due(k - 1)
        \/ \E j \in 1 .. Len(t) :
              syslogged' = Append(Due(k - 1), EntryFromSyslog(Trimmed(SubSeq(t, 1, j))))
    BY <1>5, <1>7
  <2> QED BY <1>2, <1>7, <2>1 DEF t
<1> QED BY <1>1, <1>6, <1>7

\* Where the messages end.
LEMMA Ends ==
    ASSUME StreamInv, NEW k \in 1 .. Len(syslogSent)
    PROVE  /\ Sent(k - 1) \in Nat /\ Sent(k) \in Nat /\ FrameEnd(k) \in Nat
           /\ Sent(k - 1) < FrameEnd(k) /\ FrameEnd(k) <= Sent(k)
           /\ syslogSent[k].how # "octets and newline" => FrameEnd(k) = Sent(k)
           /\ syslogSent[k].how = "octets and newline" => FrameEnd(k) = Sent(k) - 1
           /\ syslogSent[k].how # "line" =>
                 FrameEnd(k) = Sent(k - 1) + Len(syslogSent[k].count) + 1 + Len(syslogSent[k].msg)
<1> DEFINE m == syslogSent[k]
<1>1. /\ m \in Messages /\ Framable(m) /\ OnWire(m) \in Seq(Ascii)
      /\ Sent(k - 1) \in Nat /\ Len(OnWire(m)) \in Nat \ {0}
      /\ Sent(k) = Sent(k - 1) + Len(OnWire(m))
  BY Incoming
<1>2. FrameEnd(k) = Sent(k) - (IF m.how = "octets and newline" THEN 1 ELSE 0)
  BY DEF FrameEnd, Sent
<1> HIDE DEF m
<1>3. PICK s \in Nat, e \in Nat \ {0} : s = Sent(k - 1) /\ e = Len(OnWire(m)) /\ Sent(k) = s + e
  BY <1>1
<1>4. /\ m.how = "octets and newline" => FrameEnd(k) = (s + e) - 1
      /\ m.how # "octets and newline" => FrameEnd(k) = s + e
  <2>1. (s + e) - 0 = s + e
    OBVIOUS
  <2> QED BY <1>2, <1>3, <2>1
<1>5. ASSUME m.how # "line"
      PROVE  /\ FrameEnd(k) = s + Len(m.count) + 1 + Len(m.msg)
             /\ s < FrameEnd(k) /\ FrameEnd(k) \in Nat
  <2>1. /\ m.how \in {"octets", "octets and newline"}
        /\ Len(m.count) \in Nat \ {0} /\ Len(m.msg) \in Nat \ {0}
        /\ m.how = "octets" => Len(OnWire(m)) = Len(m.count) + 1 + Len(m.msg)
        /\ m.how = "octets and newline" => Len(OnWire(m)) = Len(m.count) + 1 + Len(m.msg) + 1
    BY <1>1, <1>5, OctetShape
  <2>2. PICK c \in Nat, l \in Nat : c = Len(m.count) /\ l = Len(m.msg)
    BY <2>1
  <2>3. PICK x \in Nat : x = s + c + 1 + l /\ s < x
    <3>1. s + c + 1 + l \in Nat /\ s < s + c + 1 + l
      OBVIOUS
    <3> QED BY <3>1
  <2>4. CASE m.how = "octets"
    <3>1. e = c + 1 + l
      BY <1>3, <2>1, <2>2, <2>4
    <3>2. s + e = x
      BY <2>3, <3>1
    <3>3. FrameEnd(k) = s + e
      BY <1>4, <2>4
    <3> QED BY <2>2, <2>3, <3>2, <3>3
  <2>5. CASE m.how = "octets and newline"
    <3>1. e = c + 1 + l + 1
      BY <1>3, <2>1, <2>2, <2>5
    <3>2. (s + e) - 1 = x
      BY <2>3, <3>1
    <3>3. FrameEnd(k) = (s + e) - 1
      BY <1>4, <2>5
    <3> QED BY <2>2, <2>3, <3>2, <3>3
  <2> QED BY <2>1, <2>4, <2>5
<1>6. ASSUME m.how = "line" PROVE s < FrameEnd(k) /\ FrameEnd(k) \in Nat
  <2>1. FrameEnd(k) = s + e
    BY <1>4, <1>6
  <2>2. s < s + e /\ s + e \in Nat
    BY <1>3
  <2> QED BY <2>1, <2>2
<1>7. FrameEnd(k) <= s + e /\ s + e \in Nat
  <2>1. (s + e) - 1 <= s + e /\ s + e <= s + e /\ s + e \in Nat
    BY <1>3
  <2> QED BY <1>4, <2>1
<1>8. /\ Sent(k - 1) \in Nat /\ Sent(k) \in Nat /\ FrameEnd(k) \in Nat
      /\ Sent(k - 1) < FrameEnd(k) /\ FrameEnd(k) <= Sent(k)
  BY <1>1, <1>3, <1>5, <1>6, <1>7
<1>9. /\ m.how # "octets and newline" => FrameEnd(k) = Sent(k)
      /\ m.how = "octets and newline" => FrameEnd(k) = Sent(k) - 1
      /\ m.how # "line" => FrameEnd(k) = Sent(k - 1) + Len(m.count) + 1 + Len(m.msg)
  BY <1>3, <1>4, <1>5
<1> QED BY <1>8, <1>9 DEF m

\* The digits read of message k, and the byte behind them.
LEMMA CountPlace ==
    ASSUME StreamInv, frameAt \in 0 .. Len(received), NEW k \in 1 .. Len(syslogSent), InCount(k)
    PROVE  LET m == syslogSent[k]  w == OnWire(m) IN
           /\ digits \in Nat /\ digits < Len(w) /\ Sent(k - 1) + digits < FrameEnd(k)
           /\ m.how = "line" => digits \in 0 .. Len(m.msg)
           /\ m.how # "line" => digits <= Len(m.count)
           /\ ~AtEnd => frameAt < Len(received) /\ Here = w[digits + 1]
<1> DEFINE m == syslogSent[k]
<1>1. /\ m \in Messages /\ Framable(m) /\ OnWire(m) \in Seq(Ascii)
      /\ Sent(k - 1) \in Nat /\ Sent(k) = Sent(k - 1) + Len(OnWire(m)) /\ Len(received) \in Nat
      /\ \A p \in 1 .. Len(OnWire(m)) :
            Sent(k - 1) + p <= Len(received) => received[Sent(k - 1) + p] = OnWire(m)[p]
  BY Incoming
<1>2. /\ frameAt = Sent(k - 1) + digits /\ digits \in 1 .. MaxDigits /\ digits <= Len(OnWire(m))
      /\ \A i \in 1 .. digits : OnWire(m)[i] \in Digit
  BY DEF InCount
<1>3. FrameEnd(k) \in Nat /\ FrameEnd(k) <= Sent(k)
      /\ (m.how = "line" => FrameEnd(k) = Sent(k))
      /\ (m.how # "line" => FrameEnd(k) = Sent(k - 1) + Len(m.count) + 1 + Len(m.msg))
  BY Ends
<1> HIDE DEF m
<1>4. PICK w \in Seq(Ascii) : w = OnWire(m)
  BY <1>1
<1>5. PICK s \in Nat, e \in Nat, R \in Nat : s = Sent(k - 1) /\ e = Len(w) /\ R = Len(received)
  BY <1>1, <1>4
<1>6. PICK d \in Nat \ {0}, f \in Nat : d = digits /\ f = frameAt
  <2>1. digits \in Nat \ {0}
    BY <1>2, SyslogAssumption
  <2>2. frameAt \in Nat
    BY <1>5
  <2> QED BY <2>1, <2>2
<1>7. f = s + d /\ f <= R /\ d <= e /\ \A i \in 1 .. d : w[i] \in Digit
  BY <1>2, <1>4, <1>5, <1>6
<1>8. ASSUME m.how = "line" PROVE d < e /\ d \in 0 .. Len(m.msg) /\ s + d < FrameEnd(k)
  <2>1. /\ Len(m.msg) \in Nat /\ Len(OnWire(m)) = Len(m.msg) + 1
        /\ OnWire(m)[Len(m.msg) + 1] = NewLine
    BY <1>1, <1>8, LineShape
  <2>2. PICK l \in Nat : l = Len(m.msg)
    BY <2>1
  <2>3. e = l + 1 /\ w[l + 1] = NewLine
    BY <1>4, <1>5, <2>1, <2>2
  <2>4. NewLine \notin Digit
    BY DEF NewLine, Digit
  <2>5. ~(l + 1 \in 1 .. d)
    BY <1>7, <2>3, <2>4
  <2>6. d < e /\ d \in 0 .. l /\ s + d < s + e
    BY <1>7, <2>3, <2>5
  <2>7. FrameEnd(k) = s + e
    BY <1>1, <1>3, <1>4, <1>5, <1>8
  <2> QED BY <2>2, <2>6, <2>7
<1>9. ASSUME m.how # "line" PROVE d < e /\ d <= Len(m.count) /\ s + d < FrameEnd(k)
  <2>1. /\ m.how \in {"octets", "octets and newline"}
        /\ Len(m.count) \in Nat \ {0} /\ Len(m.msg) \in Nat \ {0}
        /\ OnWire(m)[Len(m.count) + 1] = Space
        /\ m.how = "octets" => Len(OnWire(m)) = Len(m.count) + 1 + Len(m.msg)
        /\ m.how = "octets and newline" => Len(OnWire(m)) = Len(m.count) + 1 + Len(m.msg) + 1
    BY <1>1, <1>9, OctetShape
  <2>2. PICK c \in Nat, l \in Nat : c = Len(m.count) /\ l = Len(m.msg)
    BY <2>1
  <2>3. w[c + 1] = Space /\ (e = c + 1 + l \/ e = c + 1 + l + 1)
    BY <1>4, <1>5, <2>1, <2>2
  <2>4. Space \notin Digit
    BY DEF Space, Digit
  <2>5. ~(c + 1 \in 1 .. d)
    BY <1>7, <2>3, <2>4
  <2>6. d < e /\ d <= c /\ s + d < s + c + 1 + l
    BY <1>7, <2>3, <2>5
  <2>7. FrameEnd(k) = s + c + 1 + l
    BY <1>3, <1>5, <1>9, <2>2
  <2> QED BY <2>2, <2>6, <2>7
<1>10. d < e
  BY <1>8, <1>9
<1>11. ASSUME ~AtEnd PROVE frameAt < Len(received) /\ Here = w[digits + 1]
  <2>1. f < R
    <3>1. f # R
      BY <1>5, <1>6, <1>11 DEF AtEnd
    <3> QED BY <1>7, <3>1
  <2>2. d + 1 \in 1 .. e /\ s + (d + 1) = f + 1 /\ s + (d + 1) <= R
    BY <1>7, <2>1, <1>10
  <2>3. received[s + (d + 1)] = w[d + 1]
    BY <1>1, <1>4, <1>5, <2>2
  <2> QED BY <1>5, <1>6, <2>1, <2>2, <2>3 DEF Here
<1>12. /\ digits \in Nat /\ digits < Len(OnWire(m)) /\ Sent(k - 1) + digits < FrameEnd(k)
       /\ m.how = "line" => digits \in 0 .. Len(m.msg)
       /\ m.how # "line" => digits <= Len(m.count)
       /\ ~AtEnd => frameAt < Len(received) /\ Here = OnWire(m)[digits + 1]
  BY <1>4, <1>5, <1>6, <1>8, <1>9, <1>10, <1>11
<1> QED BY <1>12 DEF m

LEMMA StreamKept ==
    ASSUME StreamInv, UNCHANGED <<syslogSent, received>>
    PROVE  StreamInv' /\ \A k : Sent(k)' = Sent(k) /\ Due(k)' = Due(k) /\ FrameEnd(k)' = FrameEnd(k)
<1>1. Sent(Len(syslogSent))' = Sent(Len(syslogSent))
  BY DEF Sent
<1> QED BY <1>1 DEF StreamInv, Sent, Due, FrameEnd

LEMMA FirstKept ==
    ASSUME StreamInv, UNCHANGED <<syslogSent, received>>, NEW k \in 0 .. Len(syslogSent),
           reading' = "first", frameAt' \in 0 .. Len(received),
           digits' \in 0 .. MaxDigits, count' \in Nat,
           \/ frameAt' = Sent(k)
           \/ k > 0 /\ syslogSent[k].how = "octets and newline" /\ frameAt' = Sent(k) - 1,
           syslogged' = Due(k)
    PROVE  SyslogInv'
<1>1. StreamInv' /\ Sent(k)' = Sent(k) /\ Due(k)' = Due(k)
  BY StreamKept
<1>2. BetweenFrames(k)'
  BY <1>1 DEF BetweenFrames
<1>3. ReaderInv'
  BY <1>2 DEF ReaderInv
<1>4. SyslogTypeOK'
  BY DEF SyslogTypeOK
<1> QED BY <1>1, <1>3, <1>4 DEF SyslogInv

LEMMA CountKept ==
    ASSUME StreamInv, UNCHANGED <<syslogSent, received>>, NEW k \in 1 .. Len(syslogSent),
           reading' = "count", frameAt' \in 0 .. Len(received), count' \in Nat,
           frameAt' = Sent(k - 1) + digits', syslogged' = Due(k - 1),
           digits' \in 1 .. MaxDigits, digits' <= Len(OnWire(syslogSent[k])),
           OnWire(syslogSent[k])[1] # 48, \A i \in 1 .. digits' : OnWire(syslogSent[k])[i] \in Digit,
           count' = Spelled(OnWire(syslogSent[k]))[digits']
    PROVE  SyslogInv'
<1>1. StreamInv' /\ Sent(k - 1)' = Sent(k - 1) /\ Due(k - 1)' = Due(k - 1)
  BY StreamKept
<1>2. k > 0 /\ k \in 0 .. Len(syslogSent) /\ digits' \in 0 .. MaxDigits
  BY SyslogAssumption
<1>3. InCount(k)'
  BY <1>1, <1>2 DEF InCount
<1>4. ReaderInv'
  BY <1>2, <1>3 DEF ReaderInv
<1>5. SyslogTypeOK'
  BY <1>2 DEF SyslogTypeOK
<1> QED BY <1>1, <1>4, <1>5 DEF SyslogInv

LEMMA OverKept ==
    ASSUME StreamInv, UNCHANGED <<syslogSent, received, count, digits>>, SyslogTypeOK,
           NEW k \in 0 .. Len(syslogSent), reading' = "over", frameAt' \in 0 .. Len(received),
           k > 0 => FrameEnd(k) <= Len(received),
           k < Len(syslogSent) => FrameEnd(k + 1) > Len(received),
           \/ syslogged' = Due(k)
           \/ /\ k < Len(syslogSent) /\ syslogSent[k + 1].how = "line"
              /\ \E j \in 1 .. Len(syslogSent[k + 1].msg) :
                    syslogged' = Append(Due(k), EntryFromSyslog(Trimmed(SubSeq(syslogSent[k + 1].msg, 1, j))))
    PROVE  SyslogInv'
<1>1. StreamInv' /\ Due(k)' = Due(k) /\ FrameEnd(k)' = FrameEnd(k) /\ FrameEnd(k + 1)' = FrameEnd(k + 1)
  BY StreamKept
<1>2. Finished(k)'
  BY <1>1 DEF Finished
<1>3. ReaderInv'
  BY <1>2 DEF ReaderInv
<1>4. SyslogTypeOK'
  BY DEF SyslogTypeOK
<1> QED BY <1>1, <1>3, <1>4 DEF SyslogInv

LEMMA SyslogInitInv == SyslogInit => SyslogInv
<1> SUFFICES ASSUME SyslogInit PROVE SyslogInv
  OBVIOUS
<1>1. syslogSent \in Seq(Messages) /\ \A i \in 1 .. Len(syslogSent) : Framable(syslogSent[i])
  <2>1. syslogSent \in Seq(Messages) /\ \A i \in DOMAIN syslogSent : Framable(syslogSent[i])
    BY SyslogAssumption DEF SyslogInit
  <2>2. DOMAIN syslogSent = 1 .. Len(syslogSent)
    BY <2>1
  <2> QED BY <2>1, <2>2
<1> DEFINE n == Len(syslogSent)  wire == Wire(syslogSent)[n]
<1>2. n \in Nat /\ n \in 0 .. n /\ 0 \in 0 .. n
  BY <1>1
<1>3. wire \in Seq(Ascii)
  BY <1>1, <1>2, WireIs
<1>4. Sent(0) = 0 /\ Due(0) = <<>>
  BY <1>1, <1>2, WireIs, EntriesOfIs DEF Sent, Due
<1>5. PICK l \in 0 .. Len(wire) : received = SubSeq(wire, 1, l)
  BY DEF SyslogInit
<1>6. StreamInv
  <2> HIDE DEF wire, n
  <2>1. /\ received \in Seq(Ascii) /\ Len(received) <= Len(wire)
        /\ \A p \in 1 .. Len(received) : received[p] = wire[p]
    BY <1>3, <1>5
  <2> QED BY <1>1, <2>1 DEF StreamInv, Sent, wire, n
<1>7. SyslogTypeOK
  <2>1. Len(received) \in Nat
    BY <1>6 DEF StreamInv
  <2> QED BY <2>1, SyslogAssumption DEF SyslogTypeOK, SyslogInit
<1>8. ReaderInv
  <2>1. BetweenFrames(0)
    BY <1>4 DEF BetweenFrames, SyslogInit
  <2> QED BY <1>2, <2>1 DEF ReaderInv, SyslogInit
<1> QED BY <1>6, <1>7, <1>8 DEF SyslogInv

LEMMA EndKeeps ==
    ASSUME SyslogInv, EndOfStream
    PROVE  SyslogInv'
<1>1. /\ StreamInv /\ SyslogTypeOK /\ frameAt \in 0 .. Len(received) /\ frameAt = Len(received)
      /\ UNCHANGED <<syslogSent, received, count, digits>> /\ reading' = "over" /\ frameAt' = frameAt
      /\ syslogged' = syslogged /\ reading \in {"first", "count"}
  BY DEF SyslogInv, SyslogTypeOK, EndOfStream, AtEnd, UNCHANGED_Client
<1>2. PICK k \in 0 .. Len(syslogSent) :
         (reading = "first" => BetweenFrames(k)) /\ (reading = "count" => InCount(k))
  BY DEF SyslogInv, ReaderInv
<1>3. PICK R \in Nat, f \in Nat : R = Len(received) /\ f = frameAt /\ f = R
  <2>1. Len(received) \in Nat
    BY <1>1 DEF StreamInv
  <2> QED BY <1>1, <2>1
<1>4. CASE reading = "first"
  <2>1. /\ \/ f = Sent(k)
           \/ k > 0 /\ syslogSent[k].how = "octets and newline" /\ f = Sent(k) - 1
        /\ syslogged = Due(k)
    BY <1>2, <1>3, <1>4 DEF BetweenFrames
  <2>2. ASSUME k > 0 PROVE FrameEnd(k) <= R
    <3>1. k \in 1 .. Len(syslogSent)
      BY <2>2
    <3>2. /\ FrameEnd(k) \in Nat /\ Sent(k) \in Nat /\ FrameEnd(k) <= Sent(k)
          /\ syslogSent[k].how = "octets and newline" => FrameEnd(k) = Sent(k) - 1
      BY <1>1, <3>1, Ends
    <3>3. PICK x \in Nat, y \in Nat : x = FrameEnd(k) /\ y = Sent(k)
      BY <3>2
    <3>4. R = y \/ (R = y - 1 /\ x = y - 1)
      BY <1>3, <2>1, <3>2, <3>3
    <3>5. x <= y
      BY <3>2, <3>3
    <3>6. x <= R
      BY <3>4, <3>5
    <3> QED BY <3>3, <3>6
  <2>3. ASSUME k < Len(syslogSent) PROVE FrameEnd(k + 1) > R
    <3>1. k + 1 \in 1 .. Len(syslogSent) /\ (k + 1) - 1 = k
      BY <2>3
    <3>2. FrameEnd(k + 1) \in Nat /\ Sent(k) \in Nat /\ Sent(k) < FrameEnd(k + 1)
      BY <1>1, <3>1, Ends
    <3>3. PICK x \in Nat, y \in Nat : x = FrameEnd(k + 1) /\ y = Sent(k)
      BY <3>2
    <3>4. R = y \/ R = y - 1
      BY <1>3, <2>1, <3>3
    <3>5. R < x
      BY <3>2, <3>3, <3>4
    <3> QED BY <3>3, <3>5
  <2> QED BY <1>1, <1>3, <2>1, <2>2, <2>3, OverKept
<1>5. CASE reading = "count"
  <2>1. k \in 1 .. Len(syslogSent) /\ k - 1 \in 0 .. Len(syslogSent) /\ (k - 1) + 1 = k /\ InCount(k)
    BY <1>2, <1>5 DEF InCount
  <2>2. /\ digits \in Nat /\ Sent(k - 1) + digits < FrameEnd(k)
        /\ frameAt = Sent(k - 1) + digits /\ syslogged = Due(k - 1)
    BY <1>1, <2>1, CountPlace DEF InCount
  <2>3. FrameEnd(k) > R
    BY <1>3, <2>2
  <2>4. ASSUME k - 1 > 0 PROVE FrameEnd(k - 1) <= R
    <3>1. k - 1 \in 1 .. Len(syslogSent)
      BY <2>4
    <3>2. FrameEnd(k - 1) \in Nat /\ Sent(k - 1) \in Nat /\ FrameEnd(k - 1) <= Sent(k - 1)
      BY <1>1, <3>1, Ends
    <3>3. PICK x \in Nat, y \in Nat, d \in Nat : x = FrameEnd(k - 1) /\ y = Sent(k - 1) /\ d = digits
      BY <2>2, <3>2
    <3>4. x <= y /\ R = y + d
      BY <1>3, <2>2, <3>2, <3>3
    <3>5. x <= R
      BY <3>4
    <3> QED BY <3>3, <3>5
  <2> QED BY <1>1, <1>3, <2>1, <2>2, <2>3, <2>4, OverKept
<1> QED BY <1>1, <1>4, <1>5

\* What the end of the connection leaves behind, message k being the one it cuts.
LEMMA CutShort ==
    ASSUME StreamInv, SyslogTypeOK, NEW k \in 1 .. Len(syslogSent), Sent(k - 1) <= Len(received),
           UNCHANGED <<syslogSent, received, count, digits>>, reading' = "over",
           frameAt' \in 0 .. Len(received), Len(received) < FrameEnd(k),
           \/ syslogged' = Due(k - 1)
           \/ /\ syslogSent[k].how = "line"
              /\ \E j \in 1 .. Len(syslogSent[k].msg) :
                    syslogged' = Append(Due(k - 1), EntryFromSyslog(Trimmed(SubSeq(syslogSent[k].msg, 1, j))))
    PROVE  SyslogInv'
<1>1. /\ k - 1 \in 0 .. Len(syslogSent) /\ (k - 1) + 1 = k /\ k - 1 < Len(syslogSent)
      /\ Len(received) \in Nat
  BY DEF StreamInv
<1>2. ASSUME k - 1 > 0 PROVE FrameEnd(k - 1) <= Len(received)
  <2>1. k - 1 \in 1 .. Len(syslogSent)
    BY <1>2
  <2>2. FrameEnd(k - 1) \in Nat /\ Sent(k - 1) \in Nat /\ FrameEnd(k - 1) <= Sent(k - 1)
    BY <2>1, Ends
  <2>3. PICK x \in Nat, y \in Nat, R \in Nat : x = FrameEnd(k - 1) /\ y = Sent(k - 1) /\ R = Len(received)
    BY <1>1, <2>2
  <2>4. x <= R
    BY <2>2, <2>3
  <2> QED BY <2>3, <2>4
<1>3. FrameEnd(k) > Len(received)
  <2>1. FrameEnd(k) \in Nat
    BY Ends
  <2> QED BY <1>1, <2>1
<1>4. k - 1 < Len(syslogSent) => FrameEnd((k - 1) + 1) > Len(received)
  BY <1>1, <1>3
<1>5. \/ syslogged' = Due(k - 1)
      \/ /\ k - 1 < Len(syslogSent) /\ syslogSent[(k - 1) + 1].how = "line"
         /\ \E j \in 1 .. Len(syslogSent[(k - 1) + 1].msg) :
               syslogged' = Append(Due(k - 1),
                                   EntryFromSyslog(Trimmed(SubSeq(syslogSent[(k - 1) + 1].msg, 1, j))))
  BY <1>1
<1> QED BY <1>1, <1>2, <1>4, <1>5, OverKept

\* Between two frames the reader is at the newline behind an octet-counted
\* message, or at the first byte of the next message.
LEMMA FirstPlace ==
    ASSUME StreamInv, SyslogTypeOK, NEW k \in 0 .. Len(syslogSent), BetweenFrames(k), ~AtEnd
    PROVE  /\ frameAt \in Nat /\ frameAt < Len(received)
           /\ \/ k > 0 /\ frameAt + 1 = Sent(k) /\ Here = NewLine
              \/ /\ k < Len(syslogSent) /\ frameAt = Sent(k)
                 /\ Here = OnWire(syslogSent[k + 1])[1]
<1>1. PICK f \in Nat, R \in Nat : f = frameAt /\ R = Len(received) /\ f < R
  <2>1. Len(received) \in Nat
    BY DEF StreamInv
  <2>2. frameAt \in Nat /\ frameAt <= Len(received) /\ frameAt # Len(received)
    BY <2>1 DEF SyslogTypeOK, AtEnd
  <2>3. PICK f \in Nat, R \in Nat : f = frameAt /\ R = Len(received)
    BY <2>1, <2>2
  <2>4. f < R
    BY <2>2, <2>3
  <2> QED BY <2>3, <2>4
<1>2. CASE frameAt = Sent(k)
  <2>1. R <= Sent(Len(syslogSent)) /\ Len(syslogSent) \in Nat
    BY <1>1 DEF StreamInv
  <2>2. k # Len(syslogSent)
    <3>1. ASSUME k = Len(syslogSent) PROVE FALSE
      <4>1. f = Sent(Len(syslogSent))
        BY <1>1, <1>2, <3>1
      <4> QED BY <1>1, <2>1, <4>1
    <3> QED BY <3>1
  <2>3. k < Len(syslogSent) /\ k + 1 \in 1 .. Len(syslogSent) /\ (k + 1) - 1 = k
    BY <2>1, <2>2
  <2>4. /\ Len(OnWire(syslogSent[k + 1])) \in Nat \ {0}
        /\ \A p \in 1 .. Len(OnWire(syslogSent[k + 1])) :
              Sent(k) + p <= Len(received) => received[Sent(k) + p] = OnWire(syslogSent[k + 1])[p]
    BY <2>3, Incoming
  <2>5. 1 \in 1 .. Len(OnWire(syslogSent[k + 1]))
    BY <2>4
  <2>6. f + 1 <= R
    BY <1>1
  <2>7. received[f + 1] = OnWire(syslogSent[k + 1])[1]
    BY <1>1, <1>2, <2>4, <2>5, <2>6
  <2> QED BY <1>1, <1>2, <2>3, <2>7 DEF Here
<1>3. CASE k > 0 /\ syslogSent[k].how = "octets and newline" /\ frameAt = Sent(k) - 1
  <2>1. k \in 1 .. Len(syslogSent)
    <3>1. k > 0
      BY <1>3, Zenon
    <3>2. PICK n \in Nat : n = Len(syslogSent)
      BY DEF StreamInv
    <3>3. \A i \in 0 .. n : i > 0 => i \in 1 .. n
      OBVIOUS
    <3> QED BY <3>1, <3>2, <3>3, Zenon
  <2>2. /\ syslogSent[k] \in Messages /\ Framable(syslogSent[k])
        /\ Sent(k - 1) \in Nat /\ Len(OnWire(syslogSent[k])) \in Nat \ {0}
        /\ Sent(k) = Sent(k - 1) + Len(OnWire(syslogSent[k]))
        /\ \A p \in 1 .. Len(OnWire(syslogSent[k])) :
              Sent(k - 1) + p <= Len(received) => received[Sent(k - 1) + p] = OnWire(syslogSent[k])[p]
    BY <2>1, Incoming
  <2>3. OnWire(syslogSent[k])[Len(OnWire(syslogSent[k]))] = NewLine
    <3>1. LET m == syslogSent[k]  w == OnWire(m)  c == Len(m.count)  l == Len(m.msg) IN
          Len(w) = c + 1 + l + 1 /\ w[c + 1 + l + 1] = NewLine
      BY <1>3, <2>2, OctetShape
    <3> QED BY <3>1
  <2>4. PICK s \in Nat, e \in Nat \ {0} : s = Sent(k - 1) /\ e = Len(OnWire(syslogSent[k]))
    BY <2>2
  <2>5. Sent(k) = s + e
    BY <2>2, <2>4
  <2>6. f = (s + e) - 1
    BY <1>1, <1>3, <2>5
  <2>7. f + 1 = s + e /\ s + e <= R /\ e \in 1 .. e
    BY <1>1, <2>4, <2>6
  <2>8. received[s + e] = NewLine
    BY <1>1, <2>2, <2>3, <2>4, <2>7
  <2> QED BY <1>1, <1>3, <2>5, <2>7, <2>8 DEF Here
<1> QED BY <1>2, <1>3 DEF BetweenFrames

LEMMA LineKeeps ==
    ASSUME SyslogInv, LineFrame
    PROVE  SyslogInv'
<1>1. /\ StreamInv /\ SyslogTypeOK /\ reading = "first" /\ ~AtEnd /\ Here \notin Digit \ {48}
      /\ ReadLine(<<>>) /\ frameAt \in 0 .. Len(received)
  BY DEF SyslogInv, LineFrame, SyslogTypeOK
<1>2. PICK k \in 0 .. Len(syslogSent) : BetweenFrames(k)
  BY <1>1 DEF SyslogInv, ReaderInv
<1>3. /\ frameAt \in Nat /\ frameAt < Len(received) /\ Len(syslogSent) \in Nat
      /\ Len(received) \in Nat /\ digits \in 0 .. MaxDigits /\ count \in Nat
  BY <1>1, <1>2, FirstPlace DEF StreamInv, SyslogTypeOK
<1>4. UNCHANGED <<syslogSent, received, count, digits>> /\ syslogged = Due(k)
  BY <1>1, <1>2 DEF ReadLine, UNCHANGED_Client, BetweenFrames
<1>5. CASE k > 0 /\ frameAt + 1 = Sent(k) /\ Here = NewLine
  <2>1. PICK a \in Seq(Ascii) : a = Ahead /\ a[1] = NewLine /\ 1 \in 1 .. Len(a)
    <3>1. /\ Ahead \in Seq(Ascii) /\ Len(Ahead) = Len(received) - frameAt
          /\ \A i \in 1 .. Len(received) - frameAt : Ahead[i] = received[frameAt + i]
      BY <1>1, AheadIs
    <3>2. PICK f \in Nat, R \in Nat : f = frameAt /\ R = Len(received)
      BY <1>3
    <3>3. 1 \in 1 .. (R - f)
      BY <1>3, <3>2
    <3>4. Ahead[1] = NewLine /\ 1 \in 1 .. Len(Ahead)
      BY <1>5, <3>1, <3>2, <3>3 DEF Here
    <3> QED BY <3>1, <3>4
  <2>2. IndexByte(a, NewLine) = 1
    <3>1. \A j \in 1 .. (1 - 1) : a[j] # NewLine
      OBVIOUS
    <3> QED BY <2>1, <3>1, IndexByteIs
  <2>3. PICK x \in Seq(Ascii) : x = <<>> \o SubSeq(a, 1, 1) /\ Len(x) = 1 /\ x[1] = NewLine
    <3>1. SubSeq(a, 1, 1) \in Seq(Ascii) /\ Len(SubSeq(a, 1, 1)) = 1 /\ SubSeq(a, 1, 1)[1] = NewLine
      BY <2>1
    <3>2. PICK y \in Seq(Ascii) : y = SubSeq(a, 1, 1) /\ Len(y) = 1 /\ y[1] = NewLine
      BY <3>1
    <3>3. <<>> \o y = y
      OBVIOUS
    <3> QED BY <3>2, <3>3
  <2>4. IsBlank(Trimmed(x))
    <3>1. IsBlank(x)
      <4>1. DOMAIN x = 1 .. 1
        BY <2>3
      <4> QED BY <2>3, <4>1 DEF IsBlank, ToSet, White
    <3> QED BY <3>1, BlankTrimmed
  <2>5. reading' = "first" /\ frameAt' = frameAt + 1 /\ AppendFrame(x)
    BY <1>1, <2>1, <2>2, <2>3 DEF ReadLine
  <2>6. syslogged' = Due(k)
    BY <1>4, <2>4, <2>5 DEF AppendFrame
  <2>7. frameAt' \in 0 .. Len(received)
    <3>1. PICK f \in Nat, R \in Nat : f = frameAt /\ R = Len(received)
      BY <1>3
    <3>2. f + 1 \in 0 .. R
      BY <1>3, <3>1
    <3> QED BY <2>5, <3>1, <3>2
  <2> QED BY <1>1, <1>3, <1>4, <1>5, <2>5, <2>6, <2>7, FirstKept
<1>6. CASE k < Len(syslogSent) /\ frameAt = Sent(k) /\ Here = OnWire(syslogSent[k + 1])[1]
  <2>1. k + 1 \in 1 .. Len(syslogSent) /\ (k + 1) - 1 = k
    BY <1>3, <1>6
  <2>2. syslogSent[k + 1] \in Messages /\ Framable(syslogSent[k + 1])
    BY <1>1, <2>1, Incoming
  <2>3. syslogSent[k + 1].how = "line"
    <3>1. ASSUME syslogSent[k + 1].how # "line" PROVE FALSE
      <4>1. LET w == OnWire(syslogSent[k + 1])  c == Len(syslogSent[k + 1].count) IN
            w[1] # 48 /\ c \in Nat \ {0} /\ \A i \in 1 .. c : w[i] \in Digit
        BY <2>2, <3>1, OctetShape
      <4>2. OnWire(syslogSent[k + 1])[1] \in Digit \ {48}
        BY <4>1
      <4> QED BY <1>1, <1>6, <4>2
    <3> QED BY <3>1
  <2>4. PICK t \in Seq(Ascii) : t = syslogSent[k + 1].msg
    BY <2>2 DEF Messages
  <2>5. 0 \in 0 .. Len(t) /\ SubSeq(t, 1, 0) = <<>>
    OBVIOUS
  <2>6. frameAt = Sent(k) + 0
    BY <1>3, <1>6
  <2>7. \/ /\ reading' = "first" /\ frameAt' = Sent(k + 1) /\ Sent(k + 1) <= Len(received)
           /\ syslogged' = Due(k + 1)
        \/ /\ reading' = "over" /\ frameAt' = Len(received) /\ Len(received) < Sent(k + 1)
           /\ \/ syslogged' = Due(k)
              \/ \E j \in 1 .. Len(t) :
                    syslogged' = Append(Due(k), EntryFromSyslog(Trimmed(SubSeq(t, 1, j))))
    BY <1>1, <1>3, <1>4, <2>1, <2>3, <2>4, <2>5, <2>6, LineRead, ZenonT(60)
  <2>8. k + 1 \in 0 .. Len(syslogSent) /\ Sent(k + 1) \in Nat /\ FrameEnd(k + 1) = Sent(k + 1)
    <3>1. /\ Sent(k + 1) \in Nat
          /\ syslogSent[k + 1].how # "octets and newline" => FrameEnd(k + 1) = Sent(k + 1)
      BY <1>1, <2>1, Ends
    <3>2. k + 1 \in 0 .. Len(syslogSent)
      BY <2>1
    <3> QED BY <2>3, <3>1, <3>2
  <2>9. CASE reading' = "first"
    <3>1. frameAt' \in 0 .. Len(received) /\ frameAt' = Sent(k + 1) /\ syslogged' = Due(k + 1)
      BY <1>3, <2>7, <2>8, <2>9
    <3> QED BY <1>1, <1>3, <1>4, <2>8, <2>9, <3>1, FirstKept
  <2>10. CASE reading' = "over"
    <3>1. frameAt' \in 0 .. Len(received) /\ Len(received) < FrameEnd(k + 1)
      BY <1>3, <2>7, <2>8, <2>10
    <3>2. Sent(k) <= Len(received)
      BY <1>3, <1>6
    <3>3. \/ syslogged' = Due(k)
          \/ \E j \in 1 .. Len(t) :
                syslogged' = Append(Due(k), EntryFromSyslog(Trimmed(SubSeq(t, 1, j))))
      BY <2>7, <2>10
    <3> QED BY <1>1, <1>4, <2>1, <2>3, <2>4, <2>10, <3>1, <3>2, <3>3, CutShort
  <2> QED BY <2>7, <2>9, <2>10
<1> QED BY <1>1, <1>2, <1>5, <1>6, FirstPlace

LEMMA FirstDigitKeeps ==
    ASSUME SyslogInv, FirstDigit
    PROVE  SyslogInv'
<1>1. /\ StreamInv /\ SyslogTypeOK /\ reading = "first" /\ ~AtEnd /\ Here \in Digit \ {48}
      /\ reading' = "count" /\ count' = Here - 48 /\ digits' = 1 /\ frameAt' = frameAt + 1
      /\ UNCHANGED <<syslogSent, received, syslogged>>
  BY DEF SyslogInv, FirstDigit, UNCHANGED_Client
<1>2. PICK k \in 0 .. Len(syslogSent) : BetweenFrames(k)
  BY <1>1 DEF SyslogInv, ReaderInv
<1>3. NewLine \notin Digit
  BY DEF NewLine, Digit
<1>4. /\ k < Len(syslogSent) /\ frameAt = Sent(k) /\ Here = OnWire(syslogSent[k + 1])[1]
      /\ frameAt \in Nat /\ frameAt < Len(received)
  BY <1>1, <1>2, <1>3, FirstPlace
<1>5. k + 1 \in 1 .. Len(syslogSent) /\ (k + 1) - 1 = k
  <2>1. Len(syslogSent) \in Nat
    BY <1>1 DEF StreamInv
  <2> QED BY <1>4, <2>1
<1>6. PICK w \in Seq(Ascii) : w = OnWire(syslogSent[k + 1]) /\ 1 <= Len(w)
  <2>1. OnWire(syslogSent[k + 1]) \in Seq(Ascii) /\ Len(OnWire(syslogSent[k + 1])) \in Nat \ {0}
    BY <1>1, <1>5, Incoming
  <2> QED BY <2>1
<1>7. count' = Spelled(w)[1] /\ count' \in Nat
  <2>1. w \in Seq(Int)
    <3>1. Ascii \subseteq Int
      BY DEF Ascii
    <3> QED BY <3>1, SeqMonotonic
  <2>2. Spelled(w)[0] = 0 /\ Spelled(w)[1] = 10 * Spelled(w)[1 - 1] + w[1] - 48
    <3>1. 1 \in 1 .. Len(w)
      BY <1>6
    <3> QED BY <2>1, <3>1, SpelledIs
  <2>3. w[1] = Here /\ Here \in 48 .. 57
    BY <1>1, <1>4, <1>6 DEF Digit
  <2>4. 1 - 1 = 0
    OBVIOUS
  <2>5. Spelled(w)[1] = 10 * 0 + w[1] - 48
    BY <2>2, <2>4
  <2>6. PICK h \in 48 .. 57 : h = Here
    BY <2>3
  <2>7. 10 * 0 + h - 48 = h - 48 /\ h - 48 \in Nat
    OBVIOUS
  <2> QED BY <1>1, <2>3, <2>5, <2>6, <2>7
<1>8. frameAt' \in 0 .. Len(received)
  <2>1. PICK f \in Nat, R \in Nat : f = frameAt /\ R = Len(received)
    BY <1>1, <1>4 DEF StreamInv
  <2>2. f + 1 \in 0 .. R
    BY <1>4, <2>1
  <2> QED BY <1>1, <2>1, <2>2
<1>9. /\ frameAt' = Sent((k + 1) - 1) + digits' /\ syslogged' = Due((k + 1) - 1)
      /\ digits' \in 1 .. MaxDigits
  BY <1>1, <1>2, <1>4, <1>5, SyslogAssumption DEF BetweenFrames
<1>10. /\ digits' <= Len(w) /\ w[1] # 48 /\ \A i \in 1 .. digits' : w[i] \in Digit
       /\ count' = Spelled(w)[digits']
  BY <1>1, <1>4, <1>6, <1>7
<1> QED BY <1>1, <1>5, <1>6, <1>7, <1>8, <1>9, <1>10, CountKept

LEMMA NextDigitKeeps ==
    ASSUME SyslogInv, NextDigit
    PROVE  SyslogInv'
<1>1. /\ StreamInv /\ SyslogTypeOK /\ reading = "count" /\ ~AtEnd /\ Here \in Digit /\ digits < MaxDigits
      /\ reading' = "count" /\ count' = 10 * count + Here - 48 /\ digits' = digits + 1
      /\ frameAt' = frameAt + 1 /\ UNCHANGED <<syslogSent, received, syslogged>>
      /\ frameAt \in 0 .. Len(received) /\ count \in Nat
  BY DEF SyslogInv, NextDigit, UNCHANGED_Client, More, SyslogTypeOK
<1>2. PICK k \in 1 .. Len(syslogSent) : InCount(k)
  BY <1>1 DEF SyslogInv, ReaderInv, InCount
<1>3. /\ digits \in Nat /\ digits < Len(OnWire(syslogSent[k]))
      /\ frameAt < Len(received) /\ Here = OnWire(syslogSent[k])[digits + 1]
  BY <1>1, <1>2, CountPlace
<1>4. PICK w \in Seq(Ascii) : w = OnWire(syslogSent[k])
  BY <1>1, Incoming
<1>5. PICK d \in Nat, n \in Nat, e \in Nat : d = digits /\ n = count /\ e = Len(w)
  <2>1. digits \in Nat /\ count \in Nat /\ Len(w) \in Nat
    BY <1>1, <1>3, <1>4
  <2> QED BY <2>1
<1>6. PICK R \in Nat, s \in Nat : R = Len(received) /\ s = Sent(k - 1)
  <2>1. Sent(k - 1) \in Nat /\ Len(received) \in Nat
    BY <1>1, Incoming
  <2> QED BY <2>1
<1>7. d = digits /\ n = count /\ e = Len(w) /\ R = Len(received) /\ s = Sent(k - 1)
  BY <1>5, <1>6
<1>8. PICK h \in 48 .. 57 : h = Here
  BY <1>1 DEF Digit
<1>9. /\ frameAt = s + d /\ d \in 1 .. MaxDigits /\ n = Spelled(w)[d] /\ w[1] # 48
      /\ \A i \in 1 .. d : w[i] \in Digit
      /\ syslogged = Due(k - 1)
  BY <1>2, <1>4, <1>7 DEF InCount
<1>10. d + 1 \in 1 .. e /\ d + 1 <= e /\ (d + 1) - 1 = d
  BY <1>3, <1>4, <1>7
<1>11. Spelled(w)[d + 1] = 10 * n + h - 48 /\ 10 * n + h - 48 \in Nat
  <2>1. w \in Seq(Int)
    <3>1. Ascii \subseteq Int
      BY DEF Ascii
    <3> QED BY <3>1, SeqMonotonic
  <2>2. Spelled(w)[d + 1] = 10 * Spelled(w)[(d + 1) - 1] + w[d + 1] - 48
    BY <1>7, <1>10, <2>1, SpelledIs
  <2>3. w[d + 1] = h
    BY <1>3, <1>4, <1>7, <1>8
  <2>4. 10 * n + h - 48 \in Nat
    OBVIOUS
  <2> QED BY <1>9, <1>10, <2>2, <2>3, <2>4
<1>12. /\ digits' = d + 1 /\ count' = 10 * n + h - 48 /\ frameAt' = s + (d + 1)
  <2>1. frameAt' = (s + d) + 1
    BY <1>1, <1>9
  <2>2. (s + d) + 1 = s + (d + 1)
    OBVIOUS
  <2> QED BY <1>1, <1>7, <1>8, <2>1, <2>2
<1>13. frameAt' \in 0 .. Len(received)
  <2>1. s + d < R
    BY <1>3, <1>7, <1>9
  <2>2. s + (d + 1) \in 0 .. R
    BY <2>1
  <2> QED BY <1>7, <1>12, <2>2
<1>14. digits' \in 1 .. MaxDigits
  <2>1. d < MaxDigits /\ MaxDigits \in Nat
    BY <1>1, <1>7, SyslogAssumption
  <2> QED BY <1>12, <2>1
<1>15. \A i \in 1 .. digits' : w[i] \in Digit
  <2>1. ASSUME NEW i \in 1 .. (d + 1) PROVE w[i] \in Digit
    <3>1. i \in 1 .. d \/ i = d + 1
      OBVIOUS
    <3>2. w[d + 1] \in Digit
      BY <1>1, <1>3, <1>4, <1>7
    <3> QED BY <1>9, <3>1, <3>2
  <2> QED BY <1>12, <2>1
<1>16. /\ frameAt' = Sent(k - 1) + digits' /\ digits' <= Len(w) /\ count' = Spelled(w)[digits']
       /\ count' \in Nat /\ syslogged' = Due(k - 1)
  BY <1>1, <1>7, <1>9, <1>10, <1>11, <1>12
<1> QED BY <1>1, <1>4, <1>9, <1>13, <1>14, <1>15, <1>16, CountKept

\* After the digits: what the byte behind them says of message k.
LEMMA AfterCount ==
    ASSUME StreamInv, SyslogTypeOK, NEW k \in 1 .. Len(syslogSent), InCount(k), ~AtEnd
    PROVE  LET m == syslogSent[k] IN
           /\ m.how = "line" => ~Counted
           /\ m.how # "line" /\ ~More => Counted
           /\ m.how # "line" /\ Counted => digits = Len(m.count) /\ count = Len(m.msg)
<1> DEFINE m == syslogSent[k]
<1>1. frameAt \in 0 .. Len(received) /\ Len(received) \in Nat /\ digits \in 0 .. MaxDigits /\ count \in Nat
  BY DEF SyslogTypeOK, StreamInv
<1>2. /\ digits \in Nat /\ digits < Len(OnWire(m)) /\ frameAt < Len(received)
      /\ Here = OnWire(m)[digits + 1]
      /\ m.how # "line" => digits <= Len(m.count)
  BY <1>1, CountPlace
<1>3. m \in Messages /\ Framable(m) /\ OnWire(m) \in Seq(Ascii)
  BY Incoming
<1>4. /\ digits \in 1 .. MaxDigits /\ OnWire(m)[1] # 48
      /\ \A i \in 1 .. digits : OnWire(m)[i] \in Digit
      /\ count = Spelled(OnWire(m))[digits]
  BY DEF InCount
<1> HIDE DEF m
<1>5. ASSUME m.how = "line", Counted PROVE FALSE
  <2>1. ~ (/\ digits < Len(OnWire(m)) /\ OnWire(m)[1] # 48 /\ OnWire(m)[digits + 1] = Space
           /\ \A i \in 1 .. digits : OnWire(m)[i] \in Digit
           /\ Spelled(OnWire(m))[digits] \in 1 .. MaxSyslogFrame)
    BY <1>3, <1>4, <1>5, LineShape
  <2> QED BY <1>2, <1>4, <1>5, <2>1 DEF Counted
<1>6. ASSUME m.how # "line"
      PROVE  /\ ~More => Counted
             /\ Counted => digits = Len(m.count) /\ count = Len(m.msg)
  <2>1. /\ Len(m.count) \in 1 .. MaxDigits /\ Len(m.count) \in Nat \ {0}
        /\ Len(m.msg) \in 1 .. MaxSyslogFrame
        /\ \A i \in 1 .. Len(m.count) : OnWire(m)[i] \in Digit
        /\ OnWire(m)[Len(m.count) + 1] = Space /\ Spelled(OnWire(m))[Len(m.count)] = Len(m.msg)
    BY <1>3, <1>6, OctetShape
  <2>2. PICK c \in Nat, d \in Nat : c = Len(m.count) /\ d = digits /\ d <= c
    BY <1>2, <1>6, <2>1
  <2>3. Space \notin Digit
    BY DEF Space, Digit
  <2>4. CASE d = c
    BY <1>2, <1>4, <2>1, <2>2, <2>3, <2>4 DEF Counted, More
  <2>5. CASE d < c
    <3>1. d + 1 \in 1 .. c
      BY <2>5
    <3>2. Here \in Digit
      BY <1>2, <2>1, <2>2, <3>1
    <3>3. digits < MaxDigits
      <4>1. d < c /\ c <= MaxDigits /\ MaxDigits \in Nat
        BY <2>1, <2>2, <2>5, SyslogAssumption
      <4>2. d < MaxDigits
        BY <4>1
      <4> QED BY <2>2, <4>2
    <3> QED BY <2>3, <3>2, <3>3 DEF Counted, More
  <2>6. d = c \/ d < c
    BY <2>2
  <2> QED BY <2>4, <2>5, <2>6
<1> QED BY <1>5, <1>6 DEF m

\* The text of an octet-counted message is what lies ahead, the space left out.
LEMMA TextAhead ==
    ASSUME NEW t \in Seq(Ascii), NEW a \in Seq(Ascii), Len(t) + 1 <= Len(a),
           \A i \in 1 .. Len(t) : a[i + 1] = t[i]
    PROVE  SubSeq(a, 2, Len(t) + 1) = t
<1>1. PICK l \in Nat, n \in Nat : l = Len(t) /\ n = Len(a) /\ l + 1 <= n
  OBVIOUS
<1>2. PICK x \in Seq(Ascii) : x = SubSeq(a, 2, l + 1) /\ Len(x) = l /\ \A i \in 1 .. l : x[i] = a[i + 1]
  <2> DEFINE f == SubSeq(a, 2, l + 1)
  <2>1. f \in Seq(Ascii) /\ Len(f) = (l + 1) - 2 + 1 /\ \A i \in 1 .. (l + 1) - 2 + 1 : f[i] = a[2 + i - 1]
    BY <1>1
  <2>2. (l + 1) - 2 + 1 = l /\ \A i \in 1 .. l : 2 + i - 1 = i + 1
    BY <1>1
  <2>3. f = SubSeq(a, 2, l + 1)
    OBVIOUS
  <2> HIDE DEF f
  <2>4. \A i \in 1 .. l : f[i] = a[i + 1]
    BY <2>1, <2>2
  <2> QED BY <2>1, <2>2, <2>3, <2>4
<1>3. \A i \in 1 .. Len(x) : x[i] = t[i]
  BY <1>1, <1>2
<1>4. x = t
  <2>1. Len(x) = Len(t)
    BY <1>1, <1>2
  <2> QED BY <1>3, <2>1, SeqEqual
<1> QED BY <1>1, <1>2, <1>4

LEMMA OctetKeeps ==
    ASSUME SyslogInv, OctetFrame
    PROVE  SyslogInv'
<1>1. /\ StreamInv /\ SyslogTypeOK /\ reading = "count" /\ ~AtEnd /\ Counted
      /\ UNCHANGED <<syslogSent, received, count, digits>>
      /\ frameAt \in 0 .. Len(received) /\ count \in Nat /\ digits \in 0 .. MaxDigits
  BY DEF SyslogInv, OctetFrame, UNCHANGED_Client, SyslogTypeOK
<1>2. PICK k \in 1 .. Len(syslogSent) : InCount(k)
  BY <1>1 DEF SyslogInv, ReaderInv, InCount
<1> DEFINE m == syslogSent[k]
<1>3. /\ m.how # "line" /\ digits = Len(m.count) /\ count = Len(m.msg)
  BY <1>1, <1>2, AfterCount
<1>4. /\ m \in Messages /\ Framable(m) /\ Sent(k - 1) \in Nat /\ Len(received) \in Nat
      /\ \A p \in 1 .. Len(OnWire(m)) :
            Sent(k - 1) + p <= Len(received) => received[Sent(k - 1) + p] = OnWire(m)[p]
      /\ Due(k) = AndEntry(Due(k - 1), m)
  BY <1>1, Incoming
<1>5. /\ Sent(k) \in Nat /\ FrameEnd(k) \in Nat /\ FrameEnd(k) <= Sent(k)
      /\ m.how # "octets and newline" => FrameEnd(k) = Sent(k)
      /\ m.how = "octets and newline" => FrameEnd(k) = Sent(k) - 1
      /\ FrameEnd(k) = Sent(k - 1) + Len(m.count) + 1 + Len(m.msg)
  BY <1>1, <1>3, Ends
<1>6. frameAt = Sent(k - 1) + digits /\ syslogged = Due(k - 1)
  BY <1>2 DEF InCount
<1>7. frameAt < Len(received)
  BY <1>1, <1>2, CountPlace
<1> DEFINE whole == Len(Ahead) > count
<1>8. /\ IF whole THEN AppendFrame(SubSeq(Ahead, 2, count + 1)) ELSE UNCHANGED syslogged
      /\ frameAt' = IF whole THEN frameAt + 1 + count ELSE Len(received)
      /\ reading' = IF whole THEN "first" ELSE "over"
  BY DEF OctetFrame
<1> HIDE DEF m, whole
<1>9. PICK t \in Seq(Ascii) :
         /\ t = m.msg
         /\ \A p \in 1 .. Len(t) : OnWire(m)[Len(m.count) + 1 + p] = t[p]
         /\ Len(OnWire(m)) \in Nat /\ Len(m.count) + 1 + Len(t) <= Len(OnWire(m))
  <2>1. LET w == OnWire(m)  c == Len(m.count)  l == Len(m.msg) IN
        /\ m.how \in {"octets", "octets and newline"}
        /\ m.msg \in Seq(Ascii) /\ c \in Nat \ {0} /\ l \in Nat \ {0}
        /\ \A p \in 1 .. l : w[c + 1 + p] = m.msg[p]
        /\ m.how = "octets" => Len(w) = c + 1 + l
        /\ m.how = "octets and newline" => Len(w) = c + 1 + l + 1
    BY <1>3, <1>4, OctetShape
  <2>2. PICK c \in Nat, l \in Nat : c = Len(m.count) /\ l = Len(m.msg)
    BY <2>1
  <2>3. Len(OnWire(m)) = c + 1 + l \/ Len(OnWire(m)) = c + 1 + l + 1
    BY <2>1, <2>2
  <2>4. Len(OnWire(m)) \in Nat /\ c + 1 + l <= Len(OnWire(m))
    BY <2>3
  <2>5. PICK t \in Seq(Ascii) : t = m.msg
    BY <2>1
  <2>6. \A p \in 1 .. Len(t) : OnWire(m)[Len(m.count) + 1 + p] = t[p]
    BY <2>1, <2>5
  <2>7. Len(m.count) + 1 + Len(t) <= Len(OnWire(m))
    BY <2>2, <2>4, <2>5
  <2> QED BY <2>4, <2>5, <2>6, <2>7
<1>10. PICK s \in Nat, R \in Nat, d \in Nat : s = Sent(k - 1) /\ R = Len(received) /\ d = digits
  BY <1>1, <1>4
<1>11. PICK f \in Nat, l \in Nat : f = frameAt /\ l = count
  BY <1>1
<1>12. /\ f = s + d /\ f < R /\ l = Len(t) /\ d = Len(m.count)
       /\ FrameEnd(k) = s + d + 1 + l
  BY <1>3, <1>5, <1>6, <1>7, <1>9, <1>10, <1>11
<1>13. f = s + d /\ f < R
  BY <1>12
<1>14. PICK a \in Seq(Ascii) :
          a = Ahead /\ Len(a) = R - f /\ \A i \in 1 .. (R - f) : a[i] = received[f + i]
  <2>1. /\ Ahead \in Seq(Ascii) /\ Len(Ahead) = Len(received) - frameAt
        /\ \A i \in 1 .. Len(received) - frameAt : Ahead[i] = received[frameAt + i]
    BY <1>1, AheadIs
  <2> QED BY <1>10, <1>11, <2>1
<1>15. CASE whole
  <2>1. R - f > l /\ s + d + 1 + l <= R
    <3>1. R - f > l
      BY <1>11, <1>14, <1>15 DEF whole
    <3>2. s + d + 1 + l <= R
      BY <1>13, <3>1
    <3> QED BY <3>1, <3>2
  <2>2. SubSeq(Ahead, 2, count + 1) = t
    <3>1. ASSUME NEW i \in 1 .. l PROVE a[i + 1] = t[i]
      <4>1. /\ i + 1 \in 1 .. (R - f) /\ f + (i + 1) = s + (d + 1 + i) /\ s + (d + 1 + i) <= R
            /\ d + 1 + i <= d + 1 + l /\ d + 1 + i \in Nat \ {0}
        BY <1>13, <2>1
      <4>2. d + 1 + i \in 1 .. Len(OnWire(m))
        <5>1. PICK e \in Nat : e = Len(OnWire(m)) /\ d + 1 + l <= e
          BY <1>9, <1>12
        <5>2. d + 1 + i \in 1 .. e
          BY <4>1, <5>1
        <5> QED BY <5>1, <5>2
      <4>3. received[s + (d + 1 + i)] = OnWire(m)[d + 1 + i]
        BY <1>4, <1>10, <4>1, <4>2
      <4>4. OnWire(m)[d + 1 + i] = t[i]
        BY <1>9, <1>12
      <4>5. a[i + 1] = received[f + (i + 1)]
        BY <1>14, <4>1
      <4> QED BY <4>1, <4>3, <4>4, <4>5
    <3>2. Len(t) + 1 <= Len(a)
      <4>1. l + 1 <= R - f
        BY <2>1
      <4> QED BY <1>12, <1>14, <4>1
    <3>3. SubSeq(a, 2, Len(t) + 1) = t
      BY <1>12, <3>1, <3>2, TextAhead
    <3> QED BY <1>11, <1>12, <1>14, <3>3
  <2>3. syslogged' = Due(k)
    <3>1. Due(k) = IF IsBlank(t) THEN Due(k - 1) ELSE Append(Due(k - 1), EntryFromSyslog(Trimmed(t)))
      BY <1>4, <1>9 DEF AndEntry
    <3>2. IsBlank(Trimmed(t)) <=> IsBlank(t)
      BY BlankTrimmed
    <3>3. AppendFrame(t)
      BY <1>8, <1>15, <2>2
    <3> QED BY <1>6, <3>1, <3>2, <3>3 DEF AppendFrame
  <2>4. frameAt' = FrameEnd(k) /\ reading' = "first"
    <3>1. frameAt' = f + 1 + l /\ reading' = "first"
      BY <1>8, <1>11, <1>15
    <3>2. f + 1 + l = s + d + 1 + l
      BY <1>12
    <3> QED BY <1>12, <3>1, <3>2
  <2>5. frameAt' \in 0 .. Len(received)
    <3>1. s + d + 1 + l \in 0 .. R
      BY <2>1
    <3> QED BY <1>10, <1>12, <2>4, <3>1
  <2>6. \/ frameAt' = Sent(k)
        \/ k > 0 /\ m.how = "octets and newline" /\ frameAt' = Sent(k) - 1
    <3>1. k > 0
      OBVIOUS
    <3> QED BY <1>5, <2>4, <3>1
  <2>7. k \in 0 .. Len(syslogSent) /\ digits' \in 0 .. MaxDigits /\ count' \in Nat
    BY <1>1
  <2> QED BY <1>1, <2>3, <2>4, <2>5, <2>6, <2>7, FirstKept DEF m
<1>16. CASE ~whole
  <2>1. R - f <= l /\ R < s + d + 1 + l
    <3>1. ~(R - f > l)
      BY <1>11, <1>14, <1>16 DEF whole
    <3>2. R - f <= l
      BY <1>13, <3>1
    <3>3. R < s + d + 1 + l
      BY <1>12, <3>2
    <3> QED BY <3>2, <3>3
  <2>2. Len(received) < FrameEnd(k)
    BY <1>10, <1>12, <2>1
  <2>3. Sent(k - 1) <= Len(received)
    <3>1. s <= R
      BY <1>12
    <3> QED BY <1>10, <3>1
  <2>4. /\ reading' = "over" /\ frameAt' = Len(received) /\ syslogged' = Due(k - 1)
        /\ frameAt' \in 0 .. Len(received)
    BY <1>4, <1>6, <1>8, <1>16
  <2> QED BY <1>1, <2>2, <2>3, <2>4, CutShort
<1> QED BY <1>15, <1>16

LEMMA NotCountedKeeps ==
    ASSUME SyslogInv, NotCounted
    PROVE  SyslogInv'
<1>1. /\ StreamInv /\ SyslogTypeOK /\ reading = "count" /\ ~AtEnd /\ ~More /\ ~Counted
      /\ ReadLine(Itoa) /\ frameAt \in 0 .. Len(received) /\ count \in Nat /\ digits \in 0 .. MaxDigits
  BY DEF SyslogInv, NotCounted, SyslogTypeOK
<1>2. PICK k \in 1 .. Len(syslogSent) : InCount(k)
  BY <1>1 DEF SyslogInv, ReaderInv, InCount
<1>3. syslogSent[k].how = "line"
  BY <1>1, <1>2, AfterCount
<1>4. /\ syslogSent[k] \in Messages /\ Framable(syslogSent[k]) /\ Sent(k - 1) \in Nat
      /\ Len(received) \in Nat
      /\ \A p \in 1 .. Len(OnWire(syslogSent[k])) :
            Sent(k - 1) + p <= Len(received) => received[Sent(k - 1) + p] = OnWire(syslogSent[k])[p]
  BY <1>1, Incoming
<1>5. PICK t \in Seq(Ascii) :
         t = syslogSent[k].msg /\ Len(OnWire(syslogSent[k])) = Len(t) + 1
         /\ \A p \in 1 .. Len(t) : OnWire(syslogSent[k])[p] = t[p]
  <2>1. LET m == syslogSent[k]  w == OnWire(m) IN
        /\ m.msg \in Seq(Ascii) /\ Len(w) = Len(m.msg) + 1
        /\ \A p \in 1 .. Len(m.msg) : w[p] = m.msg[p]
    BY <1>3, <1>4, LineShape
  <2> QED BY <2>1
<1>6. /\ digits \in 0 .. Len(t) /\ frameAt < Len(received) /\ digits \in Nat
      /\ frameAt = Sent(k - 1) + digits /\ syslogged = Due(k - 1)
  BY <1>1, <1>2, <1>3, <1>5, CountPlace DEF InCount
<1>7. Itoa = SubSeq(t, 1, digits)
  <2>1. PICK s \in Nat, d \in Nat, f \in Nat : s = Sent(k - 1) /\ d = digits /\ f = frameAt /\ f = s + d
    BY <1>4, <1>6
  <2>2. PICK R \in Nat, l \in Nat : R = Len(received) /\ l = Len(t)
    BY <1>4
  <2>3. f < R /\ d <= l
    BY <1>6, <2>1, <2>2
  <2>4. f - d + 1 = s + 1 /\ Itoa = SubSeq(received, s + 1, s + d)
    <3>1. f - d + 1 = s + 1
      BY <2>1
    <3> QED BY <2>1, <3>1 DEF Itoa
  <2>5. PICK r \in Seq(Ascii) : r = received /\ Len(r) = R
    BY <1>1, <2>2 DEF StreamInv
  <2>6. PICK x \in Seq(Ascii) : x = SubSeq(r, s + 1, s + d) /\ Len(x) = d /\ \A i \in 1 .. d : x[i] = r[s + i]
    <3> DEFINE g == SubSeq(r, s + 1, s + d)
    <3>1. s + 1 \in 1 .. R + 1 /\ s + d \in s .. R
      BY <2>1, <2>3
    <3>2. /\ g \in Seq(Ascii) /\ Len(g) = (s + d) - (s + 1) + 1
          /\ \A i \in 1 .. (s + d) - (s + 1) + 1 : g[i] = r[(s + 1) + i - 1]
      BY <2>5, <3>1
    <3>3. (s + d) - (s + 1) + 1 = d /\ \A i \in 1 .. d : (s + 1) + i - 1 = s + i
      OBVIOUS
    <3>4. g = SubSeq(r, s + 1, s + d)
      OBVIOUS
    <3> HIDE DEF g
    <3>5. \A i \in 1 .. d : g[i] = r[s + i]
      BY <3>2, <3>3
    <3> QED BY <3>2, <3>3, <3>4, <3>5
  <2>7. PICK y \in Seq(Ascii) : y = SubSeq(t, 1, d) /\ Len(y) = d /\ \A i \in 1 .. d : y[i] = t[i]
    <3> DEFINE g == SubSeq(t, 1, d)
    <3>1. g \in Seq(Ascii) /\ Len(g) = d /\ \A i \in 1 .. d : g[i] = t[i]
      BY <2>2, <2>3
    <3>2. g = SubSeq(t, 1, d)
      OBVIOUS
    <3> HIDE DEF g
    <3> QED BY <3>1, <3>2
  <2>8. ASSUME NEW i \in 1 .. d PROVE x[i] = y[i]
    <3>1. i \in 1 .. l /\ i \in 1 .. (l + 1) /\ s + i <= R
      BY <2>1, <2>3
    <3>2. received[s + i] = t[i]
      BY <1>4, <1>5, <2>1, <2>2, <3>1
    <3> QED BY <2>5, <2>6, <2>7, <3>2
  <2>9. x = y
    BY <2>6, <2>7, <2>8, SeqEqual
  <2> QED BY <2>1, <2>4, <2>5, <2>6, <2>7, <2>9
<1>8. /\ UNCHANGED <<syslogSent, received, count, digits>>
      /\ \/ /\ reading' = "first" /\ frameAt' = Sent(k) /\ Sent(k) <= Len(received)
            /\ syslogged' = Due(k)
         \/ /\ reading' = "over" /\ frameAt' = Len(received) /\ Len(received) < Sent(k)
            /\ \/ syslogged' = Due(k - 1)
               \/ \E j \in 1 .. Len(t) :
                     syslogged' = Append(Due(k - 1), EntryFromSyslog(Trimmed(SubSeq(t, 1, j))))
  BY <1>1, <1>3, <1>5, <1>6, <1>7, LineRead
<1>9. k \in 0 .. Len(syslogSent) /\ Sent(k) \in Nat /\ FrameEnd(k) = Sent(k)
  <2>1. /\ Sent(k) \in Nat
        /\ syslogSent[k].how # "octets and newline" => FrameEnd(k) = Sent(k)
    BY <1>1, Ends
  <2>2. k \in 0 .. Len(syslogSent)
    OBVIOUS
  <2> QED BY <1>3, <2>1, <2>2
<1>10. CASE reading' = "first"
  <2>1. frameAt' \in 0 .. Len(received) /\ frameAt' = Sent(k) /\ syslogged' = Due(k)
    BY <1>4, <1>8, <1>9, <1>10
  <2>2. digits' \in 0 .. MaxDigits /\ count' \in Nat
    BY <1>1, <1>8
  <2> QED BY <1>1, <1>8, <1>9, <1>10, <2>1, <2>2, FirstKept
<1>11. CASE reading' = "over"
  <2>1. frameAt' \in 0 .. Len(received) /\ Len(received) < FrameEnd(k)
    BY <1>4, <1>8, <1>9, <1>11
  <2>2. Sent(k - 1) <= Len(received)
    <3>1. PICK s \in Nat, d \in Nat, R \in Nat : s = Sent(k - 1) /\ d = digits /\ R = Len(received)
      BY <1>4, <1>6
    <3>2. s + d < R
      BY <1>6, <3>1
    <3>3. s <= R
      BY <3>2
    <3> QED BY <3>1, <3>3
  <2>3. \/ syslogged' = Due(k - 1)
        \/ \E j \in 1 .. Len(t) :
              syslogged' = Append(Due(k - 1), EntryFromSyslog(Trimmed(SubSeq(t, 1, j))))
    BY <1>8, <1>11
  <2> QED BY <1>1, <1>3, <1>5, <1>8, <1>11, <2>1, <2>2, <2>3, CutShort
<1> QED BY <1>8, <1>10, <1>11

\* Every step of the reader keeps the invariant.
LEMMA SyslogNextInv == SyslogInv /\ [SyslogNext]_syslogVars => SyslogInv'
<1> SUFFICES ASSUME SyslogInv, [SyslogNext]_syslogVars PROVE SyslogInv'
  OBVIOUS
<1>1. CASE EndOfStream
  BY <1>1, EndKeeps
<1>2. CASE LineFrame
  BY <1>2, LineKeeps
<1>3. CASE FirstDigit
  BY <1>3, FirstDigitKeeps
<1>4. CASE NextDigit
  BY <1>4, NextDigitKeeps
<1>5. CASE OctetFrame
  BY <1>5, OctetKeeps
<1>6. CASE NotCounted
  BY <1>6, NotCountedKeeps
<1>7. CASE UNCHANGED syslogVars
  BY <1>7, ZenonT(60) DEF syslogVars, SyslogInv, SyslogTypeOK, StreamInv, ReaderInv, BetweenFrames, InCount,
     Finished, Sent, Due, FrameEnd
<1> QED BY <1>1, <1>2, <1>3, <1>4, <1>5, <1>6, <1>7 DEF SyslogNext

\* A later message ends later.
LEMMA LaterEnds ==
    ASSUME StreamInv, NEW i \in 1 .. Len(syslogSent), NEW j \in 1 .. Len(syslogSent), i < j
    PROVE  FrameEnd(i) < FrameEnd(j) /\ FrameEnd(i) \in Nat /\ FrameEnd(j) \in Nat
<1>1. /\ FrameEnd(i) \in Nat /\ Sent(i) \in Nat /\ FrameEnd(i) <= Sent(i)
      /\ FrameEnd(j) \in Nat /\ Sent(j - 1) \in Nat /\ Sent(j - 1) < FrameEnd(j)
  BY Ends
<1>2. Sent(i) <= Sent(j - 1)
  <2>1. i \in 0 .. Len(syslogSent) /\ j - 1 \in i .. Len(syslogSent) /\ syslogSent \in Seq(Messages)
    BY DEF StreamInv
  <2> QED BY <2>1, WirePrefix DEF Sent
<1>3. PICK a \in Nat, b \in Nat : a = FrameEnd(i) /\ b = Sent(i)
  BY <1>1
<1>4. PICK c \in Nat, e \in Nat : c = Sent(j - 1) /\ e = FrameEnd(j)
  BY <1>1
<1>5. a <= b /\ b <= c /\ c < e
  BY <1>1, <1>2, <1>3, <1>4
<1>6. a < e
  BY <1>5
<1> QED BY <1>3, <1>4, <1>6

\* When the connection is over, the messages dealt with are those that arrived whole.
LEMMA WholeIs ==
    ASSUME StreamInv, NEW k \in 0 .. Len(syslogSent), Finished(k)
    PROVE  Whole = 1 .. k /\ Cardinality(Whole) = k
<1>1. /\ k > 0 => FrameEnd(k) <= Len(received)
      /\ k < Len(syslogSent) => FrameEnd(k + 1) > Len(received)
  BY DEF Finished
<1>2. PICK R \in Nat, n \in Nat : R = Len(received) /\ n = Len(syslogSent)
  BY DEF StreamInv
<1>3. DOMAIN syslogSent = 1 .. n
  BY <1>2 DEF StreamInv
<1>4. ASSUME NEW i \in 1 .. n, i <= k PROVE FrameEnd(i) <= R
  <2>1. k > 0 /\ k \in 1 .. n
    BY <1>2, <1>4
  <2>2. FrameEnd(k) <= R
    BY <1>1, <1>2, <2>1
  <2>3. CASE i = k
    BY <2>2, <2>3
  <2>4. CASE i < k
    <3>1. FrameEnd(i) < FrameEnd(k) /\ FrameEnd(i) \in Nat /\ FrameEnd(k) \in Nat
      BY <1>2, <2>1, <2>4, LaterEnds
    <3>2. PICK a \in Nat, b \in Nat : a = FrameEnd(i) /\ b = FrameEnd(k)
      BY <3>1
    <3>3. a <= R
      BY <2>2, <3>1, <3>2
    <3> QED BY <3>2, <3>3
  <2> QED BY <1>2, <1>4, <2>3, <2>4
<1>5. ASSUME NEW i \in 1 .. n, k < i PROVE ~(FrameEnd(i) <= R)
  <2>1. k < n /\ k + 1 \in 1 .. n
    BY <1>2, <1>5
  <2>2. FrameEnd(k + 1) > R
    BY <1>1, <1>2, <2>1
  <2>3. FrameEnd(k + 1) \in Nat
    BY <1>2, <2>1, Ends
  <2>4. CASE i = k + 1
    <3>1. PICK a \in Nat : a = FrameEnd(k + 1)
      BY <2>3
    <3>2. ~(a <= R)
      BY <2>2, <3>1
    <3> QED BY <2>4, <3>1, <3>2
  <2>5. CASE k + 1 < i
    <3>1. FrameEnd(k + 1) < FrameEnd(i) /\ FrameEnd(i) \in Nat
      BY <1>2, <2>1, <2>5, LaterEnds
    <3>2. PICK a \in Nat, b \in Nat : a = FrameEnd(k + 1) /\ b = FrameEnd(i)
      BY <2>3, <3>1
    <3>3. ~(b <= R)
      BY <2>2, <3>1, <3>2
    <3> QED BY <3>2, <3>3
  <2>6. i = k + 1 \/ k + 1 < i
    BY <1>2, <1>5
  <2> QED BY <2>4, <2>5, <2>6
<1>6. Whole = 1 .. k
  <2>1. Whole = {i \in 1 .. n : FrameEnd(i) <= R}
    BY <1>2, <1>3 DEF Whole
  <2>2. \A i \in 1 .. n : FrameEnd(i) <= R <=> i <= k
    <3>1. \A i \in 1 .. n : i <= k \/ k < i
      BY <1>2
    <3> QED BY <1>4, <1>5, <3>1
  <2>3. {i \in 1 .. n : i <= k} = 1 .. k
    BY <1>2
  <2> QED BY <2>1, <2>2, <2>3
<1>7. Cardinality(1 .. k) = k
  <2>1. k \in Nat /\ 1 \in Int
    BY <1>2
  <2>2. Cardinality(1 .. k) = IF 1 > k THEN 0 ELSE (k - 1) + 1
    BY <2>1, FS_Interval
  <2> QED BY <2>1, <2>2
<1> QED BY <1>6, <1>7

\* The invariant says of a connection that is over what FramesExact says.
LEMMA SyslogInvExact == SyslogInv => FramesExact
<1> SUFFICES ASSUME SyslogInv, reading = "over"
    PROVE  LET whole == Cardinality(Whole)
               entries == EntriesOf(syslogSent)[whole]
               next == syslogSent[whole + 1]
           IN \/ syslogged = entries
              \/ /\ whole < Len(syslogSent) /\ next.how = "line"
                 /\ \E k \in 1 .. Len(next.msg) :
                       syslogged = Append(entries, EntryFromSyslog(Trimmed(SubSeq(next.msg, 1, k))))
  BY DEF FramesExact
<1>1. PICK k \in 0 .. Len(syslogSent) : Finished(k)
  BY DEF SyslogInv, ReaderInv
<1>2. Cardinality(Whole) = k
  BY <1>1, WholeIs DEF SyslogInv
<1> QED BY <1>1, <1>2 DEF Finished, Due

LEMMA SyslogInvariance == SyslogSafety => []SyslogInv
BY SyslogInitInv, SyslogNextInv, PTL DEF SyslogSafety

\* The reader never leaves the bytes that arrived, whatever they are: it never
\* asks the connection for a byte behind its end.
THEOREM SyslogTypeCorrect == SyslogSafety => []SyslogTypeOK
<1>1. SyslogInv => SyslogTypeOK
  BY DEF SyslogInv
<1> QED BY <1>1, SyslogInvariance, PTL

\* A connection that carries any number of messages, octet-counted with or
\* without a newline behind them, or newline-delimited, mixed as the client
\* likes, and that ends at any byte, leaves exactly the entries of the messages
\* that arrived whole, each once and in order, and at most one more: the
\* beginning of a line the end of the connection cut off. The buffered guess of
\* readSyslogFrame (digits that may or may not be a count) is never wrong.
THEOREM FramesExactHolds == SyslogSafety => []FramesExact
BY SyslogInvariance, SyslogInvExact, PTL

-----------------------------------------------------------------------------
(* The journald decoder: sequences one after the other *)

\* The first i sequences of q, one after the other.
Upto(q, i) == FlattenSeq([j \in 1 .. i |-> q[j]])

FlattenBy(f, p) == f = [i \in 1 .. Len(p) |-> IF i = 1 THEN p[i] ELSE f[i - 1] \o p[i]]

\* FlattenSeq is the only way to put sequences one behind the other.
LEMMA FlattenIs ==
    ASSUME NEW T, NEW p \in Seq(Seq(T)), Len(p) > 0,
           NEW F \in [0 .. Len(p) -> Seq(T)], F[0] = <<>>,
           \A i \in 1 .. Len(p) : F[i] = F[i - 1] \o p[i]
    PROVE  FlattenSeq(p) = F[Len(p)]
<1> DEFINE n == Len(p)
           f == CHOOSE h : FlattenBy(h, p)
<1>1. n \in Nat /\ n > 0 /\ \A i \in 1 .. n : p[i] \in Seq(T)
  OBVIOUS
<1>2. \A i \in 1 .. n : F[i] = F[i - 1] \o p[i] /\ F[i - 1] \in Seq(T)
  <2>1. \A i \in 1 .. n : i - 1 \in 0 .. n
    BY <1>1
  <2> QED BY <2>1
<1> HIDE DEF n
<1>3. \A i \in 1 .. n : F[i] = IF i = 1 THEN p[i] ELSE F[i - 1] \o p[i]
  <2>1. F[1] = p[1]
    <3>1. 1 \in 1 .. n
      BY <1>1
    <3>2. F[1] = F[0] \o p[1]
      <4>1. F[1] = F[1 - 1] \o p[1]
        BY <1>2, <3>1, Zenon
      <4>2. 1 - 1 = 0
        OBVIOUS
      <4> QED BY <4>1, <4>2, Zenon
    <3>3. <<>> \o p[1] = p[1]
      BY <1>1, <3>1, ConcatEmptySeq
    <3> QED BY <3>2, <3>3
  <2> QED BY <1>2, <2>1
<1>4. \E h : FlattenBy(h, p)
  <2> DEFINE g == [i \in 1 .. n |-> F[i]]
  <2>1. ASSUME NEW i \in 1 .. n PROVE g[i] = IF i = 1 THEN p[i] ELSE g[i - 1] \o p[i]
    <3>1. i # 1 => i - 1 \in 1 .. n
      BY <1>1
    <3>2. g[i] = F[i] /\ (i # 1 => g[i - 1] = F[i - 1])
      BY <3>1
    <3> HIDE DEF g
    <3> QED BY <1>3, <3>2
  <2>2. g = [i \in 1 .. n |-> IF i = 1 THEN p[i] ELSE g[i - 1] \o p[i]]
    <3>1. g = [i \in 1 .. n |-> g[i]]
      OBVIOUS
    <3> HIDE DEF g
    <3> QED BY <2>1, <3>1, Zenon
  <2>3. FlattenBy(g, p)
    <3> HIDE DEF g
    <3> QED BY <2>2, Zenon DEF FlattenBy, n
  <2> HIDE DEF g
  <2> QED BY <2>3
<1>5. f = [i \in 1 .. n |-> IF i = 1 THEN p[i] ELSE f[i - 1] \o p[i]]
  <2>1. FlattenBy(f, p)
    BY <1>4, Zenon
  <2> HIDE DEF f
  <2> QED BY <2>1, Zenon DEF FlattenBy, n
<1> HIDE DEF f
<1> DEFINE U == {i \in 0 .. n : i = 0 \/ f[i] = F[i]}
<1>6. ASSUME NEW i \in 1 .. n, i - 1 \in U PROVE i \in U
  <2>1. i = 1 \/ (i # 1 /\ f[i - 1] = F[i - 1])
    BY <1>6
  <2>2. f[i] = IF i = 1 THEN p[i] ELSE f[i - 1] \o p[i]
    BY <1>5, Zenon
  <2>3. f[i] = F[i]
    BY <1>3, <2>1, <2>2
  <2>4. i \in 0 .. n
    BY <1>1
  <2> QED BY <2>3, <2>4
<1>7. f[n] = F[n]
  <2>1. 0 \in U
    BY <1>1
  <2>2. 0 .. n \subseteq U
    <3> HIDE DEF U
    <3> QED BY <1>1, <1>6, <2>1, Induction
  <2>3. n \in 0 .. n /\ n # 0
    BY <1>1
  <2> QED BY <2>2, <2>3
<1>8. FlattenSeq(p) = f[n]
  <2>1. Len(p) # 0
    BY <1>1 DEF n
  <2> QED BY <2>1, Zenon DEF FlattenSeq, f, n, FlattenBy
<1> QED BY <1>7, <1>8 DEF n

LEMMA UptoIs ==
    ASSUME NEW T, NEW q \in Seq(Seq(T))
    PROVE  /\ \A i \in 0 .. Len(q) : Upto(q, i) \in Seq(T)
           /\ Upto(q, 0) = <<>>
           /\ \A i \in 1 .. Len(q) : Upto(q, i) = Upto(q, i - 1) \o q[i]
           /\ FlattenSeq(q) = Upto(q, Len(q))
<1> DEFINE n == Len(q)
           G == [p \in Seq(T) \X (1 .. n) |-> p[1] \o q[p[2]]]
<1>1. n \in Nat /\ \A i \in 1 .. n : q[i] \in Seq(T)
  OBVIOUS
<1>2. G \in [Seq(T) \X (1 .. n) -> Seq(T)]
  <2>1. ASSUME NEW p \in Seq(T) \X (1 .. n) PROVE p[1] \o q[p[2]] \in Seq(T)
    <3>1. p[1] \in Seq(T) /\ q[p[2]] \in Seq(T)
      <4>1. p[1] \in Seq(T) /\ p[2] \in 1 .. n
        OBVIOUS
      <4> HIDE DEF n
      <4> QED BY <1>1, <4>1
    <3> QED BY <3>1, ConcatProperties
  <2> QED BY <2>1
<1>3. PICK F \in [0 .. n -> Seq(T)] : Follows(F, <<>>, n, G)
  <2>1. <<>> \in Seq(T)
    OBVIOUS
  <2> HIDE DEF G, n
  <2> QED BY <1>1, <1>2, <2>1, Recursion
<1>4. F[0] = <<>> /\ \A i \in 1 .. n : F[i] = F[i - 1] \o q[i]
  <2>1. \A i \in 0 .. n : F[i] = IF i = 0 THEN <<>> ELSE G[<<F[i - 1], i>>]
    <3> HIDE DEF G, n
    <3> QED BY <1>3, Zenon DEF Follows
  <2>2. ASSUME NEW i \in 1 .. n PROVE F[i] = F[i - 1] \o q[i]
    <3>1. i \in 0 .. n /\ i # 0 /\ i - 1 \in 0 .. n
      BY <1>1
    <3>2. F[i - 1] \in Seq(T)
      <4> HIDE DEF n, G
      <4> QED BY <3>1
    <3>3. G[<<F[i - 1], i>>] = F[i - 1] \o q[i]
      <4> HIDE DEF n
      <4> QED BY <3>2
    <3> QED BY <2>1, <3>1, <3>3
  <2>3. 0 \in 0 .. n
    BY <1>1
  <2> QED BY <2>1, <2>2, <2>3
<1> HIDE DEF G, n
<1>5. ASSUME NEW i \in 0 .. n PROVE Upto(q, i) = F[i]
  <2> DEFINE p == [j \in 1 .. i |-> q[j]]
  <2>1. i \in Nat /\ \A j \in 1 .. i : j \in 1 .. n
    BY <1>1
  <2>2. p \in Seq(Seq(T)) /\ Len(p) = i
    BY <1>1, <2>1
  <2>3. CASE i = 0
    <3>1. p = <<>> /\ Len(p) = 0
      BY <2>2, <2>3
    <3>2. FlattenSeq(p) = <<>>
      <4> HIDE DEF p
      <4> QED BY <3>1, Zenon DEF FlattenSeq
    <3> QED BY <1>4, <2>3, <3>2 DEF Upto
  <2>4. CASE i # 0
    <3> DEFINE H == [j \in 0 .. i |-> F[j]]
    <3>1. \A j \in 0 .. i : j \in 0 .. n
      BY <1>1
    <3>2. H \in [0 .. i -> Seq(T)] /\ H[0] = <<>> /\ H[i] = F[i]
      BY <1>4, <2>1, <3>1
    <3>3. ASSUME NEW j \in 1 .. i PROVE H[j] = H[j - 1] \o p[j]
      <4>1. j \in 1 .. n /\ j - 1 \in 0 .. i /\ j \in 0 .. i
        BY <2>1
      <4>2. H[j] = F[j] /\ H[j - 1] = F[j - 1] /\ p[j] = q[j]
        BY <4>1
      <4> HIDE DEF H, p
      <4> QED BY <1>4, <4>1, <4>2
    <3>4. Len(p) > 0
      BY <2>1, <2>2, <2>4
    <3>5. FlattenSeq(p) = H[Len(p)]
      <4> HIDE DEF H, p
      <4> QED BY <2>2, <3>2, <3>3, <3>4, FlattenIs
    <3> HIDE DEF H
    <3> QED BY <2>2, <3>2, <3>5 DEF Upto
  <2> QED BY <2>3, <2>4
<1>6. FlattenSeq(q) = Upto(q, n)
  <2>1. q = [j \in 1 .. n |-> q[j]]
    BY DEF n
  <2> QED BY <2>1, Zenon DEF Upto
<1>7. ASSUME NEW i \in 1 .. n PROVE Upto(q, i) = Upto(q, i - 1) \o q[i]
  <2>1. i \in 0 .. n /\ i - 1 \in 0 .. n
    BY <1>1
  <2> QED BY <1>4, <1>5, <2>1
<1>8. \A i \in 0 .. n : Upto(q, i) \in Seq(T)
  BY <1>5
<1>9. Upto(q, 0) = <<>>
  <2>1. 0 \in 0 .. n
    BY <1>1
  <2> QED BY <1>4, <1>5, <2>1
<1> QED BY <1>6, <1>7, <1>8, <1>9 DEF n

\* What comes later changes nothing of what came before.
LEMMA UptoPrefix ==
    ASSUME NEW T, NEW q \in Seq(Seq(T)), NEW k \in 0 .. Len(q), NEW n \in k .. Len(q)
    PROVE  /\ Len(Upto(q, k)) <= Len(Upto(q, n))
           /\ \A p \in 1 .. Len(Upto(q, k)) : Upto(q, n)[p] = Upto(q, k)[p]
<1> DEFINE w == [i \in 0 .. Len(q) |-> Upto(q, i)]
           Holds(j) == Len(w[k]) <= Len(w[j]) /\ \A p \in 1 .. Len(w[k]) : w[j][p] = w[k][p]
           U == {d \in 0 .. (n - k) : Holds(k + d)}
<1>1. /\ \A i \in 0 .. Len(q) : w[i] \in Seq(T) /\ Len(w[i]) \in Nat
      /\ \A i \in 1 .. Len(q) : w[i] = w[i - 1] \o q[i]
      /\ \A i \in 1 .. Len(q) : q[i] \in Seq(T) /\ Len(q[i]) \in Nat
  <2>1. \A i \in 0 .. Len(q) : w[i] = Upto(q, i)
    OBVIOUS
  <2>2. ASSUME NEW i \in 1 .. Len(q) PROVE q[i] \in Seq(T) /\ Len(q[i]) \in Nat
    <3>1. q[i] \in Seq(T)
      OBVIOUS
    <3> QED BY <3>1, LenProperties
  <2> HIDE DEF w
  <2>3. ASSUME NEW i \in 0 .. Len(q) PROVE w[i] \in Seq(T) /\ Len(w[i]) \in Nat
    <3>1. w[i] \in Seq(T)
      BY <2>1, UptoIs
    <3> QED BY <3>1, LenProperties
  <2>4. ASSUME NEW i \in 1 .. Len(q) PROVE w[i] = w[i - 1] \o q[i]
    <3>1. i \in 0 .. Len(q) /\ i - 1 \in 0 .. Len(q)
      OBVIOUS
    <3>2. Upto(q, i) = Upto(q, i - 1) \o q[i]
      BY UptoIs
    <3> QED BY <2>1, <3>1, <3>2, Zenon
  <2> QED BY <2>2, <2>3, <2>4
<1>2. Len(q) \in Nat /\ k \in Nat /\ n \in Nat /\ k <= n /\ n <= Len(q)
  OBVIOUS
<1>3. w[k] = Upto(q, k) /\ w[n] = Upto(q, n)
  <2>1. k \in 0 .. Len(q) /\ n \in 0 .. Len(q)
    BY <1>2
  <2> QED BY <2>1, Zenon
<1> HIDE DEF w
<1>4. 0 \in U
  BY <1>1, <1>2
<1>5. ASSUME NEW d \in 1 .. (n - k), d - 1 \in U PROVE d \in U
  <2> DEFINE j == k + d
  <2>1. /\ j \in 1 .. Len(q) /\ j - 1 = k + (d - 1) /\ j - 1 \in 0 .. Len(q)
        /\ d \in 0 .. (n - k)
    BY <1>2
  <2>2. Holds(j - 1)
    BY <1>5, <2>1
  <2>3. w[j] = w[j - 1] \o q[j] /\ w[j - 1] \in Seq(T) /\ q[j] \in Seq(T)
        /\ Len(w[j - 1]) \in Nat /\ Len(q[j]) \in Nat /\ Len(w[k]) \in Nat
    BY <1>1, <1>2, <2>1
  <2> HIDE DEF j
  <2>4. Len(w[j]) = Len(w[j - 1]) + Len(q[j])
        /\ \A p \in 1 .. Len(w[j - 1]) : w[j][p] = w[j - 1][p]
    <3> DEFINE a == w[j - 1]  b == q[j]
    <3>1. a \in Seq(T) /\ b \in Seq(T) /\ Len(a) \in Nat /\ Len(b) \in Nat /\ w[j] = a \o b
      BY <2>3
    <3> HIDE DEF a, b
    <3>2. Len(a \o b) = Len(a) + Len(b)
          /\ \A p \in 1 .. Len(a) + Len(b) : (a \o b)[p] = IF p <= Len(a) THEN a[p] ELSE b[p - Len(a)]
      BY <3>1, ConcatProperties
    <3>3. \A p \in 1 .. Len(a) : (a \o b)[p] = a[p]
      BY <3>1, <3>2
    <3> QED BY <3>1, <3>2, <3>3 DEF a, b
  <2>5. Len(w[k]) <= Len(w[j])
    <3>1. Len(w[k]) <= Len(w[j - 1])
      BY <2>2
    <3> DEFINE x == Len(w[j])  y == Len(w[j - 1])  z == Len(w[k])  l == Len(q[j])
    <3>2. x = y + l /\ l \in Nat /\ y \in Nat /\ z \in Nat /\ z <= y
      BY <2>3, <2>4, <3>1
    <3> HIDE DEF x, y, z, l
    <3>3. z <= x
      BY <3>2
    <3> QED BY <3>3 DEF x, z
  <2>6. ASSUME NEW p \in 1 .. Len(w[k]) PROVE w[j][p] = w[k][p]
    <3>1. p \in 1 .. Len(w[j - 1])
      BY <2>2, <2>3
    <3> QED BY <2>2, <2>4, <3>1
  <2>7. Holds(j)
    BY <2>5, <2>6
  <2> QED BY <2>1, <2>7 DEF j
<1>6. n - k \in U
  <2>1. n - k \in Nat /\ n - k \in 0 .. (n - k)
    BY <1>2
  <2> HIDE DEF U
  <2> QED BY <1>4, <1>5, <2>1, Induction
<1>7. Holds(n)
  <2>1. k + (n - k) = n
    BY <1>2
  <2> QED BY <1>6, <2>1
<1> QED BY <1>3, <1>7, Zenon

\* Sequence k of q lies behind those before it, in every longer prefix.
LEMMA UptoAt ==
    ASSUME NEW T, NEW q \in Seq(Seq(T)), NEW k \in 1 .. Len(q), NEW n \in k .. Len(q)
    PROVE  /\ Len(Upto(q, k - 1)) \in Nat /\ Len(q[k]) \in Nat /\ Len(Upto(q, n)) \in Nat
           /\ Len(Upto(q, k)) = Len(Upto(q, k - 1)) + Len(q[k])
           /\ Len(Upto(q, k)) <= Len(Upto(q, n))
           /\ \A p \in 1 .. Len(q[k]) : Upto(q, n)[Len(Upto(q, k - 1)) + p] = q[k][p]
<1> DEFINE a == Upto(q, k - 1)  b == q[k]  c == Upto(q, k)  w == Upto(q, n)
<1>1. k \in 0 .. Len(q) /\ k - 1 \in 0 .. Len(q) /\ n \in 0 .. Len(q) /\ b \in Seq(T)
  OBVIOUS
<1>2. a \in Seq(T) /\ c \in Seq(T) /\ w \in Seq(T)
  BY <1>1, UptoIs
<1>3. c = a \o b
  BY UptoIs
<1>4. Len(c) <= Len(w) /\ \A p \in 1 .. Len(c) : w[p] = c[p]
  BY <1>1, UptoPrefix
<1>5. b \in Seq(T)
  BY <1>1
<1> HIDE DEF a, b, c, w
<1>6. Len(a) \in Nat /\ Len(b) \in Nat /\ Len(w) \in Nat
  BY <1>2, <1>5, LenProperties
<1>7. Len(c) = Len(a) + Len(b)
      /\ \A p \in 1 .. Len(a) + Len(b) : (a \o b)[p] = IF p <= Len(a) THEN a[p] ELSE b[p - Len(a)]
  BY <1>2, <1>3, <1>5, ConcatProperties
<1>8. ASSUME NEW p \in 1 .. Len(b) PROVE w[Len(a) + p] = b[p]
  <2> DEFINE r == Len(a) + p
  <2>1. r \in 1 .. Len(a) + Len(b) /\ ~(r <= Len(a)) /\ r - Len(a) = p
    BY <1>6
  <2>2. w[r] = c[r]
    BY <1>4, <1>7, <2>1
  <2>3. c[r] = b[r - Len(a)]
    <3> HIDE DEF r
    <3> QED BY <1>3, <1>7, <2>1, Zenon
  <2> QED BY <2>1, <2>2, <2>3, Zenon
<1> QED BY <1>4, <1>6, <1>7, <1>8, Zenon DEF a, b, c, w

-----------------------------------------------------------------------------
(* The size of a binary value *)

ShiftedBy(f, n) == f = [i \in 0 .. SizeBytes |-> IF i = 0 THEN n ELSE f[i - 1] \div 256]

LEMMA ShiftedIs ==
    ASSUME NEW n \in Nat
    PROVE  /\ \A i \in 0 .. SizeBytes : Shifted(n)[i] \in Nat
           /\ Shifted(n)[0] = n
           /\ \A i \in 1 .. SizeBytes : Shifted(n)[i] = Shifted(n)[i - 1] \div 256
<1> DEFINE G == [p \in Nat \X (1 .. SizeBytes) |-> p[1] \div 256]
           f == Shifted(n)
<1>1. SizeBytes \in Nat \ {0}
  BY JournalAssumption
<1>2. G \in [Nat \X (1 .. SizeBytes) -> Nat]
  <2>1. \A a \in Nat : a \div 256 \in Nat
    OBVIOUS
  <2>2. ASSUME NEW p \in Nat \X (1 .. SizeBytes) PROVE p[1] \div 256 \in Nat
    <3>1. p[1] \in Nat
      OBVIOUS
    <3> QED BY <2>1, <3>1
  <2> QED BY <2>2
<1>3. PICK g \in [0 .. SizeBytes -> Nat] : Follows(g, n, SizeBytes, G)
  <2> HIDE DEF G
  <2> QED BY <1>1, <1>2, Recursion
<1>4. ASSUME NEW i \in 0 .. SizeBytes, i # 0 PROVE G[<<g[i - 1], i>>] = g[i - 1] \div 256
  <2>1. i \in 1 .. SizeBytes /\ g[i - 1] \in Nat
    <3> HIDE DEF G
    <3> QED BY <1>1, <1>4
  <2> QED BY <2>1
<1>5. ShiftedBy(g, n)
  <2>1. g = [i \in 0 .. SizeBytes |-> IF i = 0 THEN n ELSE g[i - 1] \div 256]
    <3> HIDE DEF G
    <3> QED BY <1>3, <1>4, Zenon DEF Follows
  <2> QED BY <2>1, Zenon DEF ShiftedBy
<1>6. f = [i \in 0 .. SizeBytes |-> IF i = 0 THEN n ELSE f[i - 1] \div 256]
  <2>1. f = CHOOSE h : ShiftedBy(h, n)
    BY Zenon DEF Shifted, ShiftedBy
  <2>2. ShiftedBy(f, n)
    <3> HIDE DEF f
    <3> QED BY <1>5, <2>1, Zenon
  <2> HIDE DEF f
  <2> QED BY <2>2, Zenon DEF ShiftedBy
<1> HIDE DEF G, f
<1>7. f[0] = n
  <2>1. 0 \in 0 .. SizeBytes
    BY <1>1
  <2> QED BY <1>6, <2>1, Zenon
<1>8. ASSUME NEW i \in 1 .. SizeBytes PROVE f[i] = f[i - 1] \div 256
  <2>1. i \in 0 .. SizeBytes /\ i # 0
    BY <1>1
  <2> QED BY <1>6, <2>1, Zenon
<1> DEFINE U == {i \in 0 .. SizeBytes : f[i] \in Nat}
<1>9. 0 .. SizeBytes \subseteq U
  <2>1. 0 \in U
    BY <1>1, <1>7
  <2>2. ASSUME NEW i \in 1 .. SizeBytes, i - 1 \in U PROVE i \in U
    <3>1. i \in 0 .. SizeBytes /\ f[i - 1] \in Nat
      BY <1>1, <2>2
    <3>2. \A a \in Nat : a \div 256 \in Nat
      OBVIOUS
    <3> QED BY <1>8, <3>1, <3>2
  <2> HIDE DEF U
  <2> QED BY <1>1, <2>1, <2>2, Induction
<1> QED BY <1>7, <1>8, <1>9 DEF f

LEMMA LittleEndianIs ==
    ASSUME NEW n \in Nat
    PROVE  /\ LittleEndian(n) \in Seq(Octet) /\ Len(LittleEndian(n)) = SizeBytes
           /\ \A i \in 1 .. SizeBytes : LittleEndian(n)[i] = Shifted(n)[i - 1] % 256
<1>1. SizeBytes \in Nat \ {0}
  BY JournalAssumption
<1>2. \A a \in Nat : a % 256 \in Octet
  BY DEF Octet
<1>3. ASSUME NEW i \in 1 .. SizeBytes PROVE Shifted(n)[i - 1] % 256 \in Octet
  <2>1. i - 1 \in 0 .. SizeBytes
    BY <1>1
  <2> QED BY <1>2, <2>1, ShiftedIs
<1>4. LittleEndian(n) = [i \in 1 .. SizeBytes |-> Shifted(n)[i - 1] % 256]
  BY Zenon DEF LittleEndian
<1> QED BY <1>1, <1>3, <1>4

UintBy(h, bytes) ==
    h = [i \in 0 .. SizeBytes |-> IF i = 0 THEN 0 ELSE 256 * h[i - 1] + bytes[SizeBytes + 1 - i]]

\* What binary.LittleEndian reads, byte by byte.
LEMMA UintIs ==
    ASSUME NEW bytes \in Seq(Octet), Len(bytes) = SizeBytes
    PROVE  \E h \in [0 .. SizeBytes -> Nat] :
              /\ h[0] = 0 /\ Uint(bytes) = h[SizeBytes]
              /\ \A i \in 1 .. SizeBytes : h[i] = 256 * h[i - 1] + bytes[SizeBytes + 1 - i]
<1> DEFINE G == [p \in Nat \X (1 .. SizeBytes) |-> 256 * p[1] + bytes[SizeBytes + 1 - p[2]]]
           f == CHOOSE h : UintBy(h, bytes)
<1>1. SizeBytes \in Nat \ {0}
  BY JournalAssumption
<1>2. ASSUME NEW i \in 1 .. SizeBytes PROVE bytes[SizeBytes + 1 - i] \in Nat
  <2>1. SizeBytes + 1 - i \in 1 .. Len(bytes)
    BY <1>1
  <2>2. bytes[SizeBytes + 1 - i] \in Octet
    BY <2>1, ElementOfSeq, Zenon
  <2> DEFINE x == bytes[SizeBytes + 1 - i]
  <2> HIDE DEF x
  <2>3. x \in Octet
    BY <2>2 DEF x
  <2>4. x \in Nat
    BY <2>3 DEF Octet
  <2> QED BY <2>4 DEF x
<1>3. G \in [Nat \X (1 .. SizeBytes) -> Nat]
  <2>1. ASSUME NEW p \in Nat \X (1 .. SizeBytes)
        PROVE  256 * p[1] + bytes[SizeBytes + 1 - p[2]] \in Nat
    <3>1. p[1] \in Nat /\ p[2] \in 1 .. SizeBytes
      OBVIOUS
    <3>2. bytes[SizeBytes + 1 - p[2]] \in Nat
      BY <1>2, <3>1
    <3> QED BY <3>1, <3>2
  <2> QED BY <2>1
<1>4. PICK g \in [0 .. SizeBytes -> Nat] : Follows(g, 0, SizeBytes, G)
  <2>1. 0 \in Nat
    OBVIOUS
  <2> HIDE DEF G
  <2> QED BY <1>1, <1>3, <2>1, Recursion
<1>5. ASSUME NEW i \in 0 .. SizeBytes, i # 0
      PROVE  G[<<g[i - 1], i>>] = 256 * g[i - 1] + bytes[SizeBytes + 1 - i]
  <2>1. i \in 1 .. SizeBytes /\ g[i - 1] \in Nat
    <3> HIDE DEF G
    <3> QED BY <1>1, <1>5
  <2> QED BY <2>1
<1>6. UintBy(g, bytes)
  <2> DEFINE A(i) == IF i = 0 THEN 0 ELSE G[<<g[i - 1], i>>]
             B(i) == IF i = 0 THEN 0 ELSE 256 * g[i - 1] + bytes[SizeBytes + 1 - i]
  <2> HIDE DEF G
  <2>1. g = [i \in 0 .. SizeBytes |-> A(i)]
    BY <1>4, Zenon DEF Follows
  <2>2. ASSUME NEW i \in 0 .. SizeBytes PROVE A(i) = B(i)
    <3>1. CASE i = 0
      BY <3>1, Zenon
    <3>2. CASE i # 0
      <4>1. G[<<g[i - 1], i>>] = 256 * g[i - 1] + bytes[SizeBytes + 1 - i]
        BY <1>5, <3>2, Zenon
      <4> QED BY <3>2, <4>1, Zenon
    <3> QED BY <3>1, <3>2, Zenon
  <2>3. [i \in 0 .. SizeBytes |-> A(i)] = [i \in 0 .. SizeBytes |-> B(i)]
    <3> HIDE DEF A, B
    <3> QED BY <2>2, Zenon
  <2>4. g = [i \in 0 .. SizeBytes |-> B(i)]
    <3> HIDE DEF A, B
    <3> QED BY <2>1, <2>3, Zenon
  <2> QED BY <2>4, Zenon DEF UintBy
<1>7. f = [i \in 0 .. SizeBytes |-> IF i = 0 THEN 0 ELSE 256 * f[i - 1] + bytes[SizeBytes + 1 - i]]
  <2>1. UintBy(f, bytes)
    BY <1>6, Zenon
  <2> HIDE DEF f
  <2> QED BY <2>1, Zenon DEF UintBy
<1>8. Uint(bytes) = f[SizeBytes]
  BY Zenon DEF Uint, UintBy
<1> HIDE DEF G, f
<1>9. f[0] = 0
  <2>1. 0 \in 0 .. SizeBytes
    BY <1>1
  <2> QED BY <1>7, <2>1, Zenon
<1>10. ASSUME NEW i \in 1 .. SizeBytes PROVE f[i] = 256 * f[i - 1] + bytes[SizeBytes + 1 - i]
  <2>1. i \in 0 .. SizeBytes /\ i # 0
    BY <1>1
  <2> QED BY <1>7, <2>1, Zenon
<1> DEFINE U == {i \in 0 .. SizeBytes : f[i] \in Nat}
<1>11. 0 .. SizeBytes \subseteq U
  <2>1. 0 \in U
    BY <1>1, <1>9
  <2>2. ASSUME NEW i \in 1 .. SizeBytes, i - 1 \in U PROVE i \in U
    <3>1. i \in 0 .. SizeBytes /\ f[i - 1] \in Nat
      BY <1>1, <2>2
    <3>2. 256 * f[i - 1] + bytes[SizeBytes + 1 - i] \in Nat
      BY <1>2, <3>1
    <3> QED BY <1>10, <3>1, <3>2
  <2> HIDE DEF U
  <2> QED BY <1>1, <2>1, <2>2, Induction
<1>12. f \in [0 .. SizeBytes -> Nat]
  <2>1. DOMAIN f = 0 .. SizeBytes /\ f = [i \in 0 .. SizeBytes |-> f[i]]
    BY <1>7, Zenon
  <2> QED BY <1>11, <2>1
<1> QED BY <1>8, <1>9, <1>10, <1>12, ZenonT(60)

\* The size that is read is the size that was written.
LEMMA SizeRead ==
    ASSUME NEW n \in Nat, Shifted(n)[SizeBytes] = 0
    PROVE  Uint(LittleEndian(n)) = n
<1> DEFINE bytes == LittleEndian(n)  r == Shifted(n)
<1>1. SizeBytes \in Nat \ {0}
  BY JournalAssumption
<1>2. bytes \in Seq(Octet) /\ Len(bytes) = SizeBytes /\ \A i \in 1 .. SizeBytes : bytes[i] = r[i - 1] % 256
  BY LittleEndianIs
<1>3. /\ \A i \in 0 .. SizeBytes : r[i] \in Nat
      /\ r[0] = n /\ r[SizeBytes] = 0
      /\ \A i \in 1 .. SizeBytes : r[i] = r[i - 1] \div 256
  BY ShiftedIs
<1> HIDE DEF bytes, r
<1>4. PICK h \in [0 .. SizeBytes -> Nat] :
              /\ h[0] = 0 /\ Uint(bytes) = h[SizeBytes]
              /\ \A i \in 1 .. SizeBytes : h[i] = 256 * h[i - 1] + bytes[SizeBytes + 1 - i]
  <2>1. \A b \in Seq(Octet) : Len(b) = SizeBytes =>
           \E h \in [0 .. SizeBytes -> Nat] :
              /\ h[0] = 0 /\ Uint(b) = h[SizeBytes]
              /\ \A i \in 1 .. SizeBytes : h[i] = 256 * h[i - 1] + b[SizeBytes + 1 - i]
    BY UintIs
  <2>2. bytes \in Seq(Octet) /\ Len(bytes) = SizeBytes
    BY <1>2
  <2> DEFINE Reads(b, h) == /\ h[0] = 0 /\ Uint(b) = h[SizeBytes]
              /\ \A i \in 1 .. SizeBytes : h[i] = 256 * h[i - 1] + b[SizeBytes + 1 - i]
  <2>3. \A b \in Seq(Octet) : Len(b) = SizeBytes => \E h \in [0 .. SizeBytes -> Nat] : Reads(b, h)
    BY <2>1
  <2>4. \E h \in [0 .. SizeBytes -> Nat] : Reads(bytes, h)
    <3> HIDE DEF Reads
    <3> QED BY <2>2, <2>3, Zenon
  <2> QED BY <2>4
<1> DEFINE U == {i \in 0 .. SizeBytes : h[i] = r[SizeBytes - i]}
<1>5. 0 \in U
  BY <1>1, <1>3, <1>4
<1>6. ASSUME NEW i \in 1 .. SizeBytes, i - 1 \in U PROVE i \in U
  <2> DEFINE m == SizeBytes + 1 - i
  <2>1. m \in 1 .. SizeBytes /\ m - 1 = SizeBytes - i /\ m = SizeBytes - (i - 1) /\ i \in 0 .. SizeBytes
        /\ m - 1 \in 0 .. SizeBytes
    BY <1>1
  <2>2. h[i] = 256 * h[i - 1] + bytes[m]
    BY <1>4
  <2>3. h[i - 1] = r[m]
    BY <1>6, <2>1
  <2> HIDE DEF m
  <2>4. r[m] = r[m - 1] \div 256 /\ bytes[m] = r[m - 1] % 256 /\ r[m - 1] \in Nat
    BY <1>2, <1>3, <2>1
  <2>5. \A a \in Nat : 256 * (a \div 256) + (a % 256) = a
    OBVIOUS
  <2>6. h[i] = r[m - 1]
    BY <2>2, <2>3, <2>4, <2>5
  <2> QED BY <2>1, <2>6
<1>7. SizeBytes \in U
  <2>1. SizeBytes \in 0 .. SizeBytes
    BY <1>1
  <2> HIDE DEF U
  <2> QED BY <1>1, <1>5, <1>6, <2>1, Induction
<1>8. h[SizeBytes] = n
  <2>1. SizeBytes - SizeBytes = 0
    BY <1>1
  <2> QED BY <1>3, <1>7, <2>1
<1> QED BY <1>4, <1>8 DEF bytes

-----------------------------------------------------------------------------
(* What the export format makes of a field *)

LEMMA IndexAt ==
    ASSUME NEW s \in Seq(Octet), NEW b, NEW i \in 1 .. Len(s), s[i] = b,
           \A j \in 1 .. (i - 1) : s[j] # b
    PROVE  IndexByte(s, b) = i /\ b \in ToSet(s)
<1> DEFINE First(k) == s[k] = b /\ \A j \in 1 .. (k - 1) : s[j] # b
           x == CHOOSE k \in DOMAIN s : First(k)
<1>1. DOMAIN s = 1 .. Len(s) /\ Len(s) \in Nat
  OBVIOUS
<1>2. i \in DOMAIN s /\ First(i)
  BY <1>1
<1>3. x \in DOMAIN s /\ First(x)
  <2> HIDE DEF First
  <2> QED BY <1>2, Zenon
<1>4. x = i
  <2>1. x \in 1 .. Len(s) /\ First(x)
    BY <1>1, <1>3
  <2> HIDE DEF x
  <2> QED BY <1>1, <1>2, <2>1
<1>5. b \in ToSet(s)
  BY <1>1 DEF ToSet
<1>6. IndexByte(s, b) = x
  BY <1>5, Zenon DEF IndexByte
<1> QED BY <1>4, <1>5, <1>6

LEMMA Behind ==
    ASSUME NEW a \in Seq(Octet), NEW b \in Seq(Octet)
    PROVE  /\ a \o b \in Seq(Octet) /\ Len(a) \in Nat /\ Len(b) \in Nat
           /\ Len(a \o b) = Len(a) + Len(b)
           /\ \A x \in 1 .. Len(a) : (a \o b)[x] = a[x]
           /\ \A x \in 1 .. Len(b) : (a \o b)[Len(a) + x] = b[x]
<1>1. Len(a) \in Nat /\ Len(b) \in Nat /\ a \o b \in Seq(Octet)
  BY LenProperties, ConcatProperties
<1>2. Len(a \o b) = Len(a) + Len(b)
      /\ \A p \in 1 .. Len(a) + Len(b) : (a \o b)[p] = IF p <= Len(a) THEN a[p] ELSE b[p - Len(a)]
  BY ConcatProperties
<1> DEFINE c == a \o b
<1> HIDE DEF c
<1>3. \A p \in 1 .. Len(a) + Len(b) : c[p] = IF p <= Len(a) THEN a[p] ELSE b[p - Len(a)]
  BY <1>2 DEF c
<1>4. \A x \in 1 .. Len(a) : c[x] = a[x]
  BY <1>1, <1>3
<1>5. ASSUME NEW x \in 1 .. Len(b) PROVE c[Len(a) + x] = b[x]
  <2>1. PICK p \in Int : p = Len(a) + x
    BY <1>1
  <2>2. p \in 1 .. Len(a) + Len(b) /\ ~(p <= Len(a)) /\ p - Len(a) = x
    BY <1>1, <2>1
  <2> QED BY <1>3, <2>1, <2>2
<1> QED BY <1>1, <1>2, <1>4, <1>5 DEF c

\* a, the byte y and c, one after the other.
LEMMA Marked ==
    ASSUME NEW a \in Seq(Octet), NEW y \in Octet, NEW c \in Seq(Octet)
    PROVE  LET z == (a \o <<y>>) \o c IN
           /\ z \in Seq(Octet) /\ Len(a) \in Nat /\ Len(c) \in Nat
           /\ Len(z) = Len(a) + 1 + Len(c)
           /\ \A x \in 1 .. Len(a) : z[x] = a[x]
           /\ z[Len(a) + 1] = y
           /\ \A x \in 1 .. Len(c) : z[Len(a) + 1 + x] = c[x]
<1> DEFINE b == <<y>>  p == a \o b  z == p \o c
<1>1. b \in Seq(Octet) /\ Len(b) = 1 /\ b[1] = y
  OBVIOUS
<1> HIDE DEF b
<1>2. /\ p \in Seq(Octet) /\ Len(a) \in Nat /\ Len(p) = Len(a) + 1
      /\ \A x \in 1 .. Len(a) : p[x] = a[x]
      /\ p[Len(a) + 1] = y
  <2>1. /\ p \in Seq(Octet) /\ Len(a) \in Nat /\ Len(p) = Len(a) + Len(b)
        /\ \A x \in 1 .. Len(a) : p[x] = a[x]
        /\ \A x \in 1 .. Len(b) : p[Len(a) + x] = b[x]
    BY <1>1, Behind, Zenon
  <2> HIDE DEF p
  <2>2. 1 \in 1 .. Len(b)
    BY <1>1
  <2> QED BY <1>1, <2>1, <2>2
<1> HIDE DEF p
<1>3. /\ z \in Seq(Octet) /\ Len(c) \in Nat /\ Len(z) = Len(p) + Len(c)
      /\ \A x \in 1 .. Len(p) : z[x] = p[x]
      /\ \A x \in 1 .. Len(c) : z[Len(p) + x] = c[x]
  BY <1>2, Behind
<1> HIDE DEF z
<1>4. \A x \in 1 .. Len(a) : z[x] = a[x]
  BY <1>2, <1>3
<1>5. z[Len(a) + 1] = y
  BY <1>2, <1>3
<1>6. \A x \in 1 .. Len(c) : z[Len(a) + 1 + x] = c[x]
  BY <1>2, <1>3
<1>7. Len(z) = Len(a) + 1 + Len(c)
  BY <1>2, <1>3
<1> QED BY <1>2, <1>3, <1>4, <1>5, <1>6, <1>7 DEF b, p, z

\* p, c and the byte y, one after the other.
LEMMA Ended ==
    ASSUME NEW p \in Seq(Octet), NEW c \in Seq(Octet), NEW y \in Octet
    PROVE  LET z == (p \o c) \o <<y>> IN
           /\ z \in Seq(Octet) /\ Len(p) \in Nat /\ Len(c) \in Nat
           /\ Len(z) = Len(p) + Len(c) + 1
           /\ \A x \in 1 .. Len(p) : z[x] = p[x]
           /\ \A x \in 1 .. Len(c) : z[Len(p) + x] = c[x]
           /\ z[Len(p) + Len(c) + 1] = y
<1> DEFINE b == <<y>>  a == p \o c  z == a \o b
<1>1. b \in Seq(Octet) /\ Len(b) = 1 /\ b[1] = y
  OBVIOUS
<1> HIDE DEF b
<1>2. /\ a \in Seq(Octet) /\ Len(p) \in Nat /\ Len(c) \in Nat /\ Len(a) = Len(p) + Len(c)
      /\ \A x \in 1 .. Len(p) : a[x] = p[x]
      /\ \A x \in 1 .. Len(c) : a[Len(p) + x] = c[x]
  BY <1>1, Behind
<1> HIDE DEF a
<1>3. /\ z \in Seq(Octet) /\ Len(z) = Len(a) + 1
      /\ \A x \in 1 .. Len(a) : z[x] = a[x]
      /\ z[Len(a) + 1] = y
  BY <1>1, <1>2, Behind, SMTT(60)
<1> HIDE DEF z
<1>4. \A x \in 1 .. Len(p) : z[x] = p[x]
  BY <1>2, <1>3
<1>5. ASSUME NEW x \in 1 .. Len(c) PROVE z[Len(p) + x] = c[x]
  <2>1. Len(p) + x \in 1 .. Len(a)
    BY <1>2
  <2> QED BY <1>2, <1>3, <2>1
<1>6. z[Len(p) + Len(c) + 1] = y /\ Len(z) = Len(p) + Len(c) + 1
  BY <1>2, <1>3
<1> QED BY <1>2, <1>3, <1>4, <1>5, <1>6 DEF b, a, z

LEMMA FieldParts ==
    ASSUME NEW f \in JournalField
    PROVE  /\ f.name \in Seq(Octet) /\ f.value \in Seq(Octet)
           /\ Len(f.name) \in Nat \ {0} /\ Len(f.value) \in Nat
           /\ \A x \in 1 .. Len(f.name) : f.name[x] # Equals /\ f.name[x] # NewLine
           /\ Shifted(Len(f.value))[SizeBytes] = 0
<1>1. /\ f \in [name : Seq(Octet), value : Seq(Octet)]
      /\ f.name # <<>> /\ {Equals, NewLine} \cap ToSet(f.name) = {}
      /\ Shifted(Len(f.value))[SizeBytes] = 0
  BY Zenon DEF JournalField
<1>2. f.name \in Seq(Octet) /\ f.value \in Seq(Octet)
  BY <1>1
<1>3. Len(f.name) \in Nat \ {0} /\ Len(f.value) \in Nat
  BY <1>1, <1>2
<1>4. \A x \in 1 .. Len(f.name) : f.name[x] \in ToSet(f.name)
  BY <1>2 DEF ToSet
<1> QED BY <1>1, <1>2, <1>3, <1>4

TextShape(f, z) ==
    LET n == Len(f.name)  v == Len(f.value) IN
    /\ Len(z) = n + 1 + v + 1
    /\ \A x \in 1 .. n : z[x] = f.name[x]
    /\ z[n + 1] = Equals
    /\ \A x \in 1 .. v : z[n + 1 + x] = f.value[x] /\ f.value[x] # NewLine
    /\ z[n + 1 + v + 1] = NewLine

BinaryShape(f, z) ==
    LET n == Len(f.name)  v == Len(f.value) IN
    /\ Len(z) = n + 1 + SizeBytes + v + 1
    /\ \A x \in 1 .. n : z[x] = f.name[x]
    /\ z[n + 1] = NewLine
    /\ \A x \in 1 .. SizeBytes : z[n + 1 + x] = LittleEndian(v)[x]
    /\ \A x \in 1 .. v : z[n + 1 + SizeBytes + x] = f.value[x]
    /\ z[n + 1 + SizeBytes + v + 1] = NewLine

\* A field is a line with its name and value, or a name, a size and a value.
LEMMA FieldShape ==
    ASSUME NEW f \in JournalField
    PROVE  /\ EncodedField(f) \in Seq(Octet)
           /\ TextShape(f, EncodedField(f)) \/ BinaryShape(f, EncodedField(f))
<1> DEFINE a == f.name  c == f.value  n == Len(a)  v == Len(c)
<1>1. /\ a \in Seq(Octet) /\ c \in Seq(Octet) /\ n \in Nat \ {0} /\ v \in Nat
      /\ Shifted(v)[SizeBytes] = 0
  BY FieldParts
<1>2. NewLine \in Octet /\ Equals \in Octet /\ SizeBytes \in Nat \ {0}
  BY JournalAssumption DEF NewLine, Equals, Octet
<1> HIDE DEF a, c
<1>3. CASE NewLine \notin ToSet(c)
  <2> DEFINE p == a \o <<Equals>>  z == (p \o c) \o <<NewLine>>
  <2>1. EncodedField(f) = z
    BY <1>3, Zenon DEF EncodedField, a, c
  <2>2. /\ p \in Seq(Octet) /\ Len(p) = n + 1 /\ \A x \in 1 .. n : p[x] = a[x]
        /\ p[n + 1] = Equals
    <3>1. <<Equals>> \in Seq(Octet) /\ Len(<<Equals>>) = 1 /\ <<Equals>>[1] = Equals
      BY <1>2
    <3> DEFINE b == <<Equals>>
    <3> HIDE DEF b
    <3>2. b \in Seq(Octet) /\ Len(b) = 1 /\ b[1] = Equals
      BY <3>1 DEF b
    <3>3. /\ a \o b \in Seq(Octet) /\ Len(a \o b) = n + 1 /\ \A x \in 1 .. n : (a \o b)[x] = a[x]
          /\ (a \o b)[n + 1] = Equals
      <4>1. /\ a \o b \in Seq(Octet) /\ Len(a \o b) = Len(a) + Len(b)
            /\ \A x \in 1 .. Len(a) : (a \o b)[x] = a[x]
            /\ \A x \in 1 .. Len(b) : (a \o b)[Len(a) + x] = b[x]
        BY <1>1, <3>2, Behind, Zenon
      <4>2. 1 \in 1 .. Len(b)
        BY <3>2
      <4> DEFINE q == a \o b
      <4> HIDE DEF q
      <4>3. /\ q \in Seq(Octet) /\ Len(q) = Len(a) + Len(b)
            /\ \A x \in 1 .. Len(a) : q[x] = a[x]
            /\ \A x \in 1 .. Len(b) : q[Len(a) + x] = b[x]
        BY <4>1 DEF q
      <4>4. /\ q \in Seq(Octet) /\ Len(q) = n + 1 /\ \A x \in 1 .. n : q[x] = a[x]
            /\ q[n + 1] = Equals
        BY <3>2, <4>2, <4>3
      <4> QED BY <4>4 DEF q
    <3> QED BY <3>3 DEF b
  <2> HIDE DEF p
  <2>3. /\ z \in Seq(Octet) /\ Len(z) = Len(p) + v + 1
        /\ \A x \in 1 .. Len(p) : z[x] = p[x]
        /\ \A x \in 1 .. v : z[Len(p) + x] = c[x]
        /\ z[Len(p) + v + 1] = NewLine
    <3>1. p \in Seq(Octet) /\ c \in Seq(Octet) /\ NewLine \in Octet
      BY <1>1, <1>2, <2>2
    <3>2. /\ z \in Seq(Octet) /\ Len(z) = Len(p) + Len(c) + 1
          /\ \A x \in 1 .. Len(p) : z[x] = p[x]
          /\ \A x \in 1 .. Len(c) : z[Len(p) + x] = c[x]
          /\ z[Len(p) + Len(c) + 1] = NewLine
      BY <3>1, Ended, SMTT(60)
    <3> QED BY <3>2, Zenon
  <2> HIDE DEF z
  <2>4. \A x \in 1 .. v : c[x] # NewLine
    BY <1>1, <1>3 DEF ToSet
  <2>5. \A x \in 1 .. n : z[x] = a[x]
    BY <1>1, <2>2, <2>3
  <2>6. z[n + 1] = Equals
    BY <1>1, <2>2, <2>3
  <2>7. TextShape(f, z)
    BY <1>1, <2>2, <2>3, <2>4, <2>5, <2>6 DEF TextShape, a, c
  <2> QED BY <2>1, <2>3, <2>7
<1>4. CASE NewLine \in ToSet(c)
  <2> DEFINE l == LittleEndian(v)  p == (a \o <<NewLine>>) \o l  z == (p \o c) \o <<NewLine>>
  <2>1. EncodedField(f) = z
    BY <1>4, Zenon DEF EncodedField, a, c
  <2>2. l \in Seq(Octet) /\ Len(l) = SizeBytes
    BY <1>1, LittleEndianIs
  <2> HIDE DEF l
  <2>3. /\ p \in Seq(Octet) /\ Len(p) = n + 1 + SizeBytes
        /\ \A x \in 1 .. n : p[x] = a[x]
        /\ p[n + 1] = NewLine
        /\ \A x \in 1 .. SizeBytes : p[n + 1 + x] = l[x]
    <3>1. a \in Seq(Octet) /\ l \in Seq(Octet) /\ NewLine \in Octet
      BY <1>1, <1>2, <2>2
    <3>2. /\ p \in Seq(Octet) /\ Len(p) = Len(a) + 1 + Len(l)
          /\ \A x \in 1 .. Len(a) : p[x] = a[x]
          /\ p[Len(a) + 1] = NewLine
          /\ \A x \in 1 .. Len(l) : p[Len(a) + 1 + x] = l[x]
      BY <3>1, Marked, SMTT(60)
    <3> HIDE DEF p
    <3> QED BY <2>2, <3>2
  <2> HIDE DEF p
  <2>4. /\ z \in Seq(Octet) /\ Len(z) = Len(p) + v + 1
        /\ \A x \in 1 .. Len(p) : z[x] = p[x]
        /\ \A x \in 1 .. v : z[Len(p) + x] = c[x]
        /\ z[Len(p) + v + 1] = NewLine
    <3>1. p \in Seq(Octet) /\ c \in Seq(Octet) /\ NewLine \in Octet
      BY <1>1, <1>2, <2>3
    <3>2. /\ z \in Seq(Octet) /\ Len(z) = Len(p) + Len(c) + 1
          /\ \A x \in 1 .. Len(p) : z[x] = p[x]
          /\ \A x \in 1 .. Len(c) : z[Len(p) + x] = c[x]
          /\ z[Len(p) + Len(c) + 1] = NewLine
      BY <3>1, Ended, SMTT(60)
    <3> QED BY <3>2, Zenon
  <2> HIDE DEF z
  <2>5. \A x \in 1 .. n : z[x] = a[x]
    BY <1>1, <1>2, <2>3, <2>4
  <2>6. z[n + 1] = NewLine
    BY <1>1, <1>2, <2>3, <2>4
  <2>7. \A x \in 1 .. SizeBytes : z[n + 1 + x] = l[x]
    <3> SUFFICES ASSUME NEW x \in 1 .. SizeBytes PROVE z[n + 1 + x] = l[x]
      OBVIOUS
    <3>1. n + 1 + x \in 1 .. Len(p)
      BY <1>1, <1>2, <2>3
    <3> QED BY <2>3, <2>4, <3>1
  <2>8. BinaryShape(f, z)
    BY <1>1, <1>2, <2>3, <2>4, <2>5, <2>6, <2>7 DEF BinaryShape, a, c, l
  <2> QED BY <2>1, <2>4, <2>8
<1> QED BY <1>3, <1>4

-----------------------------------------------------------------------------
(* Reading the journal: the invariant *)

Codes(e) == [i \in DOMAIN e |-> EncodedField(e[i])]
Uploads(s) == [i \in DOMAIN Journal[s] |-> EncodedEntry(Journal[s][i])]

\* The entry behind the first k, and the place of what follows its first j fields.
Under(s, k) == IF k < Len(Journal[s]) THEN Journal[s][k + 1] ELSE <<>>
At(s, k, j) == Len(Upto(Uploads(s), k)) + Len(Upto(Codes(Under(s, k)), j))
Item(s, k, j) == IF j < Len(Under(s, k)) THEN EncodedField(Under(s, k)[j + 1]) ELSE <<NewLine>>

Held(s) == IF s \in DOMAIN decoders THEN decoders[s] ELSE FreshDecoder

\* k entries of s and j fields of the next are read, with p bytes sent: the
\* decoder d holds the bytes behind them and the j fields, and r was appended.
Stands(s, k, j, d, p, r) ==
    /\ k \in 0 .. Len(Journal[s]) /\ j \in 0 .. Len(Under(s, k))
    /\ At(s, k, j) <= p
    /\ d = [buf |-> SubSeq(Stream(s), At(s, k, j) + 1, p),
            fields |-> FieldsOf(SubSeq(Under(s, k), 1, j))]
    /\ r = RecordsOf(Journal[s])[k]

\* What follows has not arrived whole.
Short(s, k, j, p) == k < Len(Journal[s]) => p < At(s, k, j) + Len(Item(s, k, j))

\* Unless feed is at work, it is at the last thing that arrived whole.
InStep(s) ==
    \E k, j \in Nat : /\ Stands(s, k, j, Held(s), position[s], journaled[s])
                      /\ feeding # s => Short(s, k, j, position[s])

JournalShape ==
    /\ JournalTypeOK /\ IsFiniteSet(DOMAIN decoders)
    /\ decoders = [s \in DOMAIN decoders |-> decoders[s]]
    /\ \A s \in DOMAIN decoders :
          /\ decoders[s] = [buf |-> decoders[s].buf, fields |-> decoders[s].fields]
          /\ decoders[s].buf \in Seq(Octet)
    /\ journaled = [s \in Sources |-> journaled[s]]

JournalInv ==
    /\ JournalShape
    /\ \A s \in Sources \ disturbed : InStep(s)

-----------------------------------------------------------------------------
(* The stream of a source *)

LEMMA EntryCodes ==
    ASSUME NEW e \in Seq(JournalField)
    PROVE  /\ Codes(e) \in Seq(Seq(Octet)) /\ Len(Codes(e)) = Len(e) /\ Len(e) \in Nat
           /\ \A i \in 1 .. Len(e) : Codes(e)[i] = EncodedField(e[i])
           /\ Upto(Codes(e), Len(e)) \in Seq(Octet)
           /\ EncodedEntry(e) = Append(Upto(Codes(e), Len(e)), NewLine)
           /\ EncodedEntry(e) \in Seq(Octet)
           /\ Len(EncodedEntry(e)) = Len(Upto(Codes(e), Len(e))) + 1
<1> DEFINE q == Codes(e)
<1>1. DOMAIN e = 1 .. Len(e) /\ Len(e) \in Nat /\ \A i \in 1 .. Len(e) : e[i] \in JournalField
  OBVIOUS
<1>2. \A i \in 1 .. Len(e) : EncodedField(e[i]) \in Seq(Octet)
  BY <1>1, FieldShape
<1>3. q = [i \in 1 .. Len(e) |-> EncodedField(e[i])]
  BY <1>1, Zenon DEF Codes
<1>4. q \in Seq(Seq(Octet)) /\ Len(q) = Len(e)
  BY <1>1, <1>2, <1>3
<1>5. EncodedEntry(e) = Append(FlattenSeq(q), NewLine)
  BY Zenon DEF EncodedEntry, Codes
<1> HIDE DEF q
<1>6. FlattenSeq(q) = Upto(q, Len(e)) /\ Upto(q, Len(e)) \in Seq(Octet)
  <2>1. Len(q) \in 0 .. Len(q)
    BY <1>1, <1>4
  <2> QED BY <1>4, <2>1, UptoIs
<1> DEFINE u == Upto(q, Len(e))
<1>7. u \in Seq(Octet) /\ EncodedEntry(e) = Append(u, NewLine)
  BY <1>5, <1>6
<1> HIDE DEF u
<1>8. NewLine \in Octet
  BY DEF NewLine, Octet
<1>9. Append(u, NewLine) \in Seq(Octet) /\ Len(Append(u, NewLine)) = Len(u) + 1
  BY <1>7, <1>8, AppendProperties
<1>10. \A i \in 1 .. Len(e) : q[i] = EncodedField(e[i])
  BY <1>3
<1> QED BY <1>1, <1>4, <1>7, <1>9, <1>10, Zenon DEF q, u

LEMMA SourceStream ==
    ASSUME NEW s \in Sources
    PROVE  /\ Journal[s] \in Seq(Seq(JournalField)) /\ Len(Journal[s]) \in Nat
           /\ Uploads(s) \in Seq(Seq(Octet)) /\ Len(Uploads(s)) = Len(Journal[s])
           /\ \A i \in 1 .. Len(Journal[s]) : Uploads(s)[i] = EncodedEntry(Journal[s][i])
           /\ Stream(s) = Upto(Uploads(s), Len(Journal[s])) /\ Stream(s) \in Seq(Octet)
           /\ \A i \in 0 .. Len(Journal[s]) : EndOf(s, i) = Len(Upto(Uploads(s), i)) /\ EndOf(s, i) \in Nat
<1> DEFINE J == Journal[s]  q == Uploads(s)
<1>1. J \in Seq(Seq(JournalField))
  BY JournalAssumption
<1>2. DOMAIN J = 1 .. Len(J) /\ Len(J) \in Nat /\ \A i \in 1 .. Len(J) : J[i] \in Seq(JournalField)
  BY <1>1
<1>3. q = [i \in 1 .. Len(J) |-> EncodedEntry(J[i])]
  BY <1>2, Zenon DEF Uploads
<1>4. Stream(s) = FlattenSeq(q)
  BY Zenon DEF Stream, Uploads
<1> HIDE DEF J
<1>5. \A i \in 1 .. Len(J) : EncodedEntry(J[i]) \in Seq(Octet)
  BY <1>2, EntryCodes
<1> HIDE DEF q
<1>6. q \in Seq(Seq(Octet)) /\ Len(q) = Len(J) /\ \A i \in 1 .. Len(J) : q[i] = EncodedEntry(J[i])
  BY <1>2, <1>3, <1>5
<1>7. Stream(s) = Upto(q, Len(J)) /\ \A i \in 0 .. Len(J) : Upto(q, i) \in Seq(Octet)
  BY <1>4, <1>6, UptoIs
<1>8. ASSUME NEW i \in 0 .. Len(J) PROVE EndOf(s, i) = Len(Upto(q, i)) /\ EndOf(s, i) \in Nat
  <2>1. \A j \in 1 .. i : j \in 1 .. Len(J)
    BY <1>2
  <2>2. \A j \in 1 .. i : EncodedEntry(J[j]) = q[j]
    BY <1>6, <2>1
  <2>3. [j \in 1 .. i |-> EncodedEntry(J[j])] = [j \in 1 .. i |-> q[j]]
    BY <2>2, Zenon
  <2>4. EndOf(s, i) = Len(FlattenSeq([j \in 1 .. i |-> EncodedEntry(J[j])]))
    BY Zenon DEF EndOf, J
  <2>5. EndOf(s, i) = Len(Upto(q, i))
    BY <2>3, <2>4, Zenon DEF Upto
  <2>6. Upto(q, i) \in Seq(Octet)
    BY <1>7
  <2> QED BY <2>5, <2>6, LenProperties
<1>9. Stream(s) \in Seq(Octet)
  <2>1. Len(J) \in 0 .. Len(J)
    BY <1>2
  <2> QED BY <1>7, <2>1
<1> QED BY <1>1, <1>2, <1>6, <1>7, <1>8, <1>9, Zenon DEF J, q

\* What follows k entries and j fields is item j of entry k + 1.
LEMMA Place ==
    ASSUME NEW s \in Sources, NEW k \in 0 .. Len(Journal[s]), k < Len(Journal[s]),
           NEW j \in 0 .. Len(Under(s, k))
    PROVE  /\ Under(s, k) = Journal[s][k + 1] /\ Under(s, k) \in Seq(JournalField)
           /\ Len(Under(s, k)) \in Nat
           /\ At(s, k, j) \in Nat /\ EndOf(s, k) <= At(s, k, j)
           /\ Item(s, k, j) \in Seq(Octet) /\ Len(Item(s, k, j)) \in Nat \ {0}
           /\ \A x \in 1 .. Len(Item(s, k, j)) : Stream(s)[At(s, k, j) + x] = Item(s, k, j)[x]
           /\ At(s, k, j) + Len(Item(s, k, j)) <= EndOf(s, k + 1)
           /\ EndOf(s, k + 1) <= Len(Stream(s)) /\ EndOf(s, k + 1) \in Nat /\ Len(Stream(s)) \in Nat
           /\ j < Len(Under(s, k)) => At(s, k, j + 1) = At(s, k, j) + Len(Item(s, k, j))
           /\ j = Len(Under(s, k)) => EndOf(s, k + 1) = At(s, k, j) + Len(Item(s, k, j))
<1> DEFINE J == Journal[s]  e == Under(s, k)  q == Uploads(s)  c == Codes(e)
           u == Upto(q, k)  a == Upto(c, j)  z == Item(s, k, j)  w == Stream(s)
           b == EncodedEntry(e)
<1>1. /\ J \in Seq(Seq(JournalField)) /\ Len(J) \in Nat /\ q \in Seq(Seq(Octet)) /\ Len(q) = Len(J)
      /\ \A i \in 1 .. Len(J) : q[i] = EncodedEntry(J[i])
      /\ w = Upto(q, Len(J)) /\ w \in Seq(Octet)
      /\ \A i \in 0 .. Len(J) : EndOf(s, i) = Len(Upto(q, i)) /\ EndOf(s, i) \in Nat
  BY SourceStream
<1>2. e = J[k + 1]
  BY DEF Under
<1>3. k + 1 \in 1 .. Len(J) /\ k + 1 \in 0 .. Len(J) /\ k \in 0 .. Len(J) /\ k \in Nat
      /\ (k + 1) - 1 = k /\ Len(J) \in (k + 1) .. Len(J)
  BY <1>1
<1>4. At(s, k, j) = Len(u) + Len(a)
  BY Zenon DEF At
<1>5. z = IF j < Len(e) THEN EncodedField(e[j + 1]) ELSE <<NewLine>>
  BY Zenon DEF Item
<1>6. j \in 0 .. Len(e)
  OBVIOUS
<1> HIDE DEF J, q, e, w, z
<1>7. e \in Seq(JournalField)
  BY <1>1, <1>2, <1>3
<1>8. /\ c \in Seq(Seq(Octet)) /\ Len(c) = Len(e) /\ Len(e) \in Nat
      /\ \A i \in 1 .. Len(e) : c[i] = EncodedField(e[i])
      /\ Upto(c, Len(e)) \in Seq(Octet)
      /\ b = Append(Upto(c, Len(e)), NewLine) /\ b \in Seq(Octet)
      /\ Len(b) = Len(Upto(c, Len(e))) + 1
  BY <1>7, EntryCodes
<1>9. q[k + 1] = b
  BY <1>1, <1>2, <1>3
<1> HIDE DEF c, b
\* The entry on the stream.
<1>10. /\ Len(u) \in Nat /\ Len(b) \in Nat /\ Len(w) \in Nat
       /\ EndOf(s, k) = Len(u) /\ EndOf(s, k + 1) = Len(u) + Len(b)
       /\ EndOf(s, k + 1) <= Len(w)
       /\ \A p \in 1 .. Len(b) : w[Len(u) + p] = b[p]
  <2>1. /\ Len(Upto(q, (k + 1) - 1)) \in Nat /\ Len(q[k + 1]) \in Nat /\ Len(Upto(q, Len(J))) \in Nat
        /\ Len(Upto(q, k + 1)) = Len(Upto(q, (k + 1) - 1)) + Len(q[k + 1])
        /\ Len(Upto(q, k + 1)) <= Len(Upto(q, Len(J)))
        /\ \A p \in 1 .. Len(q[k + 1]) : Upto(q, Len(J))[Len(Upto(q, (k + 1) - 1)) + p] = q[k + 1][p]
    <3>1. k + 1 \in 1 .. Len(q) /\ Len(J) \in (k + 1) .. Len(q)
      BY <1>1, <1>3
    <3> QED BY <1>1, <3>1, UptoAt
  <2>2. EndOf(s, k) = Len(u) /\ EndOf(s, k + 1) = Len(Upto(q, k + 1))
    BY <1>1, <1>3
  <2> QED BY <1>1, <1>3, <1>9, <2>1, <2>2, Zenon
<1> HIDE DEF u
\* The item in the entry.
<1>11. /\ Len(a) \in Nat /\ z \in Seq(Octet) /\ Len(z) \in Nat \ {0} /\ Len(a) + Len(z) <= Len(b)
       /\ \A x \in 1 .. Len(z) : b[Len(a) + x] = z[x]
       /\ j < Len(e) => Len(Upto(c, j + 1)) = Len(a) + Len(z)
       /\ j = Len(e) => Len(b) = Len(a) + Len(z)
  <2> DEFINE t == Upto(c, Len(e))
  <2>1. /\ t \in Seq(Octet) /\ b = Append(t, NewLine) /\ Len(b) = Len(t) + 1
        /\ Len(t) \in Nat
    BY <1>8, LenProperties
  <2>2. \A p \in 1 .. Len(t) : b[p] = t[p]
    <3> HIDE DEF t
    <3> QED BY <2>1
  <2>3. b[Len(t) + 1] = NewLine
    <3> HIDE DEF t
    <3> QED BY <2>1
  <2>4. CASE j = Len(e)
    <3>1. z = <<NewLine>> /\ a = t
      BY <1>5, <2>4, <1>8
    <3>2. z \in Seq(Octet) /\ Len(z) = 1 /\ z[1] = NewLine
      BY <3>1 DEF NewLine, Octet
    <3> HIDE DEF a, t
    <3>3. \A x \in 1 .. Len(z) : b[Len(a) + x] = z[x]
      BY <2>3, <3>1, <3>2
    <3> QED BY <2>1, <2>4, <3>1, <3>2, <3>3
  <2>5. CASE j < Len(e)
    <3>1. z = EncodedField(e[j + 1])
      BY <1>5, <2>5, Zenon
    <3>2. j + 1 \in 1 .. Len(e) /\ (j + 1) - 1 = j /\ Len(e) \in (j + 1) .. Len(e)
      BY <1>6, <1>8, <2>5
    <3>3. c[j + 1] = z
      BY <1>8, <3>1, <3>2
    <3>4. /\ Len(Upto(c, (j + 1) - 1)) \in Nat /\ Len(c[j + 1]) \in Nat /\ Len(Upto(c, Len(e))) \in Nat
          /\ Len(Upto(c, j + 1)) = Len(Upto(c, (j + 1) - 1)) + Len(c[j + 1])
          /\ Len(Upto(c, j + 1)) <= Len(Upto(c, Len(e)))
          /\ \A p \in 1 .. Len(c[j + 1]) : Upto(c, Len(e))[Len(Upto(c, (j + 1) - 1)) + p] = c[j + 1][p]
      <4>1. j + 1 \in 1 .. Len(c) /\ Len(e) \in (j + 1) .. Len(c)
        BY <1>8, <3>2
      <4> QED BY <1>8, <4>1, UptoAt
    <3>5. /\ Len(a) \in Nat /\ Len(z) \in Nat /\ Len(Upto(c, j + 1)) = Len(a) + Len(z)
          /\ Len(Upto(c, j + 1)) <= Len(t)
          /\ \A p \in 1 .. Len(z) : t[Len(a) + p] = z[p]
      BY <3>2, <3>3, <3>4, Zenon
    <3>6. z \in Seq(Octet) /\ Len(z) # 0
      <4>1. e[j + 1] \in JournalField
        BY <1>7, <3>2
      <4>2. z \in Seq(Octet) /\ (TextShape(e[j + 1], z) \/ BinaryShape(e[j + 1], z))
        BY <3>1, <4>1, FieldShape
      <4>3. Len(e[j + 1].name) \in Nat /\ Len(e[j + 1].value) \in Nat /\ SizeBytes \in Nat
        BY <4>1, FieldParts, JournalAssumption
      <4> DEFINE n == Len(e[j + 1].name)  v == Len(e[j + 1].value)
      <4>4. Len(z) = n + 1 + v + 1 \/ Len(z) = n + 1 + SizeBytes + v + 1
        BY <4>2, Zenon DEF TextShape, BinaryShape
      <4> HIDE DEF n, v
      <4>5. n \in Nat /\ v \in Nat /\ SizeBytes \in Nat
        BY <4>3 DEF n, v
      <4> QED BY <4>2, <4>4, <4>5
    <3> HIDE DEF a, t
    <3>7. ASSUME NEW x \in 1 .. Len(z) PROVE b[Len(a) + x] = z[x]
      <4>1. Len(a) + x \in 1 .. Len(t)
        BY <2>1, <3>5
      <4> QED BY <2>2, <3>5, <4>1
    <3> QED BY <2>1, <2>5, <3>5, <3>6, <3>7, SMTT(60)
  <2>6. j = Len(e) \/ j < Len(e)
    BY <1>6, <1>8
  <2> QED BY <2>4, <2>5, <2>6, Zenon
<1> DEFINE A == At(s, k, j)  E == EndOf(s, k + 1)  lu == Len(u)  la == Len(a)  lz == Len(z)  lb == Len(b)
<1>12a. /\ A = lu + la /\ E = lu + lb /\ la + lz <= lb /\ (j = Len(e) => lb = la + lz)
        /\ lu \in Nat /\ la \in Nat /\ lz \in Nat /\ lb \in Nat
  BY <1>4, <1>10, <1>11, Zenon
<1> HIDE DEF A, E, lu, la, lz, lb
<1>12. At(s, k, j) \in Nat /\ EndOf(s, k) <= At(s, k, j) /\ At(s, k, j) + Len(z) <= EndOf(s, k + 1)
  <2>1. EndOf(s, k) = lu
    BY <1>10 DEF lu
  <2>2. A \in Nat /\ lu <= A /\ A + lz <= E
    BY <1>12a
  <2> QED BY <2>1, <2>2 DEF A, lz, E
<1>13. ASSUME NEW x \in 1 .. Len(z) PROVE w[At(s, k, j) + x] = z[x]
  <2>1. Len(a) + x \in 1 .. Len(b) /\ Len(u) + (Len(a) + x) = At(s, k, j) + x
    <3>1. x \in 1 .. lz
      BY DEF lz
    <3>2. la + x \in 1 .. lb /\ lu + (la + x) = A + x
      BY <1>12a, <3>1
    <3> QED BY <3>2 DEF A, lu, la, lb
  <2>2. w[Len(u) + (Len(a) + x)] = b[Len(a) + x]
    BY <1>10, <2>1
  <2> QED BY <1>11, <2>1, <2>2
<1>14. j < Len(e) => At(s, k, j + 1) = At(s, k, j) + Len(z)
  <2>1. At(s, k, j + 1) = Len(u) + Len(Upto(c, j + 1))
    BY Zenon DEF At, u, q, c, e
  <2>2. j < Len(e) => At(s, k, j + 1) = lu + (la + lz)
    BY <1>11, <2>1, Zenon DEF lu, la, lz
  <2>3. lu + (la + lz) = A + lz
    BY <1>12a
  <2> QED BY <2>2, <2>3, Zenon DEF A, lz
<1>15. j = Len(e) => EndOf(s, k + 1) = At(s, k, j) + Len(z)
  <2>1. j = Len(e) => E = A + lz
    BY <1>12a
  <2> QED BY <2>1, Zenon DEF E, A, lz
<1>16. EndOf(s, k + 1) \in Nat
  BY <1>10
<1> QED BY <1>2, <1>7, <1>8, <1>10, <1>11, <1>12, <1>13, <1>14, <1>15, <1>16, Zenon DEF J, e, q, w, z

\* Between two entries.
LEMMA PlaceBetween ==
    ASSUME NEW s \in Sources, NEW k \in 0 .. Len(Journal[s])
    PROVE  /\ At(s, k, 0) = EndOf(s, k) /\ EndOf(s, k) \in Nat
           /\ 0 \in 0 .. Len(Under(s, k)) /\ Len(Under(s, k)) \in Nat
           /\ k = Len(Journal[s]) => At(s, k, 0) = Len(Stream(s)) /\ Under(s, k) = <<>>
<1>1. Under(s, k) \in Seq(JournalField)
  <2>1. Journal[s] \in Seq(Seq(JournalField))
    BY SourceStream
  <2>2. CASE k < Len(Journal[s])
    <3>1. k + 1 \in 1 .. Len(Journal[s])
      BY <2>1, <2>2
    <3>2. Journal[s][k + 1] \in Seq(JournalField)
      BY <2>1, <3>1
    <3> QED BY <2>2, <3>2, Zenon DEF Under
  <2>3. CASE ~(k < Len(Journal[s]))
    <3>1. Under(s, k) = <<>>
      BY <2>3, Zenon DEF Under
    <3> QED BY <3>1
  <2> QED BY <2>2, <2>3
<1>2. Codes(Under(s, k)) \in Seq(Seq(Octet)) /\ Len(Under(s, k)) \in Nat
  BY <1>1, EntryCodes
<1>3. Upto(Codes(Under(s, k)), 0) = <<>>
  BY <1>2, UptoIs
<1>4. EndOf(s, k) = Len(Upto(Uploads(s), k)) /\ EndOf(s, k) \in Nat
  BY SourceStream
<1>5. At(s, k, 0) = Len(Upto(Uploads(s), k)) + Len(Upto(Codes(Under(s, k)), 0))
  BY Zenon DEF At
<1>6. At(s, k, 0) = EndOf(s, k)
  <2>1. Len(Upto(Codes(Under(s, k)), 0)) = 0
    BY <1>3
  <2> QED BY <1>4, <1>5, <2>1
<1>7. ASSUME k = Len(Journal[s]) PROVE EndOf(s, k) = Len(Stream(s)) /\ Under(s, k) = <<>>
  <2>1. Len(Journal[s]) \in Nat /\ Stream(s) = Upto(Uploads(s), Len(Journal[s]))
    BY SourceStream
  <2>2. ~(k < Len(Journal[s]))
    BY <1>7, <2>1
  <2>3. Under(s, k) = <<>>
    BY <2>2, Zenon DEF Under
  <2> QED BY <1>4, <1>7, <2>1, <2>3, Zenon
<1>8. 0 \in 0 .. Len(Under(s, k))
  BY <1>2
<1> QED BY <1>2, <1>4, <1>6, <1>7, <1>8

-----------------------------------------------------------------------------
(* What feed finds in its buffer *)

LEMMA Slice ==
    ASSUME NEW T, NEW s \in Seq(T), NEW m \in Nat \ {0}, NEW n \in Nat, m <= n + 1, n <= Len(s)
    PROVE  /\ SubSeq(s, m, n) \in Seq(T) /\ Len(SubSeq(s, m, n)) = n - m + 1
           /\ \A x \in 1 .. (n - m + 1) : SubSeq(s, m, n)[x] = s[m - 1 + x]
<1>1. Len(s) \in Nat /\ \A i \in 1 .. Len(s) : s[i] \in T
  BY LenProperties, ElementOfSeq
<1>2. \A i \in m .. n : s[i] \in T
  BY <1>1
<1>3. m \in Int /\ n \in Int
  OBVIOUS
<1>4. /\ SubSeq(s, m, n) \in Seq(T)
      /\ Len(SubSeq(s, m, n)) = IF m <= n THEN n - m + 1 ELSE 0
      /\ \A x \in 1 .. n - m + 1 : SubSeq(s, m, n)[x] = s[m + x - 1]
  BY <1>2, <1>3, SubSeqProperties
<1> DEFINE t == SubSeq(s, m, n)
<1> HIDE DEF t
<1>5. Len(t) = n - m + 1
  BY <1>4 DEF t
<1>6. ASSUME NEW x \in 1 .. (n - m + 1) PROVE t[x] = s[m - 1 + x]
  <2>1. m + x - 1 = m - 1 + x
    OBVIOUS
  <2>2. t[x] = s[m + x - 1]
    BY <1>4 DEF t
  <2> QED BY <2>1, <2>2
<1> QED BY <1>4, <1>5, <1>6 DEF t

LEMMA SliceIs ==
    ASSUME NEW T, NEW s \in Seq(T), NEW m \in Nat \ {0}, NEW n \in Nat, m <= n + 1, n <= Len(s),
           NEW t \in Seq(T), Len(t) = n - m + 1, \A x \in 1 .. Len(t) : s[m - 1 + x] = t[x]
    PROVE  SubSeq(s, m, n) = t
<1> DEFINE u == SubSeq(s, m, n)
<1>1. u \in Seq(T) /\ Len(u) = n - m + 1 /\ \A x \in 1 .. (n - m + 1) : u[x] = s[m - 1 + x]
  BY Slice
<1> HIDE DEF u
<1>2. \A x \in 1 .. Len(u) : u[x] = t[x]
  BY <1>1
<1>3. u = t
  BY <1>1, <1>2, SeqEqual
<1> QED BY <1>3 DEF u

\* A slice of a slice: what is behind its first n elements.
LEMMA SliceRest ==
    ASSUME NEW T, NEW s \in Seq(T), NEW c \in Nat, NEW p \in Nat, c <= p, p <= Len(s),
           NEW n \in Nat, n <= p - c
    PROVE  LET b == SubSeq(s, c + 1, p) IN SubSeq(b, n + 1, Len(b)) = SubSeq(s, c + n + 1, p)
<1> DEFINE b == SubSeq(s, c + 1, p)  t == SubSeq(s, c + n + 1, p)
<1>1. b \in Seq(T) /\ Len(b) = p - c /\ \A x \in 1 .. (p - c) : b[x] = s[c + x]
  <2>1. b \in Seq(T) /\ Len(b) = p - (c + 1) + 1
        /\ \A x \in 1 .. (p - (c + 1) + 1) : b[x] = s[(c + 1) - 1 + x]
    <3>1. c + 1 \in Nat \ {0} /\ c + 1 <= p + 1
      OBVIOUS
    <3> QED BY <3>1, Slice
  <2> HIDE DEF b
  <2>2. p - (c + 1) + 1 = p - c /\ \A x \in 1 .. (p - c) : (c + 1) - 1 + x = c + x
    OBVIOUS
  <2> QED BY <2>1, <2>2
<1>2. t \in Seq(T) /\ Len(t) = p - c - n /\ \A x \in 1 .. (p - c - n) : t[x] = s[c + n + x]
  <2>1. t \in Seq(T) /\ Len(t) = p - (c + n + 1) + 1
        /\ \A x \in 1 .. (p - (c + n + 1) + 1) : t[x] = s[(c + n + 1) - 1 + x]
    <3>1. c + n + 1 \in Nat \ {0} /\ c + n + 1 <= p + 1
      OBVIOUS
    <3> QED BY <3>1, Slice, SMTT(60)
  <2> HIDE DEF t
  <2>2. p - (c + n + 1) + 1 = p - c - n /\ \A x \in 1 .. (p - c - n) : (c + n + 1) - 1 + x = c + n + x
    OBVIOUS
  <2> QED BY <2>1, <2>2
<1> HIDE DEF b, t
<1>3. \A x \in 1 .. Len(t) : b[(n + 1) - 1 + x] = t[x]
  <2> SUFFICES ASSUME NEW x \in 1 .. Len(t) PROVE b[(n + 1) - 1 + x] = t[x]
    OBVIOUS
  <2>1. (n + 1) - 1 + x = n + x /\ n + x \in 1 .. (p - c) /\ c + (n + x) = c + n + x
    BY <1>2
  <2> QED BY <1>1, <1>2, <2>1
<1>4. n + 1 \in Nat \ {0} /\ Len(b) \in Nat /\ n + 1 <= Len(b) + 1 /\ Len(t) = Len(b) - (n + 1) + 1
  BY <1>1, <1>2
<1>5. SubSeq(b, n + 1, Len(b)) = t
  BY <1>1, <1>2, <1>3, <1>4, SliceIs
<1> QED BY <1>5 DEF b, t

\* The first newline, if it has arrived, is where it should be.
LEMMA FirstLine ==
    ASSUME NEW buf \in Seq(Octet), NEW m \in Nat \ {0},
           \A x \in 1 .. (m - 1) : x <= Len(buf) => buf[x] # NewLine,
           m <= Len(buf) => buf[m] = NewLine
    PROVE  /\ NewLine \in ToSet(buf) => m <= Len(buf)
           /\ m <= Len(buf) => /\ NewLine \in ToSet(buf)
                               /\ IndexByte(buf, NewLine) = m
                               /\ SubSeq(buf, 1, IndexByte(buf, NewLine) - 1) = SubSeq(buf, 1, m - 1)
<1>1. Len(buf) \in Nat
  BY LenProperties
<1>2. ASSUME NewLine \in ToSet(buf) PROVE m <= Len(buf)
  <2>1. PICK x \in 1 .. Len(buf) : buf[x] = NewLine
    BY <1>2 DEF ToSet
  <2>2. ~(x <= m - 1)
    BY <1>1, <2>1
  <2> QED BY <1>1, <2>1, <2>2
<1>3. ASSUME m <= Len(buf) PROVE IndexByte(buf, NewLine) = m /\ NewLine \in ToSet(buf)
  <2>1. m \in 1 .. Len(buf) /\ buf[m] = NewLine /\ \A x \in 1 .. (m - 1) : buf[x] # NewLine
    BY <1>1, <1>3
  <2> QED BY <2>1, IndexAt
<1> QED BY <1>2, <1>3, Zenon

\* The buffer holds z or the beginning of z.
Fits(buf, z) == \A x \in 1 .. Len(z) : x <= Len(buf) => buf[x] = z[x]

LEMMA TextLine ==
    ASSUME NEW buf \in Seq(Octet), NEW f \in JournalField, NEW z \in Seq(Octet),
           TextShape(f, z), Fits(buf, z)
    PROVE  LET line == SubSeq(buf, 1, IndexByte(buf, NewLine) - 1)
               eq == IndexByte(line, Equals)
           IN /\ NewLine \in ToSet(buf) <=> Len(z) <= Len(buf)
              /\ NewLine \in ToSet(buf) =>
                    /\ Equals \in ToSet(line) /\ line # <<>> /\ Len(line) + 1 = Len(z)
                    /\ SubSeq(line, 1, eq - 1) = f.name
                    /\ SubSeq(line, eq + 1, Len(line)) = f.value
<1> DEFINE a == f.name  c == f.value  n == Len(a)  v == Len(c)  m == n + 1 + v + 1
           line == SubSeq(buf, 1, m - 1)
<1>1. /\ a \in Seq(Octet) /\ c \in Seq(Octet) /\ n \in Nat \ {0} /\ v \in Nat
      /\ \A x \in 1 .. n : a[x] # Equals /\ a[x] # NewLine
  BY FieldParts
<1>2. /\ Len(z) = m /\ z[m] = NewLine /\ z[n + 1] = Equals
      /\ \A x \in 1 .. n : z[x] = a[x]
      /\ \A x \in 1 .. v : z[n + 1 + x] = c[x] /\ c[x] # NewLine
  BY Zenon DEF TextShape
<1>3. Len(buf) \in Nat
  BY LenProperties
<1> HIDE DEF a, c
<1>4. Equals # NewLine
  BY DEF Equals, NewLine
<1>5. ASSUME NEW x \in 1 .. (m - 1) PROVE z[x] # NewLine
  <2>1. CASE x \in 1 .. n
    BY <1>1, <1>2, <2>1
  <2>2. CASE x = n + 1
    <3>1. z[x] = Equals
      BY <1>2, <2>2, Zenon
    <3> QED BY <1>4, <3>1, Zenon
  <2>3. CASE x > n + 1
    <3>1. PICK y \in 1 .. v : n + 1 + y = x
      <4>1. x - (n + 1) \in 1 .. v /\ n + 1 + (x - (n + 1)) = x
        BY <1>1, <2>3
      <4> QED BY <4>1
    <3>2. z[n + 1 + y] = c[y] /\ c[y] # NewLine
      BY <1>2, Zenon
    <3> QED BY <3>1, <3>2, Zenon
  <2> QED BY <1>1, <2>1, <2>2, <2>3
<1>6. \A x \in 1 .. m : x <= Len(buf) => buf[x] = z[x]
  BY <1>2, Zenon DEF Fits
<1>7. m \in Nat \ {0}
  BY <1>1
<1>8. /\ NewLine \in ToSet(buf) => m <= Len(buf)
      /\ m <= Len(buf) => /\ NewLine \in ToSet(buf)
                          /\ IndexByte(buf, NewLine) = m
                          /\ SubSeq(buf, 1, IndexByte(buf, NewLine) - 1) = line
  <2>1. \A x \in 1 .. (m - 1) : x <= Len(buf) => buf[x] # NewLine
    <3>1. \A x \in 1 .. (m - 1) : x \in 1 .. m
      BY <1>7
    <3> QED BY <1>5, <1>6, <3>1
  <2>2. m <= Len(buf) => buf[m] = NewLine
    BY <1>2, <1>6, <1>7
  <2> HIDE DEF m
  <2> QED BY <1>7, <2>1, <2>2, FirstLine
<1>9. ASSUME m <= Len(buf)
      PROVE  /\ Equals \in ToSet(line) /\ line # <<>> /\ Len(line) + 1 = m
             /\ SubSeq(line, 1, IndexByte(line, Equals) - 1) = a
             /\ SubSeq(line, IndexByte(line, Equals) + 1, Len(line)) = c
  <2>1. line \in Seq(Octet) /\ Len(line) = n + 1 + v /\ \A x \in 1 .. (n + 1 + v) : line[x] = buf[x]
    <3>1. m - 1 \in Nat /\ 1 <= (m - 1) + 1 /\ m - 1 <= Len(buf) /\ 1 \in Nat \ {0}
      BY <1>3, <1>7, <1>9
    <3>2. /\ line \in Seq(Octet) /\ Len(line) = (m - 1) - 1 + 1
          /\ \A x \in 1 .. ((m - 1) - 1 + 1) : line[x] = buf[1 - 1 + x]
      <4> HIDE DEF m
      <4> QED BY <3>1, Slice
    <3>3. (m - 1) - 1 + 1 = n + 1 + v /\ \A x \in 1 .. (n + 1 + v) : 1 - 1 + x = x
      BY <1>1
    <3> HIDE DEF line
    <3> QED BY <3>2, <3>3
  <2> HIDE DEF line
  <2>2. \A x \in 1 .. (n + 1 + v) : line[x] = z[x]
    <3>1. \A x \in 1 .. (n + 1 + v) : x \in 1 .. m /\ x <= Len(buf)
      BY <1>1, <1>3, <1>9
    <3> QED BY <1>6, <2>1, <3>1
  <2>3. n + 1 \in 1 .. Len(line) /\ line[n + 1] = Equals
    <3>1. n + 1 \in 1 .. (n + 1 + v)
      BY <1>1
    <3> QED BY <1>2, <2>1, <2>2, <3>1
  <2>4. ASSUME NEW x \in 1 .. ((n + 1) - 1) PROVE line[x] # Equals
    <3>1. x \in 1 .. n /\ x \in 1 .. (n + 1 + v)
      BY <1>1
    <3> QED BY <1>1, <1>2, <2>2, <3>1
  <2>5. IndexByte(line, Equals) = n + 1 /\ Equals \in ToSet(line)
    BY <2>1, <2>3, <2>4, IndexAt
  <2>6. SubSeq(line, 1, (n + 1) - 1) = a
    <3>1. \A x \in 1 .. n : line[1 - 1 + x] = a[x]
      <4>1. \A x \in 1 .. n : x \in 1 .. (n + 1 + v) /\ 1 - 1 + x = x
        BY <1>1
      <4> QED BY <1>2, <2>2, <4>1
    <3>2. 1 \in Nat \ {0} /\ n \in Nat /\ 1 <= n + 1 /\ n <= Len(line) /\ Len(a) = n - 1 + 1
      BY <1>1, <2>1
    <3>3. SubSeq(line, 1, n) = a
      BY <1>1, <2>1, <3>1, <3>2, SliceIs
    <3>4. (n + 1) - 1 = n
      BY <1>1
    <3> QED BY <3>3, <3>4, Zenon
  <2>7. SubSeq(line, (n + 1) + 1, Len(line)) = c
    <3>1. \A x \in 1 .. v : line[(n + 2) - 1 + x] = c[x]
      <4>1. \A x \in 1 .. v : (n + 2) - 1 + x = n + 1 + x /\ n + 1 + x \in 1 .. (n + 1 + v)
        BY <1>1
      <4> QED BY <1>2, <2>2, <4>1
    <3>2. n + 2 \in Nat \ {0} /\ Len(line) \in Nat /\ n + 2 <= Len(line) + 1
          /\ Len(c) = Len(line) - (n + 2) + 1 /\ Len(line) <= Len(line)
      BY <1>1, <2>1
    <3>3. SubSeq(line, n + 2, Len(line)) = c
      BY <1>1, <2>1, <3>1, <3>2, SliceIs
    <3>4. (n + 1) + 1 = n + 2
      BY <1>1
    <3> QED BY <3>3, <3>4, Zenon
  <2>8. line # <<>> /\ Len(line) + 1 = m
    BY <1>1, <2>1
  <2> QED BY <2>5, <2>6, <2>7, <2>8, Zenon
<1> HIDE DEF line, m
<1> QED BY <1>2, <1>8, <1>9, Zenon DEF a, c, line

LEMMA BinaryLine ==
    ASSUME NEW buf \in Seq(Octet), NEW f \in JournalField, NEW z \in Seq(Octet),
           BinaryShape(f, z), Fits(buf, z)
    PROVE  LET line == SubSeq(buf, 1, IndexByte(buf, NewLine) - 1)
               need == Len(line) + 1 + SizeBytes
               size == Uint(SubSeq(buf, Len(line) + 2, need))
           IN /\ Len(z) <= Len(buf) => NewLine \in ToSet(buf)
              /\ NewLine \in ToSet(buf) =>
                    /\ line = f.name /\ line # <<>> /\ Equals \notin ToSet(line)
                    /\ Len(z) = need + Len(f.value) + 1
                    /\ need <= Len(buf) => size = Len(f.value)
                    /\ Len(z) <= Len(buf) => SubSeq(buf, need + 1, need + Len(f.value)) = f.value
<1> DEFINE a == f.name  c == f.value  n == Len(a)  v == Len(c)  m == n + 1
           line == SubSeq(buf, 1, m - 1)  l == LittleEndian(v)  need == n + 1 + SizeBytes
<1>1. /\ a \in Seq(Octet) /\ c \in Seq(Octet) /\ n \in Nat \ {0} /\ v \in Nat
      /\ \A x \in 1 .. n : a[x] # Equals /\ a[x] # NewLine
      /\ Shifted(v)[SizeBytes] = 0
  BY FieldParts
<1>2. /\ Len(z) = n + 1 + SizeBytes + v + 1 /\ z[n + 1] = NewLine
      /\ \A x \in 1 .. n : z[x] = a[x]
      /\ \A x \in 1 .. SizeBytes : z[n + 1 + x] = l[x]
      /\ \A x \in 1 .. v : z[n + 1 + SizeBytes + x] = c[x]
  BY Zenon DEF BinaryShape
<1>3. Len(buf) \in Nat /\ SizeBytes \in Nat \ {0}
  BY LenProperties, JournalAssumption
<1>4. l \in Seq(Octet) /\ Len(l) = SizeBytes /\ Uint(l) = v
  <2>1. v \in Nat /\ Shifted(v)[SizeBytes] = 0
    BY <1>1
  <2> QED BY <2>1, LittleEndianIs, SizeRead
<1> HIDE DEF a, c, l
<1>5. \A x \in 1 .. (n + 1 + SizeBytes + v + 1) : x <= Len(buf) => buf[x] = z[x]
  BY <1>2, Zenon DEF Fits
<1>6. m \in Nat \ {0} /\ m - 1 = n
  BY <1>1
<1>7. /\ NewLine \in ToSet(buf) => m <= Len(buf)
      /\ m <= Len(buf) => /\ NewLine \in ToSet(buf)
                          /\ IndexByte(buf, NewLine) = m
                          /\ SubSeq(buf, 1, IndexByte(buf, NewLine) - 1) = line
  <2>1. \A x \in 1 .. (m - 1) : x <= Len(buf) => buf[x] # NewLine
    <3>1. \A x \in 1 .. (m - 1) : x \in 1 .. n /\ x \in 1 .. (n + 1 + SizeBytes + v + 1)
      BY <1>1, <1>3
    <3> QED BY <1>1, <1>2, <1>5, <3>1, SMTT(60)
  <2>2. m <= Len(buf) => buf[m] = NewLine
    <3>1. m \in 1 .. (n + 1 + SizeBytes + v + 1)
      BY <1>1, <1>3
    <3> QED BY <1>2, <1>5, <3>1, Zenon
  <2> HIDE DEF m
  <2> QED BY <1>6, <2>1, <2>2, FirstLine
<1>8. ASSUME m <= Len(buf) PROVE line = a
  <2>1. \A x \in 1 .. n : buf[1 - 1 + x] = a[x]
    <3>1. \A x \in 1 .. n : x \in 1 .. (n + 1 + SizeBytes + v + 1) /\ 1 - 1 + x = x /\ x <= Len(buf)
      BY <1>1, <1>3, <1>8
    <3> QED BY <1>2, <1>5, <3>1
  <2>2. 1 \in Nat \ {0} /\ n \in Nat /\ 1 <= n + 1 /\ n <= Len(buf) /\ Len(a) = n - 1 + 1
    BY <1>1, <1>3, <1>8
  <2>3. SubSeq(buf, 1, n) = a
    BY <1>1, <2>1, <2>2, SliceIs
  <2> QED BY <1>6, <2>3, Zenon
<1>9. ASSUME m <= Len(buf), need <= Len(buf)
      PROVE  Uint(SubSeq(buf, n + 2, need)) = v
  <2>1. \A x \in 1 .. Len(l) : buf[(n + 2) - 1 + x] = l[x]
    <3>1. \A x \in 1 .. SizeBytes : /\ (n + 2) - 1 + x = n + 1 + x
                                    /\ n + 1 + x \in 1 .. (n + 1 + SizeBytes + v + 1)
                                    /\ n + 1 + x <= Len(buf)
      BY <1>1, <1>3, <1>9
    <3> QED BY <1>2, <1>4, <1>5, <3>1
  <2>2. n + 2 \in Nat \ {0} /\ need \in Nat /\ n + 2 <= need + 1 /\ need <= Len(buf)
        /\ Len(l) = need - (n + 2) + 1
    BY <1>1, <1>3, <1>4, <1>9
  <2>3. SubSeq(buf, n + 2, need) = l
    <3> HIDE DEF need
    <3> QED BY <1>4, <2>1, <2>2, SliceIs
  <2> QED BY <1>4, <2>3, Zenon
<1>10. ASSUME n + 1 + SizeBytes + v + 1 <= Len(buf)
       PROVE  SubSeq(buf, need + 1, need + v) = c
  <2>1. \A x \in 1 .. Len(c) : buf[(need + 1) - 1 + x] = c[x]
    <3>1. \A x \in 1 .. v : /\ (need + 1) - 1 + x = n + 1 + SizeBytes + x
                            /\ n + 1 + SizeBytes + x \in 1 .. (n + 1 + SizeBytes + v + 1)
                            /\ n + 1 + SizeBytes + x <= Len(buf)
      BY <1>1, <1>3, <1>10
    <3> QED BY <1>2, <1>5, <3>1
  <2>2. need + 1 \in Nat \ {0} /\ need + v \in Nat /\ need + 1 <= (need + v) + 1 /\ need + v <= Len(buf)
        /\ Len(c) = (need + v) - (need + 1) + 1
    BY <1>1, <1>3, <1>10
  <2> HIDE DEF need
  <2> QED BY <1>1, <2>1, <2>2, SliceIs, SMTT(60)
<1>11. a # <<>> /\ Equals \notin ToSet(a)
  <2>1. a # <<>>
    BY <1>1
  <2>2. \A x \in DOMAIN a : a[x] # Equals
    BY <1>1
  <2> QED BY <2>1, <2>2 DEF ToSet
<1>12. Len(z) <= Len(buf) => m <= Len(buf) /\ n + 1 + SizeBytes + v + 1 <= Len(buf)
  BY <1>1, <1>2, <1>3
<1>13. ASSUME m <= Len(buf)
       PROVE  LET line1 == SubSeq(buf, 1, IndexByte(buf, NewLine) - 1)
                  need1 == Len(line1) + 1 + SizeBytes
                  size1 == Uint(SubSeq(buf, Len(line1) + 2, need1))
              IN /\ line1 = a /\ line1 # <<>> /\ Equals \notin ToSet(line1)
                 /\ Len(z) = need1 + v + 1
                 /\ need1 <= Len(buf) => size1 = v
                 /\ Len(z) <= Len(buf) => SubSeq(buf, need1 + 1, need1 + v) = c
  <2>1. SubSeq(buf, 1, IndexByte(buf, NewLine) - 1) = a
    BY <1>7, <1>8, <1>13, Zenon
  <2>2. need <= Len(buf) => Uint(SubSeq(buf, n + 2, need)) = v
    BY <1>9, <1>13, Zenon
  <2>3. Len(z) <= Len(buf) => SubSeq(buf, need + 1, need + v) = c
    BY <1>10, <1>12, Zenon
  <2> QED BY <1>2, <1>11, <2>1, <2>2, <2>3, Zenon
<1> HIDE DEF m, line
<1> QED BY <1>7, <1>12, <1>13, Zenon DEF a, c

LEMMA EmptyLine ==
    ASSUME NEW buf \in Seq(Octet), Fits(buf, <<NewLine>>)
    PROVE  /\ NewLine \in ToSet(buf) <=> 1 <= Len(buf)
           /\ NewLine \in ToSet(buf) => SubSeq(buf, 1, IndexByte(buf, NewLine) - 1) = <<>>
<1>1. Len(buf) \in Nat
  BY LenProperties
<1>2. 1 <= Len(buf) => buf[1] = NewLine
  BY DEF Fits
<1>3. 1 \in Nat \ {0} /\ \A x \in 1 .. (1 - 1) : x <= Len(buf) => buf[x] # NewLine
  OBVIOUS
<1>4. /\ NewLine \in ToSet(buf) => 1 <= Len(buf)
      /\ 1 <= Len(buf) => /\ NewLine \in ToSet(buf)
                          /\ SubSeq(buf, 1, IndexByte(buf, NewLine) - 1) = SubSeq(buf, 1, 1 - 1)
  BY <1>2, <1>3, FirstLine
<1>5. SubSeq(buf, 1, 1 - 1) = <<>>
  BY SubSeqEmpty
<1> QED BY <1>4, <1>5, Zenon

-----------------------------------------------------------------------------
(* The fields of an entry, and the entries due *)

\* The last field of p with the name n is field i.
IsLastOf(p, n, i) == p[i].name = n /\ \A j \in i + 1 .. Len(p) : p[j].name # n

LEMMA LastExists ==
    ASSUME NEW T, NEW p \in Seq(T), NEW n, NEW i \in 1 .. Len(p), p[i].name = n
    PROVE  \E x \in 1 .. Len(p) : IsLastOf(p, n, x)
<1> DEFINE len == Len(p)
           Has(d) == \E x \in (len - d + 1) .. len : p[x].name = n
           U == {d \in 0 .. len : Has(d) => \E x \in 1 .. len : IsLastOf(p, n, x)}
<1>1. len \in Nat
  BY LenProperties
<1>2. 0 \in U
  <2>1. ~Has(0)
    BY <1>1
  <2>2. 0 \in 0 .. len
    BY <1>1
  <2> HIDE DEF Has
  <2> QED BY <2>1, <2>2
<1>3. ASSUME NEW d \in 1 .. len, d - 1 \in U PROVE d \in U
  <2> DEFINE y == len - d + 1
  <2>1. y \in 1 .. len /\ len - (d - 1) + 1 = y + 1 /\ d \in 0 .. len
    BY <1>1
  <2>2. CASE Has(d - 1)
    <3> HIDE DEF Has
    <3> QED BY <1>3, <2>1, <2>2
  <2>3. CASE ~Has(d - 1) /\ Has(d)
    <3>1. \A x \in (y + 1) .. len : p[x].name # n
      BY <2>1, <2>3
    <3>2. PICK x \in y .. len : p[x].name = n
      BY <2>3
    <3>3. x = y
      <4>1. x \notin (y + 1) .. len
        BY <3>1, <3>2, Zenon
      <4>2. y \in Int /\ x \in y .. len
        BY <2>1, <3>2
      <4> HIDE DEF y
      <4> QED BY <1>1, <4>1, <4>2
    <3>4. IsLastOf(p, n, y)
      BY <3>1, <3>2, <3>3, Zenon DEF IsLastOf
    <3> HIDE DEF Has, y
    <3> QED BY <2>1, <3>4
  <2>4. CASE ~Has(d)
    <3> HIDE DEF Has
    <3> QED BY <2>1, <2>4
  <2> HIDE DEF Has
  <2> QED BY <2>2, <2>3, <2>4
<1>4. len \in U
  <2>1. len \in 0 .. len
    BY <1>1
  <2> HIDE DEF U
  <2> QED BY <1>1, <1>2, <1>3, <2>1, Induction
<1>5. Has(len)
  <2>1. i \in (len - len + 1) .. len
    BY <1>1
  <2> QED BY <2>1
<1> QED BY <1>4, <1>5

LEMMA LastUnique ==
    ASSUME NEW T, NEW p \in Seq(T), NEW n, NEW x \in 1 .. Len(p), NEW y \in 1 .. Len(p),
           IsLastOf(p, n, x), IsLastOf(p, n, y)
    PROVE  x = y
<1>1. Len(p) \in Nat
  BY LenProperties
<1>2. ~(x < y)
  BY <1>1 DEF IsLastOf
<1>3. ~(y < x)
  BY <1>1 DEF IsLastOf
<1> QED BY <1>1, <1>2, <1>3

\* A name of p is given the value of its last field.
LEMMA FieldsOfAt ==
    ASSUME NEW T, NEW p \in Seq(T), NEW i \in 1 .. Len(p), IsLastOf(p, p[i].name, i)
    PROVE  p[i].name \in DOMAIN FieldsOf(p) /\ FieldsOf(p)[p[i].name] = p[i].value
<1> DEFINE names == {p[k].name : k \in DOMAIN p}
           Chosen(n) == CHOOSE k \in DOMAIN p : p[k].name = n /\ \A j \in k + 1 .. Len(p) : p[j].name # n
           n == p[i].name
<1>1. DOMAIN p = 1 .. Len(p)
  OBVIOUS
<1>2. FieldsOf(p) = [m \in names |-> p[Chosen(m)].value]
  BY Zenon DEF FieldsOf
<1>3. n \in names
  BY <1>1
<1>4. Chosen(n) = i
  <2>1. i \in DOMAIN p /\ n = p[i].name /\ \A j \in i + 1 .. Len(p) : p[j].name # n
    BY <1>1, Zenon DEF IsLastOf
  <2> HIDE DEF n
  <2>2. Chosen(n) \in DOMAIN p /\ p[Chosen(n)].name = n /\ \A j \in Chosen(n) + 1 .. Len(p) : p[j].name # n
    BY <2>1, Zenon
  <2>3. IsLastOf(p, n, Chosen(n)) /\ IsLastOf(p, n, i)
    BY <2>1, <2>2, Zenon DEF IsLastOf
  <2>4. Chosen(n) \in 1 .. Len(p)
    BY <1>1, <2>2, Zenon
  <2> HIDE DEF Chosen
  <2> QED BY <2>3, <2>4, LastUnique
<1> HIDE DEF names, Chosen, n
<1>5. n \in DOMAIN FieldsOf(p) /\ FieldsOf(p)[n] = p[i].value
  BY <1>2, <1>3, <1>4, Zenon
<1> QED BY <1>5 DEF n

LEMMA FieldsOfDomain ==
    ASSUME NEW T, NEW p \in Seq(T)
    PROVE  /\ DOMAIN FieldsOf(p) = {p[k].name : k \in 1 .. Len(p)}
           /\ FieldsOf(p) = [n \in DOMAIN FieldsOf(p) |-> FieldsOf(p)[n]]
<1>1. DOMAIN p = 1 .. Len(p)
  OBVIOUS
<1> DEFINE names == {p[k].name : k \in DOMAIN p}
           Value(n) == p[CHOOSE k \in DOMAIN p : p[k].name = n /\ \A j \in k + 1 .. Len(p) : p[j].name # n].value
<1>2. DOMAIN FieldsOf(p) = {p[k].name : k \in DOMAIN p}
      /\ FieldsOf(p) = [n \in DOMAIN FieldsOf(p) |-> FieldsOf(p)[n]]
  <2>1. FieldsOf(p) = [n \in names |-> Value(n)]
    BY Zenon DEF FieldsOf
  <2> HIDE DEF Value
  <2>2. DOMAIN FieldsOf(p) = names /\ FieldsOf(p) = [n \in DOMAIN FieldsOf(p) |-> FieldsOf(p)[n]]
    <3> DEFINE F == [n \in names |-> Value(n)]
    <3>1. DOMAIN F = names /\ F = [n \in DOMAIN F |-> F[n]]
      <4> HIDE DEF names
      <4> QED OBVIOUS
    <3> QED BY <2>1, <3>1, Zenon
  <2> QED BY <2>2
<1> QED BY <1>1, <1>2, Zenon

LEMMA FieldsOfNone == FieldsOf(<<>>) = NoFields
<1> DEFINE F == FieldsOf(<<>>)
<1>1. DOMAIN F = {<<>>[k].name : k \in 1 .. Len(<<>>)} /\ F = [n \in DOMAIN F |-> F[n]]
  <2>1. <<>> \in Seq({})
    OBVIOUS
  <2> QED BY <2>1, FieldsOfDomain, Zenon
<1> HIDE DEF F
<1>2. DOMAIN F = {}
  <2>1. 1 .. Len(<<>>) = {}
    OBVIOUS
  <2> QED BY <1>1, <2>1, Zenon
<1>3. F = NoFields
  <2>1. F = [n \in {} |-> F[n]]
    BY <1>1, <1>2, Zenon
  <2>2. [n \in {} |-> F[n]] = [n \in {} |-> <<>>]
    OBVIOUS
  <2> QED BY <2>1, <2>2, Zenon DEF NoFields
<1> QED BY <1>3 DEF F

WithValue(F, name, value) ==
    [n \in DOMAIN F \cup {name} |-> IF n = name THEN value ELSE F[n]]

\* One more field.
LEMMA FieldsOfMore ==
    ASSUME NEW T, NEW e \in Seq(T), NEW j \in 0 .. Len(e), j < Len(e)
    PROVE  FieldsOf(SubSeq(e, 1, j + 1))
             = WithValue(FieldsOf(SubSeq(e, 1, j)), e[j + 1].name, e[j + 1].value)
<1> DEFINE p == SubSeq(e, 1, j)  q == SubSeq(e, 1, j + 1)  name == e[j + 1].name
           P == FieldsOf(p)  Q == FieldsOf(q)
<1>1. Len(e) \in Nat /\ j \in Nat
  BY LenProperties
<1>2. p \in Seq(T) /\ Len(p) = j /\ \A x \in 1 .. j : p[x] = e[x]
  <2>1. p \in Seq(T) /\ Len(p) = j - 1 + 1 /\ \A x \in 1 .. (j - 1 + 1) : p[x] = e[1 - 1 + x]
    <3>1. 1 \in Nat \ {0} /\ 1 <= j + 1 /\ j <= Len(e) /\ j \in Nat
      BY <1>1
    <3> QED BY <3>1, Slice
  <2>2. j - 1 + 1 = j /\ \A x \in 1 .. j : 1 - 1 + x = x
    BY <1>1
  <2> HIDE DEF p
  <2> QED BY <2>1, <2>2
<1>3. q \in Seq(T) /\ Len(q) = j + 1 /\ \A x \in 1 .. (j + 1) : q[x] = e[x]
  <2>1. q \in Seq(T) /\ Len(q) = (j + 1) - 1 + 1 /\ \A x \in 1 .. ((j + 1) - 1 + 1) : q[x] = e[1 - 1 + x]
    <3>1. 1 \in Nat \ {0} /\ 1 <= (j + 1) + 1 /\ j + 1 <= Len(e) /\ j + 1 \in Nat
      BY <1>1
    <3> QED BY <3>1, Slice
  <2>2. (j + 1) - 1 + 1 = j + 1 /\ \A x \in 1 .. (j + 1) : 1 - 1 + x = x
    BY <1>1
  <2> HIDE DEF q
  <2> QED BY <2>1, <2>2
<1> HIDE DEF p, q
<1>4. DOMAIN P = {p[k].name : k \in 1 .. j} /\ DOMAIN Q = {q[k].name : k \in 1 .. (j + 1)}
      /\ Q = [n \in DOMAIN Q |-> Q[n]]
  BY <1>2, <1>3, FieldsOfDomain, Zenon
<1>5. DOMAIN Q = DOMAIN P \cup {name}
  <2>1. \A k \in 1 .. j : k \in 1 .. (j + 1) /\ q[k] = p[k]
    BY <1>1, <1>2, <1>3
  <2>2. j + 1 \in 1 .. (j + 1) /\ q[j + 1].name = name
    BY <1>1, <1>3
  <2>3. \A k \in 1 .. (j + 1) : k \in 1 .. j \/ k = j + 1
    BY <1>1
  <2> HIDE DEF name, P, Q
  <2> QED BY <1>4, <2>1, <2>2, <2>3, Zenon
<1>6. Q[name] = e[j + 1].value
  <2>1. j + 1 \in 1 .. Len(q) /\ q[j + 1] = e[j + 1] /\ \A x \in (j + 1) + 1 .. Len(q) : q[x].name # name
    BY <1>1, <1>3
  <2>2. IsLastOf(q, q[j + 1].name, j + 1)
    BY <2>1, Zenon DEF IsLastOf
  <2>3. Q[q[j + 1].name] = q[j + 1].value
    BY <1>3, <2>1, <2>2, FieldsOfAt, Zenon
  <2> QED BY <2>1, <2>3, Zenon
<1>7. ASSUME NEW n \in DOMAIN P, n # name PROVE Q[n] = P[n]
  <2>1. PICK k \in 1 .. j : p[k].name = n
    BY <1>4
  <2>2. PICK i \in 1 .. Len(p) : IsLastOf(p, n, i)
    <3>1. k \in 1 .. Len(p)
      BY <1>2, <2>1, Zenon
    <3> QED BY <1>2, <2>1, <3>1, LastExists
  <2>3. p[i].name = n /\ \A x \in i + 1 .. Len(p) : p[x].name # n
    BY <2>2, Zenon DEF IsLastOf
  <2>4. i \in 1 .. Len(q) /\ q[i] = p[i]
    BY <1>1, <1>2, <1>3
  <2>5. \A x \in i + 1 .. Len(q) : q[x].name # n
    <3> SUFFICES ASSUME NEW x \in i + 1 .. Len(q) PROVE q[x].name # n
      OBVIOUS
    <3>1. CASE x = j + 1
      <4>1. q[x] = e[x]
        BY <1>1, <1>3, <3>1
      <4> QED BY <1>7, <3>1, <4>1, Zenon
    <3>2. CASE x # j + 1
      <4>1. x \in i + 1 .. Len(p) /\ q[x] = p[x]
        BY <1>1, <1>2, <1>3, <3>2
      <4> QED BY <2>3, <4>1, Zenon
    <3> QED BY <3>1, <3>2
  <2>6. IsLastOf(p, p[i].name, i) /\ IsLastOf(q, q[i].name, i)
    BY <2>2, <2>3, <2>4, <2>5, Zenon DEF IsLastOf
  <2>7. P[p[i].name] = p[i].value
    BY <1>2, <2>6, FieldsOfAt, Zenon
  <2>8. Q[q[i].name] = q[i].value
    BY <1>3, <2>4, <2>6, FieldsOfAt, Zenon
  <2> QED BY <2>3, <2>4, <2>7, <2>8, Zenon
<1> DEFINE W == WithValue(P, name, e[j + 1].value)
<1>8. W = [n \in DOMAIN P \cup {name} |-> IF n = name THEN e[j + 1].value ELSE P[n]]
  BY Zenon DEF WithValue
<1> HIDE DEF P, Q, name
<1>9. ASSUME NEW n \in DOMAIN P \cup {name} PROVE Q[n] = IF n = name THEN e[j + 1].value ELSE P[n]
  BY <1>6, <1>7, Zenon
<1>10. Q = [n \in DOMAIN P \cup {name} |-> IF n = name THEN e[j + 1].value ELSE P[n]]
  BY <1>4, <1>5, <1>9, Zenon
<1>11. Q = W
  BY <1>8, <1>10, Zenon
<1> QED BY <1>11 DEF P, Q, p, q, name

RecordsBy(f, es) ==
    f = [i \in 0 .. Len(es) |-> IF i = 0 THEN <<>> ELSE AndRecord(f[i - 1], es[i])]

LEMMA RecordsOfIs ==
    ASSUME NEW S, NEW es \in Seq(S)
    PROVE  /\ RecordsOf(es)[0] = <<>>
           /\ \A i \in 1 .. Len(es) :
                 RecordsOf(es)[i] = AndRecord(RecordsOf(es)[i - 1], es[i])
<1> DEFINE n == Len(es)
           Is(g, k) == DOMAIN g = 0 .. k /\ g[0] = <<>> /\ \A i \in 1 .. k : g[i] = AndRecord(g[i - 1], es[i])
           T == {k \in 0 .. n : \E g : Is(g, k)}
           f == RecordsOf(es)
<1>1. n \in Nat
  OBVIOUS
<1>2. 0 \in T
  <2>1. Is([i \in 0 .. 0 |-> <<>>], 0)
    OBVIOUS
  <2>2. \E g : Is(g, 0)
    <3> HIDE DEF Is
    <3> QED BY <2>1
  <2> QED BY <1>1, <2>2
<1>3. ASSUME NEW k \in 1 .. n, k - 1 \in T PROVE k \in T
  <2>1. PICK g : Is(g, k - 1)
    <3> HIDE DEF Is
    <3> QED BY <1>3
  <2> DEFINE h == [i \in 0 .. k |-> IF i = k THEN AndRecord(g[k - 1], es[k]) ELSE g[i]]
  <2>2. k \in Nat /\ k # 0 /\ k \in 0 .. n
    BY <1>1
  <2>3. DOMAIN h = 0 .. k /\ h[0] = <<>>
    BY <2>1, <2>2
  <2>4. ASSUME NEW i \in 1 .. k PROVE h[i] = AndRecord(h[i - 1], es[i])
    <3>1. CASE i = k
      <4>1. h[i] = AndRecord(g[k - 1], es[k]) /\ h[i - 1] = g[i - 1]
        BY <3>1, <2>2
      <4> HIDE DEF h
      <4> QED BY <3>1, <4>1
    <3>2. CASE i # k
      <4>1. i \in 1 .. (k - 1) /\ i - 1 \in 0 .. k /\ i - 1 # k /\ i \in 0 .. k
        BY <3>2
      <4>2. h[i] = g[i] /\ h[i - 1] = g[i - 1]
        BY <3>2, <4>1
      <4>3. g[i] = AndRecord(g[i - 1], es[i])
        BY <2>1, <4>1
      <4> HIDE DEF h
      <4> QED BY <4>2, <4>3
    <3> QED BY <3>1, <3>2
  <2>5. Is(h, k)
    <3> HIDE DEF h
    <3> QED BY <2>3, <2>4
  <2>6. \E g_1 : Is(g_1, k)
    <3> HIDE DEF Is, h
    <3> QED BY <2>5
  <2> HIDE DEF Is
  <2> QED BY <2>2, <2>6
<1>4. PICK g : Is(g, n)
  <2>1. 0 .. n \subseteq T
    <3> HIDE DEF T, n
    <3> QED BY <1>1, <1>2, <1>3, Induction
  <2>2. n \in T
    <3> HIDE DEF T
    <3> QED BY <1>1, <2>1
  <2> HIDE DEF Is
  <2> QED BY <2>2
<1> DEFINE g0 == [i \in 0 .. n |-> g[i]]
<1>5. RecordsBy(g0, es)
  <2>1. ASSUME NEW i \in 0 .. n PROVE g0[i] = IF i = 0 THEN <<>> ELSE AndRecord(g0[i - 1], es[i])
    <3>1. CASE i = 0
      BY <1>1, <1>4, <3>1
    <3>2. CASE i # 0
      <4>1. i \in 1 .. n /\ i - 1 \in 0 .. n
        BY <1>1, <3>2
      <4>2. g0[i] = g[i] /\ g0[i - 1] = g[i - 1]
        BY <4>1
      <4>3. g[i] = AndRecord(g[i - 1], es[i])
        BY <1>4, <4>1
      <4> HIDE DEF g0
      <4> QED BY <3>2, <4>2, <4>3
    <3> QED BY <3>1, <3>2
  <2>2. g0 = [i \in 0 .. n |-> g0[i]]
    OBVIOUS
  <2> HIDE DEF g0
  <2>3. g0 = [i \in 0 .. n |-> IF i = 0 THEN <<>> ELSE AndRecord(g0[i - 1], es[i])]
    BY <2>1, <2>2
  <2> QED BY <2>3, Zenon DEF RecordsBy
<1>6. f = [i \in 0 .. n |-> IF i = 0 THEN <<>> ELSE AndRecord(f[i - 1], es[i])]
  <2>1. f = CHOOSE h : RecordsBy(h, es)
    BY Zenon DEF RecordsOf, RecordsBy
  <2>2. RecordsBy(f, es)
    <3> HIDE DEF f, g0
    <3> QED BY <1>5, <2>1, Zenon
  <2> QED BY <2>2, Zenon DEF RecordsBy
<1>7. f[0] = <<>>
  <2> HIDE DEF f
  <2> QED BY <1>1, <1>6
<1>8. ASSUME NEW i \in 1 .. n PROVE f[i] = AndRecord(f[i - 1], es[i])
  <2>1. i \in 0 .. n /\ i # 0
    OBVIOUS
  <2> HIDE DEF f, n
  <2> QED BY <1>6, <2>1
<1> QED BY <1>7, <1>8

-----------------------------------------------------------------------------
(* One step of feed *)

LineOf(buf) == SubSeq(buf, 1, IndexByte(buf, NewLine) - 1)

Facing(s, k, j, d, p) ==
    /\ k \in 0 .. Len(Journal[s]) /\ j \in 0 .. Len(Under(s, k)) /\ Len(Journal[s]) \in Nat
    /\ At(s, k, j) \in Nat /\ At(s, k, j) <= p
    /\ d.buf = SubSeq(Stream(s), At(s, k, j) + 1, p)
    /\ d.buf \in Seq(Octet) /\ Len(d.buf) = p - At(s, k, j)
    /\ k < Len(Journal[s]) => Fits(d.buf, Item(s, k, j)) /\ Len(Item(s, k, j)) \in Nat \ {0}
    /\ k = Len(Journal[s]) => d.buf = <<>>

\* What the buffer holds is the item that follows, or the beginning of it.
LEMMA Faced ==
    ASSUME NEW s \in Sources, NEW k, NEW j, NEW d, NEW p \in Nat, NEW r,
           Stands(s, k, j, d, p, r), p <= Len(Stream(s))
    PROVE  Facing(s, k, j, d, p)
<1> DEFINE w == Stream(s)  a == At(s, k, j)  b == SubSeq(w, a + 1, p)  z == Item(s, k, j)
           n == Len(Journal[s])
<1>1. k \in 0 .. n /\ j \in 0 .. Len(Under(s, k)) /\ a <= p /\ d.buf = b
  BY DEF Stands
<1>2. n \in Nat /\ w \in Seq(Octet)
  BY SourceStream
<1>3. k < n \/ k = n
  BY <1>1, <1>2
<1>4. ASSUME k < n
      PROVE  /\ a \in Nat /\ z \in Seq(Octet) /\ Len(z) \in Nat \ {0}
             /\ \A x \in 1 .. Len(z) : w[a + x] = z[x]
  BY <1>1, <1>4, Place
<1>5. ASSUME k = n PROVE a = Len(w) /\ a \in Nat
  <2>1. Under(s, k) = <<>> /\ At(s, k, 0) = Len(w) /\ EndOf(s, k) \in Nat /\ At(s, k, 0) = EndOf(s, k)
    BY <1>1, <1>5, PlaceBetween
  <2>2. j \in 0 .. 0
    <3>1. Len(<<>>) = 0
      OBVIOUS
    <3> QED BY <1>1, <2>1, <3>1, Zenon
  <2>3. j = 0
    BY <2>2
  <2> QED BY <2>1, <2>3, Zenon
<1>6. a \in Nat
  BY <1>3, <1>4, <1>5
<1> HIDE DEF w, a, z
<1>7. b \in Seq(Octet) /\ Len(b) = p - (a + 1) + 1
      /\ \A x \in 1 .. (p - (a + 1) + 1) : b[x] = w[(a + 1) - 1 + x]
  <2>1. a + 1 \in Nat \ {0} /\ a + 1 <= p + 1 /\ p <= Len(w)
    BY <1>1, <1>6 DEF w
  <2> QED BY <1>2, <2>1, Slice
<1> HIDE DEF b
<1>8. Len(b) = p - a
  BY <1>6, <1>7
<1>9. ASSUME k < n PROVE Fits(b, z)
  <2>1. ASSUME NEW x \in 1 .. Len(z), x <= Len(b) PROVE b[x] = z[x]
    <3>1. Len(z) \in Nat
      BY <1>4, <1>9
    <3>2. x \in 1 .. (p - (a + 1) + 1) /\ (a + 1) - 1 + x = a + x
      BY <1>6, <1>8, <2>1, <3>1
    <3>3. b[x] = w[a + x]
      BY <1>7, <3>2
    <3> QED BY <1>4, <1>9, <3>3
  <2> QED BY <2>1 DEF Fits
<1>10. ASSUME k = n PROVE b = <<>>
  <2>1. Len(b) = 0
    BY <1>1, <1>5, <1>6, <1>8, <1>10 DEF w
  <2> QED BY <1>7, <2>1
<1> QED BY <1>1, <1>2, <1>4, <1>6, <1>7, <1>8, <1>9, <1>10, Zenon DEF Facing, w, a, b, z

\* A datagram puts its bytes behind those the decoder holds.
LEMMA Arrives ==
    ASSUME NEW s \in Sources, NEW k, NEW j, NEW d, NEW p \in Nat, NEW r, NEW n \in Nat,
           Stands(s, k, j, d, p, r), p + n <= Len(Stream(s))
    PROVE  Stands(s, k, j, [d EXCEPT !.buf = d.buf \o SubSeq(Stream(s), p + 1, p + n)], p + n, r)
<1> DEFINE w == Stream(s)  a == At(s, k, j)  f == FieldsOf(SubSeq(Under(s, k), 1, j))
<1>1. w \in Seq(Octet) /\ Len(w) \in Nat
  BY SourceStream, LenProperties
<1>2. p <= Len(w)
  BY <1>1
<1>3. a \in Nat /\ a <= p /\ d.buf = SubSeq(w, a + 1, p)
  <2>1. Facing(s, k, j, d, p)
    BY <1>2, Faced, Zenon
  <2> QED BY <2>1 DEF Facing
<1>4. d = [buf |-> SubSeq(w, a + 1, p), fields |-> f]
  BY Zenon DEF Stands
<1>5. SubSeq(w, a + 1, p) \o SubSeq(w, p + 1, p + n) = SubSeq(w, a + 1, p + n)
  <2> HIDE DEF w, a
  <2>1. a + 1 \in 1 .. Len(w) + 1 /\ p \in (a + 1) - 1 .. Len(w) /\ p + n \in p .. Len(w)
    BY <1>1, <1>2, <1>3 DEF w
  <2> QED BY <1>1, <2>1, ConcatAdjacentSubSeq
<1>6. [d EXCEPT !.buf = d.buf \o SubSeq(w, p + 1, p + n)] = [buf |-> SubSeq(w, a + 1, p + n), fields |-> f]
  <2> DEFINE b == SubSeq(w, a + 1, p)  c == SubSeq(w, a + 1, p + n)  e == SubSeq(w, p + 1, p + n)
  <2>1. d = [buf |-> b, fields |-> f] /\ d.buf \o e = c
    BY <1>3, <1>4, <1>5, Zenon
  <2> HIDE DEF b, c, e, f
  <2>2. [[buf |-> b, fields |-> f] EXCEPT !.buf = c] = [buf |-> c, fields |-> f]
    OBVIOUS
  <2>3. [d EXCEPT !.buf = d.buf \o e] = [buf |-> c, fields |-> f]
    BY <2>1, <2>2, Zenon
  <2> QED BY <2>3, Zenon DEF c, e
<1>7. a <= p + n
  BY <1>3
<1> QED BY <1>6, <1>7, Zenon DEF Stands

\* A whole item is taken from the buffer.
LEMMA Advance ==
    ASSUME NEW s \in Sources, NEW k, NEW j, NEW d, NEW p \in Nat, NEW r,
           Stands(s, k, j, d, p, r), p <= Len(Stream(s)),
           k < Len(Journal[s]), Len(Item(s, k, j)) <= Len(d.buf)
    PROVE  LET e == Under(s, k)
               rest == SubSeq(d.buf, Len(Item(s, k, j)) + 1, Len(d.buf))
           IN /\ j < Len(e) =>
                    Stands(s, k, j + 1, [buf |-> rest, fields |-> WithValue(d.fields, e[j + 1].name, e[j + 1].value)],
                           p, r)
              /\ j = Len(e) =>
                    Stands(s, k + 1, 0, [buf |-> rest, fields |-> NoFields],
                           p, IF HasMessage(d.fields) THEN Append(r, EntryFromJournal(d.fields)) ELSE r)
<1> DEFINE w == Stream(s)  a == At(s, k, j)  z == Item(s, k, j)  e == Under(s, k)  J == Journal[s]
           rest == SubSeq(d.buf, Len(z) + 1, Len(d.buf))  l == Len(z)
<1>1. /\ k \in 0 .. Len(J) /\ j \in 0 .. Len(e) /\ Len(J) \in Nat /\ a \in Nat /\ a <= p
      /\ d.buf = SubSeq(w, a + 1, p) /\ Len(d.buf) = p - a /\ l \in Nat \ {0}
  <2>1. Facing(s, k, j, d, p)
    BY Faced, Zenon
  <2> QED BY <2>1 DEF Facing
<1>2. /\ e = J[k + 1] /\ e \in Seq(JournalField) /\ Len(e) \in Nat
      /\ j < Len(e) => At(s, k, j + 1) = a + l
      /\ j = Len(e) => EndOf(s, k + 1) = a + l
  BY <1>1, Place
<1>3. d.fields = FieldsOf(SubSeq(e, 1, j)) /\ r = RecordsOf(J)[k]
  BY DEF Stands
<1>4. w \in Seq(Octet) /\ Len(w) \in Nat /\ J \in Seq(Seq(JournalField))
  BY SourceStream, LenProperties
<1>5. rest = SubSeq(w, a + l + 1, p) /\ a + l <= p
  <2> DEFINE b == SubSeq(w, a + 1, p)
  <2>1. l \in Nat /\ l <= p - a /\ a + l <= p /\ p <= Len(w)
    BY <1>1
  <2>2. SubSeq(b, l + 1, Len(b)) = SubSeq(w, a + l + 1, p)
    <3> HIDE DEF w, a, l
    <3> QED BY <1>1, <1>4, <2>1, SliceRest
  <2>3. b = d.buf
    BY <1>1
  <2> HIDE DEF b, a, l, w
  <2> QED BY <2>1, <2>2, <2>3, Zenon DEF l
<1> HIDE DEF rest, l, a, z, w
<1>6. ASSUME j < Len(e)
      PROVE  Stands(s, k, j + 1, [buf |-> rest, fields |-> WithValue(d.fields, e[j + 1].name, e[j + 1].value)], p, r)
  <2>1. j + 1 \in 0 .. Len(e)
    BY <1>1, <1>2, <1>6
  <2>2. FieldsOf(SubSeq(e, 1, j + 1)) = WithValue(FieldsOf(SubSeq(e, 1, j)), e[j + 1].name, e[j + 1].value)
    BY <1>1, <1>2, <1>6, FieldsOfMore
  <2>3. At(s, k, j + 1) = a + l /\ At(s, k, j + 1) <= p
    BY <1>2, <1>5, <1>6, Zenon
  <2>4. rest = SubSeq(w, At(s, k, j + 1) + 1, p)
    BY <1>5, <2>3, Zenon
  <2> HIDE DEF e, J
  <2> QED BY <1>1, <1>3, <2>1, <2>2, <2>3, <2>4, Zenon DEF Stands, e, J, w
<1>7. ASSUME j = Len(e)
      PROVE  Stands(s, k + 1, 0, [buf |-> rest, fields |-> NoFields],
                    p, IF HasMessage(d.fields) THEN Append(r, EntryFromJournal(d.fields)) ELSE r)
  <2>1. k + 1 \in 0 .. Len(J) /\ k + 1 \in 1 .. Len(J) /\ (k + 1) - 1 = k
    BY <1>1
  <2>2. At(s, k + 1, 0) = EndOf(s, k + 1) /\ 0 \in 0 .. Len(Under(s, k + 1))
    BY <2>1, PlaceBetween
  <2>3. At(s, k + 1, 0) = a + l /\ At(s, k + 1, 0) <= p
    BY <1>2, <1>5, <1>7, <2>2, Zenon
  <2>4. rest = SubSeq(w, At(s, k + 1, 0) + 1, p)
    BY <1>5, <2>3, Zenon
  <2>5. d.fields = FieldsOf(e)
    <3>1. SubSeq(e, 1, Len(e)) = e
      BY <1>2, SubSeqFull
    <3> QED BY <1>3, <1>7, <3>1, Zenon
  <2>6. RecordsOf(J)[k + 1] = AndRecord(r, e)
    <3>1. RecordsOf(J)[k + 1] = AndRecord(RecordsOf(J)[(k + 1) - 1], J[k + 1])
      BY <1>4, <2>1, RecordsOfIs
    <3> QED BY <1>2, <1>3, <2>1, <3>1, Zenon
  <2>7. AndRecord(r, e) = IF HasMessage(d.fields) THEN Append(r, EntryFromJournal(d.fields)) ELSE r
    BY <2>5, Zenon DEF AndRecord
  <2>8. FieldsOf(SubSeq(Under(s, k + 1), 1, 0)) = NoFields
    <3>1. SubSeq(Under(s, k + 1), 1, 0) = <<>>
      BY SubSeqEmpty
    <3> QED BY <3>1, FieldsOfNone, Zenon
  <2> HIDE DEF e, J
  <2> QED BY <2>1, <2>2, <2>3, <2>4, <2>6, <2>7, <2>8, Zenon DEF Stands, J, w
<1> QED BY <1>6, <1>7, Zenon DEF rest, l, z


\* What feed sees in front of an empty line, a line with a name and a value, and
\* a name alone, when l bytes are to come with them.
EndNext(buf, l) ==
    /\ l = 1
    /\ NewLine \in ToSet(buf) <=> 1 <= Len(buf)
    /\ NewLine \in ToSet(buf) => LineOf(buf) = <<>>

TextNext(buf, f, l) ==
    LET line == LineOf(buf)
        eq == IndexByte(line, Equals)
    IN /\ NewLine \in ToSet(buf) <=> l <= Len(buf)
       /\ NewLine \in ToSet(buf) =>
             /\ Equals \in ToSet(line) /\ line # <<>> /\ Len(line) + 1 = l
             /\ SubSeq(line, 1, eq - 1) = f.name
             /\ SubSeq(line, eq + 1, Len(line)) = f.value

BinaryNext(buf, f, l) ==
    LET line == LineOf(buf)
        need == Len(line) + 1 + SizeBytes
        size == Uint(SubSeq(buf, Len(line) + 2, need))
    IN /\ l <= Len(buf) => NewLine \in ToSet(buf)
       /\ NewLine \in ToSet(buf) =>
             /\ line = f.name /\ line # <<>> /\ Equals \notin ToSet(line)
             /\ l = need + Len(f.value) + 1
             /\ need <= Len(buf) => size = Len(f.value)
             /\ l <= Len(buf) => SubSeq(buf, need + 1, need + Len(f.value)) = f.value

FieldNext(buf, f, l) == TextNext(buf, f, l) \/ BinaryNext(buf, f, l)

LEMMA ItemAhead ==
    ASSUME NEW s \in Sources, NEW k, NEW j, NEW d, NEW p \in Nat, NEW r,
           Stands(s, k, j, d, p, r), p <= Len(Stream(s))
    PROVE  \/ k = Len(Journal[s]) /\ d.buf = <<>>
           \/ /\ k < Len(Journal[s]) /\ j = Len(Under(s, k))
              /\ EndNext(d.buf, Len(Item(s, k, j)))
           \/ /\ k < Len(Journal[s]) /\ j < Len(Under(s, k))
              /\ Under(s, k)[j + 1] \in JournalField
              /\ FieldNext(d.buf, Under(s, k)[j + 1], Len(Item(s, k, j)))
<1> DEFINE J == Journal[s]  e == Under(s, k)  z == Item(s, k, j)  f == e[j + 1]  buf == d.buf
<1>1. /\ k \in 0 .. Len(J) /\ j \in 0 .. Len(e) /\ Len(J) \in Nat /\ buf \in Seq(Octet)
      /\ k < Len(J) => Fits(buf, z) /\ Len(z) \in Nat \ {0}
      /\ k = Len(J) => buf = <<>>
  <2>1. Facing(s, k, j, d, p)
    BY Faced, Zenon
  <2> QED BY <2>1 DEF Facing
<1>2. z = IF j < Len(e) THEN EncodedField(f) ELSE <<NewLine>>
  BY Zenon DEF Item
<1>3. ASSUME k < Len(J) PROVE e \in Seq(JournalField) /\ Len(e) \in Nat /\ z \in Seq(Octet)
  BY <1>1, <1>3, Place
<1> HIDE DEF J, e, z, f, buf
<1>4. ASSUME k < Len(J), j < Len(e) PROVE f \in JournalField /\ FieldNext(buf, f, Len(z))
  <2>1. f \in JournalField
    <3>1. j + 1 \in 1 .. Len(e)
      BY <1>1, <1>3, <1>4
    <3> QED BY <1>3, <1>4, <3>1, ElementOfSeq DEF f
  <2>2. z = EncodedField(f)
    BY <1>2, <1>4, Zenon
  <2>3. TextShape(f, z) \/ BinaryShape(f, z)
    BY <2>1, <2>2, FieldShape, Zenon
  <2>4. ASSUME TextShape(f, z) PROVE TextNext(buf, f, Len(z))
    BY <1>1, <1>3, <1>4, <2>1, <2>4, TextLine, Zenon DEF TextNext, LineOf
  <2>5. ASSUME BinaryShape(f, z) PROVE BinaryNext(buf, f, Len(z))
    BY <1>1, <1>3, <1>4, <2>1, <2>5, BinaryLine, Zenon DEF BinaryNext, LineOf
  <2> QED BY <2>1, <2>3, <2>4, <2>5, Zenon DEF FieldNext
<1>5. ASSUME k < Len(J), j = Len(e) PROVE EndNext(buf, Len(z))
  <2>1. ~(j < Len(e))
    BY <1>3, <1>5
  <2>2. z = <<NewLine>>
    BY <1>2, <2>1, Zenon
  <2>3. Len(z) = 1
    BY <2>2
  <2>4. /\ NewLine \in ToSet(buf) <=> 1 <= Len(buf)
        /\ NewLine \in ToSet(buf) => SubSeq(buf, 1, IndexByte(buf, NewLine) - 1) = <<>>
    BY <1>1, <1>5, <2>2, EmptyLine
  <2> QED BY <2>3, <2>4, Zenon DEF EndNext, LineOf
<1>6. k = Len(J) \/ (k < Len(J) /\ j = Len(e)) \/ (k < Len(J) /\ j < Len(e))
  <2>1. k = Len(J) \/ k < Len(J)
    BY <1>1
  <2>2. k < Len(J) => j = Len(e) \/ j < Len(e)
    BY <1>1, <1>3
  <2> QED BY <2>1, <2>2
<1>7. k = Len(J) => buf = <<>>
  BY <1>1
<1> QED BY <1>4, <1>5, <1>6, <1>7, Zenon DEF J, e, z, f, buf

\* An empty line is the end of an entry.
LEMMA AtEntryEnd ==
    ASSUME NEW s \in Sources, NEW k, NEW j, NEW d, NEW p \in Nat, NEW r,
           Stands(s, k, j, d, p, r), p <= Len(Stream(s)),
           NewLine \in ToSet(d.buf), LineOf(d.buf) = <<>>
    PROVE  /\ k + 1 \in Nat
           /\ Stands(s, k + 1, 0, [buf |-> SubSeq(d.buf, 1 + 1, Len(d.buf)), fields |-> NoFields], p,
                     IF HasMessage(d.fields) THEN Append(r, EntryFromJournal(d.fields)) ELSE r)
<1>1. Facing(s, k, j, d, p)
  BY Faced, Zenon
<1>2. k < Len(Journal[s]) /\ j = Len(Under(s, k)) /\ EndNext(d.buf, Len(Item(s, k, j)))
  <2>1. d.buf # <<>>
    BY DEF ToSet
  <2>2. \A f, l : ~FieldNext(d.buf, f, l)
    BY Zenon DEF FieldNext, TextNext, BinaryNext
  <2> QED BY <2>1, <2>2, ItemAhead, Zenon
<1>3. Len(Item(s, k, j)) = 1 /\ Len(Item(s, k, j)) <= Len(d.buf)
  BY <1>2, Zenon DEF EndNext
<1>4. Stands(s, k + 1, 0, [buf |-> SubSeq(d.buf, Len(Item(s, k, j)) + 1, Len(d.buf)), fields |-> NoFields], p,
             IF HasMessage(d.fields) THEN Append(r, EntryFromJournal(d.fields)) ELSE r)
  BY <1>2, <1>3, Advance, Zenon
<1>5. k \in 0 .. Len(Journal[s]) /\ Len(Journal[s]) \in Nat
  BY <1>1, Zenon DEF Facing
<1>6. k + 1 \in Nat
  BY <1>5
<1> QED BY <1>3, <1>4, <1>6, Zenon

\* A line with '=' is a field.
LEMMA AtText ==
    ASSUME NEW s \in Sources, NEW k, NEW j, NEW d, NEW p \in Nat, NEW r,
           Stands(s, k, j, d, p, r), p <= Len(Stream(s)),
           NewLine \in ToSet(d.buf), Equals \in ToSet(LineOf(d.buf))
    PROVE  LET line == LineOf(d.buf)
               eq == IndexByte(line, Equals)
           IN /\ j + 1 \in Nat
              /\ Stands(s, k, j + 1,
                        [buf |-> SubSeq(d.buf, Len(line) + 1 + 1, Len(d.buf)),
                         fields |-> WithValue(d.fields, SubSeq(line, 1, eq - 1), SubSeq(line, eq + 1, Len(line)))],
                        p, r)
<1> DEFINE f == Under(s, k)[j + 1]  l == Len(Item(s, k, j))  line == LineOf(d.buf)
           eq == IndexByte(line, Equals)
<1>1. Facing(s, k, j, d, p)
  BY Faced, Zenon
<1>2. k < Len(Journal[s]) /\ j < Len(Under(s, k)) /\ TextNext(d.buf, f, l)
  <2>1. d.buf # <<>>
    BY DEF ToSet
  <2>2. \A x : ~EndNext(d.buf, x)
    <3>1. LineOf(d.buf) # <<>>
      <4> HIDE DEF LineOf
      <4> QED BY DEF ToSet
    <3> QED BY <3>1, Zenon DEF EndNext
  <2>3. \A x, y : ~BinaryNext(d.buf, x, y)
    BY Zenon DEF BinaryNext
  <2> QED BY <2>1, <2>2, <2>3, ItemAhead, Zenon DEF FieldNext
<1>3. l <= Len(d.buf) /\ Len(line) + 1 = l
      /\ SubSeq(line, 1, eq - 1) = f.name /\ SubSeq(line, eq + 1, Len(line)) = f.value
  BY <1>2, Zenon DEF TextNext
<1>4. Stands(s, k, j + 1, [buf |-> SubSeq(d.buf, Len(Item(s, k, j)) + 1, Len(d.buf)),
                           fields |-> WithValue(d.fields, Under(s, k)[j + 1].name, Under(s, k)[j + 1].value)], p, r)
  BY <1>2, <1>3, Advance, Zenon
<1>5. j \in 0 .. Len(Under(s, k)) /\ j + 1 \in Nat
  <2>1. j \in 0 .. Len(Under(s, k))
    BY <1>1, Zenon DEF Facing
  <2> QED BY <2>1
<1> QED BY <1>3, <1>4, <1>5, Zenon

\* A line without is the name of a binary field.
LEMMA AtBinary ==
    ASSUME NEW s \in Sources, NEW k, NEW j, NEW d, NEW p \in Nat, NEW r,
           Stands(s, k, j, d, p, r), p <= Len(Stream(s)),
           NewLine \in ToSet(d.buf), LineOf(d.buf) # <<>>, Equals \notin ToSet(LineOf(d.buf))
    PROVE  LET line == LineOf(d.buf)
               need == Len(line) + 1 + SizeBytes
               size == Uint(SubSeq(d.buf, Len(line) + 2, need))
           IN /\ k < Len(Journal[s]) /\ j + 1 \in Nat /\ Len(line) \in Nat
              /\ need <= Len(d.buf) =>
                    size \in Nat /\ Len(Item(s, k, j)) = need + size + 1
              /\ ~(need <= Len(d.buf)) => Len(d.buf) < Len(Item(s, k, j))
              /\ need <= Len(d.buf) /\ need + size + 1 <= Len(d.buf) =>
                    Stands(s, k, j + 1,
                           [buf |-> SubSeq(d.buf, need + size + 1 + 1, Len(d.buf)),
                            fields |-> WithValue(d.fields, line, SubSeq(d.buf, need + 1, need + size))],
                           p, r)
<1> DEFINE f == Under(s, k)[j + 1]  l == Len(Item(s, k, j))  line == LineOf(d.buf)
           need == Len(line) + 1 + SizeBytes  size == Uint(SubSeq(d.buf, Len(line) + 2, need))
<1>1. Facing(s, k, j, d, p)
  BY Faced, Zenon
<1>2. k < Len(Journal[s]) /\ j < Len(Under(s, k)) /\ f \in JournalField /\ BinaryNext(d.buf, f, l)
  <2>1. d.buf # <<>>
    BY DEF ToSet
  <2>2. \A x : ~EndNext(d.buf, x)
    BY Zenon DEF EndNext
  <2>3. \A x, y : ~TextNext(d.buf, x, y)
    BY Zenon DEF TextNext
  <2> QED BY <2>1, <2>2, <2>3, ItemAhead, Zenon DEF FieldNext
<1>3. /\ line = f.name /\ l = need + Len(f.value) + 1
      /\ need <= Len(d.buf) => size = Len(f.value)
      /\ l <= Len(d.buf) => SubSeq(d.buf, need + 1, need + Len(f.value)) = f.value
  BY <1>2, Zenon DEF BinaryNext
<1>4. Len(f.value) \in Nat /\ Len(f.name) \in Nat
  BY <1>2, FieldParts
<1>5. /\ j + 1 \in Nat /\ Len(d.buf) \in Nat /\ SizeBytes \in Nat
  <2>1. j \in 0 .. Len(Under(s, k)) /\ d.buf \in Seq(Octet)
    BY <1>1, Zenon DEF Facing
  <2> QED BY <2>1, LenProperties, JournalAssumption
<1>6. l <= Len(d.buf) =>
        Stands(s, k, j + 1, [buf |-> SubSeq(d.buf, Len(Item(s, k, j)) + 1, Len(d.buf)),
                             fields |-> WithValue(d.fields, Under(s, k)[j + 1].name, Under(s, k)[j + 1].value)], p, r)
  BY <1>2, Advance, Zenon
<1>7. Len(line) \in Nat
  BY <1>3, <1>4, Zenon
<1> HIDE DEF f, l, line, size
<1>8. ~(need <= Len(d.buf)) => Len(d.buf) < l
  <2> DEFINE v == Len(f.value)  b == Len(d.buf)  m == Len(line)
  <2>1. l = m + 1 + SizeBytes + v + 1 /\ v \in Nat /\ b \in Nat /\ m \in Nat
    BY <1>3, <1>4, <1>5, <1>7, Zenon
  <2> HIDE DEF v, b, m
  <2>2. ~(m + 1 + SizeBytes <= b) => b < l
    BY <1>5, <2>1
  <2> QED BY <2>2, Zenon DEF b, m
<1> HIDE DEF need
<1>9. ASSUME need <= Len(d.buf), need + size + 1 <= Len(d.buf)
      PROVE  Stands(s, k, j + 1,
                    [buf |-> SubSeq(d.buf, need + size + 1 + 1, Len(d.buf)),
                     fields |-> WithValue(d.fields, line, SubSeq(d.buf, need + 1, need + size))], p, r)
  <2>1. size = Len(f.value) /\ l = need + size + 1 /\ l <= Len(d.buf)
    BY <1>3, <1>9, Zenon
  <2>2. SubSeq(d.buf, need + 1, need + size) = f.value
    BY <1>3, <2>1, Zenon
  <2> QED BY <1>3, <1>6, <2>1, <2>2, Zenon DEF f, l
<1>10. need <= Len(d.buf) => size \in Nat /\ l = need + size + 1
  BY <1>3, <1>4, Zenon
<1> QED BY <1>2, <1>5, <1>7, <1>8, <1>9, <1>10, Zenon DEF need, l, line, size

\* feed waits for bytes that have not come.
LEMMA AtWait ==
    ASSUME NEW s \in Sources, NEW k, NEW j, NEW d, NEW p \in Nat, NEW r,
           Stands(s, k, j, d, p, r), p <= Len(Stream(s)),
           NewLine \notin ToSet(d.buf) \/ Len(d.buf) < Len(Item(s, k, j))
    PROVE  Short(s, k, j, p)
<1> DEFINE l == Len(Item(s, k, j))  a == At(s, k, j)  b == Len(d.buf)
<1>1. /\ k < Len(Journal[s]) => l \in Nat
      /\ b = p - a /\ b \in Nat /\ a \in Nat
  <2>1. Facing(s, k, j, d, p)
    BY Faced, Zenon
  <2> QED BY <2>1, LenProperties DEF Facing
<1>2. ASSUME k < Len(Journal[s]) PROVE b < l
  <2>1. CASE NewLine \notin ToSet(d.buf)
    <3>1. \A f, x : FieldNext(d.buf, f, x) => ~(x <= Len(d.buf))
      BY <2>1, Zenon DEF FieldNext, TextNext, BinaryNext
    <3>4. \A x : EndNext(d.buf, x) => ~(x <= Len(d.buf))
      BY <2>1, Zenon DEF EndNext
    <3>2. k # Len(Journal[s])
      <4>1. k \in 0 .. Len(Journal[s]) /\ Len(Journal[s]) \in Nat
        <5>1. Facing(s, k, j, d, p)
          BY Faced, Zenon
        <5> QED BY <5>1, Zenon DEF Facing
      <4> QED BY <1>2, <4>1
    <3>3. ~(l <= b)
      BY <3>1, <3>2, <3>4, ItemAhead, Zenon
    <3> HIDE DEF l, b
    <3> QED BY <1>1, <1>2, <3>3
  <2>2. CASE b < l
    BY <2>2
  <2> QED BY <2>1, <2>2
<1> HIDE DEF l, a, b
<1>3. ASSUME k < Len(Journal[s]) PROVE p < a + l
  <2>1. b < l /\ l \in Nat /\ b = p - a /\ a \in Nat
    BY <1>1, <1>2, <1>3
  <2> QED BY <2>1
<1> QED BY <1>3, Zenon DEF Short, l, a

-----------------------------------------------------------------------------
(* The invariant is kept *)

\* A source none of whose state changes, and that feed does not turn to.
LEMMA OthersKept ==
    ASSUME JournalInv, NEW s \in Sources \ disturbed, feeding # s,
           Held(s)' = Held(s), position'[s] = position[s], journaled'[s] = journaled[s]
    PROVE  InStep(s)'
<1>1. InStep(s)
  BY Zenon DEF JournalInv
<1>2. PICK k \in Nat, j \in Nat : /\ Stands(s, k, j, Held(s), position[s], journaled[s])
                                  /\ Short(s, k, j, position[s])
  BY <1>1, Zenon DEF InStep
<1>3. Stands(s, k, j, Held(s)', position'[s], journaled'[s]) /\ Short(s, k, j, position'[s])
  BY <1>2, Zenon
<1> QED BY <1>3, Zenon DEF InStep

-----------------------------------------------------------------------------
(* What feed leaves of any buffer *)

\* A byte that is there has a first place.
LEMMA FirstPlaceIn ==
    ASSUME NEW s \in Seq(Octet), NEW b \in ToSet(s)
    PROVE  IndexByte(s, b) \in 1 .. Len(s)
<1> DEFINE First(i) == s[i] = b /\ \A j \in 1 .. (i - 1) : s[j] # b
           n == Len(s)
           U == {k \in 0 .. n : (\E i \in 1 .. k : s[i] = b) => \E i \in 1 .. k : First(i)}
           x == CHOOSE i \in DOMAIN s : First(i)
<1>1. n \in Nat /\ DOMAIN s = 1 .. n
  BY LenProperties
<1>2. 0 \in U
  BY <1>1
<1>3. ASSUME NEW k \in 1 .. n, k - 1 \in U PROVE k \in U
  <2>1. k \in 0 .. n /\ k \in 1 .. k /\ \A i \in 1 .. (k - 1) : i \in 1 .. k
    BY <1>1
  <2>2. CASE \E i \in 1 .. (k - 1) : s[i] = b
    <3>1. PICK i \in 1 .. (k - 1) : First(i)
      <4> HIDE DEF First
      <4> QED BY <1>3, <2>2
    <3>2. \E y \in 1 .. k : First(y)
      <4> HIDE DEF First
      <4> QED BY <2>1, <3>1
    <3> HIDE DEF First
    <3> QED BY <2>1, <3>2
  <2>3. CASE \A i \in 1 .. (k - 1) : s[i] # b
    <3>1. ASSUME \E i \in 1 .. k : s[i] = b PROVE \E i \in 1 .. k : First(i)
      <4>1. PICK i \in 1 .. k : s[i] = b
        BY <3>1
      <4>2. ~(i \in 1 .. (k - 1)) /\ i \in 1 .. k
        BY <2>3, <4>1
      <4>3. i = k
        BY <1>1, <4>2
      <4>4. First(k)
        BY <2>3, <4>1, <4>3
      <4> HIDE DEF First
      <4> QED BY <2>1, <4>4
    <3> HIDE DEF First
    <3> QED BY <2>1, <3>1
  <2> QED BY <2>2, <2>3, Zenon
<1>4. n \in U
  <2>1. 0 .. n \subseteq U
    <3> HIDE DEF U
    <3> QED BY <1>1, <1>2, <1>3, Induction
  <2>2. n \in 0 .. n
    BY <1>1
  <2> HIDE DEF U
  <2> QED BY <2>1, <2>2
<1>5. \E i \in 1 .. n : s[i] = b
  BY <1>1 DEF ToSet
<1>6. \E i \in DOMAIN s : First(i)
  <2> HIDE DEF First, n
  <2> QED BY <1>1, <1>4, <1>5
<1>7. x \in DOMAIN s
  <2> HIDE DEF First
  <2> QED BY <1>6, Zenon
<1>8. IndexByte(s, b) = x
  BY Zenon DEF IndexByte
<1> HIDE DEF x
<1> QED BY <1>1, <1>7, <1>8

LEMMA LineIs ==
    ASSUME NEW buf \in Seq(Octet), NewLine \in ToSet(buf)
    PROVE  /\ Len(LineOf(buf)) \in Nat /\ Len(LineOf(buf)) + 1 <= Len(buf) /\ Len(buf) \in Nat
           /\ LineOf(buf) \in Seq(Octet)
<1> DEFINE i == IndexByte(buf, NewLine)
<1>1. i \in 1 .. Len(buf) /\ Len(buf) \in Nat
  BY FirstPlaceIn, LenProperties
<1> HIDE DEF i
<1>2. 1 \in Nat \ {0} /\ i - 1 \in Nat /\ 1 <= (i - 1) + 1 /\ i - 1 <= Len(buf)
  BY <1>1
<1>3. SubSeq(buf, 1, i - 1) \in Seq(Octet) /\ Len(SubSeq(buf, 1, i - 1)) = (i - 1) - 1 + 1
  BY <1>2, Slice
<1>4. LineOf(buf) = SubSeq(buf, 1, i - 1)
  BY Zenon DEF LineOf, i
<1>5. Len(LineOf(buf)) = i - 1
  BY <1>1, <1>3, <1>4
<1> QED BY <1>1, <1>3, <1>4, <1>5

\* The rest of a buffer is no longer than it was.
LEMMA RestIs ==
    ASSUME NEW buf \in Seq(Octet), NEW n \in Nat
    PROVE  /\ SubSeq(buf, n + 1, Len(buf)) \in Seq(Octet)
           /\ Len(SubSeq(buf, n + 1, Len(buf))) <= Len(buf)
<1>1. Len(buf) \in Nat
  BY LenProperties
<1>2. CASE n <= Len(buf)
  <2>1. n + 1 \in Nat \ {0} /\ n + 1 <= Len(buf) + 1 /\ Len(buf) <= Len(buf)
    BY <1>1, <1>2
  <2>2. /\ SubSeq(buf, n + 1, Len(buf)) \in Seq(Octet)
        /\ Len(SubSeq(buf, n + 1, Len(buf))) = Len(buf) - (n + 1) + 1
    BY <1>1, <2>1, Slice
  <2> QED BY <1>1, <2>2
<1>3. CASE ~(n <= Len(buf))
  <2>1. Len(buf) < n + 1 /\ n + 1 \in Int /\ Len(buf) \in Int
    BY <1>1, <1>3
  <2>2. SubSeq(buf, n + 1, Len(buf)) = <<>>
    BY <2>1, SubSeqEmpty
  <2> QED BY <1>1, <2>2
<1> QED BY <1>2, <1>3

LEMMA SizeIs ==
    ASSUME NEW buf \in Seq(Octet), NEW n \in Nat, n + 1 + SizeBytes <= Len(buf)
    PROVE  Uint(SubSeq(buf, n + 2, n + 1 + SizeBytes)) \in Nat
<1> DEFINE c == SubSeq(buf, n + 2, n + 1 + SizeBytes)
<1>1. SizeBytes \in Nat \ {0} /\ Len(buf) \in Nat
  BY JournalAssumption, LenProperties
<1>2. /\ n + 2 \in Nat \ {0} /\ n + 1 + SizeBytes \in Nat
      /\ n + 2 <= n + 1 + SizeBytes + 1 /\ (n + 1 + SizeBytes) - (n + 2) + 1 = SizeBytes
  BY <1>1
<1>3. c \in Seq(Octet) /\ Len(c) = (n + 1 + SizeBytes) - (n + 2) + 1
  BY <1>2, Slice
<1> HIDE DEF c
<1>4. Len(c) = SizeBytes
  BY <1>2, <1>3
<1>5. \E h \in [0 .. SizeBytes -> Nat] : Uint(c) = h[SizeBytes]
  BY <1>3, <1>4, UintIs, SMTT(60)
<1>6. SizeBytes \in 0 .. SizeBytes
  BY <1>1
<1> QED BY <1>5, <1>6 DEF c

-----------------------------------------------------------------------------
(* feed keeps the invariant *)

LEMMA FeedingIs ==
    ASSUME JournalShape, feeding # NoSource
    PROVE  /\ feeding \in DOMAIN decoders /\ feeding \in Sources
           /\ Buf \in Seq(Octet) /\ Len(Buf) <= MaxJournalBuf /\ Len(Buf) \in Nat
           /\ Held(feeding) = decoders[feeding]
           /\ position[feeding] \in Nat /\ position[feeding] <= Len(Stream(feeding))
<1>1. feeding \in DOMAIN decoders /\ DOMAIN decoders \subseteq Sources
  BY Zenon DEF JournalShape, JournalTypeOK
<1>2. feeding \in Sources
  BY <1>1
<1>3. decoders[feeding].buf \in Seq(Octet) /\ Len(decoders[feeding].buf) <= MaxJournalBuf
  BY <1>1, Zenon DEF JournalShape, JournalTypeOK
<1>4. position[feeding] \in Nat /\ position[feeding] <= Len(Stream(feeding))
  BY <1>2 DEF JournalShape, JournalTypeOK
<1>5. Held(feeding) = decoders[feeding]
  BY <1>1, Zenon DEF Held
<1>6. Buf \in Seq(Octet) /\ Len(Buf) <= MaxJournalBuf
  BY <1>3, Zenon DEF Buf
<1> QED BY <1>1, <1>2, <1>4, <1>5, <1>6, LenProperties

\* The decoder at work gets another buffer and other fields.
LEMMA DecoderSet ==
    ASSUME JournalShape, feeding # NoSource, NEW b \in Seq(Octet), Len(b) <= MaxJournalBuf, NEW F,
           decoders' = [decoders EXCEPT ![feeding] = [buf |-> b, fields |-> F]],
           position' = position, lostDatagrams' = lostDatagrams,
           disturbed' \subseteq Sources, feeding' \in {feeding, NoSource},
           journaled' = [s \in Sources |-> journaled'[s]]
    PROVE  /\ JournalShape'
           /\ feeding \in DOMAIN decoders' /\ decoders'[feeding] = [buf |-> b, fields |-> F]
           /\ \A s : s # feeding => Held(s)' = Held(s)
<1> DEFINE d == [buf |-> b, fields |-> F]
<1>1. feeding \in DOMAIN decoders /\ feeding \in Sources
  BY FeedingIs
<1>2. d.buf = b /\ d = [buf |-> d.buf, fields |-> d.fields]
  OBVIOUS
<1> HIDE DEF d
<1>3. /\ decoders = [s \in DOMAIN decoders |-> decoders[s]] /\ IsFiniteSet(DOMAIN decoders)
      /\ \A s \in DOMAIN decoders :
            /\ decoders[s] = [buf |-> decoders[s].buf, fields |-> decoders[s].fields]
            /\ decoders[s].buf \in Seq(Octet) /\ Len(decoders[s].buf) <= MaxJournalBuf
  BY Zenon DEF JournalShape, JournalTypeOK
<1>4. decoders' = [decoders EXCEPT ![feeding] = d]
  BY Zenon DEF d
<1>5. DOMAIN decoders' = DOMAIN decoders
  BY <1>4, Zenon
<1>6. decoders'[feeding] = d /\ \A s \in DOMAIN decoders : s # feeding => decoders'[s] = decoders[s]
  BY <1>1, <1>4, Zenon
<1>7. decoders' = [s \in DOMAIN decoders' |-> decoders'[s]]
  BY <1>4, <1>5, Zenon
<1>8. ASSUME NEW s \in DOMAIN decoders'
      PROVE  /\ decoders'[s] = [buf |-> decoders'[s].buf, fields |-> decoders'[s].fields]
             /\ decoders'[s].buf \in Seq(Octet) /\ Len(decoders'[s].buf) <= MaxJournalBuf
  <2>1. CASE s = feeding
    <3>1. decoders'[s] = d
      BY <1>6, <2>1, Zenon
    <3> QED BY <1>2, <3>1, Zenon
  <2>2. CASE s # feeding
    BY <1>3, <1>5, <1>6, <2>2, Zenon
  <2> QED BY <2>1, <2>2, Zenon
<1>9. JournalTypeOK'
  <2>1. /\ position' \in [Sources -> Nat] /\ \A s \in Sources : position'[s] <= Len(Stream(s))
        /\ DOMAIN decoders' \subseteq Sources /\ Cardinality(DOMAIN decoders') <= MaxJournalSources
        /\ lostDatagrams' \in 0 .. MaxLostDatagrams
    BY <1>5, Zenon DEF JournalShape, JournalTypeOK
  <2>2. feeding' \in DOMAIN decoders' \cup {NoSource}
    BY <1>1, <1>5
  <2> QED BY <1>8, <2>1, <2>2, Zenon DEF JournalTypeOK
<1>10. JournalShape'
  BY <1>3, <1>5, <1>7, <1>8, <1>9, Zenon DEF JournalShape
<1>11. \A s : s # feeding => Held(s)' = Held(s)
  BY <1>5, <1>6, Zenon DEF Held
<1> QED BY <1>1, <1>5, <1>6, <1>10, <1>11, Zenon DEF d

\* feed goes on behind an item: the source it works on stands behind it.
LEMMA ConsumeKeeps ==
    ASSUME JournalInv, feeding # NoSource, NEW b \in Seq(Octet), Len(b) <= MaxJournalBuf, NEW F, NEW r,
           decoders' = [decoders EXCEPT ![feeding] = [buf |-> b, fields |-> F]],
           position' = position, lostDatagrams' = lostDatagrams,
           disturbed' = disturbed, feeding' = feeding,
           journaled' = [s \in Sources |-> IF s = feeding THEN r ELSE journaled[s]],
           feeding \notin disturbed =>
              \E k, j \in Nat : Stands(feeding, k, j, [buf |-> b, fields |-> F], position[feeding], r)
    PROVE  JournalInv'
<1> DEFINE d == [buf |-> b, fields |-> F]
<1>1. JournalShape /\ feeding \in Sources /\ disturbed \subseteq Sources
  BY FeedingIs, Zenon DEF JournalInv, JournalShape, JournalTypeOK
<1>2. journaled' = [s \in Sources |-> journaled'[s]]
  <2>1. DOMAIN journaled' = Sources /\ journaled' = [s \in DOMAIN journaled' |-> journaled'[s]]
    BY Zenon
  <2> QED BY <2>1, Zenon
<1>3. disturbed' \subseteq Sources /\ feeding' \in {feeding, NoSource}
  BY <1>1, Zenon
<1> DEFINE Others == \A s : s # feeding => Held(s)' = Held(s)
<1>4. JournalShape' /\ feeding \in DOMAIN decoders' /\ decoders'[feeding] = d /\ Others
  BY <1>1, <1>2, <1>3, DecoderSet, Zenon
<1>5. ASSUME NEW s \in Sources \ disturbed PROVE InStep(s)'
  <2>1. CASE s # feeding
    <3>1. Held(s)' = Held(s) /\ position'[s] = position[s]
      BY <1>4, <2>1, Zenon
    <3>2. journaled'[s] = journaled[s]
      <4>1. s \in Sources
        OBVIOUS
      <4> QED BY <2>1, <4>1, Zenon
    <3> QED BY <2>1, <3>1, <3>2, OthersKept, Zenon
  <2>2. CASE s = feeding
    <3>1. PICK k \in Nat, j \in Nat : Stands(feeding, k, j, d, position[feeding], r)
      BY <2>2, Zenon
    <3>2. Held(s)' = d /\ position'[s] = position[feeding] /\ journaled'[s] = r /\ feeding' = s
      BY <1>1, <1>4, <2>2, Zenon DEF Held
    <3>3. Stands(s, k, j, Held(s)', position'[s], journaled'[s])
      BY <2>2, <3>1, <3>2, Zenon
    <3> QED BY <3>2, <3>3, Zenon DEF InStep
  <2> QED BY <2>1, <2>2, Zenon
<1> HIDE DEF Others
<1> QED BY <1>4, <1>5, Zenon DEF JournalInv

LEMMA FeedingStands ==
    ASSUME JournalInv, feeding # NoSource, feeding \notin disturbed
    PROVE  \E k, j \in Nat : Stands(feeding, k, j, decoders[feeding], position[feeding], journaled[feeding])
<1>1. feeding \in Sources \ disturbed /\ Held(feeding) = decoders[feeding]
  BY FeedingIs, Zenon DEF JournalInv
<1>2. InStep(feeding)
  BY <1>1, Zenon DEF JournalInv
<1> QED BY <1>1, <1>2, Zenon DEF InStep

LEMMA JournaledOf ==
    ASSUME JournalShape
    PROVE  journaled = [s \in Sources |-> IF s = feeding THEN journaled[feeding] ELSE journaled[s]]
<1>1. journaled = [s \in Sources |-> journaled[s]]
  BY Zenon DEF JournalShape
<1>2. \A s \in Sources : (IF s = feeding THEN journaled[feeding] ELSE journaled[s]) = journaled[s]
  BY Zenon
<1> QED BY <1>1, <1>2, Zenon

LEMMA TerminatorKeeps == JournalInv /\ Terminator => JournalInv'
<1> SUFFICES ASSUME JournalInv, Terminator PROVE JournalInv'
  OBVIOUS
<1> DEFINE d == decoders[feeding]  b == SubSeq(Buf, 1 + 1, Len(Buf))
           r == IF HasMessage(Fields) THEN Append(journaled[feeding], EntryFromJournal(Fields))
                ELSE journaled[feeding]
<1>1. /\ JournalShape /\ feeding # NoSource /\ NewLine \in ToSet(Buf) /\ Line = <<>>
      /\ decoders' = [decoders EXCEPT ![feeding] = [buf |-> b, fields |-> NoFields]]
      /\ AppendEntry(feeding, Fields) /\ feeding' = feeding /\ disturbed' = disturbed
      /\ position' = position /\ lostDatagrams' = lostDatagrams
  BY Zenon DEF JournalInv, Terminator, HasLine, Consume, UNCHANGED_Socket
<1>2. /\ feeding \in Sources /\ Buf \in Seq(Octet) /\ Len(Buf) \in Nat /\ Len(Buf) <= MaxJournalBuf
      /\ position[feeding] \in Nat /\ position[feeding] <= Len(Stream(feeding))
  BY <1>1, FeedingIs, Zenon
<1>3. b \in Seq(Octet) /\ Len(b) <= MaxJournalBuf
  <2>1. 1 \in Nat /\ MaxJournalBuf \in Nat
    BY JournalAssumption
  <2>2. b \in Seq(Octet) /\ Len(b) <= Len(Buf)
    BY <1>2, <2>1, RestIs
  <2>3. Len(b) \in Nat
    BY <2>2, LenProperties
  <2> HIDE DEF b
  <2> QED BY <1>2, <2>1, <2>2, <2>3
<1>4. journaled' = [s \in Sources |-> IF s = feeding THEN r ELSE journaled[s]]
  <2>1. CASE HasMessage(Fields)
    <3>1. journaled' = [journaled EXCEPT ![feeding] = Append(@, EntryFromJournal(Fields))]
      BY <1>1, <2>1, Zenon DEF AppendEntry
    <3>2. journaled = [s \in Sources |-> journaled[s]]
      BY <1>1, Zenon DEF JournalShape
    <3>3. r = Append(journaled[feeding], EntryFromJournal(Fields))
      BY <2>1, Zenon
    <3> HIDE DEF r
    <3>4. journaled' = [journaled EXCEPT ![feeding] = r]
      BY <3>1, <3>3, Zenon
    <3>5. DOMAIN journaled = Sources
      BY <3>2, Zenon
    <3> QED BY <3>4, <3>5, Zenon
  <2>2. CASE ~HasMessage(Fields)
    <3>1. journaled' = journaled /\ r = journaled[feeding]
      BY <1>1, <2>2, Zenon DEF AppendEntry
    <3> HIDE DEF r
    <3> QED BY <1>1, <3>1, JournaledOf, Zenon
  <2> QED BY <2>1, <2>2, Zenon
<1>5. ASSUME feeding \notin disturbed
      PROVE  \E k, j \in Nat : Stands(feeding, k, j, [buf |-> b, fields |-> NoFields], position[feeding], r)
  <2>1. PICK k \in Nat, j \in Nat : Stands(feeding, k, j, d, position[feeding], journaled[feeding])
    BY <1>1, <1>5, FeedingStands, Zenon
  <2>2. d.buf = Buf /\ d.fields = Fields /\ Line = LineOf(Buf)
    BY Zenon DEF Buf, Fields, Line, LineOf
  <2>3. NewLine \in ToSet(d.buf) /\ LineOf(d.buf) = <<>>
    BY <1>1, <2>2, Zenon
  <2> HIDE DEF d
  <2>4. /\ k + 1 \in Nat
        /\ Stands(feeding, k + 1, 0, [buf |-> SubSeq(d.buf, 1 + 1, Len(d.buf)), fields |-> NoFields], position[feeding],
                  IF HasMessage(d.fields) THEN Append(journaled[feeding], EntryFromJournal(d.fields))
                  ELSE journaled[feeding])
    BY <1>2, <2>1, <2>3, AtEntryEnd, Zenon
  <2>5. 0 \in Nat
    OBVIOUS
  <2> QED BY <2>2, <2>4, <2>5, Zenon
<1> HIDE DEF b, r
<1> QED BY <1>1, <1>3, <1>4, <1>5, ConsumeKeeps, Zenon

LEMMA TextFieldKeeps == JournalInv /\ TextField => JournalInv'
<1> SUFFICES ASSUME JournalInv, TextField PROVE JournalInv'
  OBVIOUS
<1> DEFINE d == decoders[feeding]  eq == IndexByte(Line, Equals)  n == Len(Line) + 1
           b == SubSeq(Buf, n + 1, Len(Buf))
           F == WithField(SubSeq(Line, 1, eq - 1), SubSeq(Line, eq + 1, Len(Line)))
<1>1. /\ JournalShape /\ feeding # NoSource /\ NewLine \in ToSet(Buf) /\ Equals \in ToSet(Line)
      /\ decoders' = [decoders EXCEPT ![feeding] = [buf |-> b, fields |-> F]]
      /\ journaled' = journaled /\ feeding' = feeding /\ disturbed' = disturbed
      /\ position' = position /\ lostDatagrams' = lostDatagrams
  BY Zenon DEF JournalInv, TextField, HasLine, Consume, UNCHANGED_Socket
<1>2. /\ feeding \in Sources /\ Buf \in Seq(Octet) /\ Len(Buf) \in Nat /\ Len(Buf) <= MaxJournalBuf
      /\ position[feeding] \in Nat /\ position[feeding] <= Len(Stream(feeding))
  BY <1>1, FeedingIs, Zenon
<1>3. Line = LineOf(Buf) /\ d.buf = Buf /\ d.fields = Fields
  BY Zenon DEF Buf, Fields, Line, LineOf
<1>4. b \in Seq(Octet) /\ Len(b) <= MaxJournalBuf
  <2>1. Len(Line) \in Nat /\ MaxJournalBuf \in Nat
    BY <1>1, <1>2, <1>3, LineIs, JournalAssumption
  <2>2. n \in Nat
    BY <2>1
  <2> HIDE DEF n
  <2>3. b \in Seq(Octet) /\ Len(b) <= Len(Buf)
    BY <1>2, <2>2, RestIs
  <2>4. Len(b) \in Nat
    BY <2>3, LenProperties
  <2> HIDE DEF b
  <2> QED BY <1>2, <2>1, <2>3, <2>4
<1>5. journaled' = [s \in Sources |-> IF s = feeding THEN journaled[feeding] ELSE journaled[s]]
  BY <1>1, JournaledOf, Zenon
<1>6. ASSUME feeding \notin disturbed
      PROVE  \E k, j \in Nat : Stands(feeding, k, j, [buf |-> b, fields |-> F], position[feeding], journaled[feeding])
  <2>1. PICK k \in Nat, j \in Nat : Stands(feeding, k, j, d, position[feeding], journaled[feeding])
    BY <1>1, <1>6, FeedingStands, Zenon
  <2>2. NewLine \in ToSet(d.buf) /\ Equals \in ToSet(LineOf(d.buf))
    BY <1>1, <1>3, Zenon
  <2> DEFINE line == LineOf(d.buf)  e == IndexByte(line, Equals)
  <2>3. /\ j + 1 \in Nat
        /\ Stands(feeding, k, j + 1,
                  [buf |-> SubSeq(d.buf, Len(line) + 1 + 1, Len(d.buf)),
                   fields |-> WithValue(d.fields, SubSeq(line, 1, e - 1), SubSeq(line, e + 1, Len(line)))],
                  position[feeding], journaled[feeding])
    <3> HIDE DEF d
    <3> QED BY <1>2, <2>1, <2>2, AtText, Zenon
  <2>4. SubSeq(d.buf, Len(line) + 1 + 1, Len(d.buf)) = b
    BY <1>3, Zenon
  <2>5. WithValue(d.fields, SubSeq(line, 1, e - 1), SubSeq(line, e + 1, Len(line))) = F
    BY <1>3, Zenon DEF WithValue, WithField
  <2> HIDE DEF b, F, line, e, d
  <2> QED BY <2>3, <2>4, <2>5, Zenon
<1> HIDE DEF b, F
<1> QED BY <1>1, <1>4, <1>5, <1>6, ConsumeKeeps, Zenon

LEMMA BinaryFieldKeeps == JournalInv /\ BinaryField => JournalInv'
<1> SUFFICES ASSUME JournalInv, BinaryField PROVE JournalInv'
  OBVIOUS
<1> DEFINE d == decoders[feeding]  n == Need + Size + 1  b == SubSeq(Buf, n + 1, Len(Buf))
           F == WithField(Line, SubSeq(Buf, Need + 1, Need + Size))
<1>1. /\ JournalShape /\ feeding # NoSource /\ NewLine \in ToSet(Buf)
      /\ Line # <<>> /\ Equals \notin ToSet(Line) /\ Len(Buf) >= Need /\ Len(Buf) >= n
      /\ decoders' = [decoders EXCEPT ![feeding] = [buf |-> b, fields |-> F]]
      /\ journaled' = journaled /\ feeding' = feeding /\ disturbed' = disturbed
      /\ position' = position /\ lostDatagrams' = lostDatagrams
  BY Zenon DEF JournalInv, BinaryField, BinaryWhole, BinaryName, HasLine, Consume, UNCHANGED_Socket
<1>2. /\ feeding \in Sources /\ Buf \in Seq(Octet) /\ Len(Buf) \in Nat /\ Len(Buf) <= MaxJournalBuf
      /\ position[feeding] \in Nat /\ position[feeding] <= Len(Stream(feeding))
  BY <1>1, FeedingIs, Zenon
<1>3. /\ Line = LineOf(Buf) /\ d.buf = Buf /\ d.fields = Fields
      /\ Need = Len(Line) + 1 + SizeBytes /\ Size = Uint(SubSeq(Buf, Len(Line) + 2, Need))
  BY Zenon DEF Buf, Fields, Line, LineOf, Need, Size
<1>4. Len(Line) \in Nat /\ SizeBytes \in Nat /\ MaxJournalBuf \in Nat
  BY <1>1, <1>2, <1>3, LineIs, JournalAssumption
<1>5. Need \in Nat /\ Need <= Len(Buf) /\ Size \in Nat
  <2>1. Need \in Nat
    BY <1>3, <1>4
  <2>2. Need <= Len(Buf)
    BY <1>1, <1>2, <2>1
  <2>3. Len(Line) + 1 + SizeBytes <= Len(Buf)
    BY <1>3, <2>2, Zenon
  <2>4. Uint(SubSeq(Buf, Len(Line) + 2, Len(Line) + 1 + SizeBytes)) \in Nat
    BY <1>2, <1>4, <2>3, SizeIs, Zenon
  <2> QED BY <1>3, <2>1, <2>2, <2>4, Zenon
<1>6. n \in Nat /\ n <= Len(Buf)
  <2>1. n \in Nat
    BY <1>5
  <2> HIDE DEF n
  <2> QED BY <1>1, <1>2, <2>1
<1>7. b \in Seq(Octet) /\ Len(b) <= MaxJournalBuf
  <2> HIDE DEF n
  <2>1. b \in Seq(Octet) /\ Len(b) <= Len(Buf)
    BY <1>2, <1>6, RestIs
  <2>2. Len(b) \in Nat
    BY <2>1, LenProperties
  <2> HIDE DEF b
  <2> QED BY <1>2, <1>4, <2>1, <2>2
<1>8. journaled' = [s \in Sources |-> IF s = feeding THEN journaled[feeding] ELSE journaled[s]]
  BY <1>1, JournaledOf, Zenon
<1>9. ASSUME feeding \notin disturbed
      PROVE  \E k, j \in Nat : Stands(feeding, k, j, [buf |-> b, fields |-> F], position[feeding], journaled[feeding])
  <2>1. PICK k \in Nat, j \in Nat : Stands(feeding, k, j, d, position[feeding], journaled[feeding])
    BY <1>1, <1>9, FeedingStands, Zenon
  <2>2. NewLine \in ToSet(d.buf) /\ LineOf(d.buf) # <<>> /\ Equals \notin ToSet(LineOf(d.buf))
    BY <1>1, <1>3, Zenon
  <2> DEFINE line == LineOf(d.buf)  need == Len(line) + 1 + SizeBytes
             size == Uint(SubSeq(d.buf, Len(line) + 2, need))
  <2>3. /\ j + 1 \in Nat
        /\ need <= Len(d.buf) /\ need + size + 1 <= Len(d.buf) =>
             Stands(feeding, k, j + 1,
                    [buf |-> SubSeq(d.buf, need + size + 1 + 1, Len(d.buf)),
                     fields |-> WithValue(d.fields, line, SubSeq(d.buf, need + 1, need + size))],
                    position[feeding], journaled[feeding])
    <3> HIDE DEF d
    <3> QED BY <1>2, <2>1, <2>2, AtBinary, Zenon
  <2>4. line = Line /\ need = Need /\ size = Size
    BY <1>3, Zenon
  <2> HIDE DEF line, need, size
  <2>5. SubSeq(d.buf, need + size + 1 + 1, Len(d.buf)) = b
    BY <1>3, <2>4, Zenon
  <2>6. WithValue(d.fields, line, SubSeq(d.buf, need + 1, need + size)) = F
    BY <1>3, <2>4, Zenon DEF WithValue, WithField
  <2>7. need <= Len(d.buf) /\ need + size + 1 <= Len(d.buf)
    BY <1>3, <1>5, <1>6, <2>4, Zenon
  <2> HIDE DEF b, F, d
  <2> QED BY <2>3, <2>5, <2>6, <2>7, Zenon
<1> HIDE DEF b, F
<1> QED BY <1>1, <1>7, <1>8, <1>9, ConsumeKeeps, Zenon

LEMMA OversizedKeeps == JournalInv /\ Oversized => JournalInv'
<1> SUFFICES ASSUME JournalInv, Oversized PROVE JournalInv'
  OBVIOUS
<1>1. /\ JournalShape /\ feeding # NoSource /\ feeding' = NoSource
      /\ decoders' = [decoders EXCEPT ![feeding] = [buf |-> <<>>, fields |-> NoFields]]
      /\ journaled' = journaled /\ disturbed' = disturbed \cup {feeding}
      /\ position' = position /\ lostDatagrams' = lostDatagrams
  BY Zenon DEF JournalInv, Oversized, BinaryName, HasLine, UNCHANGED_Socket, FreshDecoder
<1>2. feeding \in Sources /\ disturbed \subseteq Sources
  BY <1>1, FeedingIs, Zenon DEF JournalShape, JournalTypeOK
<1>3. disturbed' \subseteq Sources /\ feeding' \in {feeding, NoSource}
  BY <1>1, <1>2
<1>4. journaled' = [s \in Sources |-> journaled'[s]]
  BY <1>1, Zenon DEF JournalShape
<1>5. <<>> \in Seq(Octet) /\ Len(<<>>) <= MaxJournalBuf
  BY JournalAssumption
<1>6. JournalShape' /\ \A s : s # feeding => Held(s)' = Held(s)
  BY <1>1, <1>3, <1>4, <1>5, DecoderSet, Zenon
<1>7. ASSUME NEW s \in Sources \ disturbed' PROVE InStep(s)'
  <2>1. s \in Sources \ disturbed /\ feeding # s
    BY <1>1
  <2>2. Held(s)' = Held(s) /\ position'[s] = position[s] /\ journaled'[s] = journaled[s]
    BY <1>1, <1>6, <2>1, Zenon
  <2> QED BY <2>1, <2>2, OthersKept, Zenon
<1> QED BY <1>6, <1>7, Zenon DEF JournalInv

LEMMA FeedReturnsKeeps == JournalInv /\ FeedReturns => JournalInv'
<1> SUFFICES ASSUME JournalInv, FeedReturns PROVE JournalInv'
  OBVIOUS
<1> DEFINE d == decoders[feeding]
<1>1. /\ JournalShape /\ feeding # NoSource /\ feeding' = NoSource
      /\ decoders' = decoders /\ journaled' = journaled /\ disturbed' = disturbed
      /\ position' = position /\ lostDatagrams' = lostDatagrams
  BY Zenon DEF JournalInv, FeedReturns, UNCHANGED_Socket
<1>2. \/ NewLine \notin ToSet(Buf)
      \/ /\ NewLine \in ToSet(Buf) /\ Line # <<>> /\ Equals \notin ToSet(Line)
         /\ ~(Len(Buf) >= Need) \/ (Len(Buf) >= Need /\ ~(Len(Buf) >= Need + Size + 1))
  <2>1. HasLine <=> NewLine \in ToSet(Buf)
    BY <1>1, Zenon DEF HasLine
  <2>2. \/ ~HasLine
        \/ BinaryName /\ (Len(Buf) < Need \/ (Len(Buf) >= Need /\ ~BinaryWhole))
    BY Zenon DEF FeedReturns
  <2>3. Len(Buf) < Need => ~(Len(Buf) >= Need) \/ ~HasLine
    <3>1. ASSUME HasLine PROVE Len(Buf) \in Nat /\ Need \in Nat
      <4>1. Buf \in Seq(Octet) /\ Line = LineOf(Buf) /\ Need = Len(Line) + 1 + SizeBytes
        BY <1>1, FeedingIs, Zenon DEF Line, LineOf, Need
      <4>2. Len(Line) \in Nat /\ SizeBytes \in Nat /\ Len(Buf) \in Nat
        BY <2>1, <3>1, <4>1, LineIs, JournalAssumption
      <4> QED BY <4>1, <4>2
    <3> QED BY <3>1
  <2> QED BY <2>1, <2>2, <2>3, Zenon DEF BinaryName, BinaryWhole
<1>3. /\ feeding \in Sources /\ Buf \in Seq(Octet) /\ Len(Buf) \in Nat
      /\ position[feeding] \in Nat /\ position[feeding] <= Len(Stream(feeding))
  BY <1>1, FeedingIs, Zenon
<1>4. /\ Line = LineOf(Buf) /\ d.buf = Buf
      /\ Need = Len(Line) + 1 + SizeBytes /\ Size = Uint(SubSeq(Buf, Len(Line) + 2, Need))
  BY Zenon DEF Buf, Line, LineOf, Need, Size
<1>5. JournalShape'
  <2>1. feeding' \in DOMAIN decoders' \cup {NoSource}
    BY <1>1
  <2>2. JournalTypeOK'
    BY <1>1, <2>1, Zenon DEF JournalShape, JournalTypeOK
  <2> QED BY <1>1, <2>2, Zenon DEF JournalShape
<1>6. ASSUME NEW s \in Sources \ disturbed PROVE InStep(s)'
  <2>1. Held(s)' = Held(s) /\ position'[s] = position[s] /\ journaled'[s] = journaled[s]
    BY <1>1, Zenon DEF Held
  <2>2. CASE feeding # s
    BY <2>1, <2>2, OthersKept, Zenon
  <2>3. CASE feeding = s
    <3>1. PICK k \in Nat, j \in Nat : Stands(feeding, k, j, d, position[feeding], journaled[feeding])
      BY <1>1, <2>3, FeedingStands, Zenon
    <3> HIDE DEF d
    <3>2. NewLine \notin ToSet(d.buf) \/ Len(d.buf) < Len(Item(feeding, k, j))
      <4>1. CASE NewLine \notin ToSet(Buf)
        BY <1>4, <4>1, Zenon
      <4>2. CASE /\ NewLine \in ToSet(Buf) /\ Line # <<>> /\ Equals \notin ToSet(Line)
                 /\ ~(Len(Buf) >= Need) \/ (Len(Buf) >= Need /\ ~(Len(Buf) >= Need + Size + 1))
        <5>1. NewLine \in ToSet(d.buf) /\ LineOf(d.buf) # <<>> /\ Equals \notin ToSet(LineOf(d.buf))
          BY <1>4, <4>2, Zenon
        <5> DEFINE line == LineOf(d.buf)  need == Len(line) + 1 + SizeBytes
                   size == Uint(SubSeq(d.buf, Len(line) + 2, need))  l == Len(Item(feeding, k, j))
        <5>2. /\ need <= Len(d.buf) => size \in Nat /\ l = need + size + 1
              /\ ~(need <= Len(d.buf)) => Len(d.buf) < l
              /\ Len(line) \in Nat
          BY <1>3, <3>1, <5>1, AtBinary, Zenon
        <5>3. line = Line /\ need = Need /\ size = Size
          BY <1>4, Zenon
        <5>4. SizeBytes \in Nat /\ need = Len(line) + 1 + SizeBytes
          BY JournalAssumption
        <5> HIDE DEF line, need, size, l
        <5>5. need \in Nat
          BY <5>2, <5>4
        <5>6. Len(d.buf) < l
          BY <1>3, <1>4, <4>2, <5>2, <5>3, <5>5
        <5> QED BY <5>6 DEF l
      <4> QED BY <1>2, <4>1, <4>2, Zenon
    <3>3. Short(feeding, k, j, position[feeding])
      BY <1>3, <3>1, <3>2, AtWait, Zenon
    <3>4. Held(feeding) = d
      BY <1>1, FeedingIs, Zenon DEF d
    <3>5. /\ Stands(s, k, j, Held(s)', position'[s], journaled'[s])
          /\ Short(s, k, j, position'[s])
      BY <2>1, <2>3, <3>1, <3>3, <3>4, Zenon
    <3> QED BY <3>5, Zenon DEF InStep
  <2> QED BY <2>2, <2>3, Zenon
<1> QED BY <1>1, <1>5, <1>6, Zenon DEF JournalInv

-----------------------------------------------------------------------------
(* A datagram *)

LEMMA FreshIs ==
    FreshDecoder.buf = <<>> /\ FreshDecoder = [buf |-> FreshDecoder.buf, fields |-> FreshDecoder.fields]
BY DEF FreshDecoder

LEMMA HeldIs ==
    ASSUME JournalShape, NEW s \in Sources
    PROVE  /\ Held(s) = [buf |-> Held(s).buf, fields |-> Held(s).fields]
           /\ Held(s).buf \in Seq(Octet)
<1>1. CASE s \in DOMAIN decoders
  BY <1>1, Zenon DEF Held, JournalShape
<1>2. CASE s \notin DOMAIN decoders
  <2>1. Held(s) = FreshDecoder
    BY <1>2, Zenon DEF Held
  <2>2. <<>> \in Seq(Octet)
    OBVIOUS
  <2> QED BY <2>1, <2>2, FreshIs, Zenon
<1> QED BY <1>1, <1>2

\* The table with a decoder for s: what s had is kept, and so is every other
\* decoder that is still there.
LEMMA FoundIs ==
    ASSUME JournalShape, NEW s \in Sources
    PROVE  /\ DOMAIN WithDecoder(s) \subseteq Sources /\ s \in DOMAIN WithDecoder(s)
           /\ IsFiniteSet(DOMAIN WithDecoder(s)) /\ Cardinality(DOMAIN WithDecoder(s)) <= MaxJournalSources
           /\ WithDecoder(s)[s] = Held(s)
           /\ \A x \in DOMAIN WithDecoder(s) :
                 x # s => x \in DOMAIN decoders /\ WithDecoder(s)[x] = decoders[x]
<1> DEFINE D == DOMAIN decoders
           keeps == s \in D \/ Cardinality(D) < MaxJournalSources
           kept == IF keeps THEN decoders ELSE [x \in {} |-> FreshDecoder]
           found == [x \in DOMAIN kept \cup {s} |-> IF x \in DOMAIN kept THEN kept[x] ELSE FreshDecoder]
<1>1. D \subseteq Sources /\ IsFiniteSet(D) /\ Cardinality(D) <= MaxJournalSources /\ Cardinality(D) \in Nat
  <2>1. D \subseteq Sources /\ IsFiniteSet(D) /\ Cardinality(D) <= MaxJournalSources
    BY Zenon DEF JournalShape, JournalTypeOK
  <2> QED BY <2>1, FS_CardinalityType, Zenon
<1>2. WithDecoder(s) = found
  BY Zenon DEF WithDecoder
<1>3. DOMAIN found = DOMAIN kept \cup {s} /\ s \in DOMAIN found
  BY Zenon
<1>4. \A x \in DOMAIN found : found[x] = IF x \in DOMAIN kept THEN kept[x] ELSE FreshDecoder
  BY Zenon
<1> HIDE DEF found
<1>5. MaxJournalSources \in Nat \ {0}
  BY JournalAssumption
<1>6. CASE keeps
  <2>1. kept = decoders
    BY <1>6, Zenon
  <2> HIDE DEF kept
  <2>2. IsFiniteSet(D \cup {s}) /\ Cardinality(D \cup {s}) <= MaxJournalSources
    <3>1. /\ IsFiniteSet(D \cup {s})
          /\ Cardinality(D \cup {s}) = IF s \in D THEN Cardinality(D) ELSE Cardinality(D) + 1
      <4> HIDE DEF D
      <4> QED BY <1>1, FS_AddElement, Zenon
    <3>2. CASE s \in D
      BY <1>1, <3>1, <3>2, Zenon
    <3>3. CASE s \notin D
      <4>1. Cardinality(D) < MaxJournalSources
        BY <1>6, <3>3
      <4>2. Cardinality(D \cup {s}) = Cardinality(D) + 1
        BY <3>1, <3>3, Zenon
      <4> QED BY <1>1, <1>5, <3>1, <4>1, <4>2
    <3> QED BY <3>2, <3>3
  <2>3. found[s] = Held(s)
    BY <1>3, <1>4, <2>1, Zenon DEF Held
  <2>4. \A x \in DOMAIN found : x # s => x \in DOMAIN decoders /\ found[x] = decoders[x]
    BY <1>3, <1>4, <2>1, Zenon
  <2>5. DOMAIN found = D \cup {s} /\ D \cup {s} \subseteq Sources
    BY <1>1, <1>3, <2>1
  <2> QED BY <1>2, <1>3, <2>2, <2>3, <2>4, <2>5, Zenon
<1>7. CASE ~keeps
  <2>1. kept = [x \in {} |-> FreshDecoder] /\ s \notin D
    BY <1>7, Zenon
  <2> HIDE DEF kept
  <2>2. DOMAIN kept = {}
    BY <2>1
  <2>3. DOMAIN found = {s}
    BY <1>3, <2>2
  <2>4. found[s] = Held(s)
    BY <1>3, <1>4, <2>1, <2>2, Zenon DEF Held
  <2>5. IsFiniteSet({s}) /\ Cardinality({s}) <= MaxJournalSources
    <3>1. IsFiniteSet({s}) /\ Cardinality({s}) = 1
      BY FS_Singleton, Zenon
    <3> QED BY <1>5, <3>1
  <2>6. {s} \subseteq Sources
    OBVIOUS
  <2> QED BY <1>2, <2>3, <2>4, <2>5, <2>6, Zenon
<1> QED BY <1>6, <1>7, Zenon

LEMMA DatagramKeeps ==
    ASSUME JournalInv, NEW s \in Sources, NEW n \in 1 .. MaxDatagram, Datagram(s, n)
    PROVE  JournalInv'
<1> DEFINE found == WithDecoder(s)  w == Held(s).buf \o Chunk(s, n)
           overflow == Len(w) > MaxJournalBuf
           d == IF overflow THEN FreshDecoder ELSE [Held(s) EXCEPT !.buf = w]
<1>1. /\ DOMAIN found \subseteq Sources /\ s \in DOMAIN found
      /\ IsFiniteSet(DOMAIN found) /\ Cardinality(DOMAIN found) <= MaxJournalSources
      /\ found[s] = Held(s)
      /\ \A x \in DOMAIN found : x # s => x \in DOMAIN decoders /\ found[x] = decoders[x]
  <2>1. JournalShape
    BY Zenon DEF JournalInv
  <2> QED BY <2>1, FoundIs, Zenon
<1>2. /\ feeding = NoSource /\ position[s] + n <= Len(Stream(s)) /\ feeding' = s
      /\ position' = [position EXCEPT ![s] = @ + n]
      /\ journaled' = journaled /\ lostDatagrams' = lostDatagrams
  BY Zenon DEF Datagram
<1>3. /\ decoders' = [found EXCEPT ![s] = IF Len(found[s].buf \o Chunk(s, n)) > MaxJournalBuf THEN FreshDecoder
                                         ELSE [@ EXCEPT !.buf = found[s].buf \o Chunk(s, n)]]
      /\ disturbed' = disturbed \cup {x \in DOMAIN decoders \ DOMAIN found : decoders[x] # FreshDecoder}
                                \cup (IF Len(found[s].buf \o Chunk(s, n)) > MaxJournalBuf THEN {s} ELSE {})
  BY Zenon DEF Datagram
<1> HIDE DEF found
<1>4. /\ decoders' = [found EXCEPT ![s] = d]
      /\ disturbed' = disturbed \cup {x \in DOMAIN decoders \ DOMAIN found : decoders[x] # FreshDecoder}
                                \cup (IF overflow THEN {s} ELSE {})
  <2>1. found[s].buf \o Chunk(s, n) = w
    BY <1>1, Zenon
  <2>2. decoders' = [found EXCEPT ![s] = IF overflow THEN FreshDecoder ELSE [found[s] EXCEPT !.buf = w]]
    <3> HIDE DEF w
    <3> QED BY <1>3, <2>1, Zenon
  <2>3. disturbed' = disturbed \cup {x \in DOMAIN decoders \ DOMAIN found : decoders[x] # FreshDecoder}
                                \cup (IF overflow THEN {s} ELSE {})
    <3> HIDE DEF w
    <3> QED BY <1>3, <2>1, Zenon
  <2> QED BY <1>1, <2>2, <2>3, Zenon
<1>5. /\ JournalShape /\ disturbed \subseteq Sources /\ position \in [Sources -> Nat]
      /\ Held(s) = [buf |-> Held(s).buf, fields |-> Held(s).fields] /\ Held(s).buf \in Seq(Octet)
      /\ \A x \in Sources : position[x] <= Len(Stream(x))
  <2>1. JournalShape
    BY Zenon DEF JournalInv
  <2> QED BY <2>1, HeldIs, Zenon DEF JournalShape, JournalTypeOK
<1>6. position[s] \in Nat /\ n \in Nat \ {0} /\ Len(Stream(s)) \in Nat /\ Stream(s) \in Seq(Octet)
  <2>1. Stream(s) \in Seq(Octet)
    BY SourceStream
  <2> QED BY <1>5, <2>1, LenProperties, JournalAssumption
<1>7. Chunk(s, n) = SubSeq(Stream(s), position[s] + 1, position[s] + n) /\ Chunk(s, n) \in Seq(Octet)
  <2>1. Chunk(s, n) = SubSeq(Stream(s), position[s] + 1, position[s] + n)
    BY Zenon DEF Chunk
  <2>2. /\ position[s] + 1 \in Nat \ {0} /\ position[s] + n \in Nat
        /\ position[s] + 1 <= (position[s] + n) + 1
    BY <1>6
  <2>3. SubSeq(Stream(s), position[s] + 1, position[s] + n) \in Seq(Octet)
    BY <1>2, <1>6, <2>2, Slice
  <2> QED BY <2>1, <2>3, Zenon
\* The decoder of s.
<1>8. d = [buf |-> d.buf, fields |-> d.fields] /\ d.buf \in Seq(Octet) /\ Len(d.buf) <= MaxJournalBuf
  <2>1. w \in Seq(Octet) /\ Len(w) \in Nat /\ MaxJournalBuf \in Nat
    BY <1>5, <1>7, ConcatProperties, LenProperties, JournalAssumption
  <2> HIDE DEF w
  <2>2. CASE overflow
    <3>1. d = FreshDecoder
      BY <2>2, Zenon
    <3>2. <<>> \in Seq(Octet) /\ Len(<<>>) <= MaxJournalBuf
      BY <2>1
    <3> HIDE DEF d
    <3> QED BY <3>1, <3>2, FreshIs, Zenon
  <2>3. CASE ~overflow
    <3> DEFINE g == Held(s).buf  f == Held(s).fields
    <3>1. Held(s) = [buf |-> g, fields |-> f]
      BY <1>5, Zenon
    <3> HIDE DEF g, f
    <3>2. [[buf |-> g, fields |-> f] EXCEPT !.buf = w] = [buf |-> w, fields |-> f]
      OBVIOUS
    <3>3. d = [buf |-> w, fields |-> f]
      BY <2>3, <3>1, <3>2, Zenon
    <3>4. [buf |-> w, fields |-> f].buf = w /\ [buf |-> w, fields |-> f].fields = f
      OBVIOUS
    <3>5. Len(w) <= MaxJournalBuf
      BY <2>1, <2>3
    <3> HIDE DEF d
    <3> QED BY <2>1, <3>3, <3>4, <3>5, Zenon
  <2> QED BY <2>2, <2>3, Zenon
<1>9. ~overflow => d = [Held(s) EXCEPT !.buf = Held(s).buf \o SubSeq(Stream(s), position[s] + 1, position[s] + n)]
  BY <1>7, Zenon
<1> HIDE DEF d, overflow
<1>10. DOMAIN decoders' = DOMAIN found /\ decoders'[s] = d
       /\ \A x \in DOMAIN found : x # s => decoders'[x] = decoders[x]
  BY <1>1, <1>4, Zenon
<1>11. decoders' = [x \in DOMAIN decoders' |-> decoders'[x]]
  BY <1>4, <1>10, Zenon
<1>12. ASSUME NEW x \in DOMAIN decoders'
       PROVE  /\ decoders'[x] = [buf |-> decoders'[x].buf, fields |-> decoders'[x].fields]
              /\ decoders'[x].buf \in Seq(Octet) /\ Len(decoders'[x].buf) <= MaxJournalBuf
  <2>1. CASE x = s
    BY <1>8, <1>10, <2>1, Zenon
  <2>2. CASE x # s
    <3>1. x \in DOMAIN decoders /\ decoders'[x] = decoders[x]
      BY <1>1, <1>10, <2>2, Zenon
    <3>2. /\ decoders[x] = [buf |-> decoders[x].buf, fields |-> decoders[x].fields]
          /\ decoders[x].buf \in Seq(Octet) /\ Len(decoders[x].buf) <= MaxJournalBuf
      BY <1>5, <3>1, Zenon DEF JournalShape, JournalTypeOK
    <3> QED BY <3>1, <3>2, Zenon
  <2> QED BY <2>1, <2>2, Zenon
<1>13. /\ position' \in [Sources -> Nat] /\ position'[s] = position[s] + n
       /\ \A x \in Sources : x # s => position'[x] = position[x]
  BY <1>2, <1>5, <1>6
<1>14. \A x \in Sources : position'[x] <= Len(Stream(x))
  BY <1>2, <1>5, <1>13, Zenon
<1>15. disturbed \subseteq disturbed' /\ disturbed' \subseteq Sources
  <2>1. DOMAIN decoders \subseteq Sources
    BY <1>5, Zenon DEF JournalShape, JournalTypeOK
  <2> QED BY <1>4, <1>5, <2>1
<1>16. JournalShape'
  <2>1. feeding' \in DOMAIN decoders' \cup {NoSource}
    BY <1>1, <1>2, <1>10
  <2>2. lostDatagrams' \in 0 .. MaxLostDatagrams
    BY <1>2, <1>5, Zenon DEF JournalShape, JournalTypeOK
  <2>3. JournalTypeOK'
    BY <1>1, <1>10, <1>12, <1>13, <1>14, <1>15, <2>1, <2>2, Zenon DEF JournalTypeOK
  <2>4. journaled' = [x \in Sources |-> journaled'[x]]
    BY <1>2, <1>5, Zenon DEF JournalShape
  <2> QED BY <1>1, <1>10, <1>11, <1>12, <2>3, <2>4, Zenon DEF JournalShape
<1>17. ASSUME NEW x \in Sources \ disturbed' PROVE InStep(x)'
  <2>1. x \in Sources \ disturbed
    BY <1>15
  <2>2. feeding # x
    BY <1>2, <2>1, JournalAssumption
  <2>3. CASE x # s
    <3>1. Held(x)' = Held(x)
      <4>1. CASE x \in DOMAIN found
        BY <1>1, <1>10, <2>3, <4>1, Zenon DEF Held
      <4>2. CASE x \notin DOMAIN found
        <5>1. Held(x)' = FreshDecoder
          BY <1>10, <4>2, Zenon DEF Held
        <5>2. x \in DOMAIN decoders => decoders[x] = FreshDecoder
          BY <1>4, <4>2
        <5> QED BY <5>1, <5>2, Zenon DEF Held
      <4> QED BY <4>1, <4>2
    <3>2. position'[x] = position[x] /\ journaled'[x] = journaled[x]
      BY <1>2, <1>13, <2>3, Zenon
    <3> QED BY <2>1, <2>2, <3>1, <3>2, OthersKept, Zenon
  <2>4. CASE x = s
    <3>1. ~overflow
      BY <1>4, <2>4
    <3>2. InStep(s)
      BY <2>1, <2>4, Zenon DEF JournalInv
    <3>3. PICK k \in Nat, j \in Nat : Stands(s, k, j, Held(s), position[s], journaled[s])
      BY <3>2, Zenon DEF InStep
    <3>4. n \in Nat
      BY <1>6
    <3>5. Stands(s, k, j, [Held(s) EXCEPT !.buf = Held(s).buf \o SubSeq(Stream(s), position[s] + 1, position[s] + n)],
                 position[s] + n, journaled[s])
      BY <1>2, <1>6, <3>3, <3>4, Arrives, Zenon
    <3>6. Held(s)' = d /\ position'[s] = position[s] + n /\ journaled'[s] = journaled[s] /\ feeding' = s
      BY <1>1, <1>2, <1>10, <1>13, Zenon DEF Held
    <3>7. Stands(s, k, j, Held(s)', position'[s], journaled'[s])
      BY <1>9, <3>1, <3>5, <3>6, Zenon
    <3> QED BY <2>4, <3>6, <3>7, Zenon DEF InStep
  <2> QED BY <2>3, <2>4, Zenon
<1> QED BY <1>16, <1>17, Zenon DEF JournalInv

LEMMA LoseDatagramKeeps ==
    ASSUME JournalInv, NEW s \in Sources, NEW n \in 1 .. MaxDatagram, LoseDatagram(s, n)
    PROVE  JournalInv'
<1>1. /\ feeding = NoSource /\ position[s] + n <= Len(Stream(s))
      /\ lostDatagrams < MaxLostDatagrams /\ lostDatagrams' = lostDatagrams + 1
      /\ position' = [position EXCEPT ![s] = @ + n] /\ disturbed' = disturbed \cup {s}
      /\ decoders' = decoders /\ feeding' = feeding /\ journaled' = journaled
  BY Zenon DEF LoseDatagram
<1>2. /\ JournalShape /\ JournalTypeOK /\ disturbed \subseteq Sources /\ position \in [Sources -> Nat]
      /\ \A x \in Sources : position[x] <= Len(Stream(x))
      /\ lostDatagrams \in 0 .. MaxLostDatagrams
  BY Zenon DEF JournalInv, JournalShape, JournalTypeOK
<1>3. n \in Nat /\ MaxLostDatagrams \in Nat
  BY JournalAssumption
<1>4. /\ position' \in [Sources -> Nat] /\ position'[s] = position[s] + n
      /\ \A x \in Sources : x # s => position'[x] = position[x]
  BY <1>1, <1>2, <1>3
<1>5. JournalShape'
  <2>1. \A x \in Sources : position'[x] <= Len(Stream(x))
    BY <1>1, <1>2, <1>4, Zenon
  <2>2. lostDatagrams' \in 0 .. MaxLostDatagrams
    BY <1>1, <1>2, <1>3
  <2>3. disturbed' \subseteq Sources
    BY <1>1, <1>2
  <2>4. JournalTypeOK'
    BY <1>1, <1>2, <1>4, <2>1, <2>2, <2>3, Zenon DEF JournalTypeOK
  <2> QED BY <1>1, <1>2, <2>4, Zenon DEF JournalShape
<1>6. ASSUME NEW x \in Sources \ disturbed' PROVE InStep(x)'
  <2>1. x \in Sources \ disturbed /\ x # s
    BY <1>1
  <2>2. feeding # x
    BY <1>1, <2>1, JournalAssumption
  <2>3. Held(x)' = Held(x) /\ position'[x] = position[x] /\ journaled'[x] = journaled[x]
    BY <1>1, <1>4, <2>1, Zenon DEF Held
  <2> QED BY <2>1, <2>2, <2>3, OthersKept, Zenon
<1> QED BY <1>5, <1>6, Zenon DEF JournalInv

LEMMA JournalInitInv == JournalInit => JournalInv
<1> SUFFICES ASSUME JournalInit PROVE JournalInv
  OBVIOUS
<1>1. /\ position = [s \in Sources |-> 0] /\ decoders = [s \in {} |-> FreshDecoder]
      /\ feeding = NoSource /\ journaled = [s \in Sources |-> <<>>]
      /\ disturbed = {} /\ lostDatagrams = 0
  BY Zenon DEF JournalInit
<1>2. DOMAIN decoders = {} /\ IsFiniteSet({}) /\ Cardinality({}) = 0
  BY <1>1, FS_EmptySet
<1>3. JournalTypeOK
  <2>1. position \in [Sources -> Nat] /\ \A s \in Sources : position[s] = 0
    BY <1>1
  <2>2. \A s \in Sources : 0 <= Len(Stream(s))
    <3>1. \A s \in Sources : Len(Stream(s)) \in Nat
      BY SourceStream, LenProperties
    <3> QED BY <3>1
  <2>3. Cardinality(DOMAIN decoders) <= MaxJournalSources /\ lostDatagrams \in 0 .. MaxLostDatagrams
    BY <1>1, <1>2, JournalAssumption
  <2> QED BY <1>1, <1>2, <2>1, <2>2, <2>3 DEF JournalTypeOK
<1>4. JournalShape
  <2>1. decoders = [s \in DOMAIN decoders |-> decoders[s]]
    BY <1>1, Zenon
  <2>2. journaled = [s \in Sources |-> journaled[s]]
    BY <1>1, Zenon
  <2> QED BY <1>2, <1>3, <2>1, <2>2 DEF JournalShape
<1>5. ASSUME NEW s \in Sources PROVE InStep(s)
  <2>1. /\ Len(Journal[s]) \in Nat /\ Uploads(s) \in Seq(Seq(Octet)) /\ Journal[s] \in Seq(Seq(JournalField))
        /\ \A i \in 0 .. Len(Journal[s]) : EndOf(s, i) = Len(Upto(Uploads(s), i))
    BY SourceStream
  <2>2. 0 \in 0 .. Len(Journal[s]) /\ 0 \in Nat
    BY <2>1
  <2>3. At(s, 0, 0) = 0 /\ 0 \in 0 .. Len(Under(s, 0))
    <3>1. At(s, 0, 0) = EndOf(s, 0) /\ 0 \in 0 .. Len(Under(s, 0))
      BY <2>2, PlaceBetween
    <3>2. EndOf(s, 0) = Len(Upto(Uploads(s), 0)) /\ Upto(Uploads(s), 0) = <<>>
      BY <2>1, <2>2, UptoIs
    <3> QED BY <3>1, <3>2
  <2>4. SubSeq(Stream(s), 0 + 1, 0) = <<>> /\ SubSeq(Under(s, 0), 1, 0) = <<>>
    BY SubSeqEmpty
  <2>5. RecordsOf(Journal[s])[0] = <<>>
    BY <2>1, RecordsOfIs
  <2>6. Held(s) = [buf |-> SubSeq(Stream(s), At(s, 0, 0) + 1, 0), fields |-> FieldsOf(SubSeq(Under(s, 0), 1, 0))]
    <3>1. Held(s) = [buf |-> <<>>, fields |-> NoFields]
      BY <1>2, Zenon DEF Held, FreshDecoder
    <3> QED BY <2>3, <2>4, <3>1, FieldsOfNone, Zenon
  <2>7. position[s] = 0 /\ journaled[s] = <<>>
    BY <1>1, Zenon
  <2>8. At(s, 0, 0) <= 0
    BY <2>3
  <2>9. Stands(s, 0, 0, Held(s), 0, <<>>)
    BY <2>2, <2>3, <2>5, <2>6, <2>8, Zenon DEF Stands
  <2>10. Short(s, 0, 0, 0)
    <3>1. ASSUME 0 < Len(Journal[s]) PROVE 0 < At(s, 0, 0) + Len(Item(s, 0, 0))
      <4>1. Len(Item(s, 0, 0)) \in Nat \ {0}
        BY <2>2, <2>3, <3>1, Place
      <4> QED BY <2>3, <4>1
    <3> QED BY <3>1, Zenon DEF Short
  <2> QED BY <2>2, <2>7, <2>9, <2>10, Zenon DEF InStep
<1> QED BY <1>4, <1>5 DEF JournalInv

LEMMA JournalNextInv == JournalInv /\ [JournalNext]_journalVars => JournalInv'
<1> SUFFICES ASSUME JournalInv, [JournalNext]_journalVars PROVE JournalInv'
  OBVIOUS
<1>1. ASSUME NEW s \in Sources, NEW n \in 1 .. MaxDatagram, Datagram(s, n) PROVE JournalInv'
  BY <1>1, DatagramKeeps
<1>2. ASSUME NEW s \in Sources, NEW n \in 1 .. MaxDatagram, LoseDatagram(s, n) PROVE JournalInv'
  BY <1>2, LoseDatagramKeeps
<1>3. CASE UNCHANGED journalVars
  <2>1. /\ position' = position /\ decoders' = decoders /\ feeding' = feeding
        /\ journaled' = journaled /\ disturbed' = disturbed /\ lostDatagrams' = lostDatagrams
    BY <1>3, Zenon DEF journalVars
  <2>2. JournalShape'
    BY <2>1, Zenon DEF JournalInv, JournalShape, JournalTypeOK
  <2>3. \A s \in Sources \ disturbed' : InStep(s)'
    BY <2>1, Zenon DEF JournalInv, InStep, Held
  <2> QED BY <2>2, <2>3, Zenon DEF JournalInv
<1> QED BY <1>1, <1>2, <1>3, TerminatorKeeps, TextFieldKeeps, BinaryFieldKeeps, OversizedKeeps,
           FeedReturnsKeeps, Zenon DEF JournalNext

-----------------------------------------------------------------------------
(* What is complete *)

LEMMA EndsGrow ==
    ASSUME NEW s \in Sources, NEW i \in 0 .. Len(Journal[s]), NEW k \in i .. Len(Journal[s])
    PROVE  EndOf(s, i) <= EndOf(s, k) /\ EndOf(s, i) \in Nat /\ EndOf(s, k) \in Nat
<1>1. /\ Len(Journal[s]) \in Nat /\ Uploads(s) \in Seq(Seq(Octet)) /\ Len(Uploads(s)) = Len(Journal[s])
      /\ \A x \in 0 .. Len(Journal[s]) : EndOf(s, x) = Len(Upto(Uploads(s), x)) /\ EndOf(s, x) \in Nat
  BY SourceStream
<1>2. i \in 0 .. Len(Uploads(s)) /\ k \in i .. Len(Uploads(s)) /\ k \in 0 .. Len(Journal[s])
  BY <1>1
<1>3. Len(Upto(Uploads(s), i)) <= Len(Upto(Uploads(s), k))
  BY <1>1, <1>2, UptoPrefix
<1> QED BY <1>1, <1>2, <1>3

LEMMA CompleteIs ==
    ASSUME NEW s \in Sources, NEW k, NEW j, NEW d, position[s] \in Nat, NEW r,
           Stands(s, k, j, d, position[s], r), Short(s, k, j, position[s]),
           position[s] <= Len(Stream(s))
    PROVE  Cardinality(Complete(s)) = k
<1> DEFINE J == Journal[s]  p == position[s]
<1>1. k \in 0 .. Len(J) /\ j \in 0 .. Len(Under(s, k)) /\ Len(J) \in Nat /\ At(s, k, j) \in Nat /\ At(s, k, j) <= p
  <2>1. Facing(s, k, j, d, p)
    BY Faced, Zenon
  <2> QED BY <2>1, Zenon DEF Facing
<1>2. EndOf(s, k) <= p
  <2>1. CASE k < Len(J)
    <3>1. EndOf(s, k) <= At(s, k, j)
      BY <1>1, <2>1, Place
    <3>2. EndOf(s, k) \in Nat
      BY <1>1, PlaceBetween
    <3> QED BY <1>1, <3>1, <3>2
  <2>2. CASE k = Len(J)
    <3>1. At(s, k, 0) = EndOf(s, k) /\ Under(s, k) = <<>>
      BY <1>1, <2>2, PlaceBetween
    <3>2. j = 0
      BY <1>1, <3>1
    <3> QED BY <1>1, <3>1, <3>2, Zenon
  <2> QED BY <1>1, <2>1, <2>2
<1>3. ASSUME k < Len(J) PROVE p < EndOf(s, k + 1)
  <2>1. p < At(s, k, j) + Len(Item(s, k, j))
    BY <1>3, Zenon DEF Short
  <2>2. /\ At(s, k, j) + Len(Item(s, k, j)) <= EndOf(s, k + 1) /\ EndOf(s, k + 1) \in Nat
        /\ Len(Item(s, k, j)) \in Nat
    BY <1>1, <1>3, Place
  <2> DEFINE a == At(s, k, j)  l == Len(Item(s, k, j))  E == EndOf(s, k + 1)
  <2>3. p < a + l /\ a + l <= E /\ p \in Nat /\ a \in Nat /\ l \in Nat /\ E \in Nat
    BY <1>1, <2>1, <2>2, Zenon
  <2> HIDE DEF a, l, E, p
  <2>4. p < E
    BY <2>3
  <2> QED BY <2>4 DEF E
<1>4. ASSUME NEW i \in 1 .. Len(J) PROVE EndOf(s, i) <= p <=> i \in 1 .. k
  <2>1. CASE i <= k
    <3>1. i \in 0 .. Len(J) /\ k \in i .. Len(J) /\ i \in 1 .. k
      BY <1>1, <2>1
    <3>2. EndOf(s, i) <= EndOf(s, k) /\ EndOf(s, i) \in Nat /\ EndOf(s, k) \in Nat
      BY <3>1, EndsGrow
    <3> QED BY <1>2, <3>1, <3>2
  <2>2. CASE k < i
    <3>1. k < Len(J) /\ k + 1 \in 0 .. Len(J) /\ i \in (k + 1) .. Len(J) /\ i \notin 1 .. k
      BY <1>1, <2>2
    <3>2. EndOf(s, k + 1) <= EndOf(s, i) /\ EndOf(s, k + 1) \in Nat /\ EndOf(s, i) \in Nat
      BY <3>1, EndsGrow
    <3>3. p < EndOf(s, k + 1)
      BY <1>3, <3>1
    <3> QED BY <3>1, <3>2, <3>3
  <2> QED BY <1>1, <2>1, <2>2
<1>5. Complete(s) = 1 .. k
  <2>1. DOMAIN J = 1 .. Len(J)
    <3>1. J \in Seq(Seq(JournalField))
      BY SourceStream
    <3> QED BY <3>1
  <2>2. Complete(s) = {i \in 1 .. Len(J) : EndOf(s, i) <= p}
    BY <2>1, Zenon DEF Complete
  <2>3. \A i \in 1 .. k : i \in 1 .. Len(J)
    BY <1>1
  <2> HIDE DEF J, p
  <2> QED BY <1>4, <2>2, <2>3
<1>6. 1 \in Int /\ k \in Int /\ k \in Nat
  BY <1>1
<1>7. Cardinality(1 .. k) = IF 1 > k THEN 0 ELSE k - 1 + 1
  BY <1>6, FS_Interval
<1> QED BY <1>5, <1>6, <1>7

LEMMA JournalInvExact == JournalInv => JournalExact
<1> SUFFICES ASSUME JournalInv, feeding = NoSource, NEW s \in Sources \ disturbed
             PROVE  journaled[s] = RecordsOf(Journal[s])[Cardinality(Complete(s))]
  BY DEF JournalExact
<1>1. feeding # s
  BY JournalAssumption
<1>2. InStep(s)
  BY Zenon DEF JournalInv
<1>3. PICK k \in Nat, j \in Nat : /\ Stands(s, k, j, Held(s), position[s], journaled[s])
                                  /\ Short(s, k, j, position[s])
  BY <1>1, <1>2, Zenon DEF InStep
<1>4. position[s] \in Nat /\ position[s] <= Len(Stream(s)) /\ s \in Sources
  BY DEF JournalInv, JournalShape, JournalTypeOK
<1>5. Cardinality(Complete(s)) = k
  BY <1>3, <1>4, CompleteIs, Zenon
<1>6. journaled[s] = RecordsOf(Journal[s])[k]
  BY <1>3, Zenon DEF Stands
<1> QED BY <1>5, <1>6, Zenon

LEMMA JournalInvariance == JournalSafety => []JournalInv
<1>1. JournalInit => JournalInv
  BY JournalInitInv
<1>2. JournalInv /\ [JournalNext]_journalVars => JournalInv'
  BY JournalNextInv
<1> QED BY <1>1, <1>2, PTL DEF JournalSafety

\* Type correctness of the journald listener: never more decoders than the table
\* has places, no buffer beyond its bound, and no byte read that was not sent.
THEOREM JournalTypeCorrect == JournalSafety => []JournalTypeOK
<1>1. JournalInv => JournalTypeOK
  BY Zenon DEF JournalInv, JournalShape
<1> QED BY <1>1, JournalInvariance, PTL

\* JournalExact for all entries the export format carries, wherever their
\* streams are cut into datagrams: a source that lost nothing has had exactly its
\* complete entries appended, in order.
THEOREM JournalExactHolds == JournalSafety => []JournalExact
<1>1. JournalInv => JournalExact
  BY JournalInvExact
<1> QED BY <1>1, JournalInvariance, PTL
=============================================================================
