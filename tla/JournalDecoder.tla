--------------------------- MODULE JournalDecoder ---------------------------
(***************************************************************************)
(* The journald listener: one goroutine reads datagrams, reassembles the   *)
(* export stream of each source in a decoder of its own and appends the    *)
(* entries a datagram completes. A stream is cut into datagrams anywhere;  *)
(* a datagram may be lost, and a source that comes when the table of       *)
(* decoders is full empties the table. Bytes are their ASCII codes; the    *)
(* size of a binary value has SizeBytes.                                   *)
(***************************************************************************)
EXTENDS WireBytes

CONSTANTS
    Sources,            \* addresses that send
    Journal,            \* Journal[s]: the entries s exports, sequences of fields
    SizeBytes,          \* bytes of a binary field's size: 8 in the code
    MaxJournalBuf,      \* maxJournalBuf of the code (1 << 20)
    MaxJournalSources,  \* maxJournalSources of the code (1024)
    MaxDatagram,        \* bound: bytes of a datagram
    MaxLostDatagrams    \* bound: datagrams lost

Equals == 61
MESSAGE == <<77>>       \* M
PRIORITY == <<80>>      \* P
IDENTIFIER == <<73>>    \* I: SYSLOG_IDENTIFIER
COMM == <<67>>          \* C: _COMM
NoSource == "none"

\* What remains of n when its lowest i bytes are taken away.
Shifted(n) ==
    LET rest[i \in 0 .. SizeBytes] == IF i = 0 THEN n ELSE rest[i - 1] \div 256
    IN rest

\* The fields the export format can carry: a name holds neither '=' nor a
\* newline, and the length of a value fits its size.
Octet == 0 .. 255
JournalField ==
    {f \in [name : Seq(Octet), value : Seq(Octet)] :
        /\ f.name # <<>> /\ {Equals, NewLine} \cap ToSet(f.name) = {}
        /\ Shifted(Len(f.value))[SizeBytes] = 0}

ASSUME JournalAssumption ==
    /\ SizeBytes \in Nat \ {0} /\ MaxJournalBuf \in Nat /\ MaxJournalSources \in Nat \ {0}
    /\ MaxDatagram \in Nat \ {0} /\ MaxLostDatagrams \in Nat
    /\ NoSource \notin Sources
    /\ \A s \in Sources : Journal[s] \in Seq(Seq(JournalField))

VARIABLES
    position,      \* position[s]: bytes of its stream s has sent
    decoders,      \* JournaldServer.decoders: address -> [buf, fields]
    feeding,       \* the source whose datagram feed is working on, or NoSource
    journaled,     \* journaled[s]: entries of s appended to the ingest path
    disturbed,     \* history: sources that lost a datagram or their decoder
    lostDatagrams

journalVars == <<position, decoders, feeding, journaled, disturbed, lostDatagrams>>

NoFields == [n \in {} |-> <<>>]
FreshDecoder == [buf |-> <<>>, fields |-> NoFields]

(***************************************************************************)
(* journalctl -o export (external)                                         *)
(***************************************************************************)

LittleEndian(n) == [i \in 1 .. SizeBytes |-> Shifted(n)[i - 1] % 256]

\* A value that holds a newline is exported in binary form.
EncodedField(f) ==
    IF NewLine \in ToSet(f.value)
    THEN f.name \o <<NewLine>> \o LittleEndian(Len(f.value)) \o f.value \o <<NewLine>>
    ELSE f.name \o <<Equals>> \o f.value \o <<NewLine>>

EncodedEntry(fields) ==
    Append(FlattenSeq([i \in DOMAIN fields |-> EncodedField(fields[i])]), NewLine)

Stream(s) == FlattenSeq([i \in DOMAIN Journal[s] |-> EncodedEntry(Journal[s][i])])

\* Number of bytes up to the end of entry i of s.
EndOf(s, i) == Len(FlattenSeq([j \in 1 .. i |-> EncodedEntry(Journal[s][j])]))

(***************************************************************************)
(* The entry                                                               *)
(***************************************************************************)

HasMessage(fields) == MESSAGE \in DOMAIN fields /\ fields[MESSAGE] # <<>>

\* entryFromJournal: an entry needs a MESSAGE; a priority that is not one is 6.
EntryFromJournal(fields) ==
    LET Get(n) == IF n \in DOMAIN fields THEN fields[n] ELSE <<>>
        pri == IF Atoi(Get(PRIORITY)) \in Priorities THEN Atoi(Get(PRIORITY)) ELSE 6
    IN [msg |-> Get(MESSAGE),
        app |-> IF Get(IDENTIFIER) # <<>> THEN Get(IDENTIFIER) ELSE Get(COMM),
        facility |-> Facility(pri),
        lvl |-> Level(pri),
        fields |-> [n \in DOMAIN fields \ {MESSAGE, PRIORITY, IDENTIFIER} |-> fields[n]]]

AppendEntry(s, fields) ==
    journaled' = IF HasMessage(fields)
                 THEN [journaled EXCEPT ![s] = Append(@, EntryFromJournal(fields))]
                 ELSE journaled

(***************************************************************************)
(* The read loop and feed                                                  *)
(***************************************************************************)

JournalInit ==
    /\ position = [s \in Sources |-> 0]
    /\ decoders = [s \in {} |-> FreshDecoder]
    /\ feeding = NoSource
    /\ journaled = [s \in Sources |-> <<>>]
    /\ disturbed = {} /\ lostDatagrams = 0

\* The next n bytes of s.
Chunk(s, n) == SubSeq(Stream(s), position[s] + 1, position[s] + n)

\* The decoders once s has one: a full table is thrown away first.
WithDecoder(s) ==
    LET kept == IF s \in DOMAIN decoders \/ Cardinality(DOMAIN decoders) < MaxJournalSources
                THEN decoders ELSE [x \in {} |-> FreshDecoder]
    IN [x \in DOMAIN kept \cup {s} |-> IF x \in DOMAIN kept THEN kept[x] ELSE FreshDecoder]

\* A datagram of s arrives and is put behind what its decoder holds; a buffer
\* that grows too long is dropped, the fields of the entry under way with it.
Datagram(s, n) ==
    /\ feeding = NoSource /\ position[s] + n <= Len(Stream(s))
    /\ position' = [position EXCEPT ![s] = @ + n]
    /\ LET found == WithDecoder(s)
           buf == found[s].buf \o Chunk(s, n)
           overflow == Len(buf) > MaxJournalBuf
       IN /\ decoders' = [found EXCEPT ![s] = IF overflow THEN FreshDecoder
                                              ELSE [@ EXCEPT !.buf = buf]]
          /\ disturbed' = disturbed \cup {x \in DOMAIN decoders \ DOMAIN found : decoders[x] # FreshDecoder}
                                    \cup (IF overflow THEN {s} ELSE {})
    /\ feeding' = s
    /\ UNCHANGED <<journaled, lostDatagrams>>

LoseDatagram(s, n) ==
    /\ feeding = NoSource /\ position[s] + n <= Len(Stream(s))
    /\ lostDatagrams < MaxLostDatagrams
    /\ lostDatagrams' = lostDatagrams + 1
    /\ position' = [position EXCEPT ![s] = @ + n]
    /\ disturbed' = disturbed \cup {s}
    /\ UNCHANGED <<decoders, feeding, journaled>>

Buf == decoders[feeding].buf
Fields == decoders[feeding].fields
HasLine == feeding # NoSource /\ NewLine \in ToSet(Buf)
Line == SubSeq(Buf, 1, IndexByte(Buf, NewLine) - 1)

\* What remains of the buffer after its first n bytes, and the fields read.
Consume(n, fields) ==
    decoders' = [decoders EXCEPT ![feeding] =
                   [buf |-> SubSeq(Buf, n + 1, Len(Buf)), fields |-> fields]]

WithField(name, value) ==
    [n \in DOMAIN Fields \cup {name} |-> IF n = name THEN value ELSE Fields[n]]

UNCHANGED_Socket == UNCHANGED <<position, lostDatagrams>>

\* An empty line ends the entry.
Terminator ==
    /\ HasLine /\ Line = <<>>
    /\ Consume(1, NoFields)
    /\ AppendEntry(feeding, Fields)
    /\ UNCHANGED <<feeding, disturbed>> /\ UNCHANGED_Socket

TextField ==
    /\ HasLine /\ Equals \in ToSet(Line)
    /\ LET eq == IndexByte(Line, Equals)
       IN Consume(Len(Line) + 1, WithField(SubSeq(Line, 1, eq - 1), SubSeq(Line, eq + 1, Len(Line))))
    /\ UNCHANGED <<feeding, journaled, disturbed>> /\ UNCHANGED_Socket

\* A line without '=' is the name of a binary field: its size follows.
BinaryName == HasLine /\ Line # <<>> /\ Equals \notin ToSet(Line)
Need == Len(Line) + 1 + SizeBytes

\* binary.LittleEndian: the number its bytes spell, from the last one on.
Uint(bytes) ==
    LET n[i \in 0 .. SizeBytes] ==
          IF i = 0 THEN 0 ELSE 256 * n[i - 1] + bytes[SizeBytes + 1 - i]
    IN n[SizeBytes]
Size == Uint(SubSeq(Buf, Len(Line) + 2, Need))

\* Mutant: the newline after the value is not waited for.
BinaryWholeEarly == BinaryName /\ Len(Buf) >= Need /\ Len(Buf) >= Need + Size

\* The value and the newline behind it are there.
BinaryWhole == BinaryName /\ Len(Buf) >= Need /\ Len(Buf) >= Need + Size + 1

BinaryField ==
    /\ BinaryWhole /\ Size <= MaxJournalBuf
    /\ Consume(Need + Size + 1, WithField(Line, SubSeq(Buf, Need + 1, Need + Size)))
    /\ UNCHANGED <<feeding, journaled, disturbed>> /\ UNCHANGED_Socket

\* A size that cannot be: the stream is out of step, everything is dropped.
Oversized ==
    /\ BinaryName /\ Len(Buf) >= Need /\ Size > MaxJournalBuf
    /\ decoders' = [decoders EXCEPT ![feeding] = FreshDecoder]
    /\ disturbed' = disturbed \cup {feeding}
    /\ feeding' = NoSource
    /\ UNCHANGED journaled /\ UNCHANGED_Socket

\* feed returns: no whole line, or a binary field that is not complete.
FeedReturns ==
    /\ feeding # NoSource
    /\ \/ ~HasLine
       \/ BinaryName /\ Len(Buf) < Need
       \/ BinaryName /\ Len(Buf) >= Need /\ Size <= MaxJournalBuf /\ ~BinaryWhole
    /\ feeding' = NoSource
    /\ UNCHANGED <<decoders, journaled, disturbed>> /\ UNCHANGED_Socket

JournalNext ==
    \/ \E s \in Sources, n \in 1 .. MaxDatagram : Datagram(s, n) \/ LoseDatagram(s, n)
    \/ Terminator \/ TextField \/ BinaryField \/ Oversized \/ FeedReturns

JournalSafety == JournalInit /\ [][JournalNext]_journalVars

(***************************************************************************)
(* Properties                                                              *)
(***************************************************************************)

JournalTypeOK ==
    /\ position \in [Sources -> Nat] /\ \A s \in Sources : position[s] <= Len(Stream(s))
    /\ DOMAIN decoders \subseteq Sources /\ Cardinality(DOMAIN decoders) <= MaxJournalSources
    /\ \A s \in DOMAIN decoders : Len(decoders[s].buf) <= MaxJournalBuf
    /\ feeding \in DOMAIN decoders \cup {NoSource}
    /\ disturbed \subseteq Sources /\ lostDatagrams \in 0 .. MaxLostDatagrams

\* The fields of an entry; a name that comes twice has its last value.
FieldsOf(entry) ==
    [n \in {entry[i].name : i \in DOMAIN entry} |->
       entry[CHOOSE i \in DOMAIN entry :
                entry[i].name = n /\ \A j \in i + 1 .. Len(entry) : entry[j].name # n].value]

\* What is to be appended once an entry is complete too, and after each entry:
\* nothing for an entry without a message.
AndRecord(due, entry) ==
    IF HasMessage(FieldsOf(entry)) THEN Append(due, EntryFromJournal(FieldsOf(entry))) ELSE due

RecordsOf(entries) ==
    LET due[i \in 0 .. Len(entries)] ==
          IF i = 0 THEN <<>> ELSE AndRecord(due[i - 1], entries[i])
    IN due

\* The entries of s that are complete in what it has sent.
Complete(s) == {i \in DOMAIN Journal[s] : EndOf(s, i) <= position[s]}

\* Wherever its stream was cut into datagrams, and whatever other sources did,
\* a source that lost nothing has had exactly its complete entries appended,
\* in order. It loses something with a datagram, with a buffer that is too long
\* and with a decoder thrown away in the middle of an entry.
JournalExact ==
    feeding = NoSource =>
       \A s \in Sources \ disturbed :
          journaled[s] = RecordsOf(Journal[s])[Cardinality(Complete(s))]
=============================================================================
