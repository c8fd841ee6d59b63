---------------------------- MODULE SyslogFraming ----------------------------
(***************************************************************************)
(* One TCP connection of the syslog listener. The client frames each       *)
(* message as it likes: octet-counted (with or without a newline behind    *)
(* the message) or newline-delimited; readSyslogFrame finds out which from *)
(* the first bytes. The connection may end after any byte. Of a message    *)
(* the model reads the priority and which of the two RFCs its body is      *)
(* parsed by; the heuristics that take the body apart are left out.        *)
(***************************************************************************)
EXTENDS WireBytes

CONSTANTS
    SyslogStreams,   \* streams that are sent: sequences of [how, count, msg]
    MaxSyslogFrame,  \* maxSyslogFrame of the code (1 << 20)
    MaxDigits        \* digits of a count: 8 in the code

\* The number a sequence of digits spells, after each of them.
Spelled(ds) ==
    LET value[i \in 0 .. Len(ds)] == IF i = 0 THEN 0 ELSE 10 * value[i - 1] + ds[i] - 48
    IN value

\* A text that readSyslogFrame takes for an octet count.
LooksCounted(text) ==
    \E d \in 1 .. MaxDigits :
       /\ d < Len(text) /\ text[1] # 48 /\ \A i \in 1 .. d : text[i] \in Digit
       /\ text[d + 1] = Space /\ Spelled(text)[d] \in 1 .. MaxSyslogFrame

Messages ==
    [how : {"line", "octets", "octets and newline"}, count : Seq(Digit), msg : Seq(Ascii)]

\* What the two framings can carry. A line holds no newline and does not begin
\* like a count; a count is that of the message, without leading zeros, within
\* the limits of the listener.
Framable(m) ==
    IF m.how = "line" THEN NewLine \notin ToSet(m.msg) /\ ~LooksCounted(m.msg)
    ELSE /\ Len(m.count) \in 1 .. MaxDigits /\ m.count[1] # 48
         /\ Spelled(m.count)[Len(m.count)] = Len(m.msg)
         /\ Len(m.msg) \in 1 .. MaxSyslogFrame

ASSUME SyslogAssumption ==
    /\ MaxSyslogFrame \in Nat /\ MaxDigits \in Nat \ {0}
    /\ \A ms \in SyslogStreams : ms \in Seq(Messages) /\ \A i \in DOMAIN ms : Framable(ms[i])

VARIABLES
    syslogSent,   \* the messages the client sends
    received,     \* bytes that arrive before the connection ends
    frameAt,      \* bytes readSyslogFrame has consumed
    reading,      \* "first": at the start of a frame, "count": after a digit, "over"
    count,        \* n of readSyslogFrame
    digits,       \* digits of readSyslogFrame
    syslogged     \* entries appended to the ingest path

syslogVars == <<syslogSent, received, frameAt, reading, count, digits, syslogged>>

LessThan == 60
GreaterThan == 62

(***************************************************************************)
(* The client (external)                                                   *)
(***************************************************************************)

OnWire(m) ==
    CASE m.how = "line" -> Append(m.msg, NewLine)
      [] m.how = "octets" -> m.count \o <<Space>> \o m.msg
      [] m.how = "octets and newline" -> m.count \o <<Space>> \o m.msg \o <<NewLine>>

\* What is on the wire after each message.
Wire(ms) ==
    LET sent[i \in 0 .. Len(ms)] == IF i = 0 THEN <<>> ELSE sent[i - 1] \o OnWire(ms[i])
    IN sent

(***************************************************************************)
(* EntryFromSyslog                                                         *)
(***************************************************************************)

\* bytes.TrimRight(line, "\r\n")
Trimmed(line) ==
    LET content == {i \in DOMAIN line : line[i] \notin {CR, NewLine}}
    IN SubSeq(line, 1, IF content = {} THEN 0 ELSE CHOOSE i \in content : \A j \in content : j <= i)

\* len(bytes.TrimSpace(line)) == 0
IsBlank(line) == ToSet(line) \subseteq White

\* parsePRI: the place of '>' among the first five bytes, 0 when there is no <PRI>.
PriEnd(line) ==
    LET end == IndexByte(SubSeq(line, 1, IF Len(line) < 5 THEN Len(line) ELSE 5), GreaterThan)
    IN IF Len(line) >= 3 /\ line[1] = LessThan /\ end >= 3
          /\ Atoi(SubSeq(line, 2, end - 1)) \in Priorities
       THEN end ELSE 0

\* A message without a priority is kept whole, as INFO.
EntryFromSyslog(line) ==
    LET end == PriEnd(line)
        pri == Atoi(SubSeq(line, 2, end - 1))
        rest == SubSeq(line, end + 1, Len(line))
        new == Len(rest) >= 2 /\ rest[1] = 49 /\ rest[2] = Space
    IN IF end = 0 THEN [lvl |-> "INFO", facility |-> -1, rfc |-> "none", body |-> line]
       ELSE [lvl |-> Level(pri), facility |-> Facility(pri),
             rfc |-> IF new THEN "5424" ELSE "3164",
             body |-> IF new THEN SubSeq(rest, 3, Len(rest)) ELSE rest]

\* handleConn: a frame that is not empty or blank becomes an entry.
AppendFrame(line) ==
    syslogged' = IF IsBlank(Trimmed(line)) THEN syslogged
                 ELSE Append(syslogged, EntryFromSyslog(Trimmed(line)))

(***************************************************************************)
(* readSyslogFrame                                                         *)
(***************************************************************************)

SyslogInit ==
    /\ syslogSent \in SyslogStreams
    /\ LET wire == Wire(syslogSent)[Len(syslogSent)]
       IN \E n \in 0 .. Len(wire) : received = SubSeq(wire, 1, n)
    /\ frameAt = 0 /\ reading = "first" /\ count = 0 /\ digits = 0
    /\ syslogged = <<>>

AtEnd == frameAt = Len(received)
Here == received[frameAt + 1]
Ahead == SubSeq(received, frameAt + 1, Len(received))

UNCHANGED_Client == UNCHANGED <<syslogSent, received>>

\* The frame is the prefix and what follows up to the next newline, or, when
\* the connection ends first, up to its end.
ReadLine(prefix) ==
    LET nl == IndexByte(Ahead, NewLine)
        taken == IF nl = 0 THEN Len(Ahead) ELSE nl
    IN /\ AppendFrame(prefix \o SubSeq(Ahead, 1, taken))
       /\ frameAt' = frameAt + taken
       /\ reading' = IF nl = 0 THEN "over" ELSE "first"
       /\ UNCHANGED <<count, digits>> /\ UNCHANGED_Client

\* The connection ends between two frames or inside a count: nothing to append.
EndOfStream ==
    /\ reading # "over" /\ AtEnd
    /\ reading' = "over"
    /\ UNCHANGED <<frameAt, count, digits, syslogged>> /\ UNCHANGED_Client

LineFrame ==
    /\ reading = "first" /\ ~AtEnd /\ Here \notin Digit \ {48}
    /\ ReadLine(<<>>)

FirstDigit ==
    /\ reading = "first" /\ ~AtEnd /\ Here \in Digit \ {48}
    /\ reading' = "count" /\ count' = Here - 48 /\ digits' = 1
    /\ frameAt' = frameAt + 1
    /\ UNCHANGED syslogged /\ UNCHANGED_Client

More == Here \in Digit /\ digits < MaxDigits

NextDigit ==
    /\ reading = "count" /\ ~AtEnd /\ More
    /\ count' = 10 * count + Here - 48 /\ digits' = digits + 1
    /\ frameAt' = frameAt + 1
    /\ UNCHANGED <<reading, syslogged>> /\ UNCHANGED_Client

Counted == Here = Space /\ count \in 1 .. MaxSyslogFrame

\* An octet-counted frame is read whole, or given up when the connection ends.
OctetFrame ==
    /\ reading = "count" /\ ~AtEnd /\ Counted
    /\ LET whole == Len(Ahead) > count
       IN /\ IF whole THEN AppendFrame(SubSeq(Ahead, 2, count + 1)) ELSE UNCHANGED syslogged
          /\ frameAt' = IF whole THEN frameAt + 1 + count ELSE Len(received)
          /\ reading' = IF whole THEN "first" ELSE "over"
    /\ UNCHANGED <<count, digits>> /\ UNCHANGED_Client

\* strconv.Itoa(n): the digits consumed, for the first one is not zero.
Itoa == SubSeq(received, frameAt - digits + 1, frameAt)

\* Mutant: the digits that turned out not to be a count are dropped.
NotCountedDropped ==
    /\ reading = "count" /\ ~AtEnd /\ ~More /\ ~Counted
    /\ ReadLine(<<>>)

\* Not a count after all: the digits begin a newline-delimited message.
NotCounted ==
    /\ reading = "count" /\ ~AtEnd /\ ~More /\ ~Counted
    /\ ReadLine(Itoa)

SyslogNext == EndOfStream \/ LineFrame \/ FirstDigit \/ NextDigit \/ OctetFrame \/ NotCounted

SyslogSafety == SyslogInit /\ [][SyslogNext]_syslogVars

(***************************************************************************)
(* Properties                                                              *)
(***************************************************************************)

SyslogTypeOK ==
    /\ frameAt \in 0 .. Len(received)
    /\ reading \in {"first", "count", "over"}
    /\ digits \in 0 .. MaxDigits /\ count \in Nat

\* The entries due once m has arrived too, and after each message: none for a
\* blank one.
AndEntry(due, m) ==
    IF IsBlank(m.msg) THEN due ELSE Append(due, EntryFromSyslog(Trimmed(m.msg)))

EntriesOf(ms) ==
    LET due[i \in 0 .. Len(ms)] == IF i = 0 THEN <<>> ELSE AndEntry(due[i - 1], ms[i])
    IN due

\* The messages that arrived whole; the newline behind an octet-counted one is
\* not part of it.
FrameEnd(i) ==
    Len(Wire(syslogSent)[i]) - (IF syslogSent[i].how = "octets and newline" THEN 1 ELSE 0)
Whole == {i \in DOMAIN syslogSent : FrameEnd(i) <= Len(received)}

\* When the connection is over, the entries are those of the messages that
\* arrived whole, each once and in order, whatever mixture of framings the
\* client used, and after them at most one more: the beginning of a
\* newline-delimited message the connection cut off.
FramesExact ==
    reading = "over" =>
       LET whole == Cardinality(Whole)
           entries == EntriesOf(syslogSent)[whole]
           next == syslogSent[whole + 1]
       IN \/ syslogged = entries
          \/ /\ whole < Len(syslogSent) /\ next.how = "line"
             /\ \E k \in 1 .. Len(next.msg) :
                   syslogged = Append(entries, EntryFromSyslog(Trimmed(SubSeq(next.msg, 1, k))))
=============================================================================
