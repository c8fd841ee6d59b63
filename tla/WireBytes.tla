------------------------------ MODULE WireBytes ------------------------------
(***************************************************************************)
(* What the byte-level listeners share: a stream is a sequence of ASCII    *)
(* codes, and a syslog priority is a facility and a severity.              *)
(***************************************************************************)
EXTENDS Integers, Sequences, SequencesExt, FiniteSets

Ascii == 0 .. 127
NewLine == 10
CR == 13
Space == 32
Digit == 48 .. 57
Plus == 43
Minus == 45

\* What bytes.TrimSpace takes away, among ASCII codes.
White == {9, NewLine, 11, 12, CR, Space}

\* bytes.IndexByte, one-based: the first place of b, or 0.
IndexByte(s, b) ==
    IF b \in ToSet(s) THEN CHOOSE i \in DOMAIN s : s[i] = b /\ \A j \in 1 .. i - 1 : s[j] # b
    ELSE 0

\* strconv.Atoi: decimal digits behind an optional sign, or -1 for its error. A
\* number beyond int64, an error too, is not reduced: it is no priority either.
Atoi(s) ==
    LET signed == s # <<>> /\ Head(s) \in {Plus, Minus}
        digits == IF signed THEN Tail(s) ELSE s
        n == FoldLeft(LAMBDA m, d : 10 * m + d - 48, 0, digits)
    IN IF digits = <<>> \/ ToSet(digits) \ Digit # {} THEN -1
       ELSE IF Head(s) = Minus THEN -n ELSE n

\* severityToLevel, by severity 0 to 7.
SeverityToLevel ==
    <<"PANIC", "SEVERE", "SEVERE", "ERROR", "WARN", "LOG", "INFO", "DEBUG">>

\* A priority above 191 names no facility.
Priorities == 0 .. 191
Facility(pri) == pri \div 8
Level(pri) == SeverityToLevel[1 + (pri % 8)]
=============================================================================
