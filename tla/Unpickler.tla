------------------------------ MODULE Unpickler ------------------------------
(***************************************************************************)
(* The unpickler of the Python listener: a stack machine over the opcodes  *)
(* of a pickled LogRecord dict, and the mapping of the dict it yields onto *)
(* an entry. Dicts are references, as Go maps are; lists and tuples are    *)
(* values, as the code's slices are (append pushes a new one). A byte has  *)
(* Byte values and an integer MaxLong bytes, so that TLC can reach both    *)
(* ends of the range. The frames are what Python's pickler writes for the  *)
(* records of a small set, whole or cut short.                             *)
(***************************************************************************)
EXTENDS Integers, Sequences, SequencesExt, FiniteSets

CONSTANTS
    PyRecords,  \* LogRecord dicts: sequences of <<key, value>>
    Byte,       \* values of a byte: 256 in the code
    MaxLong     \* bytes of an int64: 8 in the code

ASSUME UnpicklerAssumption == Byte \in Nat \ {0, 1} /\ MaxLong \in Nat \ {0}

VARIABLES
    record,   \* the record the client logged
    proto,    \* the pickle protocol of the client: 0, 1, 2, or 4 (with or without frames)
    prog,     \* the opcodes of the frame
    cut,      \* the frame was cut short
    pc,       \* opcodes executed (pos of the code)
    stack, memo,
    dicts,    \* the maps made so far: stack values refer to them by index
    result    \* "running", "error", or "done": stack holds the dict

pickleVars == <<record, proto, prog, cut, pc, stack, memo, dicts, result>>

\* Python values and stack values.
Nil == [t |-> "nil"]
Bool(b) == [t |-> "bool", b |-> b]
Number(n) == [t |-> "int", n |-> n]
Float(f) == [t |-> "float", f |-> f]
Str(s) == [t |-> "str", s |-> s]
List(items) == [t |-> "list", items |-> items]
DictAt(i) == [t |-> "dict", at |-> i]
Mark == [t |-> "mark"]

(***************************************************************************)
(* Integers                                                                *)
(***************************************************************************)

Unsigned(bytes) == FoldRight(LAMBDA b, v : b + Byte * v, bytes, 0)
Signed(v, width) == IF v >= Byte^width \div 2 THEN v - Byte^width ELSE v

\* Mutant: the sign of a short LONG1 is not extended.
Long1Unsigned(bytes) == Signed(Unsigned(bytes), MaxLong)

\* LONG1: n bytes in little-endian two's complement, sign-extended to int64.
Long1(bytes) ==
    LET n == Len(bytes)
        negative == n > 0 /\ bytes[n] >= Byte \div 2
        extension == IF negative THEN Byte^MaxLong - Byte^n ELSE 0
    IN Signed(Unsigned(bytes) + extension, MaxLong)

(***************************************************************************)
(* Python's pickler (external)                                             *)
(***************************************************************************)

Op(op, arg) == [op |-> op, arg |-> arg]
Digits(n, width) == [i \in 1 .. width |-> (n \div Byte^(i - 1)) % Byte]
Fits(n, width) == -(Byte^width) \div 2 <= n /\ n < Byte^width \div 2

IntOp(n) ==
    IF proto = 0 /\ Fits(n, 4) THEN Op("INT", n)
    ELSE IF proto = 0 THEN Op("LONG", n)
    ELSE IF n \in 0 .. Byte - 1 THEN Op("BININT", Digits(n, 1))
    ELSE IF n \in 0 .. Byte^2 - 1 THEN Op("BININT", Digits(n, 2))
    ELSE IF Fits(n, 4) THEN Op("BININT", Digits(n % Byte^4, 4))
    ELSE IF proto = 1 THEN Op("LONG", n)
    ELSE LET width == CHOOSE w \in 5 .. 2 * MaxLong :
                         Fits(n, w) /\ \A x \in 5 .. w - 1 : ~Fits(n, x)
         IN Op("LONG1", Digits(n % Byte^width, width))

\* The opcode that leaves a value on the stack; objects have an identity, and
\* one that was met before is fetched from the memo. Protocol 0 has opcodes of its
\* own, in text, for strings and the memo; its containers begin with a mark and
\* take their items one by one.
Emit(p, op) == [p EXCEPT !.ops = Append(@, op)]

Memoized(p, object) ==
    [ops |-> Append(p.ops, CASE proto = 4 -> Op("MEMOIZE", 0)
                             [] proto = 0 -> Op("PUT_TEXT", Len(p.seen))
                             [] OTHER -> Op("PUT", Len(p.seen))),
     seen |-> Append(p.seen, object)]

NewContainer(p, binary, text) ==
    IF proto = 0 THEN Emit(Emit(p, Op("MARK", 0)), Op(text, 0)) ELSE Emit(p, Op(binary, 0))

SaveVia(Item(_, _), p, v) ==
    LET Items(q, items) == FoldLeft(Item, q, items)
        Marked(q, items) == Items(Emit(q, Op("MARK", 0)), items)
        known == {i \in DOMAIN p.seen : p.seen[i] = v}
        OneByOne(q, groups, op) == FoldLeft(LAMBDA r, g : Emit(Items(r, g), Op(op, 0)), q, groups)
    IN CASE known # {} -> Emit(p, Op(IF proto = 0 THEN "GET_TEXT" ELSE "GET", (CHOOSE i \in known : TRUE) - 1))
         [] v.t = "nil" -> Emit(p, Op("NONE", 0))
         [] v.t = "bool" -> Emit(p, Op("BOOL", v.b))
         [] v.t = "int" -> Emit(p, IntOp(v.n))
         [] v.t = "float" -> Emit(p, Op("FLOAT", v.f))
         [] known = {} /\ v.t = "str" -> Memoized(Emit(p, Op(IF proto = 0 THEN "UNICODE" ELSE "STRING", v.s)), v)
         [] known = {} /\ v.t = "tuple" ->
               IF v.items = <<>> THEN NewContainer(p, "EMPTY_LIST", "TUPLE")
               ELSE IF proto < 2 \/ Len(v.items) > 3
               THEN Memoized(Emit(Marked(p, v.items), Op("TUPLE", 0)), v)
               ELSE Memoized(Emit(Items(p, v.items), Op("TUPLEN", Len(v.items))), v)
         [] known = {} /\ v.t = "list" ->
               LET q == Memoized(NewContainer(p, "EMPTY_LIST", "LIST"), v)
               IN IF proto = 0 \/ Len(v.items) < 2
                  THEN OneByOne(q, [i \in DOMAIN v.items |-> <<v.items[i]>>], "APPEND")
                  ELSE Emit(Marked(q, v.items), Op("APPENDS", 0))
         [] known = {} /\ v.t = "pydict" ->
               LET q == Memoized(NewContainer(p, "EMPTY_DICT", "DICT"), v)
                   pairs == [i \in DOMAIN v.pairs |-> <<Str(v.pairs[i][1]), v.pairs[i][2]>>]
               IN IF proto = 0 \/ Len(pairs) < 2
                  THEN OneByOne(q, pairs, "SETITEM")
                  ELSE Emit(Marked(q, FlattenSeq(pairs)), Op("SETITEMS", 0))

\* Values nest at most three deep below the record.
NoItems(p, v) == p
SaveScalar(p, v) == SaveVia(NoItems, p, v)
SaveFlat(p, v) == SaveVia(SaveScalar, p, v)
SaveNested(p, v) == SaveVia(SaveFlat, p, v)

PyDict(pairs) == [t |-> "pydict", pairs |-> pairs]

Pickled(framed) ==
    LET header == IF proto < 2 THEN <<>>
                  ELSE IF framed THEN <<Op("PROTO", 4), Op("FRAME", 0)>>
                  ELSE <<Op("PROTO", proto)>>
    IN Append(SaveVia(SaveNested, [ops |-> header, seen |-> <<>>], PyDict(record)).ops, Op("STOP", 0))

\* A frame may arrive cut: between two opcodes, or inside the argument of one.
Cuts(ops) ==
    {SubSeq(ops, 1, n) : n \in 0 .. Len(ops) - 1}
    \cup {Append(SubSeq(ops, 1, n), Op("PARTIAL", 0)) : n \in 0 .. Len(ops) - 2}

PickleInit ==
    /\ record \in PyRecords
    /\ proto \in {0, 1, 2, 4}
    /\ cut \in BOOLEAN
    /\ \E framed \in IF proto = 4 THEN BOOLEAN ELSE {FALSE} :
          IF cut THEN prog \in Cuts(Pickled(framed)) ELSE prog = Pickled(framed)
    /\ pc = 0 /\ stack = <<>> /\ memo = [i \in {} |-> Nil] /\ dicts = <<>>
    /\ result = "running"

(***************************************************************************)
(* The machine: one action per group of opcodes                            *)
(***************************************************************************)

\* The machine is about to execute one of these opcodes; pos moves past it.
Fetch(ops) ==
    /\ result = "running" /\ pc < Len(prog)
    /\ prog[pc + 1].op \in ops
    /\ pc' = pc + 1
    /\ UNCHANGED <<record, proto, prog, cut>>

Arg == prog[pc + 1].arg
Depth == Len(stack)

Push(st, v) == stack' = Append(st, v) /\ UNCHANGED <<memo, dicts, result>>
Abort == result' = "error" /\ UNCHANGED <<stack, memo, dicts>>

\* popMark: the items above the topmost mark, and the stack below it.
Marks == {i \in 1 .. Depth : stack[i] = Mark}
TopMark == CHOOSE i \in Marks : \A j \in Marks : j <= i
AboveMark == SubSeq(stack, TopMark + 1, Depth)
BelowMark == SubSeq(stack, 1, TopMark - 1)

Proto == Fetch({"PROTO"}) /\ UNCHANGED <<stack, memo, dicts, result>>

Stop ==
    /\ Fetch({"STOP"})
    /\ result' = IF Depth > 0 /\ stack[Depth].t = "dict" THEN "done" ELSE "error"
    /\ UNCHANGED <<stack, memo, dicts>>

PushMark == Fetch({"MARK"}) /\ Push(stack, Mark)

PushScalar ==
    \/ Fetch({"NONE"}) /\ Push(stack, Nil)
    \/ Fetch({"BOOL"}) /\ Push(stack, Bool(Arg))
    \/ Fetch({"FLOAT"}) /\ Push(stack, Float(Arg))
    \/ Fetch({"STRING"}) /\ Push(stack, Str(Arg))

\* BININT1 and BININT2 are unsigned, BININT is a signed 32-bit integer.
PushBinInt ==
    /\ Fetch({"BININT"})
    /\ Push(stack, Number(IF Len(Arg) = 4 THEN Signed(Unsigned(Arg), 4) ELSE Unsigned(Arg)))

\* INT and LONG are decimal text that strconv.ParseInt must take, LONG1 has at
\* most 8 bytes.
PushLong ==
    \/ Fetch({"INT", "LONG"}) /\ IF Fits(Arg, MaxLong) THEN Push(stack, Number(Arg)) ELSE Abort
    \/ Fetch({"LONG1"}) /\ IF Len(Arg) <= MaxLong THEN Push(stack, Number(Long1(Arg))) ELSE Abort

PushContainer ==
    \/ Fetch({"EMPTY_LIST"}) /\ Push(stack, List(<<>>))
    \/ /\ Fetch({"EMPTY_DICT"})
       /\ dicts' = Append(dicts, [k \in {} |-> Nil])
       /\ stack' = Append(stack, DictAt(Len(dicts) + 1))
       /\ UNCHANGED <<memo, result>>

BuildTuple ==
    \/ Fetch({"TUPLE"}) /\ IF Marks = {} THEN Abort ELSE Push(BelowMark, List(AboveMark))
    \/ /\ Fetch({"TUPLEN"})
       /\ IF Depth < Arg THEN Abort
          ELSE Push(SubSeq(stack, 1, Depth - Arg), List(SubSeq(stack, Depth - Arg + 1, Depth)))

\* APPEND and APPENDS replace the list on the stack by a longer one.
Extended(st, items) ==
    IF st = <<>> \/ st[Len(st)].t # "list" THEN Abort
    ELSE Push(Front(st), List(Last(st).items \o items))

AppendItems ==
    \/ Fetch({"APPEND"}) /\ IF Depth < 2 THEN Abort ELSE Extended(Front(stack), <<stack[Depth]>>)
    \/ Fetch({"APPENDS"}) /\ IF Marks = {} THEN Abort ELSE Extended(BelowMark, AboveMark)

\* The dict with the key-value pairs of items set in order.
WithItems(d, items) ==
    LET set(k) == {i \in DOMAIN items : i % 2 = 1 /\ items[i].s = k}
        keys == {items[i].s : i \in {i \in DOMAIN items : i % 2 = 1}}
    IN [k \in DOMAIN d \cup keys |->
          IF k \in keys
          THEN items[1 + CHOOSE i \in set(k) : \A j \in set(k) : j <= i]
          ELSE d[k]]

\* dictSet for each pair: the top of the stack must be a dict, the keys strings.
SetOn(st, items) ==
    IF \/ st = <<>> \/ Len(items) % 2 # 0 \/ st[Len(st)].t # "dict"
       \/ \E i \in DOMAIN items : i % 2 = 1 /\ items[i].t # "str"
    THEN Abort
    ELSE /\ stack' = st
         /\ dicts' = [dicts EXCEPT ![Last(st).at] = WithItems(@, items)]
         /\ UNCHANGED <<memo, result>>

SetItems ==
    \/ /\ Fetch({"SETITEM"})
       /\ IF Depth < 2 THEN Abort
          ELSE SetOn(SubSeq(stack, 1, Depth - 2), SubSeq(stack, Depth - 1, Depth))
    \/ Fetch({"SETITEMS"}) /\ IF Marks = {} THEN Abort ELSE SetOn(BelowMark, AboveMark)

\* BINPUT, LONG_BINPUT, and MEMOIZE, whose index is the size of the memo. An
\* empty stack stores nothing.
Remember(i) ==
    /\ memo' = IF Depth = 0 THEN memo
               ELSE [k \in DOMAIN memo \cup {i} |-> IF k = i THEN stack[Depth] ELSE memo[k]]
    /\ UNCHANGED <<stack, dicts, result>>

PutMemo ==
    \/ Fetch({"PUT"}) /\ Remember(Arg)
    \/ Fetch({"MEMOIZE"}) /\ Remember(Cardinality(DOMAIN memo))

\* A get of an index that was never put yields nil.
GetMemo == Fetch({"GET"}) /\ Push(stack, IF Arg \in DOMAIN memo THEN memo[Arg] ELSE Nil)

\* An opcode outside the subset, or one whose argument is not all there.
Unsupported ==
    /\ Fetch({"FRAME", "PARTIAL", "DICT", "LIST", "UNICODE", "PUT_TEXT", "GET_TEXT"})
    /\ Abort

\* The data end before a STOP.
RunOut ==
    /\ result = "running" /\ pc = Len(prog)
    /\ result' = "error"
    /\ UNCHANGED <<record, proto, prog, cut, pc, stack, memo, dicts>>

PickleNext ==
    \/ Proto \/ Stop \/ PushMark \/ PushScalar \/ PushBinInt \/ PushLong \/ PushContainer
    \/ BuildTuple \/ AppendItems \/ SetItems \/ PutMemo \/ GetMemo \/ Unsupported \/ RunOut

(***************************************************************************)
(* The record as an entry                                                  *)
(***************************************************************************)

PyLevels ==
    [CRITICAL |-> "SEVERE", ERROR |-> "ERROR", WARNING |-> "WARN", INFO |-> "INFO",
     DEBUG |-> "DEBUG", NOTSET |-> "LOG"]

\* pythonLevel: an unknown or missing name is INFO.
PythonLevel(v) == IF v.t = "str" /\ v.s \in DOMAIN PyLevels THEN PyLevels[v.s] ELSE "INFO"

\* The keys entryFromPython maps or leaves out; the others become fields.
MappedKeys ==
    {"msg", "message", "module", "process", "processName", "filename", "created",
     "levelname", "args", "exc_info", "msecs", "relativeCreated"}

Absent == [missing |-> TRUE]
Now == [now |-> TRUE]

\* What pyString renders as the empty string.
Blank(v) == v = Nil \/ v = Str("")

\* rec[k] of a Go map: nil for a key that is absent.
Value(rec, k) == IF k \in DOMAIN rec THEN rec[k] ELSE Nil

\* Mutant of Message: "message" is looked at only when there is no "msg".
MessageIfNoMsg(rec) == IF "msg" \in DOMAIN rec THEN Value(rec, "msg") ELSE Value(rec, "message")

Message(rec) == IF Blank(Value(rec, "msg")) THEN Value(rec, "message") ELSE Value(rec, "msg")

\* entryFromPython; the model keeps a value instead of the text pyString renders,
\* and the parts of src instead of their concatenation. The field "ip", which
\* record() adds, is left out.
EntryFromPython(rec) ==
    LET Else(k, default) == IF Blank(Value(rec, k)) THEN default ELSE Value(rec, k)
        parts == SelectSeq(<<Value(rec, "processName"), Value(rec, "filename")>>, LAMBDA v : ~Blank(v))
        created == Value(rec, "created")
    IN IF Blank(Message(rec)) THEN Absent
       ELSE [msg |-> Message(rec),
             app |-> Else("module", Str("python")),
             pid |-> Else("process", Str("")),
             src |-> IF parts = <<>> THEN <<Str("python")>> ELSE parts,
             ts |-> IF created.t = "float" /\ created.f > 0 THEN created ELSE Now,
             lvl |-> PythonLevel(Value(rec, "levelname")),
             fields |-> [k \in {k \in DOMAIN rec \ MappedKeys : rec[k] # Nil} |-> rec[k]]]

(***************************************************************************)
(* Properties                                                              *)
(***************************************************************************)

PickleTypeOK ==
    /\ pc \in 0 .. Len(prog) /\ proto \in {0, 1, 2, 4} /\ cut \in BOOLEAN
    /\ \A v \in ToSet(stack) \cup {memo[i] : i \in DOMAIN memo} :
          v.t = "dict" => v.at \in DOMAIN dicts
    /\ result \in {"running", "error", "done"}

\* What a stack value and a Python value stand for, three levels deep.
ResolvedVia(Item(_), v) ==
    CASE v.t = "list" -> List([i \in DOMAIN v.items |-> Item(v.items[i])])
      [] v.t = "dict" -> [t |-> "map", map |-> [k \in DOMAIN dicts[v.at] |-> Item(dicts[v.at][k])]]
      [] OTHER -> v
Resolved(v) == ResolvedVia(LAMBDA x : ResolvedVia(LAMBDA y : ResolvedVia(LAMBDA z : z, y), x), v)

MeantVia(Item(_), v) ==
    CASE v.t \in {"list", "tuple"} -> List([i \in DOMAIN v.items |-> Item(v.items[i])])
      [] v.t = "pydict" ->
            [t |-> "map",
             map |-> [k \in {v.pairs[i][1] : i \in DOMAIN v.pairs} |->
                        Item(v.pairs[CHOOSE i \in DOMAIN v.pairs : v.pairs[i][1] = k][2])]]
      [] OTHER -> v
Meant(v) == MeantVia(LAMBDA x : MeantVia(LAMBDA y : MeantVia(LAMBDA z : z, y), x), v)

\* Frames the unpickler refuses: an integer beyond int64, an opcode outside its subset.
Beyond == \E i \in DOMAIN record : record[i][2].t = "int" /\ ~Fits(record[i][2].n, MaxLong)
Refused == cut \/ Beyond \/ proto = 0 \/ \E i \in DOMAIN prog : prog[i].op = "FRAME"

\* The record as the unpickler knows it: a list of the record that is met again is
\* the empty list it was when it was put into the memo.
Remembered ==
    [i \in DOMAIN record |->
       IF record[i][2].t = "list" /\ \E j \in 1 .. i - 1 : record[j][2] = record[i][2]
       THEN <<record[i][1], List(<<>>)>> ELSE record[i]]

\* A whole frame gives back the record that was pickled, through the memo, the
\* marks and the shared dicts; a frame that is cut anywhere, an integer that does
\* not fit, protocol 0 and a protocol with frames are refused, never taken for
\* another record. (The comment at python.go:22 promises protocol 0, and lists
\* without the exception of Remembered.)
RecordExact ==
    /\ Refused => result # "done"
    /\ ~Refused => result # "error"
    /\ result = "done" => Resolved(stack[Depth]) = Meant(PyDict(Remembered))

\* The level a levelname stands for: "CRITICAL->SEVERE, WARNING->WARN, NOTSET->LOG"
\* (python.go:27), the others under their own names, and INFO for what is no level.
LevelOf(name) ==
    CASE name = Str("CRITICAL") -> "SEVERE" [] name = Str("WARNING") -> "WARN"
      [] name = Str("NOTSET") -> "LOG" [] name \in {Str("ERROR"), Str("DEBUG")} -> name.s
      [] OTHER -> "INFO"

\* The entry made of a decoded frame, against the pairs the client logged: it has
\* the text of msg, or of message when msg says nothing, and none exists exactly
\* when neither says anything; module, process, processName with filename, a
\* positive float created and levelname decide app, pid, src, ts and lvl, each
\* with its default; and each other pair that is not None is a field, once, with
\* the value that was logged, and there is no other field.
EntryExact ==
    result = "done" =>
       LET e == EntryFromPython(Resolved(stack[Depth]).map)
           Pairs(k) == {i \in DOMAIN record : record[i][1] = k /\ ~Blank(record[i][2])}
           Said(k) == {Meant(Remembered[i][2]) : i \in Pairs(k)}
           Or(k, default) == IF Said(k) = {} THEN {default} ELSE Said(k)
           process == Said("processName")
           file == Said("filename")
           stamps == {v \in Said("created") : v.t = "float" /\ v.f > 0}
           others == {i \in DOMAIN record : record[i][1] \notin MappedKeys /\ record[i][2] # Nil}
       IN IF Said("msg") \cup Said("message") = {} THEN e = Absent
          ELSE /\ e # Absent
               /\ {e.msg} = IF Said("msg") # {} THEN Said("msg") ELSE Said("message")
               /\ {e.app} = Or("module", Str("python"))
               /\ {e.pid} = Or("process", Str(""))
               /\ {e.src} = CASE process # {} /\ file # {} -> process \X file
                               [] process # {} /\ file = {} -> {<<p>> : p \in process}
                               [] process = {} /\ file # {} -> {<<f>> : f \in file}
                               [] OTHER -> {<<Str("python")>>}
               /\ {e.ts} = IF stamps = {} THEN {Now} ELSE stamps
               /\ {e.lvl} = {LevelOf(name) : name \in Or("levelname", Str("INFO"))}
               /\ {<<k, e.fields[k]>> : k \in DOMAIN e.fields} =
                  {<<record[i][1], Meant(Remembered[i][2])>> : i \in others}

\* Both halves of the path of a Python record: the frame gives back the record, and
\* the entry is what the record asks for.
PickleRoundTrip == RecordExact /\ EntryExact
=============================================================================
