------------------------------ MODULE MCIngest ------------------------------
(***************************************************************************)
(* The ingest side: the decoders of the wire formats, the parsing          *)
(* pipelines and the live tail. They share no variable. The initial states *)
(* choose which one is set in motion, so that one run checks all of them   *)
(* and their states add up instead of multiplying.                         *)
(***************************************************************************)
EXTENDS LiveTail, Unpickler, JournalDecoder, SyslogFraming, Pipeline

VARIABLE scene

Scenes == {"tail", "python", "journald", "syslog", "pipeline"}

MCPlan == [s \in Subs |-> IF s = "s1" THEN {"x"} ELSE Tags]

(***************************************************************************)
(* Python log records                                                      *)
(***************************************************************************)

MCTuple(items) == [t |-> "tuple", items |-> items]

\* Strings that repeat (memoised), numbers at the edges of every integer
\* opcode, tuples of every arity class, nested and repeated containers; every key
\* that is mapped present, blank, None or absent, every kind of level, a stamp
\* that is positive, zero or no float.
MCRecords ==
    { <<<<"msg", Str("hi")>>, <<"levelname", Str("ERROR")>>, <<"name", Str("hi")>>>>,
      <<<<"msg", Str("")>>, <<"message", Number(-200)>>, <<"n", Number(300)>>,
        <<"k", Number(3)>>, <<"j", Number(9)>>, <<"x", Nil>>>>,
      <<<<"msg", Number(-129)>>, <<"n", Number(-32768)>>>>,
      <<<<"msg", Number(32768)>>>>,
      <<<<"module", Float(2)>>, <<"ok", Bool(TRUE)>>,
        <<"args", MCTuple(<<Str("hi"), Number(1)>>)>>, <<"a2", MCTuple(<<Str("hi"), Number(1)>>)>>>>,
      <<<<"msg", List(<<Str("a")>>)>>, <<"l", List(<<Str("a"), List(<<Nil, Nil>>)>>)>>,
        <<"e", MCTuple(<<>>)>>, <<"t4", MCTuple(<<Nil, Nil, Nil, Str("e")>>)>>>>,
      <<<<"msg", PyDict(<<<<"msg", Str("b")>>>>)>>,
        <<"d", PyDict(<<<<"x", Str("b")>>, <<"y", PyDict(<<>>)>>>>)>>,
        <<"d2", PyDict(<<<<"x", Str("b")>>, <<"y", PyDict(<<>>)>>>>)>>>>,
      <<<<"msg", List(<<Str("a"), Nil>>)>>, <<"l2", List(<<Str("a"), Nil>>)>>>>,
      <<<<"msg", Str("m")>>, <<"levelname", Str("CRITICAL")>>, <<"module", Str("app")>>,
        <<"process", Number(7)>>, <<"processName", Str("main")>>, <<"filename", Str("a.py")>>,
        <<"created", Float(5)>>>>,
      <<<<"message", Str("m")>>, <<"levelname", Str("NOTSET")>>, <<"module", Str("")>>,
        <<"process", Nil>>, <<"filename", Str("a.py")>>, <<"created", Float(0)>>>>,
      <<<<"msg", Nil>>, <<"message", Bool(FALSE)>>, <<"levelname", Str("WARNING")>>,
        <<"processName", Str("")>>, <<"created", Number(5)>>, <<"msecs", Float(1)>>>>,
      <<<<"msg", Str("m")>>, <<"levelname", Str("DEBUG")>>, <<"process", Str("")>>,
        <<"exc_info", Nil>>, <<"extra", Str("")>>>>,
      <<<<"msg", Float(-1)>>, <<"levelname", Str("Level 5")>>, <<"created", Float(-1)>>>>,
      <<<<"message", Nil>>, <<"levelname", Str("INFO")>>>> }

(***************************************************************************)
(* Journal uploads and syslog streams                                      *)
(***************************************************************************)

MCField(n, v) == [name |-> n, value |-> v]

\* A binary field (its value is a newline), entries split over datagrams, an
\* upload that outgrows the buffer, an empty one.
MCJournal ==
    [s \in Sources |->
       CASE s = "a" -> << <<MCField(PRIORITY, <<51>>), MCField(MESSAGE, <<10>>)>>,
                          <<MCField(MESSAGE, <<122>>), MCField(MESSAGE, <<61>>)>> >>
         [] s = "b" -> << <<MCField(MESSAGE, <<122>>)>> >>
         [] s = "c" -> << <<>> >>]

\* Messages with and without a priority, with a sign or leading zeros in it, that
\* begin with a digit, hold only digits, end in a carriage return, are blank, or
\* do not fit a frame.
MCMessages ==
    { <<60, 51, 62, 120>>, <<60, 49, 52, 62, 49, 32, 120>>, <<49, 120>>, <<49>>,
      <<51, 50, 49, 50>>, <<120, 13>>, <<32>>, <<60, 57, 57, 57, 62>>, <<48, 32>>,
      <<60, 51, 62, 49, 32, 97, 98, 99, 100, 101>>, <<60, 43, 51, 62, 120>>, <<60, 45, 48, 62>>,
      <<60, 48, 48, 48, 51, 62, 120>> }

Decimal(n) == IF n < 10 THEN <<48 + n>> ELSE <<48 + (n \div 10), 48 + (n % 10)>>

MCSent(how, text) ==
    [how |-> how, count |-> IF how = "line" THEN <<>> ELSE Decimal(Len(text)), msg |-> text]

MCStreams ==
    {<<MCSent(a, x), MCSent(b, y), MCSent("line", <<60, 48, 62>>)>> :
        a, b \in {"line", "octets", "octets and newline"}, x \in MCMessages,
        y \in {<<60, 51, 62, 120>>, <<49, 120>>, <<51, 50, 49, 50>>}}

(***************************************************************************)
(* Pipelines                                                               *)
(***************************************************************************)

Fn(pairs) == [k \in {p[1] : p \in pairs} |-> (CHOOSE p \in pairs : p[1] = k)[2]]
Scalar(t, x) == [t |-> t, text |-> x]
Object(k) == [t |-> "object", keys |-> Fn(k), text |-> "{...}"]

\* A flat object, one nested past the third level, and one whose keys collide.
MCDecode(in) ==
    CASE in = "{flat}" ->
            Fn({<<<<"msg">>, Scalar("string", "hello")>>, <<<<"level">>, Scalar("string", "warn")>>,
                <<<<"n">>, Scalar("number", "1")>>, <<<<"x">>, Scalar("null", "")>>})
      [] in = "{deep}" ->
            Fn({<<<<"message">>, Scalar("number", "7")>>, <<<<"level">>, Scalar("string", "odd")>>,
                <<<<"a">>, Object({<<<<"b">>, Object({<<<<"c">>, Object({<<<<"d">>, Scalar("string", "z")>>})>>})>>,
                                   <<<<"msg">>, Scalar("string", "in")>>})>>})
      [] in = "{clash}" ->
            Fn({<<<<"a", "b">>, Scalar("string", "1")>>, <<<<"a">>, Object({<<<<"b">>, Scalar("string", "2")>>})>>,
                <<<<"msg">>, Scalar("string", "p")>>, <<<<"message">>, Scalar("string", "q")>>})
      [] OTHER -> NoMatch

MCCaptures(p, in) ==
    CASE p = "kv" /\ in = "k=v" -> Fn({<<<<"k">>, "v">>, <<<<"opt">>, "">>})
      [] p = "body" /\ in \in {"{flat}", "{deep}"} -> Fn({<<<<"body">>, in>>})
      [] p = "any" -> Fn({})
      [] OTHER -> NoMatch

Lit(x) == [ref |-> FALSE, text |-> x]
Ref(k) == [ref |-> TRUE, field |-> k]
Every == [app |-> "", src |-> "", msg |-> ""]
Pipe(w, s) == [when |-> w, steps |-> s]
Pattern(p, from) == [kind |-> "pattern", pattern |-> p, from |-> from]
Severe(from, rules) == [kind |-> "severity", from |-> from, rules |-> rules]
Json(from) == [kind |-> "json", from |-> from]
Set(app, msg, lvl, f) ==
    [kind |-> "set", app |-> app, src |-> Lit(""), pid |-> Lit(""), msg |-> msg, lvl |-> lvl,
     fields |-> Fn(f)]

MCConfigurations ==
    { << Pipe([Every EXCEPT !.app = "api"],
              <<Json(<<>>), Severe(<<"n">>, <<[takes |-> {"1"}, lvl |-> "ERROR"],
                                              [takes |-> {"1", "7"}, lvl |-> "PANIC"]>>)>>),
         Pipe([Every EXCEPT !.msg = "kv"],
              <<Pattern("kv", <<"msg">>),
                Set(Ref(<<"k">>), Lit(""), Lit("error"),
                    {<<<<"ip">>, Ref(<<"k">>)>>, <<<<"none">>, Ref(<<"opt">>)>>})>>) >>,
      << Pipe(Every, <<Pattern("body", <<>>), Set(Lit(""), Lit("k=v"), Ref(<<"lvl">>), {}),
                       Json(<<"body">>)>>),
         Pipe([Every EXCEPT !.src = "s"], <<[kind |-> "drop"]>>),
         Pipe([Every EXCEPT !.msg = "any"],
              <<Severe(<<"lvl">>, <<>>),
                Set(Lit("web"), Lit(""), Lit(""),
                    {<<<<"p">>, Ref(<<"q">>)>>, <<<<"q">>, Lit("r")>>})>>) >> }

MCEntries ==
    {[app |-> a, src |-> s, pid |-> "1", msg |-> m, lvl |-> "INFO", fields |-> f] :
        a \in {"api", "web"}, s \in {"s", "t"}, m \in {"{flat}", "{deep}", "{clash}", "k=v", ""},
        f \in {Fn({}), Fn({<<<<"lvl">>, "crit">>}),
               Fn({<<<<"a", "b", "c">>, "0">>, <<<<"body">>, "{flat}">>})}}

(***************************************************************************)
(* The scenes                                                              *)
(***************************************************************************)

\* A component that is not in the scene waits in one of its initial states.
Waits(part, state) == scene = part \/ (scene # part /\ state)

MCInit ==
    /\ scene \in Scenes
    /\ TailInit /\ JournalInit
    /\ Waits("python", record = (CHOOSE r \in PyRecords : TRUE) /\ proto = 1 /\ cut = FALSE)
    /\ PickleInit
    /\ Waits("syslog", syslogSent = (CHOOSE m \in SyslogStreams : TRUE) /\ received = <<>>)
    /\ SyslogInit
    /\ Waits("pipeline", /\ pipelines = CHOOSE c \in Configurations : TRUE
                         /\ arrived = CHOOSE e \in PipeEntries : TRUE)
    /\ PipeInit

MCNext ==
    /\ UNCHANGED scene
    /\ \/ /\ scene = "tail" /\ TailNext
          /\ UNCHANGED <<pickleVars, journalVars, syslogVars, pipeVars>>
       \/ /\ scene = "python" /\ PickleNext
          /\ UNCHANGED <<tailVars, journalVars, syslogVars, pipeVars>>
       \/ /\ scene = "journald" /\ JournalNext
          /\ UNCHANGED <<tailVars, pickleVars, syslogVars, pipeVars>>
       \/ /\ scene = "syslog" /\ SyslogNext
          /\ UNCHANGED <<tailVars, pickleVars, journalVars, pipeVars>>
       \/ /\ scene = "pipeline" /\ PipeNext
          /\ UNCHANGED <<tailVars, pickleVars, journalVars, syslogVars>>

MCSpec ==
    /\ MCInit
    /\ [][MCNext]_<<scene, tailVars, pickleVars, journalVars, syslogVars, pipeVars>>
    /\ scene = "tail" => TailFairness

\* Every component's state has its type: among others a subscriber's buffer, a
\* journal decoder's buffer and table and a syslog frame stay within the limits
\* of the code.
IngestTypeOK ==
    /\ TailTypeOK /\ PickleTypeOK /\ JournalTypeOK /\ SyslogTypeOK /\ PipeTypeOK
=============================================================================
