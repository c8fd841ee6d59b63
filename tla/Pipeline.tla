------------------------------ MODULE Pipeline ------------------------------
(***************************************************************************)
(* pipeline.Engine.Append: an entry runs through every pipeline whose      *)
(* selector matches, step by step, and is dropped or handed on. The engine *)
(* keeps no state between entries. What makes it delicate is Go's maps:    *)
(* the entry shares its Fields with the caller until they are cloned, and  *)
(* the loops over a JSON object and over the fields of a set step visit    *)
(* the keys in an order nobody chooses; flatten descends into an object    *)
(* before it goes on with the siblings.                                    *)
(*                                                                         *)
(* Regular expressions, grok patterns and the JSON decoder are constants:  *)
(* what they answer for an input. A field name is the sequence of its      *)
(* parts between dots.                                                     *)
(***************************************************************************)
EXTENDS Integers, Sequences, SequencesExt, FiniteSets

CONSTANTS
    Configurations,  \* sequences of pipelines: [when, steps]
    PipeEntries,     \* entries that arrive: [app, src, pid, msg, lvl, fields]
    Captures(_, _),  \* Captures(pattern, input): named captures, NoMatch when none
    Decode(_),       \* Decode(input): the JSON object, NoMatch when it is none
    NoMatch,
    MaxJSONFields    \* maxJSONFields of the code (100)

\* An entry: a record of six attributes, the last of them a map.
IsEntry(e) ==
    /\ e = [app |-> e.app, src |-> e.src, pid |-> e.pid, msg |-> e.msg, lvl |-> e.lvl,
            fields |-> e.fields]
    /\ e.fields = [k \in DOMAIN e.fields |-> e.fields[k]]

\* compile refuses a pipeline without steps, a step that is not of one of these
\* kinds and a severity step without input.
ASSUME PipelineAssumption ==
    /\ MaxJSONFields \in Nat
    /\ \A e \in PipeEntries : IsEntry(e)
    /\ \A c \in Configurations :
          /\ c \in Seq(Range(c))
          /\ \A p \in Range(c) :
                /\ p.steps \in Seq(Range(p.steps)) /\ p.steps # <<>>
                /\ \A s \in Range(p.steps) :
                      /\ s.kind \in {"pattern", "severity", "set", "drop", "json"}
                      /\ s.kind = "severity" => s.from # <<>>

VARIABLES
    pipelines,  \* Engine.pipelines, compiled from the configuration
    caller,     \* the Fields map the caller holds
    arrived,    \* the entry as it came
    entry,      \* the entry under way
    owned,      \* owned of Append: the fields were cloned
    pl, step,   \* the pipeline and the step about to run
    todo,       \* the loops under way: a stack of sets of keys still to visit
    fate        \* "running", "dropped", "forwarded"

pipeVars == <<pipelines, caller, arrived, entry, owned, pl, step, todo, fate>>

\* parseLevelLoose: the spellings it knows (in any case).
LooseLevels ==
    [trace |-> "DEBUG", debug |-> "DEBUG", fine |-> "DEBUG", finer |-> "DEBUG",
     finest |-> "DEBUG", info |-> "INFO", informational |-> "INFO", log |-> "LOG",
     notice |-> "LOG", warn |-> "WARN", warning |-> "WARN", error |-> "ERROR",
     err |-> "ERROR", severe |-> "SEVERE", critical |-> "SEVERE", crit |-> "SEVERE",
     alert |-> "SEVERE", panic |-> "PANIC", fatal |-> "PANIC", emerg |-> "PANIC",
     emergency |-> "PANIC"]

WithLevel(e, v) == IF v \in DOMAIN LooseLevels THEN [e EXCEPT !.lvl = LooseLevels[v]] ELSE e

Stored(e, k, v) ==
    [e EXCEPT !.fields = [n \in DOMAIN e.fields \cup {k} |-> IF n = k THEN v ELSE e.fields[n]]]

Field(e, k) == IF k \in DOMAIN e.fields THEN e.fields[k] ELSE ""

\* input: the message, or a named field ("" when it is absent).
Input(e, from) == IF from = <<>> \/ from = <<"msg">> THEN e.msg ELSE Field(e, from)

\* The selector: every part that is set must match.
When(w, e) ==
    /\ w.app = "" \/ e.app = w.app
    /\ w.src = "" \/ e.src = w.src
    /\ w.msg = "" \/ Captures(w.msg, e.msg) # NoMatch

(***************************************************************************)
(* The steps that are one assignment each                                  *)
(***************************************************************************)

\* patternStep: captures that are not empty become fields.
Matched(s, e) ==
    LET in == Input(e, s.from)
        m == IF in = "" THEN NoMatch ELSE Captures(s.pattern, in)
    IN IF m = NoMatch THEN e
       ELSE LET found == {k \in DOMAIN m : m[k] # ""}
            IN [e EXCEPT !.fields = [k \in DOMAIN e.fields \cup found |->
                                       IF k \in found THEN m[k] ELSE e.fields[k]]]

\* severityStep: the level named by the value, or that of the first rule that
\* takes it (a rule is the set of values it takes and its level).
Severity(s, e) ==
    LET v == Input(e, s.from)
        hits == {i \in DOMAIN s.rules : v \in s.rules[i].takes}
        first == CHOOSE i \in hits : \A j \in hits : i <= j
    IN IF v = "" THEN e
       ELSE IF s.rules = <<>> THEN WithLevel(e, v)
       ELSE IF hits = {} THEN e
       ELSE [e EXCEPT !.lvl = s.rules[first].lvl]

\* resolve: a literal, or the value of a field, which must not be empty.
Resolve(spec, e) == IF spec.ref THEN Field(e, spec.field) ELSE spec.text
Resolves(spec, e) == spec.ref => Field(e, spec.field) # ""

Assigned(e, attr, v) == IF v = "" THEN e ELSE [e EXCEPT ![attr] = v]

\* setStep up to its fields: app, src, pid, msg, then the level. One that the
\* step does not set is the empty literal.
SetAttributes(s, e) ==
    LET e1 == Assigned(e, "app", Resolve(s.app, e))
        e2 == Assigned(e1, "src", Resolve(s.src, e1))
        e3 == Assigned(e2, "pid", Resolve(s.pid, e2))
        e4 == Assigned(e3, "msg", Resolve(s.msg, e3))
    IN WithLevel(e4, Resolve(s.lvl, e4))

(***************************************************************************)
(* Append                                                                  *)
(***************************************************************************)

PipeTypeOK ==
    /\ pl \in 1 .. Len(pipelines) + 1 /\ step \in Nat
    /\ owned \in BOOLEAN /\ Len(todo) <= 3
    /\ fate \in {"running", "dropped", "forwarded"}

PipeInit ==
    /\ pipelines \in Configurations
    /\ arrived \in PipeEntries
    /\ entry = arrived /\ caller = arrived.fields
    /\ owned = FALSE /\ pl = 1 /\ step = 0 /\ todo = <<>>
    /\ fate = "running"

UNCHANGED_Call == UNCHANGED <<pipelines, arrived>>

\* The entry is written; while its map is the caller's, so is the caller's map.
Write(e) == entry' = e /\ caller' = IF owned THEN caller ELSE e.fields

\* The selector of the next pipeline is asked (step 0).
Skip ==
    /\ fate = "running" /\ pl <= Len(pipelines) /\ step = 0
    /\ ~When(pipelines[pl].when, entry)
    /\ pl' = pl + 1
    /\ UNCHANGED <<caller, entry, owned, step, todo, fate>> /\ UNCHANGED_Call

\* Mutant: the fields are not cloned.
EnterShared ==
    /\ fate = "running" /\ pl <= Len(pipelines) /\ step = 0
    /\ When(pipelines[pl].when, entry)
    /\ step' = 1
    /\ UNCHANGED <<caller, entry, owned, pl, todo, fate>> /\ UNCHANGED_Call

\* It matches: the fields are cloned, once per entry.
Enter ==
    /\ fate = "running" /\ pl <= Len(pipelines) /\ step = 0
    /\ When(pipelines[pl].when, entry)
    /\ owned' = TRUE /\ step' = 1
    /\ UNCHANGED <<caller, entry, pl, todo, fate>> /\ UNCHANGED_Call

LeavePipeline ==
    /\ fate = "running" /\ pl <= Len(pipelines) /\ step > Len(pipelines[pl].steps)
    /\ pl' = pl + 1 /\ step' = 0
    /\ UNCHANGED <<caller, entry, owned, todo, fate>> /\ UNCHANGED_Call

Forward ==
    /\ fate = "running" /\ pl > Len(pipelines)
    /\ fate' = "forwarded"
    /\ UNCHANGED <<caller, entry, owned, pl, step, todo>> /\ UNCHANGED_Call

\* A step of this kind is about to run.
AtStep(kind) ==
    /\ fate = "running" /\ pl <= Len(pipelines)
    /\ step \in DOMAIN pipelines[pl].steps /\ todo = <<>>
    /\ pipelines[pl].steps[step].kind = kind

ThisStep == pipelines[pl].steps[step]

Done(e) == Write(e) /\ step' = step + 1 /\ UNCHANGED <<owned, pl, todo, fate>> /\ UNCHANGED_Call

\* A loop starts over these keys; one without keys is over at once.
Loop(e, keys) ==
    /\ Write(e)
    /\ todo' = IF keys = {} THEN <<>> ELSE <<keys>>
    /\ step' = IF keys = {} THEN step + 1 ELSE step
    /\ UNCHANGED <<owned, pl, fate>> /\ UNCHANGED_Call

PatternStep == AtStep("pattern") /\ Done(Matched(ThisStep, entry))
SeverityStep == AtStep("severity") /\ Done(Severity(ThisStep, entry))
SetStep == AtStep("set") /\ Loop(SetAttributes(ThisStep, entry), DOMAIN ThisStep.fields)

DropStep ==
    /\ AtStep("drop")
    /\ fate' = "dropped"
    /\ UNCHANGED <<caller, entry, owned, pl, step, todo>> /\ UNCHANGED_Call

\* The keys of an object, each with its path, its depth and its value.
Keys(path, depth, obj) ==
    {[path |-> path \o k, depth |-> depth + 1, value |-> obj[k]] : k \in DOMAIN obj}

\* jsonStep decodes its input; text that is no object is left alone.
JsonStep ==
    /\ AtStep("json")
    /\ LET obj == Decode(Input(entry, ThisStep.from))
       IN IF obj = NoMatch THEN Done(entry)
          ELSE Loop(entry, Keys(<<>>, 0, obj))

\* What is left of the loops once item is visited and its own keys are pushed.
Rest(item, inner) ==
    LET top == todo[Len(todo)] \ {item}
        outer == IF top = {} THEN Front(todo) ELSE Append(Front(todo), top)
    IN IF inner = {} THEN outer ELSE Append(outer, inner)

Visited(e, item, inner) ==
    /\ Write(e)
    /\ todo' = Rest(item, inner)
    /\ step' = IF Rest(item, inner) = <<>> THEN step + 1 ELSE step
    /\ UNCHANGED <<owned, pl, fate>> /\ UNCHANGED_Call

InLoop(kind) ==
    /\ fate = "running" /\ todo # <<>>
    /\ ThisStep.kind = kind

\* One field of a set step.
SetField ==
    /\ InLoop("set")
    /\ \E k \in todo[1] :
          LET spec == ThisStep.fields[k]
          IN Visited(IF Resolves(spec, entry) THEN Stored(entry, k, Resolve(spec, entry))
                     ELSE entry, k, {})

MsgKeys == {<<"msg">>, <<"message">>}
LevelKeys == {<<"level">>, <<"lvl">>, <<"severity">>}

\* flatten of a value that is not an object: none for null, text otherwise, and
\* nothing at all once the entry has MaxJSONFields fields.
Flattened(e, path, v) ==
    IF v.t = "null" \/ Cardinality(DOMAIN e.fields) >= MaxJSONFields THEN e
    ELSE Stored(e, path, v.text)

\* An object is entered down to the third level, and kept as text below it.
Opens(item) == item.value.t = "object" /\ item.depth < 3
Entered(e, item) == Opens(item) /\ Cardinality(DOMAIN e.fields) < MaxJSONFields

\* At the top a text under a message key is the message, and a level's name
\* under a level key is the level.
IsMessage(item) == item.depth = 1 /\ item.path \in MsgKeys /\ item.value.t = "string"
IsLevel(item) ==
    /\ item.depth = 1 /\ item.path \in LevelKeys
    /\ item.value.t = "string" /\ item.value.text \in DOMAIN LooseLevels

\* One key of the object, or of an object inside it.
VisitKey ==
    /\ InLoop("json")
    /\ \E item \in todo[Len(todo)] :
          LET v == item.value IN
          CASE IsMessage(item) -> Visited([entry EXCEPT !.msg = v.text], item, {})
            [] IsLevel(item) -> Visited(WithLevel(entry, v.text), item, {})
            [] Entered(entry, item) -> Visited(entry, item, Keys(item.path, item.depth, v.keys))
            [] OTHER -> Visited(Flattened(entry, item.path, v), item, {})

PipeNext ==
    Skip \/ Enter \/ LeavePipeline \/ Forward \/ PatternStep \/ SeverityStep \/ SetStep \/ DropStep
    \/ JsonStep \/ SetField \/ VisitKey

PipeSafety == PipeInit /\ [][PipeNext]_pipeVars

(***************************************************************************)
(* What the steps mean, without an order                                   *)
(***************************************************************************)

\* Every key of an object, three levels deep, and those that become fields.
AllKeys(obj) ==
    LET Inside(items) == UNION {Keys(i.path, i.depth, i.value.keys) : i \in {i \in items : Opens(i)}}
        top == Keys(<<>>, 0, obj)
    IN top \cup Inside(top) \cup Inside(Inside(top))

Leaves(obj) ==
    {i \in AllKeys(obj) : ~Opens(i) /\ ~IsMessage(i) /\ ~IsLevel(i) /\ i.value.t # "null"}

\* The order of the keys cannot matter: one message, one level, no two keys
\* with one flattened name, and room for all of them.
OrderFree(e, obj) ==
    LET names == {i.path : i \in Leaves(obj)} IN
    /\ \A i, j \in AllKeys(obj) :
          (IsMessage(i) /\ IsMessage(j)) \/ (IsLevel(i) /\ IsLevel(j)) => i = j
    /\ \A i, j \in Leaves(obj) : i.path = j.path => i = j
    /\ IsFiniteSet(names) /\ IsFiniteSet(DOMAIN e.fields)
    /\ Cardinality(names) + Cardinality(DOMAIN e.fields) <= MaxJSONFields

JsonMeans(s, e) ==
    LET obj == Decode(Input(e, s.from))
        leaves == Leaves(obj)
        names == {i.path : i \in leaves}
        msg == {i \in AllKeys(obj) : IsMessage(i)}
        lvl == {i \in AllKeys(obj) : IsLevel(i)}
    IN IF obj = NoMatch THEN e
       ELSE [e EXCEPT
               !.msg = IF msg = {} THEN @ ELSE (CHOOSE i \in msg : TRUE).value.text,
               !.lvl = IF lvl = {} THEN @ ELSE LooseLevels[(CHOOSE i \in lvl : TRUE).value.text],
               !.fields = [k \in names \cup DOMAIN @ |->
                             IF k \in names THEN (CHOOSE i \in leaves : i.path = k).value.text
                             ELSE @[k]]]

SetMeans(s, e) ==
    LET set == SetAttributes(s, e)
        names == {k \in DOMAIN s.fields : Resolves(s.fields[k], set)}
    IN [set EXCEPT !.fields = [k \in names \cup DOMAIN @ |->
                                 IF k \in names THEN Resolve(s.fields[k], set) ELSE @[k]]]

\* One step, then one pipeline, then all of them; a drop or an order that
\* matters ends the account.
StepMeans(st, s) ==
    IF st.fate # "running" THEN st
    ELSE CASE s.kind = "pattern" -> [st EXCEPT !.e = Matched(s, @)]
           [] s.kind = "severity" -> [st EXCEPT !.e = Severity(s, @)]
           [] s.kind = "drop" -> [st EXCEPT !.fate = "dropped"]
           [] s.kind = "json" ->
                 IF Decode(Input(st.e, s.from)) = NoMatch THEN st
                 ELSE IF OrderFree(st.e, Decode(Input(st.e, s.from)))
                 THEN [st EXCEPT !.e = JsonMeans(s, @)]
                 ELSE [st EXCEPT !.fate = "any"]
           [] s.kind = "set" ->
                 IF \E k \in DOMAIN s.fields : s.fields[k].ref /\ s.fields[k].field \in DOMAIN s.fields
                 THEN [st EXCEPT !.fate = "any"]
                 ELSE [st EXCEPT !.e = SetMeans(s, @)]

\* After each step of a pipeline, from st on.
AfterSteps(st, steps) ==
    LET after[i \in 0 .. Len(steps)] ==
          IF i = 0 THEN st ELSE StepMeans(after[i - 1], steps[i])
    IN after

PipelineMeans(st, p) ==
    IF st.fate # "running" \/ ~When(p.when, st.e) THEN st
    ELSE AfterSteps(st, p.steps)[Len(p.steps)]

AfterPipelines ==
    LET after[i \in 0 .. Len(pipelines)] ==
          IF i = 0 THEN [e |-> arrived, fate |-> "running"]
          ELSE PipelineMeans(after[i - 1], pipelines[i])
    IN after

Meaning == AfterPipelines[Len(pipelines)]

(***************************************************************************)
(* Properties                                                              *)
(***************************************************************************)

\* The caller's map is never written. The entry that comes out (or its drop) is
\* the one the steps mean, whatever order Go's maps are visited in, unless a
\* step's outcome depends on that order: two message or level keys, keys that
\* flatten to one name, the cap on fields, set fields that read one another.
PipelineExact ==
    /\ caller = arrived.fields
    /\ fate # "running" /\ Meaning.fate # "any" =>
          /\ (fate = "dropped") = (Meaning.fate = "dropped")
          /\ fate = "forwarded" => entry = Meaning.e
=============================================================================
