---------------------------- MODULE IngestProofs ----------------------------
(***************************************************************************)
(* Theorems about the server's life, for any set of handlers and any       *)
(* number of records; about the live tail, for any number of subscribers,  *)
(* ingest goroutines and entries and any size of the subscriber's buffer;  *)
(* and about the parsing pipelines, for any configuration, any entry and   *)
(* whatever patterns and JSON decoder answer.                              *)
(***************************************************************************)
EXTENDS Server, LiveTail, Pipeline, SequenceTheorems, FiniteSetTheorems,
        WellFoundedInduction, TLAPS

-----------------------------------------------------------------------------
(* The server *)

Names == {"native", "syslog", "journald", "python", "otlp", "http"}

\* The listeners, the deferred calls and the receivers as run() has them.
LEMMA Order ==
    /\ Listeners = <<"native", "syslog", "journald", "python", "otlp", "http">>
    /\ NL = 6 /\ ND = 8 /\ Len(Path) = 8 /\ EntryStart = 2 /\ LogStart = 7
    /\ ToSet(Listeners) = Names
    /\ ToSet(Deferred) = {"auth", "notifier", "plugins", "deploys", "extractor", "graphStore",
                          "batcher", "store"}
    /\ ToSet(Fanout) = {"batcher", "hub", "extractor", "deploys", "notifier"}
<1>1. Listeners = <<"native", "syslog", "journald", "python", "otlp", "http">>
  BY DEF Listeners, Opening, Native, Syslog, Journald, Python, Otlp, Http
<1>2. NL = 6 /\ ND = 8 /\ Len(Path) = 8 /\ EntryStart = 2 /\ LogStart = 7
  BY <1>1 DEF NL, ND, Deferred, Fanout, SelfSink, Path, EntryStart, LogStart
<1>3. ToSet(Listeners) = Names
  BY <1>1 DEF ToSet, Names
<1>4. ToSet(Deferred) = {"auth", "notifier", "plugins", "deploys", "extractor", "graphStore",
                         "batcher", "store"}
  BY DEF ToSet, Deferred
<1>5. ToSet(Fanout) = {"batcher", "hub", "extractor", "deploys", "notifier"}
  BY DEF ToSet, Fanout
<1> QED BY <1>1, <1>2, <1>3, <1>4, <1>5

\* Every receiver is a consumer; from LogStart on they are those of the self sink.
LEMMA Receivers ==
    /\ \A i \in 1 .. 8 : Path[i] \in ToSet(Fanout)
    /\ \A i \in 6 .. 8 : Path[i] \in {"hub", "extractor", "batcher"}
<1> DEFINE S == {"batcher", "hub", "extractor", "deploys", "notifier"}
           T == {"hub", "extractor", "batcher"}
<1>1. Fanout \in [1 .. 5 -> S] /\ Len(Fanout) = 5
  BY DEF Fanout
<1>2. SelfSink \in [1 .. 3 -> T] /\ Len(SelfSink) = 3
  BY DEF SelfSink
<1> HIDE DEF S, T
<1>3. T \subseteq S /\ S = ToSet(Fanout)
  BY Order DEF S, T
<1>4. \A i \in 1 .. 8 : Path[i] = IF i <= 5 THEN Fanout[i] ELSE SelfSink[i - 5]
  <2>1. SelfSink \in [1 .. 3 -> S]
    BY <1>2, <1>3
  <2>2. Fanout \in Seq(S)
    BY <1>1, SeqDef
  <2>3. SelfSink \in Seq(S)
    BY <2>1, SeqDef
  <2>4. \A i \in 1 .. Len(Fanout) + Len(SelfSink) :
           (Fanout \o SelfSink)[i] = IF i <= Len(Fanout) THEN Fanout[i] ELSE SelfSink[i - Len(Fanout)]
    BY <2>2, <2>3, ConcatProperties
  <2>5. Len(Fanout) = 5 /\ Len(Fanout) + Len(SelfSink) = 8
    BY <1>1, <1>2
  <2>6. Path = Fanout \o SelfSink
    BY DEF Path
  <2> QED BY <2>4, <2>5, <2>6
<1>5. \A i \in 1 .. 5 : Path[i] \in S
  BY <1>1, <1>4
<1>6. \A i \in 6 .. 8 : Path[i] \in T
  <2> TAKE i \in 6 .. 8
  <2>1. i - 5 \in 1 .. 3 /\ i \in 1 .. 8 /\ ~(i <= 5)
    OBVIOUS
  <2> QED BY <1>2, <1>4, <2>1
<1> QED BY <1>3, <1>5, <1>6 DEF T

\* A handler serves a listener, streams for a plugin or only logs.
LEMMA HandlerOwner ==
    ASSUME NEW h \in Handlers
    PROVE  \/ Via(h) \in Names /\ Kind(h) \in {"conn", "packet", "request"}
           \/ h = <<"plugins", "stream">>
           \/ h \in Loggers
<1> DEFINE served == UNION {{l.name} \X l.kinds : l \in ToSet(Opening)}
           streams == {<<"plugins", "stream">>}
<1>1. h \in AllHandlers
  BY ServerAssumption
<1>2. Opening \in [1 .. 6 -> {Native, Syslog, Journald, Python, Otlp, Http}] /\ DOMAIN Opening = 1 .. 6
  BY DEF Opening
<1>3. ToSet(Opening) \subseteq {Native, Syslog, Journald, Python, Otlp, Http}
  BY <1>2 DEF ToSet
<1>4. \A l \in ToSet(Opening) : l.name \in Names /\ l.kinds \subseteq {"conn", "packet", "request"}
  BY <1>3 DEF Names, Native, Syslog, Journald, Python, Otlp, Http
<1>5. AllHandlers = served \cup streams \cup Loggers
  BY DEF AllHandlers
<1>6. h \in served \/ h \in streams \/ h \in Loggers
  <2> HIDE DEF served, streams
  <2> QED BY <1>1, <1>5
<1>7. CASE h \in served
  <2>1. PICK l \in ToSet(Opening) : h \in {l.name} \X l.kinds
    BY <1>7
  <2> QED BY <1>4, <2>1 DEF Via, Kind
<1> QED BY <1>6, <1>7

\* A goroutine that only logs is one of Loggers: nobody waits for it, or a
\* consumer does.
LEMMA LoggerOwner ==
    ASSUME NEW h \in Handlers, Kind(h) \in Detached \cup {"log"}
    PROVE  /\ h \in Loggers
           /\ Kind(h) = "log" => Via(h) \notin Names
           /\ Kind(h) \in Detached => h \in {<<"plugins", "stderr">>, <<"http", "telemetry">>}
<1>1. h \in Loggers
  BY HandlerOwner DEF Kind, Detached
<1> QED BY <1>1 DEF Loggers, Via, Kind, Names, Detached

\* The name of a listener that gives up at the deadline.
LEMMA TimedNames == Timed \subseteq Names
<1>1. ToSet(Opening) \subseteq {Native, Syslog, Journald, Python, Otlp, Http}
  BY DEF ToSet, Opening
<1>2. \A l \in ToSet(Opening) : l.name \in Names
  BY <1>1 DEF Names, Native, Syslog, Journald, Python, Otlp, Http
<1> QED BY <1>2 DEF Timed

-----------------------------------------------------------------------------
(* The inductive invariant *)

\* Where run() is tells which Close calls were made.
Progress ==
    /\ phase = "starting" => at \in 1 .. 6
    /\ phase \in {"starting", "serving"} => closed = {}
    /\ phase = "stopping" => at \in 1 .. 6 /\ closed = {Listeners[i] : i \in 1 .. at}
    /\ phase = "deferred" => at \in 1 .. 8
    /\ phase = "deferred" /\ runErr # "listen" => closed = Names \cup {Deferred[i] : i \in 1 .. at}
    /\ runErr = "listen" => phase \in {"deferred", "exited"}

\* No listener failed to open and none was given up.
Clean == abandoned = {} /\ runErr # "listen"

\* In a clean shutdown the handlers of every listener that is done, and the
\* goroutines of every consumer that is, have ended for good.
Drained ==
    Clean =>
       /\ phase = "stopping" => \A i \in 1 .. (at - 1) : ~Running(Listeners[i])
       /\ phase = "deferred" => \A l \in Names : ~Running(l)
       /\ phase = "deferred" => \A i \in 1 .. (at - 1) : ~Running(Deferred[i])

\* A goroutine that only logs is at no receiver but those of the self sink.
LogsOnly == \A h \in Handlers : Kind(h) \in Detached \cup {"log"} => handler[h] \in {0, 1, 7, 8, 9}

ServerInv == ServerTypeOK /\ Progress /\ Drained /\ LogsOnly /\ DrainedStopLosesNothing

\* run() starts with nothing open but the plugins.
LEMMA ServerInitInv == ServerInit => ServerInv
<1> SUFFICES ASSUME ServerInit PROVE ServerInv
  OBVIOUS
<1>1. ServerTypeOK
  <2>1. records \in 0 .. MaxRecords /\ at \in 1 .. NL + ND
    BY Order, ServerAssumption DEF ServerInit
  <2>2. handler \in [Handlers -> 0 .. 1 + Len(Path)]
    BY Order DEF ServerInit
  <2> QED BY <2>1, <2>2 DEF ServerInit, ServerTypeOK
<1>2. Progress /\ Drained /\ DrainedStopLosesNothing /\ LogsOnly
  BY DEF ServerInit, Progress, Drained, DrainedStopLosesNothing, LogsOnly
<1> QED BY <1>1, <1>2 DEF ServerInv

-----------------------------------------------------------------------------
(* The steps of run() *)

\* On to the next listener or to the deferred calls, as seen by Progress.
LEMMA NextListenerProgress ==
    ASSUME Progress, ServerTypeOK, phase = "stopping", NextListener,
           runErr' \in {runErr, "http"}
    PROVE  /\ Progress'
           /\ at' \in 1 .. NL + ND /\ phase' \in {"stopping", "deferred"}
           /\ closed' \subseteq ToSet(Listeners) \cup ToSet(Deferred)
<1> USE Order
<1>1. at \in 1 .. 6 /\ closed = {Listeners[i] : i \in 1 .. at} /\ runErr # "listen" /\ runErr' # "listen"
  BY DEF Progress
<1>2. CASE at = 6
  <2>1. closed = Names
    BY <1>1, <1>2 DEF Names
  <2>2. phase' = "deferred" /\ at' = 1 /\ closed' = Names \cup {Deferred[1]}
    BY <1>2, <2>1 DEF NextListener
  <2>3. {Deferred[i] : i \in 1 .. 1} = {Deferred[1]} /\ Deferred[1] \in ToSet(Deferred)
    BY DEF Deferred
  <2> QED BY <1>1, <2>2, <2>3 DEF Progress
<1>3. CASE at # 6
  <2>1. at \in 1 .. 5 /\ phase' = "stopping" /\ at' = at + 1 /\ closed' = closed \cup {Listeners[at + 1]}
    BY <1>1, <1>3 DEF NextListener
  <2>2. closed' = {Listeners[i] : i \in 1 .. (at + 1)}
    <3>1. 1 .. (at + 1) = (1 .. at) \cup {at + 1}
      BY <2>1
    <3> QED BY <1>1, <2>1, <3>1
  <2>3. closed' \subseteq ToSet(Listeners)
    BY <2>1, <2>2 DEF ToSet
  <2> QED BY <1>1, <2>1, <2>2, <2>3 DEF Progress
<1> QED BY <1>2, <1>3

\* The step from one listener to the next keeps the shutdown drained if the
\* listener that is done is.
LEMMA NextListenerDrained ==
    ASSUME Progress, Drained, phase = "stopping", NextListener, Clean,
           ~Running(Listeners[at]), UNCHANGED <<handler, runErr, abandoned>>
    PROVE  Drained'
<1> USE Order
<1>1. at \in 1 .. 6 /\ \A i \in 1 .. at : ~Running(Listeners[i])
  BY DEF Progress, Drained
<1>2. \A l : Running(l)' <=> Running(l)
  BY DEF Running
<1>3. CASE at = 6
  <2>1. \A l \in Names : \E i \in 1 .. 6 : l = Listeners[i]
    BY DEF Names
  <2>2. phase' = "deferred" /\ at' = 1
    BY <1>3 DEF NextListener
  <2>3. \A l \in Names : ~Running(l)'
    BY <1>1, <1>2, <1>3, <2>1
  <2> QED BY <2>2, <2>3 DEF Drained
<1>4. CASE at # 6
  <2>1. at \in 1 .. 5 /\ phase' = "stopping" /\ at' = at + 1
    BY <1>1, <1>4 DEF NextListener
  <2>2. Listeners' = Listeners
    OBVIOUS
  <2>3. \A i \in 1 .. (at' - 1) : ~Running(Listeners[i])'
    BY <1>1, <1>2, <2>1
  <2> QED BY <2>1, <2>3 DEF Drained
<1> QED BY <1>3, <1>4

\* A step of run() preserves the invariant.
LEMMA MainInv == ASSUME ServerInv, Main PROVE ServerInv'
<1> USE DEF ServerInv
<1>1. CASE StartListener
  <2>1. at \in 1 .. 6 /\ Listeners[at] \in ToSet(Listeners)
    BY <1>1, Order DEF StartListener, Progress, ToSet
  <2>2. handler' \in [Handlers -> 0 .. 1 + Len(Path)]
    BY <1>1, Order DEF StartListener, ServerTypeOK
  <2>3. at' \in 1 .. 6 /\ phase' \in {"starting", "serving"}
    BY <1>1, <2>1, Order DEF StartListener
  <2>4. ServerTypeOK'
    BY <1>1, <2>1, <2>2, <2>3, Order DEF StartListener, ServerTypeOK
  <2>5. Progress'
    BY <1>1, <2>3 DEF StartListener, Progress
  <2>6. Drained' /\ DrainedStopLosesNothing'
    BY <1>1, <2>3 DEF StartListener, Drained, DrainedStopLosesNothing
  <2>7. LogsOnly'
    BY <1>1 DEF StartListener, LogsOnly, ServerTypeOK
  <2> QED BY <2>4, <2>5, <2>6, <2>7
<1>2. CASE ListenFails
  <2>1. Deferred[1] \in ToSet(Deferred)
    BY DEF Deferred, ToSet
  <2>2. ServerTypeOK'
    BY <1>2, <2>1, Order DEF ListenFails, UNCHANGED_Handlers, ServerTypeOK
  <2>3. Progress' /\ Drained' /\ DrainedStopLosesNothing'
    BY <1>2 DEF ListenFails, Progress, Drained, Clean, DrainedStopLosesNothing
  <2>4. LogsOnly'
    BY <1>2 DEF ListenFails, UNCHANGED_Handlers, LogsOnly
  <2> QED BY <2>2, <2>3, <2>4
<1>3. CASE Signal
  <2>1. Listeners[1] \in ToSet(Listeners) /\ {Listeners[i] : i \in 1 .. 1} = {Listeners[1]}
    BY Order DEF ToSet
  <2>2. ServerTypeOK'
    BY <1>3, <2>1, Order DEF Signal, UNCHANGED_Handlers, ServerTypeOK
  <2>3. closed' = {Listeners[i] : i \in 1 .. 1} /\ runErr # "listen"
    BY <1>3, <2>1 DEF Signal, Progress
  <2>4. Progress'
    BY <1>3, <2>3 DEF Signal, Progress
  <2>5. DrainedStopLosesNothing' /\ LogsOnly'
    BY <1>3 DEF Signal, UNCHANGED_Handlers, DrainedStopLosesNothing, LogsOnly
  <2>6. Drained'
    BY <1>3 DEF Signal, Drained
  <2> QED BY <2>2, <2>4, <2>5, <2>6
<1>4. CASE ListenerClosed
  <2>1. /\ Progress' /\ at' \in 1 .. NL + ND /\ phase' \in {"stopping", "deferred"}
        /\ closed' \subseteq ToSet(Listeners) \cup ToSet(Deferred)
    BY <1>4, NextListenerProgress DEF ListenerClosed
  <2>2. ServerTypeOK'
    BY <1>4, <2>1 DEF ListenerClosed, UNCHANGED_Handlers, ServerTypeOK
  <2>3. Drained'
    <3>1. CASE Clean
      BY <1>4, <3>1, NextListenerDrained DEF ListenerClosed, UNCHANGED_Handlers
    <3>2. CASE ~Clean
      BY <1>4, <3>2 DEF ListenerClosed, Drained, Clean
    <3> QED BY <3>1, <3>2
  <2>4. DrainedStopLosesNothing' /\ LogsOnly'
    BY <1>4 DEF ListenerClosed, UNCHANGED_Handlers, DrainedStopLosesNothing, LogsOnly
  <2> QED BY <2>1, <2>2, <2>3, <2>4
<1>5. CASE ListenerAbandoned
  <2>1. /\ Progress' /\ at' \in 1 .. NL + ND /\ phase' \in {"stopping", "deferred"}
        /\ closed' \subseteq ToSet(Listeners) \cup ToSet(Deferred)
    BY <1>5, NextListenerProgress DEF ListenerAbandoned
  <2>2. handler' \in [Handlers -> 0 .. 1 + Len(Path)]
    BY <1>5, Order DEF ListenerAbandoned, ServerTypeOK
  <2>3. ServerTypeOK'
    BY <1>5, <2>1, <2>2 DEF ListenerAbandoned, ServerTypeOK
  <2>4. abandoned' # {}
    BY <1>5 DEF ListenerAbandoned
  <2>5. LogsOnly'
    BY <1>5 DEF ListenerAbandoned, LogsOnly, ServerTypeOK
  <2> QED BY <2>1, <2>3, <2>4, <2>5 DEF Drained, Clean, DrainedStopLosesNothing
<1>6. CASE DeferredClosed
  <2>1. at \in 1 .. 8
    BY <1>6 DEF DeferredClosed, Progress
  <2>2. at' \in 1 .. 8 /\ phase' \in {"deferred", "exited"} /\ closed' \subseteq closed \cup ToSet(Deferred)
    BY <1>6, <2>1, Order DEF DeferredClosed, ToSet, Deferred
  <2>3. ServerTypeOK'
    BY <1>6, <2>2, Order DEF DeferredClosed, UNCHANGED_Handlers, ServerTypeOK
  <2>4. Progress'
    <3>1. CASE at = 8
      BY <1>6, <2>2, <3>1, Order DEF DeferredClosed, Progress
    <3>2. CASE at # 8
      <4>1. at' = at + 1 /\ phase' = "deferred" /\ closed' = closed \cup {Deferred[at + 1]}
        BY <1>6, <2>1, <3>2, Order DEF DeferredClosed
      <4>2. 1 .. (at + 1) = (1 .. at) \cup {at + 1}
        BY <2>1
      <4>3. {Deferred[i] : i \in 1 .. (at + 1)} = {Deferred[i] : i \in 1 .. at} \cup {Deferred[at + 1]}
        BY <4>2
      <4> QED BY <1>6, <2>2, <4>1, <4>3 DEF DeferredClosed, Progress
    <3> QED BY <3>1, <3>2
  <2>5. Drained'
    <3>1. Clean' => Clean
      BY <1>6 DEF DeferredClosed, Clean
    <3>2. \A l : Running(l)' <=> Running(l)
      BY <1>6 DEF DeferredClosed, UNCHANGED_Handlers, Running
    <3>3. ~Running(Deferred[at])
      BY <1>6 DEF DeferredClosed
    <3>4. phase' = "deferred" => at' = at + 1
      BY <1>6, <2>1, Order DEF DeferredClosed
    <3>5. phase = "deferred"
      BY <1>6 DEF DeferredClosed
    <3>6. ASSUME Clean, phase' = "deferred", NEW i \in 1 .. (at' - 1) PROVE ~Running(Deferred[i])'
      <4>1. i \in 1 .. at
        BY <2>1, <3>4, <3>6
      <4>2. ~Running(Deferred[i])
        BY <2>1, <3>3, <3>5, <3>6, <4>1 DEF Drained
      <4> QED BY <3>2, <4>2
    <3>7. ASSUME Clean, NEW l \in Names PROVE ~Running(l)'
      BY <3>2, <3>5, <3>7 DEF Drained
    <3> QED BY <2>2, <3>1, <3>6, <3>7 DEF Drained
  <2>6. DrainedStopLosesNothing' /\ LogsOnly'
    BY <1>6 DEF DeferredClosed, UNCHANGED_Handlers, DrainedStopLosesNothing, LogsOnly
  <2> QED BY <2>3, <2>4, <2>5, <2>6
<1> QED BY <1>1, <1>2, <1>3, <1>4, <1>5, <1>6 DEF Main

-----------------------------------------------------------------------------
(* The steps of the handlers *)

\* The calls that a goroutine of a deferred consumer waits behind: while one is
\* at work in a clean shutdown, run() has not got past its consumer.
LEMMA RunningOwner ==
    ASSUME ServerInv, Clean, phase = "deferred", NEW h \in Handlers, handler[h] > 0,
           Kind(h) \notin Detached
    PROVE  Via(h) \notin Names /\ \A i \in 1 .. 8 : Via(h) = Deferred[i] => at <= i
<1>1. Running(Via(h))
  BY DEF Running
<1>2. Via(h) \notin Names
  BY <1>1 DEF ServerInv, Drained
<1>3. at \in 1 .. 8
  BY DEF ServerInv, Progress
<1>4. ASSUME NEW i \in 1 .. 8, Via(h) = Deferred[i] PROVE at <= i
  <2>1. ~(i \in 1 .. (at - 1))
    BY <1>1, <1>4 DEF ServerInv, Drained
  <2> QED BY <1>3, <2>1
<1> QED BY <1>2, <1>4

\* A step that only ends handlers, or starts one whose owner accepts or has not
\* returned, keeps the shutdown drained.
LEMMA HandlerDrained ==
    ASSUME ServerInv, NEW h \in Handlers, UNCHANGED <<phase, at, abandoned, runErr>>,
           handler' = [handler EXCEPT ![h] = handler'[h]],
           \/ handler[h] > 0 \/ Via(h) \notin closed \/ Kind(h) \in Detached
           \/ Kind(h) = "log" /\ Via(h) \notin Returned
    PROVE  Drained'
<1> USE DEF ServerInv
<1>1. ASSUME NEW l, ~Running(l), Via(h) # l \/ Kind(h) \in Detached PROVE ~Running(l)'
  BY <1>1 DEF Running, ServerTypeOK
<1>2. ASSUME NEW l \in Names, ~Running(l), l \in closed PROVE ~Running(l)'
  <2>1. CASE Kind(h) \in Detached \cup {"log"}
    <3>1. Via(h) # l \/ Kind(h) \in Detached
      BY <1>2, <2>1, LoggerOwner
    <3> QED BY <1>1, <1>2, <3>1
  <2>2. CASE Kind(h) \notin Detached \cup {"log"}
    <3>1. Via(h) # l
      BY <1>2, <2>2 DEF Running
    <3> QED BY <1>1, <1>2, <3>1
  <2> QED BY <2>1, <2>2
<1>3. ASSUME Clean, phase = "stopping", NEW i \in 1 .. (at - 1) PROVE ~Running(Listeners[i])'
  <2>1. ~Running(Listeners[i]) /\ at \in 1 .. 6
    BY <1>3 DEF Drained, Progress
  <2>2. Listeners[i] \in closed /\ i \in 1 .. 6
    BY <1>3, <2>1 DEF Progress
  <2>3. Listeners[i] \in Names
    BY <2>2, Order DEF Names
  <2> QED BY <1>2, <2>1, <2>2, <2>3
<1>4. ASSUME Clean, phase = "deferred", NEW l \in Names PROVE ~Running(l)'
  <2>1. ~Running(l) /\ l \in closed
    BY <1>4 DEF Drained, Progress, Clean
  <2> QED BY <1>2, <2>1
<1>5. ASSUME Clean, phase = "deferred", NEW i \in 1 .. (at - 1) PROVE ~Running(Deferred[i])'
  <2>1. ~Running(Deferred[i]) /\ at \in 1 .. 8
    BY <1>5 DEF Drained, Progress
  <2>2. Deferred[i] \in closed /\ Deferred[i] \in Returned
    BY <1>5, <2>1 DEF Progress, Clean, Returned
  <2>3. Via(h) # Deferred[i] \/ Kind(h) \in Detached
    BY <2>1, <2>2 DEF Running
  <2> QED BY <1>1, <2>1, <2>3
<1>6. Clean' => Clean
  BY DEF Clean
<1> QED BY <1>3, <1>4, <1>5, <1>6 DEF Drained

\* What a closed consumer hears in a clean shutdown is one of the late records.
LEMMA OnlyLate ==
    ASSUME ServerInv, Clean, phase # "exited", NEW h \in Handlers, handler[h] \in 2 .. 9,
           Path[handler[h] - 1] \in closed
    PROVE  <<h, Path[handler[h] - 1]>> \in Late
<1> DEFINE r == Path[handler[h] - 1]
<1> USE DEF ServerInv
<1>1. r \in ToSet(Fanout) /\ r \in closed
  BY Receivers
<1>2. Kind(h) \in Detached \cup {"log"} => r \in {"hub", "extractor", "batcher"}
  <2> SUFFICES ASSUME Kind(h) \in Detached \cup {"log"} PROVE handler[h] - 1 \in 6 .. 8
    BY Receivers
  <2> QED BY DEF LogsOnly
<1> HIDE DEF r
<1>3. r \notin Names
  BY <1>1, Order DEF Names
<1>4. phase = "deferred"
  <2>1. phase = "stopping" => closed \subseteq Names
    BY Order DEF Progress, Names
  <2> QED BY <1>1, <1>3, <2>1 DEF Progress, ServerTypeOK
<1>5. at \in 1 .. 8 /\ r \in {Deferred[i] : i \in 1 .. at}
  BY <1>1, <1>3, <1>4 DEF Progress, Clean
<1>6. PICK j \in 1 .. at : r = Deferred[j]
  BY <1>5
<1>7. Deferred = <<"auth", "notifier", "plugins", "deploys", "extractor", "graphStore", "batcher", "store">>
  BY DEF Deferred
<1>8. CASE h \in {<<"plugins", "stderr">>, <<"http", "telemetry">>}
  <2>1. r \in {"extractor", "batcher"}
    BY <1>2, <1>6, <1>7, <1>5, <1>8 DEF Kind, Detached
  <2> QED BY <1>8, <2>1 DEF Late, r
<1>9. CASE h \notin {<<"plugins", "stderr">>, <<"http", "telemetry">>}
  <2>1. Kind(h) \notin Detached
    BY <1>9, LoggerOwner
  <2>2. Via(h) \notin Names /\ \A i \in 1 .. 8 : Via(h) = Deferred[i] => at <= i
    BY <1>4, <2>1, RunningOwner
  <2>3. h = <<"plugins", "stream">> \/ h \in Loggers
    BY <2>2, HandlerOwner
  <2>4. CASE h = <<"plugins", "stream">>
    <3>1. Via(h) = Deferred[3]
      BY <1>7, <2>4 DEF Via
    <3>2. at <= 3
      BY <2>2, <3>1
    <3>3. r = "notifier"
      BY <1>1, <1>5, <1>6, <1>7, <3>2, Order
    <3> QED BY <2>4, <3>3 DEF Late, r
  <2>5. CASE h \in {<<"notifier", "log">>, <<"deploys", "log">>}
    <3>1. at <= 4
      BY <1>5, <1>7, <2>2, <2>5 DEF Via
    <3> QED BY <1>2, <1>5, <1>6, <1>7, <2>5, <3>1 DEF Kind
  <2>6. CASE h = <<"extractor", "log">>
    <3>1. at <= 5
      BY <1>5, <1>7, <2>2, <2>6 DEF Via
    <3>2. r = "extractor"
      BY <1>2, <1>5, <1>6, <1>7, <2>6, <3>1 DEF Kind
    <3> QED BY <2>6, <3>2 DEF Late, r
  <2>7. CASE h = <<"batcher", "log">>
    <3>1. r \in {"extractor", "batcher"}
      BY <1>2, <1>5, <1>6, <1>7, <2>7 DEF Kind
    <3> QED BY <2>7, <3>1 DEF Late, r
  <2> QED BY <1>9, <2>3, <2>4, <2>5, <2>6, <2>7 DEF Loggers
<1> QED BY <1>8, <1>9

\* A step of a handler preserves the invariant.
LEMMA HandlerInv ==
    ASSUME ServerInv, NEW h \in Handlers, ~crashed, phase # "exited",
           Connect(h) \/ Receive(h) \/ StartTelemetry(h) \/ LogRecord(h)
             \/ Deliver(h) \/ HangUp(h) \/ ReadFails(h)
    PROVE  ServerInv'
<1> USE DEF ServerInv
<1>1. handler[h] \in 0 .. 9 /\ handler \in [Handlers -> 0 .. 9]
  BY Order DEF ServerTypeOK
<1>2. UNCHANGED <<phase, at, opened, closed, deadline, runErr, abandoned>>
  BY DEF Connect, Receive, StartTelemetry, LogRecord, Deliver, HangUp, ReadFails, UNCHANGED_Main
<1>3. handler' = [handler EXCEPT ![h] = handler'[h]] /\ handler'[h] \in 0 .. 9
  BY <1>1, Order DEF Connect, Receive, StartTelemetry, LogRecord, Deliver, HangUp, ReadFails
<1>4. \/ handler[h] > 0 \/ Via(h) \notin closed \/ Kind(h) \in Detached
      \/ Kind(h) = "log" /\ Via(h) \notin Returned
  BY <1>1 DEF Detached, Connect, Receive, StartTelemetry, LogRecord, Deliver, HangUp, ReadFails
<1>5. Progress'
  BY <1>2 DEF Progress
<1>6. Drained'
  BY <1>2, <1>3, <1>4, HandlerDrained
<1>7. LogsOnly'
  <2>1. Kind(h) \in Detached \cup {"log"} => handler[h] \in {0, 1, 7, 8, 9}
    BY DEF LogsOnly
  <2>2. Kind(h) \in Detached \cup {"log"} => handler'[h] \in {0, 1, 7, 8, 9}
    BY <1>1, <2>1, Order DEF Connect, Receive, StartTelemetry, LogRecord, Deliver, HangUp, ReadFails
  <2>3. \A g \in Handlers : g # h => handler'[g] = handler[g]
    BY <1>1, <1>3
  <2> QED BY <2>2, <2>3 DEF LogsOnly
<1>8. /\ records' \in 0 .. MaxRecords /\ send' = send
      /\ missed' \subseteq Handlers \X ToSet(Fanout) /\ crashed' \in BOOLEAN
      /\ Clean => DrainedStopLosesNothing'
  <2>1. CASE Deliver(h)
    <3> DEFINE r == Path[handler[h] - 1]
    <3>1. handler[h] \in 2 .. 9 /\ r \in ToSet(Fanout)
      BY <1>1, <2>1, Receivers DEF Deliver
    <3>2. crashed' = (r = "batcher" /\ r \in closed)
      BY <2>1 DEF Deliver
    <3>3. missed' = IF r \in closed THEN missed \cup {<<h, r>>} ELSE missed
      BY <2>1 DEF Deliver
    <3>4. Clean /\ r \in closed => <<h, r>> \in Late
      BY <3>1, OnlyLate
    <3> HIDE DEF r
    <3>5. Clean => DrainedStopLosesNothing'
      <4> SUFFICES ASSUME Clean PROVE DrainedStopLosesNothing'
        OBVIOUS
      <4>1. missed \subseteq Late
        BY DEF DrainedStopLosesNothing, Clean
      <4>2. missed' \subseteq Late
        BY <3>3, <3>4, <4>1
      <4>3. crashed' => <<h, "batcher">> \in missed'
        BY <3>2, <3>3
      <4> QED BY <4>2, <4>3 DEF DrainedStopLosesNothing
    <3>6. missed' \subseteq Handlers \X ToSet(Fanout)
      BY <3>1, <3>3 DEF ServerTypeOK
    <3> QED BY <2>1, <3>2, <3>5, <3>6 DEF Deliver, ServerTypeOK
  <2>2. CASE ~Deliver(h)
    <3>1. UNCHANGED <<send, missed, crashed>> /\ records' \in 0 .. MaxRecords
      BY <2>2, ServerAssumption DEF Connect, Receive, StartTelemetry, LogRecord, HangUp, ReadFails, ServerTypeOK
    <3> QED BY <1>2, <3>1 DEF DrainedStopLosesNothing, ServerTypeOK, Clean
  <2> QED BY <2>1, <2>2
<1>9. ServerTypeOK'
  <2>1. handler' \in [Handlers -> 0 .. 1 + Len(Path)]
    BY <1>1, <1>3, Order
  <2> QED BY <1>2, <1>8, <2>1 DEF ServerTypeOK
<1>10. DrainedStopLosesNothing'
  <2>1. ~Clean => ~Clean'
    BY <1>2 DEF Clean
  <2> QED BY <1>8, <2>1 DEF DrainedStopLosesNothing, Clean
<1> QED BY <1>5, <1>6, <1>7, <1>9, <1>10

-----------------------------------------------------------------------------
(* Theorems *)

\* Every step of the server preserves the invariant.
LEMMA ServerNextInv == ServerInv /\ [ServerNext]_serverVars => ServerInv'
<1> SUFFICES ASSUME ServerInv, [ServerNext]_serverVars PROVE ServerInv'
  OBVIOUS
<1>1. CASE Main
  BY <1>1, MainInv
<1>2. CASE ServerNext /\ \E h \in Handlers : Connect(h) \/ Receive(h) \/ StartTelemetry(h) \/ LogRecord(h)
             \/ Deliver(h) \/ HangUp(h) \/ ReadFails(h)
  BY <1>2, HandlerInv DEF ServerNext
<1>3. ASSUME UNCHANGED <<phase, at, opened, closed, handler, records, runErr, abandoned, missed, crashed>>,
             deadline' \in BOOLEAN, send' \in {"none", "timed", "smtp"}
      PROVE  ServerInv'
  <2>1. ServerTypeOK'
    BY <1>3 DEF ServerInv, ServerTypeOK
  <2>2. Progress' /\ LogsOnly' /\ DrainedStopLosesNothing'
    BY <1>3 DEF ServerInv, Progress, LogsOnly, DrainedStopLosesNothing
  <2>3. Drained'
    BY <1>3 DEF ServerInv, Drained, Clean, Running
  <2> QED BY <2>1, <2>2, <2>3 DEF ServerInv
<1>4. CASE Expire
  BY <1>3, <1>4 DEF Expire, UNCHANGED_Handlers, ServerInv, ServerTypeOK
<1>5. CASE EndSend \/ \E kind \in {"timed", "smtp"} : StartSend(kind)
  BY <1>3, <1>5 DEF EndSend, StartSend, UNCHANGED_Main, ServerInv, ServerTypeOK
<1>6. CASE UNCHANGED serverVars
  BY <1>3, <1>6 DEF serverVars, ServerInv, ServerTypeOK
<1> QED BY <1>1, <1>2, <1>4, <1>5, <1>6 DEF ServerNext

\* The invariant holds in every reachable state.
THEOREM ServerInvariance == ServerSafety => []ServerInv
BY ServerInitInv, ServerNextInv, PTL DEF ServerSafety

\* The variables of run() and of the handlers keep their types.
THEOREM ServerTypeCorrect == ServerSafety => []ServerTypeOK
<1>1. ServerInv => ServerTypeOK
  BY DEF ServerInv
<1> QED BY <1>1, ServerInvariance, PTL

\* If every listener opened and was drained before the deadline, no entry that
\* was read comes to a consumer after its Close but to the notifier from a
\* plugin, and no log record but those of a plugin's stderr, of a failed telemetry
\* insert and of a failed last flush; only such a record panics on the closed
\* batcher. For any handlers and any number of records.
THEOREM DrainedStopHolds == ServerSafety => []DrainedStopLosesNothing
<1>1. ServerInv => DrainedStopLosesNothing
  BY DEF ServerInv
<1> QED BY <1>1, ServerInvariance, PTL

-----------------------------------------------------------------------------
(* The live tail *)

Offers == [entry : TailEntry, kept : BOOLEAN]

\* Who is in Hub.subs, and that the loops under the read lock only see members.
LockDiscipline ==
    /\ \A s \in Subs : s \in registered <=> wsState[s] \in {"open", "writing", "leaving"}
    /\ \A a \in Appenders : /\ toVisit[a] \subseteq registered
                            /\ toVisit[a] # {} => a \in readers

\* The placeholder NoEntry is never taken for an entry.
RealEntries ==
    /\ \A a \in readers : current[a] # NoEntry
    /\ \A s \in Subs : /\ \A i \in DOMAIN tailCh[s] : tailCh[s][i] # NoEntry
                       /\ wsState[s] \in {"absent", "joining", "open"} => writing[s] = NoEntry
                       /\ wsState[s] = "writing" => writing[s] # NoEntry

\* Where a goroutine is, without the history.
HubInv == TailTypeOK /\ LockDiscipline /\ RealEntries /\ ~tailPanic

TailInv == HubInv /\ TailExact

-----------------------------------------------------------------------------
(* Counting the offers that found room *)

\* A count of offers is a number, and a longer prefix holds at least as many.
LEMMA KeptType ==
    ASSUME NEW o \in Seq(Offers), NEW i \in 0 .. Len(o)
    PROVE  /\ KeptUpTo(o, i) \in Nat
           /\ KeptUpTo(o, i) <= KeptUpTo(o, Len(o))
           /\ i > 0 /\ o[i].kept => KeptUpTo(o, i) > 0
<1> DEFINE K(m) == {j \in 1 .. m : o[j].kept}
<1>1. IsFiniteSet(K(i)) /\ IsFiniteSet(K(Len(o))) /\ K(i) \in SUBSET K(Len(o))
  <2>1. IsFiniteSet(1 .. Len(o))
    BY FS_Interval
  <2>2. K(i) \in SUBSET (1 .. Len(o)) /\ K(Len(o)) \in SUBSET (1 .. Len(o)) /\ K(i) \in SUBSET K(Len(o))
    OBVIOUS
  <2> HIDE DEF K
  <2> QED BY <2>1, <2>2, FS_Subset
<1>2. Cardinality(K(i)) \in Nat /\ Cardinality(K(i)) <= Cardinality(K(Len(o)))
  <2> HIDE DEF K
  <2> QED BY <1>1, FS_Subset, FS_CardinalityType
<1>3. i > 0 /\ o[i].kept => i \in K(i)
  OBVIOUS
<1>4. K(i) # {} => Cardinality(K(i)) # 0
  <2> HIDE DEF K
  <2> QED BY <1>1, FS_EmptySet
<1>5. KeptUpTo(o, i) = Cardinality(K(i)) /\ KeptUpTo(o, Len(o)) = Cardinality(K(Len(o)))
  BY DEF KeptUpTo
<1> HIDE DEF K
<1> QED BY <1>2, <1>3, <1>4, <1>5

\* One more offer leaves the earlier counts alone and adds one if it found room.
LEMMA KeptAppend ==
    ASSUME NEW o \in Seq(Offers), NEW x \in Offers
    PROVE  /\ \A i \in 0 .. Len(o) : KeptUpTo(Append(o, x), i) = KeptUpTo(o, i)
           /\ KeptUpTo(Append(o, x), Len(o) + 1)
                = IF x.kept THEN KeptUpTo(o, Len(o)) + 1 ELSE KeptUpTo(o, Len(o))
<1> DEFINE p == Append(o, x)
<1>1. Len(p) = Len(o) + 1 /\ Len(o) \in Nat /\ p[Len(o) + 1] = x
      /\ \A j \in 1 .. Len(o) : p[j] = o[j]
  OBVIOUS
<1> HIDE DEF p
<1>2. ASSUME NEW i \in 0 .. Len(o) PROVE KeptUpTo(p, i) = KeptUpTo(o, i)
  <2>1. {j \in 1 .. i : p[j].kept} = {j \in 1 .. i : o[j].kept}
    BY <1>1
  <2> QED BY <2>1 DEF KeptUpTo
<1>3. KeptUpTo(p, Len(o) + 1) = IF x.kept THEN KeptUpTo(o, Len(o)) + 1 ELSE KeptUpTo(o, Len(o))
  <2> DEFINE K == {j \in 1 .. Len(o) : o[j].kept}
             L == {j \in 1 .. (Len(o) + 1) : p[j].kept}
  <2>1. IsFiniteSet(K)
    <3>1. K \in SUBSET (1 .. Len(o)) /\ IsFiniteSet(1 .. Len(o))
      BY FS_Interval
    <3> HIDE DEF K
    <3> QED BY <3>1, FS_Subset
  <2>2. Len(o) + 1 \notin K
    BY <1>1
  <2>3. L = IF x.kept THEN K \cup {Len(o) + 1} ELSE K
    <3>1. CASE x.kept
      BY <1>1, <3>1
    <3>2. CASE ~x.kept
      BY <1>1, <3>2
    <3> QED BY <3>1, <3>2
  <2>4. KeptUpTo(p, Len(o) + 1) = Cardinality(L) /\ KeptUpTo(o, Len(o)) = Cardinality(K)
    BY DEF KeptUpTo
  <2> HIDE DEF K, L
  <2>5. Cardinality(K \cup {Len(o) + 1}) = Cardinality(K) + 1
    BY <2>1, <2>2, FS_AddElement
  <2> QED BY <2>3, <2>4, <2>5
<1> QED BY <1>2, <1>3 DEF p

-----------------------------------------------------------------------------
(* What is delivered, as a sequence *)

\* Taking the head of the buffer into conn.Write moves it, nothing else.
LEMMA TakeMoves ==
    ASSUME NEW S, NEW a \in Seq(S), NEW c \in Seq(S), c # <<>>
    PROVE  a \o <<>> \o c = a \o <<Head(c)>> \o Tail(c)
<1>1. Head(c) \in S /\ Tail(c) \in Seq(S) /\ c = <<Head(c)>> \o Tail(c)
  <2>1. Head(c) \in S /\ Tail(c) \in Seq(S)
    BY HeadTailProperties
  <2>2. c = <<Head(c)>> \o Tail(c)
    BY <2>1
  <2> QED BY <2>1, <2>2
<1>2. a \o <<>> = a
  BY ConcatEmptySeq
<1>3. <<Head(c)>> \in Seq(S)
  BY <1>1
<1>4. (a \o <<Head(c)>>) \o Tail(c) = a \o (<<Head(c)>> \o Tail(c))
  BY <1>1, <1>3, ConcatAssociative
<1> QED BY <1>1, <1>2, <1>4

\* A write that succeeds moves the entry to what was sent.
LEMMA WriteMoves ==
    ASSUME NEW S, NEW a \in Seq(S), NEW c \in Seq(S), NEW w \in S
    PROVE  a \o <<w>> \o c = Append(a, w) \o <<>> \o c
<1>1. Append(a, w) \in Seq(S) /\ Append(a, w) = a \o <<w>>
  OBVIOUS
<1>2. Append(a, w) \o <<>> = Append(a, w)
  BY <1>1, ConcatEmptySeq
<1> QED BY <1>1, <1>2

\* A send to the channel adds the entry at the end.
LEMMA SendAppends ==
    ASSUME NEW S, NEW a \in Seq(S), NEW c \in Seq(S), NEW e \in S
    PROVE  a \o Append(c, e) = Append(a \o c, e)
<1>1. Append(c, e) = c \o <<e>> /\ Append(a \o c, e) = (a \o c) \o <<e>> /\ <<e>> \in Seq(S)
  OBVIOUS
<1> QED BY <1>1, ConcatAssociative

\* NoEntry is a value of the entry type.
LEMMA NoEntryType == NoEntry \in TailEntry
<1>1. (CHOOSE t \in Tags : TRUE) \in Tags
  BY LiveTailAssumption
<1> QED BY <1>1, LiveTailAssumption DEF NoEntry, TailEntry

\* What is delivered is a sequence of entries.
LEMMA DeliveredType ==
    ASSUME TailTypeOK, NEW s \in Subs
    PROVE  /\ sent[s] \o (IF writing[s] = NoEntry THEN <<>> ELSE <<writing[s]>>) \in Seq(TailEntry)
           /\ Delivered(s) \in Seq(TailEntry)
<1>1. sent[s] \in Seq(TailEntry) /\ tailCh[s] \in Seq(TailEntry) /\ writing[s] \in TailEntry
  BY DEF TailTypeOK
<1>2. (IF writing[s] = NoEntry THEN <<>> ELSE <<writing[s]>>) \in Seq(TailEntry)
  BY <1>1
<1> QED BY <1>1, <1>2, ConcatProperties DEF Delivered

-----------------------------------------------------------------------------
(* Induction: the hub and its lock *)

\* The hub starts without subscribers.
LEMMA InitHub == TailInit => HubInv
<1> SUFFICES ASSUME TailInit PROVE HubInv
  OBVIOUS
<1> USE LiveTailAssumption, NoEntryType
<1>1. TailTypeOK
  <2>1. wsState \in [Subs -> WsStates] /\ tailed \in 0 .. MaxTailed
    BY DEF TailInit, WsStates
  <2>2. /\ tailCh \in [Subs -> Seq(TailEntry)] /\ writing \in [Subs -> TailEntry]
        /\ sent \in [Subs -> Seq(TailEntry)] /\ current \in [Appenders -> TailEntry]
        /\ offered \in [Subs -> Seq([entry : TailEntry, kept : BOOLEAN])]
    BY DEF TailInit
  <2>3. \A s \in Subs : Len(tailCh[s]) <= SubscriberBuffer
    BY DEF TailInit
  <2> QED BY <2>1, <2>2, <2>3 DEF TailInit, TailTypeOK
<1>2. LockDiscipline /\ RealEntries
  BY DEF TailInit, LockDiscipline, RealEntries
<1> QED BY <1>1, <1>2 DEF HubInv, TailInit

\* A step of the WebSocket handler of s. Membership changes only while no
\* goroutine holds the read lock, hence while no loop has anyone left to visit.
LEMMA WsHub == ASSUME HubInv, NEW s \in Subs, WsStep(s) PROVE HubInv'
<1> USE LiveTailAssumption, NoEntryType DEF HubInv
<1>1. CASE Subscribe(s)
  BY <1>1 DEF Subscribe, UNCHANGED_Hub, TailTypeOK, WsStates, LockDiscipline, RealEntries
<1>2. CASE Subscribed(s)
  <2>1. TailTypeOK'
    BY <1>2 DEF Subscribed, UNCHANGED_Hub, TailTypeOK, WsStates
  <2>2. LockDiscipline'
    BY <1>2 DEF Subscribed, UNCHANGED_Hub, TailTypeOK, LockDiscipline
  <2>3. RealEntries'
    BY <1>2 DEF Subscribed, UNCHANGED_Hub, TailTypeOK, RealEntries
  <2> QED BY <1>2, <2>1, <2>2, <2>3 DEF Subscribed, UNCHANGED_Hub
<1>3. CASE TakeEntry(s)
  <2>1. tailCh[s] \in Seq(TailEntry) /\ tailCh[s] # <<>>
    BY <1>3 DEF TakeEntry, TailTypeOK
  <2>2. /\ Head(tailCh[s]) \in TailEntry /\ Tail(tailCh[s]) \in Seq(TailEntry)
        /\ Len(Tail(tailCh[s])) = Len(tailCh[s]) - 1
        /\ \A i \in 1 .. Len(Tail(tailCh[s])) : Tail(tailCh[s])[i] = tailCh[s][i + 1]
    BY <2>1, HeadTailProperties
  <2>3. TailTypeOK'
    <3>1. /\ writing' \in [Subs -> TailEntry] /\ tailCh' \in [Subs -> Seq(TailEntry)]
          /\ wsState' \in [Subs -> WsStates]
      BY <1>3, <2>2 DEF TakeEntry, TailTypeOK, WsStates
    <3>2. Len(tailCh[s]) \in Nat /\ Len(tailCh[s]) <= SubscriberBuffer
      BY <2>1 DEF TailTypeOK
    <3>3. \A q \in Subs : Len(tailCh'[q]) <= SubscriberBuffer
      BY <1>3, <2>2, <3>2 DEF TakeEntry, TailTypeOK
    <3> QED BY <1>3, <3>1, <3>3 DEF TakeEntry, UNCHANGED_Hub, TailTypeOK
  <2>4. LockDiscipline'
    BY <1>3 DEF TakeEntry, UNCHANGED_Hub, TailTypeOK, LockDiscipline
  <2>5. RealEntries'
    <3>1. Head(tailCh[s]) # NoEntry /\ \A i \in DOMAIN Tail(tailCh[s]) : Tail(tailCh[s])[i] # NoEntry
      BY <2>1, <2>2 DEF RealEntries
    <3> QED BY <1>3, <3>1 DEF TakeEntry, UNCHANGED_Hub, TailTypeOK, RealEntries
  <2> QED BY <1>3, <2>3, <2>4, <2>5 DEF TakeEntry, UNCHANGED_Hub
<1>4. CASE WriteOk(s)
  <2>1. TailTypeOK'
    <3>1. writing[s] \in TailEntry /\ sent[s] \in Seq(TailEntry)
      BY DEF TailTypeOK
    <3>2. sent' \in [Subs -> Seq(TailEntry)] /\ writing' \in [Subs -> TailEntry]
      BY <1>4, <3>1 DEF WriteOk, TailTypeOK
    <3>3. wsState' \in [Subs -> WsStates]
      BY <1>4 DEF WriteOk, TailTypeOK, WsStates
    <3> QED BY <1>4, <3>2, <3>3 DEF WriteOk, UNCHANGED_Hub, TailTypeOK
  <2>2. LockDiscipline'
    BY <1>4 DEF WriteOk, UNCHANGED_Hub, TailTypeOK, LockDiscipline
  <2>3. RealEntries'
    BY <1>4 DEF WriteOk, UNCHANGED_Hub, TailTypeOK, RealEntries
  <2> QED BY <1>4, <2>1, <2>2, <2>3 DEF WriteOk, UNCHANGED_Hub
<1>5. CASE Leave(s)
  BY <1>5 DEF Leave, UNCHANGED_Hub, TailTypeOK, WsStates, LockDiscipline, RealEntries
<1>6. CASE DeleteSub(s)
  <2>1. TailTypeOK'
    BY <1>6 DEF DeleteSub, UNCHANGED_Hub, TailTypeOK, WsStates
  <2>2. LockDiscipline'
    BY <1>6 DEF DeleteSub, UNCHANGED_Hub, TailTypeOK, LockDiscipline
  <2>3. RealEntries'
    BY <1>6 DEF DeleteSub, UNCHANGED_Hub, TailTypeOK, RealEntries
  <2> QED BY <1>6, <2>1, <2>2, <2>3 DEF DeleteSub, UNCHANGED_Hub
<1>7. CASE CloseCh(s)
  BY <1>7 DEF CloseCh, UNCHANGED_Hub, TailTypeOK, WsStates, LockDiscipline, RealEntries
<1> QED BY <1>1, <1>2, <1>3, <1>4, <1>5, <1>6, <1>7 DEF WsStep

\* A step of Hub.Append. A subscriber still to be visited is a member, so its
\* channel is open.
LEMMA AppendHub ==
    ASSUME HubInv, NEW a \in Appenders,
           Visit(a) \/ HubAppended(a) \/ \E t \in Tags : HubAppend(a, t)
    PROVE  HubInv'
<1> USE LiveTailAssumption, NoEntryType DEF HubInv
<1>1. ASSUME NEW t \in Tags, HubAppend(a, t) PROVE HubInv'
  <2>1. tailed + 1 \in 0 .. MaxTailed
    BY <1>1 DEF HubAppend, TailTypeOK
  <2>2. [id |-> tailed + 1, tag |-> t] \in TailEntry /\ [id |-> tailed + 1, tag |-> t] # NoEntry
    BY <2>1 DEF TailEntry, NoEntry, TailTypeOK
  <2>3. TailTypeOK'
    BY <1>1, <2>1, <2>2 DEF HubAppend, TailTypeOK
  <2>4. LockDiscipline'
    BY <1>1 DEF HubAppend, TailTypeOK, LockDiscipline
  <2>5. RealEntries'
    BY <1>1, <2>2 DEF HubAppend, TailTypeOK, RealEntries
  <2> QED BY <1>1, <2>3, <2>4, <2>5 DEF HubAppend
<1>2. CASE Visit(a)
  <2>1. PICK s \in toVisit[a] :
           /\ toVisit' = [toVisit EXCEPT ![a] = @ \ {s}]
           /\ \/ Offer(a, s)
              \/ UNCHANGED <<offered, tailCh, tailPanic>>
           /\ UNCHANGED <<wsState, registered, writing, readers, current, tailed, sent>>
    BY <1>2 DEF Visit
  <2>2. s \in Subs /\ s \in registered /\ a \in readers /\ wsState[s] # "closed"
    BY <2>1 DEF TailTypeOK, LockDiscipline
  <2>3. current[a] \in TailEntry /\ current[a] # NoEntry
    BY <2>2 DEF TailTypeOK, RealEntries
  <2>4. /\ offered' \in [Subs -> Seq([entry : TailEntry, kept : BOOLEAN])]
        /\ tailCh' \in [Subs -> Seq(TailEntry)]
        /\ \A q \in Subs : Len(tailCh'[q]) <= SubscriberBuffer
        /\ \A q \in Subs : \A i \in DOMAIN tailCh'[q] : tailCh'[q][i] # NoEntry
        /\ tailPanic' = FALSE
    <3>1. CASE Offer(a, s)
      <4> DEFINE room == Len(tailCh[s]) < SubscriberBuffer
      <4>1. [entry |-> current[a], kept |-> room] \in [entry : TailEntry, kept : BOOLEAN]
        BY <2>3
      <4>2. offered' \in [Subs -> Seq([entry : TailEntry, kept : BOOLEAN])]
        <5>1. offered' = [offered EXCEPT ![s] = Append(@, [entry |-> current[a], kept |-> room])]
          BY <3>1 DEF Offer
        <5> DEFINE x == [entry |-> current[a], kept |-> room]
                   R == [entry : TailEntry, kept : BOOLEAN]
        <5>2. offered \in [Subs -> Seq(R)] /\ x \in R
          BY <4>1 DEF TailTypeOK
        <5> HIDE DEF x, R
        <5>3. [offered EXCEPT ![s] = Append(@, x)] \in [Subs -> Seq(R)]
          BY <2>2, <5>2
        <5> QED BY <5>1, <5>3 DEF x, R
      <4>3. tailPanic' = FALSE
        BY <2>2, <3>1 DEF Offer
      <4>4. CASE room
        <5>1. tailCh' = [tailCh EXCEPT ![s] = Append(@, current[a])]
          BY <3>1, <4>4 DEF Offer
        <5>2. tailCh[s] \in Seq(TailEntry) /\ Len(tailCh[s]) < SubscriberBuffer
          BY <2>2, <4>4 DEF TailTypeOK
        <5>3. /\ Append(tailCh[s], current[a]) \in Seq(TailEntry)
              /\ Len(Append(tailCh[s], current[a])) <= SubscriberBuffer
              /\ \A i \in DOMAIN Append(tailCh[s], current[a]) : Append(tailCh[s], current[a])[i] # NoEntry
          BY <2>2, <2>3, <5>2 DEF RealEntries
        <5> QED BY <2>2, <4>2, <4>3, <5>1, <5>3 DEF TailTypeOK, RealEntries
      <4>5. CASE ~room
        <5>1. tailCh' = tailCh
          BY <3>1, <4>5 DEF Offer
        <5> QED BY <4>2, <4>3, <5>1 DEF TailTypeOK, RealEntries
      <4> QED BY <4>4, <4>5
    <3>2. CASE UNCHANGED <<offered, tailCh, tailPanic>>
      BY <3>2 DEF TailTypeOK, RealEntries
    <3> QED BY <2>1, <3>1, <3>2
  <2>5. TailTypeOK'
    BY <2>1, <2>4 DEF TailTypeOK
  <2>6. LockDiscipline'
    BY <2>1 DEF TailTypeOK, LockDiscipline
  <2>7. RealEntries'
    BY <2>1, <2>4 DEF RealEntries
  <2> QED BY <2>4, <2>5, <2>6, <2>7
<1>3. CASE HubAppended(a)
  <2>1. TailTypeOK' /\ RealEntries'
    BY <1>3 DEF HubAppended, TailTypeOK, RealEntries
  <2>2. LockDiscipline'
    BY <1>3 DEF HubAppended, TailTypeOK, LockDiscipline
  <2> QED BY <1>3, <2>1, <2>2 DEF HubAppended
<1> QED BY <1>1, <1>2, <1>3

-----------------------------------------------------------------------------
(* Induction: what is delivered *)

\* TailExact of one subscriber.
ExactFor(s) ==
    /\ Len(Delivered(s)) = KeptUpTo(offered[s], Len(offered[s]))
    /\ \A i \in DOMAIN offered[s] : offered[s][i].kept =>
          Delivered(s)[KeptUpTo(offered[s], i)] = offered[s][i].entry

\* No step of a WebSocket handler changes what is delivered to anyone.
LEMMA WsExact ==
    ASSUME HubInv, NEW s \in Subs, WsStep(s), NEW q \in Subs, ExactFor(q)
    PROVE  ExactFor(q)'
<1>1. offered' = offered
  BY DEF WsStep, Subscribe, Subscribed, TakeEntry, WriteOk, Leave, DeleteSub, CloseCh, UNCHANGED_Hub
<1>2. Delivered(q)' = Delivered(q)
  <2> USE DEF HubInv
  <2>1. sent[q] \in Seq(TailEntry) /\ tailCh[q] \in Seq(TailEntry) /\ writing[q] \in TailEntry
    BY DEF TailTypeOK
  <2>2. CASE q = s /\ TakeEntry(s)
    <3>1. tailCh[q] # <<>> /\ writing[q] = NoEntry
      BY <2>2 DEF TakeEntry, RealEntries
    <3>2. /\ sent'[q] = sent[q] /\ writing'[q] = Head(tailCh[q]) /\ tailCh'[q] = Tail(tailCh[q])
      BY <2>2 DEF TakeEntry, TailTypeOK
    <3>3. Head(tailCh[q]) # NoEntry
      BY <2>1, <3>1 DEF RealEntries
    <3>4. Delivered(q) = sent[q] \o <<>> \o tailCh[q]
      BY <3>1 DEF Delivered
    <3>5. Delivered(q)' = sent[q] \o <<Head(tailCh[q])>> \o Tail(tailCh[q])
      BY <3>2, <3>3 DEF Delivered
    <3> QED BY <2>1, <3>1, <3>4, <3>5, TakeMoves
  <2>3. CASE q = s /\ WriteOk(s)
    <3>1. writing[q] # NoEntry
      BY <2>3 DEF WriteOk, RealEntries
    <3>2. sent'[q] = Append(sent[q], writing[q]) /\ writing'[q] = NoEntry /\ tailCh'[q] = tailCh[q]
      BY <2>3 DEF WriteOk, TailTypeOK
    <3>3. Delivered(q) = sent[q] \o <<writing[q]>> \o tailCh[q]
      BY <3>1 DEF Delivered
    <3>4. Delivered(q)' = Append(sent[q], writing[q]) \o <<>> \o tailCh[q]
      BY <3>2 DEF Delivered
    <3> QED BY <2>1, <3>3, <3>4, WriteMoves
  <2>4. CASE ~(q = s /\ (TakeEntry(s) \/ WriteOk(s)))
    <3>1. sent'[q] = sent[q] /\ writing'[q] = writing[q] /\ tailCh'[q] = tailCh[q]
      BY <2>4 DEF WsStep, Subscribe, Subscribed, TakeEntry, WriteOk, Leave, DeleteSub, CloseCh,
                  UNCHANGED_Hub, TailTypeOK
    <3> QED BY <3>1 DEF Delivered
  <2> QED BY <2>2, <2>3, <2>4
<1> QED BY <1>1, <1>2 DEF ExactFor

\* A visit adds the entry to what is delivered exactly if it is recorded as kept.
LEMMA VisitExact ==
    ASSUME HubInv, NEW a \in Appenders, Visit(a), NEW q \in Subs, ExactFor(q)
    PROVE  ExactFor(q)'
<1> USE DEF HubInv
<1>1. PICK s \in toVisit[a] :
         /\ \/ Offer(a, s)
            \/ UNCHANGED <<offered, tailCh, tailPanic>>
         /\ UNCHANGED <<writing, readers, current, sent>>
  BY DEF Visit
<1>2. s \in Subs /\ a \in readers /\ current[a] \in TailEntry
  BY <1>1 DEF TailTypeOK, LockDiscipline
<1>3. CASE q # s \/ UNCHANGED <<offered, tailCh, tailPanic>>
  <2>1. offered'[q] = offered[q] /\ tailCh'[q] = tailCh[q]
    BY <1>1, <1>2, <1>3 DEF Offer, TailTypeOK
  <2>2. Delivered(q)' = Delivered(q)
    BY <1>1, <2>1 DEF Delivered
  <2> QED BY <2>1, <2>2 DEF ExactFor
<1>4. CASE q = s /\ Offer(a, s)
  <2> DEFINE room == Len(tailCh[q]) < SubscriberBuffer
             x == [entry |-> current[a], kept |-> room]
             o == offered[q]
             d == Delivered(q)
  <2>1. o \in Seq(Offers) /\ x \in Offers /\ d \in Seq(TailEntry) /\ tailCh[q] \in Seq(TailEntry)
    <3>1. x \in Offers
      BY <1>2 DEF Offers
    <3>2. o \in Seq(Offers) /\ tailCh[q] \in Seq(TailEntry)
      BY DEF TailTypeOK, Offers
    <3>3. d \in Seq(TailEntry)
      BY DeliveredType
    <3> HIDE DEF x, o, d
    <3> QED BY <3>1, <3>2, <3>3
  <2>2. offered'[q] = Append(o, x)
    BY <1>4 DEF Offer, TailTypeOK
  <2>3. Delivered(q)' = IF room THEN Append(d, current[a]) ELSE d
    <3> DEFINE pre == sent[q] \o (IF writing[q] = NoEntry THEN <<>> ELSE <<writing[q]>>)
    <3>1. pre \in Seq(TailEntry) /\ d = pre \o tailCh[q]
      BY DeliveredType DEF Delivered
    <3>2. Delivered(q)' = pre \o tailCh'[q]
      BY <1>1 DEF Delivered
    <3> HIDE DEF pre, d
    <3>3. CASE room
      <4>1. tailCh'[q] = Append(tailCh[q], current[a])
        BY <1>4, <3>3 DEF Offer, TailTypeOK
      <4> QED BY <1>2, <2>1, <3>1, <3>2, <3>3, <4>1, SendAppends, SMTT(60)
    <3>4. CASE ~room
      <4>1. tailCh' = tailCh
        BY <1>4, <3>4 DEF Offer
      <4> QED BY <3>1, <3>2, <3>4, <4>1
    <3> QED BY <3>3, <3>4
  <2>4. /\ Len(d) = KeptUpTo(o, Len(o))
        /\ \A i \in 1 .. Len(o) : o[i].kept => d[KeptUpTo(o, i)] = o[i].entry
    BY <2>1 DEF ExactFor
  <2>5. x.kept = room /\ x.entry = current[a] /\ room \in BOOLEAN
    OBVIOUS
  <2> HIDE DEF d, o, x, room
  <2>6. /\ \A i \in 0 .. Len(o) : KeptUpTo(Append(o, x), i) = KeptUpTo(o, i)
        /\ KeptUpTo(Append(o, x), Len(o) + 1)
             = IF x.kept THEN KeptUpTo(o, Len(o)) + 1 ELSE KeptUpTo(o, Len(o))
    BY <2>1, KeptAppend
  <2>7. /\ Len(Append(o, x)) = Len(o) + 1 /\ Len(o) \in Nat /\ Len(d) \in Nat
        /\ DOMAIN Append(o, x) = 1 .. (Len(o) + 1)
        /\ Append(o, x)[Len(o) + 1] = x /\ \A i \in 1 .. Len(o) : Append(o, x)[i] = o[i]
    BY <2>1
  <2>8. \A i \in 1 .. Len(o) : o[i].kept => KeptUpTo(o, i) \in 1 .. Len(d)
    <3> SUFFICES ASSUME NEW i \in 1 .. Len(o), o[i].kept PROVE KeptUpTo(o, i) \in 1 .. Len(d)
      OBVIOUS
    <3>1. KeptUpTo(o, i) \in Nat /\ KeptUpTo(o, i) <= KeptUpTo(o, Len(o)) /\ KeptUpTo(o, i) > 0
      BY <2>1, <2>7, KeptType
    <3> QED BY <2>4, <2>7, <3>1
  <2>9. CASE room
    <3> DEFINE n == Append(d, current[a])
    <3>1. Len(n) = Len(d) + 1 /\ n[Len(d) + 1] = current[a] /\ \A i \in 1 .. Len(d) : n[i] = d[i]
      BY <1>2, <2>1
    <3>2. Delivered(q)' = n
      BY <2>3, <2>9
    <3> HIDE DEF n
    <3>3. Len(n) = KeptUpTo(Append(o, x), Len(Append(o, x)))
      BY <2>4, <2>5, <2>6, <2>7, <2>9, <3>1
    <3>4. ASSUME NEW i \in 1 .. (Len(o) + 1), Append(o, x)[i].kept
          PROVE  n[KeptUpTo(Append(o, x), i)] = Append(o, x)[i].entry
      <4>1. CASE i = Len(o) + 1
        BY <2>4, <2>5, <2>6, <2>7, <2>9, <3>1, <4>1
      <4>2. CASE i \in 1 .. Len(o)
        BY <2>4, <2>6, <2>7, <2>8, <3>1, <3>4, <4>2
      <4> QED BY <2>7, <4>1, <4>2
    <3> QED BY <2>2, <2>7, <3>2, <3>3, <3>4 DEF ExactFor
  <2>10. CASE ~room
    <3>1. Delivered(q)' = d
      BY <2>3, <2>10
    <3>2. Len(d) = KeptUpTo(Append(o, x), Len(Append(o, x)))
      BY <2>4, <2>5, <2>6, <2>7, <2>10
    <3>3. ASSUME NEW i \in 1 .. (Len(o) + 1), Append(o, x)[i].kept
          PROVE  d[KeptUpTo(Append(o, x), i)] = Append(o, x)[i].entry
      <4>1. i \in 1 .. Len(o)
        BY <2>5, <2>7, <2>10, <3>3
      <4> QED BY <2>4, <2>6, <2>7, <3>3, <4>1
    <3> QED BY <2>2, <2>7, <3>1, <3>2, <3>3 DEF ExactFor
  <2> QED BY <2>9, <2>10 DEF room
<1> QED BY <1>1, <1>3, <1>4

\* Entering and leaving Hub.Append delivers nothing.
LEMMA LockExact ==
    ASSUME NEW q \in Subs, ExactFor(q), UNCHANGED <<sent, writing, tailCh, offered>>
    PROVE  ExactFor(q)'
BY DEF ExactFor, Delivered

-----------------------------------------------------------------------------
(* Theorems *)

\* The initial state satisfies the invariant: nothing offered, nothing delivered.
LEMMA TailInitInv == TailInit => TailInv
<1> SUFFICES ASSUME TailInit PROVE TailExact
  BY InitHub DEF TailInv
<1>1. ASSUME NEW s \in Subs PROVE Delivered(s) = <<>> /\ offered[s] = <<>>
  <2>1. sent[s] = <<>> /\ tailCh[s] = <<>> /\ writing[s] = NoEntry /\ offered[s] = <<>>
    BY DEF TailInit
  <2> QED BY <2>1 DEF Delivered
<1>2. KeptUpTo(<<>>, Len(<<>>)) = 0
  <2>1. {j \in 1 .. Len(<<>>) : <<>>[j].kept} = {}
    OBVIOUS
  <2> QED BY <2>1, FS_EmptySet DEF KeptUpTo
<1> QED BY <1>1, <1>2 DEF TailExact, TailInit

\* Every step of a handler or of the hub preserves the invariant.
LEMMA TailNextInv == TailInv /\ [TailNext]_tailVars => TailInv'
<1> SUFFICES ASSUME TailInv, [TailNext]_tailVars PROVE TailInv'
  OBVIOUS
<1>1. HubInv /\ \A q \in Subs : ExactFor(q)
  BY DEF TailInv, TailExact, ExactFor
<1>2. HubInv'
  <2>1. CASE UNCHANGED tailVars
    BY <1>1, <2>1 DEF tailVars, HubInv, TailTypeOK, LockDiscipline, RealEntries
  <2> QED BY <1>1, <2>1, WsHub, AppendHub DEF TailNext
<1>3. ASSUME NEW q \in Subs PROVE ExactFor(q)'
  <2>1. ASSUME NEW s \in Subs, WsStep(s) PROVE ExactFor(q)'
    BY <1>1, <2>1, WsExact
  <2>2. ASSUME NEW a \in Appenders, Visit(a) PROVE ExactFor(q)'
    BY <1>1, <2>2, VisitExact
  <2>3. CASE UNCHANGED <<sent, writing, tailCh, offered>>
    BY <1>1, <2>3, LockExact
  <2> QED BY <2>1, <2>2, <2>3 DEF TailNext, HubAppend, HubAppended, tailVars
<1> QED BY <1>2, <1>3 DEF TailInv, TailExact, ExactFor, HubInv

\* The invariant holds in every reachable state.
THEOREM TailInvariance == TailSafety => []TailInv
BY TailInitInv, TailNextInv, PTL DEF TailSafety

\* The hub's variables keep their types; no subscriber's buffer outgrows
\* subscriberBuffer.
THEOREM TailTypeCorrect == TailSafety => []TailTypeOK
<1>1. TailInv => TailTypeOK
  BY DEF TailInv, HubInv
<1> QED BY <1>1, TailInvariance, PTL

\* Every client gets exactly the entries that were offered to it and found room,
\* in order, and no send meets a closed channel, however Hub.Append,
\* subscriptions, cancellations and writes interleave.
THEOREM TailExactHolds == TailSafety => []TailExact
<1>1. TailInv => TailExact
  BY DEF TailInv
<1> QED BY <1>1, TailInvariance, PTL

-----------------------------------------------------------------------------
(* The parsing pipelines: the invariant *)

\* The keys the loops under way have still to visit.
Pending == UNION Range(todo)

\* The fields f are b with the texts of the leaves L.
Spread(f, b, L) ==
    /\ f = [k \in DOMAIN f |-> f[k]]
    /\ DOMAIN f = {i.path : i \in L} \cup DOMAIN b
    /\ \A i \in L : f[i.path] = i.value.text
    /\ \A k \in DOMAIN b : (\A i \in L : i.path # k) => f[k] = b[k]

\* e is b after the keys V of obj.
Seen(e, b, obj, V) ==
    /\ IsEntry(e) /\ e.app = b.app /\ e.src = b.src /\ e.pid = b.pid
    /\ \A i \in V : IsMessage(i) => e.msg = i.value.text
    /\ (\A i \in V : ~IsMessage(i)) => e.msg = b.msg
    /\ \A i \in V : IsLevel(i) => e.lvl = LooseLevels[i.value.text]
    /\ (\A i \in V : ~IsLevel(i)) => e.lvl = b.lvl
    /\ Spread(e.fields, b.fields, V \cap Leaves(obj))

\* Whatever is not visited and not pending is under a key that is pending.
Closed(obj, V, P) ==
    /\ P \subseteq AllKeys(obj)
    /\ Keys(<<>>, 0, obj) \subseteq V \cup P
    /\ \A i \in V : Opens(i) => Keys(i.path, i.depth, i.value.keys) \subseteq V \cup P

\* e is b after some keys of obj, and what else counts is pending in P.
Account(b, obj, e, P) == \E V \in SUBSET AllKeys(obj) : Seen(e, b, obj, V) /\ Closed(obj, V, P)

\* The JSON step s, which began with b, is under way with P pending.
InJson(b, s, e, P) ==
    LET obj == Decode(Input(b, s.from)) IN
    obj # NoMatch /\ (OrderFree(b, obj) => Account(b, obj, e, P))

\* set after the fields V of the step.
SetPart(s, set, V) ==
    LET names == {k \in V : Resolves(s.fields[k], set)}
    IN [set EXCEPT !.fields = [k \in names \cup DOMAIN @ |->
                                 IF k \in names THEN Resolve(s.fields[k], set) ELSE @[k]]]

\* No field of the step refers to another field of it: the order does not matter.
Independent(s) == ~ \E k \in DOMAIN s.fields : s.fields[k].ref /\ s.fields[k].field \in DOMAIN s.fields

\* The set step s, which began with b, is under way.
InSet(b, s, e, stack) ==
    Independent(s) =>
       \E V \in SUBSET DOMAIN s.fields :
          stack = <<DOMAIN s.fields \ V>> /\ e = SetPart(s, SetAttributes(s, b), V)

\* The account before this pipeline, and before this step of it.
Before == AfterPipelines[pl - 1]
SoFar == AfterSteps(Before, pipelines[pl].steps)[step - 1]

\* The entry e while step s runs that began with b.
Faithful(b, s, e, stack) ==
    IF stack = <<>> THEN e = b
    ELSE \/ s.kind = "json" /\ InJson(b, s, e, UNION Range(stack))
         \/ s.kind = "set" /\ InSet(b, s, e, stack)

\* Where the execution is, and that the caller's map is as it arrived.
Position ==
    /\ pipelines \in Configurations /\ arrived \in PipeEntries
    /\ caller = arrived.fields
    /\ pl \in 1 .. Len(pipelines) + 1 /\ step \in Nat /\ owned \in BOOLEAN
    /\ fate \in {"running", "dropped", "forwarded"}
    /\ step > 0 => owned /\ pl <= Len(pipelines) /\ step <= Len(pipelines[pl].steps) + 1
    /\ todo # <<>> => /\ step \in 1 .. Len(pipelines[pl].steps)
                      /\ ThisStep.kind \in {"json", "set"}

\* What is pending: keys a loop can meet, each loop no deeper than its keys.
Stack ==
    /\ todo \in Seq(SUBSET Pending) /\ Len(todo) <= 3
    /\ todo # <<>> /\ ThisStep.kind = "set" => Len(todo) <= 1
    /\ todo # <<>> /\ ThisStep.kind = "json" =>
          \A i \in DOMAIN todo : \A x \in todo[i] : x.depth \in Nat /\ i <= x.depth

\* While it runs, the entry is what the steps so far mean.
OnAccount ==
    fate = "running" =>
       \/ Before.fate = "any"
       \/ Before.fate = "running" /\ step = 0 /\ entry = Before.e
       \/ /\ Before.fate = "running" /\ step > 0 /\ When(pipelines[pl].when, Before.e)
          /\ \/ SoFar.fate = "any"
             \/ SoFar.fate = "running" /\ Faithful(SoFar.e, ThisStep, entry, todo)

\* What comes out is what all the steps mean.
Outcome ==
    fate # "running" =>
       \/ Meaning.fate = "any"
       \/ fate = "dropped" /\ Meaning.fate = "dropped"
       \/ fate = "forwarded" /\ Meaning = [e |-> entry, fate |-> "running"]

PipeInv == Position /\ Stack /\ OnAccount /\ Outcome

-----------------------------------------------------------------------------
(* Induction up to a number *)

\* A set of numbers that holds 0 and with each number the next holds them all.
LEMMA Induction ==
    ASSUME NEW n \in Nat, NEW T, 0 \in T, \A i \in 1 .. n : i - 1 \in T => i \in T
    PROVE  0 .. n \subseteq T
<1> DEFINE less == {p \in Nat \X Nat : p[1] < p[2]}
           Out == (0 .. n) \ T
<1>1. IsWellFoundedOn(less, Nat)
  <2>1. OpToRel(<, Nat) = less
    BY Zenon DEF OpToRel
  <2> QED BY <2>1, NatLessThanWellFounded
<1>2. ASSUME Out # {} PROVE FALSE
  <2>1. Out \in SUBSET Nat
    OBVIOUS
  <2>2. PICK x \in Out : \A y \in Out : ~(<<y, x>> \in less)
    <3> HIDE DEF less, Out
    <3> QED BY <1>1, <1>2, <2>1, WFMin
  <2>3. x \in 1 .. n /\ x \notin T
    BY <2>2
  <2>4. x - 1 \in Nat /\ x - 1 \in 0 .. n /\ <<x - 1, x>> \in less
    BY <2>3
  <2>5. x - 1 \notin Out
    <3> HIDE DEF less, Out
    <3> QED BY <2>2, <2>4
  <2> QED BY <2>3, <2>4, <2>5
<1> QED BY <1>2

-----------------------------------------------------------------------------
(* What the steps mean, step by step *)

AfterStepsBy(f, st, steps) ==
    f = [i \in 0 .. Len(steps) |-> IF i = 0 THEN st ELSE StepMeans(f[i - 1], steps[i])]

LEMMA AfterStepsIs ==
    ASSUME NEW st, NEW S, NEW steps \in Seq(S)
    PROVE  /\ AfterSteps(st, steps)[0] = st
           /\ \A i \in 1 .. Len(steps) :
                 AfterSteps(st, steps)[i] = StepMeans(AfterSteps(st, steps)[i - 1], steps[i])
<1> DEFINE n == Len(steps)
           Is(g, k) == DOMAIN g = 0 .. k /\ g[0] = st /\ \A i \in 1 .. k : g[i] = StepMeans(g[i - 1], steps[i])
           T == {k \in 0 .. n : \E g : Is(g, k)}
           f == AfterSteps(st, steps)
<1>1. n \in Nat
  OBVIOUS
<1>2. 0 \in T
  <2>1. Is([i \in 0 .. 0 |-> st], 0)
    OBVIOUS
  <2>2. \E g : Is(g, 0)
    <3> HIDE DEF Is
    <3> QED BY <2>1
  <2> QED BY <1>1, <2>2
<1>3. ASSUME NEW k \in 1 .. n, k - 1 \in T PROVE k \in T
  <2>1. PICK g : Is(g, k - 1)
    <3> HIDE DEF Is
    <3> QED BY <1>3
  <2> DEFINE h == [i \in 0 .. k |-> IF i = k THEN StepMeans(g[k - 1], steps[k]) ELSE g[i]]
  <2>2. k \in Nat /\ k # 0 /\ k \in 0 .. n
    BY <1>1
  <2>3. DOMAIN h = 0 .. k /\ h[0] = st
    BY <2>1, <2>2
  <2>4. ASSUME NEW i \in 1 .. k PROVE h[i] = StepMeans(h[i - 1], steps[i])
    <3>1. CASE i = k
      <4>1. h[i] = StepMeans(g[k - 1], steps[k]) /\ h[i - 1] = g[i - 1]
        BY <3>1, <2>2
      <4> HIDE DEF h
      <4> QED BY <3>1, <4>1
    <3>2. CASE i # k
      <4>1. i \in 1 .. (k - 1) /\ i - 1 \in 0 .. k /\ i - 1 # k /\ i \in 0 .. k
        BY <3>2
      <4>2. h[i] = g[i] /\ h[i - 1] = g[i - 1]
        BY <3>2, <4>1
      <4>3. g[i] = StepMeans(g[i - 1], steps[i])
        BY <2>1, <4>1
      <4> HIDE DEF h
      <4> QED BY <4>2, <4>3
    <3> QED BY <3>1, <3>2
  <2>5. Is(h, k)
    <3> HIDE DEF h
    <3> QED BY <2>3, <2>4
  <2>6. \E g_1 : Is(g_1, k)
    <3> HIDE DEF Is, h
    <3> QED BY <2>5
  <2> HIDE DEF Is
  <2> QED BY <2>2, <2>6
<1>4. PICK g : Is(g, n)
  <2>1. 0 .. n \subseteq T
    <3> HIDE DEF T, n
    <3> QED BY <1>1, <1>2, <1>3, Induction
  <2>2. n \in T
    <3> HIDE DEF T
    <3> QED BY <1>1, <2>1
  <2> HIDE DEF Is
  <2> QED BY <2>2
<1> DEFINE g0 == [i \in 0 .. n |-> g[i]]
<1>5. AfterStepsBy(g0, st, steps)
  <2>1. ASSUME NEW i \in 0 .. n PROVE g0[i] = IF i = 0 THEN st ELSE StepMeans(g0[i - 1], steps[i])
    <3>1. CASE i = 0
      BY <1>1, <1>4, <3>1
    <3>2. CASE i # 0
      <4>1. i \in 1 .. n /\ i - 1 \in 0 .. n
        BY <1>1, <3>2
      <4>2. g0[i] = g[i] /\ g0[i - 1] = g[i - 1]
        BY <4>1
      <4>3. g[i] = StepMeans(g[i - 1], steps[i])
        BY <1>4, <4>1
      <4> HIDE DEF g0
      <4> QED BY <3>2, <4>2, <4>3
    <3> QED BY <3>1, <3>2
  <2>2. g0 = [i \in 0 .. n |-> g0[i]]
    OBVIOUS
  <2> HIDE DEF g0
  <2>3. g0 = [i \in 0 .. n |-> IF i = 0 THEN st ELSE StepMeans(g0[i - 1], steps[i])]
    BY <2>1, <2>2
  <2> QED BY <2>3, Zenon DEF AfterStepsBy
<1>6. f = [i \in 0 .. n |-> IF i = 0 THEN st ELSE StepMeans(f[i - 1], steps[i])]
  <2>1. f = CHOOSE h : AfterStepsBy(h, st, steps)
    BY Zenon DEF AfterSteps, AfterStepsBy
  <2>2. AfterStepsBy(f, st, steps)
    <3> HIDE DEF f, g0
    <3> QED BY <1>5, <2>1, Zenon
  <2> QED BY <2>2, Zenon DEF AfterStepsBy
<1>7. f[0] = st
  <2> HIDE DEF f
  <2> QED BY <1>1, <1>6
<1>8. ASSUME NEW i \in 1 .. n PROVE f[i] = StepMeans(f[i - 1], steps[i])
  <2>1. i \in 0 .. n /\ i # 0
    OBVIOUS
  <2> HIDE DEF f, n
  <2> QED BY <1>6, <2>1
<1> QED BY <1>7, <1>8

AfterPipelinesBy(f, start, ps) ==
    f = [i \in 0 .. Len(ps) |-> IF i = 0 THEN start ELSE PipelineMeans(f[i - 1], ps[i])]

Start == [e |-> arrived, fate |-> "running"]

LEMMA AfterPipelinesIs ==
    ASSUME NEW S, pipelines \in Seq(S)
    PROVE  /\ AfterPipelines[0] = Start
           /\ \A i \in 1 .. Len(pipelines) :
                 AfterPipelines[i] = PipelineMeans(AfterPipelines[i - 1], pipelines[i])
<1> DEFINE n == Len(pipelines)
           Is(g, k) == DOMAIN g = 0 .. k /\ g[0] = Start /\ \A i \in 1 .. k : g[i] = PipelineMeans(g[i - 1], pipelines[i])
           T == {k \in 0 .. n : \E g : Is(g, k)}
           f == AfterPipelines
<1>1. n \in Nat
  OBVIOUS
<1>2. 0 \in T
  <2>1. Is([i \in 0 .. 0 |-> Start], 0)
    OBVIOUS
  <2>2. \E g : Is(g, 0)
    <3> HIDE DEF Is
    <3> QED BY <2>1
  <2> QED BY <1>1, <2>2
<1>3. ASSUME NEW k \in 1 .. n, k - 1 \in T PROVE k \in T
  <2>1. PICK g : Is(g, k - 1)
    <3> HIDE DEF Is
    <3> QED BY <1>3
  <2> DEFINE h == [i \in 0 .. k |-> IF i = k THEN PipelineMeans(g[k - 1], pipelines[k]) ELSE g[i]]
  <2>2. k \in Nat /\ k # 0 /\ k \in 0 .. n
    BY <1>1
  <2>3. DOMAIN h = 0 .. k /\ h[0] = Start
    BY <2>1, <2>2
  <2>4. ASSUME NEW i \in 1 .. k PROVE h[i] = PipelineMeans(h[i - 1], pipelines[i])
    <3>1. CASE i = k
      <4>1. h[i] = PipelineMeans(g[k - 1], pipelines[k]) /\ h[i - 1] = g[i - 1]
        BY <3>1, <2>2
      <4> HIDE DEF h
      <4> QED BY <3>1, <4>1
    <3>2. CASE i # k
      <4>1. i \in 1 .. (k - 1) /\ i - 1 \in 0 .. k /\ i - 1 # k /\ i \in 0 .. k
        BY <3>2
      <4>2. h[i] = g[i] /\ h[i - 1] = g[i - 1]
        BY <3>2, <4>1
      <4>3. g[i] = PipelineMeans(g[i - 1], pipelines[i])
        BY <2>1, <4>1
      <4> HIDE DEF h
      <4> QED BY <4>2, <4>3
    <3> QED BY <3>1, <3>2
  <2>5. Is(h, k)
    <3> HIDE DEF h
    <3> QED BY <2>3, <2>4
  <2>6. \E g_1 : Is(g_1, k)
    <3> HIDE DEF Is, h
    <3> QED BY <2>5
  <2> HIDE DEF Is
  <2> QED BY <2>2, <2>6
<1>4. PICK g : Is(g, n)
  <2>1. 0 .. n \subseteq T
    <3> HIDE DEF T, n
    <3> QED BY <1>1, <1>2, <1>3, Induction
  <2>2. n \in T
    <3> HIDE DEF T
    <3> QED BY <1>1, <2>1
  <2> HIDE DEF Is
  <2> QED BY <2>2
<1> DEFINE g0 == [i \in 0 .. n |-> g[i]]
<1>5. AfterPipelinesBy(g0, Start, pipelines)
  <2>1. ASSUME NEW i \in 0 .. n PROVE g0[i] = IF i = 0 THEN Start ELSE PipelineMeans(g0[i - 1], pipelines[i])
    <3>1. CASE i = 0
      BY <1>1, <1>4, <3>1
    <3>2. CASE i # 0
      <4>1. i \in 1 .. n /\ i - 1 \in 0 .. n
        BY <1>1, <3>2
      <4>2. g0[i] = g[i] /\ g0[i - 1] = g[i - 1]
        BY <4>1
      <4>3. g[i] = PipelineMeans(g[i - 1], pipelines[i])
        BY <1>4, <4>1
      <4> HIDE DEF g0
      <4> QED BY <3>2, <4>2, <4>3
    <3> QED BY <3>1, <3>2
  <2>2. g0 = [i \in 0 .. n |-> g0[i]]
    OBVIOUS
  <2> HIDE DEF g0
  <2>3. g0 = [i \in 0 .. n |-> IF i = 0 THEN Start ELSE PipelineMeans(g0[i - 1], pipelines[i])]
    BY <2>1, <2>2
  <2> QED BY <2>3, Zenon DEF AfterPipelinesBy
<1>6. f = [i \in 0 .. n |-> IF i = 0 THEN Start ELSE PipelineMeans(f[i - 1], pipelines[i])]
  <2>1. f = CHOOSE h : AfterPipelinesBy(h, Start, pipelines)
    BY Zenon DEF AfterPipelines, Start, AfterPipelinesBy
  <2>2. AfterPipelinesBy(f, Start, pipelines)
    <3> HIDE DEF f, g0
    <3> QED BY <1>5, <2>1, Zenon
  <2> QED BY <2>2, Zenon DEF AfterPipelinesBy
<1>7. f[0] = Start
  <2> HIDE DEF f
  <2> QED BY <1>1, <1>6
<1>8. ASSUME NEW i \in 1 .. n PROVE f[i] = PipelineMeans(f[i - 1], pipelines[i])
  <2>1. i \in 0 .. n /\ i # 0
    OBVIOUS
  <2> HIDE DEF f, n
  <2> QED BY <1>6, <2>1
<1> QED BY <1>7, <1>8


-----------------------------------------------------------------------------
(* Entries and what each step makes of them *)

Attributes == {"app", "src", "pid", "msg", "lvl"}

\* Two entries with the same attributes are one.
LEMMA SameEntry ==
    ASSUME NEW a, NEW b, IsEntry(a), IsEntry(b), a.fields = b.fields,
           a.app = b.app, a.src = b.src, a.pid = b.pid, a.msg = b.msg, a.lvl = b.lvl
    PROVE  a = b
BY DEF IsEntry

LEMMA AttributeEntry ==
    ASSUME NEW e, IsEntry(e), NEW attr \in Attributes, NEW v
    PROVE  /\ IsEntry([e EXCEPT ![attr] = v])
           /\ [e EXCEPT ![attr] = v].fields = e.fields
           /\ [e EXCEPT ![attr] = v][attr] = v
           /\ \A x \in Attributes \ {attr} : [e EXCEPT ![attr] = v][x] = e[x]
<1> DEFINE d == [e EXCEPT ![attr] = v]
<1>1. DOMAIN e = Attributes \cup {"fields"} /\ attr # "fields"
  BY DEF IsEntry, Attributes
<1>2. DOMAIN d = DOMAIN e /\ d = [x \in DOMAIN d |-> d[x]]
  BY Zenon
<1>3. d[attr] = v /\ \A x \in DOMAIN e \ {attr} : d[x] = e[x]
  BY <1>1
<1> HIDE DEF d
<1>4. d.fields = e.fields
  BY <1>1, <1>3
<1>5. IsEntry(d)
  <2>1. d = [app |-> d.app, src |-> d.src, pid |-> d.pid, msg |-> d.msg, lvl |-> d.lvl,
             fields |-> d.fields]
    BY <1>1, <1>2 DEF Attributes
  <2> QED BY <1>4, <2>1 DEF IsEntry
<1> QED BY <1>1, <1>3, <1>4, <1>5 DEF d

LEMMA FieldsEntry ==
    ASSUME NEW e, IsEntry(e), NEW f, f = [k \in DOMAIN f |-> f[k]]
    PROVE  /\ IsEntry([e EXCEPT !.fields = f])
           /\ [e EXCEPT !.fields = f].fields = f
           /\ \A x \in Attributes : [e EXCEPT !.fields = f][x] = e[x]
BY DEF IsEntry, Attributes

LEMMA WithLevelEntry ==
    ASSUME NEW e, IsEntry(e), NEW v
    PROVE  IsEntry(WithLevel(e, v)) /\ WithLevel(e, v).fields = e.fields
BY DEF IsEntry, WithLevel

LEMMA MatchedEntry ==
    ASSUME NEW e, IsEntry(e), NEW s
    PROVE  IsEntry(Matched(s, e))
<1> DEFINE in == Input(e, s.from)
           m == IF in = "" THEN NoMatch ELSE Captures(s.pattern, in)
           found == {k \in DOMAIN m : m[k] # ""}
           f == [k \in DOMAIN e.fields \cup found |-> IF k \in found THEN m[k] ELSE e.fields[k]]
<1>1. Matched(s, e) = IF m = NoMatch THEN e ELSE [e EXCEPT !.fields = f]
  BY Zenon DEF Matched
<1>2. f = [k \in DOMAIN f |-> f[k]]
  OBVIOUS
<1> HIDE DEF f, m
<1>3. IsEntry([e EXCEPT !.fields = f])
  BY <1>2, FieldsEntry
<1> QED BY <1>1, <1>3

LEMMA SeverityEntry ==
    ASSUME NEW e, IsEntry(e), NEW s
    PROVE  IsEntry(Severity(s, e))
<1>1. \A v : IsEntry([e EXCEPT !.lvl = v])
  BY DEF IsEntry
<1>2. \A v : IsEntry(WithLevel(e, v))
  BY WithLevelEntry
<1> QED BY <1>1, <1>2 DEF Severity

LEMMA AssignedEntry ==
    ASSUME NEW e, IsEntry(e), NEW attr \in Attributes, NEW v
    PROVE  IsEntry(Assigned(e, attr, v)) /\ Assigned(e, attr, v).fields = e.fields
<1>1. IsEntry([e EXCEPT ![attr] = v]) /\ [e EXCEPT ![attr] = v].fields = e.fields
  BY AttributeEntry
<1> QED BY <1>1, Zenon DEF Assigned

\* A set step begins with the attributes and leaves the fields.
LEMMA SetAttributesEntry ==
    ASSUME NEW e, IsEntry(e), NEW s
    PROVE  IsEntry(SetAttributes(s, e)) /\ SetAttributes(s, e).fields = e.fields
<1> DEFINE e1 == Assigned(e, "app", Resolve(s.app, e))
           e2 == Assigned(e1, "src", Resolve(s.src, e1))
           e3 == Assigned(e2, "pid", Resolve(s.pid, e2))
           e4 == Assigned(e3, "msg", Resolve(s.msg, e3))
<1>1. SetAttributes(s, e) = WithLevel(e4, Resolve(s.lvl, e4))
  BY Zenon DEF SetAttributes
<1>2. {"app", "src", "pid", "msg"} \subseteq Attributes
  BY DEF Attributes
<1>3. IsEntry(e1) /\ e1.fields = e.fields
  BY <1>2, AssignedEntry
<1> HIDE DEF e1
<1>4. IsEntry(e2) /\ e2.fields = e.fields
  BY <1>2, <1>3, AssignedEntry
<1> HIDE DEF e2
<1>5. IsEntry(e3) /\ e3.fields = e.fields
  BY <1>2, <1>4, AssignedEntry
<1> HIDE DEF e3
<1>6. IsEntry(e4) /\ e4.fields = e.fields
  BY <1>2, <1>5, AssignedEntry
<1> HIDE DEF e4
<1> QED BY <1>1, <1>6, WithLevelEntry

LEMMA SetPartEntry ==
    ASSUME NEW e, IsEntry(e), NEW s, NEW V
    PROVE  IsEntry(SetPart(s, e, V))
<1> DEFINE names == {k \in V : Resolves(s.fields[k], e)}
           f == [k \in names \cup DOMAIN e.fields |->
                   IF k \in names THEN Resolve(s.fields[k], e) ELSE e.fields[k]]
<1>1. SetPart(s, e, V) = [e EXCEPT !.fields = f]
  BY Zenon DEF SetPart
<1>2. f = [k \in DOMAIN f |-> f[k]]
  OBVIOUS
<1> HIDE DEF f
<1> QED BY <1>1, <1>2, FieldsEntry

\* A set step means its attributes and all its fields.
LEMMA SetMeansPart ==
    ASSUME NEW e, NEW s
    PROVE  SetMeans(s, e) = SetPart(s, SetAttributes(s, e), DOMAIN s.fields)
BY Zenon DEF SetMeans, SetPart

LEMMA JsonMeansEntry ==
    ASSUME NEW e, IsEntry(e), NEW s
    PROVE  IsEntry(JsonMeans(s, e))
<1> DEFINE obj == Decode(Input(e, s.from))
           leaves == Leaves(obj)
           names == {i.path : i \in leaves}
           msg == {i \in AllKeys(obj) : IsMessage(i)}
           lvl == {i \in AllKeys(obj) : IsLevel(i)}
           m == IF msg = {} THEN e.msg ELSE (CHOOSE i \in msg : TRUE).value.text
           l == IF lvl = {} THEN e.lvl ELSE LooseLevels[(CHOOSE i \in lvl : TRUE).value.text]
           f == [k \in names \cup DOMAIN e.fields |->
                   IF k \in names THEN (CHOOSE i \in leaves : i.path = k).value.text
                   ELSE e.fields[k]]
<1>1. JsonMeans(s, e) = IF obj = NoMatch THEN e
                        ELSE [e EXCEPT !.msg = m, !.lvl = l, !.fields = f]
  BY DEF JsonMeans, IsEntry
<1>2. f = [k \in DOMAIN f |-> f[k]]
  OBVIOUS
<1> HIDE DEF f, m, l, obj
<1> QED BY <1>1, <1>2 DEF IsEntry

-----------------------------------------------------------------------------
(* Accounts *)

Kinds == {"pattern", "severity", "set", "drop", "json"}

IsAccount(st) ==
    /\ st = [e |-> st.e, fate |-> st.fate] /\ IsEntry(st.e)
    /\ st.fate \in {"running", "any", "dropped"}

\* An account that is over stays as it is.
LEMMA StepMeansAccount ==
    ASSUME NEW st, IsAccount(st), NEW s, s.kind \in Kinds
    PROVE  /\ IsAccount(StepMeans(st, s))
           /\ st.fate # "running" => StepMeans(st, s) = st
<1> USE DEF Kinds, IsAccount
<1>1. CASE st.fate # "running"
  BY <1>1 DEF StepMeans
<1>2. CASE st.fate = "running"
  <2>1. \A e : IsEntry(e) => IsAccount([st EXCEPT !.e = e])
    OBVIOUS
  <2>2. IsAccount([st EXCEPT !.fate = "any"]) /\ IsAccount([st EXCEPT !.fate = "dropped"])
    OBVIOUS
  <2>3. IsEntry(st.e)
    OBVIOUS
  <2>4. CASE s.kind = "pattern"
    <3>1. StepMeans(st, s) = [st EXCEPT !.e = Matched(s, st.e)]
      BY <1>2, <2>4 DEF StepMeans
    <3> QED BY <1>2, <2>1, <2>3, <3>1, MatchedEntry
  <2>5. CASE s.kind = "severity"
    <3>1. StepMeans(st, s) = [st EXCEPT !.e = Severity(s, st.e)]
      BY <1>2, <2>5 DEF StepMeans
    <3> QED BY <1>2, <2>1, <2>3, <3>1, SeverityEntry
  <2>6. CASE s.kind = "drop"
    <3>1. StepMeans(st, s) = [st EXCEPT !.fate = "dropped"]
      BY <1>2, <2>6 DEF StepMeans
    <3> QED BY <1>2, <2>2, <3>1
  <2>7. CASE s.kind = "json"
    <3>1. StepMeans(st, s) \in {st, [st EXCEPT !.e = JsonMeans(s, st.e)], [st EXCEPT !.fate = "any"]}
      BY <1>2, <2>7 DEF StepMeans
    <3> QED BY <1>2, <2>1, <2>2, <2>3, <3>1, JsonMeansEntry
  <2>8. CASE s.kind = "set"
    <3>1. StepMeans(st, s) \in {[st EXCEPT !.e = SetMeans(s, st.e)], [st EXCEPT !.fate = "any"]}
      BY <1>2, <2>8 DEF StepMeans
    <3>2. IsEntry(SetMeans(s, st.e))
      BY <2>3, SetAttributesEntry, SetPartEntry, SetMeansPart
    <3> QED BY <1>2, <2>1, <2>2, <3>1, <3>2
  <2> QED BY <2>4, <2>5, <2>6, <2>7, <2>8
<1> QED BY <1>1, <1>2

LEMMA AfterStepsAccount ==
    ASSUME NEW st, IsAccount(st), NEW S, NEW steps \in Seq(S),
           \A i \in 1 .. Len(steps) : steps[i].kind \in Kinds
    PROVE  /\ \A i \in 0 .. Len(steps) : IsAccount(AfterSteps(st, steps)[i])
           /\ \A i \in 0 .. Len(steps) : AfterSteps(st, steps)[i].fate # "running" =>
                 \A j \in i .. Len(steps) : AfterSteps(st, steps)[j] = AfterSteps(st, steps)[i]
<1> DEFINE n == Len(steps)
           f == AfterSteps(st, steps)
           T == {k \in 0 .. n : IsAccount(f[k])}
<1>1. n \in Nat
  OBVIOUS
<1>2. f[0] = st /\ \A i \in 1 .. n : f[i] = StepMeans(f[i - 1], steps[i])
  BY AfterStepsIs
<1> HIDE DEF f
<1>3. 0 .. n \subseteq T
  <2>1. 0 \in T
    BY <1>1, <1>2
  <2>2. ASSUME NEW i \in 1 .. n, i - 1 \in T PROVE i \in T
    BY <1>1, <1>2, <2>2, StepMeansAccount
  <2> HIDE DEF T, n
  <2> QED BY <1>1, <2>1, <2>2, Induction
<1>4. ASSUME NEW i \in 0 .. n PROVE IsAccount(f[i])
  BY <1>3
<1>5. ASSUME NEW i \in 0 .. n, f[i].fate # "running", NEW j \in i .. n
      PROVE  f[j] = f[i]
  <2> DEFINE U == {k \in 0 .. n : k >= i => f[k] = f[i]}
  <2>1. 0 \in U
    BY <1>1
  <2>2. ASSUME NEW k \in 1 .. n, k - 1 \in U PROVE k \in U
    <3>1. CASE k <= i
      BY <3>1
    <3>2. CASE k > i
      <4>1. f[k - 1] = f[i] /\ k - 1 \in 0 .. n
        BY <2>2, <3>2
      <4>2. f[k] = StepMeans(f[k - 1], steps[k]) /\ IsAccount(f[k - 1]) /\ steps[k].kind \in Kinds
        BY <1>2, <1>4, <4>1
      <4>3. f[k] = f[i]
        BY <1>5, <4>1, <4>2, StepMeansAccount
      <4> QED BY <4>3
    <3> QED BY <3>1, <3>2
  <2>3. 0 .. n \subseteq U
    <3> HIDE DEF U, n
    <3> QED BY <1>1, <2>1, <2>2, Induction
  <2> QED BY <1>1, <2>3
<1> QED BY <1>4, <1>5 DEF f

LEMMA Compiled ==
    ASSUME NEW c \in Configurations
    PROVE  /\ c \in Seq(Range(c))
           /\ \A i \in 1 .. Len(c) :
                 /\ c[i].steps \in Seq(Range(c[i].steps)) /\ Len(c[i].steps) > 0
                 /\ \A j \in 1 .. Len(c[i].steps) : c[i].steps[j].kind \in Kinds
<1>1. c \in Seq(Range(c))
  BY PipelineAssumption
<1>2. ASSUME NEW i \in 1 .. Len(c)
      PROVE  /\ c[i].steps \in Seq(Range(c[i].steps)) /\ Len(c[i].steps) > 0
             /\ \A j \in 1 .. Len(c[i].steps) : c[i].steps[j].kind \in Kinds
  <2> DEFINE steps == c[i].steps
  <2>1. c[i] \in Range(c)
    BY <1>1 DEF Range
  <2>2. /\ steps \in Seq(Range(steps)) /\ steps # <<>>
        /\ \A s \in Range(steps) : s.kind \in Kinds
    BY <2>1, PipelineAssumption DEF Kinds
  <2> HIDE DEF steps
  <2>3. Len(steps) > 0
    <3> DEFINE R == Range(steps)
    <3> HIDE DEF R
    <3> QED BY <2>2 DEF R
  <2>4. ASSUME NEW j \in 1 .. Len(steps) PROVE steps[j].kind \in Kinds
    <3>1. steps[j] \in Range(steps)
      BY <2>2 DEF Range
    <3> QED BY <2>2, <3>1
  <2> QED BY <2>2, <2>3, <2>4 DEF steps
<1> QED BY <1>1, <1>2

LEMMA PipelineMeansAccount ==
    ASSUME NEW st, IsAccount(st), NEW p, NEW S, p.steps \in Seq(S),
           \A j \in 1 .. Len(p.steps) : p.steps[j].kind \in Kinds
    PROVE  /\ IsAccount(PipelineMeans(st, p))
           /\ st.fate # "running" => PipelineMeans(st, p) = st
<1> DEFINE n == Len(p.steps)
<1>1. n \in 0 .. n
  OBVIOUS
<1>2. IsAccount(AfterSteps(st, p.steps)[n])
  BY <1>1, AfterStepsAccount
<1> QED BY <1>2 DEF PipelineMeans

LEMMA AfterPipelinesAccount ==
    ASSUME pipelines \in Configurations, arrived \in PipeEntries
    PROVE  /\ AfterPipelines[0] = Start
           /\ \A i \in 1 .. Len(pipelines) :
                 AfterPipelines[i] = PipelineMeans(AfterPipelines[i - 1], pipelines[i])
           /\ \A i \in 0 .. Len(pipelines) : IsAccount(AfterPipelines[i])
           /\ \A i \in 0 .. Len(pipelines) : AfterPipelines[i].fate # "running" =>
                 AfterPipelines[Len(pipelines)] = AfterPipelines[i]
<1> DEFINE n == Len(pipelines)
           f == AfterPipelines
           T == {k \in 0 .. n : IsAccount(f[k])}
<1>1. /\ pipelines \in Seq(Range(pipelines))
      /\ \A i \in 1 .. n :
            /\ pipelines[i].steps \in Seq(Range(pipelines[i].steps))
            /\ \A j \in 1 .. Len(pipelines[i].steps) : pipelines[i].steps[j].kind \in Kinds
  BY Compiled
<1>2. n \in Nat
  BY <1>1
<1>3. f[0] = Start /\ \A i \in 1 .. n : f[i] = PipelineMeans(f[i - 1], pipelines[i])
  BY <1>1, AfterPipelinesIs
<1>4. IsAccount(Start)
  BY PipelineAssumption DEF IsAccount, Start
<1> HIDE DEF f, n
<1>5. ASSUME NEW st, IsAccount(st), NEW i \in 1 .. n
      PROVE  /\ IsAccount(PipelineMeans(st, pipelines[i]))
             /\ st.fate # "running" => PipelineMeans(st, pipelines[i]) = st
  BY <1>1, <1>5, PipelineMeansAccount
<1>6. 0 .. n \subseteq T
  <2>1. 0 \in T
    BY <1>2, <1>3, <1>4
  <2>2. ASSUME NEW i \in 1 .. n, i - 1 \in T PROVE i \in T
    BY <1>2, <1>3, <1>5, <2>2
  <2> HIDE DEF T
  <2> QED BY <1>2, <2>1, <2>2, Induction
<1>7. \A i \in 0 .. n : IsAccount(f[i])
  BY <1>6
<1>8. ASSUME NEW i \in 0 .. n, f[i].fate # "running"
      PROVE  f[n] = f[i]
  <2> DEFINE U == {k \in 0 .. n : k >= i => f[k] = f[i]}
  <2>1. 0 \in U
    BY <1>2
  <2>2. ASSUME NEW k \in 1 .. n, k - 1 \in U PROVE k \in U
    <3>1. CASE k <= i
      BY <3>1
    <3>2. CASE k > i
      <4>1. f[k - 1] = f[i] /\ k - 1 \in 0 .. n
        BY <1>2, <2>2, <3>2
      <4>2. f[k] = f[i]
        BY <1>3, <1>5, <1>7, <1>8, <4>1
      <4> QED BY <4>2
    <3> QED BY <1>2, <3>1, <3>2
  <2>3. 0 .. n \subseteq U
    <3> HIDE DEF U
    <3> QED BY <1>2, <2>1, <2>2, Induction
  <2> QED BY <1>2, <2>3
<1> QED BY <1>3, <1>7, <1>8 DEF f, n

-----------------------------------------------------------------------------
(* The keys of an object *)

Inner(i) == Keys(i.path, i.depth, i.value.keys)
Inside(items) == UNION {Inner(i) : i \in {i \in items : Opens(i)}}
Top(obj) == Keys(<<>>, 0, obj)

LEMMA AllKeysIs ==
    ASSUME NEW obj
    PROVE  AllKeys(obj) = Top(obj) \cup Inside(Top(obj)) \cup Inside(Inside(Top(obj)))
BY DEF AllKeys, Inside, Inner, Top

LEMMA InnerDepth ==
    ASSUME NEW i, NEW x \in Inner(i)
    PROVE  x.depth = i.depth + 1
BY DEF Inner, Keys

LEMMA InsideIs ==
    ASSUME NEW items, NEW x
    PROVE  x \in Inside(items) <=> \E i \in items : Opens(i) /\ x \in Inner(i)
BY DEF Inside

LEMMA KeyDepth ==
    ASSUME NEW obj
    PROVE  /\ \A x \in Top(obj) : x.depth = 1
           /\ \A x \in Inside(Top(obj)) : x.depth = 2
           /\ \A x \in Inside(Inside(Top(obj))) : x.depth = 3
<1>1. \A x \in Top(obj) : x.depth = 1
  BY DEF Top, Keys
<1>2. \A x \in Inside(Top(obj)) : x.depth = 2
  BY <1>1, InsideIs, InnerDepth
<1>3. \A x \in Inside(Inside(Top(obj))) : x.depth = 3
  BY <1>2, InsideIs, InnerDepth
<1> QED BY <1>1, <1>2, <1>3

\* The keys of an object that is entered are keys, none of them at the top.
LEMMA InnerKeys ==
    ASSUME NEW obj, NEW i \in AllKeys(obj), Opens(i), NEW x \in Inner(i)
    PROVE  x \in AllKeys(obj) /\ ~IsMessage(x) /\ ~IsLevel(x)
<1>1. CASE i \in Top(obj)
  <2>1. x \in Inside(Top(obj))
    BY <1>1, InsideIs
  <2>2. x.depth = 2
    BY <2>1, KeyDepth
  <2> QED BY <2>1, <2>2, AllKeysIs DEF IsMessage, IsLevel
<1>2. CASE i \in Inside(Top(obj))
  <2>1. x \in Inside(Inside(Top(obj)))
    BY <1>2, InsideIs
  <2>2. x.depth = 3
    BY <2>1, KeyDepth
  <2> QED BY <2>1, <2>2, AllKeysIs DEF IsMessage, IsLevel
<1>3. CASE i \in Inside(Inside(Top(obj)))
  BY <1>3, KeyDepth DEF Opens
<1> QED BY <1>1, <1>2, <1>3, AllKeysIs

\* A set of keys that holds the top and what its objects hold holds them all.
LEMMA ClosedAll ==
    ASSUME NEW obj, NEW V, Closed(obj, V, {})
    PROVE  AllKeys(obj) \subseteq V
<1>1. Top(obj) \subseteq V /\ \A i \in V : Opens(i) => Inner(i) \subseteq V
  BY DEF Closed, Top, Inner
<1>2. Inside(Top(obj)) \subseteq V
  BY <1>1, InsideIs
<1>3. Inside(Inside(Top(obj))) \subseteq V
  BY <1>1, <1>2, InsideIs
<1> QED BY <1>1, <1>2, <1>3, AllKeysIs

\* What a visited key leaves to do: its own keys when it is entered.
LEMMA ClosedNext ==
    ASSUME NEW obj, NEW V, NEW P, NEW Q, Closed(obj, V, P), NEW item \in P, Opens(item),
           Q \subseteq P \cup Inner(item), (P \ {item}) \cup Inner(item) \subseteq Q
    PROVE  Closed(obj, V \cup {item}, Q)
<1>1. P \subseteq AllKeys(obj) /\ Top(obj) \subseteq V \cup P
  BY DEF Closed, Top
<1>2. \A i \in V : Opens(i) => Inner(i) \subseteq V \cup P
  BY DEF Closed, Inner
<1>3. Inner(item) \subseteq AllKeys(obj)
  BY <1>1, InnerKeys
<1>4. Q \subseteq AllKeys(obj) /\ Top(obj) \subseteq V \cup {item} \cup Q
  BY <1>1, <1>3
<1>5. \A i \in V \cup {item} : Opens(i) => Inner(i) \subseteq V \cup {item} \cup Q
  BY <1>2
<1> QED BY <1>4, <1>5 DEF Closed, Top, Inner

LEMMA ClosedShut ==
    ASSUME NEW obj, NEW V, NEW P, NEW Q, Closed(obj, V, P), NEW item \in P, ~Opens(item),
           Q \subseteq P, P \ {item} \subseteq Q
    PROVE  Closed(obj, V \cup {item}, Q)
BY DEF Closed

Plain(obj) == {i \in AllKeys(obj) : ~IsMessage(i) /\ ~IsLevel(i)}

\* All keys but messages and levels are done with at once.
LEMMA ClosedPlain ==
    ASSUME NEW obj, NEW V, V \subseteq AllKeys(obj), NEW P, NEW Q, Closed(obj, V, P),
           NEW item \in P, ~IsMessage(item), ~IsLevel(item), Q \subseteq P, P \ {item} \subseteq Q
    PROVE  Closed(obj, V \cup Plain(obj), Q)
<1>1. P \subseteq AllKeys(obj) /\ Top(obj) \subseteq V \cup P
  BY DEF Closed, Top
<1>2. Q \subseteq AllKeys(obj) /\ Top(obj) \subseteq V \cup Plain(obj) \cup Q
  BY <1>1 DEF Plain
<1>3. ASSUME NEW i \in V \cup Plain(obj), Opens(i)
      PROVE  Inner(i) \subseteq V \cup Plain(obj) \cup Q
  <2>1. i \in AllKeys(obj)
    BY DEF Plain
  <2> QED BY <1>3, <2>1, InnerKeys DEF Plain
<1> QED BY <1>2, <1>3 DEF Closed, Top, Inner

\* Once the fields are as many as the entry may have, every leaf is among them.
LEMMA CapMeansAll ==
    ASSUME NEW b, NEW obj, OrderFree(b, obj), NEW V, NEW f,
           Spread(f, b.fields, V \cap Leaves(obj)), Cardinality(DOMAIN f) >= MaxJSONFields
    PROVE  Leaves(obj) \subseteq V
<1> DEFINE names == {i.path : i \in Leaves(obj)}
           seen == {i.path : i \in V \cap Leaves(obj)}
           old == DOMAIN b.fields
<1>1. /\ \A i, j \in Leaves(obj) : i.path = j.path => i = j
      /\ IsFiniteSet(names) /\ IsFiniteSet(old)
      /\ Cardinality(names) + Cardinality(old) <= MaxJSONFields
  BY DEF OrderFree
<1>2. DOMAIN f = seen \cup old /\ seen \subseteq names
  BY DEF Spread
<1>3. ASSUME seen = names PROVE Leaves(obj) \subseteq V
  BY <1>1, <1>3
<1>4. seen = names
  <2> HIDE DEF names, seen, old
  <2>1. IsFiniteSet(seen) /\ Cardinality(seen) <= Cardinality(names)
        /\ (Cardinality(seen) = Cardinality(names) => seen = names)
    BY <1>1, <1>2, FS_Subset
  <2>2. Cardinality(seen \cup old) = Cardinality(seen) + Cardinality(old) - Cardinality(seen \cap old)
    BY <1>1, <2>1, FS_Union
  <2>3. IsFiniteSet(seen \cap old)
    BY <1>1, FS_Intersection
  <2>4. PICK a \in Nat, c \in Nat, d \in Nat, x \in Nat :
           a = Cardinality(seen) /\ c = Cardinality(names) /\ d = Cardinality(old)
           /\ x = Cardinality(seen \cap old)
    BY <1>1, <2>1, <2>3, FS_CardinalityType
  <2>5. MaxJSONFields \in Nat
    BY PipelineAssumption
  <2>6. (a + d) - x >= MaxJSONFields /\ c + d <= MaxJSONFields /\ a <= c
    BY <1>1, <1>2, <2>1, <2>2, <2>4
  <2>7. a = c
    <3>1. (a + d) - x >= c + d
      BY <2>5, <2>6
    <3> QED BY <2>6, <3>1
  <2> QED BY <2>1, <2>4, <2>7
<1> QED BY <1>3, <1>4

-----------------------------------------------------------------------------
(* One key after the other *)

LEMMA StoredEntry ==
    ASSUME NEW e, IsEntry(e), NEW k, NEW v
    PROVE  /\ IsEntry(Stored(e, k, v))
           /\ \A x \in Attributes : Stored(e, k, v)[x] = e[x]
           /\ Stored(e, k, v).fields =
                 [n \in DOMAIN e.fields \cup {k} |-> IF n = k THEN v ELSE e.fields[n]]
<1> DEFINE f == [n \in DOMAIN e.fields \cup {k} |-> IF n = k THEN v ELSE e.fields[n]]
<1>1. Stored(e, k, v) = [e EXCEPT !.fields = f]
  BY Zenon DEF Stored
<1>2. f = [n \in DOMAIN f |-> f[n]]
  OBVIOUS
<1>3. /\ IsEntry([e EXCEPT !.fields = f]) /\ [e EXCEPT !.fields = f].fields = f
      /\ \A x \in Attributes : [e EXCEPT !.fields = f][x] = e[x]
  <2> HIDE DEF f
  <2> QED BY <1>2, FieldsEntry
<1> QED BY <1>1, <1>3

LEMMA SeenStart ==
    ASSUME NEW b, IsEntry(b), NEW obj
    PROVE  Seen(b, b, obj, {}) /\ Closed(obj, {}, Keys(<<>>, 0, obj))
<1>1. Spread(b.fields, b.fields, {})
  BY DEF Spread, IsEntry
<1>2. {} \cap Leaves(obj) = {}
  OBVIOUS
<1>3. Keys(<<>>, 0, obj) \subseteq AllKeys(obj)
  BY AllKeysIs DEF Top
<1> QED BY <1>1, <1>2, <1>3 DEF Seen, Closed

\* A message key is visited.
LEMMA SeenMessage ==
    ASSUME NEW b, NEW obj, NEW V, V \subseteq AllKeys(obj), NEW e, Seen(e, b, obj, V),
           OrderFree(b, obj), NEW item \in AllKeys(obj), IsMessage(item)
    PROVE  Seen([e EXCEPT !.msg = item.value.text], b, obj, V \cup {item})
<1> DEFINE d == [e EXCEPT !.msg = item.value.text]
<1>1. "msg" \in Attributes
  BY DEF Attributes
<1>2. /\ IsEntry(d) /\ d.fields = e.fields /\ d.msg = item.value.text
      /\ \A x \in Attributes \ {"msg"} : d[x] = e[x]
  BY <1>1, AttributeEntry DEF Seen
<1>3. d.app = e.app /\ d.src = e.src /\ d.pid = e.pid /\ d.lvl = e.lvl
  BY <1>2 DEF Attributes
<1> HIDE DEF d
<1>4. \A i, j \in AllKeys(obj) : IsMessage(i) /\ IsMessage(j) => i = j
  BY DEF OrderFree
<1>5. ~IsLevel(item)
  BY DEF IsMessage, IsLevel, MsgKeys, LevelKeys
<1>6. item \notin Leaves(obj)
  BY DEF Leaves
<1>7. (V \cup {item}) \cap Leaves(obj) = V \cap Leaves(obj)
  BY <1>6
<1>8. \A i \in V \cup {item} : IsMessage(i) => d.msg = i.value.text
  BY <1>2, <1>4
<1>9. /\ \A i \in V \cup {item} : IsLevel(i) => d.lvl = LooseLevels[i.value.text]
      /\ (\A i \in V \cup {item} : ~IsLevel(i)) => d.lvl = b.lvl
  BY <1>3, <1>5 DEF Seen
<1> QED BY <1>2, <1>3, <1>7, <1>8, <1>9 DEF Seen, d

\* A level key is visited.
LEMMA SeenLevel ==
    ASSUME NEW b, NEW obj, NEW V, V \subseteq AllKeys(obj), NEW e, Seen(e, b, obj, V),
           OrderFree(b, obj), NEW item \in AllKeys(obj), IsLevel(item)
    PROVE  Seen(WithLevel(e, item.value.text), b, obj, V \cup {item})
<1> DEFINE d == [e EXCEPT !.lvl = LooseLevels[item.value.text]]
<1>1. "lvl" \in Attributes /\ WithLevel(e, item.value.text) = d
  BY DEF Attributes, WithLevel, IsLevel
<1>2. /\ IsEntry(d) /\ d.fields = e.fields /\ d.lvl = LooseLevels[item.value.text]
      /\ \A x \in Attributes \ {"lvl"} : d[x] = e[x]
  BY <1>1, AttributeEntry DEF Seen
<1>3. d.app = e.app /\ d.src = e.src /\ d.pid = e.pid /\ d.msg = e.msg
  BY <1>2 DEF Attributes
<1> HIDE DEF d
<1>4. \A i, j \in AllKeys(obj) : IsLevel(i) /\ IsLevel(j) => i = j
  BY DEF OrderFree
<1>5. ~IsMessage(item)
  BY DEF IsMessage, IsLevel, MsgKeys, LevelKeys
<1>6. item \notin Leaves(obj)
  BY DEF Leaves
<1>7. (V \cup {item}) \cap Leaves(obj) = V \cap Leaves(obj)
  BY <1>6
<1>8. \A i \in V \cup {item} : IsLevel(i) => d.lvl = LooseLevels[i.value.text]
  BY <1>2, <1>4
<1>9. /\ \A i \in V \cup {item} : IsMessage(i) => d.msg = i.value.text
      /\ (\A i \in V \cup {item} : ~IsMessage(i)) => d.msg = b.msg
  BY <1>3, <1>5 DEF Seen
<1> QED BY <1>1, <1>2, <1>3, <1>7, <1>8, <1>9 DEF Seen

\* Keys that are neither message nor level nor a leaf that is new change nothing.
LEMMA SeenSame ==
    ASSUME NEW b, NEW obj, NEW V, NEW e, Seen(e, b, obj, V), NEW W,
           \A i \in W : ~IsMessage(i) /\ ~IsLevel(i),
           W \cap Leaves(obj) \subseteq V
    PROVE  Seen(e, b, obj, V \cup W)
<1>1. (V \cup W) \cap Leaves(obj) = V \cap Leaves(obj)
  OBVIOUS
<1>2. /\ \A i \in V \cup W : IsMessage(i) => e.msg = i.value.text
      /\ \A i \in V \cup W : IsLevel(i) => e.lvl = LooseLevels[i.value.text]
      /\ (\A i \in V \cup W : ~IsMessage(i)) => e.msg = b.msg
      /\ (\A i \in V \cup W : ~IsLevel(i)) => e.lvl = b.lvl
  BY DEF Seen
<1> QED BY <1>1, <1>2 DEF Seen

\* A leaf is stored.
LEMMA SeenLeaf ==
    ASSUME NEW b, NEW obj, NEW V, V \subseteq AllKeys(obj), NEW e, Seen(e, b, obj, V),
           OrderFree(b, obj), NEW item \in Leaves(obj)
    PROVE  Seen(Stored(e, item.path, item.value.text), b, obj, V \cup {item})
<1> DEFINE d == Stored(e, item.path, item.value.text)
           L == V \cap Leaves(obj)
           M == L \cup {item}
           f == e.fields
           g == d.fields
<1>1. /\ IsEntry(d) /\ \A x \in Attributes : d[x] = e[x]
      /\ g = [n \in DOMAIN f \cup {item.path} |-> IF n = item.path THEN item.value.text ELSE f[n]]
  BY StoredEntry DEF Seen
<1>2. d.app = e.app /\ d.src = e.src /\ d.pid = e.pid /\ d.lvl = e.lvl /\ d.msg = e.msg
  BY <1>1 DEF Attributes
<1>3. ~IsLevel(item) /\ ~IsMessage(item)
  BY DEF Leaves
<1>4. (V \cup {item}) \cap Leaves(obj) = M
  OBVIOUS
<1>5. /\ DOMAIN f = {i.path : i \in L} \cup DOMAIN b.fields
      /\ \A i \in L : f[i.path] = i.value.text
      /\ \A k \in DOMAIN b.fields : (\A i \in L : i.path # k) => f[k] = b.fields[k]
  BY DEF Seen, Spread
<1>6. \A i, j \in Leaves(obj) : i.path = j.path => i = j
  BY DEF OrderFree
<1>7. \A i \in L : i \in Leaves(obj)
  OBVIOUS
<1> HIDE DEF d, L, f, g
<1>8. Spread(g, b.fields, M)
  <2>1. g = [n \in DOMAIN g |-> g[n]] /\ DOMAIN g = DOMAIN f \cup {item.path}
    BY <1>1
  <2>2. {i.path : i \in M} = {i.path : i \in L} \cup {item.path}
    OBVIOUS
  <2>3. DOMAIN g = {i.path : i \in M} \cup DOMAIN b.fields
    BY <1>5, <2>1, <2>2
  <2>4. ASSUME NEW i \in M PROVE g[i.path] = i.value.text
    <3>1. CASE i.path = item.path
      <4>1. i = item
        BY <1>6, <1>7, <3>1
      <4> QED BY <1>1, <4>1
    <3>2. CASE i.path # item.path
      <4>1. i \in L /\ i.path \in DOMAIN f
        BY <1>5, <3>2
      <4>2. g[i.path] = f[i.path]
        BY <1>1, <3>2, <4>1
      <4> QED BY <1>5, <4>1, <4>2
    <3> QED BY <3>1, <3>2
  <2>5. ASSUME NEW k \in DOMAIN b.fields, \A i \in M : i.path # k
        PROVE  g[k] = b.fields[k]
    <3>1. k # item.path /\ k \in DOMAIN f /\ \A i \in L : i.path # k
      BY <1>5, <2>5
    <3>2. g[k] = f[k]
      BY <1>1, <3>1
    <3> QED BY <1>5, <3>1, <3>2
  <2> QED BY <2>1, <2>3, <2>4, <2>5 DEF Spread
<1>9. /\ \A i \in V \cup {item} : IsMessage(i) => d.msg = i.value.text
      /\ (\A i \in V \cup {item} : ~IsMessage(i)) => d.msg = b.msg
      /\ \A i \in V \cup {item} : IsLevel(i) => d.lvl = LooseLevels[i.value.text]
      /\ (\A i \in V \cup {item} : ~IsLevel(i)) => d.lvl = b.lvl
  BY <1>2, <1>3 DEF Seen
<1> QED BY <1>1, <1>2, <1>4, <1>8, <1>9 DEF Seen, g, d

\* Fields that are not entered: a leaf is stored, unless there are too many.
LEMMA FlattenedAccount ==
    ASSUME NEW b, NEW obj, OrderFree(b, obj), NEW V, V \subseteq AllKeys(obj), NEW e,
           Seen(e, b, obj, V), NEW P, Closed(obj, V, P), NEW item \in P, NEW Q,
           Q \subseteq P, P \ {item} \subseteq Q,
           ~IsMessage(item), ~IsLevel(item), ~Entered(e, item)
    PROVE  Account(b, obj, Flattened(e, item.path, item.value), Q)
<1> DEFINE d == Flattened(e, item.path, item.value)
<1>1. item \in AllKeys(obj)
  BY DEF Closed
<1>2. CASE item.value.t = "null"
  <2>1. d = e /\ item \notin Leaves(obj) /\ ~Opens(item)
    BY <1>2 DEF Flattened, Leaves, Opens
  <2>2. Seen(e, b, obj, V \cup {item})
    BY <2>1, SeenSame
  <2>3. Closed(obj, V \cup {item}, Q)
    BY <2>1, ClosedShut
  <2> QED BY <1>1, <2>1, <2>2, <2>3 DEF Account
<1>3. CASE item.value.t # "null" /\ Cardinality(DOMAIN e.fields) >= MaxJSONFields
  <2>1. d = e
    BY <1>3 DEF Flattened
  <2>2. Leaves(obj) \subseteq V
    BY <1>3, CapMeansAll DEF Seen
  <2>3. Seen(e, b, obj, V \cup Plain(obj))
    <3>1. /\ \A i \in Plain(obj) : ~IsMessage(i) /\ ~IsLevel(i)
          /\ Plain(obj) \cap Leaves(obj) \subseteq V
      BY <2>2 DEF Plain
    <3> QED BY <3>1, SeenSame
  <2>4. Closed(obj, V \cup Plain(obj), Q)
    BY ClosedPlain
  <2>5. V \cup Plain(obj) \in SUBSET AllKeys(obj)
    BY DEF Plain
  <2> QED BY <2>1, <2>3, <2>4, <2>5 DEF Account
<1>4. CASE item.value.t # "null" /\ ~(Cardinality(DOMAIN e.fields) >= MaxJSONFields)
  <2>1. d = Stored(e, item.path, item.value.text)
    BY <1>4 DEF Flattened
  <2>2. ~Opens(item)
    <3>1. IsFiniteSet(DOMAIN e.fields)
      <4>1. DOMAIN e.fields = {i.path : i \in V \cap Leaves(obj)} \cup DOMAIN b.fields
        BY DEF Seen, Spread
      <4>2. {i.path : i \in V \cap Leaves(obj)} \subseteq {i.path : i \in Leaves(obj)}
        OBVIOUS
      <4>3. IsFiniteSet({i.path : i \in Leaves(obj)}) /\ IsFiniteSet(DOMAIN b.fields)
        BY DEF OrderFree
      <4>4. IsFiniteSet({i.path : i \in V \cap Leaves(obj)})
        BY <4>2, <4>3, FS_Subset
      <4> QED BY <4>1, <4>3, <4>4, FS_Union, ZenonT(60)
    <3>2. Cardinality(DOMAIN e.fields) \in Nat /\ MaxJSONFields \in Nat
      BY <3>1, FS_CardinalityType, PipelineAssumption
    <3> QED BY <1>4, <3>2 DEF Entered
  <2>3. item \in Leaves(obj)
    BY <1>1, <1>4, <2>2 DEF Leaves
  <2>4. Seen(d, b, obj, V \cup {item})
    BY <2>1, <2>3, SeenLeaf, SMTT(60)
  <2>5. Closed(obj, V \cup {item}, Q)
    BY <2>2, ClosedShut
  <2> QED BY <1>1, <2>4, <2>5 DEF Account
<1> QED BY <1>2, <1>3, <1>4

\* What one visit makes of the entry, and the keys it leaves to visit.
VisitOf(e, item) ==
    IF IsMessage(item) THEN [e EXCEPT !.msg = item.value.text]
    ELSE IF IsLevel(item) THEN WithLevel(e, item.value.text)
    ELSE IF Entered(e, item) THEN e
    ELSE Flattened(e, item.path, item.value)

InnerOf(e, item) ==
    IF ~IsMessage(item) /\ ~IsLevel(item) /\ Entered(e, item) THEN Inner(item) ELSE {}

LEMMA VisitAccount ==
    ASSUME NEW b, NEW obj, OrderFree(b, obj), NEW e, NEW P, Account(b, obj, e, P),
           NEW item \in P, NEW Q,
           Q \subseteq P \cup InnerOf(e, item), (P \ {item}) \cup InnerOf(e, item) \subseteq Q
    PROVE  Account(b, obj, VisitOf(e, item), Q)
<1>1. PICK V \in SUBSET AllKeys(obj) : Seen(e, b, obj, V) /\ Closed(obj, V, P)
  BY DEF Account
<1>2. item \in AllKeys(obj)
  BY <1>1 DEF Closed
<1>3. CASE IsMessage(item)
  <2>1. InnerOf(e, item) = {} /\ VisitOf(e, item) = [e EXCEPT !.msg = item.value.text]
    BY <1>3, Zenon DEF InnerOf, VisitOf
  <2>2. ~Opens(item)
    BY <1>3 DEF Opens, IsMessage
  <2>3. Closed(obj, V \cup {item}, Q)
    <3>1. Q \subseteq P /\ P \ {item} \subseteq Q
      BY <2>1
    <3> QED BY <1>1, <2>2, <3>1, ClosedShut
  <2>4. Seen(VisitOf(e, item), b, obj, V \cup {item})
    BY <1>1, <1>2, <1>3, <2>1, SeenMessage
  <2> QED BY <1>2, <2>3, <2>4 DEF Account
<1>4. CASE ~IsMessage(item) /\ IsLevel(item)
  <2>1. InnerOf(e, item) = {} /\ VisitOf(e, item) = WithLevel(e, item.value.text)
    BY <1>4, Zenon DEF InnerOf, VisitOf
  <2>2. ~Opens(item)
    BY <1>4 DEF Opens, IsLevel
  <2>3. Closed(obj, V \cup {item}, Q)
    <3>1. Q \subseteq P /\ P \ {item} \subseteq Q
      BY <2>1
    <3> QED BY <1>1, <2>2, <3>1, ClosedShut
  <2>4. Seen(VisitOf(e, item), b, obj, V \cup {item})
    BY <1>1, <1>2, <1>4, <2>1, SeenLevel
  <2> QED BY <1>2, <2>3, <2>4 DEF Account
<1>5. CASE ~IsMessage(item) /\ ~IsLevel(item) /\ Entered(e, item)
  <2>1. InnerOf(e, item) = Inner(item) /\ VisitOf(e, item) = e
    BY <1>5, Zenon DEF InnerOf, VisitOf
  <2>2. Opens(item) /\ item \notin Leaves(obj)
    BY <1>5 DEF Entered, Leaves
  <2>3. Closed(obj, V \cup {item}, Q)
    BY <1>1, <2>1, <2>2, ClosedNext
  <2>4. Seen(e, b, obj, V \cup {item})
    BY <1>1, <1>5, <2>2, SeenSame
  <2> QED BY <1>2, <2>1, <2>3, <2>4 DEF Account
<1>6. CASE ~IsMessage(item) /\ ~IsLevel(item) /\ ~Entered(e, item)
  <2>1. InnerOf(e, item) = {} /\ VisitOf(e, item) = Flattened(e, item.path, item.value)
    BY <1>6, Zenon DEF InnerOf, VisitOf
  <2>2. Q \subseteq P /\ P \ {item} \subseteq Q
    BY <2>1
  <2>3. Account(b, obj, Flattened(e, item.path, item.value), Q)
    BY <1>1, <1>6, <2>2, FlattenedAccount
  <2> QED BY <2>1, <2>3
<1> QED BY <1>3, <1>4, <1>5, <1>6

\* When no key is left, the entry is the one the step means.
LEMMA AccountDone ==
    ASSUME NEW b, IsEntry(b), NEW s, NEW e, Decode(Input(b, s.from)) # NoMatch,
           OrderFree(b, Decode(Input(b, s.from))), Account(b, Decode(Input(b, s.from)), e, {})
    PROVE  e = JsonMeans(s, b)
<1> DEFINE obj == Decode(Input(b, s.from))
           leaves == Leaves(obj)
           names == {i.path : i \in leaves}
           msg == {i \in AllKeys(obj) : IsMessage(i)}
           lvl == {i \in AllKeys(obj) : IsLevel(i)}
           m == IF msg = {} THEN b.msg ELSE (CHOOSE i \in msg : TRUE).value.text
           l == IF lvl = {} THEN b.lvl ELSE LooseLevels[(CHOOSE i \in lvl : TRUE).value.text]
           f == [k \in names \cup DOMAIN b.fields |->
                   IF k \in names THEN (CHOOSE i \in leaves : i.path = k).value.text
                   ELSE b.fields[k]]
<1>1. JsonMeans(s, b) = [b EXCEPT !.msg = m, !.lvl = l, !.fields = f]
  BY DEF JsonMeans, IsEntry
<1> HIDE DEF obj
<1>2. PICK V \in SUBSET AllKeys(obj) : Seen(e, b, obj, V) /\ Closed(obj, V, {})
  BY DEF Account, obj
<1>3. V = AllKeys(obj)
  BY <1>2, ClosedAll
<1>4. V \cap Leaves(obj) = leaves
  BY <1>3 DEF Leaves
<1>5. \A i, j \in leaves : i.path = j.path => i = j
  BY DEF OrderFree, obj
<1>6. e.fields = f
  <2>1. /\ e.fields = [k \in DOMAIN e.fields |-> e.fields[k]]
        /\ DOMAIN e.fields = names \cup DOMAIN b.fields
        /\ \A i \in leaves : e.fields[i.path] = i.value.text
        /\ \A k \in DOMAIN b.fields : (\A i \in leaves : i.path # k) => e.fields[k] = b.fields[k]
    BY <1>2, <1>4 DEF Seen, Spread
  <2>2. ASSUME NEW k \in names \cup DOMAIN b.fields PROVE e.fields[k] = f[k]
    <3>1. CASE k \in names
      <4>1. PICK i \in leaves : i.path = k
        BY <3>1
      <4>2. (CHOOSE j \in leaves : j.path = k) = i
        <5> DEFINE c == CHOOSE j \in leaves : j.path = k
        <5>1. c \in leaves /\ c.path = k
          BY <4>1, Zenon
        <5> HIDE DEF c, leaves
        <5>2. c = i
          BY <1>5, <4>1, <5>1, Zenon
        <5> QED BY <5>2 DEF c
      <4> HIDE DEF leaves, names
      <4> QED BY <2>1, <3>1, <4>1, <4>2
    <3>2. CASE k \notin names
      <4>1. \A i \in leaves : i.path # k
        BY <3>2
      <4> HIDE DEF leaves, names
      <4> QED BY <2>1, <3>2, <4>1
    <3> QED BY <3>1, <3>2
  <2>3. DOMAIN f = names \cup DOMAIN b.fields /\ f = [k \in DOMAIN f |-> f[k]]
    OBVIOUS
  <2> HIDE DEF f, leaves, names
  <2> QED BY <2>1, <2>2, <2>3
<1>7. e.msg = m
  <2>1. CASE msg = {}
    BY <1>2, <1>3, <2>1 DEF Seen
  <2>2. CASE msg # {}
    <3> DEFINE c == CHOOSE i \in msg : TRUE
    <3>1. c \in msg
      BY <2>2
    <3> HIDE DEF c
    <3>2. e.msg = c.value.text
      BY <1>2, <1>3, <3>1 DEF Seen
    <3> QED BY <2>2, <3>2 DEF c
  <2> QED BY <2>1, <2>2
<1>8. e.lvl = l
  <2>1. CASE lvl = {}
    BY <1>2, <1>3, <2>1 DEF Seen
  <2>2. CASE lvl # {}
    <3> DEFINE c == CHOOSE i \in lvl : TRUE
    <3>1. c \in lvl
      BY <2>2
    <3> HIDE DEF c
    <3>2. e.lvl = LooseLevels[c.value.text]
      BY <1>2, <1>3, <3>1 DEF Seen
    <3> QED BY <2>2, <3>2 DEF c
  <2> QED BY <2>1, <2>2
<1>9. IsEntry(e) /\ e.app = b.app /\ e.src = b.src /\ e.pid = b.pid
  BY <1>2 DEF Seen
<1>10. f = [k \in DOMAIN f |-> f[k]]
  OBVIOUS
<1> DEFINE d == JsonMeans(s, b)
<1> HIDE DEF f, m, l, leaves, names, msg, lvl
<1>11. /\ d.app = b.app /\ d.src = b.src /\ d.pid = b.pid
       /\ d.msg = m /\ d.lvl = l /\ d.fields = f
  BY <1>1 DEF IsEntry
<1>12. IsEntry(d)
  BY JsonMeansEntry
<1> HIDE DEF d
<1>13. e = d
  BY <1>6, <1>7, <1>8, <1>9, <1>11, <1>12, SameEntry
<1> QED BY <1>13 DEF d

-----------------------------------------------------------------------------
(* The loops under way *)

LEMMA AppendRange ==
    ASSUME NEW T, NEW q \in Seq(T), NEW x \in T
    PROVE  UNION Range(Append(q, x)) = (UNION Range(q)) \cup x
<1> DEFINE a == Append(q, x)
<1>1. /\ Len(q) \in Nat /\ DOMAIN q = 1 .. Len(q) /\ DOMAIN a = 1 .. Len(q) + 1
      /\ \A i \in 1 .. Len(q) : a[i] = q[i]
      /\ a[Len(q) + 1] = x
  BY AppendProperties
<1> HIDE DEF a
<1>2. Range(a) = Range(q) \cup {x}
  <2>1. ASSUME NEW y \in Range(a) PROVE y \in Range(q) \cup {x}
    <3>1. PICK i \in 1 .. Len(q) + 1 : a[i] = y
      BY <1>1 DEF Range
    <3>2. i = Len(q) + 1 \/ i \in 1 .. Len(q)
      BY <1>1
    <3> QED BY <1>1, <3>1, <3>2 DEF Range
  <2>2. ASSUME NEW y \in Range(q) \cup {x} PROVE y \in Range(a)
    <3>1. 1 .. Len(q) \subseteq 1 .. Len(q) + 1 /\ Len(q) + 1 \in 1 .. Len(q) + 1
      BY <1>1
    <3> QED BY <1>1, <3>1 DEF Range
  <2> QED BY <2>1, <2>2
<1> QED BY <1>2 DEF a

LEMMA Prefix ==
    ASSUME NEW T, NEW q \in Seq(T), NEW m \in 0 .. Len(q)
    PROVE  /\ SubSeq(q, 1, m) \in Seq(T) /\ Len(SubSeq(q, 1, m)) = m
           /\ \A i \in 1 .. m : SubSeq(q, 1, m)[i] = q[i]
OBVIOUS

LEMMA FrontIs ==
    ASSUME NEW S, NEW q \in Seq(SUBSET S), q # <<>>
    PROVE  /\ Front(q) \in Seq(SUBSET S) /\ Len(q) \in Nat \ {0} /\ Len(Front(q)) = Len(q) - 1
           /\ \A i \in 1 .. Len(q) - 1 : Front(q)[i] = q[i]
           /\ q[Len(q)] \in SUBSET S
           /\ UNION Range(q) = (UNION Range(Front(q))) \cup q[Len(q)]
<1> DEFINE n == Len(q)
           f == Front(q)
<1>1. n \in Nat \ {0} /\ q[n] \in SUBSET S
  BY EmptySeq
<1>2. f = SubSeq(q, 1, n - 1)
  BY Zenon DEF Front
<1>3. f \in Seq(SUBSET S) /\ Len(f) = n - 1 /\ \A i \in 1 .. n - 1 : f[i] = q[i]
  <2>1. n - 1 \in 0 .. n
    BY <1>1
  <2> HIDE DEF f
  <2> QED BY <1>2, <2>1, Prefix
<1> HIDE DEF f
<1>4. UNION Range(q) = (UNION Range(f)) \cup q[n]
  <2>1. DOMAIN q = 1 .. n /\ DOMAIN f = 1 .. n - 1
    BY <1>3
  <2>2. Range(q) = Range(f) \cup {q[n]}
    <3>1. ASSUME NEW y \in Range(q) PROVE y \in Range(f) \cup {q[n]}
      <4>1. PICK i \in 1 .. n : q[i] = y
        BY <2>1 DEF Range
      <4>2. i = n \/ i \in 1 .. n - 1
        BY <1>1
      <4> QED BY <1>3, <2>1, <4>1, <4>2 DEF Range
    <3>2. ASSUME NEW y \in Range(f) \cup {q[n]} PROVE y \in Range(q)
      <4>1. 1 .. n - 1 \subseteq 1 .. n /\ n \in 1 .. n
        BY <1>1
      <4> QED BY <1>3, <2>1, <4>1 DEF Range
    <3> QED BY <3>1, <3>2
  <2> QED BY <2>2
<1> QED BY <1>1, <1>3, <1>4 DEF f, n

\* The stack after a visit holds what was pending but the item, and its own keys.
LEMMA RestIs ==
    ASSUME NEW S, todo \in Seq(SUBSET S), todo # <<>>, NEW item, NEW inner \in SUBSET S
    PROVE  /\ Rest(item, inner) \in Seq(SUBSET S)
           /\ UNION Range(Rest(item, inner)) \subseteq Pending \cup inner
           /\ (Pending \ {item}) \cup inner \subseteq UNION Range(Rest(item, inner))
           /\ Len(Rest(item, inner)) <= Len(todo) + 1
           /\ inner = {} => Len(Rest(item, inner)) <= Len(todo)
           /\ \A i \in 1 .. Len(Rest(item, inner)) :
                 \/ i <= Len(todo) /\ Rest(item, inner)[i] \subseteq todo[i]
                 \/ i <= Len(todo) + 1 /\ Rest(item, inner)[i] = inner
<1> DEFINE n == Len(todo)
           front == Front(todo)
           top == todo[n] \ {item}
           outer == IF top = {} THEN front ELSE Append(front, top)
           r == IF inner = {} THEN outer ELSE Append(outer, inner)
<1>1. Rest(item, inner) = r
  BY Zenon DEF Rest
<1>2. /\ front \in Seq(SUBSET S) /\ n \in Nat \ {0} /\ Len(front) = n - 1
      /\ \A i \in 1 .. n - 1 : front[i] = todo[i]
      /\ todo[n] \in SUBSET S
      /\ Pending = (UNION Range(front)) \cup todo[n]
  BY FrontIs DEF Pending
<1>3. top \in SUBSET S /\ top \subseteq todo[n]
  BY <1>2
<1>4. /\ outer \in Seq(SUBSET S) /\ Len(outer) \in {n - 1, n}
      /\ UNION Range(outer) = (UNION Range(front)) \cup top
      /\ \A i \in 1 .. Len(outer) : i <= n /\ outer[i] \subseteq todo[i]
  <2> HIDE DEF front, top, n
  <2>1. CASE top = {}
    BY <1>2, <2>1
  <2>2. CASE top # {}
    <3> DEFINE a == Append(front, top)
    <3>1. UNION Range(a) = (UNION Range(front)) \cup top
      <4>1. front \in Seq(SUBSET S) /\ top \in SUBSET S
        BY <1>2, <1>3
      <4>2. \A q \in Seq(SUBSET S), x \in SUBSET S : UNION Range(Append(q, x)) = (UNION Range(q)) \cup x
        BY AppendRange, Zenon
      <4> QED BY <4>1, <4>2, Zenon
    <3>2. /\ a \in Seq(SUBSET S) /\ Len(a) = Len(front) + 1 /\ a[Len(front) + 1] = top
          /\ \A i \in 1 .. Len(front) : a[i] = front[i]
      BY <1>2, <1>3, AppendProperties
    <3> HIDE DEF a
    <3>3. Len(a) = n
      BY <1>2, <3>2
    <3>4. ASSUME NEW i \in 1 .. n PROVE a[i] \subseteq todo[i]
      <4>1. i = n \/ i \in 1 .. n - 1
        BY <1>2
      <4> QED BY <1>2, <1>3, <3>2, <4>1
    <3>5. outer = a
      BY <2>2 DEF a
    <3> HIDE DEF outer
    <3> QED BY <1>2, <3>1, <3>2, <3>3, <3>4, <3>5
  <2> QED BY <2>1, <2>2
<1> HIDE DEF outer, front, top
<1>5. CASE inner = {}
  <2>1. r = outer
    BY <1>5
  <2> HIDE DEF r, n
  <2>2. /\ UNION Range(r) \subseteq Pending
        /\ Pending \ {item} \subseteq UNION Range(r)
    BY <1>2, <1>4, <2>1 DEF top, n
  <2>3. Len(r) <= n /\ Len(r) <= n + 1
    BY <1>2, <1>4, <2>1
  <2>4. r \in Seq(SUBSET S) /\ \A i \in 1 .. Len(r) : i <= n /\ r[i] \subseteq todo[i]
    BY <1>4, <2>1
  <2> QED BY <1>1, <1>5, <2>2, <2>3, <2>4 DEF n
<1>6. CASE inner # {}
  <2>1. r = Append(outer, inner)
    BY <1>6
  <2>2. UNION Range(r) = (UNION Range(outer)) \cup inner
    BY <1>4, <2>1, AppendRange
  <2>3. /\ r \in Seq(SUBSET S) /\ Len(r) = Len(outer) + 1 /\ r[Len(outer) + 1] = inner
        /\ \A i \in 1 .. Len(outer) : r[i] = outer[i]
    BY <1>4, <2>1, AppendProperties
  <2> HIDE DEF r, n
  <2>4. Len(r) <= n + 1
    BY <1>2, <1>4, <2>3
  <2>5. ASSUME NEW i \in 1 .. Len(r)
        PROVE  \/ i <= n /\ r[i] \subseteq todo[i]
               \/ i <= n + 1 /\ r[i] = inner
    <3>1. i = Len(outer) + 1 \/ i \in 1 .. Len(outer)
      BY <1>2, <1>4, <2>3
    <3>2. CASE i = Len(outer) + 1
      BY <1>2, <1>4, <2>3, <3>2
    <3>3. CASE i \in 1 .. Len(outer)
      BY <1>4, <2>3, <3>3
    <3> QED BY <3>1, <3>2, <3>3
  <2>6. /\ UNION Range(r) \subseteq Pending \cup inner
        /\ (Pending \ {item}) \cup inner \subseteq UNION Range(r)
    BY <1>2, <1>4, <2>2 DEF top, n
  <2> QED BY <1>1, <1>6, <2>3, <2>4, <2>5, <2>6 DEF n
<1> QED BY <1>5, <1>6

-----------------------------------------------------------------------------
(* The fields of a set step *)

SetNames(s, set, V) == {k \in V : Resolves(s.fields[k], set)}

SetFields(s, set, V) ==
    [k \in SetNames(s, set, V) \cup DOMAIN set.fields |->
       IF k \in SetNames(s, set, V) THEN Resolve(s.fields[k], set) ELSE set.fields[k]]

LEMMA SetPartIs ==
    ASSUME NEW set, IsEntry(set), NEW s, NEW V
    PROVE  /\ IsEntry(SetPart(s, set, V))
           /\ SetPart(s, set, V).fields = SetFields(s, set, V)
           /\ \A x \in Attributes : SetPart(s, set, V)[x] = set[x]
<1> DEFINE f == SetFields(s, set, V)
<1>1. SetPart(s, set, V) = [set EXCEPT !.fields = f]
  BY Zenon DEF SetPart, SetFields, SetNames
<1>2. f = [k \in DOMAIN f |-> f[k]]
  BY DEF SetFields
<1> HIDE DEF f
<1>3. /\ IsEntry([set EXCEPT !.fields = f]) /\ [set EXCEPT !.fields = f].fields = f
      /\ \A x \in Attributes : [set EXCEPT !.fields = f][x] = set[x]
  BY <1>2, FieldsEntry
<1> QED BY <1>1, <1>3 DEF f

LEMMA SameAttributes ==
    ASSUME NEW a, NEW b, IsEntry(a), IsEntry(b), a.fields = b.fields,
           \A x \in Attributes : a[x] = b[x]
    PROVE  a = b
<1>1. a.app = b.app /\ a.src = b.src /\ a.pid = b.pid /\ a.msg = b.msg /\ a.lvl = b.lvl
  BY DEF Attributes
<1> QED BY <1>1, SameEntry

LEMMA SetPartStart ==
    ASSUME NEW set, IsEntry(set), NEW s
    PROVE  SetPart(s, set, {}) = set
<1>1. SetFields(s, set, {}) = set.fields
  BY DEF SetFields, SetNames, IsEntry
<1> QED BY <1>1, SetPartIs, SameAttributes

\* One more field, read from an entry where others may be set already.
LEMMA SetVisit ==
    ASSUME NEW set, IsEntry(set), NEW s, Independent(s), NEW V, V \subseteq DOMAIN s.fields,
           NEW k \in DOMAIN s.fields, NEW e, e = SetPart(s, set, V)
    PROVE  SetPart(s, set, V \cup {k}) =
             IF Resolves(s.fields[k], e) THEN Stored(e, k, Resolve(s.fields[k], e)) ELSE e
<1> DEFINE spec == s.fields[k]
           v == Resolve(spec, set)
           part == SetPart(s, set, V \cup {k})
<1>1. /\ IsEntry(e) /\ e.fields = SetFields(s, set, V)
      /\ \A x \in Attributes : e[x] = set[x]
  BY SetPartIs
<1>2. /\ IsEntry(part) /\ part.fields = SetFields(s, set, V \cup {k})
      /\ \A x \in Attributes : part[x] = set[x]
  BY SetPartIs
<1>3. Resolve(spec, e) = v /\ Resolves(spec, e) = Resolves(spec, set)
  <2>1. CASE spec.ref
    <3>1. spec.field \notin DOMAIN s.fields
      BY <2>1 DEF Independent
    <3>2. spec.field \notin SetNames(s, set, V)
      BY <3>1 DEF SetNames
    <3>3. Field(e, spec.field) = Field(set, spec.field)
      BY <1>1, <3>2 DEF Field, SetFields
    <3> QED BY <3>3, Zenon DEF Resolve, Resolves
  <2>2. CASE ~spec.ref
    BY <2>2 DEF Resolve, Resolves
  <2> QED BY <2>1, <2>2
<1> HIDE DEF part
<1>4. CASE Resolves(spec, set)
  <2>1. SetNames(s, set, V \cup {k}) = SetNames(s, set, V) \cup {k}
    BY <1>4 DEF SetNames
  <2>2. SetFields(s, set, V \cup {k}) =
          [n \in DOMAIN e.fields \cup {k} |-> IF n = k THEN v ELSE e.fields[n]]
    BY <1>1, <2>1 DEF SetFields
  <2>3. /\ IsEntry(Stored(e, k, v)) /\ Stored(e, k, v).fields = part.fields
        /\ \A x \in Attributes : Stored(e, k, v)[x] = e[x]
    <3> HIDE DEF v
    <3> QED BY <1>1, <1>2, <2>2, StoredEntry
  <2>4. part = Stored(e, k, v)
    BY <1>1, <1>2, <2>3, SameAttributes
  <2> QED BY <1>3, <1>4, <2>4 DEF part
<1>5. CASE ~Resolves(spec, set)
  <2>1. SetNames(s, set, V \cup {k}) = SetNames(s, set, V)
    BY <1>5 DEF SetNames
  <2>2. part.fields = e.fields
    BY <1>1, <1>2, <2>1 DEF SetFields
  <2>3. part = e
    BY <1>1, <1>2, <2>2, SameAttributes
  <2> QED BY <1>3, <1>5, <2>3 DEF part
<1> QED BY <1>4, <1>5

-----------------------------------------------------------------------------
(* The account of an entry under way *)

Here == pl \in 1 .. Len(pipelines) /\ step \in 1 .. Len(pipelines[pl].steps)

\* Nothing is settled yet: the entry is the one the account has at this step.
OnStep ==
    /\ Before.fate = "running" /\ When(pipelines[pl].when, Before.e)
    /\ SoFar.fate = "running" /\ Faithful(SoFar.e, ThisStep, entry, todo)

LEMMA StepsHere ==
    ASSUME Position, pl \in 1 .. Len(pipelines)
    PROVE  /\ Len(pipelines) \in Nat /\ Len(pipelines[pl].steps) \in Nat \ {0}
           /\ DOMAIN pipelines[pl].steps = 1 .. Len(pipelines[pl].steps)
           /\ IsAccount(Before)
           /\ AfterSteps(Before, pipelines[pl].steps)[0] = Before
           /\ \A i \in 0 .. Len(pipelines[pl].steps) :
                 IsAccount(AfterSteps(Before, pipelines[pl].steps)[i])
           /\ \A i \in 0 .. Len(pipelines[pl].steps) :
                 AfterSteps(Before, pipelines[pl].steps)[i].fate # "running" =>
                    AfterSteps(Before, pipelines[pl].steps)[Len(pipelines[pl].steps)]
                       = AfterSteps(Before, pipelines[pl].steps)[i]
           /\ \A i \in 1 .. Len(pipelines[pl].steps) :
                 /\ pipelines[pl].steps[i].kind \in Kinds
                 /\ AfterSteps(Before, pipelines[pl].steps)[i] =
                       StepMeans(AfterSteps(Before, pipelines[pl].steps)[i - 1],
                                 pipelines[pl].steps[i])
<1> DEFINE steps == pipelines[pl].steps
           n == Len(steps)
           f == AfterSteps(Before, steps)
<1>1. /\ pipelines \in Seq(Range(pipelines))
      /\ steps \in Seq(Range(steps)) /\ n > 0
      /\ \A j \in 1 .. n : steps[j].kind \in Kinds
  BY Compiled DEF Position
<1>2. IsAccount(Before)
  <2>1. pl - 1 \in 0 .. Len(pipelines)
    BY <1>1
  <2> QED BY <2>1, AfterPipelinesAccount DEF Before, Position
<1> DEFINE S == Range(steps)
<1> HIDE DEF S, steps
<1>3. f[0] = Before /\ \A i \in 1 .. n : f[i] = StepMeans(f[i - 1], steps[i])
  BY <1>1, AfterStepsIs DEF S
<1>4. /\ \A i \in 0 .. n : IsAccount(f[i])
      /\ \A i \in 0 .. n : f[i].fate # "running" => \A j \in i .. n : f[j] = f[i]
  BY <1>1, <1>2, AfterStepsAccount DEF S
<1>5. n \in Nat \ {0} /\ DOMAIN steps = 1 .. n
  BY <1>1
<1>6. \A i \in 0 .. n : n \in i .. n
  BY <1>5
<1> HIDE DEF f, n
<1>7. \A i \in 0 .. n : f[i].fate # "running" => f[n] = f[i]
  BY <1>4, <1>6
<1>8. Len(pipelines) \in Nat
  BY <1>1
<1> QED BY <1>1, <1>2, <1>3, <1>4, <1>5, <1>7, <1>8 DEF f, n, steps

LEMMA Kept ==
    ASSUME UNCHANGED <<pipelines, arrived>>
    PROVE  AfterPipelines' = AfterPipelines
BY DEF AfterPipelines

LEMMA AdvanceAccount ==
    ASSUME Position, OnAccount, fate = "running", Here, step' = step + 1, todo' = <<>>,
           UNCHANGED <<pipelines, arrived, pl, fate>>,
           OnStep => \/ StepMeans(SoFar, ThisStep).fate = "any"
                     \/ /\ StepMeans(SoFar, ThisStep).fate = "running"
                        /\ entry' = StepMeans(SoFar, ThisStep).e
    PROVE  OnAccount'
<1>1. Before' = Before
  BY Kept DEF Before
<1>2. SoFar' = AfterSteps(Before, pipelines[pl].steps)[step]
  <2>1. (step + 1) - 1 = step /\ step' - 1 = step
    BY DEF Here
  <2> QED BY <1>1, <2>1 DEF SoFar
<1>3. SoFar' = StepMeans(SoFar, ThisStep) /\ IsAccount(SoFar) /\ ThisStep.kind \in Kinds
  <2>1. step - 1 \in 0 .. Len(pipelines[pl].steps)
    BY StepsHere DEF Here
  <2> QED BY <1>2, <2>1, StepsHere DEF SoFar, ThisStep, Here
<1>4. step > 0 /\ step # 0 /\ step' > 0
  BY DEF Here
<1>5. CASE Before.fate = "any"
  BY <1>1, <1>5 DEF OnAccount
<1>6. CASE /\ Before.fate = "running" /\ When(pipelines[pl].when, Before.e)
           /\ SoFar.fate = "any"
  <2>1. SoFar' = SoFar
    BY <1>3, <1>6, StepMeansAccount
  <2> QED BY <1>1, <1>4, <1>6, <2>1 DEF OnAccount
<1>7. CASE OnStep
  <2>1. SoFar'.fate = "any" \/ (SoFar'.fate = "running" /\ entry' = SoFar'.e)
    BY <1>3, <1>7
  <2>2. SoFar'.fate = "any"
        \/ (SoFar'.fate = "running" /\ Faithful(SoFar'.e, ThisStep', entry', todo'))
    BY <2>1, Zenon DEF Faithful
  <2> QED BY <1>1, <1>4, <1>7, <2>2 DEF OnAccount, OnStep
<1> QED BY <1>4, <1>5, <1>6, <1>7 DEF OnAccount, OnStep

LEMMA StayAccount ==
    ASSUME Position, OnAccount, fate = "running", Here, step' = step,
           UNCHANGED <<pipelines, arrived, pl, fate>>,
           OnStep => Faithful(SoFar.e, ThisStep, entry', todo')
    PROVE  OnAccount'
<1>1. Before' = Before
  BY Kept DEF Before
<1>2. SoFar' = SoFar /\ ThisStep' = ThisStep
  BY <1>1 DEF SoFar, ThisStep
<1>3. step > 0 /\ step # 0
  BY DEF Here
<1>4. Before.fate = "any" \/ (Before.fate = "running" /\ When(pipelines[pl].when, Before.e)
                              /\ (SoFar.fate = "any" \/ OnStep))
  BY <1>3 DEF OnAccount, OnStep
<1> QED BY <1>1, <1>2, <1>3, <1>4 DEF OnAccount, OnStep

LEMMA AccountsHere ==
    ASSUME Position
    PROVE  /\ IsAccount(Before) /\ Len(pipelines) \in Nat
           /\ Before.fate # "running" => Meaning = Before
           /\ pl = Len(pipelines) + 1 => Meaning = Before
           /\ pl <= Len(pipelines) =>
                 /\ AfterPipelines[pl] = PipelineMeans(Before, pipelines[pl])
                 /\ AfterPipelines[pl].fate # "running" => Meaning = AfterPipelines[pl]
<1>1. Len(pipelines) \in Nat
  BY Compiled DEF Position
<1>2. pl - 1 \in 0 .. Len(pipelines) /\ pl \in Nat
  BY <1>1 DEF Position
<1>3. IsAccount(Before) /\ (Before.fate # "running" => Meaning = Before)
  BY <1>2, AfterPipelinesAccount DEF Position, Before, Meaning
<1>4. pl = Len(pipelines) + 1 => Meaning = Before
  BY <1>1 DEF Before, Meaning
<1>5. ASSUME pl <= Len(pipelines)
      PROVE  /\ AfterPipelines[pl] = PipelineMeans(Before, pipelines[pl])
             /\ AfterPipelines[pl].fate # "running" => Meaning = AfterPipelines[pl]
  <2>1. pl \in 1 .. Len(pipelines) /\ pl \in 0 .. Len(pipelines)
    BY <1>1, <1>5 DEF Position
  <2> QED BY <2>1, AfterPipelinesAccount DEF Position, Before, Meaning
<1> QED BY <1>1, <1>3, <1>4, <1>5

LEMMA PipeInitInv == PipeInit => PipeInv
<1> SUFFICES ASSUME PipeInit PROVE PipeInv
  OBVIOUS
<1>1. Len(pipelines) \in Nat
  BY Compiled DEF PipeInit
<1>2. Position
  <2>1. /\ pipelines \in Configurations /\ arrived \in PipeEntries /\ caller = arrived.fields
        /\ pl = 1 /\ step = 0 /\ owned = FALSE /\ todo = <<>> /\ fate = "running"
    BY Zenon DEF PipeInit
  <2>2. pl \in 1 .. Len(pipelines) + 1 /\ step \in Nat /\ ~(step > 0)
    BY <1>1, <2>1
  <2>3. owned \in BOOLEAN
    BY <2>1
  <2> QED BY <2>1, <2>2, <2>3, Zenon DEF Position
<1>3. Stack
  BY DEF PipeInit, Stack
<1>4. OnAccount
  <2>1. AfterPipelines[0] = Start
    BY AfterPipelinesAccount DEF PipeInit
  <2>2. Before = Start
    BY <2>1 DEF Before, PipeInit
  <2> QED BY <2>2 DEF OnAccount, Start, PipeInit
<1>5. Outcome
  BY DEF PipeInit, Outcome
<1> QED BY <1>2, <1>3, <1>4, <1>5 DEF PipeInv

LEMMA NoLoop == ASSUME todo' = <<>> PROVE Stack'
BY DEF Stack

\* A pipeline is skipped, entered, left; the entry is forwarded.
LEMMA SkipInv ==
    ASSUME PipeInv, Skip
    PROVE  PipeInv'
<1>1. Position /\ OnAccount /\ todo = <<>> /\ pl \in Nat /\ pl <= Len(pipelines) /\ step = 0
  BY AccountsHere DEF PipeInv, Skip, Position
<1>2. Position'
  BY <1>1, AccountsHere DEF Skip, UNCHANGED_Call, Position
<1>3. Before' = PipelineMeans(Before, pipelines[pl])
  <2>1. AfterPipelines' = AfterPipelines /\ pl' - 1 = pl
    BY <1>1, Kept DEF Skip, UNCHANGED_Call
  <2> QED BY <1>1, <2>1, AccountsHere DEF Before
<1>4. Before' = Before
  BY <1>1, <1>3 DEF OnAccount, PipelineMeans, Skip
<1>5. OnAccount'
  BY <1>1, <1>4 DEF OnAccount, Skip
<1>6. Stack' /\ Outcome'
  BY <1>1, NoLoop DEF Outcome, Skip
<1> QED BY <1>2, <1>5, <1>6 DEF PipeInv

LEMMA EnterInv ==
    ASSUME PipeInv, Enter
    PROVE  PipeInv'
<1>1. Position /\ OnAccount /\ todo = <<>> /\ pl \in 1 .. Len(pipelines) /\ step = 0
  BY AccountsHere DEF PipeInv, Enter, Position
<1>2. Position'
  BY <1>1, StepsHere DEF Enter, UNCHANGED_Call, Position
<1>3. Before' = Before
  BY Kept DEF Before, Enter, UNCHANGED_Call
<1>4. SoFar' = Before
  BY <1>1, <1>3, StepsHere DEF SoFar, Enter, UNCHANGED_Call
<1>5. Faithful(entry, ThisStep', entry, <<>>)
  BY Zenon DEF Faithful
<1>6. OnAccount'
  <2>1. pipelines' = pipelines /\ entry' = entry /\ todo' = <<>> /\ pl' = pl /\ step' = 1
    BY <1>1 DEF Enter, UNCHANGED_Call
  <2>2. CASE Before.fate = "any"
    BY <1>3, <2>2 DEF OnAccount
  <2>3. CASE Before.fate = "running" /\ entry = Before.e
    BY <1>3, <1>4, <1>5, <2>1, <2>3 DEF OnAccount, Enter
  <2> QED BY <1>1, <2>2, <2>3 DEF OnAccount, Enter
<1>7. Stack' /\ Outcome'
  BY <1>1, NoLoop DEF Outcome, Enter
<1> QED BY <1>2, <1>6, <1>7 DEF PipeInv

LEMMA LeaveInv ==
    ASSUME PipeInv, LeavePipeline
    PROVE  PipeInv'
<1> DEFINE n == Len(pipelines[pl].steps)
<1>1. Position /\ OnAccount /\ pl \in 1 .. Len(pipelines) /\ fate = "running"
  BY AccountsHere DEF PipeInv, LeavePipeline, Position
<1>2. n \in Nat \ {0} /\ step = n + 1
  BY <1>1, StepsHere DEF Position, LeavePipeline
<1>3. todo = <<>>
  BY <1>1, <1>2 DEF Position
<1>4. Position'
  BY <1>1, <1>3, AccountsHere DEF LeavePipeline, UNCHANGED_Call, Position
<1>5. Before' = PipelineMeans(Before, pipelines[pl])
  <2>1. AfterPipelines' = AfterPipelines /\ pl' - 1 = pl
    BY <1>1, Kept DEF LeavePipeline, UNCHANGED_Call
  <2> QED BY <1>1, <2>1, AccountsHere DEF Before
<1>6. SoFar = AfterSteps(Before, pipelines[pl].steps)[n]
  <2>1. step - 1 = n
    BY <1>2
  <2> QED BY <2>1 DEF SoFar
<1>7. \/ Before'.fate = "any"
      \/ Before'.fate = "running" /\ entry = Before'.e
  <2>1. CASE Before.fate = "any"
    BY <1>5, <2>1 DEF PipelineMeans
  <2>2. CASE /\ Before.fate = "running" /\ When(pipelines[pl].when, Before.e)
             /\ \/ SoFar.fate = "any"
                \/ SoFar.fate = "running" /\ Faithful(SoFar.e, ThisStep, entry, todo)
    <3>1. Before' = SoFar
      BY <1>5, <1>6, <2>2 DEF PipelineMeans
    <3> QED BY <1>3, <2>2, <3>1 DEF Faithful
  <2> QED BY <1>1, <1>2, <2>1, <2>2 DEF OnAccount
<1>8. OnAccount'
  BY <1>7 DEF OnAccount, LeavePipeline
<1>9. Stack' /\ Outcome'
  BY <1>3, NoLoop DEF Outcome, LeavePipeline
<1> QED BY <1>4, <1>8, <1>9 DEF PipeInv

LEMMA ForwardInv ==
    ASSUME PipeInv, Forward
    PROVE  PipeInv'
<1>1. Position /\ OnAccount /\ pl = Len(pipelines) + 1 /\ step = 0 /\ todo = <<>>
  BY AccountsHere DEF PipeInv, Forward, Position
<1>2. Position'
  BY <1>1, AccountsHere DEF Forward, UNCHANGED_Call, Position
<1>3. Meaning' = Meaning /\ Meaning = Before /\ IsAccount(Meaning)
  BY <1>1, Kept, AccountsHere DEF Forward, UNCHANGED_Call, Meaning
<1>4. Meaning.fate = "any" \/ Meaning = [e |-> entry, fate |-> "running"]
  <2>1. Before.fate = "any" \/ (Before.fate = "running" /\ entry = Before.e)
    BY <1>1 DEF OnAccount, Forward
  <2> QED BY <1>3, <2>1 DEF IsAccount
<1>5. Outcome'
  BY <1>3, <1>4 DEF Outcome, Forward
<1>6. Stack' /\ OnAccount'
  BY <1>1, NoLoop DEF OnAccount, Forward
<1> QED BY <1>2, <1>5, <1>6 DEF PipeInv

-----------------------------------------------------------------------------
(* The steps *)

\* What a step makes of an account that is running.
LEMMA StepMeansIs ==
    ASSUME NEW st, IsAccount(st), st.fate = "running", NEW s
    PROVE  /\ s.kind = "pattern" =>
                 StepMeans(st, s).fate = "running" /\ StepMeans(st, s).e = Matched(s, st.e)
           /\ s.kind = "severity" =>
                 StepMeans(st, s).fate = "running" /\ StepMeans(st, s).e = Severity(s, st.e)
           /\ s.kind = "drop" => StepMeans(st, s).fate = "dropped"
           /\ s.kind = "json" =>
                 /\ Decode(Input(st.e, s.from)) = NoMatch =>
                       StepMeans(st, s).fate = "running" /\ StepMeans(st, s).e = st.e
                 /\ Decode(Input(st.e, s.from)) # NoMatch =>
                       IF OrderFree(st.e, Decode(Input(st.e, s.from)))
                       THEN StepMeans(st, s).fate = "running" /\ StepMeans(st, s).e = JsonMeans(s, st.e)
                       ELSE StepMeans(st, s).fate = "any"
           /\ s.kind = "set" =>
                 IF Independent(s)
                 THEN StepMeans(st, s).fate = "running" /\ StepMeans(st, s).e = SetMeans(s, st.e)
                 ELSE StepMeans(st, s).fate = "any"
<1>1. \A e : [st EXCEPT !.e = e].fate = "running" /\ [st EXCEPT !.e = e].e = e
  BY DEF IsAccount
<1>2. [st EXCEPT !.fate = "any"].fate = "any" /\ [st EXCEPT !.fate = "dropped"].fate = "dropped"
  BY DEF IsAccount
<1>3. s.kind = "pattern" => StepMeans(st, s) = [st EXCEPT !.e = Matched(s, st.e)]
  BY DEF StepMeans
<1>4. s.kind = "severity" => StepMeans(st, s) = [st EXCEPT !.e = Severity(s, st.e)]
  BY DEF StepMeans
<1>5. s.kind = "drop" => StepMeans(st, s) = [st EXCEPT !.fate = "dropped"]
  BY DEF StepMeans
<1>6. ASSUME s.kind = "json"
      PROVE  StepMeans(st, s) =
                IF Decode(Input(st.e, s.from)) = NoMatch THEN st
                ELSE IF OrderFree(st.e, Decode(Input(st.e, s.from)))
                THEN [st EXCEPT !.e = JsonMeans(s, st.e)]
                ELSE [st EXCEPT !.fate = "any"]
  BY <1>6 DEF StepMeans
<1>7. ASSUME s.kind = "set"
      PROVE  StepMeans(st, s) = IF Independent(s) THEN [st EXCEPT !.e = SetMeans(s, st.e)]
                                ELSE [st EXCEPT !.fate = "any"]
  BY <1>7 DEF StepMeans, Independent
<1>8. s.kind = "pattern" =>
         StepMeans(st, s).fate = "running" /\ StepMeans(st, s).e = Matched(s, st.e)
  BY <1>1, <1>3
<1>9. s.kind = "severity" =>
         StepMeans(st, s).fate = "running" /\ StepMeans(st, s).e = Severity(s, st.e)
  BY <1>1, <1>4
<1>10. s.kind = "drop" => StepMeans(st, s).fate = "dropped"
  BY <1>2, <1>5
<1>11. ASSUME s.kind = "json"
       PROVE  /\ Decode(Input(st.e, s.from)) = NoMatch =>
                    StepMeans(st, s).fate = "running" /\ StepMeans(st, s).e = st.e
              /\ Decode(Input(st.e, s.from)) # NoMatch =>
                    IF OrderFree(st.e, Decode(Input(st.e, s.from)))
                    THEN StepMeans(st, s).fate = "running" /\ StepMeans(st, s).e = JsonMeans(s, st.e)
                    ELSE StepMeans(st, s).fate = "any"
  BY <1>1, <1>2, <1>6, <1>11, ZenonT(60)
<1>12. ASSUME s.kind = "set"
       PROVE  IF Independent(s)
              THEN StepMeans(st, s).fate = "running" /\ StepMeans(st, s).e = SetMeans(s, st.e)
              ELSE StepMeans(st, s).fate = "any"
  BY <1>1, <1>2, <1>7, <1>12, ZenonT(60)
<1> QED BY <1>8, <1>9, <1>10, <1>11, <1>12, Zenon

\* The account of a step that is about to run.
LEMMA AtStepIs ==
    ASSUME PipeInv, NEW kind, AtStep(kind)
    PROVE  /\ Position /\ OnAccount /\ Here /\ fate = "running" /\ owned /\ todo = <<>>
           /\ ThisStep.kind = kind
           /\ IsAccount(SoFar)
           /\ OnStep => SoFar.fate = "running" /\ entry = SoFar.e /\ IsEntry(entry)
<1>1. Position /\ OnAccount /\ fate = "running" /\ todo = <<>> /\ ThisStep.kind = kind
  BY DEF PipeInv, AtStep, ThisStep
<1>2. pl \in 1 .. Len(pipelines)
  BY <1>1, AccountsHere DEF AtStep, Position
<1>3. Here
  BY <1>1, <1>2, StepsHere DEF Here, AtStep
<1>4. step > 0 /\ step - 1 \in 0 .. Len(pipelines[pl].steps)
  BY <1>1, <1>2, <1>3, StepsHere DEF Here
<1>5. owned
  BY <1>1, <1>4 DEF Position
<1>6. IsAccount(SoFar)
  BY <1>1, <1>2, <1>4, StepsHere DEF SoFar
<1>7. OnStep => SoFar.fate = "running" /\ entry = SoFar.e
  BY <1>1 DEF OnStep, Faithful
<1> QED BY <1>1, <1>3, <1>5, <1>6, <1>7 DEF IsAccount

LEMMA DoneInv ==
    ASSUME PipeInv, NEW kind, AtStep(kind), NEW e, Done(e),
           OnStep => /\ StepMeans(SoFar, ThisStep).fate = "running"
                     /\ StepMeans(SoFar, ThisStep).e = e
    PROVE  PipeInv'
<1>1. /\ Position /\ OnAccount /\ Here /\ fate = "running" /\ owned /\ todo = <<>>
  BY AtStepIs
<1>2. /\ step' = step + 1 /\ todo' = <<>> /\ entry' = e /\ caller' = caller /\ owned' = owned
      /\ pl' = pl /\ fate' = "running" /\ pipelines' = pipelines /\ arrived' = arrived
  BY <1>1 DEF Done, Write, UNCHANGED_Call
<1>3. Position'
  <2>1. step' \in Nat /\ step' <= Len(pipelines[pl].steps) + 1
    BY <1>1, <1>2, StepsHere DEF Here
  <2>2. pl <= Len(pipelines)
    BY <1>1, AccountsHere DEF Here
  <2> QED BY <1>1, <1>2, <2>1, <2>2 DEF Position
<1>4. OnAccount'
  BY <1>1, <1>2, AdvanceAccount
<1>5. Stack' /\ Outcome'
  BY <1>2, NoLoop DEF Outcome
<1> QED BY <1>3, <1>4, <1>5 DEF PipeInv

LEMMA PatternInv ==
    ASSUME PipeInv, PatternStep
    PROVE  PipeInv'
<1>1. AtStep("pattern") /\ Done(Matched(ThisStep, entry))
  BY DEF PatternStep
<1>2. OnStep => /\ StepMeans(SoFar, ThisStep).fate = "running"
                /\ StepMeans(SoFar, ThisStep).e = Matched(ThisStep, entry)
  BY <1>1, AtStepIs, StepMeansIs
<1> QED BY <1>1, <1>2, DoneInv

LEMMA SeverityInv ==
    ASSUME PipeInv, SeverityStep
    PROVE  PipeInv'
<1>1. AtStep("severity") /\ Done(Severity(ThisStep, entry))
  BY DEF SeverityStep
<1>2. OnStep => /\ StepMeans(SoFar, ThisStep).fate = "running"
                /\ StepMeans(SoFar, ThisStep).e = Severity(ThisStep, entry)
  BY <1>1, AtStepIs, StepMeansIs
<1> QED BY <1>1, <1>2, DoneInv

LEMMA DropInv ==
    ASSUME PipeInv, DropStep
    PROVE  PipeInv'
<1> DEFINE steps == pipelines[pl].steps
           n == Len(steps)
           f == AfterSteps(Before, steps)
<1>1. /\ Position /\ OnAccount /\ Here /\ fate = "running" /\ todo = <<>>
      /\ ThisStep.kind = "drop" /\ IsAccount(SoFar)
  BY AtStepIs DEF DropStep
<1>2. /\ fate' = "dropped" /\ UNCHANGED <<pipelines, arrived, caller, entry, owned, pl, step, todo>>
  BY DEF DropStep, UNCHANGED_Call
<1>3. Position' /\ Stack' /\ OnAccount'
  BY <1>1, <1>2, NoLoop DEF Position, ThisStep, OnAccount
<1>4. /\ step > 0 /\ step # 0 /\ step - 1 \in 0 .. n /\ step \in 0 .. n /\ step \in 1 .. n
      /\ pl <= Len(pipelines) /\ pl \in 1 .. Len(pipelines)
  BY <1>1, StepsHere, AccountsHere DEF Here
<1>5. f[step] = StepMeans(SoFar, ThisStep) /\ SoFar = f[step - 1]
  BY <1>1, <1>4, StepsHere DEF SoFar, ThisStep
<1>6. /\ SoFar.fate # "running" => f[n] = SoFar
      /\ f[step].fate # "running" => f[n] = f[step]
  BY <1>1, <1>4, <1>5, StepsHere
<1> HIDE DEF f, n
<1>7. Meaning.fate \in {"any", "dropped"}
  <2>1. CASE Before.fate = "any"
    BY <1>1, <2>1, AccountsHere
  <2>2. CASE /\ Before.fate = "running" /\ When(pipelines[pl].when, Before.e)
             /\ f[n].fate \in {"any", "dropped"}
    <3>1. PipelineMeans(Before, pipelines[pl]) = f[n]
      BY <2>2 DEF PipelineMeans, f, n
    <3>2. Meaning = f[n]
      BY <1>1, <1>4, <2>2, <3>1, AccountsHere
    <3> QED BY <2>2, <3>2
  <2>3. CASE OnStep
    <3>1. f[step].fate = "dropped"
      BY <1>1, <1>5, <2>3, StepMeansIs DEF OnStep
    <3>2. f[n].fate = "dropped"
      BY <1>6, <3>1
    <3> QED BY <2>2, <2>3, <3>2 DEF OnStep
  <2>4. CASE /\ Before.fate = "running" /\ When(pipelines[pl].when, Before.e)
             /\ SoFar.fate = "any"
    BY <1>6, <2>2, <2>4
  <2> QED BY <1>1, <1>4, <2>1, <2>3, <2>4 DEF OnAccount, OnStep
<1>8. Meaning' = Meaning
  BY <1>2, Kept DEF Meaning
<1>9. Outcome'
  BY <1>2, <1>7, <1>8 DEF Outcome
<1> QED BY <1>3, <1>9 DEF PipeInv

-----------------------------------------------------------------------------
(* The loops *)

LEMMA StackOf ==
    ASSUME NEW S, NEW q \in Seq(SUBSET S)
    PROVE  q \in Seq(SUBSET (UNION Range(q)))
<1> DEFINE U == SUBSET (UNION Range(q))
<1>1. Len(q) \in Nat /\ q \in [1 .. Len(q) -> SUBSET S] /\ DOMAIN q = 1 .. Len(q)
  OBVIOUS
<1>2. \A i \in 1 .. Len(q) : q[i] \in U
  BY <1>1 DEF Range
<1> HIDE DEF U
<1>3. q \in [1 .. Len(q) -> U]
  BY <1>1, <1>2
<1>4. q \in Seq(U)
  BY <1>1, <1>3, SeqDef
<1> QED BY <1>4 DEF U

LEMMA OneRange == ASSUME NEW x PROVE UNION Range(<<x>>) = x
BY DEF Range

LEMMA NoRange == UNION Range(<<>>) = {}
BY DEF Range

\* A loop over one set of keys.
LEMMA LoopStack ==
    ASSUME NEW keys, todo' = <<keys>>, UNCHANGED <<pipelines, pl, step>>,
           ThisStep.kind = "json" => \A x \in keys : x.depth = 1
    PROVE  Stack'
<1>1. Pending' = keys
  BY OneRange DEF Pending
<1>2. todo' \in Seq(SUBSET keys) /\ Len(todo') = 1 /\ todo'[1] = keys /\ DOMAIN todo' = {1}
  OBVIOUS
<1>3. ThisStep' = ThisStep
  BY DEF ThisStep
<1> QED BY <1>1, <1>2, <1>3 DEF Stack

\* Where a loop leaves the entry: at its next key or at the next step.
LEMMA LoopPosition ==
    ASSUME Position, Here, owned, fate = "running", ThisStep.kind \in {"json", "set"},
           UNCHANGED <<pipelines, arrived, caller, owned, pl, fate>>,
           step' = IF todo' = <<>> THEN step + 1 ELSE step
    PROVE  Position'
<1>1. /\ pl \in 1 .. Len(pipelines) /\ pl <= Len(pipelines)
      /\ step \in Nat /\ Len(pipelines[pl].steps) \in Nat
  BY StepsHere, AccountsHere DEF Here
<1>2. step' \in Nat /\ step' <= Len(pipelines[pl].steps) + 1
  BY <1>1 DEF Here
<1>3. todo' # <<>> => step' \in 1 .. Len(pipelines[pl].steps) /\ ThisStep' = ThisStep
  BY DEF Here, ThisStep
<1> QED BY <1>1, <1>2, <1>3 DEF Position

LEMMA SetInv ==
    ASSUME PipeInv, SetStep
    PROVE  PipeInv'
<1> DEFINE s == ThisStep
           set == SetAttributes(s, entry)
           keys == DOMAIN s.fields
<1>1. /\ Position /\ OnAccount /\ Here /\ fate = "running" /\ owned /\ todo = <<>>
      /\ s.kind = "set" /\ IsAccount(SoFar)
      /\ OnStep => SoFar.fate = "running" /\ entry = SoFar.e /\ IsEntry(entry)
  BY AtStepIs DEF SetStep
<1>2. /\ todo' = IF keys = {} THEN <<>> ELSE <<keys>>
      /\ step' = IF keys = {} THEN step + 1 ELSE step
      /\ entry' = set /\ UNCHANGED <<pipelines, arrived, caller, owned, pl, fate>>
  BY <1>1 DEF SetStep, Loop, Write, UNCHANGED_Call
<1>3. todo' = <<>> <=> keys = {}
  BY <1>2
<1>4. Position'
  BY <1>1, <1>2, <1>3, LoopPosition
<1>5. OnStep => SetPart(s, set, {}) = set
  BY <1>1, SetAttributesEntry, SetPartStart
<1>6. CASE keys = {}
  <2>1. step' = step + 1 /\ todo' = <<>>
    BY <1>2, <1>6
  <2>2. OnStep => \/ StepMeans(SoFar, s).fate = "any"
                  \/ /\ StepMeans(SoFar, s).fate = "running"
                     /\ entry' = StepMeans(SoFar, s).e
    <3> SUFFICES ASSUME OnStep, Independent(s)
                 PROVE  /\ StepMeans(SoFar, s).fate = "running"
                        /\ entry' = StepMeans(SoFar, s).e
      BY <1>1, StepMeansIs
    <3>1. StepMeans(SoFar, s).fate = "running" /\ StepMeans(SoFar, s).e = SetMeans(s, entry)
      BY <1>1, StepMeansIs
    <3>2. SetMeans(s, entry) = SetPart(s, set, {})
      BY <1>6, SetMeansPart
    <3> QED BY <1>2, <1>5, <3>1, <3>2
  <2>3. OnAccount'
    BY <1>1, <1>2, <2>1, <2>2, AdvanceAccount
  <2>4. Stack' /\ Outcome'
    BY <1>1, <1>2, <2>1, NoLoop DEF Outcome
  <2> QED BY <1>4, <2>3, <2>4 DEF PipeInv
<1>7. CASE keys # {}
  <2>1. step' = step /\ todo' = <<keys>>
    BY <1>2, <1>7
  <2>2. OnStep => Faithful(SoFar.e, s, entry', todo')
    <3> SUFFICES ASSUME OnStep PROVE Faithful(SoFar.e, s, entry', todo')
      OBVIOUS
    <3>1. entry' = SetPart(s, SetAttributes(s, SoFar.e), {}) /\ keys \ {} = keys
          /\ {} \in SUBSET keys
      BY <1>1, <1>2, <1>5
    <3>2. InSet(SoFar.e, s, entry', todo')
      <4> HIDE DEF set
      <4> QED BY <2>1, <3>1 DEF InSet
    <3> QED BY <1>1, <1>3, <1>7, <3>2 DEF Faithful
  <2>3. OnAccount'
    BY <1>1, <1>2, <2>1, <2>2, StayAccount
  <2>4. Stack' /\ Outcome'
    BY <1>1, <1>2, <2>1, LoopStack DEF Outcome
  <2> QED BY <1>4, <2>3, <2>4 DEF PipeInv
<1> QED BY <1>6, <1>7

LEMMA JsonInv ==
    ASSUME PipeInv, JsonStep
    PROVE  PipeInv'
<1> DEFINE s == ThisStep
           obj == Decode(Input(entry, s.from))
           keys == Keys(<<>>, 0, obj)
<1>1. /\ Position /\ OnAccount /\ Here /\ fate = "running" /\ owned /\ todo = <<>>
      /\ s.kind = "json" /\ IsAccount(SoFar) /\ AtStep("json")
      /\ OnStep => SoFar.fate = "running" /\ entry = SoFar.e /\ IsEntry(entry)
  BY AtStepIs DEF JsonStep
<1>2. CASE obj = NoMatch
  <2>1. Done(entry)
    BY <1>2, Zenon DEF JsonStep
  <2>2. OnStep => StepMeans(SoFar, s).fate = "running" /\ StepMeans(SoFar, s).e = entry
    BY <1>1, <1>2, StepMeansIs
  <2> QED BY <1>1, <2>1, <2>2, DoneInv
<1>3. CASE obj # NoMatch
  <2>1. Loop(entry, keys)
    BY <1>3, Zenon DEF JsonStep
  <2>2. /\ todo' = IF keys = {} THEN <<>> ELSE <<keys>>
        /\ step' = IF keys = {} THEN step + 1 ELSE step
        /\ entry' = entry /\ UNCHANGED <<pipelines, arrived, caller, owned, pl, fate>>
    BY <1>1, <2>1 DEF Loop, Write, UNCHANGED_Call
  <2>3. todo' = <<>> <=> keys = {}
    BY <2>2
  <2>4. Position'
    BY <1>1, <2>2, <2>3, LoopPosition
  <2>5. OnStep => Account(entry, obj, entry, keys)
    <3> SUFFICES ASSUME OnStep PROVE Account(entry, obj, entry, keys)
      OBVIOUS
    <3>1. Seen(entry, entry, obj, {}) /\ Closed(obj, {}, keys) /\ {} \in SUBSET AllKeys(obj)
      BY <1>1, SeenStart
    <3> QED BY <3>1 DEF Account
  <2>6. CASE keys = {}
    <3>1. step' = step + 1 /\ todo' = <<>>
      BY <2>2, <2>6
    <3>2. OnStep => \/ StepMeans(SoFar, s).fate = "any"
                    \/ /\ StepMeans(SoFar, s).fate = "running"
                       /\ entry' = StepMeans(SoFar, s).e
      <4> SUFFICES ASSUME OnStep, OrderFree(entry, obj)
                   PROVE  /\ StepMeans(SoFar, s).fate = "running"
                          /\ entry' = StepMeans(SoFar, s).e
        BY <1>1, <1>3, StepMeansIs
      <4>1. StepMeans(SoFar, s).fate = "running" /\ StepMeans(SoFar, s).e = JsonMeans(s, entry)
        BY <1>1, <1>3, StepMeansIs
      <4>2. Account(entry, obj, entry, {})
        BY <2>5, <2>6, Zenon
      <4>3. entry = JsonMeans(s, entry)
        BY <1>1, <1>3, <4>2, AccountDone
      <4> QED BY <2>2, <4>1, <4>3
    <3>3. OnAccount'
      BY <1>1, <2>2, <3>1, <3>2, AdvanceAccount
    <3>4. Stack' /\ Outcome'
      BY <1>1, <2>2, <3>1, NoLoop DEF Outcome
    <3> QED BY <2>4, <3>3, <3>4 DEF PipeInv
  <2>7. CASE keys # {}
    <3>1. step' = step /\ todo' = <<keys>>
      BY <2>2, <2>7
    <3>2. OnStep => Faithful(SoFar.e, s, entry', todo')
      <4> SUFFICES ASSUME OnStep PROVE Faithful(entry, s, entry, <<keys>>)
        BY <1>1, <2>2, <3>1
      <4>1. InJson(entry, s, entry, UNION Range(<<keys>>))
        <5>1. UNION Range(<<keys>>) = keys
          BY OneRange
        <5> QED BY <1>3, <2>5, <5>1, Zenon DEF InJson
      <4>2. <<keys>> # <<>>
        OBVIOUS
      <4> QED BY <1>1, <4>1, <4>2, Zenon DEF Faithful
    <3>3. OnAccount'
      BY <1>1, <2>2, <3>1, <3>2, StayAccount
    <3>4. Stack' /\ Outcome'
      <4>1. \A x \in keys : x.depth = 1
        BY KeyDepth DEF Top
      <4> HIDE DEF keys
      <4> QED BY <1>1, <2>2, <3>1, <4>1, LoopStack DEF Outcome
    <3> QED BY <2>4, <3>3, <3>4 DEF PipeInv
  <2> QED BY <2>6, <2>7
<1> QED BY <1>2, <1>3

\* A step in the middle of its loop.
LEMMA InLoopIs ==
    ASSUME PipeInv, NEW kind, InLoop(kind)
    PROVE  /\ Position /\ OnAccount /\ Stack /\ Here /\ fate = "running" /\ owned /\ todo # <<>>
           /\ ThisStep.kind = kind /\ IsAccount(SoFar)
           /\ todo \in Seq(SUBSET Pending) /\ Len(todo) \in 1 .. 3
           /\ todo[Len(todo)] \subseteq Pending
<1>1. /\ Position /\ OnAccount /\ Stack /\ fate = "running" /\ todo # <<>> /\ ThisStep.kind = kind
  BY DEF PipeInv, InLoop
<1>2. step \in 1 .. Len(pipelines[pl].steps) /\ step > 0
  BY <1>1 DEF Position
<1>3. owned /\ pl \in 1 .. Len(pipelines)
  BY <1>1, <1>2, AccountsHere DEF Position
<1>4. Here
  BY <1>2, <1>3 DEF Here
<1>5. IsAccount(SoFar)
  <2>1. step - 1 \in 0 .. Len(pipelines[pl].steps)
    BY <1>1, <1>2, <1>3, StepsHere
  <2> QED BY <1>1, <1>3, <2>1, StepsHere DEF SoFar
<1>6. todo \in Seq(SUBSET Pending) /\ Len(todo) <= 3
  BY <1>1 DEF Stack
<1>7. Len(todo) \in Nat \ {0} /\ todo[Len(todo)] \in SUBSET Pending
  BY <1>1, <1>6, FrontIs
<1>8. Len(todo) \in 1 .. 3
  <2>1. \A n \in Nat \ {0} : n <= 3 => n \in 1 .. 3
    OBVIOUS
  <2> QED BY <1>6, <1>7, <2>1, Zenon
<1>9. todo[Len(todo)] \subseteq Pending
  BY <1>7
<1> QED BY <1>1, <1>3, <1>4, <1>5, <1>6, <1>8, <1>9, Zenon

\* The stack after a visit keeps its shape.
LEMMA VisitStack ==
    ASSUME PipeInv, NEW kind, InLoop(kind), kind \in {"json", "set"},
           NEW item \in todo[Len(todo)], NEW inner, todo' = Rest(item, inner),
           UNCHANGED <<pipelines, pl>>, todo' # <<>> => step' = step,
           kind = "set" => inner = {},
           kind = "json" => inner = {} \/ (Opens(item) /\ inner = Inner(item))
    PROVE  Stack' /\ Pending' \subseteq Pending \cup inner /\ (Pending \ {item}) \cup inner \subseteq Pending'
<1> DEFINE n == Len(todo)
           S == Pending \cup inner
           r == Rest(item, inner)
<1>1. /\ todo \in Seq(SUBSET Pending) /\ n \in 1 .. 3 /\ todo # <<>> /\ Stack
      /\ ThisStep.kind = kind
  BY InLoopIs
<1>2. todo \in Seq(SUBSET S)
  BY <1>1
<1>3. /\ r \in Seq(SUBSET S)
      /\ UNION Range(r) \subseteq Pending \cup inner
      /\ (Pending \ {item}) \cup inner \subseteq UNION Range(r)
      /\ Len(r) <= n + 1
      /\ inner = {} => Len(r) <= n
      /\ \A i \in 1 .. Len(r) :
            \/ i <= n /\ r[i] \subseteq todo[i]
            \/ i <= n + 1 /\ r[i] = inner
  BY <1>1, <1>2, RestIs
<1>4. Pending' = UNION Range(r)
  BY DEF Pending
<1>5. r \in Seq(SUBSET Pending') /\ Len(r) \in Nat /\ DOMAIN r = 1 .. Len(r)
  <2> HIDE DEF r, S
  <2>1. Len(r) \in Nat /\ DOMAIN r = 1 .. Len(r)
    BY <1>3
  <2>2. r \in Seq(SUBSET (UNION Range(r)))
    BY <1>3, StackOf
  <2> QED BY <1>4, <2>1, <2>2
<1>6. todo' # <<>> => ThisStep' = ThisStep
  BY DEF ThisStep
<1> HIDE DEF r
<1>7. CASE kind = "set"
  <2>1. Len(r) <= n /\ n <= 1
    BY <1>1, <1>3, <1>7 DEF Stack
  <2>2. Len(r) <= 3 /\ Len(r) <= 1
    BY <1>1, <1>5, <2>1
  <2>3. todo' # <<>> => ThisStep'.kind = "set"
    BY <1>1, <1>6, <1>7
  <2>4. Stack'
    BY <1>5, <2>2, <2>3 DEF Stack, r
  <2> QED BY <1>3, <1>4, <2>4
<1>8. CASE kind = "json"
  <2>1. \A i \in 1 .. n : \A x \in todo[i] : x.depth \in Nat /\ i <= x.depth
    BY <1>1, <1>8 DEF Stack
  <2>2. item.depth \in Nat /\ n <= item.depth
    BY <1>1, <2>1
  <2>3. inner # {} => item.depth < 3 /\ \A x \in inner : x.depth = item.depth + 1
    BY <1>8, InnerDepth DEF Opens
  <2>4. Len(r) <= 3
    BY <1>1, <1>3, <1>5, <2>2, <2>3
  <2>5. ASSUME NEW i \in 1 .. Len(r), NEW x \in r[i] PROVE x.depth \in Nat /\ i <= x.depth
    <3>1. CASE i <= n /\ r[i] \subseteq todo[i]
      <4>1. i \in 1 .. n
        BY <1>1, <1>5, <3>1
      <4> QED BY <2>1, <3>1, <4>1
    <3>2. CASE i <= n + 1 /\ r[i] = inner
      <4>1. x.depth = item.depth + 1
        BY <2>3, <3>2
      <4> QED BY <1>1, <1>5, <2>2, <3>2, <4>1
    <3> QED BY <1>3, <3>1, <3>2
  <2>6. todo' # <<>> => ThisStep'.kind = "json"
    BY <1>1, <1>6, <1>8
  <2>7. Stack'
    BY <1>5, <2>4, <2>5, <2>6 DEF Stack, r
  <2> QED BY <1>3, <1>4, <2>7
<1> QED BY <1>7, <1>8

LEMMA VisitIs ==
    ASSUME VisitKey
    PROVE  InLoop("json") /\ \E item \in todo[Len(todo)] :
              Visited(VisitOf(entry, item), item, InnerOf(entry, item))
<1>1. PICK item \in todo[Len(todo)] :
         LET v == item.value IN
         CASE IsMessage(item) -> Visited([entry EXCEPT !.msg = v.text], item, {})
           [] IsLevel(item) -> Visited(WithLevel(entry, v.text), item, {})
           [] Entered(entry, item) -> Visited(entry, item, Keys(item.path, item.depth, v.keys))
           [] OTHER -> Visited(Flattened(entry, item.path, v), item, {})
  BY Zenon DEF VisitKey
<1>2. ~(IsMessage(item) /\ IsLevel(item))
  BY DEF IsMessage, IsLevel, MsgKeys, LevelKeys
<1>3. ~(IsMessage(item) /\ Entered(entry, item)) /\ ~(IsLevel(item) /\ Entered(entry, item))
  BY DEF IsMessage, IsLevel, Entered, Opens
<1>4. Visited(VisitOf(entry, item), item, InnerOf(entry, item))
  <2>1. CASE IsMessage(item)
    <3>1. /\ VisitOf(entry, item) = [entry EXCEPT !.msg = item.value.text]
          /\ InnerOf(entry, item) = {}
      BY <2>1, Zenon DEF VisitOf, InnerOf
    <3>2. Visited([entry EXCEPT !.msg = item.value.text], item, {})
      BY <1>1, <1>2, <1>3, <2>1
    <3> QED BY <3>1, <3>2, Zenon
  <2>2. CASE ~IsMessage(item) /\ IsLevel(item)
    <3>1. VisitOf(entry, item) = WithLevel(entry, item.value.text) /\ InnerOf(entry, item) = {}
      BY <2>2, Zenon DEF VisitOf, InnerOf
    <3>2. Visited(WithLevel(entry, item.value.text), item, {})
      BY <1>1, <1>3, <2>2
    <3> QED BY <3>1, <3>2, Zenon
  <2>3. CASE ~IsMessage(item) /\ ~IsLevel(item) /\ Entered(entry, item)
    <3>1. VisitOf(entry, item) = entry /\ InnerOf(entry, item) = Inner(item)
      BY <2>3, Zenon DEF VisitOf, InnerOf
    <3>2. Visited(entry, item, Inner(item))
      BY <1>1, <2>3 DEF Inner
    <3> QED BY <3>1, <3>2, Zenon
  <2>4. CASE ~IsMessage(item) /\ ~IsLevel(item) /\ ~Entered(entry, item)
    <3>1. /\ VisitOf(entry, item) = Flattened(entry, item.path, item.value)
          /\ InnerOf(entry, item) = {}
      BY <2>4, Zenon DEF VisitOf, InnerOf
    <3>2. Visited(Flattened(entry, item.path, item.value), item, {})
      BY <1>1, <2>4
    <3> QED BY <3>1, <3>2, Zenon
  <2> QED BY <2>1, <2>2, <2>3, <2>4
<1> QED BY <1>4 DEF VisitKey

LEMMA VisitInv ==
    ASSUME PipeInv, VisitKey
    PROVE  PipeInv'
<1>1. PICK item \in todo[Len(todo)] : Visited(VisitOf(entry, item), item, InnerOf(entry, item))
  BY VisitIs
<1> DEFINE s == ThisStep
           inner == InnerOf(entry, item)
           e == VisitOf(entry, item)
<1>2. /\ Position /\ OnAccount /\ Stack /\ Here /\ fate = "running" /\ owned /\ todo # <<>>
      /\ s.kind = "json" /\ IsAccount(SoFar) /\ InLoop("json")
      /\ item \in Pending
  BY InLoopIs, VisitIs
<1>3. /\ todo' = Rest(item, inner) /\ entry' = e
      /\ step' = IF todo' = <<>> THEN step + 1 ELSE step
      /\ UNCHANGED <<pipelines, arrived, caller, owned, pl, fate>>
  BY <1>1, <1>2 DEF Visited, Write, UNCHANGED_Call
<1>4. Position'
  BY <1>2, <1>3, LoopPosition
<1>5. inner = {} \/ (Opens(item) /\ inner = Inner(item))
  BY DEF InnerOf, Entered
<1> HIDE DEF inner, e
<1>6. /\ Stack' /\ Pending' \subseteq Pending \cup inner
      /\ (Pending \ {item}) \cup inner \subseteq Pending'
  BY <1>2, <1>3, <1>5, VisitStack
<1>7. Outcome'
  BY <1>2, <1>3 DEF Outcome
<1> DEFINE b == SoFar.e
           obj == Decode(Input(b, s.from))
<1>8. OnStep => /\ SoFar.fate = "running" /\ IsEntry(b) /\ obj # NoMatch
                /\ OrderFree(b, obj) => Account(b, obj, entry, Pending)
  BY <1>2 DEF OnStep, Faithful, InJson, IsAccount, Pending
<1>9. OnStep => (OrderFree(b, obj) => Account(b, obj, entry', Pending'))
  <2> SUFFICES ASSUME OnStep, OrderFree(b, obj) PROVE Account(b, obj, entry', Pending')
    OBVIOUS
  <2>1. Account(b, obj, entry, Pending)
    BY <1>8
  <2> HIDE DEF b, obj
  <2> QED BY <1>2, <1>3, <1>6, <2>1, VisitAccount DEF inner, e
<1>10. CASE todo' = <<>>
  <2>1. Pending' = {}
    BY <1>10, NoRange DEF Pending
  <2>2. OnStep => \/ StepMeans(SoFar, s).fate = "any"
                  \/ /\ StepMeans(SoFar, s).fate = "running"
                     /\ entry' = StepMeans(SoFar, s).e
    <3> SUFFICES ASSUME OnStep, OrderFree(b, obj)
                 PROVE  StepMeans(SoFar, s).fate = "running" /\ entry' = StepMeans(SoFar, s).e
      BY <1>2, <1>8, StepMeansIs
    <3>1. StepMeans(SoFar, s).fate = "running" /\ StepMeans(SoFar, s).e = JsonMeans(s, b)
      BY <1>2, <1>8, StepMeansIs
    <3>2. Account(b, obj, entry', {})
      BY <1>9, <2>1
    <3>3. entry' = JsonMeans(s, b)
      BY <1>8, <3>2, AccountDone
    <3> QED BY <3>1, <3>3
  <2>3. OnAccount'
    BY <1>2, <1>3, <1>10, <2>2, AdvanceAccount
  <2> QED BY <1>4, <1>6, <1>7, <2>3 DEF PipeInv
<1>11. CASE todo' # <<>>
  <2>1. OnStep => Faithful(b, s, entry', todo')
    <3> SUFFICES ASSUME OnStep PROVE Faithful(b, s, entry', todo')
      OBVIOUS
    <3>1. InJson(b, s, entry', UNION Range(todo'))
      BY <1>8, <1>9 DEF InJson, Pending
    <3> QED BY <1>2, <1>11, <3>1 DEF Faithful
  <2>2. OnAccount'
    BY <1>2, <1>3, <1>11, <2>1, StayAccount
  <2> QED BY <1>4, <1>6, <1>7, <2>2 DEF PipeInv
<1> QED BY <1>10, <1>11

\* One field of a set step.
LEMMA SetFieldInv ==
    ASSUME PipeInv, SetField
    PROVE  PipeInv'
<1> DEFINE s == ThisStep
           keys == DOMAIN s.fields
<1>1. PICK k \in todo[1] :
         Visited(IF Resolves(s.fields[k], entry)
                 THEN Stored(entry, k, Resolve(s.fields[k], entry)) ELSE entry, k, {})
  BY Zenon DEF SetField
<1> DEFINE e == IF Resolves(s.fields[k], entry)
                THEN Stored(entry, k, Resolve(s.fields[k], entry)) ELSE entry
<1>2. /\ Position /\ OnAccount /\ Stack /\ Here /\ fate = "running" /\ owned /\ todo # <<>>
      /\ s.kind = "set" /\ IsAccount(SoFar) /\ InLoop("set")
      /\ Len(todo) \in 1 .. 3
  BY InLoopIs DEF SetField
<1>3. Len(todo) = 1
  <2>1. \A n \in 1 .. 3 : n <= 1 => n = 1
    OBVIOUS
  <2>2. Len(todo) <= 1
    BY <1>2 DEF Stack
  <2> QED BY <1>2, <2>1, <2>2, Zenon
<1>4. /\ todo' = Rest(k, {}) /\ entry' = e
      /\ step' = IF todo' = <<>> THEN step + 1 ELSE step
      /\ UNCHANGED <<pipelines, arrived, caller, owned, pl, fate>>
  BY <1>1, <1>2 DEF Visited, Write, UNCHANGED_Call
<1> HIDE DEF e
<1>5. Position'
  BY <1>2, <1>4, LoopPosition
<1>6. Stack'
  <2>1. k \in todo[Len(todo)]
    BY <1>3
  <2> QED BY <1>2, <1>4, <2>1, VisitStack
<1>7. Outcome'
  BY <1>2, <1>4 DEF Outcome
<1> DEFINE b == SoFar.e
           set == SetAttributes(s, b)
<1>8. ASSUME OnStep, Independent(s)
      PROVE  \E W \in SUBSET keys : /\ todo' = IF keys \ W = {} THEN <<>> ELSE <<keys \ W>>
                                    /\ entry' = SetPart(s, set, W)
  <2>1. PICK V \in SUBSET keys : todo = <<keys \ V>> /\ entry = SetPart(s, set, V)
    BY <1>2, <1>8, Zenon DEF OnStep, Faithful, InSet
  <2>2. k \in keys /\ k \notin V
    BY <2>1
  <2>3. IsEntry(set)
    BY <1>2, SetAttributesEntry DEF IsAccount
  <2>4. entry' = SetPart(s, set, V \cup {k})
    <3>1. V \subseteq keys
      OBVIOUS
    <3> HIDE DEF set
    <3>2. k \in DOMAIN ThisStep.fields /\ Independent(ThisStep) /\ V \subseteq DOMAIN ThisStep.fields
      BY <1>8, <2>2, <3>1
    <3>3. \A d : d = SetPart(ThisStep, set, V) =>
             SetPart(ThisStep, set, V \cup {k}) =
               IF Resolves(ThisStep.fields[k], d) THEN Stored(d, k, Resolve(ThisStep.fields[k], d))
               ELSE d
      BY <2>3, <3>2, SetVisit
    <3>4. SetPart(s, set, V \cup {k}) = e
      BY <2>1, <3>3, Zenon DEF e
    <3> QED BY <1>4, <3>4
  <2>5. todo' = IF keys \ (V \cup {k}) = {} THEN <<>> ELSE <<keys \ (V \cup {k})>>
    <3>1. Front(<<keys \ V>>) = <<>>
      BY DEF Front
    <3>2. (keys \ V) \ {k} = keys \ (V \cup {k})
      OBVIOUS
    <3> DEFINE left == keys \ (V \cup {k})
    <3>3. Append(<<>>, left) = <<left>>
      OBVIOUS
    <3>4. todo[Len(todo)] = keys \ V /\ Front(todo) = <<>>
      BY <1>3, <2>1, <3>1
    <3>5. Rest(k, {}) = IF left = {} THEN <<>> ELSE Append(<<>>, left)
      BY <3>2, <3>4, Zenon DEF Rest
    <3> HIDE DEF left
    <3>6. todo' = IF left = {} THEN <<>> ELSE <<left>>
      BY <1>4, <3>3, <3>5
    <3> QED BY <3>6 DEF left
  <2>6. V \cup {k} \in SUBSET keys
    BY <2>2
  <2> QED BY <2>4, <2>5, <2>6
<1>9. OnStep => SoFar.fate = "running"
  BY DEF OnStep
<1>10. CASE todo' = <<>>
  <2>1. OnStep => \/ StepMeans(SoFar, s).fate = "any"
                  \/ /\ StepMeans(SoFar, s).fate = "running"
                     /\ entry' = StepMeans(SoFar, s).e
    <3> SUFFICES ASSUME OnStep, Independent(s)
                 PROVE  StepMeans(SoFar, s).fate = "running" /\ entry' = StepMeans(SoFar, s).e
      BY <1>2, <1>9, StepMeansIs
    <3>1. StepMeans(SoFar, s).fate = "running" /\ StepMeans(SoFar, s).e = SetMeans(s, b)
      BY <1>2, <1>9, StepMeansIs
    <3>2. PICK W \in SUBSET keys : /\ todo' = IF keys \ W = {} THEN <<>> ELSE <<keys \ W>>
                                   /\ entry' = SetPart(s, set, W)
      BY <1>8
    <3>3. W = keys
      <4>1. <<keys \ W>> # <<>>
        OBVIOUS
      <4>2. keys \ W = {}
        BY <1>10, <3>2, <4>1, Zenon
      <4> QED BY <4>2
    <3>4. SetMeans(s, b) = SetPart(s, set, keys)
      BY SetMeansPart
    <3> QED BY <3>1, <3>2, <3>3, <3>4
  <2>2. OnAccount'
    BY <1>2, <1>4, <1>10, <2>1, AdvanceAccount
  <2> QED BY <1>5, <1>6, <1>7, <2>2 DEF PipeInv
<1>11. CASE todo' # <<>>
  <2>1. OnStep => Faithful(b, s, entry', todo')
    <3> SUFFICES ASSUME OnStep, Independent(s) PROVE InSet(b, s, entry', todo')
      BY <1>2, <1>11, Zenon DEF Faithful, InSet
    <3>1. PICK W \in SUBSET keys : /\ todo' = IF keys \ W = {} THEN <<>> ELSE <<keys \ W>>
                                   /\ entry' = SetPart(s, set, W)
      BY <1>8
    <3>2. todo' = <<keys \ W>>
      BY <1>11, <3>1
    <3> QED BY <3>1, <3>2, Zenon DEF InSet
  <2>2. OnAccount'
    BY <1>2, <1>4, <1>11, <2>1, StayAccount
  <2> QED BY <1>5, <1>6, <1>7, <2>2 DEF PipeInv
<1> QED BY <1>10, <1>11

LEMMA PipeNextInv == PipeInv /\ [PipeNext]_pipeVars => PipeInv'
<1> SUFFICES ASSUME PipeInv, [PipeNext]_pipeVars PROVE PipeInv'
  OBVIOUS
<1>1. CASE PipeNext
  BY <1>1, SkipInv, EnterInv, LeaveInv, ForwardInv, PatternInv, SeverityInv, SetInv, DropInv,
     JsonInv, SetFieldInv, VisitInv DEF PipeNext
<1>2. CASE UNCHANGED pipeVars
  <2>1. /\ UNCHANGED <<pipelines, caller, arrived, entry, owned, pl, step, todo, fate>>
        /\ AfterPipelines' = AfterPipelines
    BY <1>2, Kept DEF pipeVars
  <2>2. Before' = Before /\ Meaning' = Meaning /\ ThisStep' = ThisStep /\ Pending' = Pending
    BY <2>1 DEF Before, Meaning, ThisStep, Pending
  <2>3. SoFar' = SoFar
    BY <2>1, <2>2 DEF SoFar
  <2>4. Position' /\ Stack' /\ Outcome'
    BY <2>1, <2>2 DEF PipeInv, Position, Stack, Outcome
  <2>5. OnAccount'
    BY <2>1, <2>2, <2>3 DEF PipeInv, OnAccount
  <2> QED BY <2>4, <2>5 DEF PipeInv
<1> QED BY <1>1, <1>2

LEMMA PipeInvariance == PipeSafety => []PipeInv
BY PipeInitInv, PipeNextInv, PTL DEF PipeSafety

\* The engine's place in the pipelines is always one of theirs, and the loops
\* under way never nest deeper than the three levels flatten enters, whatever
\* the JSON decoder answers.
THEOREM PipelineTypeCorrect == PipeSafety => []PipeTypeOK
<1>1. PipeInv => PipeTypeOK
  <2> SUFFICES ASSUME PipeInv PROVE PipeTypeOK
    OBVIOUS
  <2>1. Position /\ Len(todo) <= 3
    BY DEF PipeInv, Stack
  <2> QED BY <2>1 DEF Position, PipeTypeOK
<1> QED BY <1>1, PipeInvariance, PTL

\* For any configuration and any entry, and whatever the patterns and the JSON
\* decoder answer: the caller's map is never written, and the entry that comes
\* out of the engine (or its drop) is the one the steps mean, in whatever order
\* Go's maps were visited, unless a step's outcome depends on that order.
THEOREM PipelineExactHolds == PipeSafety => []PipelineExact
<1>1. PipeInv => PipelineExact
  <2> SUFFICES ASSUME PipeInv, fate # "running", Meaning.fate # "any"
               PROVE  /\ (fate = "dropped") = (Meaning.fate = "dropped")
                      /\ fate = "forwarded" => entry = Meaning.e
    BY DEF PipelineExact, PipeInv, Position
  <2>1. \/ fate = "dropped" /\ Meaning.fate = "dropped"
        \/ fate = "forwarded" /\ Meaning = [e |-> entry, fate |-> "running"]
    BY DEF PipeInv, Outcome
  <2> QED BY <2>1
<1> QED BY <1>1, PipeInvariance, PTL
=============================================================================
