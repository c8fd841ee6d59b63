------------------------------- MODULE Server -------------------------------
(***************************************************************************)
(* The server's life: run() in cmd/logdoc opens the listeners one by one,  *)
(* waits for a signal or for the HTTP server to fail, shuts the listeners  *)
(* down in order under one deadline, and then its deferred calls close the *)
(* consumers of the ingest path. Handlers (connections, packet loops,      *)
(* requests, plugin streams) run all the while: each turns what it reads   *)
(* into an entry and hands it to every consumer of the fanout in turn, or  *)
(* logs what is wrong with it. The server's own log records come back      *)
(* through selfSink to three of the consumers, from the handlers and from  *)
(* the goroutines of the consumers themselves.                             *)
(* The batcher behind the first consumer is specified in EntryLedger: here *)
(* it is only open or closed, and a send to a closed one ends the process. *)
(***************************************************************************)
EXTENDS Integers, Sequences, SequencesExt, FiniteSets

CONSTANTS
    Handlers,    \* goroutines that feed the consumers: pairs <<owner, kind>>
    MaxRecords   \* bound: records read from the network and records logged

\* What the listeners of the ingest package are to run(): the goroutines they
\* start ("conn": one per TCP connection, which outlives its listener; "packet":
\* the read loop of a UDP socket, which ends with it; "request": ends with its
\* answer), and whether their shutdown gives up when its context expires.
Native == [name |-> "native", kinds |-> {"conn", "packet"}, timed |-> TRUE]
Syslog == [name |-> "syslog", kinds |-> {"conn", "packet"}, timed |-> TRUE]
Journald == [name |-> "journald", kinds |-> {"packet"}, timed |-> FALSE]
Python == [name |-> "python", kinds |-> {"conn", "packet"}, timed |-> FALSE]
Otlp == [name |-> "otlp", kinds |-> {"request"}, timed |-> TRUE]
Http == [name |-> "http", kinds |-> {"request"}, timed |-> TRUE]

\* run() opens the listeners in this order and shuts them down in this order.
Opening == <<Native, Syslog, Journald, Python, Otlp, Http>>
Listeners == [i \in DOMAIN Opening |-> Opening[i].name]
Timed == {l.name : l \in {l \in ToSet(Opening) : l.timed}}

\* The goroutines that only log: those of the consumers, about a send or a write
\* that failed, for which Close waits ("log"); the one that copies a plugin's stderr
\* and the one that inserts the telemetry of a query, for which nobody waits.
Loggers == {<<"notifier", "log">>, <<"deploys", "log">>, <<"extractor", "log">>,
            <<"batcher", "log">>, <<"plugins", "stderr">>, <<"http", "telemetry">>}
Detached == {"stderr", "telemetry"}

\* Source plugins stream over a connection the plugin host cuts when it closes.
AllHandlers ==
    (UNION {{l.name} \X l.kinds : l \in ToSet(Opening)}) \cup {<<"plugins", "stream">>} \cup Loggers
Via(h) == h[1]
Kind(h) == h[2]

\* The deferred calls, last deferred first.
Deferred == <<"auth", "notifier", "plugins", "deploys", "extractor", "graphStore",
              "batcher", "store">>

\* The receivers of fanout.Append in order. The hub is never closed.
Fanout == <<"batcher", "hub", "extractor", "deploys", "notifier">>

\* The receivers of selfSink.TryAppend in order.
SelfSink == <<"hub", "extractor", "batcher">>

\* A goroutine goes through the first part for an entry, the second for a log record.
Path == Fanout \o SelfSink
EntryStart == 2
LogStart == 2 + Len(Fanout)

NL == Len(Listeners)
ND == Len(Deferred)

ASSUME ServerAssumption ==
    Handlers \subseteq AllHandlers /\ MaxRecords \in Nat

VARIABLES
    phase,      \* "starting", "serving", "stopping", "deferred", "exited"
    at,         \* index of the listener or deferred call run() is at
    opened,     \* listeners (and plugins) that are or were accepting
    closed,     \* listeners and consumers that were told to close
    deadline,   \* shutdownCtx has expired
    handler,    \* handler[h]: 0 not running, 1 reading, 1 + i at receiver Path[i]
    send,       \* a notification send in flight: "none", "timed", "smtp"
    records,    \* records read so far
    runErr,     \* the error run() returns: "none", "listen", "http"
    abandoned,  \* listeners whose handlers outlived the deadline
    missed,     \* history: consumers that got an entry after their Close
    crashed     \* panic: send on closed channel

serverVars == <<phase, at, opened, closed, deadline, handler, send, records, runErr,
                abandoned, missed, crashed>>

ServerTypeOK ==
    /\ phase \in {"starting", "serving", "stopping", "deferred", "exited"}
    /\ at \in 1 .. NL + ND
    /\ opened \subseteq ToSet(Listeners) \cup {"plugins"}
    /\ closed \subseteq ToSet(Listeners) \cup ToSet(Deferred)
    /\ deadline \in BOOLEAN
    /\ handler \in [Handlers -> 0 .. 1 + Len(Path)]
    /\ send \in {"none", "timed", "smtp"}
    /\ records \in 0 .. MaxRecords
    /\ runErr \in {"none", "listen", "http"}
    /\ abandoned \subseteq Timed
    /\ missed \subseteq Handlers \X ToSet(Fanout)
    /\ crashed \in BOOLEAN

\* The consumers, the notifier and the plugins are started before the listeners.
ServerInit ==
    /\ phase = "starting" /\ at = 1
    /\ opened = {"plugins"} /\ closed = {}
    /\ deadline = FALSE
    /\ handler = [h \in Handlers |-> 0]
    /\ send = "none" /\ records = 0 /\ runErr = "none"
    /\ abandoned = {} /\ missed = {} /\ crashed = FALSE

\* A goroutine that the Close of l waits for is at work.
Running(l) == \E h \in Handlers : Via(h) = l /\ Kind(h) \notin Detached /\ handler[h] > 0

(***************************************************************************)
(* run()                                                                   *)
(***************************************************************************)

UNCHANGED_Handlers == UNCHANGED <<handler, send, records, missed, crashed>>

\* StartNative ... StartOTLP and the HTTP server, which opens its socket in a
\* goroutine: its failure comes back on errCh. The packet loop of a listener
\* starts with it. The one line that goroutine logs is taken as logged by then.
StartListener ==
    /\ phase = "starting"
    /\ opened' = opened \cup {Listeners[at]}
    /\ handler' = [h \in Handlers |-> IF Kind(h) = "packet" /\ Via(h) = Listeners[at]
                                      THEN 1 ELSE handler[h]]
    /\ phase' = IF at = NL THEN "serving" ELSE "starting"
    /\ at' = IF at = NL THEN 1 ELSE at + 1
    /\ UNCHANGED <<closed, deadline, send, records, runErr, abandoned, missed, crashed>>

\* A listener cannot open its address, or the HTTP server fails while it
\* serves: run returns the error, nobody stops the listeners that are open
\* already, and the deferred calls run.
ListenFails ==
    /\ phase \in {"starting", "serving"}
    /\ runErr' = "listen"
    /\ phase' = "deferred" /\ at' = 1
    /\ closed' = closed \cup {Deferred[1]}
    /\ UNCHANGED <<opened, deadline, abandoned>> /\ UNCHANGED_Handlers

Signal ==
    /\ phase = "serving"
    /\ phase' = "stopping" /\ at' = 1
    /\ closed' = closed \cup {Listeners[1]}
    /\ UNCHANGED <<opened, deadline, runErr, abandoned>> /\ UNCHANGED_Handlers

\* The 15 seconds of shutdownCtx are over.
Expire ==
    /\ phase = "stopping" /\ ~deadline
    /\ deadline' = TRUE
    /\ UNCHANGED <<phase, at, opened, closed, runErr, abandoned>> /\ UNCHANGED_Handlers

\* On to the next listener, whose Close is called, or to the deferred calls.
NextListener ==
    /\ phase' = IF at = NL THEN "deferred" ELSE "stopping"
    /\ at' = IF at = NL THEN 1 ELSE at + 1
    /\ closed' = closed \cup {IF at = NL THEN Deferred[1] ELSE Listeners[at + 1]}

\* Mutant: Shutdown closes the listener and does not wait for the handlers.
ListenerClosedAtOnce ==
    /\ phase = "stopping"
    /\ NextListener
    /\ UNCHANGED <<opened, deadline, runErr, abandoned>> /\ UNCHANGED_Handlers

\* Close returns: s.wg.Wait() found every handler of the listener gone.
ListenerClosed ==
    /\ phase = "stopping" /\ ~Running(Listeners[at])
    /\ NextListener
    /\ UNCHANGED <<opened, deadline, runErr, abandoned>> /\ UNCHANGED_Handlers

\* Mutant: the deadline only ends the shutdown of a listener that is idle.
ListenerAbandonedIdle ==
    /\ phase = "stopping" /\ deadline /\ Listeners[at] \in Timed /\ ~Running(Listeners[at])
    /\ NextListener
    /\ UNCHANGED <<opened, deadline, runErr, abandoned>> /\ UNCHANGED_Handlers

\* Shutdown gives up at the deadline. OTLP then stops the hard way, which cuts
\* its connections; http.Server.Shutdown makes run return an error.
ListenerAbandoned ==
    /\ phase = "stopping" /\ deadline /\ Listeners[at] \in Timed /\ Running(Listeners[at])
    /\ abandoned' = abandoned \cup {Listeners[at]}
    /\ handler' = [h \in Handlers |-> IF Listeners[at] = "otlp" /\ Via(h) = "otlp" /\ handler[h] = 1
                                      THEN 0 ELSE handler[h]]
    /\ runErr' = IF Listeners[at] = "http" THEN "http" ELSE runErr
    /\ NextListener
    /\ UNCHANGED <<opened, deadline, send, records, missed, crashed>>

\* A deferred Close returns when the goroutines it waits for are done: the plugin
\* host's supervisors, the loops of the batcher, the extractor and the detector
\* after their last flush, the notifier's sends. The next one starts.
DeferredClosed ==
    /\ phase = "deferred"
    /\ Deferred[at] = "notifier" => send = "none"
    /\ ~Running(Deferred[at])
    /\ phase' = IF at = ND THEN "exited" ELSE "deferred"
    /\ at' = IF at = ND THEN 1 ELSE at + 1
    /\ closed' = closed \cup {Deferred[IF at = ND THEN at ELSE at + 1]}
    /\ UNCHANGED <<opened, deadline, runErr, abandoned>> /\ UNCHANGED_Handlers

Main == StartListener \/ ListenFails \/ Signal \/ ListenerClosed \/ ListenerAbandoned \/ DeferredClosed

(***************************************************************************)
(* Handlers                                                                *)
(***************************************************************************)

UNCHANGED_Main == UNCHANGED <<phase, at, opened, closed, deadline, runErr, abandoned>>

\* A client connects, a request arrives, a source plugin is launched.
Connect(h) ==
    /\ handler[h] = 0 /\ Kind(h) \in {"conn", "request", "stream"}
    /\ Via(h) \in opened \ closed
    /\ handler' = [handler EXCEPT ![h] = 1]
    /\ UNCHANGED <<send, records, missed, crashed>> /\ UNCHANGED_Main

\* A record has come in: it becomes an entry, or the handler logs that it cannot
\* be read. A connection that is open stays open when its listener closes; a
\* closed socket and a cancelled plugin do not.
Receive(h) ==
    /\ handler[h] = 1 /\ records < MaxRecords /\ Kind(h) \notin Detached \cup {"log"}
    /\ Kind(h) \in {"packet", "stream"} => Via(h) \notin closed
    /\ records' = records + 1
    /\ \E start \in {EntryStart, LogStart} : handler' = [handler EXCEPT ![h] = start]
    /\ UNCHANGED <<send, missed, crashed>> /\ UNCHANGED_Main

\* The consumers whose deferred Close has returned.
Returned == IF phase = "deferred" THEN {Deferred[i] : i \in 1 .. at - 1} ELSE {}

\* A request has queried the store: the telemetry is inserted on its own, which
\* takes up to five seconds.
StartTelemetry(h) ==
    /\ Kind(h) = "telemetry" /\ handler[h] = 0
    /\ \E g \in Handlers : Via(g) = Via(h) /\ Kind(g) = "request" /\ handler[g] = 1
    /\ handler' = [handler EXCEPT ![h] = 1]
    /\ UNCHANGED <<send, records, missed, crashed>> /\ UNCHANGED_Main

\* A goroutine of a consumer logs, in its last flush too: a failed insert, a
\* failed send. A line of a plugin's stderr may have been buffered before the
\* plugin ended; its goroutine logs it whenever it gets to run. A telemetry
\* insert has failed.
LogRecord(h) ==
    /\ records < MaxRecords
    /\ \/ Kind(h) = "log" /\ handler[h] = 0 /\ Via(h) \notin Returned
       \/ Kind(h) = "stderr" /\ handler[h] = 0
       \/ Kind(h) = "telemetry" /\ handler[h] = 1
    /\ records' = records + 1
    /\ handler' = [handler EXCEPT ![h] = LogStart]
    /\ UNCHANGED <<send, missed, crashed>> /\ UNCHANGED_Main

\* One receiver of the fanout or of the self sink. After the last one the handler
\* reads on; a request is answered and over, a log record is written.
Deliver(h) ==
    /\ handler[h] > 1
    /\ LET r == Path[handler[h] - 1] IN
          /\ crashed' = (r = "batcher" /\ r \in closed)
          /\ missed' = IF r \in closed THEN missed \cup {<<h, r>>} ELSE missed
    /\ handler' = [handler EXCEPT ![h] = IF @ \notin {LogStart - 1, 1 + Len(Path)} THEN @ + 1
                                         ELSE IF Kind(h) \in {"conn", "packet", "stream"} THEN 1 ELSE 0]
    /\ UNCHANGED <<send, records>> /\ UNCHANGED_Main

\* The client closes the connection, the stream breaks off, the telemetry is in.
HangUp(h) ==
    /\ handler[h] = 1 /\ Kind(h) # "packet"
    /\ handler' = [handler EXCEPT ![h] = 0]
    /\ UNCHANGED <<send, records, missed, crashed>> /\ UNCHANGED_Main

\* A read fails because its socket was closed or its plugin cancelled.
ReadFails(h) ==
    /\ handler[h] = 1 /\ Via(h) \in closed
    /\ Kind(h) \in {"packet", "stream"}
    /\ handler' = [handler EXCEPT ![h] = 0]
    /\ UNCHANGED <<send, records, missed, crashed>> /\ UNCHANGED_Main

\* Engine.dispatch starts a send. Telegram, webhook, Kafka and plugin sends obey
\* the context they get; Email.Send ignores it and lasts as long as its server.
StartSend(kind) ==
    /\ send = "none" /\ "notifier" \notin closed
    /\ send' = kind
    /\ UNCHANGED <<handler, records, missed, crashed>> /\ UNCHANGED_Main

EndSend ==
    /\ send # "none"
    /\ send' = "none"
    /\ UNCHANGED <<handler, records, missed, crashed>> /\ UNCHANGED_Main

ServerNext ==
    /\ ~crashed /\ phase # "exited"
    /\ \/ Main \/ Expire \/ EndSend
       \/ \E kind \in {"timed", "smtp"} : StartSend(kind)
       \/ \E h \in Handlers : 
             \/ Connect(h) \/ Receive(h) \/ StartTelemetry(h) \/ LogRecord(h)
             \/ Deliver(h) \/ HangUp(h) \/ ReadFails(h)

ServerSafety == ServerInit /\ [][ServerNext]_serverVars

\* The process runs, time passes, sends with a context end. Peers owe nothing:
\* no fairness for Connect, Receive, HangUp or the end of an SMTP dialogue.
Alive(A) == ~crashed /\ phase # "exited" /\ A

ServerFairness ==
    /\ WF_serverVars(Alive(StartListener \/ ListenerClosed \/ ListenerAbandoned \/ DeferredClosed))
    /\ WF_serverVars(Alive(Expire))
    /\ WF_serverVars(Alive(send = "timed" /\ EndSend))
    /\ \A h \in Handlers : WF_serverVars(Alive(Deliver(h) \/ ReadFails(h)))

(***************************************************************************)
(* Properties                                                              *)
(***************************************************************************)

\* What may reach a consumer after its Close even then: entries of a plugin that
\* still streams when the notifier closes; log records of the goroutines nobody
\* waits for, although "Close stops every plugin ... and waits" (plugins.go:121) and
\* an error of the telemetry "is only logged" (query.go:110); and the record about a
\* write that failed in the last flush of the extractor or the batcher, which comes
\* back to the very consumer that closes.
Late ==
    {<<<<"plugins", "stream">>, "notifier">>, <<<<"extractor", "log">>, "extractor">>}
    \cup {<<"plugins", "stderr">>, <<"http", "telemetry">>, <<"batcher", "log">>}
             \X {"extractor", "batcher"}

\* When every listener was drained before the deadline, no entry that a handler
\* read and no record that it logged reaches a consumer after its Close: each is
\* there for the last flush ("flush the remaining tail before closing the store").
\* What does come after is in Late, and a panic, which may cost the tail, comes
\* from no other send than one of these to the batcher.
DrainedStopLosesNothing ==
    abandoned = {} /\ runErr # "listen" =>
       /\ missed \subseteq Late
       /\ crashed => \E h \in Handlers : <<h, "batcher">> \in missed

PythonHolds == phase = "stopping" /\ Listeners[at] = "python" /\ Running("python")
SmtpHolds == phase = "deferred" /\ Deferred[at] = "notifier" /\ send = "smtp"

\* A shutdown that has begun comes to an end (exit or panic) whatever the
\* peers do, with two exceptions, both without a deadline in the code: a Python
\* client that keeps its connection open and an SMTP server that keeps Email.Send.
StopEnds ==
    \/ phase \in {"stopping", "deferred"} ~> (phase = "exited" \/ crashed)
    \/ <>[]PythonHolds
    \/ <>[]SmtpHolds
=============================================================================
