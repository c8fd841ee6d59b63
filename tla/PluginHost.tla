----------------------------- MODULE PluginHost -----------------------------
(***************************************************************************)
(* Plugin supervision (internal/plugins/plugins.go): one goroutine per     *)
(* configured plugin launches the executable, shakes hands, serves it      *)
(* until the run ends, and starts it again after a backoff.                *)
(*                                                                         *)
(* A step of supervise and runOnce is one blocking call and what follows   *)
(* it up to the next one. The child process, its gRPC server and the sink  *)
(* of a source's entries are external.                                     *)
(***************************************************************************)
EXTENDS Integers, FiniteSets

CONSTANTS
    Sources,        \* plugins of kind source
    Pipes,          \* plugins of kind pipe
    BackoffMin,     \* backoffMin
    BackoffMax,     \* backoffMax
    MaxFaults       \* bound: crashes, failed calls and timeouts

Plugins == Sources \cup Pipes

ASSUME PluginAssumption ==
    /\ Sources \cap Pipes = {}
    /\ BackoffMin \in Nat \ {0} /\ BackoffMax \in Nat
    /\ BackoffMin <= BackoffMax
    /\ MaxFaults \in Nat

VARIABLES
    at,         \* plugin -> where its supervising goroutine is
    child,      \* plugin -> the process: "none" | "alive" | "dead" (not yet waited for)
    strays,     \* ghost: plugin -> processes started earlier and never waited for
    client,     \* plugin -> p.client is set
    backoff,    \* plugin -> supervise's backoff
    shorts,     \* ghost: plugin -> runs ended since the last long one
    cancelled,  \* h.ctx is cancelled
    closeReturned,
    faults      \* faults counted against MaxFaults

vars == <<at, child, strays, client, backoff, shorts, cancelled, closeReturned, faults>>

Places == {"launch", "handshake", "describe", "configure", "serve", "append",
           "unpublish", "reap", "exited", "wait", "returned"}

Smaller(m, n) == IF m < n THEN m ELSE n

-----------------------------------------------------------------------------
\* New prepares the plugins and Start gives each its goroutine.
Init ==
    /\ at = [p \in Plugins |-> "launch"]
    /\ child = [p \in Plugins |-> "none"]
    /\ strays = [p \in Plugins |-> 0]
    /\ client = [p \in Plugins |-> FALSE]
    /\ backoff = [p \in Plugins |-> BackoffMin]
    /\ shorts = [p \in Plugins |-> 0]
    /\ cancelled = FALSE /\ closeReturned = FALSE /\ faults = 0

Go(p, place) == at' = [at EXCEPT ![p] = place]

\* A step is forced to fail, or it fails by a fault of the environment.
Fails(forced) ==
    IF forced THEN UNCHANGED faults ELSE faults < MaxFaults /\ faults' = faults + 1

\* The plugin's process ends by itself.
Crash(p) ==
    /\ child[p] = "alive" /\ faults < MaxFaults
    /\ child' = [child EXCEPT ![p] = "dead"]
    /\ faults' = faults + 1
    /\ UNCHANGED <<at, strays, client, backoff, shorts, cancelled, closeReturned>>

\* exec.CommandContext kills the process of a cancelled context.
Killed(p) ==
    /\ child[p] = "alive" /\ cancelled
    /\ child' = [child EXCEPT ![p] = "dead"]
    /\ UNCHANGED <<at, strays, client, backoff, shorts, cancelled, closeReturned, faults>>

\* cmd.Start
Launch(p) ==
    /\ at[p] = "launch" /\ ~cancelled
    /\ child' = [child EXCEPT ![p] = "alive"]
    /\ strays' = [strays EXCEPT ![p] = IF child[p] = "none" THEN @ ELSE @ + 1]
    /\ Go(p, "handshake")
    /\ UNCHANGED <<client, backoff, shorts, cancelled, closeReturned, faults>>

\* cmd.Start fails, as it does under a cancelled context: nothing to clean up.
LaunchFails(p) ==
    /\ at[p] = "launch"
    /\ Fails(cancelled)
    /\ Go(p, "exited")
    /\ UNCHANGED <<child, strays, client, backoff, shorts, cancelled, closeReturned>>

\* readHandshake, describe and Configure succeed against a live process; the
\* connection is published once Configure has returned.
SetUp(p) ==
    /\ child[p] = "alive" /\ ~cancelled
    /\ \/ at[p] = "handshake" /\ Go(p, "describe") /\ UNCHANGED client
       \/ /\ at[p] = "describe"
          /\ Go(p, IF p \in Sources THEN "serve" ELSE "configure")
          /\ UNCHANGED client
       \/ /\ at[p] = "configure"
          /\ Go(p, "serve")
          /\ client' = [client EXCEPT ![p] = TRUE]
    /\ UNCHANGED <<child, strays, backoff, shorts, cancelled, closeReturned, faults>>

\* Mutant: runOnce returns from a failed set-up step without its deferred clean-up.
SetUpFailsNoDefer(p) ==
    /\ at[p] \in {"handshake", "describe", "configure"}
    /\ Fails(cancelled \/ child[p] = "dead")
    /\ Go(p, "exited")
    /\ UNCHANGED <<child, strays, client, backoff, shorts, cancelled, closeReturned>>

\* Any of the three fails: a bad line, a wrong kind, an error or a timeout.
SetUpFails(p) ==
    /\ at[p] \in {"handshake", "describe", "configure"}
    /\ Fails(cancelled \/ child[p] = "dead")
    /\ Go(p, "reap")
    /\ UNCHANGED <<child, strays, client, backoff, shorts, cancelled, closeReturned>>

\* runSource: stream.Recv returns an entry and app.Append is called with it.
Receive(p) ==
    /\ p \in Sources /\ at[p] = "serve" /\ child[p] = "alive" /\ ~cancelled
    /\ Go(p, "append")
    /\ UNCHANGED <<child, strays, client, backoff, shorts, cancelled, closeReturned, faults>>

\* Append returns; it may wait for the batcher and does not look at the context.
Appended(p) ==
    /\ at[p] = "append"
    /\ Go(p, "serve")
    /\ UNCHANGED <<child, strays, client, backoff, shorts, cancelled, closeReturned, faults>>

\* Mutant: the stream of a dead process is not an error.
StreamEndsOnCancel(p) ==
    /\ p \in Sources /\ at[p] = "serve" /\ cancelled
    /\ Go(p, "reap")
    /\ UNCHANGED <<child, strays, client, backoff, shorts, cancelled, closeReturned, faults>>

\* stream.Recv returns an error: the process is dead, the context is
\* cancelled, or the plugin ended the stream.
StreamEnds(p) ==
    /\ p \in Sources /\ at[p] = "serve"
    /\ Fails(cancelled \/ child[p] = "dead")
    /\ Go(p, "reap")
    /\ UNCHANGED <<child, strays, client, backoff, shorts, cancelled, closeReturned>>

\* A pipe's run waits for <-ctx.Done(), which only the host cancels.
PipeEnds(p) ==
    /\ p \in Pipes /\ at[p] = "serve" /\ cancelled
    /\ Go(p, "unpublish")
    /\ UNCHANGED <<child, strays, client, backoff, shorts, cancelled, closeReturned, faults>>

\* Deferred calls, last one first: p.client = nil and conn.Close ...
Unpublish(p) ==
    /\ at[p] = "unpublish"
    /\ client' = [client EXCEPT ![p] = FALSE]
    /\ Go(p, "reap")
    /\ UNCHANGED <<child, strays, backoff, shorts, cancelled, closeReturned, faults>>

\* ... then stdin.Close, cancel (SIGKILL) and cmd.Wait.
Reap(p) ==
    /\ at[p] = "reap"
    /\ child' = [child EXCEPT ![p] = "none"]
    /\ Go(p, "exited")
    /\ UNCHANGED <<strays, client, backoff, shorts, cancelled, closeReturned, faults>>

\* Mutant: only a cancelled context seen during the backoff ends supervise.
ExitedRestarts(p) ==
    /\ at[p] = "exited"
    /\ \E long \in BOOLEAN :
        /\ backoff' = [backoff EXCEPT ![p] = IF long THEN BackoffMin ELSE @]
        /\ shorts' = [shorts EXCEPT ![p] = IF long THEN 0 ELSE @]
    /\ Go(p, "launch")
    /\ UNCHANGED <<child, strays, client, cancelled, closeReturned, faults>>

\* runOnce has returned: supervise ends if the host shuts down, and otherwise
\* resets the backoff after a run longer than stableAfter.
Exited(p) ==
    /\ at[p] = "exited"
    /\ IF cancelled
       THEN Go(p, "returned") /\ UNCHANGED <<backoff, shorts>>
       ELSE /\ Go(p, "wait")
            /\ \E long \in BOOLEAN :
                /\ backoff' = [backoff EXCEPT ![p] = IF long THEN BackoffMin ELSE @]
                /\ shorts' = [shorts EXCEPT ![p] = IF long THEN 0 ELSE @]
    /\ UNCHANGED <<child, strays, client, cancelled, closeReturned, faults>>

\* Mutant: the cap is compared before doubling, so one wait exceeds it.
WaitEndsUncapped(p) ==
    /\ at[p] = "wait"
    /\ backoff' = [backoff EXCEPT ![p] = IF @ < BackoffMax THEN @ * 2 ELSE @]
    /\ shorts' = [shorts EXCEPT ![p] = @ + 1]
    /\ Go(p, "launch")
    /\ UNCHANGED <<child, strays, client, cancelled, closeReturned, faults>>

\* time.After(backoff) fires, then backoff = min(backoff*2, backoffMax).
WaitEnds(p) ==
    /\ at[p] = "wait"
    /\ backoff' = [backoff EXCEPT ![p] = Smaller(@ * 2, BackoffMax)]
    /\ shorts' = [shorts EXCEPT ![p] = @ + 1]
    /\ Go(p, "launch")
    /\ UNCHANGED <<child, strays, client, cancelled, closeReturned, faults>>

\* The same select sees <-h.ctx.Done().
WaitCancelled(p) ==
    /\ at[p] = "wait" /\ cancelled
    /\ Go(p, "returned")
    /\ UNCHANGED <<child, strays, client, backoff, shorts, cancelled, closeReturned, faults>>

\* Close, first half: h.cancel().
Close ==
    /\ ~cancelled
    /\ cancelled' = TRUE
    /\ UNCHANGED <<at, child, strays, client, backoff, shorts, closeReturned, faults>>

\* Close, second half: h.wg.Wait() returns.
CloseReturns ==
    /\ cancelled /\ ~closeReturned
    /\ \A p \in Plugins : at[p] = "returned"
    /\ closeReturned' = TRUE
    /\ UNCHANGED <<at, child, strays, client, backoff, shorts, cancelled, faults>>

Ended == closeReturned /\ UNCHANGED vars

Supervise(p) ==
    \/ Launch(p) \/ LaunchFails(p) \/ SetUp(p) \/ SetUpFails(p)
    \/ Receive(p) \/ Appended(p) \/ StreamEnds(p) \/ PipeEnds(p)
    \/ Unpublish(p) \/ Reap(p) \/ Exited(p) \/ WaitEnds(p) \/ WaitCancelled(p)

Next ==
    \/ \E p \in Plugins : Supervise(p) \/ Crash(p) \/ Killed(p)
    \/ Close \/ CloseReturns \/ Ended

Safety == Init /\ [][Next]_vars

\* Every goroutine is scheduled, its blocking calls have timeouts, and the
\* batcher takes the entry a source is handing over.
Fairness == (\A p \in Plugins : WF_vars(Supervise(p))) /\ WF_vars(CloseReturns)

Spec == Safety /\ Fairness

-----------------------------------------------------------------------------
(* Properties *)

TypeOK ==
    /\ at \in [Plugins -> Places]
    /\ child \in [Plugins -> {"none", "alive", "dead"}]
    /\ strays \in [Plugins -> Nat]
    /\ client \in [Plugins -> BOOLEAN]
    /\ backoff \in [Plugins -> BackoffMin .. BackoffMax]
    /\ shorts \in [Plugins -> Nat]
    /\ cancelled \in BOOLEAN /\ closeReturned \in BOOLEAN
    /\ faults \in 0 .. MaxFaults

\* No run of runOnce, however it ends, leaves a process or a published
\* connection behind: none is started while an older one is not waited for,
\* and when Close has returned every plugin is gone.
NoStrayProcess ==
    \A p \in Plugins :
        /\ strays[p] = 0
        /\ at[p] \in {"launch", "exited", "wait", "returned"} =>
               child[p] = "none" /\ ~client[p]
        /\ closeReturned => child[p] = "none" /\ ~client[p]

\* The n-th wait after a long run lasts backoffMin doubled n times, capped at
\* backoffMax.
BackoffExact ==
    \A p \in Plugins :
        at[p] = "wait" => backoff[p] = Smaller(BackoffMin * 2^shorts[p], BackoffMax)

Restarts(p) ==
    (child[p] = "dead" /\ ~cancelled)
        ~> ((at[p] = "serve" /\ child[p] = "alive") \/ cancelled)

\* A source whose process has died is served by a new one, if faults do not go
\* on for ever and the host does not shut down.
CrashedSourceRestarts == \A p \in Sources : Restarts(p)

\* The package's promise for both kinds: "a crashed or disconnected plugin is
\* restarted with exponential backoff" (plugins.go, package comment).
CrashedPluginRestarts == \A p \in Plugins : Restarts(p)

\* Host.Close returns, whatever each plugin is doing when it is called.
HostCloseReturns == cancelled ~> closeReturned
=============================================================================
