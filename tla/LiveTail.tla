------------------------------ MODULE LiveTail ------------------------------
(***************************************************************************)
(* The live tail: tail.Hub hands every entry of the ingest path to the     *)
(* subscribers whose plan matches, and one WebSocket handler per           *)
(* subscriber writes them to its client. Ingest goroutines hold the hub's  *)
(* RWMutex for reading while they visit the subscribers; Subscribe and     *)
(* cancel take it for writing. A waiting writer keeps new readers out, as  *)
(* sync.RWMutex does.                                                      *)
(***************************************************************************)
EXTENDS Integers, Sequences, SequencesExt, FiniteSets

CONSTANTS
    Subs,              \* WebSocket clients
    Appenders,         \* ingest goroutines that call Hub.Append
    Plan,              \* Plan[s]: the tags the plan of s matches
    Tags,              \* what a plan can tell apart in an entry
    SubscriberBuffer,  \* subscriberBuffer of the code (1024)
    MaxTailed          \* bound: entries appended

ASSUME LiveTailAssumption ==
    /\ Tags # {} /\ Plan \in [Subs -> SUBSET Tags]
    /\ SubscriberBuffer \in Nat \ {0} /\ MaxTailed \in Nat

VARIABLES
    wsState,    \* wsState[s]: where the WebSocket handler of s is
    registered, \* Hub.subs
    tailCh,     \* tailCh[s]: the channel of s
    writing,    \* writing[s]: the entry conn.Write is busy with, or none
    readers,    \* goroutines that hold the read lock
    toVisit,    \* toVisit[a]: the subscribers the loop of a has not visited yet
    current,    \* current[a]: the entry a is appending
    tailed,     \* number of entries appended so far
    sent,       \* sent[s]: entries written to the client
    offered,    \* history: matching entries in visiting order, with what became of them
    tailPanic   \* a send on a closed channel ended the process

tailVars == <<wsState, registered, tailCh, writing, readers, toVisit, current,
              tailed, sent, offered, tailPanic>>

NoEntry == [id |-> 0, tag |-> CHOOSE t \in Tags : TRUE]
TailEntry == [id : 0 .. MaxTailed, tag : Tags]
WsStates == {"absent", "joining", "open", "writing", "leaving", "deleted", "closed"}

TailTypeOK ==
    /\ wsState \in [Subs -> WsStates]
    /\ registered \subseteq Subs
    /\ tailCh \in [Subs -> Seq(TailEntry)]
    /\ \A s \in Subs : Len(tailCh[s]) <= SubscriberBuffer
    /\ writing \in [Subs -> TailEntry]
    /\ readers \subseteq Appenders
    /\ toVisit \in [Appenders -> SUBSET Subs]
    /\ current \in [Appenders -> TailEntry]
    /\ tailed \in 0 .. MaxTailed
    /\ sent \in [Subs -> Seq(TailEntry)]
    /\ offered \in [Subs -> Seq([entry : TailEntry, kept : BOOLEAN])]
    /\ tailPanic \in BOOLEAN

TailInit ==
    /\ wsState = [s \in Subs |-> "absent"]
    /\ registered = {}
    /\ tailCh = [s \in Subs |-> <<>>]
    /\ writing = [s \in Subs |-> NoEntry]
    /\ readers = {}
    /\ toVisit = [a \in Appenders |-> {}]
    /\ current = [a \in Appenders |-> NoEntry]
    /\ tailed = 0
    /\ sent = [s \in Subs |-> <<>>]
    /\ offered = [s \in Subs |-> <<>>]
    /\ tailPanic = FALSE

UNCHANGED_Hub == UNCHANGED <<readers, toVisit, current, tailed, offered, tailPanic>>

\* A goroutine that wants the write lock: Subscribe before h.mu.Lock returns,
\* or cancel before it does.
WriterWaiting == \E s \in Subs : wsState[s] \in {"joining", "leaving"}

\* The handler has accepted the socket and calls hub.Subscribe.
Subscribe(s) ==
    /\ wsState[s] = "absent"
    /\ wsState' = [wsState EXCEPT ![s] = "joining"]
    /\ UNCHANGED <<registered, tailCh, writing, sent>> /\ UNCHANGED_Hub

Subscribed(s) ==
    /\ wsState[s] = "joining" /\ readers = {}
    /\ registered' = registered \cup {s}
    /\ wsState' = [wsState EXCEPT ![s] = "open"]
    /\ UNCHANGED <<tailCh, writing, sent>> /\ UNCHANGED_Hub

\* The handler's select takes an entry and starts conn.Write with its timeout.
TakeEntry(s) ==
    /\ wsState[s] = "open" /\ tailCh[s] # <<>>
    /\ writing' = [writing EXCEPT ![s] = Head(tailCh[s])]
    /\ tailCh' = [tailCh EXCEPT ![s] = Tail(@)]
    /\ wsState' = [wsState EXCEPT ![s] = "writing"]
    /\ UNCHANGED <<registered, sent>> /\ UNCHANGED_Hub

WriteOk(s) ==
    /\ wsState[s] = "writing"
    /\ sent' = [sent EXCEPT ![s] = Append(@, writing[s])]
    /\ writing' = [writing EXCEPT ![s] = NoEntry]
    /\ wsState' = [wsState EXCEPT ![s] = "open"]
    /\ UNCHANGED <<registered, tailCh>> /\ UNCHANGED_Hub

\* The write fails or its ten seconds pass, or the request context ends: the
\* handler returns and its deferred cancel asks for the write lock.
Leave(s) ==
    /\ wsState[s] \in {"open", "writing"}
    /\ wsState' = [wsState EXCEPT ![s] = "leaving"]
    /\ UNCHANGED <<registered, tailCh, writing, sent>> /\ UNCHANGED_Hub

\* Mutant: cancel closes the channel before it takes the lock.
DeleteSubAfterClose(s) ==
    /\ wsState[s] = "leaving"
    /\ registered' = registered
    /\ wsState' = [wsState EXCEPT ![s] = "deleted"]
    /\ UNCHANGED <<tailCh, writing, sent>> /\ UNCHANGED_Hub

\* cancel: delete(h.subs, s) under the lock, close(s.ch) after it.
DeleteSub(s) ==
    /\ wsState[s] = "leaving" /\ readers = {}
    /\ registered' = registered \ {s}
    /\ wsState' = [wsState EXCEPT ![s] = "deleted"]
    /\ UNCHANGED <<tailCh, writing, sent>> /\ UNCHANGED_Hub

CloseCh(s) ==
    /\ wsState[s] = "deleted"
    /\ wsState' = [wsState EXCEPT ![s] = "closed"]
    /\ UNCHANGED <<registered, tailCh, writing, sent>> /\ UNCHANGED_Hub

\* Hub.Append: take the read lock and start the loop over h.subs.
HubAppend(a, t) ==
    /\ a \notin readers /\ ~WriterWaiting /\ tailed < MaxTailed
    /\ tailed' = tailed + 1
    /\ readers' = readers \cup {a}
    /\ toVisit' = [toVisit EXCEPT ![a] = registered]
    /\ current' = [current EXCEPT ![a] = [id |-> tailed + 1, tag |-> t]]
    /\ UNCHANGED <<wsState, registered, tailCh, writing, sent, offered, tailPanic>>

\* Mutant: the select has no default case, the send waits for room.
OfferBlocking(a, s) ==
    /\ Len(tailCh[s]) < SubscriberBuffer
    /\ offered' = [offered EXCEPT ![s] = Append(@, [entry |-> current[a], kept |-> TRUE])]
    /\ tailCh' = [tailCh EXCEPT ![s] = Append(@, current[a])]
    /\ UNCHANGED tailPanic

\* Mutant: a full buffer makes room by dropping its oldest entry.
OfferDropsOldest(a, s) ==
    /\ offered' = [offered EXCEPT ![s] = Append(@, [entry |-> current[a], kept |-> TRUE])]
    /\ tailCh' = [tailCh EXCEPT ![s] =
                    IF Len(@) < SubscriberBuffer THEN Append(@, current[a])
                    ELSE Append(Tail(@), current[a])]
    /\ UNCHANGED tailPanic

\* Mutant: every entry is kept, the buffer has no limit.
OfferUnbounded(a, s) ==
    /\ offered' = [offered EXCEPT ![s] = Append(@, [entry |-> current[a], kept |-> TRUE])]
    /\ tailCh' = [tailCh EXCEPT ![s] = Append(@, current[a])]
    /\ UNCHANGED tailPanic

\* The select of the loop body: a send that finds the buffer full is skipped,
\* a send on a closed channel panics.
Offer(a, s) ==
    LET kept == Len(tailCh[s]) < SubscriberBuffer IN
    /\ offered' = [offered EXCEPT ![s] = Append(@, [entry |-> current[a], kept |-> kept])]
    /\ tailCh' = IF kept THEN [tailCh EXCEPT ![s] = Append(@, current[a])] ELSE tailCh
    /\ tailPanic' = (tailPanic \/ wsState[s] = "closed")

Visit(a) ==
    \E s \in toVisit[a] :
       /\ toVisit' = [toVisit EXCEPT ![a] = @ \ {s}]
       /\ \/ current[a].tag \in Plan[s] /\ Offer(a, s)
          \/ current[a].tag \notin Plan[s] /\ UNCHANGED <<offered, tailCh, tailPanic>>
       /\ UNCHANGED <<wsState, registered, writing, readers, current, tailed, sent>>

HubAppended(a) ==
    /\ a \in readers /\ toVisit[a] = {}
    /\ readers' = readers \ {a}
    /\ current' = [current EXCEPT ![a] = NoEntry]
    /\ UNCHANGED <<wsState, registered, tailCh, writing, toVisit, tailed, sent,
                   offered, tailPanic>>

WsStep(s) ==
    Subscribe(s) \/ Subscribed(s) \/ TakeEntry(s) \/ WriteOk(s) \/ Leave(s)
    \/ DeleteSub(s) \/ CloseCh(s)

TailNext ==
    /\ ~tailPanic
    /\ \/ \E s \in Subs : WsStep(s)
       \/ \E a \in Appenders : Visit(a) \/ HubAppended(a) \/ \E t \in Tags : HubAppend(a, t)

TailSafety == TailInit /\ [][TailNext]_tailVars

\* Goroutines that can run do run, and sync.RWMutex lets a waiting writer in.
\* No fairness is assumed of a client: TakeEntry's write may never end.
TailFairness ==
    /\ \A a \in Appenders : WF_tailVars(~tailPanic /\ (Visit(a) \/ HubAppended(a)))
    /\ \A s \in Subs : WF_tailVars(~tailPanic /\ (Subscribed(s) \/ DeleteSub(s) \/ CloseCh(s)))

(***************************************************************************)
(* Properties                                                              *)
(***************************************************************************)

\* What s was sent, is being sent and has buffered.
Delivered(s) ==
    sent[s] \o (IF writing[s] = NoEntry THEN <<>> ELSE <<writing[s]>>) \o tailCh[s]

\* How many of the first i offers found room.
KeptUpTo(offers, i) == Cardinality({j \in 1 .. i : offers[j].kept})

\* What a client was sent, is being sent and has buffered is exactly what the
\* hub offered it, in the hub's order, without the entries that met a full
\* buffer; and no goroutine ever sends on a channel that cancel has closed.
TailExact ==
    /\ ~tailPanic
    /\ \A s \in Subs :
          /\ Len(Delivered(s)) = KeptUpTo(offered[s], Len(offered[s]))
          /\ \A i \in DOMAIN offered[s] : offered[s][i].kept =>
                Delivered(s)[KeptUpTo(offered[s], i)] = offered[s][i].entry

\* An ingest goroutine inside Hub.Append always comes out of it, however slow
\* or dead the subscribers are ("does not slow down ingest"), and a handler
\* that leaves is eventually removed.
IngestNeverWaits ==
    /\ \A a \in Appenders : (a \in readers) ~> (a \notin readers)
    /\ \A s \in Subs : (wsState[s] = "leaving") ~> (wsState[s] = "closed")
=============================================================================
