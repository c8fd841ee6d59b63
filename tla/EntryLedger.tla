---------------------------- MODULE EntryLedger ----------------------------
(***************************************************************************)
(* What the batcher promises, without channel, ticker, retries or self     *)
(* logs: entries are numbered as they are accepted and are settled in that *)
(* order, a group of at most BatchSize at a time, each group either stored *)
(* or given up as a whole. After Close nothing is accepted, and the        *)
(* batcher finishes only when every accepted entry is settled. A send      *)
(* after Close ends the process.                                           *)
(***************************************************************************)
EXTENDS Integers

CONSTANT BatchSize

VARIABLES accepted, settled, lost, phase

ledgerVars == <<accepted, settled, lost, phase>>

Init ==
    /\ accepted = 0 /\ settled = 0 /\ lost = {}
    /\ phase = "open"

Accept ==
    /\ phase = "open"
    /\ accepted' = accepted + 1
    /\ UNCHANGED <<settled, lost, phase>>

\* The next group is stored (lost is unchanged) or given up as a whole. The
\* group that empties a closed batcher may finish it in the same step.
Settle ==
    /\ phase \in {"open", "closed"}
    /\ \E k \in 1 .. BatchSize :
          /\ settled' = settled + k
          /\ settled' <= accepted
          /\ lost' \in {lost, lost \cup (settled + 1) .. (settled + k)}
    /\ \/ phase' = phase
       \/ phase = "closed" /\ settled' = accepted /\ phase' = "finished"
    /\ UNCHANGED accepted

Close ==
    /\ phase = "open"
    /\ phase' = "closed"
    /\ UNCHANGED <<accepted, settled, lost>>

Finish ==
    /\ phase = "closed" /\ settled = accepted
    /\ phase' = "finished"
    /\ UNCHANGED <<accepted, settled, lost>>

Crash ==
    /\ phase \in {"closed", "finished"}
    /\ phase' = "crashed"
    /\ UNCHANGED <<accepted, settled, lost>>

Next == Accept \/ Settle \/ Close \/ Finish \/ Crash

Spec == Init /\ [][Next]_ledgerVars
=============================================================================
