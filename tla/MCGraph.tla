------------------------------ MODULE MCGraph ------------------------------
(* A small instance of GraphExtractor for TLC. *)
EXTENDS GraphExtractor, TLC

CONSTANTS a, b, t1, t2

Plain == [app |-> a, err |-> FALSE, ts |-> 0, trace |-> None, corr |-> None, peer |-> None]

\* Two applications in one trace, one of them also correlated, an entry naming
\* its peer, a late error, an entry of another trace, and one without an app.
MCEntries ==
    {[Plain EXCEPT !.trace = t1],
     [Plain EXCEPT !.app = b, !.trace = t1, !.err = TRUE, !.ts = 1],
     [Plain EXCEPT !.app = b, !.trace = t2, !.corr = t1, !.peer = a],
     [Plain EXCEPT !.corr = t1, !.peer = a, !.ts = 2],
     [Plain EXCEPT !.app = None, !.trace = t1]}
=============================================================================
