------------------------------ MODULE MCServer ------------------------------
(***************************************************************************)
(* The server's life with one goroutine of each kind: those that outlive   *)
(* their listener, end with its socket or end with their answer, behind    *)
(* listeners with and without a deadline, and all that log on their own.   *)
(***************************************************************************)
EXTENDS Server

MCHandlers ==
    {<<"native", "conn">>, <<"journald", "packet">>, <<"python", "conn">>,
     <<"otlp", "request">>, <<"http", "request">>, <<"plugins", "stream">>} \cup Loggers

MCSpec == ServerSafety /\ ServerFairness
=============================================================================
