---------------------------- MODULE MCGraphAdmin ----------------------------
(***************************************************************************)
(* The declared graph with the catalog, and the deploy markers. Since they *)
(* share no table, the initial states choose which of the two is set in    *)
(* motion.                                                                 *)
(***************************************************************************)
EXTENDS GraphStore

VARIABLE scene

Graph(nodes, edges) == [nodes |-> nodes, edges |-> edges]
Meta(a, m) == [app |-> a, meta |-> m]

\* Valid graphs, one beyond each limit, a duplicate node and a self-loop.
MCGraphs ==
    {Graph(<<"a">>, <<>>), Graph(<<"b">>, <<<<"a", "b">>>>),
     Graph(<<"a", "b", "c">>, <<>>), Graph(<<>>, <<<<"a", "b">>, <<"b", "a">>>>),
     Graph(<<"a", "a">>, <<>>), Graph(<<>>, <<<<"a", "a">>>>)}

\* Project files: no catalog, one entry, a refused entry, an app twice.
MCCatalogs ==
    {<<>>, <<Meta("a", "m1")>>, <<Meta("a", "m2"), Meta("b", "bad")>>,
     <<Meta("b", "m1"), Meta("b", "m2")>>}

MCConfigs == {{}, {"a"}}

\* An observed edge may lead to a peer that never logged.
MCObserved ==
    {[nodes |-> {}, edges |-> {}], [nodes |-> {"a"}, edges |-> {<<"a", "b">>}]}

MCInit ==
    /\ scene \in {"admin", "deploys"}
    /\ GraphStoreInit
    /\ scene = "deploys" => config = {} /\ observed.nodes = {}

\* GraphStoreNext, one component at a time.
MCNext ==
    /\ UNCHANGED scene
    /\ \/ scene = "admin" /\ AdminNext /\ UNCHANGED deployVars
       \/ scene = "deploys" /\ DeployNext /\ UNCHANGED adminVars

MCSpec == MCInit /\ [][MCNext]_<<scene, adminVars, deployVars>>
=============================================================================
