----------------------------- MODULE GraphStore -----------------------------
(***************************************************************************)
(* The graph database (internal/graph/sqlite): the declared graph with the *)
(* catalog and the deploy markers share the SQLite file but no table, so   *)
(* the steps of the two interleave freely.                                 *)
(***************************************************************************)
EXTENDS GraphAdmin, DeployDetector

GraphStoreInit == AdminInit /\ DeployInit

GraphStoreNext ==
    \/ AdminNext /\ UNCHANGED deployVars
    \/ DeployNext /\ UNCHANGED adminVars

GraphStoreSafety == GraphStoreInit /\ [][GraphStoreNext]_<<adminVars, deployVars>>

\* Both components' states have their types; among others the map of deploys.go's
\* detector stays within maxTrackedApps.
GraphStoreTypeOK == AdminTypeOK /\ DeployTypeOK
=============================================================================
