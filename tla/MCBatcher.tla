----------------------------- MODULE MCBatcher -----------------------------
(***************************************************************************)
(* Instances of the batcher for TLC. The bounds (MaxCalls, MaxFailures)    *)
(* are constants of Batcher and get their values in the .cfg files.        *)
(***************************************************************************)
EXTENDS Batcher
=============================================================================
