------------------------------ MODULE MCNotify ------------------------------
(***************************************************************************)
(* A threshold rule whose ring has two buckets and that may fire twice,    *)
(* and a silence rule, over one application and two ingest goroutines.     *)
(***************************************************************************)
EXTENDS NotifyEngine, TLC

CONSTANTS burst, quiet, svc, nobody

MCThreshold == (burst :> 2)
MCApp == (burst :> nobody) @@ (quiet :> svc)
MCChannels == [r \in Rules |-> {}]
MCMaxFires == (burst :> 2) @@ (quiet :> Unset)

\* Slot is 2: a window of four units is two slots, three units round up to two.
MCWindow == (burst :> 4) @@ (quiet :> 4)
MCCooldown == (burst :> 3) @@ (quiet :> 1)

\* The ingest goroutines are interchangeable.
MCSymmetry == Permutations(Handlers)

MCOddWindow == (burst :> 3) @@ (quiet :> 4)
=============================================================================
