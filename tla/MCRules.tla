------------------------------ MODULE MCRules ------------------------------
(* Two rules, two channels; names are interchangeable. *)
EXTENDS RulesStore, TLC

MCSymmetry == Permutations(Names) \cup Permutations(Channels)
=============================================================================
