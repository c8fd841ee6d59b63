----------------------------- MODULE MCPlugins -----------------------------
(* A small instance of PluginHost for TLC: the constants are in the cfg files. *)
EXTENDS PluginHost
=============================================================================
