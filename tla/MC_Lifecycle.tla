----------------------------- MODULE MC_Lifecycle -----------------------------
(* Lifecycle for TLC: the constants are given in each cfg. *)
EXTENDS Lifecycle
=============================================================================
