-------------------------- MODULE MC_ExecutionLayer --------------------------
(* Model values and bounds for checking ExecutionLayer with TLC.           *)
EXTENDS ExecutionLayer

MC_Nodes == {"n1", "n2"}
MC_Pubkeys == {"p1"}
=============================================================================
