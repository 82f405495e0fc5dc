-------------------------- MODULE MCRuntimeControl --------------------------
(* Small instances of RuntimeControl for TLC: the strategy, the server       *)
(* thread and the commands are model values of the configurations.           *)
EXTENDS RuntimeControl

AllKinds == Kinds
Stopping == {"stop"}
=============================================================================
