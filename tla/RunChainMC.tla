------------------------------ MODULE RunChainMC ------------------------------
(* Instances of RunChain for TLC.                                          *)
EXTENDS RunChain
=============================================================================
