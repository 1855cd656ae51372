---------------------------- MODULE RunnerStackMC ----------------------------
(* Instances of RunnerStack for TLC.                                       *)
EXTENDS RunnerStack
=============================================================================
