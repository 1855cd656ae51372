----------------------------- MODULE RunCommandMC ------------------------------
(* Instances of RunCommand for TLC.                                        *)
EXTENDS RunCommand
=============================================================================
