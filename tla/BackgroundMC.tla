----------------------------- MODULE BackgroundMC -----------------------------
(* Instances of Background for TLC.                                        *)
EXTENDS Background
=============================================================================
