------------------------------ MODULE PipelineMC ------------------------------
(* Instances of Pipeline for TLC.                                          *)
EXTENDS Pipeline
=============================================================================
