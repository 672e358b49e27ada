---------------------------- MODULE MCSamplerTurn ----------------------------
(* Instances of SamplerTurn for TLC.                                       *)
EXTENDS SamplerTurn
=============================================================================
