---------------------------- MODULE MCLoopStart ----------------------------
(* Instances of LoopStart for TLC. *)
EXTENDS LoopStart
=============================================================================
