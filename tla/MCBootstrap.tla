---------------------------- MODULE MCBootstrap ----------------------------
(* Instances of Bootstrap for TLC. *)
EXTENDS Bootstrap

(* Three versions whose fields order them differently. *)
SomeVersions == { <<1, 0, 7>>, <<1, 0, 12>>, <<2, 0, 0>> }
=============================================================================
