------------------------- MODULE MCOverflowWarnings -------------------------
(* An instance of OverflowWarnings for TLC: a session that traces. *)
EXTENDS OverflowWarnings

CONSTANT s1
OneSession == {s1}
=============================================================================
