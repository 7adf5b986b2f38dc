--------------------------- MODULE MCHelperScopes ---------------------------
(* Instances of HelperScopes for TLC. *)
EXTENDS HelperScopes, TLC

(* One observer stands for the three; what they do differs in nothing. *)
OneObserver == {"Completed"}
=============================================================================
