-------------------------- MODULE MCDispatchQueue --------------------------
(* Instance of DispatchQueue for TLC. *)
EXTENDS DispatchQueue
=============================================================================
