------------------------ MODULE MCLifecycleRegistry ------------------------
(* Instances of LifecycleRegistry for TLC. *)
EXTENDS LifecycleRegistry, TLC

CONSTANTS slot1, slot2

TwoSlots == {slot1, slot2}

(* The slots are interchangeable. *)
Interchangeable == Permutations(TwoSlots)
=============================================================================
