--------------------------- MODULE MCInputBackend ---------------------------
(* Instances of InputBackend for TLC. *)
EXTENDS InputBackend, TLC

CONSTANTS mod1, mod2, component1

OneSession == {mod1}
TwoSessions == {mod1, mod2}
OneComponent == {component1}

(* Faults of two targets, by refusals, failing callbacks and failing
   allocations, in passes whose time may run out. *)
FaultsOnly == {"open", "enable", "bind", "throw", "expire"}

(* Every way for native objects to come and go while events are on their way,
   up to the unload: the session stops on either thread, the component is
   destroyed, Unreal clones and drops bindings. *)
OwnershipOnly == {"open", "bind", "stop", "stop_off_thread", "clone", "destroy",
                  "shutdown"}

(* Two sessions use each other's handles and stop on either thread. *)
SessionsOnly == {"open", "bind", "unbind", "close", "unbind_all", "unbind_keep", "stop",
                 "stop_off_thread"}

(* The sessions are interchangeable. *)
Interchangeable == Permutations({mod1, mod2})
=============================================================================
