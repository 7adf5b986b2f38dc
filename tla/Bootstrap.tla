----------------------------- MODULE Bootstrap -----------------------------
(***************************************************************************)
(* main.dll: it claims the process, chooses an implementation among the    *)
(* DLLs of its versions directory, starts it and uninstalls it.            *)
(*                                                                         *)
(* A process may hold several copies of main.dll, of several mod folders;  *)
(* UE4SS may free a copy and load it again, which resets its variables but *)
(* closes no handle.  The claim is a named mutex of the process: it exists *)
(* for as long as anyone holds a handle to it.  implementation_mutex makes *)
(* the calls into one copy exclusive, and nothing those into two copies.   *)
(*                                                                         *)
(* Name_Mistake is Name with a mistake in it.                              *)
(***************************************************************************)
EXTENDS Naturals, Sequences, FiniteSets

CONSTANTS
  Bootstraps,  \* copies of main.dll
  Versions,    \* versions of implementations: <<major, minor, patch>>
  None         \* nullptr, nullopt

ASSUME VersionsAssumption == Versions \subseteq Nat \X Nat \X Nat /\ None \notin Versions

VARIABLES
  claim,           \* bootstrap_claim, by copy: does it hold a handle
  leaked,          \* a handle is open that no variable holds
  implementation,  \* implementation_module and implementation_api, by copy:
                   \* the version of the module, and is the descriptor kept
  call,            \* by copy, the call it is in
  live,            \* implementations loaded and not freed, in the process
  retained         \* history: an implementation must stay for good

vars == <<claim, leaked, implementation, call, live, retained>>

NoCall == [at |-> "none"]
NoImplementation == [module |-> None, api |-> FALSE]

(* The calls a copy may be in. *)
Calls ==
  [at : {"none", "threw", "refused", "search", "uninstall", "freed"}]
    \cup [at : {"try"}, found : SUBSET Versions, exact : Versions \cup {None},
          rest : SUBSET Versions]
    \cup [at : {"start"}, version : Versions, found : SUBSET Versions,
          exact : Versions \cup {None}, rest : SUBSET Versions]

Init ==
  /\ claim = [b \in Bootstraps |-> FALSE]
  /\ leaked = FALSE
  /\ implementation = [b \in Bootstraps |-> NoImplementation]
  /\ call = [b \in Bootstraps |-> NoCall]
  /\ live = 0
  /\ retained = FALSE

At(b, place) == call[b].at = place

(* In no call; the last one may have ended with an exception. *)
Idle(b) == call[b].at \in {"none", "threw"}

(* CloseHandle(bootstrap_claim), if there is one. *)
CloseClaim(b) == claim' = [claim EXCEPT ![b] = FALSE]

-----------------------------------------------------------------------------
(* Choosing an implementation.                                             *)

(* SemanticVersion's order: the first field that differs decides. *)
Newer(v, w) == \E i \in 1..3 : v[i] > w[i] /\ \A j \in 1..(i - 1) : v[j] = w[j]

(* discover: what it accepts by its metadata; an error ends the search early,
   so that it may miss some. *)
Discovered == SUBSET Versions

(* main.json: invalid, or with or without an exact version. *)
Configurations ==
  [valid : {FALSE}, exact : {None}] \cup [valid : {TRUE}, exact : Versions \cup {None}]

(* candidate_order: which versions are tried, and which of them comes next. *)
Candidates(found, exact) == IF exact = None THEN found ELSE found \cap {exact}

IsNextCandidate_ByPatch(v, rest) == v \in rest /\ \A w \in rest \ {v} : w[3] <= v[3]

IsNextCandidate(v, rest) == v \in rest /\ \A w \in rest \ {v} : ~Newer(w, v)

(* The loop over the candidates: what was found and asked for, and who is left. *)
Trying(c, rest) == [at |-> "try", found |-> c.found, exact |-> c.exact, rest |-> rest]

-----------------------------------------------------------------------------
(* start_mod.  With a module in place it returns at once.                  *)

ClaimTaken == leaked \/ \E b \in Bootstraps : claim[b]

(* CreateMutexW opens a handle even if the mutex exists.  A claim this copy
   still held, because an earlier start threw, is overwritten. *)
StartMod ==
  /\ \E b \in Bootstraps :
       /\ Idle(b) /\ implementation[b].module = None
       /\ claim' = [claim EXCEPT ![b] = TRUE]
       /\ leaked' = (leaked \/ claim[b])
       /\ call' = [call EXCEPT ![b] = [at |-> IF ClaimTaken THEN "refused" ELSE "search"]]
  /\ UNCHANGED <<implementation, live, retained>>

ClaimRefused ==
  /\ \E b \in Bootstraps :
       /\ At(b, "refused")
       /\ CloseClaim(b)
       /\ call' = [call EXCEPT ![b] = NoCall]
  /\ UNCHANGED <<leaked, implementation, live, retained>>

(* main.dll cannot be located, main.json is invalid, or nothing fits. *)
SearchFails_KeepsClaim ==
  /\ \E b \in Bootstraps :
       /\ At(b, "search")
       /\ call' = [call EXCEPT ![b] = NoCall]
  /\ UNCHANGED <<claim, leaked, implementation, live, retained>>

SearchFails ==
  /\ \E b \in Bootstraps :
       /\ At(b, "search")
       /\ CloseClaim(b)
       /\ call' = [call EXCEPT ![b] = NoCall]
  /\ UNCHANGED <<leaked, implementation, live, retained>>

(* An allocation throws out of start_mod; the claim stays. *)
SearchThrows ==
  /\ \E b \in Bootstraps :
       /\ At(b, "search")
       /\ call' = [call EXCEPT ![b] = [at |-> "threw"]]
  /\ UNCHANGED <<claim, leaked, implementation, live, retained>>

SearchSucceeds ==
  /\ \E b \in Bootstraps, found \in Discovered, config \in Configurations :
       /\ At(b, "search")
       /\ config.valid /\ Candidates(found, config.exact) # {}
       /\ call' = [call EXCEPT ![b] =
            Trying([found |-> found, exact |-> config.exact], Candidates(found, config.exact))]
  /\ UNCHANGED <<claim, leaked, implementation, live, retained>>

(* LoadLibraryExW fails, or the descriptor does not match and FreeLibrary
   undoes the load, before any of its code was asked to start. *)
CandidateUnusable_FreesAnyway ==
  /\ \E b \in Bootstraps :
       /\ At(b, "try")
       /\ \E v \in call[b].rest :
            /\ IsNextCandidate(v, call[b].rest)
            /\ call' = [call EXCEPT ![b] = Trying(call[b], call[b].rest \ {v})]
  /\ live' = live - 1
  /\ UNCHANGED <<claim, leaked, implementation, retained>>

CandidateUnusable ==
  /\ \E b \in Bootstraps :
       /\ At(b, "try")
       /\ \E v \in call[b].rest :
            /\ IsNextCandidate(v, call[b].rest)
            /\ call' = [call EXCEPT ![b] = Trying(call[b], call[b].rest \ {v})]
  /\ UNCHANGED <<claim, leaked, implementation, live, retained>>

LoadCandidate ==
  /\ \E b \in Bootstraps :
       /\ At(b, "try")
       /\ \E v \in call[b].rest :
            /\ IsNextCandidate(v, call[b].rest)
            /\ call' = [call EXCEPT ![b] =
                 [at |-> "start", version |-> v, found |-> call[b].found,
                  exact |-> call[b].exact, rest |-> call[b].rest \ {v}]]
  /\ live' = live + 1
  /\ UNCHANGED <<claim, leaked, implementation, retained>>

(* start returns null or throws: the module goes, and the next one is tried. *)
StartFails ==
  /\ \E b \in Bootstraps :
       /\ At(b, "start")
       /\ call' = [call EXCEPT ![b] = Trying(call[b], call[b].rest)]
  /\ live' = live - 1
  /\ UNCHANGED <<claim, leaked, implementation, retained>>

StartSucceeds ==
  /\ \E b \in Bootstraps :
       /\ At(b, "start")
       /\ implementation' =
            [implementation EXCEPT ![b] = [module |-> call[b].version, api |-> TRUE]]
       /\ call' = [call EXCEPT ![b] = NoCall]
  /\ UNCHANGED <<claim, leaked, live, retained>>

CandidatesExhausted ==
  /\ \E b \in Bootstraps :
       /\ At(b, "try") /\ call[b].rest = {}
       /\ CloseClaim(b)
       /\ call' = [call EXCEPT ![b] = NoCall]
  /\ UNCHANGED <<leaked, implementation, live, retained>>

(* Formatting or logging throws out of the loop, and the claim stays: before
   the load or after it failed, after a descriptor that does not match but
   before FreeLibrary, after a start that failed, or with all recorded. *)
CandidateThrows ==
  /\ \E b \in Bootstraps :
       /\ \/ /\ At(b, "try") /\ call[b].rest # {}
             /\ live' \in {live, live + 1}
             /\ UNCHANGED implementation
          \/ /\ At(b, "start")
             /\ implementation' \in
                  { implementation,
                    [implementation EXCEPT ![b] = [module |-> call[b].version, api |-> TRUE]] }
             /\ UNCHANGED live
       /\ call' = [call EXCEPT ![b] = [at |-> "threw"]]
  /\ UNCHANGED <<claim, leaked, retained>>

-----------------------------------------------------------------------------
(* uninstall_mod.  Without module or descriptor it returns at once.        *)

CallUninstall ==
  /\ \E b \in Bootstraps :
       /\ Idle(b)
       /\ implementation[b].module # None /\ implementation[b].api
       /\ call' = [call EXCEPT ![b] = [at |-> "uninstall"]]
  /\ UNCHANGED <<claim, leaked, implementation, live, retained>>

(* uninstall throws, or asks for its module to be retained: only the
   descriptor is dropped, which rules out another call. *)
Retain_ReleasesClaim ==
  /\ \E b \in Bootstraps :
       /\ At(b, "uninstall")
       /\ implementation' = [implementation EXCEPT ![b] = NoImplementation]
       /\ CloseClaim(b)
       /\ call' = [call EXCEPT ![b] = NoCall]
  /\ retained' = TRUE
  /\ UNCHANGED <<leaked, live>>

Retain_Frees ==
  /\ \E b \in Bootstraps :
       /\ At(b, "uninstall")
       /\ implementation' = [implementation EXCEPT ![b] = NoImplementation]
       /\ CloseClaim(b)
       /\ call' = [call EXCEPT ![b] = NoCall]
  /\ retained' = TRUE
  /\ live' = live - 1
  /\ UNCHANGED leaked

Retain ==
  /\ \E b \in Bootstraps :
       /\ At(b, "uninstall")
       /\ implementation' = [implementation EXCEPT ![b].api = FALSE]
       /\ call' = [call EXCEPT ![b] = NoCall]
  /\ retained' = TRUE
  /\ UNCHANGED <<claim, leaked, live>>

(* uninstall allows it: FreeLibrary, and only then the claim. *)
Unload ==
  /\ \E b \in Bootstraps :
       /\ At(b, "uninstall")
       /\ implementation' = [implementation EXCEPT ![b] = NoImplementation]
       /\ call' = [call EXCEPT ![b] = [at |-> "freed"]]
  /\ live' = live - 1
  /\ UNCHANGED <<claim, leaked, retained>>

UninstallReturns ==
  /\ \E b \in Bootstraps :
       /\ At(b, "freed")
       /\ CloseClaim(b)
       /\ call' = [call EXCEPT ![b] = NoCall]
  /\ UNCHANGED <<leaked, implementation, live, retained>>

(* External: UE4SS frees a copy of main.dll after uninstall_mod, and may load
   it again.  Its variables start over; a handle it held stays open. *)
ReloadBootstrap ==
  /\ \E b \in Bootstraps :
       /\ Idle(b) /\ ~implementation[b].api
       /\ leaked' = (leaked \/ claim[b])
       /\ CloseClaim(b)
       /\ implementation' = [implementation EXCEPT ![b] = NoImplementation]
       /\ call' = [call EXCEPT ![b] = NoCall]
  /\ UNCHANGED <<live, retained>>

-----------------------------------------------------------------------------
Next ==
  \/ StartMod \/ ClaimRefused \/ SearchFails \/ SearchThrows \/ SearchSucceeds
  \/ CandidateUnusable \/ LoadCandidate \/ StartFails \/ StartSucceeds \/ CandidatesExhausted
  \/ CandidateThrows
  \/ CallUninstall \/ Retain \/ Unload \/ UninstallReturns \/ ReloadBootstrap

Spec == Init /\ [][Next]_vars

-----------------------------------------------------------------------------
(* The variables have their types; no module is freed more often than one was
   loaded. *)
TypeOK ==
  /\ claim \in [Bootstraps -> BOOLEAN]
  /\ leaked \in BOOLEAN
  /\ implementation \in [Bootstraps -> [module : Versions \cup {None}, api : BOOLEAN]]
  /\ call \in [Bootstraps -> Calls]
  /\ live \in Nat
  /\ retained \in BOOLEAN

(* BUILD.md: "another bridge version cannot activate before process exit" once
   an implementation is retained, and two copies of main.dll never run one
   each.  At most one implementation is loaded at any time, counting those that
   are tried, those that run, those that are retained and those that a start
   that threw has left behind. *)
OneImplementation == live <= 1

(* An implementation that asked to be retained, or failed to say, is never
   freed: Unreal may still call into it. *)
RetainedStaysLoaded == retained => live >= 1

(* The implementation that runs is the exact one, or the newest of those
   discovered that did not fail, also if start_mod then throws: every newer one was tried before it.  An
   exact version never falls back. *)
NewestUsableStarts ==
  [][ \A b \in Bootstraps :
        (implementation[b].module = None /\ implementation'[b].module # None) =>
          LET v == implementation'[b].module
              c == call[b]
          IN
            /\ v \in c.found
            /\ c.exact \in {None, v}
            /\ \A w \in c.rest : ~Newer(w, v) ]_vars

(* A copy that is not in a call holds the claim only for an implementation it
   has not got rid of, or because its last start threw: a failed start leaves the
   process to the others, and a clean unload to the next start. *)
ClaimReleased ==
  \A b \in Bootstraps :
    (At(b, "none") /\ claim[b]) => implementation[b].module # None
=============================================================================
