-------------------------- MODULE BootstrapProofs --------------------------
(***************************************************************************)
(* Proofs about Bootstrap, for any number of copies of main.dll and any    *)
(* set of versions.                                                        *)
(***************************************************************************)
EXTENDS Bootstrap, TLAPS

(* A copy that owns the process: it searches, tries, runs, or keeps what it
   could not unload. *)
Owner(b) ==
  \/ call[b].at \in {"search", "try", "start", "uninstall", "freed"}
  \/ implementation[b].module # None

(* Its implementation is loaded. *)
Holding(b) == At(b, "start") \/ implementation[b].module # None

(* It still holds a claim that it has no use for: its start threw. *)
Abandoned(b) == Idle(b) /\ implementation[b].module = None /\ claim[b]

(* Where a copy may be, with and without a module. *)
ShapeInv ==
  \A b \in Bootstraps :
    /\ implementation[b].module # None => Idle(b) \/ At(b, "uninstall")
    /\ At(b, "uninstall") => implementation[b].module # None /\ implementation[b].api
    /\ (implementation[b].module # None /\ ~implementation[b].api) => retained

(* One owner, which holds the claim; a claim that is lost or abandoned rules
   out any owner for good. *)
ClaimInv ==
  /\ \A b \in Bootstraps : Owner(b) => claim[b]
  /\ \A b, c \in Bootstraps : (Owner(b) /\ Owner(c)) => b = c
  /\ leaked => \A b \in Bootstraps : ~Owner(b)
  /\ \A b, c \in Bootstraps : Abandoned(b) => ~Owner(c)

(* What is loaded is the owner's, or was retained by a copy that is gone, or
   left behind by a start that threw. *)
LiveInv ==
  /\ \A b \in Bootstraps : Holding(b) => live = 1
  /\ (\A b \in Bootstraps : ~Holding(b)) =>
       /\ live \in {0, 1} /\ (retained => live = 1)
       /\ live = 1 => leaked \/ retained \/ \E b \in Bootstraps : Abandoned(b)
  /\ retained => \/ leaked
                 \/ \E b \in Bootstraps :
                      implementation[b].module # None /\ ~implementation[b].api

(* What a copy that chooses has found and not tried, and what it has chosen. *)
ChoiceInv ==
  \A b \in Bootstraps :
    /\ At(b, "try") \/ At(b, "start") =>
         /\ call[b].rest \subseteq call[b].found
         /\ call[b].exact # None => call[b].rest \subseteq {call[b].exact}
    /\ At(b, "start") =>
         /\ call[b].version \in call[b].found
         /\ call[b].exact \in {None, call[b].version}
         /\ \A w \in call[b].rest : ~Newer(w, call[b].version)

(* The invariant that makes the others inductive. *)
Inv == TypeOK /\ ShapeInv /\ ClaimInv /\ LiveInv

-----------------------------------------------------------------------------
(* Where a call may be follows from the set of calls. *)
LEMMA CallPlaces ==
  ASSUME NEW c \in Calls
  PROVE  /\ c.at \in {"none", "threw", "refused", "search", "try", "start", "uninstall", "freed"}
         /\ c.at \in {"try", "start"} =>
              /\ c.found \subseteq Versions
              /\ c.exact \in Versions \cup {None}
              /\ c.rest \subseteq Versions
         /\ c.at = "start" => c.version \in Versions
  BY DEF Calls

(* The calls the actions make are calls. *)
LEMMA CallsMade ==
  /\ \A place \in {"none", "threw", "refused", "search", "uninstall", "freed"} : [at |-> place] \in Calls
  /\ \A found, rest \in SUBSET Versions, exact \in Versions \cup {None} :
       [at |-> "try", found |-> found, exact |-> exact, rest |-> rest] \in Calls
  /\ \A found, rest \in SUBSET Versions, exact \in Versions \cup {None}, v \in Versions :
       [at |-> "start", version |-> v, found |-> found, exact |-> exact, rest |-> rest] \in Calls
  BY DEF Calls

(* The initial state has its type and satisfies the three invariants. *)
LEMMA InitHolds == Init => TypeOK /\ ShapeInv /\ ClaimInv /\ LiveInv
<1> SUFFICES ASSUME Init PROVE TypeOK /\ ShapeInv /\ ClaimInv /\ LiveInv
  OBVIOUS
<1>1. TypeOK
  BY CallsMade DEF Init, TypeOK, NoCall, NoImplementation
<1>2. \A b \in Bootstraps : ~Owner(b) /\ ~Holding(b) /\ ~Abandoned(b) /\ ~At(b, "uninstall")
  BY DEF Init, Owner, Holding, Abandoned, At, Idle, NoCall, NoImplementation
<1>3. ShapeInv
  BY <1>2 DEF ShapeInv, Owner
<1>4. ClaimInv
  BY <1>2 DEF ClaimInv, Init
<1>5. LiveInv
  BY <1>2 DEF LiveInv, Init
<1> QED
  BY <1>1, <1>3, <1>4, <1>5

-----------------------------------------------------------------------------
(* Every step keeps the types, given that only a loaded module is freed. *)
LEMMA TypeStep ==
  ASSUME TypeOK, ShapeInv, LiveInv, [Next]_vars
  PROVE  TypeOK'
<1>1. CASE StartMod
  BY <1>1, CallsMade DEF StartMod, TypeOK
<1>2. CASE ClaimRefused
  BY <1>2, CallsMade DEF ClaimRefused, NoCall, CloseClaim, TypeOK
<1>3. CASE SearchFails
  BY <1>3, CallsMade DEF SearchFails, NoCall, CloseClaim, TypeOK
<1>4. CASE SearchThrows
  BY <1>4, CallsMade DEF SearchThrows, TypeOK
<1>5. CASE SearchSucceeds
  <2>1. PICK b \in Bootstraps, found \in Discovered, config \in Configurations :
               /\ call' = [call EXCEPT ![b] =
                     Trying([found |-> found, exact |-> config.exact],
                            Candidates(found, config.exact))]
    BY <1>5 DEF SearchSucceeds
  <2>2. config.exact \in Versions \cup {None}
    BY DEF Configurations
  <2>3. Candidates(found, config.exact) \subseteq Versions /\ found \subseteq Versions
    BY DEF Candidates, Discovered
  <2>4. Trying([found |-> found, exact |-> config.exact], Candidates(found, config.exact)) \in Calls
    BY <2>2, <2>3, CallsMade DEF Trying
  <2>5. call' \in [Bootstraps -> Calls]
    BY <2>1, <2>4 DEF TypeOK
  <2> QED
    BY <1>5, <2>5 DEF SearchSucceeds, TypeOK
<1>6. CASE CandidateUnusable
  <2>0. PICK b \in Bootstraps :
               /\ At(b, "try")
               /\ \E v \in call[b].rest :
                    /\ call' = [call EXCEPT ![b] = Trying(call[b], call[b].rest \ {v})]
    BY <1>6 DEF CandidateUnusable
  <2>1. PICK v \in call[b].rest :
               /\ call' = [call EXCEPT ![b] = Trying(call[b], call[b].rest \ {v})]
    BY <2>0
  <2>2. Trying(call[b], call[b].rest \ {v}) \in Calls
    BY <2>0, CallPlaces, CallsMade DEF Trying, At, TypeOK
  <2>3. call' \in [Bootstraps -> Calls]
    BY <2>1, <2>2 DEF TypeOK
  <2> QED
    BY <1>6, <2>3 DEF CandidateUnusable, TypeOK
<1>7. CASE LoadCandidate
  <2>0. PICK b \in Bootstraps :
               /\ At(b, "try")
               /\ \E v \in call[b].rest :
                    /\ call' = [call EXCEPT ![b] =
                          [at |-> "start", version |-> v, found |-> call[b].found,
                           exact |-> call[b].exact, rest |-> call[b].rest \ {v}]]
    BY <1>7 DEF LoadCandidate
  <2>1. PICK v \in call[b].rest :
               /\ call' = [call EXCEPT ![b] =
                     [at |-> "start", version |-> v, found |-> call[b].found,
                      exact |-> call[b].exact, rest |-> call[b].rest \ {v}]]
    BY <2>0
  <2>2. [at |-> "start", version |-> v, found |-> call[b].found, exact |-> call[b].exact,
         rest |-> call[b].rest \ {v}] \in Calls
    BY <2>0, CallPlaces, CallsMade DEF At, TypeOK
  <2>3. call' \in [Bootstraps -> Calls]
    BY <2>1, <2>2 DEF TypeOK
  <2>4. live' \in Nat
    BY <1>7 DEF LoadCandidate, TypeOK
  <2> QED
    BY <1>7, <2>3, <2>4 DEF LoadCandidate, TypeOK
<1>8. CASE StartFails
  <2>1. PICK b \in Bootstraps :
               /\ At(b, "start")
               /\ call' = [call EXCEPT ![b] = Trying(call[b], call[b].rest)]
    BY <1>8 DEF StartFails
  <2>2. Trying(call[b], call[b].rest) \in Calls
    BY <2>1, CallPlaces, CallsMade DEF Trying, At, TypeOK
  <2>3. call' \in [Bootstraps -> Calls]
    BY <2>1, <2>2 DEF TypeOK
  <2>4. live' \in Nat
    BY <1>8, <2>1 DEF StartFails, LiveInv, Holding
  <2> QED
    BY <1>8, <2>3, <2>4 DEF StartFails, TypeOK
<1>9. CASE StartSucceeds
  BY <1>9, CallPlaces, CallsMade DEF StartSucceeds, At, NoCall, TypeOK
<1>10. CASE CandidatesExhausted
  BY <1>10, CallsMade DEF CandidatesExhausted, NoCall, CloseClaim, TypeOK
<1>11. CASE CallUninstall
  BY <1>11, CallsMade DEF CallUninstall, TypeOK
<1>12. CASE Retain
  <2>1. PICK b \in Bootstraps :
               /\ implementation' = [implementation EXCEPT ![b].api = FALSE]
               /\ call' = [call EXCEPT ![b] = NoCall]
    BY <1>12 DEF Retain
  <2>2. implementation' \in [Bootstraps -> [module : Versions \cup {None}, api : BOOLEAN]]
    BY <2>1 DEF TypeOK
  <2>3. call' \in [Bootstraps -> Calls]
    BY <2>1, CallsMade DEF NoCall, TypeOK
  <2> QED
    BY <1>12, <2>2, <2>3 DEF Retain, TypeOK
<1>13. CASE Unload
  BY <1>13, CallsMade DEF Unload, NoImplementation, TypeOK, ShapeInv, LiveInv, Holding
<1>14. CASE UninstallReturns
  BY <1>14, CallsMade DEF UninstallReturns, NoCall, CloseClaim, TypeOK
<1>15. CASE ReloadBootstrap
  BY <1>15, CallsMade DEF ReloadBootstrap, NoCall, NoImplementation, CloseClaim, TypeOK
<1>16. CASE UNCHANGED vars
  BY <1>16 DEF vars, TypeOK
<1>17. CASE CandidateThrows
  <2>1. PICK b \in Bootstraps :
          /\ \/ live' \in {live, live + 1} /\ UNCHANGED implementation
             \/ /\ At(b, "start") /\ UNCHANGED live
                /\ implementation' \in
                     { implementation, [implementation EXCEPT ![b] =
                                          [module |-> call[b].version, api |-> TRUE]] }
          /\ call' = [call EXCEPT ![b] = [at |-> "threw"]]
    BY <1>17 DEF CandidateThrows
  <2>2. call' \in [Bootstraps -> Calls] /\ live' \in Nat
    BY <2>1, CallsMade DEF TypeOK
  <2>3. At(b, "start") => call[b].version \in Versions
    BY CallPlaces DEF At, TypeOK
  <2>4. CASE UNCHANGED implementation
    BY <1>17, <2>2, <2>4 DEF CandidateThrows, TypeOK
  <2>5. CASE At(b, "start") /\ implementation' =
               [implementation EXCEPT ![b] = [module |-> call[b].version, api |-> TRUE]]
    <3>1. implementation' \in [Bootstraps -> [module : Versions \cup {None}, api : BOOLEAN]]
      BY <2>3, <2>5 DEF TypeOK
    <3> QED
      BY <1>17, <2>2, <3>1 DEF CandidateThrows, TypeOK
  <2> QED
    BY <2>1, <2>4, <2>5
<1> QED
  BY <1>1, <1>2, <1>3, <1>4, <1>5, <1>6, <1>7, <1>8, <1>9, <1>10,
     <1>11, <1>12, <1>13, <1>14, <1>15, <1>16, <1>17 DEF Next

(* Every step keeps the shape of calls and modules. *)
LEMMA ShapeStep ==
  ASSUME TypeOK, ShapeInv, [Next]_vars
  PROVE  ShapeInv'
<1>1. CASE StartMod
  BY <1>1 DEF StartMod, At, Idle, ShapeInv
<1>2. CASE ClaimRefused
  BY <1>2 DEF ClaimRefused, At, Idle, NoCall, ShapeInv
<1>3. CASE SearchFails
  BY <1>3 DEF SearchFails, At, Idle, NoCall, ShapeInv
<1>4. CASE SearchThrows
  BY <1>4 DEF SearchThrows, At, Idle, ShapeInv
<1>5. CASE SearchSucceeds
  BY <1>5 DEF SearchSucceeds, At, Idle, Trying, ShapeInv
<1>6. CASE CandidateUnusable
  BY <1>6 DEF CandidateUnusable, At, Idle, Trying, ShapeInv
<1>7. CASE LoadCandidate
  BY <1>7 DEF LoadCandidate, At, Idle, ShapeInv
<1>8. CASE StartFails
  BY <1>8 DEF StartFails, At, Idle, Trying, ShapeInv
<1>9. CASE StartSucceeds
  BY <1>9 DEF StartSucceeds, At, Idle, NoCall, TypeOK, ShapeInv
<1>10. CASE CandidatesExhausted
  BY <1>10 DEF CandidatesExhausted, At, Idle, NoCall, ShapeInv
<1>11. CASE CallUninstall
  BY <1>11 DEF CallUninstall, At, Idle, ShapeInv
<1>12. CASE Retain
  BY <1>12 DEF Retain, At, Idle, NoCall, TypeOK, ShapeInv
<1>13. CASE Unload
  BY <1>13 DEF Unload, At, Idle, NoImplementation, TypeOK, ShapeInv
<1>14. CASE UninstallReturns
  BY <1>14 DEF UninstallReturns, At, Idle, NoCall, ShapeInv
<1>15. CASE ReloadBootstrap
  BY <1>15 DEF ReloadBootstrap, At, Idle, NoCall, NoImplementation, ShapeInv
<1>16. CASE UNCHANGED vars
  BY <1>16 DEF vars, At, Idle, ShapeInv
<1>17. CASE CandidateThrows
  BY <1>17 DEF CandidateThrows, At, Idle, TypeOK, ShapeInv
<1> QED
  BY <1>1, <1>2, <1>3, <1>4, <1>5, <1>6, <1>7, <1>8, <1>9, <1>10,
     <1>11, <1>12, <1>13, <1>14, <1>15, <1>16, <1>17 DEF Next

(* Every step keeps the claim exclusive. *)
LEMMA ClaimStep ==
  ASSUME TypeOK, ShapeInv, ClaimInv, [Next]_vars
  PROVE  ClaimInv'
<1>1. CASE StartMod
  BY <1>1 DEF StartMod, Idle, TypeOK, ClaimInv, Owner, Abandoned, ClaimTaken
<1>2. CASE ClaimRefused
  BY <1>2 DEF ClaimRefused, At, Idle, NoCall, CloseClaim, TypeOK, ShapeInv, ClaimInv, Owner,
      Abandoned
<1>3. CASE SearchFails
  BY <1>3 DEF SearchFails, At, Idle, NoCall, TypeOK, ShapeInv, ClaimInv, Owner
<1>4. CASE SearchThrows
  BY <1>4 DEF SearchThrows, At, Idle, ClaimInv, Owner, Abandoned
<1>5. CASE SearchSucceeds
  BY <1>5 DEF SearchSucceeds, At, Idle, ClaimInv, Owner, Abandoned
<1>6. CASE CandidateUnusable
  BY <1>6 DEF CandidateUnusable, At, Idle, ClaimInv, Owner, Abandoned
<1>7. CASE LoadCandidate
  BY <1>7 DEF LoadCandidate, At, Idle, ClaimInv, Owner, Abandoned
<1>8. CASE StartFails
  BY <1>8 DEF StartFails, At, Idle, ClaimInv, Owner, Abandoned
<1>9. CASE StartSucceeds
  BY <1>9 DEF StartSucceeds, At, Idle, ClaimInv, Owner, Abandoned
<1>10. CASE CandidatesExhausted
  BY <1>10 DEF CandidatesExhausted, At, Idle, NoCall, TypeOK, ShapeInv, ClaimInv, Owner
<1>11. CASE CallUninstall
  BY <1>11 DEF CallUninstall, Idle, ClaimInv, Owner, Abandoned
<1>12. CASE Retain
  BY <1>12 DEF Retain, Idle, ShapeInv, ClaimInv, Owner, Abandoned
<1>13. CASE Unload
  BY <1>13 DEF Unload, Idle, ShapeInv, ClaimInv, Owner, Abandoned
<1>14. CASE UninstallReturns
  BY <1>14 DEF UninstallReturns, At, Idle, NoCall, TypeOK, ShapeInv, ClaimInv, Owner
<1>15. CASE ReloadBootstrap
  BY <1>15 DEF ReloadBootstrap, Idle, NoCall, NoImplementation, CloseClaim, TypeOK, ClaimInv,
      Owner, Abandoned
<1>16. CASE UNCHANGED vars
  BY <1>16 DEF vars, Idle, ClaimInv, Owner, Abandoned
<1>17. CASE CandidateThrows
  BY <1>17 DEF CandidateThrows, At, Idle, TypeOK, ShapeInv, ClaimInv, Owner, Abandoned
<1> QED
  BY <1>1, <1>2, <1>3, <1>4, <1>5, <1>6, <1>7, <1>8, <1>9, <1>10,
     <1>11, <1>12, <1>13, <1>14, <1>15, <1>16, <1>17 DEF Next

(* Every step keeps the account of what is loaded. *)
LEMMA LiveStep ==
  ASSUME TypeOK, ShapeInv, ClaimInv, LiveInv, [Next]_vars
  PROVE  LiveInv'
<1> USE DEF LiveInv, Holding, Abandoned, Idle, At
<1>1. CASE StartMod
  BY <1>1 DEF StartMod, TypeOK, ClaimInv, Owner
<1>2. CASE ClaimRefused
  BY <1>2 DEF ClaimRefused, NoCall, CloseClaim, TypeOK, ShapeInv
<1>3. CASE SearchFails
  BY <1>3 DEF SearchFails, NoCall, CloseClaim, TypeOK, ShapeInv, ClaimInv, Owner
<1>4. CASE SearchThrows
  BY <1>4 DEF SearchThrows
<1>5. CASE SearchSucceeds
  BY <1>5 DEF SearchSucceeds, Trying
<1>6. CASE CandidateUnusable
  BY <1>6 DEF CandidateUnusable, Trying
<1>7. CASE LoadCandidate
  BY <1>7 DEF LoadCandidate, TypeOK, ShapeInv, ClaimInv, Owner
<1>8. CASE StartFails
  BY <1>8 DEF StartFails, Trying, TypeOK, ShapeInv, ClaimInv, Owner
<1>9. CASE StartSucceeds
  BY <1>9, CallPlaces, VersionsAssumption DEF StartSucceeds, TypeOK, ShapeInv
<1>10. CASE CandidatesExhausted
  BY <1>10 DEF CandidatesExhausted, NoCall, CloseClaim, TypeOK, ClaimInv, Owner
<1>11. CASE CallUninstall
  BY <1>11 DEF CallUninstall
<1>12. CASE Retain
  BY <1>12 DEF Retain, TypeOK, ShapeInv
<1>13. CASE Unload
  BY <1>13 DEF Unload, NoImplementation, TypeOK, ShapeInv, ClaimInv, Owner
<1>14. CASE UninstallReturns
  BY <1>14 DEF UninstallReturns, NoCall, CloseClaim, TypeOK, ClaimInv, Owner
<1>15. CASE ReloadBootstrap
  BY <1>15 DEF ReloadBootstrap, NoCall, NoImplementation, CloseClaim, TypeOK, ShapeInv,
      ClaimInv, Owner
<1>16. CASE UNCHANGED vars
  BY <1>16 DEF vars
<1>17. CASE CandidateThrows
  <2>1. PICK b \in Bootstraps :
          /\ \/ /\ At(b, "try") /\ live' \in {live, live + 1}
                /\ UNCHANGED implementation
             \/ /\ At(b, "start") /\ UNCHANGED live
                /\ implementation' \in
                     { implementation, [implementation EXCEPT ![b] =
                                          [module |-> call[b].version, api |-> TRUE]] }
          /\ call' = [call EXCEPT ![b] = [at |-> "threw"]]
          /\ UNCHANGED <<claim, leaked, retained>>
    BY <1>17 DEF CandidateThrows
  <2>2. /\ Owner(b) /\ claim[b] /\ ~leaked /\ implementation[b].module = None
        /\ \A c \in Bootstraps : Owner(c) => c = b
        /\ \A c \in Bootstraps : ~Abandoned(c)
    BY <2>1 DEF Owner, At, Idle, ShapeInv, ClaimInv
  <2>3. ~retained
    BY <2>2 DEF LiveInv, Owner
  <2>4. \A c \in Bootstraps : Holding(c) => c = b
    BY <2>2 DEF Holding, Owner, At
  <2>5. /\ \A c \in Bootstraps \ {b} : ~Holding(c)'
        /\ Holding(b)' <=> implementation'[b].module # None
    BY <2>1, <2>4 DEF Holding, At, TypeOK
  <2>6. live' \in {0, 1}
    BY <2>1, <2>2, <2>3, <2>4 DEF LiveInv, Holding, At
  <2>7. Holding(b)' => live' = 1
    BY <2>1, <2>2, <2>5 DEF LiveInv, Holding
  <2>8. ~Holding(b)' => Abandoned(b)'
    BY <2>1, <2>2, <2>5 DEF Abandoned, Idle, TypeOK
  <2> QED
    BY <2>1, <2>3, <2>5, <2>6, <2>7, <2>8 DEF LiveInv
<1> QED
  BY <1>1, <1>2, <1>3, <1>4, <1>5, <1>6, <1>7, <1>8, <1>9, <1>10,
     <1>11, <1>12, <1>13, <1>14, <1>15, <1>16, <1>17 DEF Next

(* Every step leaves no claim behind. *)
LEMMA ReleaseStep ==
  ASSUME TypeOK, ShapeInv, ClaimReleased, [Next]_vars
  PROVE  ClaimReleased'
<1>1. CASE StartMod
  BY <1>1 DEF StartMod, At, TypeOK, ClaimReleased
<1>2. CASE ClaimRefused
  BY <1>2 DEF ClaimRefused, At, CloseClaim, TypeOK, ClaimReleased
<1>3. CASE SearchFails
  BY <1>3 DEF SearchFails, At, CloseClaim, TypeOK, ClaimReleased
<1>4. CASE SearchThrows
  BY <1>4 DEF SearchThrows, At, ClaimReleased
<1>5. CASE SearchSucceeds
  BY <1>5 DEF SearchSucceeds, At, Trying, ClaimReleased
<1>6. CASE CandidateUnusable
  BY <1>6 DEF CandidateUnusable, At, Trying, ClaimReleased
<1>7. CASE LoadCandidate
  BY <1>7 DEF LoadCandidate, At, ClaimReleased
<1>8. CASE StartFails
  BY <1>8 DEF StartFails, At, Trying, ClaimReleased
<1>9. CASE StartSucceeds
  BY <1>9, CallPlaces, VersionsAssumption DEF StartSucceeds, At, TypeOK, ClaimReleased
<1>10. CASE CandidatesExhausted
  BY <1>10 DEF CandidatesExhausted, At, CloseClaim, TypeOK, ClaimReleased
<1>11. CASE CallUninstall
  BY <1>11 DEF CallUninstall, At, ClaimReleased
<1>12. CASE Retain
  BY <1>12 DEF Retain, At, ShapeInv, ClaimReleased
<1>13. CASE Unload
  BY <1>13 DEF Unload, At, ClaimReleased
<1>14. CASE UninstallReturns
  BY <1>14 DEF UninstallReturns, At, CloseClaim, TypeOK, ClaimReleased
<1>15. CASE ReloadBootstrap
  BY <1>15 DEF ReloadBootstrap, At, CloseClaim, TypeOK, ClaimReleased
<1>16. CASE UNCHANGED vars
  BY <1>16 DEF vars, At, ClaimReleased
<1>17. CASE CandidateThrows
  BY <1>17 DEF CandidateThrows, At, TypeOK, ClaimReleased
<1> QED
  BY <1>1, <1>2, <1>3, <1>4, <1>5, <1>6, <1>7, <1>8, <1>9, <1>10,
     <1>11, <1>12, <1>13, <1>14, <1>15, <1>16, <1>17 DEF Next

(* Every step keeps the newest candidate first. *)
LEMMA ChoiceStep ==
  ASSUME TypeOK, ShapeInv, ChoiceInv, [Next]_vars
  PROVE  ChoiceInv'
<1>1. CASE StartMod
  BY <1>1 DEF StartMod, At, ChoiceInv
<1>2. CASE ClaimRefused
  BY <1>2 DEF ClaimRefused, At, NoCall, ChoiceInv
<1>3. CASE SearchFails
  BY <1>3 DEF SearchFails, At, NoCall, ChoiceInv
<1>4. CASE SearchThrows
  BY <1>4 DEF SearchThrows, At, ChoiceInv
<1>5. CASE SearchSucceeds
  BY <1>5 DEF SearchSucceeds, At, Trying, ChoiceInv, Candidates
<1>6. CASE CandidateUnusable
  BY <1>6 DEF CandidateUnusable, At, Trying, ChoiceInv
<1>7. CASE LoadCandidate
  BY <1>7 DEF LoadCandidate, At, ChoiceInv, IsNextCandidate
<1>8. CASE StartFails
  BY <1>8 DEF StartFails, At, Trying, ChoiceInv
<1>9. CASE StartSucceeds
  BY <1>9 DEF StartSucceeds, At, NoCall, ChoiceInv
<1>10. CASE CandidatesExhausted
  BY <1>10 DEF CandidatesExhausted, At, NoCall, ChoiceInv
<1>11. CASE CallUninstall
  BY <1>11 DEF CallUninstall, At, ChoiceInv
<1>12. CASE Retain
  BY <1>12 DEF Retain, At, NoCall, ChoiceInv
<1>13. CASE Unload
  BY <1>13 DEF Unload, At, ChoiceInv
<1>14. CASE UninstallReturns
  BY <1>14 DEF UninstallReturns, At, NoCall, ChoiceInv
<1>15. CASE ReloadBootstrap
  BY <1>15 DEF ReloadBootstrap, At, NoCall, ChoiceInv
<1>16. CASE UNCHANGED vars
  BY <1>16 DEF vars, At, ChoiceInv
<1>17. CASE CandidateThrows
  BY <1>17 DEF CandidateThrows, At, ChoiceInv
<1> QED
  BY <1>1, <1>2, <1>3, <1>4, <1>5, <1>6, <1>7, <1>8, <1>9, <1>10,
     <1>11, <1>12, <1>13, <1>14, <1>15, <1>16, <1>17 DEF Next

-----------------------------------------------------------------------------
(* The invariant holds in every reachable state. *)
THEOREM Invariance == Spec => []Inv
<1>1. Init => Inv
  BY InitHolds DEF Inv
<1>2. Inv /\ [Next]_vars => Inv'
  BY TypeStep, ShapeStep, ClaimStep, LiveStep DEF Inv
<1> QED
  BY <1>1, <1>2, PTL DEF Spec

(* The variables have their types, and FreeLibrary is never called for a module
   that is not loaded. *)
THEOREM TypeCorrect == Spec => []TypeOK
<1>1. Inv => TypeOK
  BY DEF Inv
<1> QED
  BY <1>1, Invariance, PTL

(* However many copies of main.dll a process loads and reloads, at most one
   implementation is loaded at a time: start_mod and uninstall_mod keep the
   process-wide claim exclusive. *)
THEOREM OneImplementationEver == Spec => []OneImplementation
<1>1. Inv => OneImplementation
  <2> SUFFICES ASSUME Inv PROVE live <= 1
    BY DEF OneImplementation
  <2>1. CASE \E b \in Bootstraps : Holding(b)
    BY <2>1 DEF Inv, LiveInv
  <2>2. CASE \A b \in Bootstraps : ~Holding(b)
    BY <2>2 DEF Inv, LiveInv
  <2> QED
    BY <2>1, <2>2
<1> QED
  BY <1>1, Invariance, PTL

(* uninstall_mod never frees a module that asked to be retained, and no later
   call of any copy does. *)
THEOREM RetainedForGood == Spec => []RetainedStaysLoaded
<1>1. Inv => RetainedStaysLoaded
  <2> SUFFICES ASSUME Inv, retained PROVE live >= 1
    BY DEF RetainedStaysLoaded
  <2>1. CASE \E b \in Bootstraps : Holding(b)
    BY <2>1 DEF Inv, LiveInv
  <2>2. CASE \A b \in Bootstraps : ~Holding(b)
    BY <2>2 DEF Inv, LiveInv
  <2> QED
    BY <2>1, <2>2
<1> QED
  BY <1>1, Invariance, PTL

(* start_mod and uninstall_mod leave no claim behind that nothing needs. *)
THEOREM ClaimGivenBack == Spec => []ClaimReleased
<1>1. Init => ClaimReleased
  BY DEF Init, ClaimReleased
<1>2. Inv /\ ClaimReleased /\ [Next]_vars => ClaimReleased'
  BY ReleaseStep DEF Inv
<1> QED
  BY <1>1, <1>2, Invariance, PTL DEF Spec

(* start_mod starts the exact version, or the newest of those it discovered
   that did not fail. *)
THEOREM NewestStarts == Spec => NewestUsableStarts
<1> DEFINE A == \A b \in Bootstraps :
        (implementation[b].module = None /\ implementation'[b].module # None) =>
          LET v == implementation'[b].module
              c == call[b]
          IN
            /\ v \in c.found
            /\ c.exact \in {None, v}
            /\ \A w \in c.rest : ~Newer(w, v)
<1>1. Init => ChoiceInv
  BY DEF Init, ChoiceInv, At, NoCall
<1>2. Inv /\ ChoiceInv /\ [Next]_vars => ChoiceInv'
  BY ChoiceStep DEF Inv
<1>3. Inv /\ ChoiceInv /\ [Next]_vars => [A]_vars
  <2> SUFFICES ASSUME Inv, ChoiceInv, Next PROVE A
    OBVIOUS
  <2>1. CASE StartSucceeds \/ CandidateThrows
    BY <2>1 DEF StartSucceeds, CandidateThrows, ChoiceInv, At, Inv, TypeOK
  <2>2. CASE UNCHANGED implementation
    BY <2>2
  <2>3. CASE Retain \/ Unload \/ ReloadBootstrap
    BY <2>3 DEF Retain, Unload, ReloadBootstrap, NoImplementation, Inv, TypeOK
  <2>4. \/ StartSucceeds \/ CandidateThrows \/ UNCHANGED implementation
        \/ Retain \/ Unload \/ ReloadBootstrap
    BY DEF Next, StartMod, ClaimRefused, SearchFails, SearchThrows, SearchSucceeds,
           CandidateUnusable, LoadCandidate, StartFails, CandidatesExhausted, CallUninstall,
           UninstallReturns
  <2> QED
    BY <2>1, <2>2, <2>3, <2>4
<1> QED
  BY <1>1, <1>2, <1>3, Invariance, PTL DEF Spec, NewestUsableStarts
=============================================================================
