-------------------------- MODULE LifecycleProofs --------------------------
(***************************************************************************)
(* Proofs about LifecycleRegistry, for any sessions, slots, addresses,     *)
(* limits and bounds.                                                      *)
(***************************************************************************)
EXTENDS LifecycleRegistry, FiniteSetTheorems, TLAPS

USE BoundsAssumption

-----------------------------------------------------------------------------
(* Tokens and queues of losses.                                            *)

Item == [object : 0..MaxObjects, serial : 0..MaxObjects,
         phase : {"free", "created", "creating", "live", "deleted", "deleting", "dying"}]
Observation == [session : Sessions, address : Addresses, index : Indices,
                serial : 0..MaxObjects, object : 0..MaxObjects, reporting : BOOLEAN]

LEMMA Shapes ==
  ASSUME RegistryOK
  PROVE  /\ record \in Seq(Observation) /\ Len(record) \in 0..MaxTokens
         /\ DOMAIN record = 1..Len(record) /\ DOMAIN record \subseteq TokenIds
         /\ \A t \in DOMAIN record : record[t] \in Observation
         /\ \A x \in Sessions : observations[x] \subseteq Observed
         /\ Observed \subseteq DOMAIN record /\ IsFiniteSet(Observed)
         /\ Cardinality(Observed) \in Nat /\ (Cardinality(Observed) = 0 <=> Observed = {})
<1>1. record \in Seq(Observation) /\ Len(record) <= MaxTokens
  BY DEF RegistryOK, Observation
<1>2. Len(record) \in 0..MaxTokens /\ DOMAIN record = 1..Len(record)
  BY <1>1
<1>3. DOMAIN record \subseteq TokenIds /\ \A t \in DOMAIN record : record[t] \in Observation
  BY <1>1, <1>2 DEF TokenIds
<1>4. Observed \subseteq DOMAIN record /\ \A x \in Sessions : observations[x] \subseteq Observed
  BY DEF Observed, RegistryOK
<1>5. IsFiniteSet(DOMAIN record)
  BY <1>2, FS_Interval
<1>6. IsFiniteSet(Observed)
  BY <1>4, <1>5, FS_Subset
<1>7. Cardinality(Observed) \in Nat /\ (Cardinality(Observed) = 0 <=> Observed = {})
  BY <1>6, FS_CardinalityType, FS_EmptySet
<1>8. QED
  BY <1>1, <1>2, <1>3, <1>4, <1>6, <1>7

LEMMA RowsOf ==
  ASSUME NEW S, IsFiniteSet(S), NEW q \in Rows(S)
  PROVE  /\ q \in Seq(S) /\ Len(q) = Cardinality(S) /\ Len(q) \in Nat /\ DOMAIN q = 1..Len(q)
         /\ \A t \in S : \E i \in 1..Len(q) : q[i] = t
         /\ \A i, j \in 1..Len(q) : q[i] = q[j] => i = j
<1> DEFINE n == Cardinality(S)
<1>1. n \in Nat
  BY FS_CardinalityType
<1>2. q \in [1..n -> S] /\ IsInjective(q)
  BY DEF Rows
<1>3. q \in Injection(1..n, S)
  BY <1>2 DEF Injection
<1>4. Cardinality(1..n) = n
  BY <1>1, FS_Interval
<1>5. q \in Surjection(1..n, S)
  BY <1>3, <1>4, FS_Injection
<1>6. \A t \in S : \E i \in 1..n : q[i] = t
  BY <1>5 DEF Surjection
<1> HIDE DEF n
<1>7. q \in Seq(S) /\ Len(q) = n /\ DOMAIN q = 1..n
  BY <1>1, <1>2
<1>8. \A i, j \in 1..n : q[i] = q[j] => i = j
  BY <1>2, <1>7 DEF IsInjective
<1>9. QED
  BY <1>1, <1>6, <1>7, <1>8 DEF n

LEMMA Dropping ==
  ASSUME RegistryOK, NEW gone, Drop(gone)
  PROVE  /\ observations' \in [Sessions -> SUBSET DOMAIN record]
         /\ tokens' \in [Sessions -> SUBSET DOMAIN record]
         /\ \A x \in Sessions : /\ observations'[x] = observations[x] \ gone
                                /\ tokens'[x] = tokens[x] \ gone
         /\ by_index' = by_index \ gone /\ by_address' = by_address \ gone
         /\ Observed' = Observed \ gone
         /\ observed' = Cardinality(Observed') /\ observed' \in Nat
<1>1. /\ observations' = [x \in Sessions |-> observations[x] \ gone]
      /\ tokens' = [x \in Sessions |-> tokens[x] \ gone]
      /\ by_index' = by_index \ gone /\ by_address' = by_address \ gone
      /\ observed' = Cardinality(Observed')
  BY DEF Drop, PublishCount
<1>2. Observed' = Observed \ gone
  BY <1>1 DEF Observed
<1>3. Cardinality(Observed') \in Nat
  BY <1>2, Shapes, FS_Difference, FS_CardinalityType
<1>4. QED
  BY <1>1, <1>2, <1>3 DEF RegistryOK

(* What each session's queue becomes when tokens are lost. *)
LEMMA Losing ==
  ASSUME RegistryOK, LossesOK, NEW gone, Lose(gone)
  PROVE  /\ DOMAIN lost' = Sessions /\ overflow' \in [Sessions -> BOOLEAN]
         /\ \A x \in Sessions :
              \/ /\ report_losses[x] /\ ~overflow[x]
                 /\ \/ lost'[x] = <<>> /\ overflow'[x]
                    \/ /\ ~overflow'[x]
                       /\ \E q \in Rows(gone \cap observations[x]) : lost'[x] = lost[x] \o q
              \/ /\ lost'[x] = lost[x] /\ overflow'[x] = overflow[x]
                 /\ \/ ~report_losses[x] \/ overflow[x]
                    \/ gone \cap observations[x] = {}
<1>1. PICK rows \in [Sessions -> UNION { Rows(gone \cap observations[x]) : x \in Sessions }] :
    LET queues(x) == report_losses[x] /\ ~overflow[x] /\ gone \cap observations[x] # {}
        fits(x) == Len(lost[x]) + Len(rows[x]) <= LossLimit
    IN /\ \A x \in Sessions : rows[x] \in Rows(gone \cap observations[x])
       /\ lost' = [x \in Sessions |->
            IF queues(x) THEN IF fits(x) THEN lost[x] \o rows[x] ELSE <<>> ELSE lost[x]]
       /\ overflow' = [x \in Sessions |-> overflow[x] \/ (queues(x) /\ ~fits(x))]
  BY Zenon DEF Lose
<1> DEFINE queues(x) == report_losses[x] /\ ~overflow[x] /\ gone \cap observations[x] # {}
           fits(x) == Len(lost[x]) + Len(rows[x]) <= LossLimit
<1>2. /\ \A x \in Sessions : rows[x] \in Rows(gone \cap observations[x])
      /\ lost' = [x \in Sessions |->
            IF queues(x) THEN IF fits(x) THEN lost[x] \o rows[x] ELSE <<>> ELSE lost[x]]
      /\ overflow' = [x \in Sessions |-> overflow[x] \/ (queues(x) /\ ~fits(x))]
  BY <1>1
<1> HIDE DEF fits
<1>3. \A x \in Sessions : overflow[x] \in BOOLEAN
  BY DEF LossesOK
<1>4. QED
  BY <1>2, <1>3
(* A capture adds one observation under the next token. *)
LEMMA Adding ==
  ASSUME TypeOK, CaptureAdds, NEW t, t = Len(record) + 1
  PROVE  /\ t \in TokenIds /\ t \notin DOMAIN record /\ game.session \in Sessions
         /\ Capturing /\ MayCapture /\ Existing = {} /\ game.index \in Indices
         /\ record' \in Seq(Observation) /\ Len(record') = t /\ Len(record') <= MaxTokens
         /\ DOMAIN record' = DOMAIN record \cup {t} /\ record'[t] = NewRecord
         /\ \A u \in DOMAIN record : record'[u] = record[u]
         /\ observations' \in [Sessions -> SUBSET DOMAIN record']
         /\ tokens' \in [Sessions -> SUBSET DOMAIN record']
         /\ \A x \in Sessions :
              /\ observations'[x] = IF x = game.session THEN observations[x] \cup {t}
                                    ELSE observations[x]
              /\ tokens'[x] = IF x = game.session THEN tokens[x] \cup {t} ELSE tokens[x]
         /\ references' \in [TokenIds -> 0..MaxReferences] /\ references'[t] = 1
         /\ \A u \in TokenIds \ {t} : references'[u] = references[u]
         /\ by_index' = by_index \cup {t} /\ by_address' = by_address \cup {t}
         /\ Observed' = Observed \cup {t}
         /\ observed' = Cardinality(Observed') /\ observed' \in Nat
         /\ game' = NoCall
         /\ UNCHANGED <<engine, service, sessions_, losses, history>>
<1> USE DEF TypeOK
<1>1. /\ Capturing /\ MayCapture /\ Existing = {} /\ Len(record) < MaxTokens
      /\ record' = Append(record, NewRecord)
      /\ observations' = [observations EXCEPT ![game.session] = @ \cup {t}]
      /\ tokens' = [tokens EXCEPT ![game.session] = @ \cup {t}]
      /\ references' = [references EXCEPT ![t] = 1]
      /\ by_index' = by_index \cup {t} /\ by_address' = by_address \cup {t}
      /\ observed' = Cardinality(Observed') /\ game' = NoCall
      /\ UNCHANGED <<engine, service, sessions_, losses, history>>
  BY DEF CaptureAdds, PublishCount
<1>2. game.op = "capture" /\ game.at = "locked" /\ game # NoCall
  BY <1>1 DEF Capturing, NoCall
<1>3. /\ game.session \in Sessions /\ game.address \in Addresses /\ game.index \in Indices
      /\ game.serial \in 0..MaxObjects /\ game.object \in 0..MaxObjects
  BY <1>2 DEF GameOK
<1>4. NewRecord \in Observation
  <2>1. report_losses[game.session] \in BOOLEAN
    BY <1>3 DEF LossesOK
  <2>2. QED
    BY <1>3, <2>1, Zenon DEF NewRecord, Observation
<1>5. /\ t \in TokenIds /\ t \notin DOMAIN record
      /\ record' \in Seq(Observation) /\ Len(record') = t /\ Len(record') <= MaxTokens
      /\ DOMAIN record' = DOMAIN record \cup {t} /\ record'[t] = NewRecord
      /\ \A u \in DOMAIN record : record'[u] = record[u]
  BY <1>1, <1>4, Shapes DEF TokenIds
<1>6. /\ observations' \in [Sessions -> SUBSET DOMAIN record']
      /\ tokens' \in [Sessions -> SUBSET DOMAIN record']
      /\ \A x \in Sessions :
           /\ observations'[x] = IF x = game.session THEN observations[x] \cup {t}
                                 ELSE observations[x]
           /\ tokens'[x] = IF x = game.session THEN tokens[x] \cup {t} ELSE tokens[x]
  BY <1>1, <1>3, <1>5 DEF RegistryOK
<1>7. /\ references' \in [TokenIds -> 0..MaxReferences] /\ references'[t] = 1
      /\ \A u \in TokenIds \ {t} : references'[u] = references[u]
  BY <1>1, <1>5 DEF RegistryOK
<1>8. Observed' = Observed \cup {t}
  BY <1>3, <1>6 DEF Observed
<1>9. Cardinality(Observed') \in Nat
  BY <1>8, Shapes, FS_AddElement, FS_CardinalityType
<1>10. QED
  BY <1>1, <1>3, <1>5, <1>6, <1>7, <1>8, <1>9

-----------------------------------------------------------------------------
(* Types.                                                                  *)

(* The steps that leave the watches and the losses alone. *)
Reading == CallCapture \/ CallValid \/ ReadObject \/ ReadSerial \/ CaptureRefused \/ ValidReturns
Array == CreateObject \/ AllocateSerial \/ DeleteObject \/ NotifyBegins \/ FreeObject

LEMMA NextArrayOK == ASSUME TypeOK, [Next]_vars PROVE ArrayOK'
<1> USE DEF TypeOK, Item
<1>1. CASE UNCHANGED engine
  BY <1>1 DEF ArrayOK, engine
<1>2. CASE CreateObject
  <2>1. PICK i \in Indices, a \in Addresses :
          /\ address' = Append(address, a)
          /\ slots' = [slots EXCEPT ![i] =
               [object |-> Len(address) + 1, serial |-> 0, phase |-> "created"]]
    BY <1>2 DEF CreateObject
  <2>2. Len(address) < MaxObjects /\ due' = due
    BY <1>2 DEF CreateObject
  <2>3. address' \in Seq(Addresses) /\ Len(address') = Len(address) + 1 /\ Len(address) \in Nat
    BY <2>1 DEF ArrayOK
  <2>4. [object |-> Len(address) + 1, serial |-> 0, phase |-> "created"] \in Item
    BY <2>2, <2>3 DEF Item
  <2>5. slots' \in [Indices -> Item]
    BY <2>1, <2>4 DEF ArrayOK
  <2>6. \A j \in Indices : slots'[j].object <= Len(address')
    <3>1. TAKE j \in Indices
    <3>2. CASE j = i
      BY <2>1, <2>3, <3>2 DEF ArrayOK
    <3>3. CASE j # i
      <4>1. slots'[j] = slots[j] /\ slots[j].object \in 0..MaxObjects
            /\ slots[j].object <= Len(address)
        BY <2>1, <3>3 DEF ArrayOK
      <4>2. QED
        BY <2>3, <4>1
    <3>4. QED
      BY <3>2, <3>3
  <2>7. QED
    BY <2>2, <2>3, <2>5, <2>6 DEF ArrayOK
<1>3. ASSUME NEW i \in Indices, NEW e \in Item, slots' = [slots EXCEPT ![i] = e],
             e.object \in {0, slots[i].object}, UNCHANGED address,
             due' \in [Indices -> SUBSET TokenIds]
      PROVE  ArrayOK'
  <2>1. slots' \in [Indices -> Item]
    BY <1>3 DEF ArrayOK
  <2>2. \A j \in Indices : slots'[j].object <= Len(address)
    <3>1. TAKE j \in Indices
    <3>2. slots[j].object <= Len(address) /\ 0 <= Len(address)
      BY DEF ArrayOK
    <3>3. slots'[j].object \in {0, slots[j].object}
      BY <1>3 DEF ArrayOK
    <3>4. QED
      BY <3>2, <3>3
  <2>3. QED
    BY <1>3, <2>1, <2>2 DEF ArrayOK
<1>4. CASE AllocateSerial
  <2>1. PICK i \in Indices : slots' = [slots EXCEPT ![i].serial = slots[i].object]
    BY <1>4 DEF AllocateSerial
  <2>2. [slots[i] EXCEPT !.serial = slots[i].object] \in Item
    BY DEF ArrayOK
  <2>3. slots' = [slots EXCEPT ![i] = [slots[i] EXCEPT !.serial = slots[i].object]]
    BY <2>1 DEF ArrayOK
  <2>4. QED
    BY <1>3, <1>4, <2>2, <2>3 DEF AllocateSerial, ArrayOK
<1>5. ASSUME NEW i \in Indices, NEW p \in {"free", "created", "creating", "live", "deleted", "deleting", "dying"},
             slots' = [slots EXCEPT ![i].phase = p], UNCHANGED address,
             due' \in [Indices -> SUBSET TokenIds]
      PROVE  ArrayOK'
  <2>1. [slots[i] EXCEPT !.phase = p] \in Item
    BY DEF ArrayOK
  <2>2. slots' = [slots EXCEPT ![i] = [slots[i] EXCEPT !.phase = p]]
    BY <1>5 DEF ArrayOK
  <2>3. QED
    BY <1>3, <1>5, <2>1, <2>2 DEF ArrayOK
<1>6. CASE DeleteObject
  BY <1>5, <1>6 DEF DeleteObject, ArrayOK
<1>7. ASSUME NEW i \in Indices, Notified(i), UNCHANGED address PROVE ArrayOK'
  <2>1. PICK p \in {"live", "dying"} :
          p = IF slots[i].phase \in {"created", "creating"} THEN "live" ELSE "dying"
    OBVIOUS
  <2>2. slots' = [slots EXCEPT ![i].phase = p] /\ due' \in [Indices -> SUBSET TokenIds]
    BY <1>7, <2>1 DEF Notified, ArrayOK
  <2>3. QED
    BY <1>5, <1>7, <2>2
<1>8. CASE NotifyBegins
  <2>1. PICK i \in Indices :
          IF Listening /\ observed # 0
          THEN /\ slots' = [slots EXCEPT ![i].phase =
                              IF @ = "created" THEN "creating" ELSE "deleting"]
               /\ due' = [due EXCEPT ![i] = Concerned(i)]
          ELSE Notified(i)
    BY <1>8 DEF NotifyBegins
  <2>2. UNCHANGED address
    BY <1>8 DEF NotifyBegins
  <2>3. CASE Notified(i)
    BY <1>7, <2>2, <2>3
  <2>4. CASE /\ slots' = [slots EXCEPT ![i].phase =
                            IF @ = "created" THEN "creating" ELSE "deleting"]
             /\ due' = [due EXCEPT ![i] = Concerned(i)]
    <3>1. PICK p \in {"creating", "deleting"} :
            p = IF slots[i].phase = "created" THEN "creating" ELSE "deleting"
      OBVIOUS
    <3>2. Concerned(i) \subseteq TokenIds
      BY Shapes DEF Concerned
    <3>3. slots' = [slots EXCEPT ![i].phase = p] /\ due' \in [Indices -> SUBSET TokenIds]
      BY <2>4, <3>1, <3>2 DEF ArrayOK
    <3>4. QED
      BY <1>5, <2>2, <3>3
  <2>5. QED
    BY <2>1, <2>3, <2>4
<1>9. CASE Invalidate
  BY <1>7, <1>9 DEF Invalidate
<1>10. CASE FreeObject
  <2>1. FreeSlot \in Item /\ FreeSlot.object = 0
    BY DEF FreeSlot
  <2>2. QED
    BY <1>3, <1>10, <2>1 DEF FreeObject, ArrayOK
<1>11. QED
  BY <1>1, <1>2, <1>4, <1>6, <1>8, <1>9, <1>10
     DEF Next, Registry, Game, ObjectArray, Service, StartSession, StopSession, ReportLosses,
         TakeLost, Release, CallCapture, CallValid, ReadObject, ReadSerial, CaptureRefused,
         CaptureRepeats, CaptureAdds, ValidReturns, StartService, StopService,
         ShutdownRegistry, vars
(* The steps that end observations, and whose. *)
Ending(gone) ==
  /\ Drop(gone) /\ UNCHANGED record
  /\ \/ \E x \in Sessions : /\ gone = observations[x] /\ Registered(x) /\ Forget({x})
                            /\ UNCHANGED <<engine, service, references, history, game>>
     \/ \E x \in Sessions : \E t \in observations[x] :
          /\ gone = {t} /\ ~(references[t] > 1)
          /\ references' = [references EXCEPT ![t] = @ - 1] /\ released' = released \cup {t}
          /\ UNCHANGED <<engine, service, sessions_, losses, taken, game>>
     \/ \E i \in Indices :
          /\ slots[i].phase \in {"creating", "deleting"}
          /\ gone = Matched(i) \cap Observed /\ Lose(gone) /\ Notified(i)
          /\ UNCHANGED <<address, service, sessions_, references, report_losses, history, game>>
     \/ /\ gone = Observed /\ Forget({ x \in Sessions : Registered(x) }) /\ service' = "down"
        /\ UNCHANGED <<engine, references, history, game>>

(* A capture of several is given back. *)
GivingBack ==
  /\ \E x \in Sessions : \E t \in observations[x] :
       references[t] > 1 /\ references' = [references EXCEPT ![t] = @ - 1]
  /\ UNCHANGED <<engine, service, sessions_, record, watches, losses, history, game>>

LEMMA Steps ==
  ASSUME [Next]_vars
  PROVE  \/ \E gone : Ending(gone)
         \/ CaptureAdds
         \/ /\ UNCHANGED <<record, watches>>
            /\ \/ StartSession \/ ReportLosses \/ TakeLost \/ GivingBack \/ Reading
               \/ CaptureRepeats \/ Array \/ StartService \/ StopService \/ UNCHANGED vars
<1>1. CASE StopSession
  BY <1>1 DEF StopSession, Ending
<1>2. CASE Release
  <2>1. PICK x \in Sessions : \E u \in observations[x] :
          /\ references' = [references EXCEPT ![u] = @ - 1]
          /\ IF references[u] > 1 THEN UNCHANGED <<watches, released>>
             ELSE Drop({u}) /\ released' = released \cup {u}
    BY <1>2 DEF Release
  <2>2. PICK t \in observations[x] :
          /\ references' = [references EXCEPT ![t] = @ - 1]
          /\ IF references[t] > 1 THEN UNCHANGED <<watches, released>>
             ELSE Drop({t}) /\ released' = released \cup {t}
    BY <2>1
  <2>3. UNCHANGED <<engine, service, sessions_, record, losses, taken, game>>
    BY <1>2 DEF Release
  <2>4. CASE references[t] > 1
    <3>1. GivingBack
      BY <2>2, <2>3, <2>4 DEF GivingBack, history
    <3>2. QED
      BY <3>1, <2>2, <2>3, <2>4
  <2>5. CASE ~(references[t] > 1)
    <3>1. Ending({t})
      BY <2>2, <2>3, <2>5 DEF Ending
    <3>2. QED
      BY <3>1
  <2>6. QED
    BY <2>4, <2>5
<1>3. CASE Invalidate
  BY <1>3 DEF Invalidate, Ending
<1>4. CASE ShutdownRegistry
  BY <1>4 DEF ShutdownRegistry, Ending
<1>5. ASSUME Reading \/ Array PROVE UNCHANGED <<record, watches>>
  BY <1>5 DEF Reading, Array, CallCapture, CallValid, ReadObject, ReadSerial, CaptureRefused,
     ValidReturns, CreateObject, AllocateSerial, DeleteObject, NotifyBegins, FreeObject
<1>6. ASSUME StartSession \/ ReportLosses \/ TakeLost \/ CaptureRepeats \/ StartService
             \/ StopService \/ UNCHANGED vars
      PROVE  UNCHANGED <<record, watches>>
  BY <1>6 DEF StartSession, ReportLosses, TakeLost, CaptureRepeats, StartService, StopService, vars
<1>7. QED
  BY <1>1, <1>2, <1>3, <1>4, <1>5, <1>6
     DEF Next, Registry, Game, ObjectArray, Service, Reading, Array

LEMMA Forgetting ==
  ASSUME RegistryOK, LossesOK, NEW gone, Forget(gone)
  PROVE  /\ sessions_' \in [Sessions -> {"new", "registered", "gone"}]
         /\ report_losses' \in [Sessions -> BOOLEAN] /\ overflow' \in [Sessions -> BOOLEAN]
         /\ DOMAIN lost' = Sessions
         /\ \A x \in gone \cap Sessions : /\ sessions_'[x] = "gone" /\ lost'[x] = <<>>
                                          /\ ~overflow'[x]
         /\ \A x \in Sessions \ gone :
              /\ sessions_'[x] = sessions_[x] /\ lost'[x] = lost[x]
              /\ overflow'[x] = overflow[x] /\ report_losses'[x] = report_losses[x]
<1>1. \A x \in Sessions : overflow[x] \in BOOLEAN /\ report_losses[x] \in BOOLEAN
  BY DEF LossesOK
<1>2. QED
  BY <1>1 DEF Forget, RegistryOK

(* Observations are held by somebody: without it the counts could run below 0. *)
Held == \A t \in Observed : references[t] > 0

LEMMA NextRegistryOK == ASSUME TypeOK, Held, [Next]_vars PROVE RegistryOK' /\ Held'
<1> USE DEF TypeOK
<1>1. ASSUME NEW t \in Observed, references' = [references EXCEPT ![t] = @ - 1]
      PROVE  /\ references' \in [TokenIds -> 0..MaxReferences]
             /\ \A u \in Observed \ {t} : references'[u] > 0
             /\ references[t] > 1 => references'[t] > 0
  <2>1. t \in TokenIds /\ Observed \subseteq TokenIds
    BY Shapes
  <2>2. references[t] \in 0..MaxReferences /\ references[t] > 0
    BY <2>1 DEF RegistryOK, Held
  <2>3. references[t] - 1 \in 0..MaxReferences /\ (references[t] > 1 => references[t] - 1 > 0)
    BY <2>2
  <2>4. QED
    BY <1>1, <2>1, <2>3 DEF RegistryOK, Held
<1>2. ASSUME NEW gone, Ending(gone) PROVE RegistryOK' /\ Held'
  <2>1. Drop(gone) /\ UNCHANGED record
    BY <1>2 DEF Ending
  <2>2. /\ observations' \in [Sessions -> SUBSET DOMAIN record]
        /\ tokens' \in [Sessions -> SUBSET DOMAIN record]
        /\ by_index' \subseteq DOMAIN record /\ by_address' \subseteq DOMAIN record
        /\ observed' \in Nat /\ Observed' = Observed \ gone
    BY <2>1, Dropping DEF RegistryOK
  <2>3. sessions_' \in [Sessions -> {"new", "registered", "gone"}]
    BY <1>2, Forgetting DEF Ending, RegistryOK
  <2>4. references' \in [TokenIds -> 0..MaxReferences] /\ Held'
    <3>1. ASSUME NEW x \in Sessions, NEW t \in observations[x], gone = {t},
                 references' = [references EXCEPT ![t] = @ - 1]
          PROVE  references' \in [TokenIds -> 0..MaxReferences] /\ Held'
      <4>1. t \in Observed
        BY <3>1, Shapes
      <4>2. QED
        BY <1>1, <2>2, <3>1, <4>1 DEF Held
    <3>2. ASSUME references' = references
          PROVE  references' \in [TokenIds -> 0..MaxReferences] /\ Held'
      BY <2>2, <3>2 DEF RegistryOK, Held
    <3>3. QED
      BY <1>2, <3>1, <3>2 DEF Ending
  <2>5. service' \in {"off", "listening", "ready", "stopping", "removed", "down"}
    BY <1>2 DEF Ending, RegistryOK
  <2>6. QED
    BY <2>1, <2>2, <2>3, <2>4, <2>5 DEF RegistryOK
<1>3. CASE CaptureAdds
  <2>1. PICK t : t = Len(record) + 1
    OBVIOUS
  <2>2. /\ t \in TokenIds /\ t \notin DOMAIN record
        /\ record' \in Seq(Observation) /\ Len(record') <= MaxTokens
        /\ observations' \in [Sessions -> SUBSET DOMAIN record']
        /\ tokens' \in [Sessions -> SUBSET DOMAIN record']
        /\ references' \in [TokenIds -> 0..MaxReferences] /\ references'[t] = 1
        /\ \A u \in TokenIds \ {t} : references'[u] = references[u]
        /\ DOMAIN record' = DOMAIN record \cup {t}
        /\ by_index' = by_index \cup {t} /\ by_address' = by_address \cup {t}
        /\ Observed' = Observed \cup {t}
        /\ observed' \in Nat /\ UNCHANGED <<service, sessions_>>
    BY <1>3, <2>1, Adding
  <2>3. by_index' \subseteq DOMAIN record' /\ by_address' \subseteq DOMAIN record'
    BY <2>2 DEF RegistryOK
  <2>4. Held'
    <3>1. Observed \subseteq TokenIds
      BY Shapes
    <3>2. QED
      BY <2>2, <3>1 DEF Held
  <2>5. QED
    BY <2>2, <2>3, <2>4 DEF RegistryOK, Observation
<1>4. ASSUME UNCHANGED <<record, watches>>,
             \/ StartSession \/ ReportLosses \/ TakeLost \/ GivingBack \/ Reading
             \/ CaptureRepeats \/ Array \/ StartService \/ StopService \/ UNCHANGED vars
      PROVE  RegistryOK' /\ Held'
  <2>0. Observed' = Observed
    BY <1>4 DEF watches, Observed
  <2>1. /\ sessions_' \in [Sessions -> {"new", "registered", "gone"}]
        /\ service' \in {"off", "listening", "ready", "stopping", "removed", "down"}
    BY <1>4 DEF StartSession, ReportLosses, TakeLost, GivingBack, Reading, CaptureRepeats, Array,
       StartService, StopService, vars, CallCapture, CallValid, ReadObject, ReadSerial,
       CaptureRefused, ValidReturns, CreateObject, AllocateSerial, DeleteObject, NotifyBegins,
       FreeObject, RegistryOK
  <2>2. references' \in [TokenIds -> 0..MaxReferences] /\ Held'
    <3>1. CASE CaptureRepeats
      <4>1. PICK t \in Existing : /\ references[t] < MaxReferences
                                  /\ references' = [references EXCEPT ![t] = @ + 1]
        BY <3>1 DEF CaptureRepeats
      <4>2. game.session \in Sessions
        BY <3>1 DEF CaptureRepeats, Capturing, GameOK, NoCall
      <4>3. t \in TokenIds /\ Observed \subseteq TokenIds
        BY <4>2, Shapes DEF Existing, RegistryOK
      <4>4. references[t] \in 0..MaxReferences /\ references[t] + 1 \in 0..MaxReferences
            /\ references[t] + 1 > 0
        BY <4>1, <4>3 DEF RegistryOK
      <4>5. QED
        BY <2>0, <4>1, <4>3, <4>4 DEF RegistryOK, Held
    <3>2. CASE GivingBack
      <4>1. PICK x \in Sessions : \E u \in observations[x] :
              references[u] > 1 /\ references' = [references EXCEPT ![u] = @ - 1]
        BY <3>2 DEF GivingBack
      <4>2. PICK t \in observations[x] :
              references[t] > 1 /\ references' = [references EXCEPT ![t] = @ - 1]
        BY <4>1
      <4>3. t \in Observed
        BY Shapes
      <4>4. QED
        BY <1>1, <2>0, <4>2, <4>3 DEF Held
    <3>3. ASSUME ~CaptureRepeats, ~GivingBack PROVE UNCHANGED references
      BY <1>4, <3>3 DEF StartSession, ReportLosses, TakeLost, Reading, Array,
         StartService, StopService, vars, CallCapture, CallValid, ReadObject, ReadSerial,
         CaptureRefused, ValidReturns, CreateObject, AllocateSerial, DeleteObject, NotifyBegins,
         FreeObject
    <3>4. QED
      BY <2>0, <3>1, <3>2, <3>3 DEF RegistryOK, Held
  <2>3. QED
    BY <1>4, <2>1, <2>2 DEF RegistryOK, watches
<1>5. QED
  BY <1>2, <1>3, <1>4, Steps
LEMMA Taking ==
  ASSUME NEW S, NEW q \in Seq(S), q # <<>>
  PROVE  /\ Head(q) = q[1] /\ Head(q) \in S /\ Tail(q) \in Seq(S) /\ 1 \in DOMAIN q
         /\ Len(q) \in Nat \ {0} /\ Len(Tail(q)) = Len(q) - 1
         /\ \A i \in 1..Len(q) - 1 : Tail(q)[i] = q[i + 1]
<1>1. Len(q) \in Nat /\ Len(q) # 0
  OBVIOUS
<1>2. Head(q) = q[1] /\ Head(q) \in S /\ 1 \in DOMAIN q
  BY <1>1
<1>3. /\ Tail(q) \in Seq(S) /\ Len(Tail(q)) = Len(q) - 1
      /\ \A i \in 1..Len(q) - 1 : Tail(q)[i] = q[i + 1]
  BY <1>1
<1>4. QED
  BY <1>1, <1>2, <1>3

LEMMA NextLossesOK == ASSUME TypeOK, [Next]_vars PROVE LossesOK'
<1> USE DEF TypeOK
<1>1. /\ report_losses \in [Sessions -> BOOLEAN] /\ overflow \in [Sessions -> BOOLEAN]
      /\ DOMAIN lost = Sessions /\ \A x \in Sessions : lost[x] \in Seq(DOMAIN record)
      /\ released \subseteq DOMAIN record /\ taken \subseteq DOMAIN record
  BY DEF LossesOK
<1>2. <<>> \in Seq(DOMAIN record)
  OBVIOUS
<1>3. ASSUME NEW gone, Ending(gone) PROVE LossesOK'
  <2>1. Drop(gone) /\ UNCHANGED record
    BY <1>3 DEF Ending
  <2>2. ASSUME NEW g, Forget(g), UNCHANGED history PROVE LossesOK'
    <3>1. /\ report_losses' \in [Sessions -> BOOLEAN] /\ overflow' \in [Sessions -> BOOLEAN]
          /\ DOMAIN lost' = Sessions
          /\ \A x \in Sessions : lost'[x] = <<>> \/ lost'[x] = lost[x]
      BY <2>2, Forgetting
    <3>2. QED
      BY <1>1, <1>2, <2>1, <2>2, <3>1 DEF LossesOK, history
  <2>3. ASSUME NEW x \in Sessions, NEW t \in observations[x], released' = released \cup {t},
               UNCHANGED <<losses, taken>>
        PROVE  LossesOK'
    <3>1. t \in DOMAIN record
      BY <2>3 DEF RegistryOK
    <3>2. QED
      BY <1>1, <2>1, <2>3, <3>1 DEF LossesOK, losses
  <2>4. ASSUME gone \subseteq Observed, Lose(gone), UNCHANGED <<report_losses, history>>
        PROVE  LossesOK'
    <3>1. DOMAIN lost' = Sessions /\ overflow' \in [Sessions -> BOOLEAN]
      BY <2>4, Losing
    <3>2. ASSUME NEW x \in Sessions PROVE lost'[x] \in Seq(DOMAIN record)
      <4>1. \/ lost'[x] = <<>> \/ lost'[x] = lost[x]
            \/ \E q \in Rows(gone \cap observations[x]) : lost'[x] = lost[x] \o q
        BY <2>4, Losing
      <4>2. ASSUME NEW q \in Rows(gone \cap observations[x]), lost'[x] = lost[x] \o q
            PROVE  lost'[x] \in Seq(DOMAIN record)
        <5>1. gone \cap observations[x] \subseteq Observed /\ IsFiniteSet(Observed)
              /\ Observed \subseteq DOMAIN record
          BY <2>4, Shapes
        <5>2. IsFiniteSet(gone \cap observations[x])
          BY <5>1, FS_Subset
        <5>3. q \in Seq(gone \cap observations[x])
          BY <5>2, RowsOf
        <5>4. q \in Seq(DOMAIN record)
          BY <5>1, <5>3
        <5>5. QED
          BY <1>1, <4>2, <5>4
      <4>3. QED
        BY <1>1, <1>2, <4>1, <4>2
    <3>3. QED
      BY <1>1, <2>1, <2>4, <3>1, <3>2 DEF LossesOK, history
  <2>5. QED
    BY <1>3, <2>2, <2>3, <2>4 DEF Ending
<1>4. CASE CaptureAdds
  <2>1. PICK t : t = Len(record) + 1
    OBVIOUS
  <2>2. DOMAIN record' = DOMAIN record \cup {t} /\ UNCHANGED <<losses, history>>
    BY <1>4, <2>1, Adding
  <2>3. \A x \in Sessions : lost[x] \in Seq(DOMAIN record')
    BY <1>1, <2>2
  <2>4. QED
    BY <1>1, <2>2, <2>3 DEF LossesOK, losses, history
<1>5. CASE ReportLosses
  BY <1>1, <1>5 DEF ReportLosses, LossesOK, history
<1>6. CASE StartSession \/ GivingBack \/ Reading \/ CaptureRepeats \/ Array \/ StartService
           \/ StopService \/ UNCHANGED vars
  <2>1. UNCHANGED <<record, losses, history>>
    BY <1>6 DEF StartSession, GivingBack, Reading, CaptureRepeats, Array,
       StartService, StopService, vars, CallCapture, CallValid, ReadObject, ReadSerial,
       CaptureRefused, ValidReturns, CreateObject, AllocateSerial, DeleteObject, NotifyBegins,
       FreeObject
  <2>2. QED
    BY <1>1, <2>1 DEF LossesOK, losses, history
<1>7. CASE TakeLost
  <2>1. PICK x \in Sessions :
          /\ report_losses' = [report_losses EXCEPT ![x] = TRUE]
          /\ IF overflow[x] \/ lost[x] = <<>> THEN UNCHANGED <<lost, taken>>
             ELSE /\ taken' = taken \cup {Head(lost[x])}
                  /\ lost' = [lost EXCEPT ![x] = Tail(@)]
    BY <1>7 DEF TakeLost
  <2>2. UNCHANGED <<record, overflow, released>>
    BY <1>7 DEF TakeLost
  <2>3. report_losses' \in [Sessions -> BOOLEAN]
    BY <1>1, <2>1
  <2>4. /\ DOMAIN lost' = Sessions /\ \A y \in Sessions : lost'[y] \in Seq(DOMAIN record)
        /\ taken' \subseteq DOMAIN record
    <3>1. CASE UNCHANGED <<lost, taken>>
      BY <1>1, <3>1
    <3>2. CASE /\ lost[x] # <<>> /\ taken' = taken \cup {Head(lost[x])}
               /\ lost' = [lost EXCEPT ![x] = Tail(@)]
      <4>1. lost[x] \in Seq(DOMAIN record)
        BY <1>1
      <4>2. Head(lost[x]) \in DOMAIN record /\ Tail(lost[x]) \in Seq(DOMAIN record)
        BY <3>2, <4>1, Taking
      <4>3. QED
        BY <1>1, <3>2, <4>2
    <3>3. QED
      BY <2>1, <3>1, <3>2
  <2>5. QED
    BY <1>1, <2>2, <2>3, <2>4 DEF LossesOK
<1>8. QED
  BY <1>3, <1>4, <1>5, <1>6, <1>7, Steps

(* The game thread's call knows no more than what it has read. *)
LEMMA NextGameOK == ASSUME TypeOK, [Next]_vars PROVE GameOK'
<1> USE DEF TypeOK
<1>1. DOMAIN record \subseteq DOMAIN record'
  <2>1. CASE CaptureAdds
    BY <2>1, Adding
  <2>2. CASE UNCHANGED record
    BY <2>2
  <2>3. QED
    BY <2>1, <2>2, Steps DEF Ending
<1>2. CASE UNCHANGED game
  BY <1>1, <1>2 DEF GameOK
<1>3. CASE game' = NoCall
  BY <1>3 DEF GameOK
<1>4. CASE CallCapture
  <2>1. PICK x \in Sessions, a \in Addresses : game' = Call("capture", x, a, 0)
    BY <1>4 DEF CallCapture
  <2>2. QED
    BY <2>1 DEF Call, GameOK
<1>5. CASE CallValid
  <2>1. PICK x \in Sessions, a \in Addresses, t \in DOMAIN record : game' = Call("valid", x, a, t)
    BY <1>5 DEF CallValid
  <2>2. QED
    BY <1>1, <2>1 DEF Call, GameOK
<1>6. ASSUME game.op # "none"
      PROVE  /\ game \in [op : {"capture", "valid"}, at : {"object", "serial", "locked"},
                     session : Sessions, address : Addresses, token : {0} \cup DOMAIN record,
                     index : Indices \cup {0}, serial : 0..MaxObjects, object : 0..MaxObjects]
             /\ game.at # "object" => game.index \in Indices
             /\ game.op = "valid" => game.token \in DOMAIN record
  BY <1>6 DEF GameOK, NoCall
<1>7. CASE ReadObject /\ game' # NoCall
  <2>1. PICK i \in Indices : game' = [game EXCEPT !.at = "serial", !.index = i]
    BY <1>7 DEF ReadObject
  <2>2. game.op # "none"
    BY <1>7 DEF ReadObject
  <2>3. QED
    BY <1>1, <1>6, <2>1, <2>2 DEF GameOK
<1>8. CASE ReadSerial /\ game' # NoCall
  <2>1. /\ game' = [game EXCEPT !.at = "locked", !.serial = slots[game.index].serial,
                               !.object = slots[game.index].object]
        /\ game.op # "none" /\ game.at = "serial"
    BY <1>8 DEF ReadSerial
  <2>2. slots[game.index].serial \in 0..MaxObjects /\ slots[game.index].object \in 0..MaxObjects
    BY <1>6, <2>1 DEF ArrayOK
  <2>3. QED
    BY <1>1, <1>6, <2>1, <2>2 DEF GameOK
<1>9. QED
  BY <1>2, <1>3, <1>4, <1>5, <1>7, <1>8
     DEF Next, Registry, Game, ObjectArray, Service, StartSession, StopSession, ReportLosses,
         TakeLost, Release, CaptureRefused, CaptureRepeats, CaptureAdds, ValidReturns,
         CreateObject, AllocateSerial, DeleteObject, NotifyBegins, Invalidate, FreeObject,
         StartService, StopService, ShutdownRegistry, vars

TypeInv == TypeOK /\ Held

LEMMA InitTypeInv == Init => TypeInv
<1> SUFFICES ASSUME Init PROVE TypeInv
  OBVIOUS
<1>1. record = <<>> /\ DOMAIN record = {} /\ Len(record) = 0 /\ address = <<>> /\ Len(address) = 0
  BY DEF Init
<1>2. Observed = {}
  BY DEF Init, Observed
<1>3. ArrayOK
  BY <1>1 DEF Init, ArrayOK, FreeSlot
<1>4. RegistryOK
  BY <1>1 DEF Init, RegistryOK
<1>5. LossesOK
  BY <1>1 DEF Init, LossesOK
<1>6. QED
  BY <1>2, <1>3, <1>4, <1>5 DEF Init, TypeInv, TypeOK, GameOK, Held

LEMMA NextTypeInv == TypeInv /\ [Next]_vars => TypeInv'
BY NextArrayOK, NextRegistryOK, NextLossesOK, NextGameOK DEF TypeInv, TypeOK
-----------------------------------------------------------------------------
(* The registry's structures.                                              *)

AgreeInv ==
  /\ by_index = Observed /\ by_address = Observed /\ tokens = observations
  /\ observed = Cardinality(Observed)
  /\ \A x \in Sessions : \A t \in observations[x] :
       /\ Registered(x) /\ record[t].session = x
       /\ \A u \in observations[x] : SameIdentity(record[t], record[u]) => t = u

LEMMA InitAgree == Init => AgreeInv
<1> SUFFICES ASSUME Init PROVE AgreeInv
  OBVIOUS
<1>1. Observed = {} /\ \A x \in Sessions : observations[x] = {}
  BY DEF Init, Observed
<1>2. Cardinality(Observed) = 0
  BY <1>1, FS_EmptySet
<1>3. QED
  BY <1>1, <1>2 DEF Init, AgreeInv

(* A session is forgotten only with its observations. *)
LEMMA EndingSessions ==
  ASSUME TypeInv, NEW gone, Ending(gone), NEW x \in Sessions, NEW t \in observations[x],
         t \notin gone
  PROVE  sessions_'[x] = sessions_[x] /\ record' = record
<1> USE DEF TypeInv, TypeOK
<1>1. ASSUME NEW y \in Sessions, gone = observations[y], Forget({y})
      PROVE  sessions_'[x] = sessions_[x]
  BY <1>1, Forgetting
<1>2. ASSUME gone = Observed PROVE FALSE
  BY <1>2, Shapes
<1>3. QED
  BY <1>1, <1>2 DEF Ending

LEMMA NextAgree == TypeInv /\ AgreeInv /\ [Next]_vars => AgreeInv'
<1> SUFFICES ASSUME TypeInv, AgreeInv, [Next]_vars PROVE AgreeInv'
  OBVIOUS
<1> USE DEF TypeInv, TypeOK
<1>1. ASSUME NEW gone, Ending(gone) PROVE AgreeInv'
  <2>1. Drop(gone) /\ record' = record
    BY <1>1 DEF Ending
  <2>2. /\ observations' = [x \in Sessions |-> observations[x] \ gone]
        /\ tokens' = [x \in Sessions |-> tokens[x] \ gone]
        /\ by_index' = by_index \ gone /\ by_address' = by_address \ gone
        /\ Observed' = Observed \ gone /\ observed' = Cardinality(Observed')
    BY <2>1, Dropping DEF Drop
  <2>3. \A x \in Sessions : \A t \in observations'[x] :
          t \in observations[x] /\ sessions_'[x] = sessions_[x]
    BY <1>1, <2>2, EndingSessions
  <2>4. ASSUME NEW x \in Sessions, NEW t \in observations'[x]
        PROVE  /\ Registered(x)' /\ record'[t].session = x
               /\ \A u \in observations'[x] : SameIdentity(record'[t], record'[u]) => t = u
    BY <2>1, <2>3 DEF AgreeInv, Registered
  <2>5. QED
    BY <2>2, <2>4 DEF AgreeInv
<1>2. CASE CaptureAdds
  <2>1. PICK t : t = Len(record) + 1
    OBVIOUS
  <2>2. /\ t \notin DOMAIN record /\ game.session \in Sessions
        /\ MayCapture /\ Existing = {}
        /\ record'[t] = NewRecord /\ \A u \in DOMAIN record : record'[u] = record[u]
        /\ observations' = [observations EXCEPT ![game.session] = @ \cup {t}]
        /\ tokens' = [tokens EXCEPT ![game.session] = @ \cup {t}]
        /\ by_index' = by_index \cup {t} /\ by_address' = by_address \cup {t}
        /\ Observed' = Observed \cup {t} /\ observed' = Cardinality(Observed')
        /\ sessions_' = sessions_
    BY <1>2, <2>1, Adding DEF CaptureAdds
  <2>3. \A x \in Sessions : observations[x] \subseteq DOMAIN record
    BY DEF RegistryOK
  <2>4. \A u \in observations[game.session] : ~SameIdentity(record[u], game)
    BY <2>2 DEF Existing, AgreeInv
  <2>5. \A u \in observations[game.session] : ~SameIdentity(record[u], NewRecord)
                                             /\ ~SameIdentity(NewRecord, record[u])
    BY <2>4 DEF SameIdentity, NewRecord
  <2>6. ASSUME NEW x \in Sessions, NEW u \in observations'[x]
        PROVE  /\ Registered(x)' /\ record'[u].session = x
               /\ \A v \in observations'[x] : SameIdentity(record'[u], record'[v]) => u = v
    <3>1. CASE x # game.session
      <4>1. observations'[x] = observations[x]
        BY <2>2, <3>1 DEF RegistryOK
      <4>2. QED
        BY <2>2, <2>3, <4>1 DEF AgreeInv, Registered
    <3>2. CASE x = game.session
      <4>1. observations'[x] = observations[x] \cup {t}
        BY <2>2, <3>2 DEF RegistryOK
      <4>2. Registered(x)'
        BY <2>2, <3>2 DEF MayCapture, Registered
      <4>3. record'[t].session = x
        BY <2>2, <3>2 DEF NewRecord
      <4>4. \A v \in observations[x] : record'[v] = record[v] /\ record[v].session = x
        BY <2>2, <2>3 DEF AgreeInv
      <4>5. \A v \in observations'[x] : SameIdentity(record'[u], record'[v]) => u = v
        BY <2>2, <2>5, <3>2, <4>1, <4>4 DEF AgreeInv
      <4>6. QED
        BY <4>1, <4>2, <4>3, <4>4, <4>5
    <3>3. QED
      BY <3>1, <3>2
  <2>7. QED
    BY <2>2, <2>6 DEF AgreeInv
<1>3. ASSUME UNCHANGED <<record, watches>>,
             \/ StartSession \/ ReportLosses \/ TakeLost \/ GivingBack \/ Reading
             \/ CaptureRepeats \/ Array \/ StartService \/ StopService \/ UNCHANGED vars
      PROVE  AgreeInv'
  <2>1. \A x \in Sessions : Registered(x) => Registered(x)'
    <3>1. CASE StartSession
      <4>1. PICK y \in Sessions : sessions_' = [sessions_ EXCEPT ![y] = "registered"]
        BY <3>1 DEF StartSession
      <4>2. QED
        BY <4>1 DEF Registered, RegistryOK
    <3>2. ASSUME ~StartSession PROVE UNCHANGED sessions_
      BY <1>3, <3>2 DEF ReportLosses, TakeLost, GivingBack, Reading, CaptureRepeats, Array,
       StartService, StopService, vars, CallCapture, CallValid, ReadObject, ReadSerial,
       CaptureRefused, ValidReturns, CreateObject, AllocateSerial, DeleteObject, NotifyBegins,
       FreeObject
    <3>3. QED
      BY <3>1, <3>2 DEF Registered
  <2>2. Observed' = Observed
    BY <1>3 DEF watches, Observed
  <2>3. QED
    BY <1>3, <2>1, <2>2 DEF AgreeInv, watches
<1>4. QED
  BY <1>1, <1>2, <1>3, Steps

LEMMA AgreeGivesIndexes == TypeInv /\ AgreeInv => IndexesAgree
<1> SUFFICES ASSUME TypeInv, AgreeInv PROVE IndexesAgree
  OBVIOUS
<1>1. \A x \in Sessions : \A t \in observations[x] : references[t] > 0
  BY Shapes DEF TypeInv, TypeOK, Held
<1>2. QED
  BY <1>1 DEF TypeInv, AgreeInv, IndexesAgree

(* A serial number names one object: the slot's, the one a call has read,    *)
(* and the one an observation was recorded with.                           *)
SerialInv ==
  /\ \A i \in Indices : slots[i].serial \in {0, slots[i].object}
  /\ (game.op # "none" /\ game.at = "locked") => game.serial = game.object
  /\ \A t \in DOMAIN record : record[t].serial = record[t].object

LEMMA InitSerial == Init => SerialInv
<1> SUFFICES ASSUME Init PROVE SerialInv
  OBVIOUS
<1>1. DOMAIN record = {}
  BY DEF Init
<1>2. QED
  BY <1>1 DEF Init, SerialInv, FreeSlot, NoCall

LEMMA NextSerial == TypeInv /\ SerialInv /\ [Next]_vars => SerialInv'
<1> SUFFICES ASSUME TypeInv, SerialInv, [Next]_vars PROVE SerialInv'
  OBVIOUS
<1> USE DEF TypeInv, TypeOK
<1>1. \A i \in Indices : slots'[i].serial \in {0, slots'[i].object}
  <2>1. CASE UNCHANGED slots
    BY <2>1 DEF SerialInv
  <2>2. ASSUME NEW i \in Indices, NEW e, slots' = [slots EXCEPT ![i] = e],
               e.serial \in {0, e.object}
        PROVE  \A j \in Indices : slots'[j].serial \in {0, slots'[j].object}
    BY <2>2 DEF SerialInv, ArrayOK
  <2>3. ASSUME NEW i \in Indices, NEW p, slots' = [slots EXCEPT ![i].phase = p]
        PROVE  \A j \in Indices : slots'[j].serial \in {0, slots'[j].object}
    <3>1. TAKE j \in Indices
    <3>2. slots'[j].serial = slots[j].serial /\ slots'[j].object = slots[j].object
      BY <2>3 DEF ArrayOK
    <3>3. QED
      BY <3>2 DEF SerialInv
  <2>4. CASE CreateObject
    <3>1. PICK i \in Indices : slots' = [slots EXCEPT ![i] =
               [object |-> Len(address) + 1, serial |-> 0, phase |-> "created"]]
      BY <2>4 DEF CreateObject
    <3>2. QED
      BY <2>2, <3>1
  <2>5. CASE AllocateSerial
    <3>1. PICK i \in Indices : slots' = [slots EXCEPT ![i].serial = slots[i].object]
      BY <2>5 DEF AllocateSerial
    <3>2. TAKE j \in Indices
    <3>3. slots'[j].serial \in {slots[j].serial, slots[j].object}
          /\ slots'[j].object = slots[j].object
      BY <3>1 DEF ArrayOK
    <3>4. QED
      BY <3>3 DEF SerialInv
  <2>6. CASE DeleteObject
    BY <2>3, <2>6 DEF DeleteObject
  <2>7. CASE NotifyBegins
    BY <2>3, <2>7 DEF NotifyBegins, Notified
  <2>8. CASE Invalidate
    BY <2>3, <2>8 DEF Invalidate, Notified
  <2>9. CASE FreeObject
    <3>1. FreeSlot.serial = 0
      BY DEF FreeSlot
    <3>2. QED
      BY <2>2, <2>9, <3>1 DEF FreeObject
  <2>10. QED
    BY <2>1, <2>4, <2>5, <2>6, <2>7, <2>8, <2>9
       DEF Next, Registry, Game, ObjectArray, Service, StartSession, StopSession, ReportLosses,
         TakeLost, Release, CallCapture, CallValid, ReadObject, ReadSerial, CaptureRefused,
         CaptureRepeats, CaptureAdds, ValidReturns, StartService, StopService,
         ShutdownRegistry, vars, engine
<1>2. (game'.op # "none" /\ game'.at = "locked") => game'.serial = game'.object
  <2>1. CASE UNCHANGED game
    BY <2>1 DEF SerialInv
  <2>2. CASE game' = NoCall
    BY <2>2 DEF NoCall
  <2>3. CASE CallCapture \/ CallValid
    BY <2>3 DEF CallCapture, CallValid, Call
  <2>4. ASSUME game.op # "none"
        PROVE  /\ game \in [op : {"capture", "valid"}, at : {"object", "serial", "locked"},
                     session : Sessions, address : Addresses, token : {0} \cup DOMAIN record,
                     index : Indices \cup {0}, serial : 0..MaxObjects, object : 0..MaxObjects]
               /\ game.at # "object" => game.index \in Indices
    BY <2>4 DEF GameOK, NoCall
  <2>5. CASE ReadObject /\ game' # NoCall
    <3>1. PICK i \in Indices : game' = [game EXCEPT !.at = "serial", !.index = i]
      BY <2>5 DEF ReadObject
    <3>2. game.op # "none"
      BY <2>5 DEF ReadObject
    <3>3. QED
      BY <2>4, <3>1, <3>2
  <2>6. CASE ReadSerial /\ game' # NoCall
    <3>1. /\ game' = [game EXCEPT !.at = "locked", !.serial = slots[game.index].serial,
                               !.object = slots[game.index].object]
          /\ game.op # "none" /\ game.at = "serial" /\ slots[game.index].serial # 0
      BY <2>6 DEF ReadSerial
    <3>2. game.index \in Indices
      BY <2>4, <3>1
    <3>3. slots[game.index].serial = slots[game.index].object
      BY <3>1, <3>2 DEF SerialInv
    <3>4. QED
      BY <2>4, <3>1, <3>3
  <2>7. QED
    BY <2>1, <2>2, <2>3, <2>5, <2>6
       DEF Next, Registry, Game, ObjectArray, Service, StartSession, StopSession, ReportLosses,
         TakeLost, Release, CaptureRefused, CaptureRepeats, CaptureAdds, ValidReturns,
         CreateObject, AllocateSerial, DeleteObject, NotifyBegins, Invalidate, FreeObject,
         StartService, StopService, ShutdownRegistry, vars
<1>3. \A t \in DOMAIN record' : record'[t].serial = record'[t].object
  <2>1. CASE CaptureAdds
    <3>1. PICK t : t = Len(record) + 1
      OBVIOUS
    <3>2. /\ DOMAIN record' = DOMAIN record \cup {t} /\ record'[t] = NewRecord /\ Capturing
          /\ \A u \in DOMAIN record : record'[u] = record[u]
      BY <2>1, <3>1, Adding
    <3>3. NewRecord.serial = NewRecord.object
      BY <3>2 DEF NewRecord, Capturing, SerialInv
    <3>4. QED
      BY <3>2, <3>3 DEF SerialInv
  <2>2. CASE UNCHANGED record
    BY <2>2 DEF SerialInv
  <2>3. QED
    BY <2>1, <2>2, Steps DEF Ending
<1>4. QED
  BY <1>1, <1>2, <1>3 DEF SerialInv

LEMMA SerialsIdentify == TypeInv /\ SerialInv => ValidMeansSameObject
<1> SUFFICES ASSUME TypeInv, SerialInv, game.op = "valid", game.at = "locked",
                    Valid(game.session, game.token, game)
             PROVE  record[game.token].object = game.object
  BY DEF ValidMeansSameObject
<1>1. game.token \in DOMAIN record
  BY DEF TypeInv, TypeOK, GameOK, NoCall
<1>2. game.serial = game.object
  BY DEF SerialInv
<1>3. QED
  BY <1>1, <1>2 DEF SerialInv, Valid, SameIdentity
(* What a notification under way has to end is indexed under its slot or    *)
(* under the address of its object.                                        *)
DueInv ==
  \A i \in Indices :
    /\ slots[i].phase # "free" => slots[i].object # 0
    /\ \A t \in due[i] :
         /\ slots[i].phase \in {"creating", "deleting"} /\ t \in DOMAIN record
         /\ record[t].index = i \/ record[t].address = address[slots[i].object]

LEMMA InitDue == Init => DueInv
BY DEF Init, DueInv, FreeSlot

LEMMA NextDue == TypeInv /\ DueInv /\ [Next]_vars => DueInv'
<1> SUFFICES ASSUME TypeInv, DueInv, [Next]_vars PROVE DueInv'
  OBVIOUS
<1> USE DEF TypeInv, TypeOK
<1>1. DOMAIN record \subseteq DOMAIN record' /\ \A t \in DOMAIN record : record'[t] = record[t]
  <2>1. CASE CaptureAdds
    BY <2>1, Adding
  <2>2. CASE UNCHANGED record
    BY <2>2
  <2>3. QED
    BY <2>1, <2>2, Steps DEF Ending
<1> DEFINE Good(j) ==
      /\ slots'[j].phase # "free" => slots'[j].object # 0
      /\ \A t \in due'[j] :
           /\ slots'[j].phase \in {"creating", "deleting"} /\ t \in DOMAIN record'
           /\ record'[t].index = j \/ record'[t].address = address'[slots'[j].object]
<1>2. ASSUME NEW j \in Indices, slots'[j] = slots[j], due'[j] = due[j], UNCHANGED address
      PROVE  Good(j)
  BY <1>1, <1>2 DEF DueInv
<1>3. ASSUME NEW i \in Indices, NEW j \in Indices, j # i, NEW e, slots' = [slots EXCEPT ![i] = e],
             due' = due \/ \E D : due' = [due EXCEPT ![i] = D], UNCHANGED address
      PROVE  Good(j)
  BY <1>2, <1>3 DEF ArrayOK
<1>4. ASSUME NEW i \in Indices, due'[i] = {}, slots'[i].phase # "free" => slots'[i].object # 0
      PROVE  Good(i)
  BY <1>4
<1>5. ASSUME NEW i \in Indices, slots[i].phase \notin {"creating", "deleting"} PROVE due[i] = {}
  BY <1>5 DEF DueInv
<1> HIDE DEF Good
<1>6. ASSUME NEW i \in Indices, NEW p, slots' = [slots EXCEPT ![i].phase = p]
      PROVE  /\ slots'[i].phase = p /\ slots'[i].object = slots[i].object
             /\ \A j \in Indices : j # i => slots'[j] = slots[j]
  BY <1>6 DEF ArrayOK
<1>7. ASSUME \A j \in Indices : Good(j) PROVE DueInv'
  <2>1. ASSUME NEW i \in Indices
        PROVE  /\ slots'[i].phase # "free" => slots'[i].object # 0
               /\ \A t \in due'[i] :
                    /\ slots'[i].phase \in {"creating", "deleting"} /\ t \in DOMAIN record'
                    /\ record'[t].index = i \/ record'[t].address = address'[slots'[i].object]
    <3>1. Good(i)
      BY <1>7
    <3>2. QED
      BY <3>1 DEF Good
  <2>2. QED
    BY <2>1 DEF DueInv
<1>8. ASSUME NEW i \in Indices, Notified(i), slots[i].phase # "free", UNCHANGED address
      PROVE  \A j \in Indices : Good(j)
  <2>1. /\ slots' = [slots EXCEPT ![i].phase =
                       IF @ \in {"created", "creating"} THEN "live" ELSE "dying"]
        /\ due' = [due EXCEPT ![i] = {}]
    BY <1>8 DEF Notified
  <2>2. PICK p : p = IF slots[i].phase \in {"created", "creating"} THEN "live" ELSE "dying"
    OBVIOUS
  <2>7. slots' = [slots EXCEPT ![i].phase = p]
    BY <2>1, <2>2
  <2>3. TAKE j \in Indices
  <2>4. CASE j = i
    <3>1. due'[i] = {} /\ slots'[i].object # 0
      BY <1>6, <1>8, <2>1, <2>7 DEF DueInv, ArrayOK
    <3>2. QED
      BY <1>4, <2>4, <3>1
  <2>5. CASE j # i
    <3>1. slots'[j] = slots[j] /\ due'[j] = due[j]
      BY <1>6, <2>1, <2>5, <2>7 DEF ArrayOK
    <3>2. QED
      BY <1>2, <1>8, <3>1
  <2>6. QED
    BY <2>4, <2>5
<1>9. CASE CreateObject
  <2>1. PICK i \in Indices, a \in Addresses :
          /\ slots[i].phase = "free"
          /\ address' = Append(address, a)
          /\ slots' = [slots EXCEPT ![i] =
               [object |-> Len(address) + 1, serial |-> 0, phase |-> "created"]]
    BY <1>9 DEF CreateObject
  <2>2. due' = due /\ Len(address) \in Nat /\ Len(address) + 1 # 0
    BY <1>9 DEF CreateObject, ArrayOK
  <2>3. SUFFICES ASSUME NEW j \in Indices PROVE Good(j)
    BY <1>7
  <2>4. CASE j = i
    <3>1. due'[i] = {} /\ slots'[i].object = Len(address) + 1
      BY <1>5, <2>1, <2>2 DEF ArrayOK
    <3>2. QED
      BY <1>4, <2>2, <2>4, <3>1
  <2>5. CASE j # i
    <3>1. slots'[j] = slots[j] /\ due'[j] = due[j]
      BY <2>1, <2>2, <2>5 DEF ArrayOK
    <3>2. slots[j].object # 0 => address'[slots[j].object] = address[slots[j].object]
      <4>1. slots[j].object \in Nat /\ slots[j].object <= Len(address)
        BY DEF ArrayOK
      <4>2. address \in Seq(Addresses)
        BY DEF ArrayOK
      <4>3. QED
        BY <2>1, <4>1, <4>2
    <3>3. \A t \in due[j] : slots[j].object # 0
      BY DEF DueInv
    <3>4. QED
      BY <1>1, <3>1, <3>2, <3>3 DEF DueInv, Good
  <2>6. QED
    BY <2>4, <2>5
<1>10. CASE AllocateSerial
  <2>1. PICK i \in Indices : slots' = [slots EXCEPT ![i].serial = slots[i].object]
    BY <1>10 DEF AllocateSerial
  <2>2. UNCHANGED <<address, due>>
    BY <1>10 DEF AllocateSerial
  <2>3. \A j \in Indices : slots'[j].phase = slots[j].phase /\ slots'[j].object = slots[j].object
    BY <2>1 DEF ArrayOK
  <2>4. QED
    BY <1>1, <2>2, <2>3 DEF DueInv
<1>11. CASE DeleteObject
  <2>1. PICK i \in Indices : slots[i].phase = "live" /\ slots' = [slots EXCEPT ![i].phase = "deleted"]
    BY <1>11 DEF DeleteObject
  <2>2. UNCHANGED <<address, due>>
    BY <1>11 DEF DeleteObject
  <2>3. ASSUME NEW j \in Indices PROVE Good(j)
    <3>1. CASE j = i
      BY <1>4, <1>5, <1>6, <2>1, <2>2, <3>1 DEF DueInv
    <3>2. CASE j # i
      BY <1>2, <1>6, <2>1, <2>2, <3>2
    <3>3. QED
      BY <3>1, <3>2
  <2>4. QED
    BY <1>7, <2>3
<1>12. CASE FreeObject
  <2>1. PICK i \in Indices : slots[i].phase = "dying" /\ slots' = [slots EXCEPT ![i] = FreeSlot]
    BY <1>12 DEF FreeObject
  <2>2. UNCHANGED <<address, due>>
    BY <1>12 DEF FreeObject
  <2>3. ASSUME NEW j \in Indices PROVE Good(j)
    <3>1. CASE j = i
      <4>1. slots'[i].phase = "free"
        BY <2>1 DEF FreeSlot, ArrayOK
      <4>2. QED
        BY <1>4, <1>5, <2>1, <2>2, <3>1, <4>1
    <3>2. CASE j # i
      BY <1>3, <2>1, <2>2, <3>2
    <3>3. QED
      BY <3>1, <3>2
  <2>4. QED
    BY <1>7, <2>3
<1>13. CASE NotifyBegins
  <2>1. PICK i \in Indices :
       /\ slots[i].phase \in {"created", "deleted"}
       /\ IF Listening /\ observed # 0
          THEN /\ slots' = [slots EXCEPT ![i].phase =
                              IF @ = "created" THEN "creating" ELSE "deleting"]
               /\ due' = [due EXCEPT ![i] = Concerned(i)]
          ELSE Notified(i)
    BY <1>13 DEF NotifyBegins
  <2>2. UNCHANGED address
    BY <1>13 DEF NotifyBegins
  <2>3. CASE Notified(i)
    BY <1>8, <1>7, <2>1, <2>2, <2>3
  <2>4. CASE /\ slots' = [slots EXCEPT ![i].phase =
                              IF @ = "created" THEN "creating" ELSE "deleting"]
             /\ due' = [due EXCEPT ![i] = Concerned(i)]
    <3>1. PICK p : p = IF slots[i].phase = "created" THEN "creating" ELSE "deleting"
      OBVIOUS
    <3>2. slots' = [slots EXCEPT ![i].phase = p] /\ p \in {"creating", "deleting"}
      BY <2>4, <3>1
    <3>3. ASSUME NEW j \in Indices PROVE Good(j)
      <4>1. CASE j = i
        <5>1. /\ slots'[i].phase = p /\ slots'[i].object = slots[i].object
              /\ due'[i] = Concerned(i)
          BY <1>6, <2>4, <3>2 DEF ArrayOK
        <5>2. slots[i].object # 0
          BY <2>1 DEF DueInv
        <5>3. \A t \in Concerned(i) : t \in DOMAIN record /\
                (record[t].index = i \/ record[t].address = address[slots[i].object])
          BY Shapes DEF Concerned
        <5>4. QED
          BY <1>1, <2>2, <3>2, <4>1, <5>1, <5>2, <5>3 DEF Good
      <4>2. CASE j # i
        <5>1. slots'[j] = slots[j] /\ due'[j] = due[j]
          BY <1>6, <2>4, <3>2, <4>2 DEF ArrayOK
        <5>2. QED
          BY <1>2, <2>2, <5>1
      <4>3. QED
        BY <4>1, <4>2
    <3>4. QED
      BY <1>7, <3>3
  <2>5. QED
    BY <2>1, <2>3, <2>4
<1>14. CASE Invalidate
  <2>1. PICK i \in Indices : slots[i].phase \in {"creating", "deleting"} /\ Notified(i)
    BY <1>14 DEF Invalidate
  <2>2. QED
    BY <1>8, <1>7, <1>14, <2>1 DEF Invalidate
<1>15. CASE UNCHANGED engine
  BY <1>2, <1>7, <1>15 DEF engine
<1>16. QED
  BY <1>9, <1>7, <1>10, <1>11, <1>12, <1>13, <1>14, <1>15
     DEF Next, Registry, Game, ObjectArray, Service, StartSession, StopSession, ReportLosses,
         TakeLost, Release, CallCapture, CallValid, ReadObject, ReadSerial, CaptureRefused,
         CaptureRepeats, CaptureAdds, ValidReturns, StartService, StopService,
         ShutdownRegistry, vars

NotificationEnds(i) ==
  LET ends == slots'[i].phase \in {"live", "dying"}
  IN /\ (slots[i].phase \in {"created", "deleted"} /\ ends /\ Listening)
          => Concerned(i) \cap Observed' = {}
     /\ (slots[i].phase \in {"creating", "deleting"} /\ ends)
          => due[i] \cap Observed' = {}

LEMMA StepEnds ==
  ASSUME TypeInv, AgreeInv, DueInv, [Next]_vars, NEW i \in Indices
  PROVE  NotificationEnds(i)
<1> USE DEF TypeInv, TypeOK
<1>1. CASE slots'[i].phase = slots[i].phase
  BY <1>1 DEF NotificationEnds
<1>2. CASE NotifyBegins
  <2>1. PICK j \in Indices :
       /\ slots[j].phase \in {"created", "deleted"}
       /\ IF Listening /\ observed # 0
          THEN /\ slots' = [slots EXCEPT ![j].phase =
                              IF @ = "created" THEN "creating" ELSE "deleting"]
               /\ due' = [due EXCEPT ![j] = Concerned(j)]
          ELSE Notified(j)
    BY <1>2 DEF NotifyBegins
  <2>2. CASE i # j
    <3>1. slots'[i] = slots[i]
      BY <2>1, <2>2 DEF Notified, ArrayOK
    <3>2. QED
      BY <1>1, <3>1
  <2>3. CASE i = j /\ Listening /\ observed # 0
    <3>1. slots'[i].phase \in {"creating", "deleting"}
      BY <2>1, <2>3 DEF ArrayOK
    <3>2. QED
      BY <3>1 DEF NotificationEnds
  <2>4. CASE i = j /\ Listening /\ observed = 0
    <3>1. Observed = {}
      BY <2>4, Shapes DEF AgreeInv
    <3>2. Concerned(i) = {}
      BY <3>1 DEF Concerned
    <3>3. QED
      BY <2>1, <2>4, <3>2 DEF NotificationEnds
  <2>5. CASE i = j /\ ~Listening
    BY <2>1, <2>5 DEF NotificationEnds
  <2>6. QED
    BY <2>2, <2>3, <2>4, <2>5
<1>3. CASE Invalidate
  <2>1. PICK j \in Indices :
       /\ slots[j].phase \in {"creating", "deleting"}
       /\ Drop(Matched(j) \cap Observed)
       /\ Notified(j)
    BY <1>3 DEF Invalidate
  <2>2. CASE i # j
    <3>1. slots'[i] = slots[i]
      BY <2>1, <2>2 DEF Notified, ArrayOK
    <3>2. QED
      BY <1>1, <3>1
  <2>3. CASE i = j
    <3>1. Observed' = Observed \ (Matched(i) \cap Observed)
      BY <2>1, <2>3, Dropping
    <3>2. due[i] \cap Observed \subseteq Matched(i)
      BY DEF DueInv, Matched, AgreeInv
    <3>3. QED
      BY <2>1, <2>3, <3>1, <3>2 DEF NotificationEnds
  <2>4. QED
    BY <2>2, <2>3
<1>4. CASE CreateObject
  <2>1. PICK j \in Indices : slots' = [slots EXCEPT ![j] =
                  [object |-> Len(address) + 1, serial |-> 0, phase |-> "created"]]
    BY <1>4 DEF CreateObject
  <2>2. slots'[i].phase = slots[i].phase \/ slots'[i].phase = "created"
    BY <2>1 DEF ArrayOK
  <2>3. QED
    BY <1>1, <2>2 DEF NotificationEnds
<1>5. CASE AllocateSerial
  <2>1. PICK j \in Indices : slots' = [slots EXCEPT ![j].serial = slots[j].object]
    BY <1>5 DEF AllocateSerial
  <2>2. slots'[i].phase = slots[i].phase
    BY <2>1 DEF ArrayOK
  <2>3. QED
    BY <1>1, <2>2
<1>6. CASE DeleteObject
  <2>1. PICK j \in Indices : slots' = [slots EXCEPT ![j].phase = "deleted"]
    BY <1>6 DEF DeleteObject
  <2>2. slots'[i].phase = slots[i].phase \/ slots'[i].phase = "deleted"
    BY <2>1 DEF ArrayOK
  <2>3. QED
    BY <1>1, <2>2 DEF NotificationEnds
<1>7. CASE FreeObject
  <2>1. PICK j \in Indices : slots' = [slots EXCEPT ![j] = FreeSlot]
    BY <1>7 DEF FreeObject
  <2>2. slots'[i].phase = slots[i].phase \/ slots'[i].phase = "free"
    BY <2>1 DEF ArrayOK, FreeSlot
  <2>3. QED
    BY <1>1, <2>2 DEF NotificationEnds
<1>8. CASE UNCHANGED slots
  BY <1>1, <1>8
<1>9. QED
  BY <1>2, <1>3, <1>4, <1>5, <1>6, <1>7, <1>8
     DEF Next, Registry, Game, ObjectArray, Service, StartSession, StopSession, ReportLosses,
         TakeLost, Release, CallCapture, CallValid, ReadObject, ReadSerial, CaptureRefused,
         CaptureRepeats, CaptureAdds, ValidReturns, StartService, StopService,
         ShutdownRegistry, vars, engine
-----------------------------------------------------------------------------
(* Losses.                                                                 *)

(* A queue of losses holds each token once, of its own session, and none    *)
(* that is observed, was released, or has been taken.                      *)
QueueInv(x) ==
  /\ overflow[x] => lost[x] = <<>>
  /\ \A i, j \in 1..Len(lost[x]) : lost[x][i] = lost[x][j] => i = j
  /\ \A i \in 1..Len(lost[x]) :
       /\ record[lost[x][i]].session = x
       /\ lost[x][i] \notin Observed /\ lost[x][i] \notin released /\ lost[x][i] \notin taken

Queued(x, t) == \E i \in 1..Len(lost[x]) : lost[x][i] = t

(* A token whose session reports is somewhere until the session ends. *)
TokenInv(t) ==
  /\ sessions_[record[t].session] # "new"
  /\ record[t].reporting /\ Registered(record[t].session) => report_losses[record[t].session]
  /\ ~(t \in Observed /\ t \in released) /\ ~(t \in Observed /\ t \in taken)
  /\ ~(t \in released /\ t \in taken)
  /\ (record[t].reporting /\ Registered(record[t].session) /\ ~overflow[record[t].session]) =>
       t \in Observed \/ t \in released \/ t \in taken \/ Queued(record[t].session, t)

LossInv ==
  /\ \A x \in Sessions : QueueInv(x)
  /\ \A t \in DOMAIN record : TokenInv(t)

LEMMA InitLoss == Init => LossInv
<1> SUFFICES ASSUME Init PROVE LossInv
  OBVIOUS
<1>1. DOMAIN record = {} /\ \A x \in Sessions : lost[x] = <<>> /\ Len(lost[x]) = 0
  BY DEF Init
<1>2. QED
  BY <1>1 DEF LossInv, QueueInv

(* Facts about queues that both parts need. *)
LEMMA Elements ==
  ASSUME TypeInv, NEW x \in Sessions
  PROVE  /\ Len(lost[x]) \in Nat
         /\ \A i \in 1..Len(lost[x]) : lost[x][i] \in DOMAIN record
<1>1. lost[x] \in Seq(DOMAIN record)
  BY DEF TypeInv, TypeOK, LossesOK
<1>2. QED
  BY <1>1

LEMMA OwnSession ==
  ASSUME TypeInv, AgreeInv, NEW t \in Observed
  PROVE  /\ t \in DOMAIN record /\ record[t].session \in Sessions
         /\ t \in observations[record[t].session] /\ Registered(record[t].session)
<1>1. PICK x \in Sessions : t \in observations[x]
  BY DEF Observed
<1>2. QED
  BY <1>1, Shapes DEF AgreeInv, TypeInv, TypeOK

(* A step that moves no token and ends no session. *)
LEMMA LossFrame ==
  ASSUME TypeInv, LossInv,
         record' = record, Observed' = Observed, UNCHANGED history,
         lost' = lost, overflow' = overflow,
         \A x \in Sessions : /\ sessions_[x] # "new" => sessions_'[x] = sessions_[x]
                             /\ report_losses[x] => report_losses'[x]
  PROVE  LossInv'
<1>1. \A t \in DOMAIN record : record[t].session \in Sessions
  BY Shapes DEF Observation, TypeInv, TypeOK
<1>2. ASSUME NEW x \in Sessions PROVE QueueInv(x)'
  BY <1>2 DEF LossInv, QueueInv, history
<1>3. ASSUME NEW t \in DOMAIN record PROVE TokenInv(t)'
  <2> DEFINE x == record[t].session
  <2>1. x \in Sessions
    BY <1>1
  <2>2. TokenInv(t)
    BY DEF LossInv
  <2>3. sessions_'[x] = sessions_[x] /\ (report_losses[x] => report_losses'[x])
    BY <2>1, <2>2 DEF TokenInv
  <2>4. Queued(x, t)' <=> Queued(x, t)
    BY DEF Queued
  <2>5. record'[t].session = x /\ record'[t].reporting = record[t].reporting
        /\ overflow'[x] = overflow[x]
    OBVIOUS
  <2>6. (t \in Observed' <=> t \in Observed) /\ (t \in released' <=> t \in released)
        /\ (t \in taken' <=> t \in taken)
    BY DEF history
  <2>7. QED
    BY <2>2, <2>3, <2>4, <2>5, <2>6, Zenon DEF TokenInv, Registered
<1>4. QED
  BY <1>2, <1>3 DEF LossInv
(* Sessions end, with their observations and their queues. *)
LEMMA LossForget ==
  ASSUME TypeInv, AgreeInv, LossInv, NEW g, NEW gone, Forget(g), Drop(gone), record' = record,
         UNCHANGED history, \A t \in Observed : t \in gone => record[t].session \in g
  PROVE  LossInv'
<1> USE DEF TypeInv, TypeOK
<1>1. Observed' = Observed \ gone
  BY Dropping
<1>2. \A t \in DOMAIN record : record[t].session \in Sessions
  BY Shapes DEF Observation
<1>3. released' = released /\ taken' = taken
  BY DEF history
<1>4. ASSUME NEW x \in Sessions PROVE QueueInv(x)'
  <2>0. QueueInv(x)
    BY DEF LossInv
  <2>1. CASE x \in g
    <3>1. lost'[x] = <<>> /\ Len(lost'[x]) = 0
      BY <2>1, Forgetting
    <3>2. QED
      BY <3>1 DEF QueueInv
  <2>2. CASE x \notin g
    <3>1. lost'[x] = lost[x] /\ overflow'[x] = overflow[x]
      BY <2>2, Forgetting
    <3>2. QED
      BY <1>1, <1>3, <2>0, <3>1 DEF QueueInv
  <2>3. QED
    BY <2>1, <2>2
<1>5. ASSUME NEW t \in DOMAIN record PROVE TokenInv(t)'
  <2> DEFINE x == record[t].session
  <2>0. x \in Sessions /\ TokenInv(t) /\ record'[t] = record[t]
    BY <1>2 DEF LossInv
  <2>1. CASE x \in g
    <3>1. sessions_'[x] = "gone"
      BY <2>0, <2>1, Forgetting
    <3>2. QED
      BY <1>1, <1>3, <2>0, <3>1 DEF TokenInv, Registered
  <2>2. CASE x \notin g
    <3>1. /\ sessions_'[x] = sessions_[x] /\ lost'[x] = lost[x]
          /\ overflow'[x] = overflow[x] /\ report_losses'[x] = report_losses[x]
      BY <2>0, <2>2, Forgetting
    <3>2. t \in Observed' <=> t \in Observed
      BY <1>1, <2>2
    <3>3. Queued(x, t)' <=> Queued(x, t)
      BY <3>1 DEF Queued
    <3>4. QED
      BY <1>3, <2>0, <3>1, <3>2, <3>3, Zenon DEF TokenInv, Registered
  <2>3. QED
    BY <2>1, <2>2
<1>6. QED
  BY <1>4, <1>5 DEF LossInv

(* The last capture is given back. *)
LEMMA LossRelease ==
  ASSUME TypeInv, AgreeInv, LossInv, NEW u \in Observed, Drop({u}), record' = record,
         released' = released \cup {u}, UNCHANGED <<sessions_, losses, taken>>
  PROVE  LossInv'
<1> USE DEF TypeInv, TypeOK
<1>1. Observed' = Observed \ {u}
  BY Dropping
<1>2. lost' = lost /\ overflow' = overflow /\ report_losses' = report_losses
  BY DEF losses
<1>3. u \in DOMAIN record
  BY OwnSession
<1>4. ~(u \in taken)
  BY <1>3 DEF LossInv, TokenInv
<1>5. ASSUME NEW x \in Sessions PROVE QueueInv(x)'
  <2>1. QueueInv(x)
    BY DEF LossInv
  <2>2. QED
    BY <1>1, <1>2, <2>1 DEF QueueInv
<1>6. ASSUME NEW t \in DOMAIN record PROVE TokenInv(t)'
  <2> DEFINE x == record[t].session
  <2>1. TokenInv(t) /\ record'[t] = record[t]
    BY DEF LossInv
  <2>2. Queued(x, t)' <=> Queued(x, t)
    BY <1>2 DEF Queued
  <2>3. CASE t = u
    BY <1>1, <1>2, <1>4, <2>1, <2>3, Zenon DEF TokenInv, Registered
  <2>4. CASE t # u
    <3>1. (t \in Observed' <=> t \in Observed) /\ (t \in released' <=> t \in released)
      BY <1>1, <2>4
    <3>2. QED
      BY <1>2, <2>1, <2>2, <3>1, Zenon DEF TokenInv, Registered
  <2>5. QED
    BY <2>3, <2>4
<1>7. QED
  BY <1>5, <1>6 DEF LossInv

(* Two queues without repetitions and without common elements, in a row. *)
LEMMA Joining ==
  ASSUME NEW S, NEW p \in Seq(S), NEW q \in Seq(S)
  PROVE  /\ p \o q \in Seq(S) /\ Len(p \o q) = Len(p) + Len(q)
         /\ Len(p) \in Nat /\ Len(q) \in Nat
         /\ \A i \in 1..Len(p) : (p \o q)[i] = p[i]
         /\ \A i \in 1..Len(q) : (p \o q)[Len(p) + i] = q[i]
         /\ \A i \in 1..Len(p \o q) :
              i \in 1..Len(p) \/ \E j \in 1..Len(q) : i = Len(p) + j
<1>1. Len(p \o q) = Len(p) + Len(q) /\ Len(p) \in Nat /\ Len(q) \in Nat /\ p \o q \in Seq(S)
  OBVIOUS
<1>2. \A i \in 1..Len(p) : (p \o q)[i] = p[i]
  OBVIOUS
<1>3. \A i \in 1..Len(q) : (p \o q)[Len(p) + i] = q[i]
  OBVIOUS
<1>4. ASSUME NEW i \in 1..Len(p \o q), i \notin 1..Len(p)
      PROVE  \E j \in 1..Len(q) : i = Len(p) + j
  <2>1. i - Len(p) \in 1..Len(q) /\ i = Len(p) + (i - Len(p))
    BY <1>1, <1>4
  <2>2. QED
    BY <2>1
<1>5. QED
  BY <1>1, <1>2, <1>3, <1>4

LEMMA JoiningInjective ==
  ASSUME NEW S, NEW p \in Seq(S), NEW q \in Seq(S),
         \A i, j \in 1..Len(p) : p[i] = p[j] => i = j,
         \A i, j \in 1..Len(q) : q[i] = q[j] => i = j,
         \A i \in 1..Len(p) : \A j \in 1..Len(q) : p[i] # q[j]
  PROVE  \A i, j \in 1..Len(p \o q) : (p \o q)[i] = (p \o q)[j] => i = j
<1> DEFINE r == p \o q
<1>1. /\ \A i \in 1..Len(p) : r[i] = p[i]
      /\ \A i \in 1..Len(q) : r[Len(p) + i] = q[i]
      /\ \A i \in 1..Len(r) : i \in 1..Len(p) \/ \E j \in 1..Len(q) : i = Len(p) + j
  BY Joining
<1> HIDE DEF r
<1>2. ASSUME NEW i \in 1..Len(r), NEW j \in 1..Len(r), r[i] = r[j] PROVE i = j
  <2>1. CASE i \in 1..Len(p) /\ j \in 1..Len(p)
    BY <1>1, <1>2, <2>1
  <2>2. ASSUME NEW k \in 1..Len(q), i = Len(p) + k PROVE i = j
    <3>1. r[i] = q[k]
      BY <1>1, <2>2
    <3>2. ~(j \in 1..Len(p))
      BY <1>1, <1>2, <3>1
    <3>3. PICK l \in 1..Len(q) : j = Len(p) + l
      BY <1>1, <3>2
    <3>4. r[j] = q[l]
      BY <1>1, <3>3
    <3>5. k = l
      BY <1>2, <3>1, <3>4
    <3>6. QED
      BY <2>2, <3>3, <3>5
  <2>3. ASSUME NEW k \in 1..Len(q), j = Len(p) + k PROVE i = j
    <3>1. r[j] = q[k]
      BY <1>1, <2>3
    <3>2. ~(i \in 1..Len(p))
      BY <1>1, <1>2, <3>1
    <3>3. PICK l \in 1..Len(q) : i = Len(p) + l
      BY <1>1, <3>2
    <3>4. QED
      BY <2>2, <3>3
  <2>4. QED
    BY <1>1, <2>1, <2>2, <2>3
<1>3. QED
  BY <1>2 DEF r
(* A notification ends observations, and the sessions that asked hear of it. *)
LEMMA LossInvalidate ==
  ASSUME TypeInv, AgreeInv, LossInv, NEW gone, gone \subseteq Observed, Drop(gone), Lose(gone),
         record' = record, UNCHANGED <<sessions_, report_losses, history>>
  PROVE  LossInv'
<1> USE DEF TypeInv, TypeOK
<1>1. Observed' = Observed \ gone
  BY Dropping
<1>2. released' = released /\ taken' = taken
  BY DEF history
<1>3. \A t \in DOMAIN record : record[t].session \in Sessions
  BY Shapes DEF Observation
<1>4. ASSUME NEW x \in Sessions, NEW q \in Rows(gone \cap observations[x])
      PROVE  /\ q \in Seq(DOMAIN record) /\ lost[x] \in Seq(DOMAIN record)
             /\ \A i \in 1..Len(q) : q[i] \in gone \cap observations[x]
             /\ \A t \in gone \cap observations[x] : \E i \in 1..Len(q) : q[i] = t
             /\ \A i, j \in 1..Len(q) : q[i] = q[j] => i = j
  <2>1. gone \cap observations[x] \subseteq Observed /\ IsFiniteSet(Observed)
        /\ Observed \subseteq DOMAIN record
    BY Shapes
  <2>2. PICK S : S = gone \cap observations[x]
    OBVIOUS
  <2>3. IsFiniteSet(S) /\ S \subseteq DOMAIN record /\ q \in Rows(S)
    BY <2>1, <2>2, FS_Subset
  <2>4. /\ q \in Seq(S) /\ \A t \in S : \E i \in 1..Len(q) : q[i] = t
        /\ \A i, j \in 1..Len(q) : q[i] = q[j] => i = j
    BY <2>3, RowsOf
  <2>5. q \in Seq(DOMAIN record) /\ \A i \in 1..Len(q) : q[i] \in S
    BY <2>3, <2>4
  <2>6. QED
    BY <2>2, <2>4, <2>5 DEF LossesOK
<1>5. ASSUME NEW x \in Sessions PROVE QueueInv(x)'
  <2>0. QueueInv(x)
    BY DEF LossInv
  <2>1. CASE lost'[x] = <<>>
    <3>1. Len(lost'[x]) = 0
      BY <2>1
    <3>2. QED
      BY <2>1, <3>1 DEF QueueInv
  <2>2. CASE lost'[x] = lost[x] /\ overflow'[x] = overflow[x]
    BY <1>1, <1>2, <2>0, <2>2 DEF QueueInv
  <2>3. ASSUME ~overflow'[x], NEW q \in Rows(gone \cap observations[x]),
               lost'[x] = lost[x] \o q
        PROVE  QueueInv(x)'
    <3>1. /\ q \in Seq(DOMAIN record) /\ lost[x] \in Seq(DOMAIN record)
          /\ \A i \in 1..Len(q) : q[i] \in gone \cap observations[x]
          /\ \A i, j \in 1..Len(q) : q[i] = q[j] => i = j
      BY <1>4
    <3>2. \A i \in 1..Len(q) :
            /\ q[i] \in Observed /\ q[i] \notin Observed' /\ record[q[i]].session = x
            /\ q[i] \notin released /\ q[i] \notin taken
      <4>1. TAKE i \in 1..Len(q)
      <4>2. q[i] \in observations[x] /\ q[i] \in Observed /\ q[i] \in gone
        BY <3>1, Shapes
      <4>3. q[i] \in DOMAIN record /\ TokenInv(q[i])
        BY <4>2, OwnSession DEF LossInv
      <4>4. record[q[i]].session = x
        BY <4>2 DEF AgreeInv
      <4>5. QED
        BY <1>1, <4>2, <4>3, <4>4 DEF TokenInv
    <3>3. \A i \in 1..Len(lost[x]) :
            /\ lost[x][i] \notin Observed /\ record[lost[x][i]].session = x
            /\ lost[x][i] \notin released /\ lost[x][i] \notin taken
      BY <2>0 DEF QueueInv
    <3>4. \A i, j \in 1..Len(lost[x]) : lost[x][i] = lost[x][j] => i = j
      BY <2>0 DEF QueueInv
    <3>5. \A i \in 1..Len(lost[x]) : \A j \in 1..Len(q) : lost[x][i] # q[j]
      BY <3>2, <3>3
    <3>6. PICK p, r, D : p = lost[x] /\ r = lost[x] \o q /\ D = DOMAIN record
      OBVIOUS
    <3>7. \A i, j \in 1..Len(r) : r[i] = r[j] => i = j
      <4>1. p \in Seq(D) /\ q \in Seq(D) /\ r = p \o q
        BY <3>1, <3>6
      <4>2. /\ \A i, j \in 1..Len(p) : p[i] = p[j] => i = j
            /\ \A i, j \in 1..Len(q) : q[i] = q[j] => i = j
            /\ \A i \in 1..Len(p) : \A j \in 1..Len(q) : p[i] # q[j]
        BY <3>1, <3>4, <3>5, <3>6
      <4>3. \A i, j \in 1..Len(p \o q) : (p \o q)[i] = (p \o q)[j] => i = j
        BY <4>1, <4>2, JoiningInjective
      <4>4. QED
        BY <4>1, <4>3
    <3>8. /\ \A i \in 1..Len(p) : r[i] = p[i]
          /\ \A i \in 1..Len(q) : r[Len(p) + i] = q[i]
          /\ \A i \in 1..Len(r) :
               i \in 1..Len(p) \/ \E j \in 1..Len(q) : i = Len(p) + j
      <4>1. p \in Seq(D) /\ q \in Seq(D) /\ r = p \o q
        BY <3>1, <3>6
      <4>2. QED
        BY <4>1, Joining
    <3>9. \A i \in 1..Len(r) :
            (\E j \in 1..Len(lost[x]) : r[i] = lost[x][j]) \/ (\E j \in 1..Len(q) : r[i] = q[j])
      <4>1. TAKE i \in 1..Len(r)
      <4>2. CASE i \in 1..Len(p)
        BY <3>6, <3>8, <4>2
      <4>3. ASSUME NEW j \in 1..Len(q), i = Len(p) + j PROVE r[i] = q[j]
        BY <3>8, <4>3
      <4>4. QED
        BY <3>8, <4>2, <4>3
    <3>10. \A i \in 1..Len(r) :
            /\ record[r[i]].session = x
            /\ r[i] \notin Observed' /\ r[i] \notin released /\ r[i] \notin taken
      <4>1. TAKE i \in 1..Len(r)
      <4>2. ASSUME NEW j \in 1..Len(lost[x]), r[i] = lost[x][j]
            PROVE  /\ record[r[i]].session = x
                   /\ r[i] \notin Observed' /\ r[i] \notin released /\ r[i] \notin taken
        BY <1>1, <3>3, <4>2
      <4>3. ASSUME NEW j \in 1..Len(q), r[i] = q[j]
            PROVE  /\ record[r[i]].session = x
                   /\ r[i] \notin Observed' /\ r[i] \notin released /\ r[i] \notin taken
        BY <3>2, <4>3
      <4>4. QED
        BY <3>9, <4>2, <4>3
    <3>11. lost'[x] = r
      BY <2>3, <3>6
    <3>12. QED
      BY <1>2, <2>3, <3>7, <3>10, <3>11 DEF QueueInv
  <2>4. QED
    BY <2>1, <2>2, <2>3, Losing
<1>6. ASSUME NEW t \in DOMAIN record PROVE TokenInv(t)'
  <2>1. PICK x \in Sessions : x = record[t].session
    BY <1>3
  <2>2. TokenInv(t) /\ record'[t] = record[t]
    BY DEF LossInv
  <2>3. ASSUME record[t].reporting, Registered(x), ~overflow'[x]
        PROVE  t \in Observed' \/ t \in released \/ t \in taken \/ Queued(x, t)'
    <3>0. report_losses[x]
      BY <2>1, <2>2, <2>3 DEF TokenInv
    <3>1. ~overflow[x]
      BY <2>3, Losing DEF LossesOK
    <3>2. t \in Observed \/ t \in released \/ t \in taken \/ Queued(x, t)
      BY <2>1, <2>2, <2>3, <3>1 DEF TokenInv
    <3>3. (lost'[x] = lost[x] /\ gone \cap observations[x] = {})
          \/ \E q \in Rows(gone \cap observations[x]) : lost'[x] = lost[x] \o q
      BY <2>3, <3>0, <3>1, Losing
    <3>4. t \in Observed => t \in observations[x]
      BY <2>1, OwnSession
    <3>5. CASE lost'[x] = lost[x] /\ gone \cap observations[x] = {}
      <4>1. Queued(x, t)' <=> Queued(x, t)
        BY <3>5 DEF Queued
      <4>2. t \in Observed => t \in Observed'
        BY <1>1, <3>4, <3>5
      <4>3. QED
        BY <3>2, <4>1, <4>2
    <3>6. ASSUME NEW q \in Rows(gone \cap observations[x]), lost'[x] = lost[x] \o q
          PROVE  t \in Observed' \/ t \in released \/ t \in taken \/ Queued(x, t)'
      <4>1. /\ q \in Seq(DOMAIN record) /\ lost[x] \in Seq(DOMAIN record)
            /\ \A u \in gone \cap observations[x] : \E i \in 1..Len(q) : q[i] = u
        BY <1>4
      <4>2. PICK r : r = lost[x] \o q
        OBVIOUS
      <4>3. /\ \A i \in 1..Len(lost[x]) : r[i] = lost[x][i]
            /\ \A i \in 1..Len(q) : r[Len(lost[x]) + i] = q[i]
            /\ Len(r) = Len(lost[x]) + Len(q) /\ Len(lost[x]) \in Nat /\ Len(q) \in Nat
        BY <4>1, <4>2, Joining
      <4>4. CASE Queued(x, t)
        <5>1. PICK i \in 1..Len(lost[x]) : lost[x][i] = t
          BY <4>4 DEF Queued
        <5>2. i \in 1..Len(r) /\ r[i] = t
          BY <4>3, <5>1
        <5>3. QED
          BY <3>6, <4>2, <5>2 DEF Queued
      <4>5. CASE t \in Observed /\ t \in gone
        <5>1. PICK i \in 1..Len(q) : q[i] = t
          BY <3>4, <4>1, <4>5
        <5>2. Len(lost[x]) + i \in 1..Len(r) /\ r[Len(lost[x]) + i] = t
          BY <4>3, <5>1
        <5>3. QED
          BY <3>6, <4>2, <5>2 DEF Queued
      <4>6. CASE t \in Observed /\ t \notin gone
        BY <1>1, <4>6
      <4>7. QED
        BY <3>2, <4>4, <4>5, <4>6
    <3>7. QED
      BY <3>3, <3>5, <3>6
  <2>4. t \in Observed' => t \in Observed
    BY <1>1
  <2>5. sessions_' = sessions_ /\ report_losses' = report_losses
    OBVIOUS
  <2>6. QED
    BY <1>2, <2>1, <2>2, <2>3, <2>4, <2>5, Zenon DEF TokenInv, Registered
<1>7. QED
  BY <1>5, <1>6 DEF LossInv

LEMMA LossCapture == ASSUME TypeInv, AgreeInv, LossInv, CaptureAdds PROVE LossInv'
<1> USE DEF TypeInv, TypeOK
<1>1. PICK u : u = Len(record) + 1
  OBVIOUS
<1>2. /\ u \notin DOMAIN record /\ game.session \in Sessions /\ MayCapture
      /\ DOMAIN record' = DOMAIN record \cup {u} /\ record'[u] = NewRecord
      /\ \A t \in DOMAIN record : record'[t] = record[t]
      /\ Observed' = Observed \cup {u}
      /\ UNCHANGED <<sessions_, losses, history>>
  BY <1>1, Adding
<1>3. /\ lost' = lost /\ overflow' = overflow /\ report_losses' = report_losses
      /\ released' = released /\ taken' = taken
  BY <1>2 DEF losses, history
<1>4. ASSUME NEW x \in Sessions PROVE QueueInv(x)'
  <2>0. QueueInv(x)
    BY DEF LossInv
  <2>1. \A i \in 1..Len(lost[x]) : lost[x][i] \in DOMAIN record
    BY Elements
  <2>2. QED
    BY <1>2, <1>3, <2>0, <2>1 DEF QueueInv
<1>5. ASSUME NEW t \in DOMAIN record' PROVE TokenInv(t)'
  <2>1. CASE t = u
    <3>1. /\ record'[t].session = game.session
          /\ record'[t].reporting = report_losses[game.session]
      BY <1>2, <2>1 DEF NewRecord
    <3>2. sessions_[game.session] = "registered"
      BY <1>2 DEF MayCapture, Registered
    <3>3. t \notin released /\ t \notin taken /\ t \in Observed'
      BY <1>2, <2>1 DEF LossesOK
    <3>4. QED
      BY <1>2, <1>3, <3>1, <3>2, <3>3, Zenon DEF TokenInv, Registered
  <2>2. CASE t \in DOMAIN record
    <3>1. TokenInv(t) /\ record'[t] = record[t] /\ t # u
      BY <1>2, <2>2 DEF LossInv
    <3>2. t \in Observed' <=> t \in Observed
      BY <1>2, <3>1
    <3>3. Queued(record[t].session, t)' <=> Queued(record[t].session, t)
      BY <1>3, <3>1 DEF Queued
    <3>4. QED
      BY <1>2, <1>3, <3>1, <3>2, <3>3, Zenon DEF TokenInv, Registered
  <2>3. QED
    BY <1>2, <2>1, <2>2
<1>6. QED
  BY <1>4, <1>5 DEF LossInv
LEMMA LossTake == ASSUME TypeInv, AgreeInv, LossInv, TakeLost PROVE LossInv'
<1> USE DEF TypeInv, TypeOK
<1>1. PICK x \in Sessions :
       /\ report_losses' = [report_losses EXCEPT ![x] = TRUE]
       /\ IF overflow[x] \/ lost[x] = <<>> THEN UNCHANGED <<lost, taken>>
          ELSE /\ taken' = taken \cup {Head(lost[x])}
               /\ lost' = [lost EXCEPT ![x] = Tail(@)]
  BY DEF TakeLost
<1>2. UNCHANGED <<sessions_, record, watches, overflow, released>>
  BY DEF TakeLost
<1>3. Observed' = Observed
  BY <1>2 DEF watches, Observed
<1>4. \A y \in Sessions : report_losses[y] => report_losses'[y]
  BY <1>1 DEF LossesOK
<1>5. CASE UNCHANGED <<lost, taken>>
  <2>1. UNCHANGED history
    BY <1>2, <1>5 DEF history
  <2>2. QED
    BY <1>2, <1>3, <1>4, <1>5, <2>1, LossFrame
<1>6. CASE /\ lost[x] # <<>> /\ taken' = taken \cup {Head(lost[x])}
           /\ lost' = [lost EXCEPT ![x] = Tail(@)]
  <2>1. PICK q, r, u : q = lost[x] /\ r = Tail(q) /\ u = Head(q)
    OBVIOUS
  <2>2. q \in Seq(DOMAIN record) /\ q # <<>>
    BY <1>6, <2>1 DEF LossesOK
  <2>3. /\ u = q[1] /\ u \in DOMAIN record /\ 1 \in 1..Len(q)
        /\ Len(q) \in Nat \ {0} /\ Len(r) = Len(q) - 1
        /\ \A i \in 1..Len(q) - 1 : r[i] = q[i + 1]
    BY <2>1, <2>2, Taking
  <2>4. /\ taken' = taken \cup {u} /\ lost'[x] = r
        /\ \A y \in Sessions : y # x => lost'[y] = lost[y]
    BY <1>6, <2>1 DEF LossesOK
  <2>5. QueueInv(x) /\ record[u].session = x /\ u \notin Observed /\ u \notin released
    BY <2>1, <2>3 DEF LossInv, QueueInv
  <2>6. \A i, j \in 1..Len(q) : q[i] = q[j] => i = j
    BY <2>1, <2>5 DEF QueueInv
  <2>7. \A i \in 1..Len(r) : i + 1 \in 1..Len(q) /\ r[i] = q[i + 1] /\ r[i] # u
    <3>1. TAKE i \in 1..Len(r)
    <3>2. i + 1 \in 1..Len(q) /\ i \in 1..Len(q) - 1 /\ i + 1 # 1
      BY <2>3
    <3>3. QED
      BY <2>3, <2>6, <3>2
  <2>8. ASSUME NEW y \in Sessions PROVE QueueInv(y)'
    <3>1. QueueInv(y)
      BY DEF LossInv
    <3>2. CASE y # x
      <4>1. \A i \in 1..Len(lost[y]) : record[lost[y][i]].session = y
        BY <3>1 DEF QueueInv
      <4>2. \A i \in 1..Len(lost[y]) : lost[y][i] # u
        BY <2>5, <3>2, <4>1
      <4>3. QED
        BY <1>2, <1>3, <2>4, <3>1, <3>2, <4>2 DEF QueueInv
    <3>3. CASE y = x
      <4>1. overflow[x] => FALSE
        BY <1>6, <2>5 DEF QueueInv
      <4>2. \A i, j \in 1..Len(r) : r[i] = r[j] => i = j
        <5>1. TAKE i, j \in 1..Len(r)
        <5>2. r[i] = r[j] => i + 1 = j + 1
          BY <2>6, <2>7
        <5>3. QED
          BY <5>2, <2>3
      <4>3. \A i \in 1..Len(q) :
              /\ record[q[i]].session = x
              /\ q[i] \notin Observed /\ q[i] \notin released /\ q[i] \notin taken
        BY <2>1, <2>5 DEF QueueInv
      <4>4. \A i \in 1..Len(r) :
              /\ record[r[i]].session = x
              /\ r[i] \notin Observed /\ r[i] \notin released /\ r[i] \notin taken'
        BY <2>4, <2>7, <4>3
      <4>5. QED
        BY <1>2, <1>3, <2>4, <3>3, <4>1, <4>2, <4>4 DEF QueueInv
    <3>4. QED
      BY <3>2, <3>3
  <2>9. ASSUME NEW t \in DOMAIN record PROVE TokenInv(t)'
    <3>1. PICK y \in Sessions : y = record[t].session
      BY Shapes DEF Observation
    <3>2. TokenInv(t) /\ record'[t] = record[t]
      BY <1>2 DEF LossInv
    <3>3. Queued(y, t) => Queued(y, t)' \/ t = u
      <4>1. CASE y # x
        BY <2>4, <4>1 DEF Queued
      <4>2. CASE y = x
        <5>1. ASSUME NEW i \in 1..Len(q), q[i] = t, t # u
              PROVE  Queued(y, t)'
          <6>1. i # 1
            BY <2>3, <5>1
          <6>2. i - 1 \in 1..Len(r) /\ r[i - 1] = q[(i - 1) + 1] /\ (i - 1) + 1 = i
            BY <2>3, <6>1
          <6>3. QED
            BY <2>4, <4>2, <5>1, <6>2 DEF Queued
        <5>2. QED
          BY <2>1, <4>2, <5>1 DEF Queued
      <4>3. QED
        BY <4>1, <4>2
    <3>4. t \in taken' <=> t \in taken \/ t = u
      BY <2>4
    <3>5. report_losses[y] => report_losses'[y]
      BY <1>4
    <3>6. t = u => t \notin Observed /\ t \notin released
      BY <2>5
    <3>7. sessions_' = sessions_ /\ overflow' = overflow /\ released' = released
      BY <1>2
    <3>8. QED
      BY <1>3, <3>1, <3>2, <3>3, <3>4, <3>5, <3>6, <3>7, Zenon DEF TokenInv, Registered
  <2>10. QED
    BY <1>2, <2>8, <2>9 DEF LossInv
<1>7. QED
  BY <1>1, <1>5, <1>6

LEMMA NextLoss == TypeInv /\ AgreeInv /\ LossInv /\ [Next]_vars => LossInv'
<1> SUFFICES ASSUME TypeInv, AgreeInv, LossInv, [Next]_vars PROVE LossInv'
  OBVIOUS
<1> USE DEF TypeInv, TypeOK
<1>1. ASSUME NEW gone, Ending(gone) PROVE LossInv'
  <2>1. Drop(gone) /\ record' = record
    BY <1>1 DEF Ending
  <2>2. ASSUME NEW x \in Sessions, gone = observations[x], Forget({x}), UNCHANGED history
        PROVE  LossInv'
    <3>1. \A t \in Observed : t \in gone => record[t].session \in {x}
      BY <2>2 DEF AgreeInv
    <3>2. QED
      BY <2>1, <2>2, <3>1, LossForget
  <2>3. ASSUME NEW x \in Sessions, NEW t \in observations[x], gone = {t},
               released' = released \cup {t}, UNCHANGED <<sessions_, losses, taken>>
        PROVE  LossInv'
    <3>1. t \in Observed
      BY Shapes
    <3>2. QED
      BY <2>1, <2>3, <3>1, LossRelease
  <2>4. ASSUME NEW i \in Indices, gone = Matched(i) \cap Observed, Lose(gone),
               UNCHANGED <<sessions_, report_losses, history>>
        PROVE  LossInv'
    <3>1. gone \subseteq Observed
      BY <2>4
    <3>2. QED
      BY <2>1, <2>4, <3>1, LossInvalidate
  <2>5. ASSUME gone = Observed, Forget({ x \in Sessions : Registered(x) }), UNCHANGED history
        PROVE  LossInv'
    <3>1. PICK g : g = { x \in Sessions : Registered(x) }
      OBVIOUS
    <3>2. \A t \in Observed : t \in gone => record[t].session \in g
      BY <3>1, OwnSession
    <3>3. QED
      BY <2>1, <2>5, <3>1, <3>2, LossForget
  <2>6. QED
    BY <1>1, <2>2, <2>3, <2>4, <2>5 DEF Ending
<1>2. CASE CaptureAdds
  BY <1>2, LossCapture
<1>3. CASE TakeLost
  BY <1>3, LossTake
<1>4. ASSUME UNCHANGED <<record, watches>>,
             \/ StartSession \/ ReportLosses \/ GivingBack \/ Reading \/ CaptureRepeats
             \/ Array \/ StartService \/ StopService \/ UNCHANGED vars
      PROVE  LossInv'
  <2>1. Observed' = Observed /\ record' = record
    BY <1>4 DEF watches, Observed
  <2>2. UNCHANGED history /\ lost' = lost /\ overflow' = overflow
    BY <1>4 DEF StartSession, ReportLosses, GivingBack, Reading, CaptureRepeats, Array,
       StartService, StopService, vars, losses, CallCapture, CallValid, ReadObject, ReadSerial,
       CaptureRefused, ValidReturns, CreateObject, AllocateSerial, DeleteObject, NotifyBegins,
       FreeObject
  <2>3. ASSUME NEW x \in Sessions
        PROVE  /\ sessions_[x] # "new" => sessions_'[x] = sessions_[x]
               /\ report_losses[x] => report_losses'[x]
    <3>1. CASE StartSession
      BY <3>1 DEF StartSession, RegistryOK, losses
    <3>2. CASE ReportLosses
      BY <3>2 DEF ReportLosses, LossesOK
    <3>3. ASSUME ~StartSession, ~ReportLosses PROVE UNCHANGED <<sessions_, report_losses>>
      BY <1>4, <3>3 DEF GivingBack, Reading, CaptureRepeats, Array,
       StartService, StopService, vars, losses, CallCapture, CallValid, ReadObject, ReadSerial,
       CaptureRefused, ValidReturns, CreateObject, AllocateSerial, DeleteObject, NotifyBegins,
       FreeObject
    <3>4. QED
      BY <3>1, <3>2, <3>3
  <2>4. QED
    BY <2>1, <2>2, <2>3, LossFrame
<1>5. QED
  BY <1>1, <1>2, <1>3, <1>4, Steps
(* A token is in exactly one place. *)
LEMMA LossInvAccounts == TypeInv /\ AgreeInv /\ LossInv => LossesAccounted
<1> SUFFICES ASSUME TypeInv, AgreeInv, LossInv, NEW t \in DOMAIN record,
                    NEW x, x = record[t].session,
                    record[t].reporting, Registered(x), ~overflow[x]
             PROVE  /\ t \in Observed \cup released \cup taken \cup Range(lost[x])
                    /\ Cardinality({ i \in DOMAIN lost[x] : lost[x][i] = t })
                         + Cardinality({ S \in {1, 2, 3} :
                             t \in (CASE S = 1 -> Observed [] S = 2 -> released
                                      [] S = 3 -> taken) }) = 1
  BY DEF LossesAccounted
<1> USE DEF TypeInv, TypeOK
<1>1. x \in Sessions
  BY Shapes DEF Observation
<1>2. TokenInv(t) /\ QueueInv(x)
  BY <1>1 DEF LossInv
<1>3. lost[x] \in Seq(DOMAIN record) /\ DOMAIN lost[x] = 1..Len(lost[x])
  BY <1>1 DEF LossesOK
<1>4. PICK Q : Q = { i \in DOMAIN lost[x] : lost[x][i] = t }
  OBVIOUS
<1>5. PICK P : P = { S \in {1, 2, 3} :
                       t \in (CASE S = 1 -> Observed [] S = 2 -> released [] S = 3 -> taken) }
  OBVIOUS
<1>6. /\ P \subseteq {1, 2, 3} /\ (1 \in P <=> t \in Observed)
      /\ (2 \in P <=> t \in released) /\ (3 \in P <=> t \in taken)
  BY <1>5
<1>7. Cardinality({}) = 0 /\ \A e : Cardinality({e}) = 1
  BY FS_EmptySet, FS_Singleton
<1>8. CASE Queued(x, t)
  <2>1. PICK i \in 1..Len(lost[x]) : lost[x][i] = t
    BY <1>8 DEF Queued
  <2>2. Q = {i}
    BY <1>2, <1>3, <1>4, <2>1 DEF QueueInv
  <2>3. t \notin Observed /\ t \notin released /\ t \notin taken
    BY <1>2, <2>1 DEF QueueInv
  <2>4. P = {}
    BY <1>6, <2>3
  <2>5. t \in Range(lost[x])
    BY <1>3, <2>1 DEF Range
  <2>6. Cardinality(Q) = 1 /\ Cardinality(P) = 0
    BY <1>7, <2>2, <2>4, Zenon
  <2>7. Cardinality(Q) + Cardinality(P) = 1
    BY <2>6
  <2>8. QED
    BY <1>4, <1>5, <2>5, <2>7, Zenon
<1>9. CASE ~Queued(x, t)
  <2>1. Q = {}
    BY <1>3, <1>4, <1>9 DEF Queued
  <2>2. t \in Observed \/ t \in released \/ t \in taken
    BY <1>2, <1>9 DEF TokenInv
  <2>3. P = {1} \/ P = {2} \/ P = {3}
    BY <1>2, <1>6, <2>2 DEF TokenInv
  <2>4. Cardinality(Q) = 0 /\ Cardinality(P) = 1
    BY <1>7, <2>1, <2>3, Zenon
  <2>5. Cardinality(Q) + Cardinality(P) = 1
    BY <2>4
  <2>6. QED
    BY <1>4, <1>5, <2>2, <2>5, Zenon
<1>10. QED
  BY <1>8, <1>9

FailsClosed(x) ==
  (overflow[x] /\ sessions_'[x] = "registered") =>
    /\ overflow'[x] /\ lost'[x] = <<>>
    /\ observations'[x] \subseteq observations[x]
    /\ \A t \in observations'[x] : references'[t] <= references[t]

LEMMA StepFailsClosed ==
  ASSUME TypeInv, AgreeInv, LossInv, [Next]_vars, NEW x \in Sessions
  PROVE  FailsClosed(x)
<1> SUFFICES ASSUME overflow[x], sessions_'[x] = "registered"
             PROVE  /\ overflow'[x] /\ lost'[x] = <<>>
                    /\ observations'[x] \subseteq observations[x]
                    /\ \A t \in observations'[x] : references'[t] <= references[t]
  BY DEF FailsClosed
<1> USE DEF TypeInv, TypeOK
<1>1. lost[x] = <<>>
  BY DEF LossInv, QueueInv
<1>2. \A t \in TokenIds : references[t] \in Nat
  BY DEF RegistryOK
<1>3. observations[x] \subseteq TokenIds /\ observations[x] \subseteq DOMAIN record
  BY Shapes
<1>4. \A t \in observations[x] : references[t] <= references[t]
  BY <1>2, <1>3
<1>5. ASSUME NEW gone, Ending(gone)
      PROVE  /\ overflow'[x] /\ lost'[x] = <<>>
             /\ observations'[x] \subseteq observations[x]
             /\ \A t \in observations'[x] : references'[t] <= references[t]
  <2>1. observations'[x] \subseteq observations[x]
    <3>1. Drop(gone)
      BY <1>5 DEF Ending
    <3>2. QED
      BY <3>1, Dropping
  <2>2. overflow'[x] /\ lost'[x] = <<>>
    <3>1. ASSUME NEW g, Forget(g) PROVE overflow'[x] /\ lost'[x] = <<>>
      BY <1>1, <3>1, Forgetting
    <3>2. CASE UNCHANGED losses
      BY <1>1, <3>2 DEF losses
    <3>3. CASE Lose(gone)
      BY <1>1, <3>3, Losing
    <3>4. QED
      BY <1>5, <3>1, <3>2, <3>3 DEF Ending
  <2>3. ASSUME NEW t \in observations'[x] PROVE references'[t] <= references[t]
    <3>1. t \in TokenIds /\ references[t] \in Nat
      BY <1>2, <1>3, <2>1
    <3>2. ASSUME NEW u, references' = [references EXCEPT ![u] = @ - 1]
          PROVE  references'[t] <= references[t]
      <4>1. references'[t] = references[t] \/ references'[t] = references[t] - 1
        BY <3>1, <3>2 DEF RegistryOK
      <4>2. QED
        BY <3>1, <4>1
    <3>3. CASE references' = references
      BY <3>1, <3>3
    <3>4. QED
      BY <1>5, <3>2, <3>3 DEF Ending
  <2>4. QED
    BY <2>1, <2>2, <2>3
<1>6. CASE CaptureAdds
  <2>1. PICK u : u = Len(record) + 1
    OBVIOUS
  <2>2. /\ MayCapture /\ u \notin DOMAIN record /\ UNCHANGED losses
        /\ observations'[x] = IF x = game.session THEN observations[x] \cup {u}
                              ELSE observations[x]
        /\ \A t \in TokenIds \ {u} : references'[t] = references[t]
    BY <1>6, <2>1, Adding
  <2>3. observations'[x] = observations[x] /\ \A t \in observations[x] : references'[t] = references[t]
    BY <1>3, <2>2 DEF MayCapture
  <2>4. overflow' = overflow /\ lost' = lost
    BY <2>2 DEF losses
  <2>5. observations'[x] \subseteq observations[x]
    BY <2>3
  <2>6. \A t \in observations'[x] : references'[t] <= references[t]
    <3>1. ASSUME NEW t \in observations[x] PROVE references'[t] <= references[t]
      <4>1. references'[t] = references[t] /\ references[t] \in Nat
        BY <1>2, <1>3, <2>3, <3>1, Zenon
      <4>2. QED
        BY <4>1
    <3>2. QED
      BY <2>3, <3>1
  <2>7. QED
    BY <1>1, <2>4, <2>5, <2>6
<1>7. ASSUME UNCHANGED <<record, watches>>,
             \/ StartSession \/ ReportLosses \/ TakeLost \/ GivingBack \/ Reading
             \/ CaptureRepeats \/ Array \/ StartService \/ StopService \/ UNCHANGED vars
      PROVE  /\ overflow'[x] /\ lost'[x] = <<>>
             /\ observations'[x] \subseteq observations[x]
             /\ \A t \in observations'[x] : references'[t] <= references[t]
  <2>1. observations'[x] = observations[x]
    BY <1>7 DEF watches
  <2>2. overflow'[x] /\ lost'[x] = <<>>
    <3>1. CASE TakeLost
      <4>1. PICK y \in Sessions :
              IF overflow[y] \/ lost[y] = <<>> THEN UNCHANGED <<lost, taken>>
              ELSE /\ taken' = taken \cup {Head(lost[y])}
                   /\ lost' = [lost EXCEPT ![y] = Tail(@)]
        BY <3>1 DEF TakeLost
      <4>2. lost'[x] = lost[x] /\ overflow' = overflow
        BY <3>1, <4>1 DEF TakeLost, LossesOK
      <4>3. QED
        BY <1>1, <4>2
    <3>2. ASSUME ~TakeLost PROVE UNCHANGED <<lost, overflow>>
      BY <1>7, <3>2 DEF StartSession, ReportLosses, GivingBack, Reading, CaptureRepeats, Array,
       StartService, StopService, vars, losses, CallCapture, CallValid, ReadObject, ReadSerial,
       CaptureRefused, ValidReturns, CreateObject, AllocateSerial, DeleteObject, NotifyBegins,
       FreeObject
    <3>3. QED
      BY <1>1, <3>1, <3>2
  <2>3. ASSUME NEW t \in observations[x] PROVE references'[t] <= references[t]
    <3>1. t \in TokenIds /\ references[t] \in Nat
      BY <1>2, <1>3
    <3>2. CASE GivingBack
      <4>1. PICK y \in Sessions : \E u \in observations[y] :
              references' = [references EXCEPT ![u] = @ - 1]
        BY <3>2 DEF GivingBack
      <4>2. references'[t] = references[t] \/ references'[t] = references[t] - 1
        BY <3>1, <4>1 DEF RegistryOK
      <4>3. QED
        BY <3>1, <4>2
    <3>3. CASE CaptureRepeats
      <4>1. PICK u \in Existing : references' = [references EXCEPT ![u] = @ + 1]
        BY <3>3 DEF CaptureRepeats
      <4>2. MayCapture /\ Capturing
        BY <3>3 DEF CaptureRepeats
      <4>3. game.session # x /\ game.session \in Sessions
        BY <4>2 DEF MayCapture, Capturing, GameOK, NoCall
      <4>4. record[u].session = game.session /\ record[t].session = x
        BY <4>3 DEF Existing, AgreeInv
      <4>5. references'[t] = references[t]
        BY <3>1, <4>1, <4>3, <4>4 DEF RegistryOK
      <4>6. QED
        BY <3>1, <4>5
    <3>4. ASSUME ~GivingBack, ~CaptureRepeats PROVE UNCHANGED references
      BY <1>7, <3>4 DEF StartSession, ReportLosses, TakeLost, Reading, Array,
       StartService, StopService, vars, losses, CallCapture, CallValid, ReadObject, ReadSerial,
       CaptureRefused, ValidReturns, CreateObject, AllocateSerial, DeleteObject, NotifyBegins,
       FreeObject
    <3>5. QED
      BY <1>4, <3>2, <3>3, <3>4
  <2>4. QED
    BY <2>1, <2>2, <2>3
<1>8. QED
  BY <1>5, <1>6, <1>7, Steps

-----------------------------------------------------------------------------
(* What the specification keeps.                                           *)

LifecycleInv == TypeInv /\ AgreeInv /\ SerialInv /\ DueInv /\ LossInv

(* The types, the structures, the serial numbers, the notifications and the *)
(* losses in one inductive invariant: the later theorems read from it.      *)
THEOREM LifecycleInvariance == Spec => []LifecycleInv
<1>1. Init => LifecycleInv
  BY InitTypeInv, InitAgree, InitSerial, InitDue, InitLoss DEF LifecycleInv
<1>2. LifecycleInv /\ [Next]_vars => LifecycleInv'
  BY NextTypeInv, NextAgree, NextSerial, NextDue, NextLoss DEF LifecycleInv
<1>3. QED
  BY <1>1, <1>2, PTL DEF Spec

(* Every variable stays in its type, for any sessions, slots and limits:    *)
(* reference counts never run below 0, and every queued token was given out.*)
THEOREM TypeCorrect == Spec => []TypeOK
<1>1. LifecycleInv => TypeOK
  BY DEF LifecycleInv, TypeInv
<1>2. QED
  BY <1>1, LifecycleInvariance, PTL

(* Both indexes, the identity map and the count read without the mutex tell *)
(* of the same observations, each held and of one live session.             *)
THEOREM RegistryAgrees == Spec => []IndexesAgree
<1>1. LifecycleInv => IndexesAgree
  BY AgreeGivesIndexes DEF LifecycleInv
<1>2. QED
  BY <1>1, LifecycleInvariance, PTL

(* valid never takes a successor for the object a token was captured for:   *)
(* serial numbers identify objects, although slot, serial number and token  *)
(* are read at three different times.                                       *)
THEOREM ValidIsExact == Spec => []ValidMeansSameObject
<1>1. LifecycleInv => ValidMeansSameObject
  BY SerialsIdentify DEF LifecycleInv
<1>2. QED
  BY <1>1, LifecycleInvariance, PTL

(* No loss is forgotten and none told twice, with any number of sessions,   *)
(* objects and notifications in flight.                                     *)
THEOREM LossesAreExact == Spec => []LossesAccounted
<1>1. LifecycleInv => LossesAccounted
  BY LossInvAccounts DEF LifecycleInv
<1>2. QED
  BY <1>1, LifecycleInvariance, PTL

(* A notification that is over has ended every observation of its slot and  *)
(* address that was there when it began, even when it skipped the mutex.    *)
THEOREM NotificationsAreThorough == Spec => NotificationEndsObservations
<1>1. LifecycleInv /\ [Next]_vars => \A i \in Indices : NotificationEnds(i)
  BY StepEnds DEF LifecycleInv
<1>2. LifecycleInv /\ [Next]_vars =>
        [\A i \in Indices :
           LET ends == slots'[i].phase \in {"live", "dying"}
           IN /\ (slots[i].phase \in {"created", "deleted"} /\ ends /\ Listening)
                   => Concerned(i) \cap Observed' = {}
              /\ (slots[i].phase \in {"creating", "deleting"} /\ ends)
                   => due[i] \cap Observed' = {}]_vars
  BY <1>1 DEF NotificationEnds
<1>3. QED
  BY <1>2, LifecycleInvariance, PTL DEF Spec, NotificationEndsObservations

(* A faulted session stays faulted and captures nothing until it is stopped. *)
THEOREM FaultsFailClosed == Spec => FaultedFailsClosed
<1>1. LifecycleInv /\ [Next]_vars => \A x \in Sessions : FailsClosed(x)
  BY StepFailsClosed DEF LifecycleInv
<1>2. LifecycleInv /\ [Next]_vars =>
        [\A x \in Sessions : (overflow[x] /\ sessions_'[x] = "registered") =>
           /\ overflow'[x] /\ lost'[x] = <<>>
           /\ observations'[x] \subseteq observations[x]
           /\ \A t \in observations'[x] : references'[t] <= references[t]]_vars
  BY <1>1 DEF FailsClosed
<1>3. QED
  BY <1>2, LifecycleInvariance, PTL DEF Spec, FaultedFailsClosed
============================================================================
