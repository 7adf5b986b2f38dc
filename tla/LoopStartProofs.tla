--------------------------- MODULE LoopStartProofs ---------------------------
(***************************************************************************)
(* Proofs about LoopStart, for any sets of sessions and of Lua states and  *)
(* any capacity.                                                           *)
(***************************************************************************)
EXTENDS LoopStart, SequenceTheorems, FiniteSetTheorems, TLAPS

USE SessionsAssumption, BoundsAssumption

(* The host is in the middle of starting or stopping the session. *)
Transit(s) == phase[s] \in {"starting", "stopping", "inactive"}

(* Its states exist: they do from its start to the end of its stop. *)
Stored(s) == Transit(s) \/ phase[s] = "active"

(* One session at a time is in transit; a session has states while it is
   stored, and two sessions share none. *)
StatesInv ==
  /\ \A r, s \in Sessions : (Transit(r) /\ Transit(s)) => r = s
  /\ \A s \in Sessions : Stored(s) <=> states[s] # <<>>
  /\ \A r, s \in Sessions : r # s => Range(states[r]) \cap Range(states[s]) = {}

(* A state resolves to its session; those of a session that starts do it one
   by one, `starting' has the rest. *)
AliasInv ==
  /\ \A s \in Sessions, a \in States : aliases_[a] = s => a \in Range(states[s])
  /\ \A s \in Sessions : Scripting(s) => \A a \in Range(states[s]) : aliases_[a] = s
  /\ \A s \in Sessions : phase[s] = "starting" =>
       /\ Range(starting) \subseteq Range(states[s])
       /\ \A a \in Range(states[s]) : aliases_[a] = s \/ a \in Range(starting)

(* A token is used once: callbacks that began or were dropped have old tokens
   and are not in the table. *)
TokenInv ==
  /\ \A s \in Sessions : \A t \in callbacks[s] :
       t <= last_token[s] /\ <<s, t>> \notin begun \cup dropped
  /\ \A x \in begun \cup dropped : x[2] <= last_token[x[1]]

Late(s) == { x \in late : x[1] = s }

(* Only a session that has been stopped has a late callback, and the loop does
   not pass its test a second time. *)
LateInv ==
  /\ \A s \in Sessions : callbacks[s] # {} => Scripting(s)
  /\ \A s \in Sessions : Late(s) # {} =>
       /\ phase[s] \in {"inactive", "closed"}
       /\ ~(update.at = "call" /\ update.callback[1] = s)
  /\ \A s \in Sessions : \A x, y \in Late(s) : x = y

-----------------------------------------------------------------------------
(* Sequences of states.                                                    *)

LEMMA RangeTail ==
  ASSUME NEW S, NEW q \in Seq(S), q # <<>>
  PROVE  Range(q) = {Head(q)} \cup Range(Tail(q)) /\ Range(q) \subseteq S
<1>1. Len(q) \in Nat /\ Len(q) >= 1
  BY EmptySeq
<1>2. /\ Len(Tail(q)) = Len(q) - 1 /\ \A i \in 1..Len(Tail(q)) : Tail(q)[i] = q[i+1]
      /\ DOMAIN Tail(q) = 1..Len(Tail(q))
  BY <1>1
<1>3. \A i \in 1..Len(q) : q[i] = Head(q) \/ q[i] \in Range(Tail(q))
  <2> TAKE i \in 1..Len(q)
  <2>1. CASE i = 1
    BY <2>1
  <2>2. CASE i # 1
    <3>1. PICK j \in 1..Len(Tail(q)) : j + 1 = i
      <4>1. i - 1 \in 1..Len(Tail(q)) /\ (i - 1) + 1 = i
        BY <1>1, <1>2, <2>2
      <4>2. QED
        BY <4>1
    <3>2. Tail(q)[j] = q[j+1]
      BY <1>2, Zenon
    <3>3. Tail(q)[j] \in Range(Tail(q))
      BY <1>2, <3>1, Zenon DEF Range
    <3>4. Tail(q)[j] = q[i]
      BY <3>1, <3>2, Zenon
    <3>5. QED
      BY <3>3, <3>4, Zenon
  <2>3. QED
    BY <2>1, <2>2
<1>4. \A i \in 1..Len(Tail(q)) : Tail(q)[i] \in Range(q)
  BY <1>1, <1>2 DEF Range
<1>5. Head(q) \in Range(q)
  BY <1>1 DEF Range
<1>6. Range(q) \subseteq S
  BY DEF Range
<1>7. QED
  BY <1>3, <1>4, <1>5, <1>6 DEF Range

LEMMA RangeEmpty == Range(<<>>) = {}
  BY DEF Range

(* The states a session is published with. *)
LEMMA OwnStates ==
  ASSUME NEW n \in 1..2, NEW own \in [1..n -> UnusedStates]
  PROVE  /\ own \in Seq(States) /\ own # <<>>
         /\ Range(own) \subseteq UnusedStates
<1>1. own \in [1..n -> States]
  BY DEF UnusedStates
<1>2. own \in Seq(States) /\ Len(own) = n
  BY <1>1
<1>3. own # <<>>
  BY <1>2
<1>4. QED
  BY <1>2, <1>3 DEF Range

-----------------------------------------------------------------------------
(* Type correctness. *)

LEMMA InitTypeOK == ASSUME Init PROVE TypeOK
<1>1. phase \in [Sessions -> {"new", "starting", "active", "stopping", "inactive", "closed", "erased"}]
      /\ states \in [Sessions -> Seq(States)] /\ starting \in Seq(States)
      /\ aliases_ \in [States -> Sessions \cup {NoSession}]
  BY DEF Init
<1>2. /\ loop_start_callbacks \in [Sessions -> SUBSET Nat]
      /\ \A s \in Sessions : /\ IsFiniteSet(loop_start_callbacks[s])
                              /\ Cardinality(loop_start_callbacks[s]) <= Capacity
      /\ loop_start_delivered \in [Sessions -> BOOLEAN]
  BY FS_EmptySet DEF Init
<1>3. /\ callbacks \in [Sessions -> SUBSET Nat] /\ last_token \in [Sessions -> Nat]
      /\ script \in [Sessions -> [op : {"none", "register", "cancel"}, token : Nat]]
  BY DEF Init, NoCall
<1>4. /\ update \in [at : {"idle", "flush", "call", "running"}, pending : SUBSET Callbacks,
                     callback : Callbacks \cup {<<NoSession, 0>>}]
      /\ update.at = "idle"
  BY DEF Init, Loop
<1>5. QED
  BY <1>1, <1>2, <1>3, <1>4 DEF Init, TypeOK

(* StopClears finds the session whose state it is given. *)
LEMMA StopFinds ==
  ASSUME TypeOK, StatesInv, AliasInv, NEW x \in Sessions, phase[x] = "active"
  PROVE  states[x][1] \in Range(states[x]) /\ aliases_[states[x][1]] = x
<1>1. states[x] \in Seq(States) /\ states[x] # <<>>
  BY DEF TypeOK, StatesInv, Stored
<1>2. Len(states[x]) \in Nat /\ Len(states[x]) >= 1
  BY <1>1, EmptySeq
<1>3. states[x][1] \in Range(states[x])
  BY <1>1, <1>2 DEF Range
<1>4. QED
  BY <1>3 DEF AliasInv, Scripting

(* The loop's own state, with or without a callback. *)
Looping == [at : {"idle", "flush", "call", "running"}, pending : SUBSET Callbacks,
            callback : Callbacks \cup {<<NoSession, 0>>}]

LEMMA LoopTypeOK ==
  ASSUME NEW at \in {"idle", "flush"}, NEW pending \in SUBSET Callbacks
  PROVE  Loop(at, pending) \in Looping /\ Loop(at, pending).at = at
  BY DEF Loop, Looping

LEMMA NextTypeOK == ASSUME TypeOK, StatesInv, AliasInv, [Next]_vars PROVE TypeOK'
<1> USE DEF session, native, lua, history
<1>1. CASE PublishSession
  <2>1. PICK s \in Sessions : \E own \in UNION { [1..n -> UnusedStates] : n \in 1..2 } :
          /\ phase' = [phase EXCEPT ![s] = "starting"]
          /\ states' = [states EXCEPT ![s] = own]
          /\ starting' = own
    BY <1>1 DEF PublishSession
  <2>2. PICK own \in UNION { [1..n -> UnusedStates] : n \in 1..2 } :
          /\ phase' = [phase EXCEPT ![s] = "starting"]
          /\ states' = [states EXCEPT ![s] = own]
          /\ starting' = own
    BY <2>1
  <2>3. own \in Seq(States)
    BY OwnStates
  <2>4. QED
    BY <1>1, <2>2, <2>3 DEF PublishSession, TypeOK
<1>2. CASE RegisterState
  <2>1. starting # <<>> /\ starting \in Seq(States)
    BY <1>2 DEF RegisterState, TypeOK
  <2>2. Head(starting) \in States /\ Tail(starting) \in Seq(States)
    BY <2>1
  <2>3. QED
    BY <1>2, <2>2 DEF RegisterState, TypeOK
<1>3. CASE StartFails
  <2>1. <<>> \in Seq(States)
    OBVIOUS
  <2>2. QED
    BY <1>3, <2>1 DEF StartFails, UnbindAliases, TypeOK
<1>4. CASE StartReturns
  BY <1>4 DEF StartReturns, TypeOK
<1>5. CASE StopClears
  <2>1. PICK s \in Sessions :
          /\ loop_start_callbacks' = [loop_start_callbacks EXCEPT ![s] = {}]
          /\ loop_start_delivered' = [loop_start_delivered EXCEPT ![s] = TRUE]
          /\ phase' = [phase EXCEPT ![s] = "stopping"]
    BY <1>5, StopFinds DEF StopClears
  <2>2. /\ loop_start_callbacks' \in [Sessions -> SUBSET Nat]
        /\ \A r \in Sessions : /\ IsFiniteSet(loop_start_callbacks'[r])
                                /\ Cardinality(loop_start_callbacks'[r]) <= Capacity
    BY <2>1, FS_EmptySet DEF TypeOK
  <2>3. loop_start_delivered' \in [Sessions -> BOOLEAN]
    BY <2>1 DEF TypeOK
  <2>4. QED
    BY <1>5, <2>1, <2>2, <2>3 DEF StopClears, TypeOK
<1>6. CASE StopDeactivates
  BY <1>6 DEF StopDeactivates, TypeOK
<1>7. CASE StopReturns
  <2>1. <<>> \in Seq(States)
    OBVIOUS
  <2>2. QED
    BY <1>7, <2>1 DEF StopReturns, UnbindAliases, TypeOK
<1>8. CASE OnLoopStart
  <2>1. PICK s \in Sessions :
          /\ last_token' = [last_token EXCEPT ![s] = @ + 1]
          /\ callbacks' = [callbacks EXCEPT ![s] = @ \cup {last_token'[s]}]
          /\ script' = [script EXCEPT ![s] = [op |-> "register", token |-> last_token'[s]]]
    BY <1>8 DEF OnLoopStart
  <2>2. last_token' \in [Sessions -> Nat]
    BY <2>1 DEF TypeOK
  <2>3. callbacks' \in [Sessions -> SUBSET Nat]
    BY <2>1, <2>2 DEF TypeOK
  <2>4. script' \in [Sessions -> [op : {"none", "register", "cancel"}, token : Nat]]
    BY <2>1, <2>2 DEF TypeOK
  <2>5. QED
    BY <1>8, <2>2, <2>3, <2>4 DEF OnLoopStart, TypeOK
<1>9. CASE Cancel
  <2>1. PICK s \in Sessions : \E t \in callbacks[s] :
            /\ callbacks' = [callbacks EXCEPT ![s] = @ \ {t}]
            /\ dropped' = dropped \cup {<<s, t>>}
            /\ script' = [script EXCEPT ![s] = [op |-> "cancel", token |-> t]]
    BY <1>9 DEF Cancel
  <2>2. PICK t \in callbacks[s] :
            /\ callbacks' = [callbacks EXCEPT ![s] = @ \ {t}]
            /\ dropped' = dropped \cup {<<s, t>>}
            /\ script' = [script EXCEPT ![s] = [op |-> "cancel", token |-> t]]
    BY <2>1
  <2>3. t \in Nat
    BY DEF TypeOK
  <2>4. callbacks' \in [Sessions -> SUBSET Nat]
    BY <2>2 DEF TypeOK
  <2>5. script' \in [Sessions -> [op : {"none", "register", "cancel"}, token : Nat]]
    BY <2>2, <2>3 DEF TypeOK
  <2>6. dropped' \subseteq Callbacks
    BY <2>2, <2>3 DEF TypeOK, Callbacks
  <2>7. QED
    BY <1>9, <2>4, <2>5, <2>6 DEF Cancel, TypeOK
<1>10. CASE UnbindAll
  <2>1. PICK s \in Sessions :
          /\ callbacks' = [callbacks EXCEPT ![s] = {}]
          /\ dropped' = dropped \cup ({s} \X callbacks[s])
    BY <1>10 DEF UnbindAll
  <2>2. callbacks' \in [Sessions -> SUBSET Nat]
    BY <2>1 DEF TypeOK
  <2>3. dropped' \subseteq Callbacks
    BY <2>1 DEF TypeOK, Callbacks
  <2>4. QED
    BY <1>10, <2>2, <2>3 DEF UnbindAll, TypeOK
<1>11. ASSUME NEW s \in Sessions, RegisterLoopStart(s) PROVE TypeOK'
  <2>1. script[s] \in [op : {"none", "register", "cancel"}, token : Nat]
    BY DEF TypeOK
  <2>2. loop_start_callbacks' = [loop_start_callbacks EXCEPT ![s] = @ \cup {script[s].token}]
        /\ Cardinality(loop_start_callbacks[s]) < Capacity
    BY <1>11 DEF RegisterLoopStart, MayRegister
  <2>3. loop_start_callbacks' \in [Sessions -> SUBSET Nat]
    BY <2>1, <2>2 DEF TypeOK
  <2>4. IsFiniteSet(loop_start_callbacks[s]) /\ Cardinality(loop_start_callbacks[s]) \in Nat
    BY FS_CardinalityType DEF TypeOK
  <2>5. /\ IsFiniteSet(loop_start_callbacks'[s])
        /\ Cardinality(loop_start_callbacks'[s]) <= Cardinality(loop_start_callbacks[s]) + 1
    <3>1. loop_start_callbacks'[s] = loop_start_callbacks[s] \cup {script[s].token}
      BY <2>2 DEF TypeOK
    <3>2. /\ IsFiniteSet(loop_start_callbacks[s] \cup {script[s].token})
          /\ Cardinality(loop_start_callbacks[s] \cup {script[s].token})
               = IF script[s].token \in loop_start_callbacks[s]
                 THEN Cardinality(loop_start_callbacks[s])
                 ELSE Cardinality(loop_start_callbacks[s]) + 1
      BY <2>4, FS_AddElement
    <3>3. QED
      BY <2>4, <3>1, <3>2
  <2>6. \A r \in Sessions : /\ IsFiniteSet(loop_start_callbacks'[r])
                             /\ Cardinality(loop_start_callbacks'[r]) <= Capacity
    <3>1. Cardinality(loop_start_callbacks'[s]) <= Capacity
      <4>1. Cardinality(loop_start_callbacks'[s]) \in Nat
        BY <2>5, FS_CardinalityType
      <4>2. QED
        BY <2>2, <2>4, <2>5, <4>1
    <3>2. QED
      BY <2>2, <2>5, <3>1 DEF TypeOK
  <2>7. script' \in [Sessions -> [op : {"none", "register", "cancel"}, token : Nat]]
    BY <1>11 DEF RegisterLoopStart, NoCall, TypeOK
  <2>8. QED
    BY <1>11, <2>3, <2>6, <2>7 DEF RegisterLoopStart, TypeOK
<1>12. ASSUME NEW s \in Sessions, RegistrationFails(s) PROVE TypeOK'
  <2>1. script' \in [Sessions -> [op : {"none", "register", "cancel"}, token : Nat]]
    BY <1>12 DEF RegistrationFails, NoCall, TypeOK
  <2>2. callbacks' \in [Sessions -> SUBSET Nat]
    BY <1>12 DEF RegistrationFails, TypeOK
  <2>3. QED
    BY <1>12, <2>1, <2>2 DEF RegistrationFails, TypeOK
<1>13. ASSUME NEW s \in Sessions, CancelLoopStart(s) PROVE TypeOK'
  <2>1. PICK erased \in BOOLEAN :
          /\ loop_start_callbacks' = [loop_start_callbacks EXCEPT
               ![s] = IF erased THEN @ \ {script[s].token} ELSE @]
          /\ denied' = IF erased THEN denied ELSE denied \cup {<<s, script[s].token>>}
    BY <1>13 DEF CancelLoopStart
  <2>2. loop_start_callbacks' \in [Sessions -> SUBSET Nat]
    BY <2>1 DEF TypeOK
  <2>3. \A r \in Sessions : /\ IsFiniteSet(loop_start_callbacks'[r])
                             /\ Cardinality(loop_start_callbacks'[r]) <= Capacity
    <3>1. /\ IsFiniteSet(loop_start_callbacks[s])
          /\ Cardinality(loop_start_callbacks[s]) \in Nat
          /\ Cardinality(loop_start_callbacks[s]) <= Capacity
      BY FS_CardinalityType DEF TypeOK
    <3>2. /\ IsFiniteSet(loop_start_callbacks[s] \ {script[s].token})
          /\ Cardinality(loop_start_callbacks[s] \ {script[s].token})
               = IF script[s].token \in loop_start_callbacks[s]
                 THEN Cardinality(loop_start_callbacks[s]) - 1
                 ELSE Cardinality(loop_start_callbacks[s])
      BY <3>1, FS_RemoveElement
    <3>3. Cardinality(loop_start_callbacks[s] \ {script[s].token}) <= Capacity
      BY <3>1, <3>2
    <3>4. QED
      BY <2>1, <3>1, <3>2, <3>3 DEF TypeOK
  <2>4. denied' \subseteq Callbacks
    BY <2>1 DEF TypeOK, Callbacks
  <2>5. script' \in [Sessions -> [op : {"none", "register", "cancel"}, token : Nat]]
    BY <1>13 DEF CancelLoopStart, NoCall, TypeOK
  <2>6. QED
    BY <1>13, <2>2, <2>3, <2>4, <2>5 DEF CancelLoopStart, TypeOK
<1>14. CASE FlushCollects
  <2>1. /\ update' = Loop("flush", UNION { {s} \X loop_start_callbacks[s] :
                                             s \in { r \in Sessions : Due(r) } })
        /\ loop_start_delivered' = [s \in Sessions |-> loop_start_delivered[s] \/ Due(s)]
        /\ loop_start_callbacks' =
             [s \in Sessions |-> IF Due(s) THEN {} ELSE loop_start_callbacks[s]]
    BY <1>14 DEF FlushCollects
  <2>2. UNION { {s} \X loop_start_callbacks[s] : s \in { r \in Sessions : Due(r) } }
          \in SUBSET Callbacks
    BY DEF TypeOK, Callbacks
  <2>3. update' \in Looping /\ update'.at = "flush"
    BY <2>1, <2>2, LoopTypeOK
  <2>4. /\ loop_start_callbacks' \in [Sessions -> SUBSET Nat]
        /\ \A r \in Sessions : /\ IsFiniteSet(loop_start_callbacks'[r])
                                /\ Cardinality(loop_start_callbacks'[r]) <= Capacity
    BY <2>1, FS_EmptySet DEF TypeOK
  <2>5. loop_start_delivered' \in [Sessions -> BOOLEAN]
    BY <2>1 DEF TypeOK
  <2>6. QED
    BY <1>14, <2>3, <2>4, <2>5 DEF FlushCollects, TypeOK, Looping
<1>15. CASE CheckSession
  <2>1. PICK x \in update.pending :
          update' = IF Active(x[1])
                    THEN [at |-> "call", pending |-> update.pending \ {x}, callback |-> x]
                    ELSE Loop("flush", update.pending \ {x})
    BY <1>15 DEF CheckSession
  <2>2. x \in Callbacks /\ update.pending \ {x} \in SUBSET Callbacks
    BY DEF TypeOK
  <2>3. update' \in Looping /\ (update'.at \in {"call", "running"} => update'.callback \in Callbacks)
    <3>1. CASE Active(x[1])
      BY <2>1, <2>2, <3>1 DEF Looping
    <3>2. CASE ~Active(x[1])
      BY <2>1, <2>2, <3>2, LoopTypeOK
    <3>3. QED
      BY <3>1, <3>2
  <2>4. QED
    BY <1>15, <2>3 DEF CheckSession, TypeOK, Looping
<1>16. CASE Dispatch
  <2>1. update \in Looping /\ update.callback \in Callbacks
    BY <1>16 DEF Dispatch, TypeOK, Looping
  <2>2. callbacks' \in [Sessions -> SUBSET Nat]
    BY <1>16 DEF Dispatch, TypeOK
  <2>3. CASE update.callback[2] \in callbacks[update.callback[1]]
    <3>1. update' = [update EXCEPT !.at = "running"]
      BY <1>16, <2>3 DEF Dispatch
    <3>2. update' \in Looping /\ update'.callback \in Callbacks
      BY <2>1, <3>1 DEF Looping
    <3>3. begun' \subseteq Callbacks /\ late' \subseteq begun'
      BY <1>16, <2>1, <2>3 DEF Dispatch, TypeOK
    <3>4. QED
      BY <1>16, <2>2, <3>2, <3>3 DEF Dispatch, TypeOK, Looping
  <2>4. CASE update.callback[2] \notin callbacks[update.callback[1]]
    <3>1. update' = Loop("flush", update.pending) /\ UNCHANGED <<begun, late>>
      BY <1>16, <2>4 DEF Dispatch
    <3>2. update' \in Looping /\ update'.at = "flush"
      BY <2>1, <3>1, LoopTypeOK DEF Looping
    <3>3. QED
      BY <1>16, <2>2, <3>1, <3>2 DEF Dispatch, TypeOK, Looping
  <2>5. QED
    BY <2>3, <2>4
<1>17. CASE CallbackEnds
  <2>1. update' \in Looping /\ update'.at = "flush"
    BY <1>17, LoopTypeOK DEF CallbackEnds, TypeOK, Looping
  <2>2. QED
    BY <1>17, <2>1 DEF CallbackEnds, TypeOK, Looping
<1>18. CASE FlushReturns
  <2>1. update' \in Looping /\ update'.at = "idle"
    BY <1>18, LoopTypeOK DEF FlushReturns
  <2>2. QED
    BY <1>18, <2>1 DEF FlushReturns, TypeOK, Looping
<1>19. CASE UNCHANGED vars
  BY <1>19 DEF vars, TypeOK
<1>20. QED
  BY <1>1, <1>2, <1>3, <1>4, <1>5, <1>6, <1>7, <1>8, <1>9, <1>10, <1>11, <1>12, <1>13,
     <1>14, <1>15, <1>16, <1>17, <1>18, <1>19 DEF Next, Native, Update

-----------------------------------------------------------------------------
(* Sessions, their states and the aliases. *)

(* Only the host's steps change what sessions, states and aliases there are. *)
LEMMA HostSteps ==
  ASSUME [Next]_vars
  PROVE  \/ PublishSession \/ RegisterState \/ StartFails \/ StartReturns
         \/ StopClears \/ StopDeactivates \/ StopReturns
         \/ UNCHANGED session
<1> USE DEF native, lua, history
<1>1. CASE OnLoopStart \/ Cancel \/ UnbindAll
  BY <1>1 DEF OnLoopStart, Cancel, UnbindAll
<1>2. CASE \E s \in Sessions : Native(s)
  BY <1>2 DEF Native, RegisterLoopStart, RegistrationFails, CancelLoopStart
<1>3. CASE Update
  BY <1>3 DEF Update, FlushCollects, CheckSession, Dispatch, CallbackEnds, FlushReturns
<1>4. CASE UNCHANGED vars
  BY <1>4 DEF vars
<1>5. QED
  BY <1>1, <1>2, <1>3, <1>4 DEF Next

LEMMA PublishFacts ==
  ASSUME TypeOK, PublishSession
  PROVE  \E s \in Sessions, own \in Seq(States) :
           /\ own # <<>> /\ Range(own) \subseteq UnusedStates
           /\ phase[s] = "new" /\ \A r \in Sessions : ~Transit(r)
           /\ phase' = [phase EXCEPT ![s] = "starting"]
           /\ states' = [states EXCEPT ![s] = own]
           /\ starting' = own
           /\ UNCHANGED aliases_
<1>1. PICK s \in Sessions : \E own \in UNION { [1..n -> UnusedStates] : n \in 1..2 } :
        /\ phase[s] = "new"
        /\ phase' = [phase EXCEPT ![s] = "starting"]
        /\ states' = [states EXCEPT ![s] = own]
        /\ starting' = own
  BY DEF PublishSession
<1>2. PICK own \in UNION { [1..n -> UnusedStates] : n \in 1..2 } :
        /\ phase[s] = "new"
        /\ phase' = [phase EXCEPT ![s] = "starting"]
        /\ states' = [states EXCEPT ![s] = own]
        /\ starting' = own
  BY <1>1
<1>3. own \in Seq(States) /\ own # <<>> /\ Range(own) \subseteq UnusedStates
  BY OwnStates
<1>4. \A r \in Sessions : ~Transit(r)
  BY DEF PublishSession, HostIdle, Transit
<1>5. QED
  BY <1>2, <1>3, <1>4 DEF PublishSession

LEMMA InitHostInv == ASSUME Init PROVE StatesInv /\ AliasInv
  BY RangeEmpty DEF Init, StatesInv, AliasInv, Transit, Stored, Scripting

LEMMA NextStatesInv ==
  ASSUME TypeOK, StatesInv, AliasInv, [Next]_vars
  PROVE  StatesInv'
<1>1. CASE PublishSession
  <2>1. PICK s \in Sessions, own \in Seq(States) :
          /\ own # <<>> /\ Range(own) \subseteq UnusedStates
          /\ phase[s] = "new" /\ \A r \in Sessions : ~Transit(r)
          /\ phase' = [phase EXCEPT ![s] = "starting"]
          /\ states' = [states EXCEPT ![s] = own]
    BY <1>1, PublishFacts
  <2>2. \A r \in Sessions : Range(own) \cap Range(states[r]) = {}
    BY <2>1 DEF UnusedStates
  <2>3. states'[s] = own /\ phase'[s] = "starting"
        /\ \A r \in Sessions : r # s => states'[r] = states[r] /\ phase'[r] = phase[r]
    BY <2>1 DEF TypeOK
  <2>4. \A r \in Sessions : Transit(r)' => r = s
    BY <2>1, <2>3 DEF Transit
  <2>5. \A r \in Sessions : (Stored(r) <=> states[r] # <<>>)'
    BY <2>1, <2>3 DEF StatesInv, Stored, Transit
  <2>6. \A q, r \in Sessions : q # r => Range(states'[q]) \cap Range(states'[r]) = {}
    BY <2>2, <2>3 DEF StatesInv
  <2>7. QED
    BY <2>4, <2>5, <2>6 DEF StatesInv
<1>2. CASE RegisterState \/ UNCHANGED session
  <2>1. UNCHANGED <<phase, states>>
    BY <1>2 DEF RegisterState, session
  <2>2. QED
    BY <2>1 DEF StatesInv, Transit, Stored
<1>3. CASE StartFails \/ StopReturns
  <2>1. PICK s \in Sessions :
          /\ phase[s] \in {"starting", "inactive"}
          /\ phase' = [phase EXCEPT ![s] = "erased"] \/ phase' = [phase EXCEPT ![s] = "closed"]
          /\ states' = [states EXCEPT ![s] = <<>>]
    BY <1>3 DEF StartFails, StopReturns
  <2>2. /\ states'[s] = <<>> /\ phase'[s] \in {"erased", "closed"}
        /\ \A r \in Sessions : r # s => states'[r] = states[r] /\ phase'[r] = phase[r]
    BY <2>1 DEF TypeOK
  <2>3. \A q, r \in Sessions : q # r => Range(states'[q]) \cap Range(states'[r]) = {}
    BY <2>2, RangeEmpty DEF StatesInv
  <2>4. QED
    BY <2>1, <2>2, <2>3 DEF StatesInv, Stored, Transit
<1>4. CASE StartReturns \/ StopDeactivates \/ StopClears
  <2>1. PICK s \in Sessions :
          \/ phase[s] = "starting" /\ phase' = [phase EXCEPT ![s] = "active"]
          \/ phase[s] = "stopping" /\ phase' = [phase EXCEPT ![s] = "inactive"]
          \/ /\ phase[s] = "active" /\ phase' = [phase EXCEPT ![s] = "stopping"]
             /\ \A r \in Sessions : ~Transit(r)
    <3>1. CASE StopClears
      BY <3>1, StopFinds DEF StopClears, HostIdle, Transit
    <3>2. CASE StartReturns \/ StopDeactivates
      BY <3>2 DEF StartReturns, StopDeactivates
    <3>3. QED
      BY <1>4, <3>1, <3>2
  <2>2. UNCHANGED states
    BY <1>4 DEF StartReturns, StopDeactivates, StopClears
  <2>3. \A r \in Sessions : r # s => phase'[r] = phase[r]
    BY <2>1 DEF TypeOK
  <2>4. phase'[s] \in {"active", "inactive", "stopping"} /\ Stored(s)
    BY <2>1 DEF TypeOK, Stored, Transit
  <2>5. \A q, r \in Sessions : (Transit(q) /\ Transit(r))' => q = r
    BY <2>1, <2>3, <2>4 DEF StatesInv, Transit
  <2>6. QED
    BY <2>2, <2>3, <2>4, <2>5 DEF StatesInv, Stored, Transit
<1>5. QED
  BY <1>1, <1>2, <1>3, <1>4, HostSteps

LEMMA NextAliasInv ==
  ASSUME TypeOK, StatesInv, AliasInv, [Next]_vars
  PROVE  AliasInv'
<1>1. CASE PublishSession
  <2>1. PICK s \in Sessions, own \in Seq(States) :
          /\ own # <<>> /\ Range(own) \subseteq UnusedStates
          /\ phase[s] = "new" /\ \A r \in Sessions : ~Transit(r)
          /\ phase' = [phase EXCEPT ![s] = "starting"]
          /\ states' = [states EXCEPT ![s] = own]
          /\ starting' = own
          /\ UNCHANGED aliases_
    BY <1>1, PublishFacts
  <2>2. states'[s] = own /\ phase'[s] = "starting"
        /\ \A r \in Sessions : r # s => states'[r] = states[r] /\ phase'[r] = phase[r]
    BY <2>1 DEF TypeOK
  <2>3. \A a \in States : aliases_[a] # s
    BY <2>1, RangeEmpty DEF StatesInv, AliasInv, Stored, Transit
  <2>4. QED
    BY <2>1, <2>2, <2>3 DEF AliasInv, Scripting, Transit
<1>2. CASE RegisterState
  <2>1. PICK s \in Sessions :
          /\ phase[s] = "starting" /\ starting # <<>>
          /\ aliases_' = [aliases_ EXCEPT ![Head(starting)] = s]
          /\ starting' = Tail(starting)
          /\ UNCHANGED <<phase, states>>
    BY <1>2 DEF RegisterState
  <2>2. Range(starting) = {Head(starting)} \cup Range(starting') /\ Range(starting) \subseteq States
    BY <2>1, RangeTail DEF TypeOK
  <2>3. Head(starting) \in States /\ Head(starting) \in Range(states[s])
    BY <2>1, <2>2 DEF AliasInv
  <2>4. aliases_'[Head(starting)] = s
        /\ \A a \in States : a # Head(starting) => aliases_'[a] = aliases_[a]
    BY <2>1, <2>3 DEF TypeOK
  <2>5. \A r \in Sessions : phase[r] = "starting" => r = s
    BY <2>1 DEF StatesInv, Transit
  <2>6. \A r \in Sessions, a \in States : aliases_'[a] = r => a \in Range(states[r])
    BY <2>3, <2>4 DEF AliasInv
  <2>7. \A r \in Sessions : Scripting(r) => \A a \in Range(states[r]) : aliases_'[a] = r
    <3>1. \A r \in Sessions : Range(states[r]) \subseteq States
      BY DEF TypeOK, Range
    <3>2. \A r \in Sessions : Scripting(r) => Head(starting) \notin Range(states[r])
      BY <2>1, <2>3 DEF StatesInv, Scripting
    <3>3. QED
      BY <2>4, <3>1, <3>2 DEF AliasInv
  <2>8. \A a \in Range(states[s]) : aliases_'[a] = s \/ a \in Range(starting')
    <3>1. Range(states[s]) \subseteq States
      BY DEF TypeOK, Range
    <3>2. QED
      BY <2>1, <2>2, <2>4, <3>1 DEF AliasInv
  <2>9. QED
    BY <2>1, <2>2, <2>5, <2>6, <2>7, <2>8 DEF AliasInv, Scripting
<1>3. CASE StartFails \/ StopReturns
  <2>1. PICK s \in Sessions :
          /\ phase[s] \in {"starting", "inactive"}
          /\ UnbindAliases(s)
          /\ phase' = [phase EXCEPT ![s] = "erased"] \/ phase' = [phase EXCEPT ![s] = "closed"]
          /\ states' = [states EXCEPT ![s] = <<>>]
    BY <1>3 DEF StartFails, StopReturns
  <2>2. /\ states'[s] = <<>> /\ phase'[s] \in {"erased", "closed"}
        /\ \A r \in Sessions : r # s => states'[r] = states[r] /\ phase'[r] = phase[r]
    BY <2>1 DEF TypeOK
  <2>3. \A a \in States : aliases_'[a] # s
    BY <2>1 DEF UnbindAliases
  <2>4. \A r \in Sessions, a \in States : r # s => (aliases_'[a] = r <=> aliases_[a] = r)
    BY <2>1 DEF UnbindAliases
  <2>5. \A r \in Sessions : phase'[r] # "starting"
    BY <2>1, <2>2 DEF StatesInv, Transit
  <2>6. \A r \in Sessions : Range(states[r]) \subseteq States
    BY DEF TypeOK, Range
  <2>7. \A r \in Sessions : Scripting(r)' => r # s /\ Scripting(r)
    BY <2>2 DEF Scripting
  <2>8. \A r \in Sessions, a \in States : aliases_'[a] = r => a \in Range(states'[r])
    BY <2>2, <2>3, <2>4 DEF AliasInv
  <2>9. \A r \in Sessions : Scripting(r)' => \A a \in Range(states'[r]) : aliases_'[a] = r
    BY <2>2, <2>4, <2>6, <2>7 DEF AliasInv
  <2>10. QED
    BY <2>5, <2>8, <2>9 DEF AliasInv
<1>4. CASE StartReturns
  <2>1. PICK s \in Sessions : phase[s] = "starting" /\ phase' = [phase EXCEPT ![s] = "active"]
    BY <1>4 DEF StartReturns
  <2>2. starting = <<>> /\ UNCHANGED <<states, aliases_, starting>>
    BY <1>4 DEF StartReturns
  <2>3. phase'[s] = "active" /\ \A r \in Sessions : r # s => phase'[r] = phase[r]
    BY <2>1 DEF TypeOK
  <2>4. \A a \in Range(states[s]) : aliases_[a] = s
    BY <2>1, <2>2, RangeEmpty DEF AliasInv
  <2>5. QED
    BY <2>2, <2>3, <2>4 DEF AliasInv, Scripting
<1>5. CASE StopDeactivates \/ StopClears
  <2>1. PICK s \in Sessions :
          /\ Scripting(s)
          /\ \/ phase' = [phase EXCEPT ![s] = "inactive"]
             \/ phase' = [phase EXCEPT ![s] = "stopping"]
    BY <1>5, StopFinds DEF StopDeactivates, StopClears, Scripting
  <2>2. UNCHANGED <<states, aliases_, starting>>
    BY <1>5 DEF StopDeactivates, StopClears
  <2>3. /\ phase'[s] \in {"inactive", "stopping"}
        /\ \A r \in Sessions : r # s => phase'[r] = phase[r]
    BY <2>1 DEF TypeOK
  <2>4. QED
    BY <2>1, <2>2, <2>3 DEF AliasInv, Scripting
<1>6. CASE UNCHANGED session
  BY <1>6 DEF session, AliasInv, Scripting
<1>7. QED
  BY <1>1, <1>2, <1>3, <1>4, <1>5, <1>6, HostSteps

HostInv == TypeOK /\ StatesInv /\ AliasInv

LEMMA HostInvariant == Spec => []HostInv
<1>1. Init => HostInv
  BY InitTypeOK, InitHostInv DEF HostInv
<1>2. HostInv /\ [Next]_vars => HostInv'
  BY NextTypeOK, NextStatesInv, NextAliasInv DEF HostInv
<1>3. QED
  BY <1>1, <1>2, PTL DEF Spec

(* The types, and the limit on registered callbacks. *)
THEOREM TypeCorrect == Spec => []TypeOK
<1>1. HostInv => TypeOK
  BY DEF HostInv
<1>2. QED
  BY <1>1, HostInvariant, PTL

(* A Lua state resolves to its session from the end of its start to the end of
   its stop, whichever states start, fail, stop and are used again; so a stop
   finds the session it is for. *)
THEOREM AliasesAreExact == Spec => []AliasesExact
<1>1. HostInv => AliasesExact
  BY DEF HostInv, AliasInv, AliasesExact
<1>2. QED
  BY <1>1, HostInvariant, PTL

-----------------------------------------------------------------------------
(* Tokens. *)

LEMMA InitTokenInv == ASSUME Init PROVE TokenInv
  BY DEF Init, TokenInv

LEMMA NextTokenInv ==
  ASSUME TypeOK, TokenInv, [Next]_vars
  PROVE  TokenInv'
<1> USE DEF session, native, lua, history
<1>1. CASE UNCHANGED <<callbacks, last_token, begun, dropped>>
  BY <1>1 DEF TokenInv
<1>2. ASSUME \A s \in Sessions : callbacks'[s] \subseteq callbacks[s],
             UNCHANGED <<last_token, begun, dropped>>
      PROVE  TokenInv'
  BY <1>2 DEF TokenInv
<1>3. CASE OnLoopStart
  <2>1. PICK s \in Sessions :
          /\ last_token' = [last_token EXCEPT ![s] = @ + 1]
          /\ callbacks' = [callbacks EXCEPT ![s] = @ \cup {last_token'[s]}]
    BY <1>3 DEF OnLoopStart
  <2>2. UNCHANGED <<begun, dropped>>
    BY <1>3 DEF OnLoopStart
  <2>3. /\ last_token'[s] = last_token[s] + 1
        /\ callbacks'[s] = callbacks[s] \cup {last_token[s] + 1}
        /\ \A r \in Sessions : r # s => /\ last_token'[r] = last_token[r]
                                         /\ callbacks'[r] = callbacks[r]
    BY <2>1 DEF TypeOK
  <2>4. \A r \in Sessions : last_token[r] \in Nat /\ last_token'[r] \in Nat
                             /\ last_token[r] <= last_token'[r] /\ callbacks[r] \subseteq Nat
    <3> TAKE r \in Sessions
    <3>1. last_token[r] \in Nat /\ callbacks[r] \subseteq Nat
      BY DEF TypeOK
    <3>2. CASE r = s
      BY <2>3, <3>1, <3>2
    <3>3. CASE r # s
      BY <2>3, <3>1, <3>3
    <3>4. QED
      BY <3>2, <3>3
  <2>5. \A x \in begun \cup dropped : x[1] \in Sessions /\ x[2] \in Nat
    BY DEF TypeOK, Callbacks
  <2>6. <<s, last_token[s] + 1>> \notin begun \cup dropped
    BY <2>4 DEF TokenInv
  <2>7. \A x \in begun \cup dropped : x[2] <= last_token'[x[1]]
    BY <2>4, <2>5 DEF TokenInv
  <2>8. \A r \in Sessions : \A t \in callbacks'[r] :
          t <= last_token'[r] /\ <<r, t>> \notin begun \cup dropped
    <3>1. \A r \in Sessions : \A t \in callbacks[r] :
            t <= last_token'[r] /\ <<r, t>> \notin begun \cup dropped
      <4> TAKE r \in Sessions
      <4> TAKE t \in callbacks[r]
      <4>1. t \in Nat /\ t <= last_token[r] /\ <<r, t>> \notin begun \cup dropped
        BY <2>4 DEF TokenInv
      <4>2. last_token[r] \in Nat /\ last_token'[r] \in Nat /\ last_token[r] <= last_token'[r]
        BY <2>4
      <4>3. QED
        BY <4>1, <4>2
    <3>2. last_token[s] + 1 <= last_token'[s]
      BY <2>3, <2>4
    <3>3. TAKE r \in Sessions
    <3>4. TAKE t \in callbacks'[r]
    <3>5. t \in callbacks[r] \/ (r = s /\ t = last_token[s] + 1)
      BY <2>3
    <3>6. CASE t \in callbacks[r]
      BY <3>1, <3>6
    <3>7. CASE r = s /\ t = last_token[s] + 1
      BY <2>6, <3>2, <3>7
    <3>8. QED
      BY <3>5, <3>6, <3>7
  <2>9. QED
    BY <2>2, <2>7, <2>8 DEF TokenInv
<1>4. CASE Cancel \/ UnbindAll
  <2>1. \E s \in Sessions : \E gone \in SUBSET callbacks[s] :
          /\ callbacks' = [callbacks EXCEPT ![s] = @ \ gone]
          /\ dropped' = dropped \cup { <<s, t>> : t \in gone }
    <3>1. CASE Cancel
      <4>1. PICK s \in Sessions : \E t \in callbacks[s] :
               /\ callbacks' = [callbacks EXCEPT ![s] = @ \ {t}]
               /\ dropped' = dropped \cup {<<s, t>>}
        BY <3>1 DEF Cancel
      <4>2. PICK t \in callbacks[s] :
               /\ callbacks' = [callbacks EXCEPT ![s] = @ \ {t}]
               /\ dropped' = dropped \cup {<<s, t>>}
        BY <4>1
      <4>3. {<<s, t>>} = { <<s, u>> : u \in {t} } /\ {t} \in SUBSET callbacks[s]
        OBVIOUS
      <4>4. QED
        BY <4>2, <4>3
    <3>2. CASE UnbindAll
      <4>1. PICK s \in Sessions :
               /\ callbacks' = [callbacks EXCEPT ![s] = {}]
               /\ dropped' = dropped \cup ({s} \X callbacks[s])
        BY <3>2 DEF UnbindAll
      <4>2. {s} \X callbacks[s] = { <<s, u>> : u \in callbacks[s] }
        OBVIOUS
      <4>3. callbacks' = [callbacks EXCEPT ![s] = @ \ callbacks[s]]
        BY <4>1 DEF TypeOK
      <4>4. QED
        BY <4>1, <4>2, <4>3
    <3>3. QED
      BY <1>4, <3>1, <3>2
  <2>2. PICK s \in Sessions : \E gone \in SUBSET callbacks[s] :
          /\ callbacks' = [callbacks EXCEPT ![s] = @ \ gone]
          /\ dropped' = dropped \cup { <<s, t>> : t \in gone }
    BY <2>1
  <2>3. PICK gone \in SUBSET callbacks[s] :
          /\ callbacks' = [callbacks EXCEPT ![s] = @ \ gone]
          /\ dropped' = dropped \cup { <<s, t>> : t \in gone }
    BY <2>2
  <2>4. UNCHANGED <<last_token, begun>>
    BY <1>4 DEF Cancel, UnbindAll
  <2>5. /\ callbacks'[s] = callbacks[s] \ gone
        /\ \A r \in Sessions : r # s => callbacks'[r] = callbacks[r]
    BY <2>3 DEF TypeOK
  <2>6. \A t \in gone : t <= last_token[s]
    BY DEF TokenInv
  <2>7. \A x \in begun' \cup dropped' : x[2] <= last_token'[x[1]]
    BY <2>3, <2>4, <2>6 DEF TokenInv
  <2>8. \A r \in Sessions : \A t \in callbacks'[r] :
          t <= last_token'[r] /\ <<r, t>> \notin begun' \cup dropped'
    BY <2>3, <2>4, <2>5 DEF TokenInv
  <2>9. QED
    BY <2>7, <2>8 DEF TokenInv
<1>5. CASE Dispatch
  <2>1. PICK s \in Sessions, t \in Nat : update.callback = <<s, t>>
    BY <1>5 DEF Dispatch, TypeOK, Callbacks
  <2>2. /\ callbacks' = [callbacks EXCEPT ![s] = @ \ {t}]
        /\ UNCHANGED <<last_token, dropped>>
        /\ IF t \in callbacks[s] THEN begun' = begun \cup {<<s, t>>} ELSE UNCHANGED begun
    BY <1>5, <2>1 DEF Dispatch
  <2>3. /\ callbacks'[s] = callbacks[s] \ {t}
        /\ \A r \in Sessions : r # s => callbacks'[r] = callbacks[r]
    BY <2>2 DEF TypeOK
  <2>4. \A x \in begun' \cup dropped' : x[2] <= last_token'[x[1]]
    BY <2>2 DEF TokenInv
  <2>5. \A r \in Sessions : \A u \in callbacks'[r] :
          u <= last_token'[r] /\ <<r, u>> \notin begun' \cup dropped'
    <3> TAKE r \in Sessions
    <3> TAKE u \in callbacks'[r]
    <3>1. u \in callbacks[r] /\ <<r, u>> # <<s, t>>
      BY <2>3
    <3>2. u <= last_token[r] /\ <<r, u>> \notin begun \cup dropped
      BY <3>1 DEF TokenInv
    <3>3. QED
      BY <2>2, <3>1, <3>2
  <2>6. QED
    BY <2>4, <2>5 DEF TokenInv
<1>6. CASE StopReturns
  <2>1. \A s \in Sessions : callbacks'[s] \subseteq callbacks[s]
    BY <1>6 DEF StopReturns, TypeOK
  <2>2. UNCHANGED <<last_token, begun, dropped>>
    BY <1>6 DEF StopReturns
  <2>3. QED
    BY <1>2, <2>1, <2>2
<1>7. ASSUME NEW s \in Sessions, RegistrationFails(s) PROVE TokenInv'
  <2>1. \A r \in Sessions : callbacks'[r] \subseteq callbacks[r]
    BY <1>7 DEF RegistrationFails, TypeOK
  <2>2. UNCHANGED <<last_token, begun, dropped>>
    BY <1>7 DEF RegistrationFails
  <2>3. QED
    BY <1>2, <2>1, <2>2
<1>8. CASE PublishSession \/ RegisterState \/ StartFails \/ StartReturns \/ StopClears
           \/ StopDeactivates
  BY <1>1, <1>8 DEF PublishSession, RegisterState, StartFails, StartReturns, StopClears,
     StopDeactivates
<1>9. ASSUME NEW s \in Sessions, RegisterLoopStart(s) \/ CancelLoopStart(s) PROVE TokenInv'
  BY <1>1, <1>9 DEF RegisterLoopStart, CancelLoopStart
<1>10. CASE FlushCollects \/ CheckSession \/ CallbackEnds \/ FlushReturns
  BY <1>1, <1>10 DEF FlushCollects, CheckSession, CallbackEnds, FlushReturns
<1>11. CASE UNCHANGED vars
  BY <1>1, <1>11 DEF vars
<1>12. QED
  BY <1>3, <1>4, <1>5, <1>6, <1>7, <1>8, <1>9, <1>10, <1>11 DEF Next, Native, Update

-----------------------------------------------------------------------------
(* Callbacks that overtake a stop. *)

LEMMA InitLateInv == ASSUME Init PROVE LateInv
  BY DEF Init, Late, LateInv

LEMMA NextLateInv ==
  ASSUME TypeOK, StatesInv, AliasInv, LateInv, [Next]_vars
  PROVE  LateInv'
<1> USE DEF session, native, lua, history
<1>1. ASSUME \A s \in Sessions : callbacks'[s] # {} => Scripting(s)',
             UNCHANGED late,
             \A s \in Sessions : phase[s] \in {"inactive", "closed"} => phase'[s] \in {"inactive", "closed"},
             \A s \in Sessions :
               (update'.at = "call" /\ update'.callback[1] = s) =>
                 \/ Active(s)
                 \/ update.at = "call" /\ update.callback[1] = s
      PROVE  LateInv'
  <2>1. \A s \in Sessions : Late(s)' = Late(s)
    BY <1>1 DEF Late
  <2>2. \A s \in Sessions : Late(s)' # {} =>
          /\ phase'[s] \in {"inactive", "closed"}
          /\ ~(update'.at = "call" /\ update'.callback[1] = s)
    BY <1>1, <2>1 DEF LateInv, Active
  <2>3. \A s \in Sessions : \A x, y \in Late(s)' : x = y
    BY <2>1 DEF LateInv
  <2>4. QED
    BY <1>1, <2>2, <2>3 DEF LateInv
<1>2. CASE UNCHANGED <<phase, late, update>> /\ \A s \in Sessions : callbacks'[s] \subseteq callbacks[s]
  BY <1>1, <1>2 DEF LateInv, Scripting
<1>3. CASE PublishSession \/ StartFails \/ StartReturns \/ StopClears \/ StopDeactivates
  <2>1. \E s \in Sessions, p \in {"starting", "erased", "active", "stopping", "inactive"} :
          /\ phase' = [phase EXCEPT ![s] = p]
          /\ phase[s] \notin {"inactive", "closed"}
          /\ Scripting(s) => p \in {"active", "stopping", "inactive"}
    <3>1. CASE PublishSession
      BY <3>1, PublishFacts DEF Scripting
    <3>2. CASE StopClears
      BY <3>2, StopFinds DEF StopClears
    <3>3. CASE StartFails \/ StartReturns \/ StopDeactivates
      BY <3>3 DEF StartFails, StartReturns, StopDeactivates, Scripting
    <3>4. QED
      BY <1>3, <3>1, <3>2, <3>3
  <2>2. PICK s \in Sessions, p \in {"starting", "erased", "active", "stopping", "inactive"} :
          /\ phase' = [phase EXCEPT ![s] = p]
          /\ phase[s] \notin {"inactive", "closed"}
          /\ Scripting(s) => p \in {"active", "stopping", "inactive"}
    BY <2>1
  <2>3. UNCHANGED <<callbacks, late, update>>
    BY <1>3 DEF PublishSession, StartFails, StartReturns, StopClears, StopDeactivates
  <2>4. phase'[s] = p /\ \A r \in Sessions : r # s => phase'[r] = phase[r]
    BY <2>2 DEF TypeOK
  <2>5. \A r \in Sessions : callbacks'[r] # {} => Scripting(r)'
    BY <2>2, <2>3, <2>4 DEF LateInv, Scripting
  <2>6. QED
    BY <1>1, <2>2, <2>3, <2>4, <2>5
<1>4. CASE StopReturns
  <2>1. PICK s \in Sessions :
          /\ phase[s] = "inactive"
          /\ phase' = [phase EXCEPT ![s] = "closed"]
          /\ callbacks' = [callbacks EXCEPT ![s] = {}]
          /\ UNCHANGED <<late, update>>
    BY <1>4 DEF StopReturns
  <2>2. /\ phase'[s] = "closed" /\ callbacks'[s] = {}
        /\ \A r \in Sessions : r # s => phase'[r] = phase[r] /\ callbacks'[r] = callbacks[r]
    BY <2>1 DEF TypeOK
  <2>3. \A r \in Sessions : callbacks'[r] # {} => Scripting(r)'
    BY <2>2 DEF LateInv, Scripting
  <2>4. QED
    BY <1>1, <2>1, <2>2, <2>3
<1>5. CASE OnLoopStart
  <2>1. PICK s \in Sessions : Scripting(s) /\ \A r \in Sessions : r # s => callbacks'[r] = callbacks[r]
    BY <1>5 DEF OnLoopStart, TypeOK
  <2>2. UNCHANGED <<phase, late, update>>
    BY <1>5 DEF OnLoopStart
  <2>3. \A r \in Sessions : callbacks'[r] # {} => Scripting(r)'
    BY <2>1, <2>2 DEF LateInv, Scripting
  <2>4. QED
    BY <1>1, <2>2, <2>3
<1>6. CASE Cancel \/ UnbindAll
  <2>1. \A s \in Sessions : callbacks'[s] \subseteq callbacks[s]
    <3>1. PICK s \in Sessions : \A r \in Sessions :
            callbacks'[r] = callbacks[r] \/ (r = s /\ callbacks'[s] \subseteq callbacks[s])
      <4>1. CASE Cancel
        BY <4>1 DEF Cancel, TypeOK
      <4>2. CASE UnbindAll
        BY <4>2 DEF UnbindAll, TypeOK
      <4>3. QED
        BY <1>6, <4>1, <4>2
    <3>2. QED
      BY <3>1
  <2>2. QED
    BY <1>2, <1>6, <2>1 DEF Cancel, UnbindAll
<1>7. ASSUME NEW s \in Sessions, Native(s) PROVE LateInv'
  <2>1. \A r \in Sessions : callbacks'[r] \subseteq callbacks[r]
    <3>1. CASE RegistrationFails(s)
      BY <3>1 DEF RegistrationFails, TypeOK
    <3>2. CASE RegisterLoopStart(s) \/ CancelLoopStart(s)
      BY <3>2 DEF RegisterLoopStart, CancelLoopStart
    <3>3. QED
      BY <1>7, <3>1, <3>2 DEF Native
  <2>2. QED
    BY <1>2, <1>7, <2>1 DEF Native, RegisterLoopStart, RegistrationFails, CancelLoopStart
<1>8. CASE FlushCollects \/ CheckSession \/ CallbackEnds \/ FlushReturns
  <2>1. UNCHANGED <<phase, callbacks, late>>
    BY <1>8 DEF FlushCollects, CheckSession, CallbackEnds, FlushReturns
  <2>2. update'.at # "call" \/ (update'.at = "call" /\ Active(update'.callback[1]))
    BY <1>8 DEF FlushCollects, CheckSession, CallbackEnds, FlushReturns, Loop
  <2>3. \A r \in Sessions : callbacks'[r] # {} => Scripting(r)'
    BY <2>1 DEF LateInv, Scripting
  <2>4. QED
    BY <1>1, <2>1, <2>2, <2>3
<1>9. CASE Dispatch
  <2>1. PICK s \in Sessions, t \in Nat : update.callback = <<s, t>>
    BY <1>9 DEF Dispatch, TypeOK, Callbacks
  <2>2. /\ callbacks' = [callbacks EXCEPT ![s] = @ \ {t}]
        /\ UNCHANGED phase
        /\ update.at = "call"
    BY <1>9, <2>1 DEF Dispatch
  <2>3. \A r \in Sessions : callbacks'[r] # {} => Scripting(r)'
    BY <2>2 DEF LateInv, Scripting, TypeOK
  <2>4. update'.at # "call"
    BY <1>9 DEF Dispatch, Loop, TypeOK
  <2>5. CASE t \in callbacks[s] /\ ~Active(s)
    <3>1. late' = late \cup {<<s, t>>}
      BY <1>9, <2>1, <2>5 DEF Dispatch
    <3>2. Late(s) = {} /\ phase[s] = "inactive"
      BY <2>1, <2>2, <2>5 DEF LateInv, Scripting, Active
    <3>3. Late(s)' = {<<s, t>>} /\ \A r \in Sessions : r # s => Late(r)' = Late(r)
      BY <3>1, <3>2 DEF Late
    <3>4. \A r \in Sessions : Late(r)' # {} =>
            /\ phase'[r] \in {"inactive", "closed"}
            /\ ~(update'.at = "call" /\ update'.callback[1] = r)
      BY <2>2, <2>4, <3>2, <3>3 DEF LateInv
    <3>5. \A r \in Sessions : \A x, y \in Late(r)' : x = y
      BY <3>3 DEF LateInv
    <3>6. QED
      BY <2>3, <3>4, <3>5 DEF LateInv
  <2>6. CASE ~(t \in callbacks[s] /\ ~Active(s))
    <3>1. UNCHANGED late
      BY <1>9, <2>1, <2>6 DEF Dispatch
    <3>2. QED
      BY <1>1, <2>2, <2>3, <2>4, <3>1
  <2>7. QED
    BY <2>5, <2>6
<1>10. CASE RegisterState
  BY <1>2, <1>10 DEF RegisterState
<1>11. CASE UNCHANGED vars
  BY <1>2, <1>11 DEF vars
<1>12. QED
  BY <1>3, <1>4, <1>5, <1>6, <1>7, <1>8, <1>9, <1>10, <1>11 DEF Next, Update

-----------------------------------------------------------------------------
CallbackInv == HostInv /\ TokenInv /\ LateInv

LEMMA CallbackInvariant == Spec => []CallbackInv
<1>1. Init => CallbackInv
  BY InitTypeOK, InitHostInv, InitTokenInv, InitLateInv DEF HostInv, CallbackInv
<1>2. CallbackInv /\ [Next]_vars => CallbackInv'
  BY NextTypeOK, NextStatesInv, NextAliasInv, NextTokenInv, NextLateInv DEF HostInv, CallbackInv
<1>3. QED
  BY <1>1, <1>2, PTL DEF Spec

(* A callback begins at most once, and never after a script has cancelled it or
   cleared it with UnbindAll, whenever on_update took its token. *)
THEOREM CallbacksHaveOneChance == Spec => OneChance
<1>1. ASSUME CallbackInv, [Next]_vars, update.at = "call", update'.at = "running"
      PROVE  update'.callback \notin begun \cup dropped
  <2>1. Dispatch
    <3>1. ~UNCHANGED update
      BY <1>1
    <3>2. FlushCollects \/ CheckSession \/ Dispatch \/ CallbackEnds \/ FlushReturns
      BY <1>1, <3>1 DEF Next, Native, Update, PublishSession, RegisterState, StartFails,
         StartReturns, StopClears, StopDeactivates, StopReturns, OnLoopStart, Cancel, UnbindAll,
         RegisterLoopStart, RegistrationFails, CancelLoopStart, vars
    <3>3. QED
      BY <1>1, <3>2 DEF FlushCollects, CheckSession, CallbackEnds, FlushReturns
  <2>2. PICK s \in Sessions, t \in Nat : update.callback = <<s, t>>
    BY <1>1, <2>1 DEF Dispatch, CallbackInv, HostInv, TypeOK, Callbacks
  <2>3. t \in callbacks[s] /\ update'.callback = <<s, t>>
    <3>1. CASE t \in callbacks[s]
      <4>1. update \in Looping
        BY <1>1 DEF CallbackInv, HostInv, TypeOK, Looping
      <4>2. update' = [update EXCEPT !.at = "running"]
        BY <2>1, <2>2, <3>1 DEF Dispatch
      <4>3. QED
        BY <2>2, <3>1, <4>1, <4>2 DEF Looping
    <3>2. CASE t \notin callbacks[s]
      BY <1>1, <2>1, <2>2, <3>2 DEF Dispatch, Loop
    <3>3. QED
      BY <3>1, <3>2
  <2>4. QED
    BY <1>1, <2>3 DEF CallbackInv, TokenInv
<1>2. CallbackInv /\ [Next]_vars =>
        [(update.at = "call" /\ update'.at = "running")
           => update'.callback \notin begun \cup dropped]_vars
  BY <1>1
<1>3. QED
  BY <1>2, CallbackInvariant, PTL DEF Spec, OneChance

(* Although on_update looks at a session and calls its dispatcher in two steps,
   a stop is overtaken by one callback of the session at most. *)
THEOREM OneLateCallback == Spec => []AtMostOneLateCallback
<1>1. ASSUME CallbackInv, NEW s \in Sessions
      PROVE  Cardinality({ x \in late : x[1] = s }) <= 1
  <2>1. CASE Late(s) = {}
    BY <2>1, FS_EmptySet DEF Late
  <2>2. CASE Late(s) # {}
    <3>1. PICK x \in Late(s) : TRUE
      BY <2>2
    <3>2. Late(s) = {x}
      BY <1>1, <3>1 DEF CallbackInv, LateInv
    <3>3. Cardinality({x}) = 1
      BY FS_Singleton
    <3>4. QED
      BY <3>2, <3>3 DEF Late
  <2>3. QED
    BY <2>1, <2>2
<1>2. CallbackInv => AtMostOneLateCallback
  BY <1>1 DEF AtMostOneLateCallback
<1>3. QED
  BY <1>2, CallbackInvariant, PTL
=============================================================================
