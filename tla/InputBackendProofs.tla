------------------------- MODULE InputBackendProofs -------------------------
(***************************************************************************)
(* Proofs about the registry of InputBackend: handles, delivery policies,  *)
(* ownership of native bindings, stopped sessions and the unload, for any  *)
(* sessions, components, limits and incidents.                             *)
(***************************************************************************)
EXTENDS InputBackend, FiniteSetTheorems, TLAPS

USE BoundsAssumption

(* What is done with an event of the retained batch. *)
Handling == {"publish", "consume", "call", "latch", "deactivate", "erase", "return"}

(* Whoever holds a handle, a queued event and a running call included, holds
   one that was given out. *)
HandlesInv ==
  /\ \A s \in DOMAIN subscription : TargetOf(s) \in DOMAIN target
  /\ game.op \in {"bind", "enable", "close"} => game.target \in DOMAIN target
  /\ game.op \in {"unbind", "execute", "catch"} => game.subscription \in DOMAIN subscription
  /\ \A i \in 1..Len(events) : events[i].owner \in DOMAIN subscription
  /\ \A i \in 1..Len(pending) : pending[i].owner \in DOMAIN subscription
  /\ update.at \in Handling =>
       update.event \in Event /\ update.event.owner \in DOMAIN subscription
  /\ update.flush \in {"check", "tell"} => update.target \in DOMAIN target

-----------------------------------------------------------------------------
(* Which steps change what. *)

Calling == CallOpen \/ CallTarget \/ CallUnbind \/ CallUnbindAll

LEMMA CallingFrame ==
  ASSUME Calling
  PROVE  UNCHANGED <<registry, engine, delivery, line, batch, lua, host, update, budget,
                     stopping, history>>
  BY DEF Calling, CallOpen, CallTarget, CallUnbind, CallUnbindAll, Enter

(* The registration calls that only remove. *)
Removing == OpenCollects \/ BindFails \/ CloseTarget \/ Unbind \/ UnbindAll

LEMMA RemovingFrame ==
  ASSUME Removing
  PROVE  UNCHANGED <<target, has_bound, policy, subscription, alive, clones, clone_created,
                     delivery, line, batch, lua, host, update, budget, stopping, history>>
  BY DEF Removing, OpenCollects, BindFails, CloseTarget, Unbind, UnbindAll

FlushStep == FlushPeeks \/ FlushTakes \/ FlushChecks \/ FlushReports \/ FlushEnds

(* The steps of a pass that handle no event. *)
PassStep == BeginUpdate \/ BeginPass \/ CheckReady \/ TakeEvents \/ PopEvent \/ PublishCount
            \/ EndPass \/ TimeExpires
EventStep == SkipEvent \/ CheckEvent \/ CallLua \/ LatchError \/ Deactivate \/ EraseEvents
             \/ ReturnFailed

LEMMA Steps ==
  ASSUME [Next]_vars
  PROVE  \/ Calling \/ Removing \/ OpenInserts \/ EnableFaults \/ BindSucceeds
         \/ StopOnGameThread
         \/ Execute \/ ExecuteLocked \/ ExecuteThrows \/ ExecuteCatches
         \/ Clone \/ DestroyClone \/ DestroyComponent \/ DestructorReturns
         \/ StopOffGameThread \/ DeactivateAll \/ EraseAll
         \/ ShutdownBegins \/ ShutdownForgets \/ ShutdownClearsQueue \/ ShutdownReturns
         \/ FlushStep \/ PassStep \/ EventStep
         \/ UNCHANGED vars
  BY DEF Next, Registration, Unreal, Host, Update, Flush, Calling, Removing, FlushStep,
         PassStep, EventStep

LEMMA FlushFrame ==
  ASSUME FlushStep
  PROVE  UNCHANGED <<outside, fault, batch, budget, thrown, purged>>
  BY DEF FlushStep, FlushPeeks, FlushTakes, FlushChecks, FlushReports, FlushEnds, delivery,
         history

LEMMA PassFrame ==
  ASSUME PassStep
  PROVE  UNCHANGED <<registry, engine, lua, game, host, stopping, delivery, history,
                     next_event_sequence>>
  BY DEF PassStep, BeginUpdate, BeginPass, CheckReady, TakeEvents, PopEvent, PublishCount,
         EndPass, TimeExpires, outside, line

LEMMA EventFrame ==
  ASSUME EventStep
  PROVE  UNCHANGED <<target, targets, has_bound, policy, subscription, subscriptions, bindings,
                     engine, lua, game, host, stopping, batch, notified, reports,
                     next_event_sequence>>
<1> USE DEF outside, delivery, history, registry, line
<1>1. CASE SkipEvent \/ CheckEvent \/ CallLua
  BY <1>1 DEF SkipEvent, CheckEvent, CallLua
<1>2. CASE LatchError \/ Deactivate \/ EraseEvents \/ ReturnFailed
  BY <1>2 DEF LatchError, Deactivate, EraseEvents, ReturnFailed
<1>3. QED
  BY <1>1, <1>2 DEF EventStep

(* Only on the game thread are targets and subscriptions made. *)
LEMMA MakingFrame ==
  ASSUME [Next]_vars
  PROVE  /\ OpenInserts \/ UNCHANGED target
         /\ BindSucceeds \/ UNCHANGED subscription
         /\ BindSucceeds \/ UNCHANGED has_bound
         /\ EnableFaults \/ UNCHANGED policy
<1> USE DEF registry
<1>1. CASE Calling
  BY <1>1, CallingFrame
<1>2. CASE Removing
  BY <1>2, RemovingFrame
<1>3. CASE OpenInserts \/ EnableFaults \/ BindSucceeds \/ StopOnGameThread
  BY <1>3 DEF OpenInserts, EnableFaults, BindSucceeds, StopOnGameThread
<1>4. CASE Execute \/ ExecuteLocked \/ ExecuteThrows \/ ExecuteCatches
  BY <1>4 DEF Execute, ExecuteLocked, ExecuteThrows, ExecuteCatches
<1>5. CASE Clone \/ DestroyClone \/ DestroyComponent \/ DestructorReturns
  BY <1>5 DEF Clone, DestroyClone, DestroyComponent, DestructorReturns
<1>6. CASE StopOffGameThread \/ DeactivateAll \/ EraseAll
  BY <1>6 DEF StopOffGameThread, DeactivateAll, EraseAll
<1>7. CASE ShutdownBegins \/ ShutdownForgets \/ ShutdownClearsQueue \/ ShutdownReturns
  BY <1>7 DEF ShutdownBegins, ShutdownForgets, ShutdownClearsQueue, ShutdownReturns
<1>8. CASE FlushStep \/ PassStep \/ EventStep
  BY <1>8, FlushFrame, PassFrame, EventFrame DEF outside
<1>9. CASE UNCHANGED vars
  BY <1>9 DEF vars
<1>10. QED
  BY <1>1, <1>2, <1>3, <1>4, <1>5, <1>6, <1>7, <1>8, <1>9, Steps

-----------------------------------------------------------------------------
(* Handles are given out in order and mean the same for ever. *)

LEMMA AppendFacts ==
  ASSUME NEW S, NEW q \in Seq(S), NEW e \in S
  PROVE  /\ Append(q, e) \in Seq(S) /\ Len(Append(q, e)) = Len(q) + 1
         /\ DOMAIN Append(q, e) = DOMAIN q \cup {Len(q) + 1} /\ Len(q) + 1 \notin DOMAIN q
         /\ Append(q, e)[Len(q) + 1] = e
         /\ \A i \in DOMAIN q : Append(q, e)[i] = q[i]
<1>1. Len(q) \in Nat /\ DOMAIN q = 1..Len(q)
  OBVIOUS
<1>2. Append(q, e) \in Seq(S) /\ Len(Append(q, e)) = Len(q) + 1
  OBVIOUS
<1>3. DOMAIN Append(q, e) = 1..Len(q) + 1
  BY <1>2
<1>4. 1..Len(q) + 1 = 1..Len(q) \cup {Len(q) + 1} /\ Len(q) + 1 \notin 1..Len(q)
  BY <1>1
<1>5. Append(q, e)[Len(q) + 1] = e /\ \A i \in 1..Len(q) : Append(q, e)[i] = q[i]
  BY <1>1
<1>6. QED
  BY <1>1, <1>2, <1>3, <1>4, <1>5

LEMMA ElementFacts ==
  ASSUME NEW S, NEW q \in Seq(S)
  PROVE  DOMAIN q = 1..Len(q) /\ Len(q) \in Nat /\ \A i \in DOMAIN q : q[i] \in S
  OBVIOUS

LEMMA RecordsOK ==
  ASSUME RegistryOK
  PROVE  /\ DOMAIN target \subseteq TargetIds /\ DOMAIN subscription \subseteq SubscriptionIds
         /\ \A t \in DOMAIN target :
              target[t].session \in Sessions /\ target[t].component \in Components
         /\ \A s \in DOMAIN subscription :
              TargetOf(s) \in TargetIds /\ subscription[s].delivery \in BOOLEAN
<1>1. /\ \A t \in DOMAIN target : target[t] \in [session : Sessions, component : Components]
      /\ \A s \in DOMAIN subscription :
           subscription[s] \in [target : TargetIds, delivery : BOOLEAN]
  BY ElementFacts DEF RegistryOK
<1>2. DOMAIN target \subseteq TargetIds /\ DOMAIN subscription \subseteq SubscriptionIds
  BY DEF RegistryOK, TargetIds, SubscriptionIds
<1>3. QED
  BY <1>1, <1>2 DEF TargetOf

(* The calls by their kind. *)
LEMMA CallShape ==
  ASSUME ThreadsOK
  PROVE  /\ game.op \in {"open", "insert"} =>
              game \in [op : {"open", "insert"}, session : Sessions, component : Components]
         /\ game.op \in {"bind", "enable", "close"} =>
              game \in [op : {"bind", "enable", "close"}, session : Sessions, target : TargetIds]
         /\ game.op = "unbind" =>
              game \in [op : {"unbind"}, session : Sessions, subscription : SubscriptionIds]
         /\ game.op \in {"unbind_all", "unbind_keep", "stop", "stopped"} =>
              game \in [op : {"unbind_all", "unbind_keep", "stop", "stopped"}, session : Sessions]
         /\ game.op = "execute" =>
              game \in [op : {"execute"}, subscription : SubscriptionIds, sequence : 1..MaxEvents]
         /\ game.op = "catch" => game \in [op : {"catch"}, subscription : SubscriptionIds]
         /\ game.op = "none" => game = NoCall
  BY DEF ThreadsOK, Calls, NoCall

LEMMA OpenFacts ==
  ASSUME RegistryOK, ThreadsOK, OpenInserts
  PROVE  \/ UNCHANGED <<target, targets>>
         \/ /\ target' = Append(target, [session |-> game.session, component |-> game.component])
            /\ [session |-> game.session, component |-> game.component]
                 \in [session : Sessions, component : Components]
            /\ targets' = targets \cup {Len(target) + 1}
            /\ Len(target) < MaxTargets /\ initialized
  BY CallShape DEF OpenInserts

(* The subscription a successful bind makes. *)
Made == Len(subscription) + 1

LEMMA BindFacts ==
  ASSUME RegistryOK, ThreadsOK, HandlesInv, BindSucceeds
  PROVE  /\ \E e \in [target : TargetIds, delivery : BOOLEAN] :
              /\ subscription' = Append(subscription, e)
              /\ e.target = game.target /\ (e.delivery <=> game.target \in policy)
         /\ game.session \in Sessions /\ game.target \in DOMAIN target
         /\ Made <= MaxSubscriptions
<1>1. game.op = "bind" /\ game.target \in TargetIds /\ game.session \in Sessions
  BY CallShape DEF BindSucceeds
<1>2. game.target \in DOMAIN target
  BY <1>1 DEF HandlesInv
<1> DEFINE chosen == game.target \in policy
<1>3. chosen \in BOOLEAN
  OBVIOUS
<1>4. [target |-> game.target, delivery |-> chosen] \in [target : TargetIds, delivery : BOOLEAN]
  BY <1>1, <1>3
<1>5. subscription' = Append(subscription, [target |-> game.target, delivery |-> chosen])
  BY Zenon DEF BindSucceeds
<1>6. chosen <=> game.target \in policy
  OBVIOUS
<1> HIDE DEF chosen
<1>7. \E e \in [target : TargetIds, delivery : BOOLEAN] :
        /\ subscription' = Append(subscription, e)
        /\ e.target = game.target /\ (e.delivery <=> game.target \in policy)
  BY <1>4, <1>5, <1>6
<1>8. Made <= MaxSubscriptions
  BY DEF BindSucceeds, Made, RegistryOK
<1>9. QED
  BY <1>1, <1>2, <1>7, <1>8

LEMMA TargetsKept ==
  ASSUME RegistryOK, ThreadsOK, [Next]_vars
  PROVE  /\ DOMAIN target \subseteq DOMAIN target'
         /\ \A t \in DOMAIN target : target'[t] = target[t]
<1>1. CASE OpenInserts
  BY <1>1, OpenFacts, AppendFacts DEF RegistryOK
<1>2. CASE UNCHANGED target
  BY <1>2
<1>3. QED
  BY <1>1, <1>2, MakingFrame

LEMMA SubscriptionsKept ==
  ASSUME RegistryOK, ThreadsOK, HandlesInv, [Next]_vars
  PROVE  /\ DOMAIN subscription \subseteq DOMAIN subscription'
         /\ \A s \in DOMAIN subscription :
              /\ subscription'[s] = subscription[s]
              /\ TargetOf(s)' = TargetOf(s)
              /\ SessionOf(s)' = SessionOf(s) /\ ComponentOf(s)' = ComponentOf(s)
<1>1. /\ DOMAIN subscription \subseteq DOMAIN subscription'
      /\ \A s \in DOMAIN subscription : subscription'[s] = subscription[s]
  <2>1. CASE BindSucceeds
    <3>1. PICK e \in [target : TargetIds, delivery : BOOLEAN] :
            subscription' = Append(subscription, e)
      BY <2>1, BindFacts
    <3>2. QED
      BY <3>1, AppendFacts DEF RegistryOK
  <2>2. CASE UNCHANGED subscription
    BY <2>2
  <2>3. QED
    BY <2>1, <2>2, MakingFrame
<1>2. \A s \in DOMAIN subscription : TargetOf(s)' = TargetOf(s) /\ TargetOf(s) \in DOMAIN target
  BY <1>1 DEF TargetOf, HandlesInv
<1>3. QED
  BY <1>1, <1>2, TargetsKept DEF SessionOf, ComponentOf

(* A bind's new handle. *)
LEMMA MadeFacts ==
  ASSUME RegistryOK, ThreadsOK, HandlesInv, BindSucceeds, NEW m, m = Made
  PROVE  /\ m \in SubscriptionIds /\ m \notin DOMAIN subscription
         /\ DOMAIN subscription' = DOMAIN subscription \cup {m}
         /\ subscription'[m].delivery <=> game.target \in policy
         /\ TargetOf(m)' = game.target
         /\ SessionOf(m)' = target[game.target].session
         /\ ComponentOf(m)' = target[game.target].component
<1>1. Len(subscription) \in Nat /\ m \in SubscriptionIds
  BY BindFacts DEF RegistryOK, Made, SubscriptionIds
<1>2. /\ DOMAIN subscription' = DOMAIN subscription \cup {m} /\ m \notin DOMAIN subscription
      /\ subscription'[m].target = game.target
      /\ subscription'[m].delivery <=> game.target \in policy
  <2>1. PICK e \in [target : TargetIds, delivery : BOOLEAN] :
          /\ subscription' = Append(subscription, e)
          /\ e.target = game.target /\ (e.delivery <=> game.target \in policy)
    BY BindFacts
  <2>2. QED
    BY <2>1, AppendFacts DEF RegistryOK, Made
<1>3. TargetOf(m)' = game.target /\ target' = target
  BY <1>2 DEF TargetOf, BindSucceeds
<1>4. QED
  BY <1>1, <1>2, <1>3 DEF SessionOf, ComponentOf

-----------------------------------------------------------------------------
(* What the registration calls remove. *)

(* A call removes what is its own session's, and with a target its
   subscriptions. *)
Removes(gone, closed) ==
  /\ Remove(gone, closed)
  /\ gone \subseteq subscriptions /\ closed \subseteq targets
  /\ \A s \in gone : CalledBy(SessionOf(s))
  /\ \A t \in closed : CalledBy(target[t].session)
  /\ \A s \in subscriptions : TargetOf(s) \in closed => s \in gone

LEMMA RemovalSteps ==
  ASSUME Removing
  PROVE  \/ \E gone, closed : Removes(gone, closed)
         \/ UNCHANGED <<targets, subscriptions, active, bindings, natives, live_bindings>>
<1> USE DEF CalledBy, Removes
<1>1. CASE OpenCollects \/ BindFails
  <2>1. \/ Removes({}, {})
        \/ UNCHANGED <<targets, subscriptions, active, bindings, natives, live_bindings>>
    BY <1>1 DEF OpenCollects, BindFails, Collect
  <2>2. QED
    BY <2>1
<1>2. CASE CloseTarget
  <2> DEFINE mine == { s \in subscriptions :
                         TargetOf(s) = game.target /\ SessionOf(s) = game.session }
  <2>1. CASE initialized /\ game.target \in targets \ StaleTargets
             /\ target[game.target].session = game.session
    <3>1. Remove(mine, {game.target})
      BY <1>2, <2>1 DEF CloseTarget
    <3>2. \A s \in subscriptions : TargetOf(s) = game.target => s \in mine
      BY <2>1 DEF SessionOf
    <3>3. Removes(mine, {game.target})
      BY <1>2, <2>1, <3>1, <3>2 DEF CloseTarget
    <3>4. QED
      BY <3>3
  <2>2. CASE ~(initialized /\ game.target \in targets \ StaleTargets
               /\ target[game.target].session = game.session)
    <3>1. \/ Removes({}, {})
          \/ UNCHANGED <<targets, subscriptions, active, bindings, natives, live_bindings>>
      BY <1>2, <2>2 DEF CloseTarget, Collect
    <3>2. QED
      BY <3>1
  <2>3. QED
    BY <2>1, <2>2
<1>3. CASE Unbind
  <2>1. Removes({ s \in subscriptions : s = game.subscription /\ SessionOf(s) = game.session }, {})
    BY <1>3 DEF Unbind
  <2>2. QED
    BY <2>1
<1>4. CASE UnbindAll
  <2> DEFINE mine == { s \in subscriptions : SessionOf(s) = game.session }
             own == { t \in targets : target[t].session = game.session
                                       /\ game.op # "unbind_keep" }
  <2>1. Removes(mine, own)
    <3>1. Remove(mine, own)
      BY <1>4 DEF UnbindAll
    <3>2. QED
      BY <1>4, <3>1 DEF UnbindAll, SessionOf
  <2>2. QED
    BY <2>1
<1>5. QED
  BY <1>1, <1>2, <1>3, <1>4 DEF Removing

-----------------------------------------------------------------------------
(* Type correctness, part by part. *)

LEMMA NextRegistryOK ==
  ASSUME RegistryOK, ThreadsOK, HandlesInv, [Next]_vars
  PROVE  RegistryOK'
<1> USE DEF registry, RegistryOK
<1>1. CASE Removing
  <2>1. /\ targets' \subseteq targets /\ subscriptions' \subseteq subscriptions
        /\ active' \subseteq subscriptions' /\ bindings' \subseteq subscriptions'
    BY <1>1, RemovalSteps DEF Removes, Remove, Unsubscribe
  <2>2. QED
    BY <1>1, <2>1, RemovingFrame
<1>2. CASE OpenInserts
  <2>1. CASE UNCHANGED <<target, targets>>
    BY <1>2, <2>1 DEF OpenInserts
  <2>2. CASE ~UNCHANGED <<target, targets>>
    <3>1. PICK e \in [session : Sessions, component : Components] :
            target' = Append(target, e) /\ targets' = targets \cup {Len(target) + 1}
      BY <1>2, <2>2, OpenFacts
    <3>2. /\ target' \in Seq([session : Sessions, component : Components])
          /\ DOMAIN target' = DOMAIN target \cup {Len(target) + 1}
          /\ Len(target') = Len(target) + 1 /\ Len(target) \in Nat
      BY <3>1, AppendFacts
    <3>3. Len(target') <= MaxTargets
      BY <1>2, <2>2, <3>2, OpenFacts
    <3>4. QED
      BY <1>2, <3>1, <3>2, <3>3 DEF OpenInserts
  <2>3. QED
    BY <2>1, <2>2
<1>3. CASE EnableFaults
  <2>1. policy' \subseteq DOMAIN target
    BY <1>3 DEF EnableFaults
  <2>2. QED
    BY <1>3, <2>1 DEF EnableFaults
<1>4. CASE BindSucceeds
  <2>1. PICK e \in [target : TargetIds, delivery : BOOLEAN] :
          subscription' = Append(subscription, e)
    BY <1>4, BindFacts
  <2>2. /\ subscription' \in Seq([target : TargetIds, delivery : BOOLEAN])
        /\ DOMAIN subscription' = DOMAIN subscription \cup {Made}
        /\ Len(subscription') = Made
    BY <2>1, AppendFacts DEF Made
  <2>3. Len(subscription') <= MaxSubscriptions
    BY <1>4, <2>2, BindFacts
  <2>4. /\ subscriptions' \subseteq DOMAIN subscription'
        /\ active' \subseteq subscriptions' /\ bindings' \subseteq subscriptions'
    BY <1>4, <2>2 DEF BindSucceeds, Made
  <2>5. targets' \subseteq targets /\ has_bound' \subseteq DOMAIN target
    BY <1>4, BindFacts DEF BindSucceeds
  <2>6. QED
    BY <1>4, <2>2, <2>3, <2>4, <2>5 DEF BindSucceeds
<1>5. CASE ExecuteCatches \/ DeactivateAll \/ ShutdownForgets
  BY <1>5 DEF ExecuteCatches, DeactivateAll, ShutdownForgets
<1>6. CASE EventStep
  <2>1. active' \subseteq active
    BY <1>6 DEF EventStep, SkipEvent, CheckEvent, CallLua, LatchError, Deactivate, EraseEvents,
           ReturnFailed, outside
  <2>2. QED
    BY <1>6, <2>1, EventFrame
<1>7. CASE UNCHANGED registry
  BY <1>7
<1>8. QED
  <2>1. CASE Calling \/ StopOnGameThread \/ FlushStep \/ PassStep
    BY <1>7, <2>1, CallingFrame, FlushFrame, PassFrame DEF StopOnGameThread, outside
  <2>2. CASE \/ Execute \/ ExecuteLocked \/ ExecuteThrows
             \/ Clone \/ DestroyClone \/ DestroyComponent \/ DestructorReturns
    BY <1>7, <2>2 DEF Execute, ExecuteLocked, ExecuteThrows, Clone, DestroyClone,
           DestroyComponent, DestructorReturns
  <2>3. CASE \/ StopOffGameThread \/ EraseAll \/ ShutdownBegins \/ ShutdownClearsQueue
             \/ ShutdownReturns
    BY <1>7, <2>3 DEF StopOffGameThread, EraseAll, ShutdownBegins, ShutdownClearsQueue,
           ShutdownReturns
  <2>4. QED
    BY <1>1, <1>2, <1>3, <1>4, <1>5, <1>6, <1>7, <2>1, <2>2, <2>3, Steps DEF vars

(* Which steps touch what Unreal owns. *)
LEMMA EngineFrame ==
  ASSUME [Next]_vars
  PROVE  \/ Removing \/ BindSucceeds \/ ShutdownForgets
         \/ Clone \/ DestroyClone \/ DestroyComponent
         \/ UNCHANGED engine
<1>1. CASE Calling \/ OpenInserts \/ EnableFaults \/ StopOnGameThread
  BY <1>1, CallingFrame DEF OpenInserts, EnableFaults, StopOnGameThread
<1>2. CASE Execute \/ ExecuteLocked \/ ExecuteThrows \/ ExecuteCatches \/ DestructorReturns
  BY <1>2 DEF Execute, ExecuteLocked, ExecuteThrows, ExecuteCatches, DestructorReturns
<1>3. CASE \/ StopOffGameThread \/ DeactivateAll \/ EraseAll \/ ShutdownBegins
           \/ ShutdownClearsQueue \/ ShutdownReturns
  BY <1>3 DEF StopOffGameThread, DeactivateAll, EraseAll, ShutdownBegins, ShutdownClearsQueue,
         ShutdownReturns
<1>4. CASE FlushStep \/ PassStep \/ EventStep
  BY <1>4, FlushFrame, PassFrame, EventFrame DEF outside
<1>5. QED
  BY <1>1, <1>2, <1>3, <1>4, Steps DEF vars

(* The arrays after a removal, a bind and the shutdown. *)
LEMMA NextArrays ==
  ASSUME RegistryOK, ThreadsOK, HandlesInv, [Next]_vars
  PROVE  /\ Removing => \/ natives' = natives
                         \/ \E gone : natives' = Without(gone)
         /\ BindSucceeds =>
              natives' = [Without(Inactive) EXCEPT ![target[game.target].component] = @ \cup {Made}]
         /\ ShutdownForgets => natives' = natives \/ natives' = Without(bindings)
<1>1. ASSUME Removing PROVE \/ natives' = natives
                            \/ \E gone : natives' = Without(gone)
  BY <1>1, RemovalSteps DEF Removes, Remove, Unsubscribe
<1>2. ASSUME BindSucceeds
      PROVE  natives' = [Without(Inactive) EXCEPT ![target[game.target].component] = @ \cup {Made}]
  BY <1>2 DEF BindSucceeds, Attached, Made
<1>3. ASSUME ShutdownForgets PROVE natives' = natives \/ natives' = Without(bindings)
  BY <1>3 DEF ShutdownForgets
<1>4. QED
  BY <1>1, <1>2, <1>3

LEMMA NextEngineOK ==
  ASSUME RegistryOK, EngineOK, ThreadsOK, HandlesInv, [Next]_vars
  PROVE  EngineOK'
<1> USE DEF EngineOK
<1>1. \A gone : Without(gone) \in [Components -> SUBSET SubscriptionIds]
  BY DEF Without
<1>2. CASE Removing
  BY <1>1, <1>2, NextArrays, RemovingFrame
<1>3. CASE BindSucceeds
  <2>1. target[game.target].component \in Components /\ Made \in SubscriptionIds
    BY <1>3, BindFacts, MadeFacts, RecordsOK
  <2>2. natives' \in [Components -> SUBSET SubscriptionIds]
    BY <1>1, <1>3, <2>1, NextArrays
  <2>3. QED
    BY <1>3, <2>2 DEF BindSucceeds
<1>4. CASE ShutdownForgets
  BY <1>1, <1>4, NextArrays DEF ShutdownForgets
<1>5. CASE Clone
  <2>1. PICK s \in DOMAIN subscription :
          clones[s] < MaxClones /\ clones' = [clones EXCEPT ![s] = @ + 1]
    BY <1>5 DEF Clone
  <2>2. s \in SubscriptionIds
    BY DEF RegistryOK, SubscriptionIds
  <2>3. clones[s] + 1 \in 0..MaxClones
    BY <2>1, <2>2
  <2>4. clones' \in [SubscriptionIds -> 0..MaxClones]
    BY <2>1, <2>3
  <2>5. QED
    BY <1>5, <2>4 DEF Clone
<1>6. CASE DestroyClone
  <2>1. PICK s \in DOMAIN subscription :
          clones[s] > 0 /\ clones' = [clones EXCEPT ![s] = @ - 1]
    BY <1>6 DEF DestroyClone
  <2>2. s \in SubscriptionIds
    BY DEF RegistryOK, SubscriptionIds
  <2>3. clones[s] - 1 \in 0..MaxClones
    BY <2>1, <2>2
  <2>4. clones' \in [SubscriptionIds -> 0..MaxClones]
    BY <2>1, <2>3
  <2>5. QED
    BY <1>6, <2>4 DEF DestroyClone
<1>7. CASE DestroyComponent
  BY <1>7 DEF DestroyComponent
<1>8. CASE UNCHANGED engine
  BY <1>8 DEF engine
<1>9. QED
  BY <1>2, <1>3, <1>4, <1>5, <1>6, <1>7, <1>8, EngineFrame

(* Which steps latch or report a fault, or stop a session. *)
LEMMA DeliveryFrame ==
  ASSUME [Next]_vars
  PROVE  /\ \/ ExecuteLocked \/ ExecuteThrows \/ ExecuteCatches \/ LatchError
            \/ UNCHANGED fault
         /\ FlushTakes \/ UNCHANGED notified
         /\ \/ ExecuteLocked \/ ExecuteThrows \/ ExecuteCatches \/ LatchError \/ FlushStep
            \/ UNCHANGED faults_pending
         /\ DeactivateAll \/ ShutdownForgets \/ UNCHANGED inactive_sessions
         /\ StopOnGameThread \/ StopOffGameThread \/ UNCHANGED session_active
<1> USE DEF delivery, lua
<1>1. CASE Calling \/ Removing
  BY <1>1, CallingFrame, RemovingFrame
<1>2. CASE OpenInserts \/ EnableFaults \/ BindSucceeds \/ StopOnGameThread
  BY <1>2 DEF OpenInserts, EnableFaults, BindSucceeds, StopOnGameThread
<1>3. CASE Execute \/ ExecuteLocked \/ ExecuteThrows \/ ExecuteCatches
  BY <1>3 DEF Execute, ExecuteLocked, ExecuteThrows, ExecuteCatches
<1>4. CASE Clone \/ DestroyClone \/ DestroyComponent \/ DestructorReturns
  BY <1>4 DEF Clone, DestroyClone, DestroyComponent, DestructorReturns
<1>5. CASE StopOffGameThread \/ DeactivateAll \/ EraseAll
  BY <1>5 DEF StopOffGameThread, DeactivateAll, EraseAll
<1>6. CASE ShutdownBegins \/ ShutdownForgets \/ ShutdownClearsQueue \/ ShutdownReturns
  BY <1>6 DEF ShutdownBegins, ShutdownForgets, ShutdownClearsQueue, ShutdownReturns
<1>7. CASE FlushStep
  BY <1>7 DEF FlushStep, FlushPeeks, FlushTakes, FlushChecks, FlushReports, FlushEnds, outside
<1>8. CASE PassStep
  BY <1>8, PassFrame
<1>9. CASE EventStep
  BY <1>9, EventFrame DEF EventStep, SkipEvent, CheckEvent, CallLua, LatchError, Deactivate,
         EraseEvents, ReturnFailed
<1>10. CASE UNCHANGED vars
  BY <1>10 DEF vars
<1>11. QED
  BY <1>1, <1>2, <1>3, <1>4, <1>5, <1>6, <1>7, <1>8, <1>9, <1>10, Steps

Latches(s) == \E reason \in Reasons : Latch(s, reason)

(* A fault is latched by a delegate for its own target, or by a failed callback
   for its own. *)
LEMMA LatchSteps ==
  ASSUME ThreadsOK, HandlesInv, [Next]_vars
  PROVE  \/ UNCHANGED fault
         \/ /\ Latches(game.subscription) /\ game.subscription \in DOMAIN subscription
            /\ ExecuteLocked \/ ExecuteThrows \/ ExecuteCatches
         \/ /\ Latches(update.event.owner) /\ update.event.owner \in DOMAIN subscription
            /\ LatchError
<1> USE DEF Reasons, Latches
<1>1. CASE ExecuteLocked \/ ExecuteThrows
  <2>1. UNCHANGED fault \/ Latch(game.subscription, "QueueCapacity")
    BY <1>1 DEF ExecuteLocked, ExecuteThrows, delivery
  <2>2. game.subscription \in DOMAIN subscription
    BY <1>1 DEF ExecuteLocked, ExecuteThrows, HandlesInv
  <2>3. QED
    BY <1>1, <2>1, <2>2
<1>2. CASE ExecuteCatches
  <2>1. Latch(game.subscription, "QueueException") /\ game.subscription \in DOMAIN subscription
    BY <1>2 DEF ExecuteCatches, HandlesInv
  <2>2. QED
    BY <1>2, <2>1
<1>3. CASE LatchError
  <2>1. Latch(update.event.owner, "CallbackError")
        /\ update.event.owner \in DOMAIN subscription
    BY <1>3 DEF LatchError, HandlesInv, At, Handling
  <2>2. QED
    BY <1>3, <2>1
<1>4. QED
  BY <1>1, <1>2, <1>3, DeliveryFrame

LEMMA NextDeliveryOK ==
  ASSUME RegistryOK, DeliveryOK, ThreadsOK, HandlesInv, [Next]_vars
  PROVE  DeliveryOK'
<1> USE DEF DeliveryOK
<1>1. fault' \in [TargetIds -> Reasons \cup {"None"}]
  BY LatchSteps DEF Latches, Latch
<1>2. notified' \subseteq policy'
  <2>1. policy \subseteq policy'
    BY MakingFrame DEF EnableFaults
  <2>2. notified' \subseteq policy
    <3>1. Unreported \subseteq policy
      BY DEF Unreported
    <3>2. QED
      BY <3>1, DeliveryFrame DEF FlushTakes
  <2>3. QED
    BY <2>1, <2>2
<1>3. faults_pending' \in BOOLEAN
  <2>1. CASE ExecuteLocked \/ ExecuteThrows \/ ExecuteCatches \/ LatchError
    BY <2>1 DEF ExecuteLocked, ExecuteThrows, ExecuteCatches, LatchError, Latch, delivery
  <2>2. CASE FlushStep
    BY <2>2 DEF FlushStep, FlushPeeks, FlushTakes, FlushChecks, FlushReports, FlushEnds, delivery
  <2>3. QED
    BY <2>1, <2>2, DeliveryFrame
<1>4. inactive_sessions' \subseteq Sessions
  <2>1. CASE DeactivateAll
    <3>1. host.session \in Sessions
      BY <2>1 DEF DeactivateAll, ThreadsOK, NoCall
    <3>2. QED
      BY <2>1, <3>1 DEF DeactivateAll
  <2>2. QED
    BY <2>1, DeliveryFrame DEF ShutdownForgets
<1>5. session_active' \subseteq Sessions
  BY DeliveryFrame DEF StopOnGameThread, StopOffGameThread
<1>6. QED
  BY <1>1, <1>2, <1>3, <1>4, <1>5

-----------------------------------------------------------------------------
(* The queue and the threads. *)

LEMMA LineFrame ==
  ASSUME [Next]_vars
  PROVE  /\ ExecuteLocked \/ EraseAll \/ ShutdownClearsQueue \/ TakeEvents \/ EraseEvents
            \/ UNCHANGED events
         /\ TakeEvents \/ PopEvent \/ UNCHANGED pending
         /\ Execute \/ UNCHANGED next_event_sequence
         /\ ShutdownBegins \/ UNCHANGED <<initialized, accepting>>
         /\ \/ ShutdownBegins \/ ShutdownForgets \/ ShutdownClearsQueue \/ ShutdownReturns
            \/ UNCHANGED shutdown
         /\ \/ StopOffGameThread \/ DeactivateAll \/ EraseAll \/ ShutdownBegins
            \/ ShutdownReturns \/ UNCHANGED host
<1> USE DEF line, batch, stopping, control
<1>1. CASE Calling \/ Removing
  BY <1>1, CallingFrame, RemovingFrame
<1>2. CASE OpenInserts \/ EnableFaults \/ BindSucceeds \/ StopOnGameThread
  BY <1>2 DEF OpenInserts, EnableFaults, BindSucceeds, StopOnGameThread
<1>3. CASE Execute \/ ExecuteLocked \/ ExecuteCatches
  BY <1>3 DEF Execute, ExecuteLocked, ExecuteCatches
<1>4. CASE ExecuteThrows
  BY <1>4 DEF ExecuteThrows, Queue!Readmit, Queue!Refuse, Queue!queue
<1>5. CASE Clone \/ DestroyClone \/ DestroyComponent \/ DestructorReturns
  BY <1>5 DEF Clone, DestroyClone, DestroyComponent, DestructorReturns
<1>6. CASE StopOffGameThread \/ DeactivateAll \/ EraseAll
  BY <1>6 DEF StopOffGameThread, DeactivateAll, EraseAll
<1>7. CASE ShutdownBegins \/ ShutdownForgets \/ ShutdownClearsQueue \/ ShutdownReturns
  BY <1>7 DEF ShutdownBegins, ShutdownForgets, ShutdownClearsQueue, ShutdownReturns
<1>8. CASE FlushStep
  BY <1>8, FlushFrame DEF outside
<1>9. CASE PassStep
  BY <1>9, PassFrame DEF PassStep, BeginUpdate, BeginPass, CheckReady, TakeEvents, PopEvent,
         PublishCount, EndPass, TimeExpires, outside
<1>10. CASE EventStep
  BY <1>10, EventFrame DEF EventStep, SkipEvent, CheckEvent, CallLua, LatchError, Deactivate,
         EraseEvents, ReturnFailed, outside
<1>11. CASE UNCHANGED vars
  BY <1>11 DEF vars
<1>12. QED
  BY <1>1, <1>2, <1>3, <1>4, <1>5, <1>6, <1>7, <1>8, <1>9, <1>10, <1>11, Steps

(* Erasing keeps events only, whatever it erases. *)
LEMMA EraseFacts ==
  ASSUME NEW gone, events \in Seq(Event), Queue!Erase(gone)
  PROVE  /\ events' \in Seq(Event)
         /\ \A i \in 1..Len(events') :
              /\ events'[i].owner \notin gone
              /\ \E k \in 1..Len(events) : events'[i] = events[k]
<1>1. PICK n \in 0..Len(events) : \E kept \in [1..n -> 1..Len(events)] :
        /\ \A k \in 1..Len(events) :
             events[k].owner \notin gone <=> \E i \in 1..n : kept[i] = k
        /\ events' = [i \in 1..n |-> events[kept[i]]]
  BY DEF Queue!Erase
<1>2. PICK kept \in [1..n -> 1..Len(events)] :
        /\ \A k \in 1..Len(events) :
             events[k].owner \notin gone <=> \E i \in 1..n : kept[i] = k
        /\ events' = [i \in 1..n |-> events[kept[i]]]
  BY <1>1
<1>3. n \in Nat /\ \A i \in 1..n : kept[i] \in 1..Len(events) /\ events[kept[i]] \in Event
  OBVIOUS
<1>4. events' \in Seq(Event) /\ Len(events') = n
  BY <1>2, <1>3
<1>5. QED
  BY <1>2, <1>3, <1>4

LEMMA PushFacts ==
  ASSUME RegistryOK, LineOK, ThreadsOK, ExecuteLocked
  PROVE  \/ UNCHANGED events
         \/ \E e \in Event : /\ events' = Append(events, e) /\ Queue!Push(e)
                             /\ e.owner = game.subscription /\ e.sequence = game.sequence
                             /\ Live(game.subscription) /\ accepting
<1>1. game \in [op : {"execute"}, subscription : SubscriptionIds, sequence : 1..MaxEvents]
  BY CallShape DEF ExecuteLocked
<1>2. [owner |-> game.subscription, sequence |-> game.sequence] \in Event
  BY <1>1 DEF Event
<1>3. \/ UNCHANGED events
      \/ /\ Queue!Push([owner |-> game.subscription, sequence |-> game.sequence])
         /\ Live(game.subscription) /\ accepting
  BY DEF ExecuteLocked, Queue!Refuse, Queue!queue
<1>4. Queue!Push([owner |-> game.subscription, sequence |-> game.sequence])
        => events' = Append(events, [owner |-> game.subscription, sequence |-> game.sequence])
  BY DEF Queue!Push
<1>5. QED
  BY <1>2, <1>3, <1>4

LEMMA NextLineOK ==
  ASSUME RegistryOK, LineOK, ThreadsOK, [Next]_vars
  PROVE  LineOK'
<1> USE DEF LineOK
<1>1. next_event_sequence' \in 1..MaxEvents + 1
  BY LineFrame DEF Execute
<1>2. events' \in Seq(Event)
  <2>1. CASE ExecuteLocked
    <3>1. CASE UNCHANGED events
      BY <3>1
    <3>2. CASE ~UNCHANGED events
      <4>1. PICK e \in Event : events' = Append(events, e)
        BY <2>1, <3>2, PushFacts
      <4>2. QED
        BY <4>1, AppendFacts
    <3>3. QED
      BY <3>1, <3>2
  <2>2. CASE EraseAll \/ EraseEvents
    BY <2>2, EraseFacts DEF EraseAll, EraseEvents
  <2>3. CASE ShutdownClearsQueue \/ TakeEvents
    <3>1. events' = <<>>
      BY <2>3 DEF ShutdownClearsQueue, TakeEvents, Queue!Discard, Queue!Drain
    <3>2. QED
      BY <3>1
  <2>4. QED
    BY <2>1, <2>2, <2>3, LineFrame
<1>3. pending' \in Seq(Event)
  <2>1. CASE TakeEvents
    BY <2>1 DEF TakeEvents, Queue!Drain
  <2>2. CASE PopEvent
    BY <2>2 DEF PopEvent, Queue!Pop
  <2>3. QED
    BY <2>1, <2>2, LineFrame
<1>4. QED
  BY <1>1, <1>2, <1>3

(* What the game thread does next. *)
LEMMA GameFrame ==
  ASSUME [Next]_vars
  PROVE  \/ UNCHANGED game \/ game' = NoCall
         \/ Calling \/ OpenCollects \/ UnbindAll \/ Execute \/ ExecuteThrows
         \/ DestroyClone \/ DestroyComponent \/ ShutdownBegins
<1> USE DEF Return
<1>1. CASE Removing
  BY <1>1 DEF Removing, BindFails, CloseTarget, Unbind
<1>2. CASE OpenInserts \/ EnableFaults \/ BindSucceeds \/ StopOnGameThread
  BY <1>2 DEF OpenInserts, EnableFaults, BindSucceeds, StopOnGameThread
<1>3. CASE ExecuteLocked \/ ExecuteCatches \/ DestructorReturns \/ Clone
  BY <1>3 DEF ExecuteLocked, ExecuteCatches, DestructorReturns, Clone, control
<1>4. CASE StopOffGameThread \/ DeactivateAll \/ EraseAll
  BY <1>4 DEF StopOffGameThread, DeactivateAll, EraseAll
<1>5. CASE ShutdownForgets \/ ShutdownClearsQueue \/ ShutdownReturns
  BY <1>5 DEF ShutdownForgets, ShutdownClearsQueue, ShutdownReturns, control
<1>6. CASE FlushStep \/ PassStep \/ EventStep
  BY <1>6, FlushFrame, PassFrame, EventFrame DEF outside
<1>7. CASE UNCHANGED vars
  BY <1>7 DEF vars, control
<1>8. QED
  BY <1>1, <1>2, <1>3, <1>4, <1>5, <1>6, <1>7, Steps

(* How each kind of call comes about. *)
LEMMA GameCauses ==
  ASSUME ThreadsOK, [Next]_vars
  PROVE  \/ UNCHANGED game
         \/ /\ game'.op \in {"bind", "enable", "close"} => CallTarget
            /\ game'.op = "unbind" => CallUnbind
            /\ game'.op = "execute" => Execute
            /\ game'.op = "catch" => ExecuteThrows
            /\ game'.op = "destroying" => DestroyClone \/ DestroyComponent
            /\ game'.op = "shutdown" => ShutdownBegins
<1> USE DEF NoCall, Return
<1>1. CASE Calling
  <2>1. CallOpen => game'.op = "open"
    BY DEF CallOpen, Enter
  <2>2. CallTarget => game'.op \in {"bind", "enable", "close"}
    BY DEF CallTarget, Enter
  <2>3. CallUnbind => game'.op = "unbind"
    BY DEF CallUnbind, Enter
  <2>4. CallUnbindAll => game'.op \in {"unbind_all", "unbind_keep", "stop"}
    BY DEF CallUnbindAll, Enter
  <2>5. QED
    BY <1>1, <2>1, <2>2, <2>3, <2>4 DEF Calling
<1>2. CASE OpenCollects
  <2>1. game \in [op : {"open", "insert"}, session : Sessions, component : Components]
    BY <1>2, CallShape DEF OpenCollects
  <2>2. game' = NoCall \/ game' = [game EXCEPT !.op = "insert"]
    BY <1>2 DEF OpenCollects
  <2>3. game'.op \in {"none", "insert"}
    BY <2>1, <2>2
  <2>4. QED
    BY <2>3
<1>3. CASE UnbindAll
  <2>1. game \in [op : {"unbind_all", "unbind_keep", "stop", "stopped"}, session : Sessions]
    BY <1>3, CallShape DEF UnbindAll
  <2>2. game' = NoCall \/ game' = [game EXCEPT !.op = "stopped"]
    BY <1>3 DEF UnbindAll
  <2>3. game'.op \in {"none", "stopped"}
    BY <2>1, <2>2
  <2>4. QED
    BY <2>3
<1>4. CASE Execute
  <2>1. game'.op \in {"none", "execute"}
    BY <1>4 DEF Execute
  <2>2. QED
    BY <1>4, <2>1
<1>5. CASE ExecuteThrows
  <2>1. game'.op = "catch"
    BY <1>5 DEF ExecuteThrows
  <2>2. QED
    BY <1>5, <2>1
<1>6. CASE DestroyClone \/ DestroyComponent
  <2>1. game' = game \/ game'.op = "destroying"
    BY <1>6 DEF DestroyClone, DestroyComponent
  <2>2. QED
    BY <1>6, <2>1
<1>7. CASE ShutdownBegins
  <2>1. game' = game \/ game'.op = "shutdown"
    BY <1>7 DEF ShutdownBegins
  <2>2. QED
    BY <1>7, <2>1
<1>8. CASE UNCHANGED game \/ game' = NoCall
  BY <1>8
<1>9. QED
  BY <1>1, <1>2, <1>3, <1>4, <1>5, <1>6, <1>7, <1>8, GameFrame

LEMMA NextGameOK ==
  ASSUME RegistryOK, LineOK, ThreadsOK, [Next]_vars
  PROVE  game' \in Calls
<1>1. CASE CallOpen
  <2>1. PICK x \in Sessions, c \in Components :
          game' = [op |-> "open", session |-> x, component |-> c]
    BY <1>1 DEF CallOpen, Enter
  <2>2. QED
    BY <2>1 DEF Calls
<1>2. CASE CallTarget
  <2>1. PICK x \in Sessions : \E t \in DOMAIN target, op \in {"bind", "enable", "close"} :
          game' = [op |-> op, session |-> x, target |-> t]
    BY <1>2 DEF CallTarget, Enter
  <2>2. PICK t \in DOMAIN target : \E op \in {"bind", "enable", "close"} :
          game' = [op |-> op, session |-> x, target |-> t]
    BY <2>1
  <2>3. t \in TargetIds
    BY RecordsOK
  <2>4. game' \in [op : {"bind", "enable", "close"}, session : Sessions, target : TargetIds]
    BY <2>2, <2>3
  <2>5. QED
    BY <2>4 DEF Calls
<1>3. CASE CallUnbind
  <2>1. PICK x \in Sessions : \E s \in DOMAIN subscription :
          game' = [op |-> "unbind", session |-> x, subscription |-> s]
    BY <1>3 DEF CallUnbind, Enter
  <2>2. PICK s \in DOMAIN subscription :
          game' = [op |-> "unbind", session |-> x, subscription |-> s]
    BY <2>1
  <2>3. s \in SubscriptionIds
    BY RecordsOK
  <2>4. QED
    BY <2>2, <2>3 DEF Calls
<1>4. CASE CallUnbindAll
  <2>1. game' \in [op : {"unbind_all", "unbind_keep", "stop", "stopped"}, session : Sessions]
    BY <1>4 DEF CallUnbindAll, Enter
  <2>2. QED
    BY <2>1 DEF Calls
<1>5. CASE OpenCollects
  <2>1. game \in [op : {"open", "insert"}, session : Sessions, component : Components]
    BY <1>5, CallShape DEF OpenCollects
  <2>2. game' = [game EXCEPT !.op = "insert"] \/ game' = NoCall
    BY <1>5 DEF OpenCollects, Return
  <2>3. [game EXCEPT !.op = "insert"]
          \in [op : {"open", "insert"}, session : Sessions, component : Components]
    BY <2>1
  <2>4. QED
    BY <2>2, <2>3 DEF Calls
<1>6. CASE UnbindAll
  <2>1. game \in [op : {"unbind_all", "unbind_keep", "stop", "stopped"}, session : Sessions]
    BY <1>6, CallShape DEF UnbindAll
  <2>2. game' = [game EXCEPT !.op = "stopped"] \/ game' = NoCall
    BY <1>6 DEF UnbindAll, Return
  <2>3. [game EXCEPT !.op = "stopped"]
          \in [op : {"unbind_all", "unbind_keep", "stop", "stopped"}, session : Sessions]
    BY <2>1
  <2>4. QED
    BY <2>2, <2>3 DEF Calls
<1>7. CASE Execute
  <2>1. PICK s \in DOMAIN subscription :
          \/ game' = NoCall
          \/ game' = [op |-> "execute", subscription |-> s, sequence |-> next_event_sequence]
    BY <1>7 DEF Execute
  <2>2. s \in SubscriptionIds /\ next_event_sequence \in 1..MaxEvents
    BY <1>7, RecordsOK DEF Execute, LineOK
  <2>3. QED
    BY <2>1, <2>2 DEF Calls
<1>8. CASE ExecuteThrows
  <2>1. game.subscription \in SubscriptionIds
    BY <1>8, CallShape DEF ExecuteThrows
  <2>2. game' = [op |-> "catch", subscription |-> game.subscription]
    BY <1>8 DEF ExecuteThrows
  <2>3. QED
    BY <2>1, <2>2 DEF Calls
<1>9. CASE DestroyClone \/ DestroyComponent \/ ShutdownBegins
  <2>1. \/ game' = game \/ game' = [op |-> "destroying"] \/ game' = [op |-> "shutdown"]
    BY <1>9 DEF DestroyClone, DestroyComponent, ShutdownBegins
  <2>2. QED
    BY <2>1 DEF Calls, ThreadsOK
<1>10. CASE UNCHANGED game \/ game' = NoCall
  BY <1>10 DEF Calls, ThreadsOK
<1>11. QED
  BY <1>1, <1>2, <1>3, <1>4, <1>5, <1>6, <1>7, <1>8, <1>9, <1>10, GameFrame DEF Calling

(* The event loop's place, with its event and its target. *)
Places == [at : {"idle", "begin", "check", "take", "run", "publish", "consume", "call",
                 "latch", "deactivate", "erase", "return"},
           flush : {"no", "peek", "scan", "check", "tell"},
           target : TargetIds \cup {0}, event : Event \cup {NoCall}]

(* Only on_update's own steps move it. *)
LEMMA UpdateFrame ==
  ASSUME [Next]_vars
  PROVE  FlushStep \/ PassStep \/ EventStep \/ UNCHANGED <<update, budget, history>>
<1> USE DEF control
<1>1. CASE Calling \/ Removing
  BY <1>1, CallingFrame, RemovingFrame
<1>2. CASE OpenInserts \/ EnableFaults \/ BindSucceeds \/ StopOnGameThread
  BY <1>2 DEF OpenInserts, EnableFaults, BindSucceeds, StopOnGameThread
<1>3. CASE Execute \/ ExecuteLocked \/ ExecuteThrows \/ ExecuteCatches
  BY <1>3 DEF Execute, ExecuteLocked, ExecuteThrows, ExecuteCatches
<1>4. CASE Clone \/ DestroyClone \/ DestroyComponent \/ DestructorReturns
  BY <1>4 DEF Clone, DestroyClone, DestroyComponent, DestructorReturns
<1>5. CASE StopOffGameThread \/ DeactivateAll \/ EraseAll
  BY <1>5 DEF StopOffGameThread, DeactivateAll, EraseAll
<1>6. CASE ShutdownBegins \/ ShutdownForgets \/ ShutdownClearsQueue \/ ShutdownReturns
  BY <1>6 DEF ShutdownBegins, ShutdownForgets, ShutdownClearsQueue, ShutdownReturns
<1>7. CASE UNCHANGED vars
  BY <1>7 DEF vars
<1>8. QED
  BY <1>1, <1>2, <1>3, <1>4, <1>5, <1>6, <1>7, Steps

LEMMA NextUpdateOK ==
  ASSUME RegistryOK, LineOK, ThreadsOK, [Next]_vars
  PROVE  update' \in Places
<1> USE DEF Places, Go, NextEvent
<1>1. update \in Places
  BY DEF ThreadsOK
<1>2. CASE FlushStep
  <2>1. CASE FlushTakes
    <3>1. PICK t \in Unreported : update' = [update EXCEPT !.flush = "check", !.target = t]
      BY <2>1 DEF FlushTakes
    <3>2. t \in TargetIds
      BY RecordsOK DEF Unreported, RegistryOK
    <3>3. QED
      BY <1>1, <3>1, <3>2
  <2>2. CASE FlushPeeks \/ FlushChecks \/ FlushReports \/ FlushEnds
    BY <1>1, <2>2 DEF FlushPeeks, FlushChecks, FlushReports, FlushEnds
  <2>3. QED
    BY <1>2, <2>1, <2>2 DEF FlushStep
<1>3. CASE PassStep
  <2>1. CASE PopEvent
    <3>1. pending # <<>> /\ update' = [update EXCEPT !.at = "publish", !.event = Head(pending)]
      BY <2>1 DEF PopEvent, Queue!Pop
    <3>2. Head(pending) \in Event
      BY <3>1 DEF LineOK
    <3>3. QED
      BY <1>1, <3>1, <3>2
  <2>2. CASE BeginUpdate \/ BeginPass \/ CheckReady \/ TakeEvents
    BY <1>1, <2>2 DEF BeginUpdate, BeginPass, CheckReady, TakeEvents
  <2>3. CASE PublishCount \/ EndPass \/ TimeExpires
    BY <1>1, <2>3 DEF PublishCount, EndPass, TimeExpires
  <2>4. QED
    BY <1>3, <2>1, <2>2, <2>3 DEF PassStep
<1>4. CASE EventStep
  <2>1. CASE SkipEvent \/ CheckEvent \/ CallLua
    BY <1>1, <2>1 DEF SkipEvent, CheckEvent, CallLua
  <2>2. CASE LatchError \/ Deactivate \/ EraseEvents \/ ReturnFailed
    BY <1>1, <2>2 DEF LatchError, Deactivate, EraseEvents, ReturnFailed
  <2>3. QED
    BY <1>4, <2>1, <2>2 DEF EventStep
<1>5. QED
  BY <1>1, <1>2, <1>3, <1>4, UpdateFrame

LEMMA NextThreadsOK ==
  ASSUME RegistryOK, DeliveryOK, LineOK, ThreadsOK, [Next]_vars
  PROVE  ThreadsOK'
<1>1. game' \in Calls
  BY NextGameOK
<1>2. update' \in Places
  BY NextUpdateOK
<1>3. host' \in {NoCall, [op |-> "shutdown"]}
              \cup [op : {"deactivate", "erase"}, session : Sessions]
  <2>1. host \in {NoCall, [op |-> "shutdown"]}
               \cup [op : {"deactivate", "erase"}, session : Sessions]
    BY DEF ThreadsOK
  <2>2. CASE StopOffGameThread
    <3>1. PICK x \in session_active : host' = [op |-> "deactivate", session |-> x]
      BY <2>2 DEF StopOffGameThread
    <3>2. x \in Sessions
      BY DEF DeliveryOK
    <3>3. QED
      BY <3>1, <3>2
  <2>3. CASE DeactivateAll
    <3>1. host \in [op : {"deactivate", "erase"}, session : Sessions]
      BY <2>1, <2>3 DEF DeactivateAll, NoCall
    <3>2. host' = [host EXCEPT !.op = "erase"]
      BY <2>3 DEF DeactivateAll
    <3>3. QED
      BY <3>1, <3>2
  <2>4. CASE EraseAll \/ ShutdownBegins \/ ShutdownReturns
    BY <2>1, <2>4 DEF EraseAll, ShutdownBegins, ShutdownReturns
  <2>5. QED
    BY <2>1, <2>2, <2>3, <2>4, LineFrame
<1>4. budget' \in [processed : Nat, progressed : BOOLEAN, expired : BOOLEAN]
  <2>1. budget \in [processed : Nat, progressed : BOOLEAN, expired : BOOLEAN]
    BY DEF ThreadsOK
  <2>2. CASE FlushStep
    BY <2>1, <2>2, FlushFrame
  <2>3. CASE PassStep
    <3>1. \/ budget' = budget \/ budget' = NoBudget
          \/ budget' = [budget EXCEPT !.progressed = TRUE]
          \/ budget' = [budget EXCEPT !.expired = TRUE]
      BY <2>3 DEF PassStep, BeginUpdate, BeginPass, CheckReady, TakeEvents, PopEvent,
             PublishCount, EndPass, TimeExpires
    <3>2. /\ [budget EXCEPT !.progressed = TRUE]
               \in [processed : Nat, progressed : BOOLEAN, expired : BOOLEAN]
          /\ [budget EXCEPT !.expired = TRUE]
               \in [processed : Nat, progressed : BOOLEAN, expired : BOOLEAN]
      BY <2>1, Zenon
    <3>3. NoBudget \in [processed : Nat, progressed : BOOLEAN, expired : BOOLEAN]
      BY DEF NoBudget
    <3>4. QED
      BY <2>1, <3>1, <3>2, <3>3
  <2>4. CASE EventStep
    <3>1. budget' = budget \/ budget' = [budget EXCEPT !.processed = @ + 1]
      BY <2>4 DEF EventStep, SkipEvent, CheckEvent, CallLua, LatchError, Deactivate,
             EraseEvents, ReturnFailed, Counted
    <3>2. budget.processed + 1 \in Nat
      BY <2>1
    <3>3. [budget EXCEPT !.processed = @ + 1]
            \in [processed : Nat, progressed : BOOLEAN, expired : BOOLEAN]
      BY <2>1, <3>2, Zenon
    <3>4. QED
      BY <2>1, <3>1, <3>3
  <2>5. QED
    BY <2>1, <2>2, <2>3, <2>4, UpdateFrame
<1>5. shutdown' \in [at : {"no", "begun", "forgotten", "cleared", "unload", "retain"},
                    on_game : BOOLEAN, pin : BOOLEAN]
  <2>1. shutdown \in [at : {"no", "begun", "forgotten", "cleared", "unload", "retain"},
                    on_game : BOOLEAN, pin : BOOLEAN]
    BY DEF ThreadsOK
  <2>2. CASE ShutdownBegins
    BY <2>1, <2>2 DEF ShutdownBegins
  <2>3. CASE ShutdownForgets
    BY <2>1, <2>3 DEF ShutdownForgets
  <2>4. CASE ShutdownClearsQueue \/ ShutdownReturns
    BY <2>1, <2>4 DEF ShutdownClearsQueue, ShutdownReturns
  <2>5. QED
    BY <2>1, <2>2, <2>3, <2>4, LineFrame
<1>6. initialized' \in BOOLEAN /\ accepting' \in BOOLEAN
  BY LineFrame DEF ShutdownBegins, ThreadsOK
<1>7. QED
  BY <1>1, <1>2, <1>3, <1>4, <1>5, <1>6 DEF ThreadsOK, Places, Calls, TargetIds,
     SubscriptionIds, NoCall, Event

LEMMA CounterFacts ==
  ASSUME NEW S, NEW f \in [S -> Nat], NEW x
  PROVE  [f EXCEPT ![x] = @ + 1] \in [S -> Nat]
<1>1. CASE x \in S
  BY <1>1
<1>2. CASE x \notin S
  <2>1. [f EXCEPT ![x] = @ + 1] = f
    BY <1>2
  <2>2. QED
    BY <2>1
<1>3. QED
  BY <1>1, <1>2

LEMMA NextHistoryOK ==
  ASSUME RegistryOK, ThreadsOK, HandlesInv, HistoryOK, [Next]_vars
  PROVE  HistoryOK'
<1> USE DEF HistoryOK
<1>1. reports' \in [TargetIds -> Nat] /\ late' \in [Sessions -> Nat]
  <2>1. /\ reports' = reports \/ \E t : reports' = [reports EXCEPT ![t] = @ + 1]
        /\ late' = late \/ \E x : late' = [late EXCEPT ![x] = @ + 1]
    <3>1. CASE FlushStep
      BY <3>1 DEF FlushStep, FlushPeeks, FlushTakes, FlushChecks, FlushReports, FlushEnds,
             Overtaken, history
    <3>2. CASE EventStep
      BY <3>2, EventFrame DEF EventStep, SkipEvent, CheckEvent, CallLua, LatchError,
             Deactivate, EraseEvents, ReturnFailed, Overtaken, history
    <3>3. QED
      BY <3>1, <3>2, PassFrame, UpdateFrame DEF history
  <2>2. \A t : [reports EXCEPT ![t] = @ + 1] \in [TargetIds -> Nat]
    BY CounterFacts
  <2>3. \A x : [late EXCEPT ![x] = @ + 1] \in [Sessions -> Nat]
    BY CounterFacts
  <2>4. QED
    BY <2>1, <2>2, <2>3
<1>2. thrown' \subseteq DOMAIN subscription /\ purged' \subseteq DOMAIN subscription
  <2>1. CASE EventStep
    BY <2>1 DEF EventStep, SkipEvent, CheckEvent, CallLua, LatchError, Deactivate, EraseEvents,
           ReturnFailed, HandlesInv, Handling, At, history
  <2>2. QED
    BY <2>1, FlushFrame, PassFrame, UpdateFrame DEF history
<1>3. QED
  BY <1>1, <1>2, SubscriptionsKept

(* The event a pass handles and the target a flush reports. *)
LEMMA NextEventHandle ==
  ASSUME RegistryOK, LineOK, ThreadsOK, HandlesInv, [Next]_vars
  PROVE  /\ update'.at \in Handling =>
              update'.event \in Event /\ update'.event.owner \in DOMAIN subscription
         /\ update'.flush \in {"check", "tell"} => update'.target \in DOMAIN target
<1> USE DEF Places, Handling, Go, NextEvent, At
<1>1. update \in Places
  BY DEF ThreadsOK
<1>2. /\ update.at \in Handling =>
           update.event \in Event /\ update.event.owner \in DOMAIN subscription
      /\ update.flush \in {"check", "tell"} => update.target \in DOMAIN target
  BY DEF HandlesInv
<1>3. CASE FlushStep
  <2>1. CASE FlushTakes
    <3>1. PICK t \in Unreported : update' = [update EXCEPT !.flush = "check", !.target = t]
      BY <2>1 DEF FlushTakes
    <3>2. t \in targets
      BY DEF Unreported
    <3>3. QED
      BY <1>1, <1>2, <3>1, <3>2 DEF RegistryOK
  <2>2. CASE FlushPeeks \/ FlushChecks \/ FlushReports \/ FlushEnds
    BY <1>1, <1>2, <2>2 DEF FlushPeeks, FlushChecks, FlushReports, FlushEnds
  <2>3. QED
    BY <1>3, <2>1, <2>2 DEF FlushStep
<1>4. CASE PassStep
  <2>1. CASE PopEvent
    <3>1. pending # <<>> /\ update' = [update EXCEPT !.at = "publish", !.event = Head(pending)]
      BY <2>1 DEF PopEvent, Queue!Pop
    <3>2. Head(pending) = pending[1] /\ Head(pending) \in Event /\ 1 \in 1..Len(pending)
      BY <3>1 DEF LineOK
    <3>3. Head(pending).owner \in DOMAIN subscription
      BY <3>2 DEF HandlesInv
    <3>4. QED
      BY <1>1, <1>2, <3>1, <3>2, <3>3
  <2>2. CASE BeginUpdate \/ BeginPass \/ CheckReady \/ TakeEvents
    BY <1>1, <1>2, <2>2 DEF BeginUpdate, BeginPass, CheckReady, TakeEvents
  <2>3. CASE PublishCount \/ EndPass \/ TimeExpires
    BY <1>1, <1>2, <2>3 DEF PublishCount, EndPass, TimeExpires
  <2>4. QED
    BY <1>4, <2>1, <2>2, <2>3 DEF PassStep
<1>5. CASE EventStep
  <2>1. CASE SkipEvent \/ CheckEvent \/ CallLua
    BY <1>1, <1>2, <2>1 DEF SkipEvent, CheckEvent, CallLua
  <2>2. CASE LatchError \/ Deactivate \/ EraseEvents \/ ReturnFailed
    BY <1>1, <1>2, <2>2 DEF LatchError, Deactivate, EraseEvents, ReturnFailed
  <2>3. QED
    BY <1>5, <2>1, <2>2 DEF EventStep
<1>6. QED
  BY <1>2, <1>3, <1>4, <1>5, UpdateFrame

LEMMA NextHandlesInv ==
  ASSUME RegistryOK, LineOK, ThreadsOK, HandlesInv, [Next]_vars
  PROVE  HandlesInv'
<1>1. \A s \in DOMAIN subscription' : subscription'[s].target \in DOMAIN target'
  <2>1. CASE BindSucceeds
    BY <2>1, MadeFacts, BindFacts, SubscriptionsKept, TargetsKept DEF HandlesInv, TargetOf
  <2>2. CASE UNCHANGED subscription
    BY <2>2, TargetsKept DEF HandlesInv, TargetOf
  <2>3. QED
    BY <2>1, <2>2, MakingFrame
<1>2. game'.op \in {"bind", "enable", "close"} => game'.target \in DOMAIN target
  <2>1. CASE CallTarget
    BY <2>1 DEF CallTarget, Enter
  <2>2. QED
    BY <2>1, GameCauses DEF HandlesInv
<1>3. game'.op \in {"unbind", "execute", "catch"} => game'.subscription \in DOMAIN subscription
  <2>1. CASE CallUnbind
    BY <2>1 DEF CallUnbind, Enter
  <2>2. CASE Execute
    BY <2>2 DEF Execute, NoCall
  <2>3. CASE ExecuteThrows
    BY <2>3 DEF ExecuteThrows, HandlesInv
  <2>4. QED
    BY <2>1, <2>2, <2>3, GameCauses DEF HandlesInv
<1>4. \A i \in 1..Len(events') : events'[i].owner \in DOMAIN subscription
  <2>1. CASE ExecuteLocked
    <3>1. CASE UNCHANGED events
      BY <3>1 DEF HandlesInv
    <3>2. CASE ~UNCHANGED events
      <4>1. PICK e \in Event : events' = Append(events, e) /\ e.owner = game.subscription
        BY <2>1, <3>2, PushFacts
      <4>2. e.owner \in DOMAIN subscription
        BY <2>1, <4>1 DEF HandlesInv, ExecuteLocked
      <4>3. /\ 1..Len(events') = 1..Len(events) \cup {Len(events) + 1}
            /\ events'[Len(events) + 1] = e
            /\ \A i \in 1..Len(events) : events'[i] = events[i]
        BY <4>1, AppendFacts DEF LineOK
      <4>4. QED
        BY <4>2, <4>3 DEF HandlesInv
    <3>3. QED
      BY <3>1, <3>2
  <2>2. CASE EraseAll \/ EraseEvents
    BY <2>2, EraseFacts DEF EraseAll, EraseEvents, LineOK, HandlesInv
  <2>3. CASE ShutdownClearsQueue \/ TakeEvents
    <3>1. events' = <<>>
      BY <2>3 DEF ShutdownClearsQueue, TakeEvents, Queue!Discard, Queue!Drain
    <3>2. QED
      BY <3>1
  <2>4. QED
    BY <2>1, <2>2, <2>3, LineFrame DEF HandlesInv
<1>5. \A i \in 1..Len(pending') : pending'[i].owner \in DOMAIN subscription
  <2>1. CASE TakeEvents
    BY <2>1 DEF TakeEvents, Queue!Drain, HandlesInv
  <2>2. CASE PopEvent
    <3>1. pending # <<>> /\ pending' = Tail(pending) /\ pending \in Seq(Event)
      BY <2>2 DEF PopEvent, Queue!Pop, LineOK
    <3>2. \A i \in 1..Len(pending') : i + 1 \in 1..Len(pending) /\ pending'[i] = pending[i + 1]
      BY <3>1
    <3>3. QED
      BY <3>2 DEF HandlesInv
  <2>3. QED
    BY <2>1, <2>2, LineFrame DEF HandlesInv
<1>6. QED
  BY <1>1, <1>2, <1>3, <1>4, <1>5, NextEventHandle, TargetsKept, SubscriptionsKept
     DEF HandlesInv, TargetOf, Event, SubscriptionIds

(* Every variable has its shape and every handle was given out. *)
TypeInv == TypeOK /\ HandlesInv

LEMMA InitTypeInv == ASSUME Init PROVE TypeInv
<1>1. RegistryOK /\ EngineOK
  <2>1. /\ target \in Seq([session : Sessions, component : Components]) /\ Len(target) = 0
        /\ subscription \in Seq([target : TargetIds, delivery : BOOLEAN]) /\ Len(subscription) = 0
    BY DEF Init
  <2>2. /\ targets = {} /\ has_bound = {} /\ policy = {} /\ subscriptions = {}
        /\ active = {} /\ bindings = {}
    BY DEF Init
  <2>3. RegistryOK
    BY <2>1, <2>2 DEF RegistryOK
  <2>4. natives \in [Components -> SUBSET SubscriptionIds] /\ clones \in [SubscriptionIds -> 0..MaxClones]
    BY DEF Init
  <2>5. QED
    BY <2>3, <2>4 DEF Init, EngineOK
<1>2. DeliveryOK /\ LineOK
  <2>1. fault \in [TargetIds -> Reasons \cup {"None"}] /\ notified = {} /\ faults_pending = FALSE
    BY DEF Init
  <2>2. inactive_sessions = {} /\ session_active = Sessions
    BY DEF Init
  <2>3. events \in Seq(Event) /\ pending \in Seq(Event) /\ next_event_sequence = 1
    BY DEF Init
  <2>4. DeliveryOK
    BY <2>1, <2>2 DEF DeliveryOK
  <2>5. LineOK
    BY <2>3 DEF LineOK
  <2>6. QED
    BY <2>4, <2>5
<1>3. ThreadsOK
  <2>1. game \in Calls /\ host \in {NoCall, [op |-> "shutdown"]}
    BY DEF Init, Calls
  <2>2. update \in Places /\ budget \in [processed : Nat, progressed : BOOLEAN, expired : BOOLEAN]
    BY DEF Init, Places, NoBudget
  <2>3. shutdown \in [at : {"no", "begun", "forgotten", "cleared", "unload", "retain"},
                     on_game : BOOLEAN, pin : BOOLEAN]
        /\ initialized \in BOOLEAN /\ accepting \in BOOLEAN
    BY DEF Init
  <2>4. QED
    BY <2>1, <2>2, <2>3 DEF ThreadsOK, Places
<1>4. HistoryOK
  BY DEF Init, HistoryOK
<1>5. HandlesInv
  BY DEF Init, HandlesInv, Handling, NoCall
<1>6. QED
  BY <1>1, <1>2, <1>3, <1>4, <1>5 DEF TypeInv, TypeOK

LEMMA NextTypeInv == ASSUME TypeInv, [Next]_vars PROVE TypeInv'
  BY NextRegistryOK, NextEngineOK, NextDeliveryOK, NextLineOK, NextThreadsOK, NextHistoryOK,
     NextHandlesInv DEF TypeInv, TypeOK

(* The backend's variables keep their shape, and every handle in a call, an
   event or a subscription names something that was made before. *)
THEOREM TypeCorrect == Spec => []TypeInv
  BY InitTypeInv, NextTypeInv, PTL DEF Spec

-----------------------------------------------------------------------------
(* Delivery policies. *)

(* A subscription shares its target's delivery state exactly if the target has
   one: the target has been bound, so it keeps what it has. *)
PolicyInv ==
  /\ \A s \in DOMAIN subscription :
       /\ subscription[s].delivery <=> TargetOf(s) \in policy
       /\ TargetOf(s) \in has_bound
  /\ \A t \in TargetIds : fault[t] # "None" => t \in policy

LEMMA InitPolicyInv == ASSUME Init PROVE PolicyInv
  BY DEF Init, PolicyInv

LEMMA NextPolicyInv ==
  ASSUME TypeInv, PolicyInv, [Next]_vars
  PROVE  PolicyInv'
<1> USE DEF TypeInv, TypeOK
<1>1. policy \subseteq policy' /\ has_bound \subseteq has_bound'
      /\ \A t \in has_bound : t \in policy' => t \in policy
  BY MakingFrame DEF EnableFaults, BindSucceeds
<1>2. ASSUME NEW s \in DOMAIN subscription
      PROVE  (subscription'[s].delivery <=> TargetOf(s)' \in policy') /\ TargetOf(s)' \in has_bound'
  BY <1>1, <1>2, SubscriptionsKept DEF PolicyInv
<1>3. ASSUME NEW s \in DOMAIN subscription', s \notin DOMAIN subscription
      PROVE  (subscription'[s].delivery <=> TargetOf(s)' \in policy') /\ TargetOf(s)' \in has_bound'
  <2>1. BindSucceeds
    BY <1>3, MakingFrame
  <2>2. s = Made
    BY <1>3, <2>1, MadeFacts
  <2>3. (subscription'[s].delivery <=> game.target \in policy) /\ TargetOf(s)' = game.target
    BY <2>1, <2>2, MadeFacts
  <2>4. policy' = policy /\ game.target \in has_bound'
    BY <2>1 DEF BindSucceeds
  <2>5. QED
    BY <2>3, <2>4
<1>4. ASSUME NEW t \in TargetIds, fault'[t] # "None" PROVE t \in policy'
  <2>1. CASE fault[t] # "None"
    BY <1>1, <2>1 DEF PolicyInv
  <2>2. CASE fault[t] = "None"
    <3>1. PICK s \in DOMAIN subscription : Latches(s)
      BY <1>4, <2>2, LatchSteps
    <3>2. subscription[s].delivery /\ t = TargetOf(s)
      BY <1>4, <2>2, <3>1 DEF Latches, Latch, DeliveryOK
    <3>3. QED
      BY <1>1, <3>2 DEF PolicyInv
  <2>3. QED
    BY <2>1, <2>2
<1>5. QED
  BY <1>2, <1>3, <1>4 DEF PolicyInv

(* A policy is chosen before the first binding and for good, so a target and
   its subscriptions agree on it, and a legacy target never faults. *)
THEOREM PoliciesPrecedeBindings == Spec => []PolicyPrecedesBinding
<1>1. Init => TypeInv /\ PolicyInv
  BY InitTypeInv, InitPolicyInv
<1>2. TypeInv /\ PolicyInv /\ [Next]_vars => (TypeInv /\ PolicyInv)'
  BY NextTypeInv, NextPolicyInv
<1>3. TypeInv /\ PolicyInv => PolicyPrecedesBinding
  BY DEF TypeInv, TypeOK, RegistryOK, PolicyInv, PolicyPrecedesBinding
<1>4. QED
  BY <1>1, <1>2, <1>3, PTL DEF Spec

-----------------------------------------------------------------------------
(* Stopped sessions, and what a session may do to another. *)

(* Where the shutdown is decides whether calls are served. *)
StageInv ==
  /\ initialized <=> shutdown.at = "no"
  /\ accepting <=> initialized
  /\ shutdown.at \notin {"no", "begun"} => targets = {} /\ subscriptions = {}

(* An event is on its way out only after its owner's callback has failed. *)
ThrownInv ==
  update.at \in {"latch", "deactivate", "erase", "return"} => update.event.owner \in thrown

SessionInv == StageInv /\ ThrownInv /\ StoppedSessionUnbound

(* Besides a bind, steps only take subscriptions away. *)
LEMMA RegistryShrinks ==
  ASSUME TypeInv, [Next]_vars
  PROVE  /\ BindSucceeds \/ active' \subseteq active
         /\ BindSucceeds \/ subscriptions' \subseteq subscriptions
         /\ OpenInserts \/ targets' \subseteq targets
<1> USE DEF registry
<1>1. CASE Calling \/ StopOnGameThread \/ FlushStep \/ PassStep \/ EnableFaults
  BY <1>1, CallingFrame, FlushFrame, PassFrame DEF StopOnGameThread, EnableFaults, outside
<1>2. CASE Removing
  BY <1>2, RemovalSteps DEF Removes, Remove, Unsubscribe
<1>3. CASE OpenInserts \/ BindSucceeds
  BY <1>3 DEF OpenInserts, BindSucceeds
<1>4. CASE Execute \/ ExecuteLocked \/ ExecuteThrows \/ ExecuteCatches
  BY <1>4 DEF Execute, ExecuteLocked, ExecuteThrows, ExecuteCatches
<1>5. CASE Clone \/ DestroyClone \/ DestroyComponent \/ DestructorReturns
  BY <1>5 DEF Clone, DestroyClone, DestroyComponent, DestructorReturns
<1>6. CASE StopOffGameThread \/ DeactivateAll \/ EraseAll
  BY <1>6 DEF StopOffGameThread, DeactivateAll, EraseAll
<1>7. CASE ShutdownBegins \/ ShutdownForgets \/ ShutdownClearsQueue \/ ShutdownReturns
  BY <1>7 DEF ShutdownBegins, ShutdownForgets, ShutdownClearsQueue, ShutdownReturns
<1>8. CASE EventStep
  BY <1>8, EventFrame DEF EventStep, SkipEvent, CheckEvent, CallLua, LatchError, Deactivate,
         EraseEvents, ReturnFailed, outside
<1>9. CASE UNCHANGED vars
  BY <1>9 DEF vars
<1>10. QED
  BY <1>1, <1>2, <1>3, <1>4, <1>5, <1>6, <1>7, <1>8, <1>9, Steps

LEMMA NextStageInv ==
  ASSUME TypeInv, StageInv, [Next]_vars
  PROVE  StageInv'
<1> USE DEF StageInv, TypeInv, TypeOK, ThreadsOK
<1>1. CASE ShutdownBegins
  BY <1>1 DEF ShutdownBegins
<1>2. CASE ShutdownForgets
  BY <1>2 DEF ShutdownForgets
<1>3. CASE ShutdownClearsQueue \/ ShutdownReturns
  BY <1>3 DEF ShutdownClearsQueue, ShutdownReturns, registry
<1>4. CASE BindSucceeds \/ OpenInserts
  <2>1. UNCHANGED stopping
    BY <1>4 DEF BindSucceeds, OpenInserts
  <2>2. initialized \/ UNCHANGED <<targets, subscriptions>>
    BY <1>4 DEF BindSucceeds, OpenInserts
  <2>3. QED
    BY <2>1, <2>2 DEF stopping
<1>5. CASE UNCHANGED <<initialized, accepting, shutdown>> /\ ~BindSucceeds /\ ~OpenInserts
  BY <1>5, RegistryShrinks
<1>6. QED
  BY <1>1, <1>2, <1>3, <1>4, <1>5, LineFrame

LEMMA NextThrownInv ==
  ASSUME TypeInv, ThrownInv, [Next]_vars
  PROVE  ThrownInv'
<1> USE DEF ThrownInv, Go, NextEvent, Places
<1>1. update \in Places
  BY DEF TypeInv, TypeOK, ThreadsOK
<1>2. CASE FlushStep
  <2>1. update'.at = update.at /\ update'.event = update.event
    BY <1>1, <1>2 DEF FlushStep, FlushPeeks, FlushTakes, FlushChecks, FlushReports, FlushEnds
  <2>2. QED
    BY <1>2, <2>1, FlushFrame
<1>3. CASE PassStep
  <2>1. update'.at \notin {"latch", "deactivate", "erase", "return"}
    BY <1>1, <1>3 DEF PassStep, BeginUpdate, BeginPass, CheckReady, TakeEvents, PopEvent,
           PublishCount, EndPass, TimeExpires, At
  <2>2. QED
    BY <2>1
<1>4. CASE EventStep
  <2>1. CASE SkipEvent \/ CheckEvent \/ ReturnFailed
    BY <1>1, <2>1 DEF SkipEvent, CheckEvent, ReturnFailed
  <2>2. CASE CallLua
    <3>1. \/ update' = [update EXCEPT !.at = "run", !.event = NoCall]
          \/ /\ update' = [update EXCEPT !.at = "latch"]
             /\ thrown' = thrown \cup {update.event.owner}
      BY <2>2 DEF CallLua
    <3>2. QED
      BY <1>1, <3>1
  <2>3. CASE LatchError \/ Deactivate \/ EraseEvents
    <3>1. thrown' = thrown /\ update.at \in {"latch", "deactivate", "erase"}
      BY <2>3 DEF LatchError, Deactivate, EraseEvents, At, history
    <3>2. update'.event = update.event
      BY <1>1, <2>3 DEF LatchError, Deactivate, EraseEvents
    <3>3. QED
      BY <3>1, <3>2
  <2>4. QED
    BY <1>4, <2>1, <2>2, <2>3 DEF EventStep
<1>5. QED
  BY <1>2, <1>3, <1>4, UpdateFrame DEF history

LEMMA NextStoppedSessionUnbound ==
  ASSUME TypeInv, StoppedSessionUnbound, [Next]_vars
  PROVE  StoppedSessionUnbound'
<1> USE DEF StoppedSessionUnbound, TypeInv, TypeOK
<1>1. active \subseteq subscriptions /\ active \subseteq DOMAIN subscription
  BY DEF RegistryOK
<1>2. CASE BindSucceeds
  <2>1. /\ active' \subseteq active \cup {Made} /\ inactive_sessions' = inactive_sessions
        /\ target[game.target].session \notin inactive_sessions
    BY <1>2 DEF BindSucceeds, Bindable, StaleTargets, Made, lua
  <2>2. ASSUME NEW s \in active' PROVE SessionOf(s)' \notin inactive_sessions'
    <3>1. CASE s \in active
      BY <1>1, <2>1, <3>1, SubscriptionsKept
    <3>2. CASE s = Made
      BY <1>2, <2>1, <3>2, MadeFacts
    <3>3. QED
      BY <2>1, <2>2, <3>1, <3>2
  <2>3. QED
    BY <2>2
<1>3. CASE ~BindSucceeds
  <2>1. active' \subseteq active
    BY <1>3, RegistryShrinks
  <2>2. CASE DeactivateAll
    <3>1. inactive_sessions' = inactive_sessions \cup {host.session}
          /\ active' = active \ { s \in subscriptions : SessionOf(s) = host.session }
      BY <2>2 DEF DeactivateAll
    <3>2. QED
      BY <1>1, <2>1, <3>1, SubscriptionsKept
  <2>3. CASE ShutdownForgets
    BY <2>3 DEF ShutdownForgets
  <2>4. CASE UNCHANGED inactive_sessions
    BY <1>1, <2>1, <2>4, SubscriptionsKept
  <2>5. QED
    BY <2>2, <2>3, <2>4, DeliveryFrame
<1>4. QED
  BY <1>2, <1>3

LEMMA InitSessionInv == ASSUME Init PROVE SessionInv
  BY DEF Init, SessionInv, StageInv, ThrownInv, StoppedSessionUnbound

LEMMA NextSessionInv == ASSUME TypeInv, SessionInv, [Next]_vars PROVE SessionInv'
  BY NextStageInv, NextThrownInv, NextStoppedSessionUnbound DEF SessionInv

(* A session deactivate_all has marked has no active subscription, and gets
   none although open_target may still give it a target. *)
THEOREM StoppedSessionsUnbound == Spec => []StoppedSessionUnbound
<1>1. Init => TypeInv /\ SessionInv
  BY InitTypeInv, InitSessionInv
<1>2. TypeInv /\ SessionInv /\ [Next]_vars => (TypeInv /\ SessionInv)'
  BY NextTypeInv, NextSessionInv
<1>3. SessionInv => StoppedSessionUnbound
  BY DEF SessionInv
<1>4. QED
  BY <1>1, <1>2, <1>3, PTL DEF Spec

LEMMA NextEndsItsOwn ==
  ASSUME TypeInv, SessionInv, [Next]_vars
  PROVE  EndsItsOwn \/ shutdown.at # shutdown'.at \/ UNCHANGED vars
<1> USE DEF EndsItsOwn, TypeInv, TypeOK
<1>1. CASE Removing
  <2>1. CASE UNCHANGED <<targets, subscriptions, active, bindings, natives, live_bindings>>
    BY <2>1
  <2>2. CASE \E gone, closed : Removes(gone, closed)
    <3>1. PICK gone, closed : Removes(gone, closed)
      BY <2>2
    <3>2. active' = active \ (Inactive \cup gone) /\ targets' = targets \ (StaleTargets \cup closed)
      BY <3>1 DEF Removes, Remove, Unsubscribe
    <3>3. inactive_sessions' = inactive_sessions
      BY <1>1, RemovingFrame DEF lua
    <3>4. \A s \in active \cap Inactive : SessionOf(s) \in inactive_sessions'
      BY <3>3 DEF Inactive
    <3>5. \A t \in StaleTargets : target[t].session \in inactive_sessions
      BY DEF StaleTargets
    <3>6. QED
      BY <3>1, <3>2, <3>4, <3>5 DEF Removes
  <2>3. QED
    BY <1>1, <2>1, <2>2, RemovalSteps
<1>2. CASE BindSucceeds
  <2>1. /\ active \ active' \subseteq active \cap Inactive /\ targets \ targets' \subseteq StaleTargets
        /\ inactive_sessions' = inactive_sessions
    BY <1>2 DEF BindSucceeds, lua
  <2>2. QED
    BY <2>1 DEF Inactive, StaleTargets
<1>3. CASE OpenInserts \/ EnableFaults \/ StopOnGameThread
  BY <1>3 DEF OpenInserts, EnableFaults, StopOnGameThread, registry
<1>4. CASE Execute \/ ExecuteLocked \/ ExecuteThrows \/ ExecuteCatches
  BY <1>4 DEF Execute, ExecuteLocked, ExecuteThrows, ExecuteCatches, registry
<1>5. CASE Clone \/ DestroyClone \/ DestroyComponent \/ DestructorReturns
  BY <1>5 DEF Clone, DestroyClone, DestroyComponent, DestructorReturns, registry
<1>6. CASE StopOffGameThread \/ DeactivateAll \/ EraseAll
  BY <1>6 DEF StopOffGameThread, DeactivateAll, EraseAll, registry
<1>7. CASE ShutdownBegins \/ ShutdownForgets \/ ShutdownClearsQueue \/ ShutdownReturns
  <2>1. CASE ShutdownForgets
    <3>1. shutdown.at = "begun" /\ shutdown' = [shutdown EXCEPT !.at = "forgotten",
            !.pin = ~shutdown.on_game /\ (bindings # {} \/ clone_created)]
      BY <2>1 DEF ShutdownForgets
    <3>2. shutdown'.at = "forgotten"
      BY <3>1 DEF ThreadsOK
    <3>3. QED
      BY <3>1, <3>2
  <2>2. CASE ShutdownBegins \/ ShutdownClearsQueue \/ ShutdownReturns
    BY <2>2 DEF ShutdownBegins, ShutdownClearsQueue, ShutdownReturns, registry
  <2>3. QED
    BY <1>7, <2>1, <2>2
<1>8. CASE EventStep
  <2>1. active \ active' \subseteq thrown
    <3>1. \/ active' = active
          \/ At("deactivate") /\ active' = active \ {update.event.owner}
      BY <1>8 DEF EventStep, SkipEvent, CheckEvent, CallLua, LatchError, Deactivate,
             EraseEvents, ReturnFailed, outside, registry
    <3>2. QED
      BY <3>1 DEF SessionInv, ThrownInv, At
  <2>2. QED
    BY <1>8, <2>1, EventFrame
<1>9. CASE Calling \/ FlushStep \/ PassStep
  BY <1>9, CallingFrame, FlushFrame, PassFrame DEF registry, outside
<1>10. QED
  BY <1>1, <1>2, <1>3, <1>4, <1>5, <1>6, <1>7, <1>8, <1>9, Steps

(* Whatever handles a session passes in, its calls end only its own bindings
   and targets. *)
THEOREM SessionsAreIsolated == Spec => SessionsIsolated
<1>1. Init => TypeInv /\ SessionInv
  BY InitTypeInv, InitSessionInv
<1>2. TypeInv /\ SessionInv /\ [Next]_vars => (TypeInv /\ SessionInv)'
  BY NextTypeInv, NextSessionInv
<1>3. TypeInv /\ SessionInv /\ [Next]_vars => [EndsItsOwn \/ shutdown.at # shutdown'.at]_vars
  BY NextEndsItsOwn
<1>4. QED
  BY <1>1, <1>2, <1>3, PTL DEF Spec, SessionsIsolated
-----------------------------------------------------------------------------
(* Who owns which native object. *)

(* The bindings Unreal's arrays hold and the clones it made. *)
Originals == { s \in SubscriptionIds : \E c \in Components : s \in natives[c] }
Copies == { x \in SubscriptionIds \X (1..MaxClones) : x[2] <= clones[x[1]] }

(* A component's array has bindings of its own subscriptions. *)
ArraysInv ==
  \A c \in Components : natives[c] \subseteq { s \in DOMAIN subscription : ComponentOf(s) = c }

(* What OwnershipExact says until the shutdown has forgotten everything. *)
TrackedInv ==
  shutdown.at \in {"no", "begun"} =>
    /\ bindings = subscriptions
    /\ \A c \in Components :
         natives[c] = IF c \in alive THEN { s \in bindings : ComponentOf(s) = c } ELSE {}
    /\ \A s \in subscriptions : TargetOf(s) \in targets

CountInv == live_bindings = Cardinality(Originals) + Cardinality(Copies)

OwnershipInv == ArraysInv /\ TrackedInv /\ CountInv

LEMMA CountsFinite ==
  /\ IsFiniteSet(Originals) /\ Cardinality(Originals) \in Nat
  /\ IsFiniteSet(Copies) /\ Cardinality(Copies) \in Nat
<1>1. IsFiniteSet(SubscriptionIds) /\ IsFiniteSet(1..MaxClones)
  BY FS_Interval DEF SubscriptionIds
<1>2. IsFiniteSet(Originals)
  BY <1>1, FS_Subset DEF Originals
<1>3. IsFiniteSet(SubscriptionIds \X (1..MaxClones))
  BY <1>1, FS_Product
<1>4. IsFiniteSet(Copies)
  BY <1>3, FS_Subset DEF Copies
<1>5. QED
  BY <1>2, <1>4, FS_CardinalityType

(* What detaching does to the arrays. *)
LEMMA DetachFacts ==
  ASSUME TypeInv, ArraysInv, NEW gone \in SUBSET DOMAIN subscription
  PROVE  /\ \A c \in Components : Without(gone)[c] = natives[c] \ gone
         /\ Found(gone) = Originals \cap gone
<1>1. \A s \in DOMAIN subscription : ComponentOf(s) \in Components /\ s \in SubscriptionIds
  BY RecordsOK DEF TypeInv, TypeOK, HandlesInv, ComponentOf
<1>2. \A c \in Components : \A s \in natives[c] : s \in DOMAIN subscription /\ ComponentOf(s) = c
  BY DEF ArraysInv
<1>3. Found(gone) = Originals \cap gone
  BY <1>1, <1>2 DEF Found, Originals
<1>4. ASSUME NEW c \in Components PROVE Without(gone)[c] = natives[c] \ gone
  <2>1. Without(gone)[c] = natives[c] \ Found(gone)
    BY DEF Without
  <2>2. \A s \in natives[c] : s \in Found(gone) <=> s \in gone
    BY <1>2 DEF Found
  <2>3. QED
    BY <2>1, <2>2
<1>5. QED
  BY <1>3, <1>4

(* The step unsubscribes `gone' and no clone comes or goes. *)
LEMMA Unsubscribed ==
  ASSUME TypeInv, ArraysInv, CountInv, NEW gone \in SUBSET DOMAIN subscription,
         natives' = Without(gone), clones' = clones,
         live_bindings' = live_bindings - Cardinality(Found(gone))
  PROVE  Originals' = Originals \ gone /\ CountInv'
<1>1. Originals' = Originals \ gone
  BY DetachFacts DEF Originals
<1>2. Copies' = Copies
  BY DEF Copies
<1>3. Cardinality(Originals \ gone) = Cardinality(Originals) - Cardinality(Originals \cap gone)
  BY CountsFinite, FS_Difference
<1>4. Cardinality(Originals \cap gone) \in Nat
  <2>1. IsFiniteSet(Originals \cap gone)
    BY CountsFinite, FS_Intersection
  <2>2. QED
    BY <2>1, FS_CardinalityType
<1>5. live_bindings' = live_bindings - Cardinality(Originals \cap gone)
  BY DetachFacts
<1>6. live_bindings' = Cardinality(Originals \ gone) + Cardinality(Copies)
  BY <1>3, <1>4, <1>5, CountsFinite DEF CountInv
<1>7. QED
  BY <1>1, <1>2, <1>6 DEF CountInv

(* A removal, seen from outside. *)
LEMMA RemovalFacts ==
  ASSUME TypeInv, Removing
  PROVE  \E gone \in SUBSET subscriptions :
           /\ subscriptions' = subscriptions \ gone /\ active' = active \ gone
           /\ bindings' = bindings \ gone
           /\ targets' \subseteq targets
           /\ \A s \in subscriptions : TargetOf(s) \in targets \ targets' => s \in gone
           /\ \/ natives' = Without(gone)
                 /\ live_bindings' = live_bindings - Cardinality(Found(gone))
              \/ gone = {} /\ UNCHANGED <<natives, live_bindings>>
<1>1. CASE UNCHANGED <<targets, subscriptions, active, bindings, natives, live_bindings>>
  BY <1>1
<1>2. ASSUME NEW gone, NEW closed, Removes(gone, closed)
      PROVE  /\ Inactive \cup gone \subseteq subscriptions
             /\ Unsubscribe(Inactive \cup gone) /\ targets' \subseteq targets
             /\ \A s \in subscriptions : TargetOf(s) \in targets \ targets' => s \in Inactive \cup gone
  <2>1. Unsubscribe(Inactive \cup gone) /\ targets' = targets \ (StaleTargets \cup closed)
    BY <1>2 DEF Removes, Remove
  <2>2. \A s \in subscriptions : TargetOf(s) \in StaleTargets => s \in Inactive
    BY DEF StaleTargets, Inactive, SessionOf
  <2>3. QED
    BY <1>2, <2>1, <2>2 DEF Removes, Inactive
<1>3. CASE \E gone, closed : Removes(gone, closed)
  <2>1. PICK gone, closed : Removes(gone, closed)
    BY <1>3
  <2>2. /\ Inactive \cup gone \subseteq subscriptions
        /\ Unsubscribe(Inactive \cup gone) /\ targets' \subseteq targets
        /\ \A s \in subscriptions : TargetOf(s) \in targets \ targets' => s \in Inactive \cup gone
    BY <1>2, <2>1
  <2>3. PICK all \in SUBSET subscriptions : all = Inactive \cup gone
    BY <2>2
  <2>4. QED
    BY <2>2, <2>3 DEF Unsubscribe
<1>4. QED
  BY <1>1, <1>3, RemovalSteps

LEMMA NextArraysInv ==
  ASSUME TypeInv, ArraysInv, [Next]_vars
  PROVE  ArraysInv'
<1> USE DEF TypeInv, TypeOK, ArraysInv
<1>1. ASSUME NEW c \in Components, natives'[c] \subseteq natives[c]
      PROVE  natives'[c] \subseteq { s \in DOMAIN subscription' : ComponentOf(s)' = c }
  BY <1>1, SubscriptionsKept
<1>2. ASSUME NEW gone PROVE \A c \in Components : Without(gone)[c] \subseteq natives[c]
  BY DEF Without
<1>3. CASE Removing \/ ShutdownForgets
  BY <1>1, <1>2, <1>3, NextArrays
<1>4. CASE BindSucceeds
  <2>1. natives' = [Without(Inactive) EXCEPT ![target[game.target].component] = @ \cup {Made}]
    BY <1>4, NextArrays
  <2>2. ASSUME NEW c \in Components, NEW s \in natives'[c]
        PROVE  s \in DOMAIN subscription' /\ ComponentOf(s)' = c
    <3>1. s \in natives[c] \/ (s = Made /\ c = target[game.target].component)
      BY <1>2, <2>1, <2>2 DEF Without
    <3>2. CASE s \in natives[c]
      <4>1. s \in DOMAIN subscription /\ ComponentOf(s) = c
        BY <3>2
      <4>2. QED
        BY <4>1, SubscriptionsKept
    <3>3. CASE s = Made /\ c = target[game.target].component
      <4>1. s = Made
        BY <3>3
      <4>2. /\ DOMAIN subscription' = DOMAIN subscription \cup {s}
            /\ ComponentOf(s)' = target[game.target].component
        BY <1>4, <4>1, MadeFacts
      <4>3. QED
        BY <3>3, <4>2
    <3>4. QED
      BY <3>1, <3>2, <3>3
  <2>3. QED
    BY <2>2
<1>5. CASE DestroyComponent
  <2>1. \A c \in Components : natives'[c] \subseteq natives[c]
    BY <1>5 DEF DestroyComponent, EngineOK
  <2>2. QED
    BY <1>1, <2>1
<1>6. CASE natives' = natives
  BY <1>1, <1>6
<1>7. QED
  BY <1>3, <1>4, <1>5, <1>6, EngineFrame DEF engine, Clone, DestroyClone

LEMMA NextCountInv ==
  ASSUME TypeInv, ArraysInv, CountInv, [Next]_vars
  PROVE  CountInv'
<1> USE DEF TypeInv, TypeOK
<1>1. CASE Removing
  <2>1. clones' = clones
    BY <1>1, RemovingFrame
  <2>2. PICK gone \in SUBSET subscriptions :
          \/ /\ natives' = Without(gone)
             /\ live_bindings' = live_bindings - Cardinality(Found(gone))
          \/ UNCHANGED <<natives, live_bindings>>
    BY <1>1, RemovalFacts
  <2>3. CASE UNCHANGED <<natives, live_bindings>>
    BY <2>1, <2>3 DEF CountInv, Originals, Copies
  <2>4. CASE natives' = Without(gone) /\ live_bindings' = live_bindings - Cardinality(Found(gone))
    <3>1. gone \in SUBSET DOMAIN subscription
      BY DEF RegistryOK
    <3>2. QED
      BY <2>1, <2>4, <3>1, Unsubscribed
  <2>5. QED
    BY <2>2, <2>3, <2>4
<1>2. CASE BindSucceeds
  <2>1. /\ live_bindings' = live_bindings - Cardinality(Found(Inactive)) + 1
        /\ clones' = clones
    BY <1>2 DEF BindSucceeds
  <2>2. natives' = [Without(Inactive) EXCEPT ![target[game.target].component] = @ \cup {Made}]
    BY <1>2, NextArrays
  <2>3. Inactive \in SUBSET DOMAIN subscription
    BY DEF Inactive, RegistryOK
  <2>4. target[game.target].component \in Components
    BY <1>2, BindFacts, RecordsOK
  <2>5. Originals' = (Originals \ Inactive) \cup {Made}
    <3>1. \A c \in Components : natives'[c] =
            (natives[c] \ Inactive) \cup (IF c = target[game.target].component THEN {Made} ELSE {})
      BY <2>2, <2>3, DetachFacts DEF Without
    <3>2. Made \in SubscriptionIds
      BY <1>2, MadeFacts
    <3>3. QED
      BY <2>4, <3>1, <3>2 DEF Originals
  <2>6. Made \notin Originals
    <3>1. Made \notin DOMAIN subscription
      BY <1>2, MadeFacts
    <3>2. Originals \subseteq DOMAIN subscription
      BY DEF Originals, ArraysInv
    <3>3. QED
      BY <3>1, <3>2
  <2>7. /\ IsFiniteSet(Originals \ Inactive)
        /\ Cardinality(Originals \ Inactive) = Cardinality(Originals) - Cardinality(Originals \cap Inactive)
    BY CountsFinite, FS_Difference
  <2>8. Cardinality((Originals \ Inactive) \cup {Made}) = Cardinality(Originals \ Inactive) + 1
    BY <2>6, <2>7, FS_AddElement
  <2>9. Cardinality(Originals \cap Inactive) \in Nat /\ Found(Inactive) = Originals \cap Inactive
    <3>1. IsFiniteSet(Originals \cap Inactive)
      BY CountsFinite, FS_Intersection
    <3>2. QED
      BY <2>3, <3>1, FS_CardinalityType, DetachFacts
  <2>10. Copies' = Copies
    BY <2>1 DEF Copies
  <2>11. live_bindings' = Cardinality((Originals \ Inactive) \cup {Made}) + Cardinality(Copies)
    BY <2>1, <2>7, <2>8, <2>9, CountsFinite DEF CountInv
  <2>12. QED
    BY <2>5, <2>10, <2>11 DEF CountInv
<1>3. CASE ShutdownForgets
  <2>1. clones' = clones
    BY <1>3 DEF ShutdownForgets
  <2>2. CASE UNCHANGED <<natives, live_bindings>>
    BY <2>1, <2>2 DEF CountInv, Originals, Copies
  <2>3. CASE natives' = Without(bindings)
             /\ live_bindings' = live_bindings - Cardinality(Found(bindings))
    <3>1. bindings \in SUBSET DOMAIN subscription
      BY DEF RegistryOK
    <3>2. QED
      BY <2>1, <2>3, <3>1, Unsubscribed
  <2>4. QED
    BY <1>3, <2>2, <2>3 DEF ShutdownForgets
<1>4. CASE Clone
  <2>1. PICK s \in DOMAIN subscription :
          clones[s] < MaxClones /\ clones' = [clones EXCEPT ![s] = @ + 1]
    BY <1>4 DEF Clone
  <2>2. s \in SubscriptionIds /\ clones \in [SubscriptionIds -> 0..MaxClones]
    BY RecordsOK DEF EngineOK
  <2>3. Copies' = Copies \cup {<<s, clones[s] + 1>>} /\ <<s, clones[s] + 1>> \notin Copies
    <3>1. clones'[s] = clones[s] + 1 /\ \A r \in SubscriptionIds : r # s => clones'[r] = clones[r]
      BY <2>1, <2>2
    <3>2. clones[s] \in 0..MaxClones /\ clones[s] + 1 \in 1..MaxClones
      BY <2>1, <2>2
    <3>3. \A r \in SubscriptionIds, n \in 1..MaxClones :
            n <= clones'[r] <=> n <= clones[r] \/ (r = s /\ n = clones[s] + 1)
      <4> TAKE r \in SubscriptionIds, n \in 1..MaxClones
      <4>1. CASE r = s
        BY <3>1, <3>2, <4>1
      <4>2. CASE r # s
        BY <3>1, <4>2
      <4>3. QED
        BY <4>1, <4>2
    <3>4. QED
      BY <2>2, <3>2, <3>3 DEF Copies
  <2>4. Cardinality(Copies') = Cardinality(Copies) + 1
    BY <2>3, CountsFinite, FS_AddElement
  <2>5. live_bindings' = live_bindings + 1 /\ Originals' = Originals
    BY <1>4 DEF Clone, Originals
  <2>6. QED
    BY <2>4, <2>5, CountsFinite DEF CountInv
<1>5. CASE DestroyClone
  <2>1. PICK s \in DOMAIN subscription :
          clones[s] > 0 /\ clones' = [clones EXCEPT ![s] = @ - 1]
    BY <1>5 DEF DestroyClone
  <2>2. s \in SubscriptionIds /\ clones \in [SubscriptionIds -> 0..MaxClones]
    BY RecordsOK DEF EngineOK
  <2>3. Copies' = Copies \ {<<s, clones[s]>>} /\ <<s, clones[s]>> \in Copies
    <3>1. clones'[s] = clones[s] - 1 /\ \A r \in SubscriptionIds : r # s => clones'[r] = clones[r]
      BY <2>1, <2>2
    <3>2. clones[s] \in 1..MaxClones
      BY <2>1, <2>2
    <3>3. \A r \in SubscriptionIds, n \in 1..MaxClones :
            n <= clones'[r] <=> n <= clones[r] /\ ~(r = s /\ n = clones[s])
      <4> TAKE r \in SubscriptionIds, n \in 1..MaxClones
      <4>1. CASE r = s
        BY <3>1, <3>2, <4>1
      <4>2. CASE r # s
        BY <3>1, <4>2
      <4>3. QED
        BY <4>1, <4>2
    <3>4. QED
      BY <2>2, <3>2, <3>3 DEF Copies
  <2>4. Cardinality(Copies') = Cardinality(Copies) - 1
    BY <2>3, CountsFinite, FS_RemoveElement
  <2>5. live_bindings' = live_bindings - 1 /\ Originals' = Originals
    BY <1>5 DEF DestroyClone, Originals
  <2>6. QED
    BY <2>4, <2>5, CountsFinite DEF CountInv
<1>6. CASE DestroyComponent
  <2>1. PICK c \in alive : /\ natives' = [natives EXCEPT ![c] = {}]
                           /\ live_bindings' = live_bindings - Cardinality(natives[c])
    BY <1>6 DEF DestroyComponent
  <2>2. c \in Components /\ natives \in [Components -> SUBSET SubscriptionIds]
    BY DEF EngineOK
  <2>3. Originals' = Originals \ natives[c] /\ natives[c] \subseteq Originals
    <3>1. \A d \in Components : d # c => natives[d] \cap natives[c] = {}
      BY <2>2 DEF ArraysInv
    <3>2. natives'[c] = {} /\ \A d \in Components : d # c => natives'[d] = natives[d]
      BY <2>1, <2>2
    <3>3. QED
      BY <2>2, <3>1, <3>2 DEF Originals
  <2>4. Cardinality(Originals \ natives[c])
          = Cardinality(Originals) - Cardinality(Originals \cap natives[c])
    BY CountsFinite, FS_Difference
  <2>5. /\ Cardinality(Originals \cap natives[c]) = Cardinality(natives[c])
        /\ Cardinality(natives[c]) \in Nat
    <3>1. IsFiniteSet(natives[c])
      BY <2>3, CountsFinite, FS_Subset
    <3>2. Originals \cap natives[c] = natives[c]
      BY <2>3
    <3>3. QED
      BY <3>1, <3>2, FS_CardinalityType
  <2>6. Copies' = Copies
    BY <1>6 DEF DestroyComponent, Copies
  <2>7. live_bindings' = Cardinality(Originals \ natives[c]) + Cardinality(Copies)
    BY <2>1, <2>4, <2>5, CountsFinite DEF CountInv
  <2>8. QED
    BY <2>3, <2>6, <2>7 DEF CountInv
<1>7. CASE UNCHANGED engine
  BY <1>7 DEF engine, CountInv, Originals, Copies
<1>8. QED
  BY <1>1, <1>2, <1>3, <1>4, <1>5, <1>6, <1>7, EngineFrame

(* Which steps register or forget. *)
LEMMA RecordsFrame ==
  ASSUME [Next]_vars
  PROVE  \/ Removing \/ BindSucceeds \/ ShutdownForgets
         \/ UNCHANGED <<subscriptions, bindings>> /\ targets \subseteq targets'
<1> USE DEF registry
<1>1. CASE Calling \/ StopOnGameThread \/ FlushStep \/ PassStep \/ EventStep
  BY <1>1, CallingFrame, FlushFrame, PassFrame, EventFrame DEF StopOnGameThread, outside
<1>2. CASE OpenInserts \/ EnableFaults
  BY <1>2 DEF OpenInserts, EnableFaults
<1>3. CASE Execute \/ ExecuteLocked \/ ExecuteThrows \/ ExecuteCatches
  BY <1>3 DEF Execute, ExecuteLocked, ExecuteThrows, ExecuteCatches
<1>4. CASE Clone \/ DestroyClone \/ DestroyComponent \/ DestructorReturns
  BY <1>4 DEF Clone, DestroyClone, DestroyComponent, DestructorReturns
<1>5. CASE StopOffGameThread \/ DeactivateAll \/ EraseAll
  BY <1>5 DEF StopOffGameThread, DeactivateAll, EraseAll
<1>6. CASE ShutdownBegins \/ ShutdownClearsQueue \/ ShutdownReturns
  BY <1>6 DEF ShutdownBegins, ShutdownClearsQueue, ShutdownReturns
<1>7. CASE UNCHANGED vars
  BY <1>7 DEF vars
<1>8. QED
  BY <1>1, <1>2, <1>3, <1>4, <1>5, <1>6, <1>7, Steps

(* The shutdown goes through its stages in order. *)
LEMMA ShutdownSteps ==
  ASSUME TypeInv, [Next]_vars
  PROVE  \/ UNCHANGED <<shutdown, initialized>>
         \/ ShutdownBegins /\ shutdown.at = "no" /\ shutdown'.at = "begun" /\ ~shutdown'.pin
         \/ /\ ShutdownForgets /\ shutdown.at = "begun" /\ shutdown'.at = "forgotten"
            /\ shutdown'.on_game = shutdown.on_game
            /\ shutdown'.pin <=> ~shutdown.on_game /\ (bindings # {} \/ clone_created)
         \/ /\ ShutdownClearsQueue /\ shutdown.at = "forgotten" /\ shutdown'.at = "cleared"
            /\ shutdown'.on_game = shutdown.on_game /\ shutdown'.pin = shutdown.pin
         \/ /\ ShutdownReturns /\ shutdown.at = "cleared" /\ shutdown'.at \in {"unload", "retain"}
            /\ shutdown'.at = "unload" => ~shutdown.pin /\ live_bindings = 0
<1>1. shutdown \in [at : {"no", "begun", "forgotten", "cleared", "unload", "retain"},
                   on_game : BOOLEAN, pin : BOOLEAN]
  BY DEF TypeInv, TypeOK, ThreadsOK
<1>2. CASE ShutdownBegins
  <2>1. PICK on_game \in BOOLEAN : shutdown' = [at |-> "begun", on_game |-> on_game, pin |-> FALSE]
    BY <1>2 DEF ShutdownBegins
  <2>2. QED
    BY <1>2, <2>1 DEF ShutdownBegins
<1>3. CASE ShutdownForgets
  <2> DEFINE pin == ~shutdown.on_game /\ (bindings # {} \/ clone_created)
  <2>1. shutdown.at = "begun" /\ shutdown' = [shutdown EXCEPT !.at = "forgotten", !.pin = pin]
    BY <1>3 DEF ShutdownForgets
  <2>2. pin \in BOOLEAN
    OBVIOUS
  <2>3. pin <=> ~shutdown.on_game /\ (bindings # {} \/ clone_created)
    OBVIOUS
  <2> HIDE DEF pin
  <2>4. /\ shutdown'.at = "forgotten" /\ shutdown'.on_game = shutdown.on_game
        /\ shutdown'.pin = pin
    BY <1>1, <2>1, <2>2
  <2>5. QED
    BY <1>3, <2>1, <2>3, <2>4
<1>4. CASE ShutdownClearsQueue
  BY <1>1, <1>4 DEF ShutdownClearsQueue
<1>5. CASE ShutdownReturns
  BY <1>1, <1>5 DEF ShutdownReturns
<1>6. QED
  BY <1>2, <1>3, <1>4, <1>5, LineFrame

LEMMA NextTrackedInv ==
  ASSUME TypeInv, ArraysInv, TrackedInv, [Next]_vars
  PROVE  TrackedInv'
<1> USE DEF TypeInv, TypeOK
<1> SUFFICES ASSUME shutdown'.at \in {"no", "begun"}
             PROVE  /\ bindings' = subscriptions'
                    /\ \A c \in Components :
                         natives'[c] = IF c \in alive' THEN { s \in bindings' : ComponentOf(s)' = c }
                                       ELSE {}
                    /\ \A s \in subscriptions' : TargetOf(s)' \in targets'
  BY DEF TrackedInv
<1>1. shutdown.at \in {"no", "begun"} /\ ~ShutdownForgets
  <2>1. CASE ShutdownForgets
    <3>1. shutdown' = [shutdown EXCEPT !.at = "forgotten",
            !.pin = ~shutdown.on_game /\ (bindings # {} \/ clone_created)]
      BY <2>1 DEF ShutdownForgets
    <3>2. shutdown'.at = "forgotten"
      BY <3>1 DEF ThreadsOK
    <3>3. QED
      BY <3>2
  <2>2. CASE ~ShutdownForgets
    BY <2>2, ShutdownSteps
  <2>3. QED
    BY <2>1, <2>2
<1>2. /\ bindings = subscriptions
      /\ \A c \in Components :
           natives[c] = IF c \in alive THEN { s \in bindings : ComponentOf(s) = c } ELSE {}
      /\ \A s \in subscriptions : TargetOf(s) \in targets
  BY <1>1 DEF TrackedInv
<1>3. subscriptions \subseteq DOMAIN subscription
  BY DEF RegistryOK
<1>4. \A s \in subscriptions : ComponentOf(s)' = ComponentOf(s) /\ TargetOf(s)' = TargetOf(s)
  BY <1>3, SubscriptionsKept
<1>5. CASE Removing
  <2>1. alive' = alive
    BY <1>5, RemovingFrame
  <2>2. PICK gone \in SUBSET subscriptions :
           /\ subscriptions' = subscriptions \ gone /\ bindings' = bindings \ gone
           /\ \A s \in subscriptions : TargetOf(s) \in targets \ targets' => s \in gone
           /\ natives' = Without(gone) \/ (gone = {} /\ natives' = natives)
    BY <1>5, RemovalFacts
  <2>3. \A c \in Components : natives'[c] = natives[c] \ gone
    <3>1. gone \in SUBSET DOMAIN subscription
      BY <1>3
    <3>2. \A c \in Components : Without(gone)[c] = natives[c] \ gone
      BY <3>1, DetachFacts
    <3>3. QED
      BY <2>2, <3>2
  <2>4. \A c \in Components :
          natives'[c] = IF c \in alive' THEN { s \in bindings' : ComponentOf(s)' = c } ELSE {}
    <3> TAKE c \in Components
    <3>1. CASE c \in alive
      <4>1. natives'[c] = { s \in bindings : ComponentOf(s) = c } \ gone
        BY <1>2, <2>3, <3>1
      <4>2. \A s \in bindings' : ComponentOf(s)' = ComponentOf(s)
        BY <1>2, <1>4, <2>2
      <4>3. { s \in bindings' : ComponentOf(s)' = c } = { s \in bindings : ComponentOf(s) = c } \ gone
        BY <2>2, <4>2
      <4>4. QED
        BY <2>1, <3>1, <4>1, <4>3
    <3>2. CASE c \notin alive
      BY <1>2, <2>1, <2>3, <3>2
    <3>3. QED
      BY <3>1, <3>2
  <2>5. \A s \in subscriptions' : TargetOf(s)' \in targets'
    BY <1>2, <1>4, <2>2
  <2>6. QED
    BY <1>2, <2>2, <2>4, <2>5
<1>6. CASE BindSucceeds
  <2>1. /\ subscriptions' = (subscriptions \ Inactive) \cup {Made}
        /\ bindings' = (bindings \ Inactive) \cup {Made}
        /\ targets' = targets \ StaleTargets /\ alive' = alive
        /\ game.target \in targets \ StaleTargets /\ target[game.target].component \in alive
    BY <1>6 DEF BindSucceeds, Bindable, Made
  <2>2. /\ natives' = [Without(Inactive) EXCEPT ![target[game.target].component] = @ \cup {Made}]
        /\ Inactive \in SUBSET DOMAIN subscription
    BY <1>3, <1>6, NextArrays DEF Inactive
  <2>3. \A c \in Components : natives'[c] =
          (natives[c] \ Inactive) \cup (IF c = target[game.target].component THEN {Made} ELSE {})
    BY <2>2, DetachFacts DEF Without
  <2>4. PICK m : m = Made
    OBVIOUS
  <2>5. /\ ComponentOf(m)' = target[game.target].component /\ TargetOf(m)' = game.target
        /\ m \notin subscriptions
    BY <1>3, <1>6, <2>4, MadeFacts
  <2>6. ASSUME NEW c \in Components
        PROVE  natives'[c] = IF c \in alive' THEN { s \in bindings' : ComponentOf(s)' = c } ELSE {}
    <3>1. CASE c \notin alive
      <4>1. natives[c] = {} /\ c # target[game.target].component
        BY <1>2, <2>1, <3>1
      <4>2. QED
        BY <2>1, <2>3, <3>1, <4>1
    <3>2. CASE c \in alive
      <4>1. natives[c] = { s \in bindings : ComponentOf(s) = c }
        BY <1>2, <3>2
      <4>2. \A s \in bindings' : ComponentOf(s)' = c <=>
              (s \in bindings \ Inactive /\ ComponentOf(s) = c)
              \/ (s = m /\ c = target[game.target].component)
        BY <1>2, <1>4, <2>1, <2>4, <2>5
      <4>3. \A s : s \in natives'[c] <=> s \in bindings' /\ ComponentOf(s)' = c
        BY <2>1, <2>3, <2>4, <4>1, <4>2
      <4>4. QED
        BY <2>1, <3>2, <4>3
    <3>3. QED
      BY <3>1, <3>2
  <2>7. ASSUME NEW s \in subscriptions' PROVE TargetOf(s)' \in targets'
    <3>1. CASE s = m
      BY <2>1, <2>5, <3>1
    <3>2. CASE s # m
      <4>1. s \in subscriptions \ Inactive
        BY <2>1, <2>4, <2>7, <3>2
      <4>2. TargetOf(s) \in targets /\ TargetOf(s) \notin StaleTargets
        BY <1>2, <4>1 DEF StaleTargets, Inactive, SessionOf
      <4>3. QED
        BY <1>4, <2>1, <4>1, <4>2
    <3>3. QED
      BY <3>1, <3>2
  <2>8. QED
    BY <1>2, <2>1, <2>6, <2>7
<1>7. CASE ~Removing /\ ~BindSucceeds
  <2>1. UNCHANGED <<subscriptions, bindings>> /\ targets \subseteq targets'
    BY <1>1, <1>7, RecordsFrame
  <2>2. ASSUME NEW c \in Components
        PROVE  natives'[c] = IF c \in alive' THEN { s \in bindings' : ComponentOf(s)' = c } ELSE {}
    <3>1. natives[c] = IF c \in alive THEN { s \in bindings' : ComponentOf(s)' = c } ELSE {}
      BY <1>2, <1>4, <2>1
    <3>2. CASE DestroyComponent
      <4>1. PICK d \in alive : alive' = alive \ {d} /\ natives' = [natives EXCEPT ![d] = {}]
        BY <3>2 DEF DestroyComponent
      <4>2. natives'[c] = IF c = d THEN {} ELSE natives[c]
        BY <4>1 DEF EngineOK
      <4>3. QED
        BY <3>1, <4>1, <4>2
    <3>3. CASE UNCHANGED <<alive, natives>>
      BY <3>1, <3>3
    <3>4. QED
      BY <1>1, <1>7, <3>2, <3>3, EngineFrame DEF Clone, DestroyClone, engine
  <2>3. QED
    BY <1>2, <1>4, <2>1, <2>2
<1>8. QED
  BY <1>5, <1>6, <1>7

LEMMA InitOwnershipInv == ASSUME Init PROVE OwnershipInv
<1>1. Originals = {} /\ Copies = {}
  BY DEF Init, Originals, Copies
<1>2. CountInv
  BY <1>1, FS_EmptySet DEF Init, CountInv
<1>3. ArraysInv /\ TrackedInv
  BY DEF Init, ArraysInv, TrackedInv
<1>4. QED
  BY <1>2, <1>3 DEF OwnershipInv

LEMMA NextOwnershipInv == ASSUME TypeInv, OwnershipInv, [Next]_vars PROVE OwnershipInv'
  BY NextArraysInv, NextTrackedInv, NextCountInv DEF OwnershipInv

(* Until shutdown has run the engine's arrays hold exactly the bindings the
   backend tracks, of registered subscriptions of registered targets, and the
   count of live objects is exact before and after. *)
THEOREM OwnershipIsExact == Spec => []OwnershipExact
<1>1. Init => TypeInv /\ OwnershipInv
  BY InitTypeInv, InitOwnershipInv
<1>2. TypeInv /\ OwnershipInv /\ [Next]_vars => (TypeInv /\ OwnershipInv)'
  BY NextTypeInv, NextOwnershipInv
<1>3. TypeInv /\ OwnershipInv => OwnershipExact
  BY DEF TypeInv, OwnershipInv, OwnershipExact, TrackedInv, CountInv, LiveBindingsExact,
         Originals, Copies
<1>4. QED
  BY <1>1, <1>2, <1>3, PTL DEF Spec

-----------------------------------------------------------------------------
(* The unload. *)

(* The game thread runs code of a native binding. *)
InNative == game.op \in {"execute", "catch", "destroying"}

NothingLeft == Originals = {} /\ (\A s \in SubscriptionIds : clones[s] = 0) /\ ~InNative

(* The shutdown pins the module unless it has taken everything down itself or
   knows that there never was anything; the conjuncts say how it knows. *)
UnloadInv ==
  /\ \A s \in SubscriptionIds : clones[s] > 0 => clone_created
  /\ InNative /\ shutdown.at \in {"no", "begun"} => bindings # {} \/ clone_created
  /\ shutdown.on_game /\ shutdown.at \in {"begun", "forgotten", "cleared"} => game.op = "shutdown"
  /\ shutdown.on_game /\ shutdown.at \in {"forgotten", "cleared"} => Originals = {}
  /\ ~shutdown.on_game /\ ~shutdown.pin /\ shutdown.at \in {"forgotten", "cleared"} => NothingLeft
  /\ shutdown.at = "unload" => NothingLeft

(* While the game thread shuts down it does nothing else. *)
LEMMA ShuttingDown ==
  ASSUME [Next]_vars, game.op = "shutdown"
  PROVE  UNCHANGED game \/ ShutdownReturns
<1>1. game # NoCall
  BY DEF NoCall
<1>2. ~Calling
  BY <1>1 DEF Calling, CallOpen, CallTarget, CallUnbind, CallUnbindAll, Enter, Callable
<1>3. ~Removing
  BY DEF Removing, OpenCollects, BindFails, CloseTarget, Unbind, UnbindAll
<1>4. ~OpenInserts /\ ~EnableFaults /\ ~BindSucceeds /\ ~StopOnGameThread
  BY DEF OpenInserts, EnableFaults, BindSucceeds, StopOnGameThread
<1>5. ~Execute /\ ~ExecuteLocked /\ ~ExecuteThrows /\ ~ExecuteCatches
  BY <1>1 DEF Execute, ExecuteLocked, ExecuteThrows, ExecuteCatches
<1>6. ~Clone /\ ~DestroyClone /\ ~DestroyComponent /\ ~DestructorReturns
  BY <1>1 DEF Clone, DestroyClone, DestroyComponent, DestructorReturns
<1>7. ShutdownBegins => UNCHANGED game
  BY <1>1 DEF ShutdownBegins
<1>8. CASE StopOffGameThread \/ DeactivateAll \/ EraseAll \/ ShutdownForgets \/ ShutdownClearsQueue
  BY <1>8 DEF StopOffGameThread, DeactivateAll, EraseAll, ShutdownForgets, ShutdownClearsQueue,
         control
<1>9. CASE FlushStep \/ PassStep \/ EventStep
  BY <1>9, FlushFrame, PassFrame, EventFrame DEF outside
<1>10. QED
  BY <1>2, <1>3, <1>4, <1>5, <1>6, <1>7, <1>8, <1>9, Steps DEF vars, control

(* Once the backend takes no more calls, native objects only go. *)
LEMMA OriginalsShrink ==
  ASSUME TypeInv, ~initialized, [Next]_vars
  PROVE  Originals' \subseteq Originals
<1>1. \A gone : \A c \in Components : Without(gone)[c] \subseteq natives[c]
  BY DEF Without
<1>2. ~BindSucceeds
  BY DEF BindSucceeds
<1>3. \A c \in Components : natives'[c] \subseteq natives[c]
  <2>1. CASE Removing \/ ShutdownForgets
    BY <1>1, <2>1, NextArrays DEF TypeInv, TypeOK
  <2>2. CASE DestroyComponent
    BY <2>2 DEF DestroyComponent, TypeInv, TypeOK, EngineOK
  <2>3. CASE natives' = natives
    BY <2>3
  <2>4. QED
    BY <1>2, <2>1, <2>2, <2>3, EngineFrame DEF Clone, DestroyClone, engine
<1>4. QED
  BY <1>3 DEF Originals

LEMMA NothingComesBack ==
  ASSUME TypeInv, ~initialized, NothingLeft, [Next]_vars
  PROVE  NothingLeft'
<1>1. Originals' = {}
  BY OriginalsShrink DEF NothingLeft
<1>2. \A s \in DOMAIN subscription : ~HasNative(s)
  BY RecordsOK DEF NothingLeft, HasNative, Originals, TypeInv, TypeOK
<1>3. ~Clone /\ ~DestroyClone /\ ~Execute
  BY <1>2, RecordsOK DEF Clone, DestroyClone, Execute, NothingLeft, TypeInv, TypeOK
<1>4. clones' = clones
  BY <1>3, EngineFrame, RemovingFrame DEF BindSucceeds, ShutdownForgets, DestroyComponent, engine
<1>5. ~InNative'
  <2>1. CASE UNCHANGED game
    BY <2>1 DEF NothingLeft, InNative
  <2>2. CASE ~UNCHANGED game
    <3>1. ~ExecuteThrows
      BY DEF NothingLeft, InNative, ExecuteThrows
    <3>2. ~DestroyComponent
      <4>1. ASSUME DestroyComponent PROVE FALSE
        <5>1. PICK c \in alive : game' = IF natives[c] = {} THEN game ELSE [op |-> "destroying"]
          BY <4>1 DEF DestroyComponent
        <5>2. natives[c] = {}
          BY DEF NothingLeft, Originals, TypeInv, TypeOK, EngineOK
        <5>3. QED
          BY <2>2, <5>1, <5>2
      <4>2. QED
        BY <4>1
    <3>3. QED
      BY <1>3, <2>2, <3>1, <3>2, GameCauses DEF InNative, TypeInv, TypeOK
  <2>3. QED
    BY <2>1, <2>2
<1>6. QED
  BY <1>1, <1>4, <1>5 DEF NothingLeft

LEMMA NextUnloadInv ==
  ASSUME TypeInv, StageInv, OwnershipInv, UnloadInv, [Next]_vars
  PROVE  UnloadInv'
<1> USE DEF TypeInv, TypeOK
<1>1. \A s \in SubscriptionIds : clones'[s] > 0 => clone_created'
  <2>1. CASE Clone
    BY <2>1 DEF Clone
  <2>2. CASE DestroyClone
    <3>1. PICK r \in DOMAIN subscription : clones[r] > 0 /\ clones' = [clones EXCEPT ![r] = @ - 1]
      BY <2>2 DEF DestroyClone
    <3>2. clone_created' = clone_created /\ clone_created
      BY <2>2, <3>1, RecordsOK DEF DestroyClone, UnloadInv
    <3>3. QED
      BY <3>2
  <2>3. CASE UNCHANGED <<clones, clone_created>>
    BY <2>3 DEF UnloadInv
  <2>4. QED
    BY <2>1, <2>2, <2>3, EngineFrame, RemovingFrame DEF BindSucceeds, ShutdownForgets,
       DestroyComponent, engine
<1>2. InNative' /\ shutdown'.at \in {"no", "begun"} => bindings' # {} \/ clone_created'
  <2> SUFFICES ASSUME InNative', shutdown'.at \in {"no", "begun"}
               PROVE  bindings' # {} \/ clone_created'
    OBVIOUS
  <2>1. shutdown.at \in {"no", "begun"}
    BY ShutdownSteps
  <2>2. ~ShutdownForgets
    <3>1. ASSUME ShutdownForgets PROVE FALSE
      <4>1. shutdown' = [shutdown EXCEPT !.at = "forgotten",
              !.pin = ~shutdown.on_game /\ (bindings # {} \/ clone_created)]
        BY <3>1 DEF ShutdownForgets
      <4>2. shutdown'.at = "forgotten"
        BY <4>1 DEF ThreadsOK
      <4>3. QED
        BY <4>2
    <3>2. QED
      BY <3>1
  <2>3. clone_created => clone_created'
    BY EngineFrame, RemovingFrame DEF BindSucceeds, ShutdownForgets, DestroyComponent, Clone,
       DestroyClone, engine
  <2>4. \A s \in DOMAIN subscription : HasNative(s) => bindings # {} \/ clone_created
    <3> TAKE s \in DOMAIN subscription
    <3>1. CASE clones[s] > 0
      BY <3>1, RecordsOK DEF UnloadInv
    <3>2. CASE \E c \in Components : s \in natives[c]
      BY <2>1, <3>2 DEF OwnershipInv, TrackedInv
    <3>3. QED
      BY <3>1, <3>2 DEF HasNative
  <2>5. bindings # {} \/ clone_created
    <3>1. CASE InNative
      BY <2>1, <3>1 DEF UnloadInv
    <3>2. CASE ~InNative
      <4>1. Execute \/ DestroyClone \/ DestroyComponent
        BY <3>2, GameCauses DEF InNative, ExecuteThrows
      <4>2. CASE Execute
        BY <2>4, <4>2 DEF Execute
      <4>3. CASE DestroyClone
        BY <2>4, <4>3 DEF DestroyClone, HasNative
      <4>4. CASE DestroyComponent
        <5>1. PICK c \in alive : game' = IF natives[c] = {} THEN game ELSE [op |-> "destroying"]
          BY <4>4 DEF DestroyComponent
        <5>2. natives[c] # {} /\ c \in Components
          BY <3>2, <5>1 DEF InNative, EngineOK
        <5>3. QED
          BY <2>1, <5>2 DEF OwnershipInv, TrackedInv
      <4>5. QED
        BY <4>1, <4>2, <4>3, <4>4
    <3>3. QED
      BY <3>1, <3>2
  <2>6. CASE Removing \/ BindSucceeds
    <3>1. game'.op \notin {"execute", "catch", "destroying"}
      <4>1. game.op \in {"open", "bind", "close", "unbind", "unbind_all", "unbind_keep", "stop"}
        BY <2>6 DEF Removing, OpenCollects, BindFails, CloseTarget, Unbind, UnbindAll, BindSucceeds
      <4>2. game # NoCall
        BY <4>1 DEF NoCall
      <4>3. ~Execute /\ ~ExecuteThrows
        BY <4>1, <4>2 DEF Execute, ExecuteThrows
      <4>4. ~DestroyClone /\ ~DestroyComponent
        BY <4>2 DEF DestroyClone, DestroyComponent
      <4>5. QED
        BY <4>1, <4>3, <4>4, GameCauses
    <3>2. QED
      BY <3>1 DEF InNative
  <2>7. CASE bindings' = bindings
    BY <2>3, <2>5, <2>7
  <2>8. QED
    BY <2>2, <2>6, <2>7, RecordsFrame
<1>3. shutdown'.on_game /\ shutdown'.at \in {"begun", "forgotten", "cleared"}
        => game'.op = "shutdown"
  <2>1. CASE ShutdownBegins
    <3>1. PICK on_game \in BOOLEAN :
            /\ shutdown' = [at |-> "begun", on_game |-> on_game, pin |-> FALSE]
            /\ game' = IF on_game THEN [op |-> "shutdown"] ELSE game
      BY <2>1 DEF ShutdownBegins
    <3>2. QED
      BY <3>1
  <2>2. CASE ShutdownReturns
    <3>1. shutdown'.at \in {"unload", "retain"}
      BY <2>2 DEF ShutdownReturns, ThreadsOK
    <3>2. QED
      BY <3>1
  <2>3. CASE ~ShutdownBegins /\ ~ShutdownReturns
    BY <2>3, ShutdownSteps, ShuttingDown DEF UnloadInv
  <2>4. QED
    BY <2>1, <2>2, <2>3
<1>4. shutdown'.on_game /\ shutdown'.at \in {"forgotten", "cleared"} => Originals' = {}
  <2> SUFFICES ASSUME shutdown'.on_game, shutdown'.at \in {"forgotten", "cleared"}
               PROVE  Originals' = {}
    OBVIOUS
  <2>1. CASE ShutdownForgets /\ shutdown.at = "begun" /\ shutdown'.on_game = shutdown.on_game
    <3>1. natives' = Without(bindings)
      BY <2>1 DEF ShutdownForgets
    <3>2. \A c \in Components : natives'[c] = natives[c] \ bindings
      <4>1. bindings \in SUBSET DOMAIN subscription
        BY DEF RegistryOK
      <4>2. QED
        BY <3>1, <4>1, DetachFacts DEF OwnershipInv
    <3>3. \A c \in Components : natives[c] \subseteq bindings
      BY <2>1 DEF OwnershipInv, TrackedInv
    <3>4. QED
      BY <3>2, <3>3 DEF Originals
  <2>2. CASE shutdown.on_game /\ shutdown.at \in {"forgotten", "cleared"}
    BY <2>2, OriginalsShrink DEF UnloadInv, StageInv
  <2>3. QED
    BY <2>1, <2>2, ShutdownSteps
<1>5. ~shutdown'.on_game /\ ~shutdown'.pin /\ shutdown'.at \in {"forgotten", "cleared"}
        => NothingLeft'
  <2> SUFFICES ASSUME ~shutdown'.on_game, ~shutdown'.pin, shutdown'.at \in {"forgotten", "cleared"}
               PROVE  NothingLeft'
    OBVIOUS
  <2>1. CASE ShutdownForgets /\ shutdown.at = "begun" /\ ~shutdown.on_game
             /\ bindings = {} /\ ~clone_created
    <3>1. UNCHANGED <<natives, clones, game>>
      BY <2>1 DEF ShutdownForgets, control
    <3>2. Originals = {}
      BY <2>1 DEF OwnershipInv, TrackedInv, Originals
    <3>3. \A s \in SubscriptionIds : clones[s] = 0
      BY <2>1 DEF UnloadInv, EngineOK
    <3>4. ~InNative
      BY <2>1 DEF UnloadInv
    <3>5. QED
      BY <3>1, <3>2, <3>3, <3>4 DEF NothingLeft, Originals, InNative
  <2>2. CASE ~shutdown.on_game /\ ~shutdown.pin /\ shutdown.at \in {"forgotten", "cleared"}
    BY <2>2, NothingComesBack DEF UnloadInv, StageInv
  <2>3. QED
    BY <2>1, <2>2, ShutdownSteps
<1>6. shutdown'.at = "unload" => NothingLeft'
  <2> SUFFICES ASSUME shutdown'.at = "unload" PROVE NothingLeft'
    OBVIOUS
  <2>1. CASE ShutdownReturns /\ shutdown.at = "cleared" /\ ~shutdown.pin /\ live_bindings = 0
    <3>1. CASE ~shutdown.on_game
      BY <2>1, <3>1, NothingComesBack DEF UnloadInv, StageInv
    <3>2. CASE shutdown.on_game
      <4>1. Originals = {} /\ Cardinality(Originals) = 0
        BY <2>1, <3>2, FS_EmptySet DEF UnloadInv
      <4>2. Cardinality(Copies) = 0
        BY <2>1, <4>1, CountsFinite DEF OwnershipInv, CountInv
      <4>3. Copies = {}
        BY <4>2, CountsFinite, FS_EmptySet
      <4>4. \A s \in SubscriptionIds : clones[s] = 0
        <5> TAKE s \in SubscriptionIds
        <5>1. clones[s] \in 0..MaxClones
          BY DEF EngineOK
        <5>2. clones[s] # 0 => 1 \in 1..MaxClones /\ 1 <= clones[s]
          BY <5>1
        <5>3. clones[s] # 0 => <<s, 1>> \in Copies
          BY <5>2 DEF Copies
        <5>4. QED
          BY <4>3, <5>3
      <4>5. UNCHANGED <<natives, clones>> /\ game' = NoCall
        BY <2>1, <3>2 DEF ShutdownReturns, engine
      <4>6. QED
        BY <4>1, <4>4, <4>5 DEF NothingLeft, Originals, InNative, NoCall
    <3>3. QED
      BY <3>1, <3>2
  <2>2. CASE shutdown.at = "unload"
    BY <2>2, NothingComesBack DEF UnloadInv, StageInv
  <2>3. QED
    BY <2>1, <2>2, ShutdownSteps
<1>7. QED
  BY <1>1, <1>2, <1>3, <1>4, <1>5, <1>6 DEF UnloadInv

LEMMA InitUnloadInv == ASSUME Init PROVE UnloadInv
  BY DEF Init, UnloadInv, InNative, NoCall

(* The module is unloaded only when Unreal holds no object with its code and
   the game thread is in none of it. *)
THEOREM UnloadIsSafe == Spec => []UnloadSafe
<1>1. Init => TypeInv /\ StageInv /\ OwnershipInv /\ UnloadInv
  BY InitTypeInv, InitSessionInv, InitOwnershipInv, InitUnloadInv DEF SessionInv
<1>2. TypeInv /\ StageInv /\ OwnershipInv /\ UnloadInv /\ [Next]_vars
        => (TypeInv /\ StageInv /\ OwnershipInv /\ UnloadInv)'
  BY NextTypeInv, NextStageInv, NextOwnershipInv, NextUnloadInv
<1>3. TypeInv /\ UnloadInv => UnloadSafe
  BY RecordsOK DEF TypeInv, TypeOK, UnloadInv, NothingLeft, Originals, InNative, HasNative,
     UnloadSafe
<1>4. QED
  BY <1>1, <1>2, <1>3, PTL DEF Spec
=============================================================================
