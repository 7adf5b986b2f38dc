---------------------------- MODULE InputBackend ----------------------------
(***************************************************************************)
(* EnhancedInputBackend with its callers in BridgeMod: who may bind what,  *)
(* which native objects Unreal holds for it, how an event gets from a      *)
(* delegate to Lua, how a delivery fault is latched and reported, and how  *)
(* sessions, components and finally the whole module go away.              *)
(*                                                                         *)
(* Three threads interleave.  The game thread runs the native delegates    *)
(* and every registration call; UE4SS's event-loop thread runs on_update;  *)
(* a host thread stops Lua sessions and shuts the backend down when that   *)
(* does not happen on the game thread.  A step is one critical section, or *)
(* the unlocked tests a thread makes before it enters the next one.        *)
(*                                                                         *)
(* The event queue is DispatchQueue's.  Paths, phases, payloads and traces *)
(* are left out.  Name_Mistake is Name with a mistake in it.               *)
(***************************************************************************)
EXTENDS Naturals, Sequences, FiniteSets

CONSTANTS
  Sessions,          \* Lua sessions that have been started
  Components,        \* Enhanced Input components of the game
  Limit,             \* QueueCapacity::limit of the event queue
  MaxPerPass,        \* UE4SSLEB_MAX_EVENTS_PER_PASS
  MaxEvents,         \* bound: executions of native delegates
  MaxTargets,        \* bound: target handles
  MaxSubscriptions,  \* bound: subscription handles
  MaxClones,         \* bound: engine-made clones alive per subscription
  Allowed            \* the calls and incidents an instance includes

ASSUME BoundsAssumption ==
  /\ Limit \in Nat /\ MaxPerPass \in Nat /\ MaxEvents \in Nat
  /\ MaxTargets \in Nat /\ MaxSubscriptions \in Nat /\ MaxClones \in Nat

VARIABLES
  initialized,       \* EnhancedInputBackend::initialized_
  target,            \* every target ever opened, the handle is the index
  targets,           \* the keys of targets_
  has_bound,         \* targets with Target::has_bound
  policy,            \* targets with a TargetDeliveryState
  fault, notified,   \* TargetDeliveryState, by target
  faults_pending,    \* EnhancedInputDispatchState::faults_pending
  subscription,      \* every subscription ever made, the handle is the index;
                     \* `delivery' says it shares the target's delivery state
  subscriptions,     \* the keys of subscriptions_
  active,            \* subscriptions with EnhancedInputSubscription::active
  bindings,          \* the subscriptions that bindings_ has a LiveBinding of
  inactive_sessions, \* EnhancedInputBackend::inactive_sessions_
  session_active,    \* sessions with LuaSession::active
  alive,             \* the components Unreal has not destroyed
  natives,           \* by component, the bindings in its native array
  clones,            \* by subscription, the clones Unreal owns
  live_bindings,     \* EnhancedInputDispatchState::live_bindings
  clone_created,     \* EnhancedInputDispatchState::clone_created
  next_event_sequence, accepting, events, events_ready, capacity, warnings,
  pending, remaining, last_examined,  \* as in DispatchQueue
  game,              \* the call the game thread is in
  host,              \* what the host thread is doing
  shutdown,          \* how far EnhancedInputBackend::shutdown has come
  update,            \* where on_update is, with its current event
  budget,            \* the pass's DispatchBudget
  reports,           \* history: fault messages sent to Lua, by target
  thrown,            \* history: subscriptions whose callback has failed
  purged,            \* history: subscriptions deactivate() has finished with
  late               \* history: calls into a session begun after its stop

registry == <<target, targets, has_bound, policy, subscription, subscriptions,
              active, bindings>>
engine == <<alive, natives, clones, live_bindings, clone_created>>
delivery == <<fault, notified, faults_pending>>
line == <<next_event_sequence, events, events_ready, capacity, warnings>>
batch == <<pending, remaining, last_examined>>
lua == <<inactive_sessions, session_active>>
control == <<game, host, update, budget>>
stopping == <<initialized, accepting, shutdown>>
history == <<reports, thrown, purged, late>>
vars == <<registry, engine, delivery, line, batch, lua, control, stopping, history>>

TargetIds == 1..MaxTargets
SubscriptionIds == 1..MaxSubscriptions
Reasons == {"QueueCapacity", "QueueException", "CallbackError"}
Event == [owner : SubscriptionIds, sequence : 1..MaxEvents]

TargetOf(s) == subscription[s].target
SessionOf(s) == target[TargetOf(s)].session
ComponentOf(s) == target[TargetOf(s)].component

(* EnhancedInputSubscription::delivery_valid. *)
DeliveryValid(s) == subscription[s].delivery => fault[TargetOf(s)] = "None"
Live(s) == s \in active /\ DeliveryValid(s)

(* Subscriptions not made yet count as live until shutdown has run. *)
LiveOwners == { s \in SubscriptionIds :
  IF s \in DOMAIN subscription THEN Live(s) ELSE shutdown.at \in {"no", "begun"} }

(* Execute takes its sequence number before it enters the queue. *)
InFlight == IF game.op = "execute" THEN 1 ELSE 0

QueuePass ==
  [at |-> CASE update.at \in {"idle", "begin"} -> "idle"
            [] update.at \in {"check", "take", "run", "publish"} -> update.at
            [] OTHER -> "consume",
   processed |-> budget.processed, progressed |-> budget.progressed,
   expired |-> budget.expired]

Queue == INSTANCE DispatchQueue WITH
  Owners <- SubscriptionIds, live <- LiveOwners, pass <- QueuePass,
  next_event_sequence <- next_event_sequence - InFlight

NoBudget == [processed |-> 0, progressed |-> FALSE, expired |-> FALSE]
NoCall == [op |-> "none"]

Init ==
  /\ initialized = TRUE
  /\ target = <<>> /\ targets = {} /\ has_bound = {} /\ policy = {}
  /\ fault = [t \in TargetIds |-> "None"]
  /\ notified = {} /\ faults_pending = FALSE
  /\ subscription = <<>> /\ subscriptions = {} /\ active = {} /\ bindings = {}
  /\ inactive_sessions = {} /\ session_active = Sessions
  /\ alive = Components
  /\ natives = [c \in Components |-> {}]
  /\ clones = [s \in SubscriptionIds |-> 0]
  /\ live_bindings = 0 /\ clone_created = FALSE
  /\ next_event_sequence = 1 /\ accepting = TRUE
  /\ events = <<>> /\ events_ready = FALSE /\ warnings = 0
  /\ capacity = [high_water |-> 0, rejected |-> 0,
                 warning_pending |-> FALSE, overflow_reported |-> FALSE]
  /\ pending = <<>> /\ remaining = 0 /\ last_examined = 0
  /\ game = NoCall /\ host = NoCall
  /\ shutdown = [at |-> "no", on_game |-> FALSE, pin |-> FALSE]
  /\ update = [at |-> "idle", flush |-> "no", target |-> 0, event |-> NoCall]
  /\ budget = NoBudget
  /\ reports = [t \in TargetIds |-> 0]
  /\ thrown = {} /\ purged = {}
  /\ late = [x \in Sessions |-> 0]

-----------------------------------------------------------------------------
(* Registration, all under the backend mutex.                              *)

(* latch_delivery_fault: the first reason wins, and only a subscription with a
   delivery state has anything to latch. *)
Latch(s, reason) ==
  IF subscription[s].delivery /\ fault[TargetOf(s)] = "None"
  THEN /\ fault' = [fault EXCEPT ![TargetOf(s)] = reason]
       /\ faults_pending' = TRUE
  ELSE UNCHANGED <<fault, faults_pending>>

(* What collect_inactive_locked removes before the operation proper. *)
Inactive == { s \in subscriptions : s \notin active \/ SessionOf(s) \in inactive_sessions }
StaleTargets == { t \in targets : target[t].session \in inactive_sessions }

Unsubscribe_KeepsNative(gone) ==
  /\ subscriptions' = subscriptions \ gone
  /\ active' = active \ gone
  /\ bindings' = bindings \ gone
  /\ UNCHANGED <<natives, live_bindings>>

(* detach finds a binding in its component's array and deletes it, unless the
   component died and took the array along. *)
Found(gone) == { s \in gone : s \in natives[ComponentOf(s)] }
Without(gone) == [c \in Components |-> natives[c] \ Found(gone)]

(* unsubscribe_locked for each of `gone': inactive, detached, forgotten. *)
Unsubscribe(gone) ==
  /\ subscriptions' = subscriptions \ gone
  /\ active' = active \ gone
  /\ bindings' = bindings \ gone
  /\ natives' = Without(gone)
  /\ live_bindings' = live_bindings - Cardinality(Found(gone))

(* An operation that collects, then unsubscribes `gone' and erases `closed'. *)
Remove(gone, closed) ==
  /\ Unsubscribe(Inactive \cup gone)
  /\ targets' = targets \ (StaleTargets \cup closed)

Collect == Remove({}, {})

(* The tests BridgeMod makes before a call enters the backend; a stop and the
   fault policy come through without the one for `initialized'. *)
Callable(call) ==
  /\ game = NoCall /\ call.session \in session_active
  /\ initialized \/ call.op \in {"stop", "enable"}

(* A call has entered; its critical section follows in a later step. *)
Enter(call) ==
  /\ call.op \in Allowed
  /\ Callable(call)
  /\ game' = call
  /\ UNCHANGED <<registry, engine, delivery, line, batch, lua, host, update,
                 budget, stopping, history>>

CallOpen == \E x \in Sessions, c \in Components :
  Enter([op |-> "open", session |-> x, component |-> c])
CallTarget == \E x \in Sessions, t \in DOMAIN target, op \in {"bind", "enable", "close"} :
  Enter([op |-> op, session |-> x, target |-> t])
CallUnbind == \E x \in Sessions, s \in DOMAIN subscription :
  Enter([op |-> "unbind", session |-> x, subscription |-> s])
CallUnbindAll == \E x \in Sessions, op \in {"unbind_all", "unbind_keep", "stop"} :
  Enter([op |-> op, session |-> x])

Return == game' = NoCall

(* open_target: collects, looks the component up without the mutex, and only
   tests `initialized' when it has the mutex again. *)
OpenCollects ==
  /\ game.op = "open"
  /\ IF initialized THEN Collect /\ game' = [game EXCEPT !.op = "insert"]
     ELSE Return /\ UNCHANGED <<targets, subscriptions, active, bindings, natives, live_bindings>>
  /\ UNCHANGED <<target, has_bound, policy, subscription, alive, clones, clone_created,
                 delivery, line, batch, lua, host, update, budget, stopping, history>>

(* resolve_component finds a live component of the expected layout. *)
Resolves(c) == c \in alive

OpenInserts ==
  /\ game.op = "insert"
  /\ IF initialized /\ Resolves(game.component) /\ Len(target) < MaxTargets
     THEN /\ target' = Append(target, [session |-> game.session, component |-> game.component])
          /\ targets' = targets \cup {Len(target) + 1}
     ELSE UNCHANGED <<target, targets>>
  /\ Return
  /\ UNCHANGED <<has_bound, policy, subscription, subscriptions, active, bindings, engine,
                 delivery, line, batch, lua, host, update, budget, stopping, history>>

EnableFaults_AnyTime ==
  /\ game.op = "enable"
  /\ policy' = IF /\ initialized /\ game.target \in targets
                  /\ target[game.target].session = game.session
                  /\ game.session \notin inactive_sessions
               THEN policy \cup {game.target} ELSE policy
  /\ Return
  /\ UNCHANGED <<target, targets, has_bound, subscription, subscriptions, active, bindings,
                 engine, delivery, line, batch, lua, host, update, budget, stopping, history>>

(* enable_delivery_faults: once per target and before its first binding. *)
EnableFaults ==
  /\ game.op = "enable"
  /\ policy' = IF /\ initialized /\ game.target \in targets
                  /\ target[game.target].session = game.session
                  /\ game.session \notin inactive_sessions
                  /\ game.target \notin has_bound
               THEN policy \cup {game.target} ELSE policy
  /\ Return
  /\ UNCHANGED <<target, targets, has_bound, subscription, subscriptions, active, bindings,
                 engine, delivery, line, batch, lua, host, update, budget, stopping, history>>

Bindable_StaleTarget(x, t) ==
  /\ t \in targets
  /\ target[t].session = x
  /\ fault[t] = "None"
  /\ target[t].component \in alive

(* The target is the caller's, still registered once stale ones are collected,
   with a valid delivery and a live component. *)
Bindable(x, t) ==
  /\ t \in targets \ StaleTargets
  /\ target[t].session = x
  /\ fault[t] = "None"
  /\ target[t].component \in alive

(* attach puts a new native binding at the end of the component's array. *)
Attached(arrays, c, s) == [arrays EXCEPT ![c] = @ \cup {s}]

(* subscribe succeeds: attached, recorded, published under one lock. *)
BindSucceeds ==
  /\ game.op = "bind" /\ initialized
  /\ Bindable(game.session, game.target)
  /\ Len(subscription) < MaxSubscriptions
  /\ LET s == Len(subscription) + 1
     IN /\ subscription' = Append(subscription,
             [target |-> game.target, delivery |-> game.target \in policy])
        /\ subscriptions' = (subscriptions \ Inactive) \cup {s}
        /\ active' = (active \ Inactive) \cup {s}
        /\ bindings' = (bindings \ Inactive) \cup {s}
        /\ natives' = Attached(Without(Inactive), target[game.target].component, s)
        /\ live_bindings' = live_bindings - Cardinality(Found(Inactive)) + 1
  /\ targets' = targets \ StaleTargets
  /\ has_bound' = has_bound \cup {game.target}
  /\ Return
  /\ UNCHANGED <<target, policy, alive, clones, clone_created, delivery, line, batch, lua,
                 host, update, budget, stopping, history>>

(* subscribe fails for its target, or for the action or an allocation it
   needs: what it collected stays collected. *)
BindFails ==
  /\ game.op = "bind"
  /\ IF initialized THEN Collect
     ELSE UNCHANGED <<targets, subscriptions, active, bindings, natives, live_bindings>>
  /\ Return
  /\ UNCHANGED <<target, has_bound, policy, subscription, alive, clones, clone_created,
                 delivery, line, batch, lua, host, update, budget, stopping, history>>

CloseTarget ==
  /\ game.op = "close"
  /\ LET owned == /\ game.target \in targets \ StaleTargets
                  /\ target[game.target].session = game.session
         mine == { s \in subscriptions : TargetOf(s) = game.target /\ SessionOf(s) = game.session }
     IN IF initialized
        THEN IF owned THEN Remove(mine, {game.target}) ELSE Collect
        ELSE UNCHANGED <<targets, subscriptions, active, bindings, natives, live_bindings>>
  /\ Return
  /\ UNCHANGED <<target, has_bound, policy, subscription, alive, clones, clone_created,
                 delivery, line, batch, lua, host, update, budget, stopping, history>>

Unbind_AnySession ==
  /\ game.op = "unbind"
  /\ Remove({ s \in subscriptions : s = game.subscription }, {})
  /\ Return
  /\ UNCHANGED <<target, has_bound, policy, subscription, alive, clones, clone_created,
                 delivery, line, batch, lua, host, update, budget, stopping, history>>

(* unsubscribe and unsubscribe_all do not test `initialized' again. *)
Unbind ==
  /\ game.op = "unbind"
  /\ Remove({ s \in subscriptions : s = game.subscription /\ SessionOf(s) = game.session }, {})
  /\ Return
  /\ UNCHANGED <<target, has_bound, policy, subscription, alive, clones, clone_created,
                 delivery, line, batch, lua, host, update, budget, stopping, history>>

(* UnbindAll, UnbindAllPreserveTargets, and the native half of on_lua_stop on
   the game thread, which marks the session inactive only afterwards. *)
UnbindAll ==
  /\ game.op \in {"unbind_all", "unbind_keep", "stop"}
  /\ Remove({ s \in subscriptions : SessionOf(s) = game.session },
            { t \in targets : target[t].session = game.session /\ game.op # "unbind_keep" })
  /\ IF game.op = "stop" THEN game' = [game EXCEPT !.op = "stopped"] ELSE Return
  /\ UNCHANGED <<target, has_bound, policy, subscription, alive, clones, clone_created,
                 delivery, line, batch, lua, host, update, budget, stopping, history>>

StopOnGameThread ==
  /\ game.op = "stopped"
  /\ session_active' = session_active \ {game.session}
  /\ Return
  /\ UNCHANGED <<registry, engine, delivery, line, batch, inactive_sessions, host, update,
                 budget, stopping, history>>

Registration == OpenCollects \/ OpenInserts \/ EnableFaults \/ BindSucceeds \/ BindFails
                \/ CloseTarget \/ Unbind \/ UnbindAll \/ StopOnGameThread

-----------------------------------------------------------------------------
(* Unreal, on the game thread.                                             *)

(* A native binding, original or clone, exists for the subscription. *)
HasNative(s) == clones[s] > 0 \/ \E c \in Components : s \in natives[c]

(* NativeBinding::Execute up to its mutex: a sequence number, then the
   unlocked tests. *)
Execute ==
  /\ game = NoCall /\ next_event_sequence <= MaxEvents
  /\ \E s \in DOMAIN subscription :
       /\ HasNative(s)
       /\ game' = IF Live(s) /\ accepting
                  THEN [op |-> "execute", subscription |-> s, sequence |-> next_event_sequence]
                  ELSE NoCall
  /\ next_event_sequence' = next_event_sequence + 1
  /\ UNCHANGED <<registry, engine, delivery, events, events_ready, capacity, warnings, batch,
                 lua, host, update, budget, stopping, history>>

ExecuteLocked_NoSecondLook ==
  /\ game.op = "execute"
  /\ LET s == game.subscription IN
       \/ /\ Queue!Push([owner |-> s, sequence |-> game.sequence])
          /\ UNCHANGED delivery
       \/ /\ \E traceRoom \in BOOLEAN : Queue!Refuse(traceRoom)
          /\ Latch(s, "QueueCapacity")
          /\ UNCHANGED notified
  /\ Return
  /\ UNCHANGED <<registry, engine, next_event_sequence, batch, lua, host, update, budget,
                 stopping, history>>

(* The same tests again under the queue mutex, and the event is queued, refused
   with the target's fault latched, or declined. *)
ExecuteLocked ==
  /\ game.op = "execute"
  /\ LET s == game.subscription IN
       IF Live(s) /\ accepting
       THEN \/ /\ Queue!Push([owner |-> s, sequence |-> game.sequence])
               /\ UNCHANGED delivery
            \/ /\ \E traceRoom \in BOOLEAN : Queue!Refuse(traceRoom)
               /\ Latch(s, "QueueCapacity")
               /\ UNCHANGED notified
       ELSE UNCHANGED <<events, events_ready, capacity, warnings, delivery>>
  /\ Return
  /\ UNCHANGED <<registry, engine, next_event_sequence, batch, lua, host, update, budget,
                 stopping, history>>

(* An allocation throws under the mutex; when it was the warning's, the
   capacity fault is latched already. *)
ExecuteThrows ==
  /\ "throw" \in Allowed
  /\ game.op = "execute"
  /\ Live(game.subscription) /\ accepting
  /\ \/ Queue!Readmit /\ UNCHANGED <<fault, faults_pending>>
     \/ Queue!Refuse(FALSE) /\ Latch(game.subscription, "QueueCapacity")
  /\ game' = [op |-> "catch", subscription |-> game.subscription]
  /\ UNCHANGED <<registry, engine, notified, next_event_sequence, batch, lua, host, update,
                 budget, stopping, history>>

ExecuteCatches ==
  /\ game.op = "catch"
  /\ Latch(game.subscription, "QueueException")
  /\ active' = active \ {game.subscription}
  /\ Return
  /\ UNCHANGED <<target, targets, has_bound, policy, subscription, subscriptions, bindings,
                 engine, notified, line, batch, lua, host, update, budget, stopping, history>>

Clone_Unannounced ==
  /\ "clone" \in Allowed
  /\ game = NoCall
  /\ \E s \in DOMAIN subscription :
       /\ HasNative(s) /\ clones[s] < MaxClones
       /\ clones' = [clones EXCEPT ![s] = @ + 1]
  /\ live_bindings' = live_bindings + 1
  /\ UNCHANGED <<registry, alive, natives, clone_created, delivery, line, batch, lua, control,
                 stopping, history>>

(* Clone announces itself before the copy exists. *)
Clone ==
  /\ "clone" \in Allowed
  /\ game = NoCall
  /\ \E s \in DOMAIN subscription :
       /\ HasNative(s) /\ clones[s] < MaxClones
       /\ clones' = [clones EXCEPT ![s] = @ + 1]
  /\ clone_created' = TRUE
  /\ live_bindings' = live_bindings + 1
  /\ UNCHANGED <<registry, alive, natives, delivery, line, batch, lua, control, stopping, history>>

(* A destructor counts its object out while its code is still running. *)
DestroyClone ==
  /\ game = NoCall
  /\ \E s \in DOMAIN subscription :
       clones[s] > 0 /\ clones' = [clones EXCEPT ![s] = @ - 1]
  /\ live_bindings' = live_bindings - 1
  /\ game' = [op |-> "destroying"]
  /\ UNCHANGED <<registry, alive, natives, clone_created, delivery, line, batch, lua, host,
                 update, budget, stopping, history>>

(* Unreal destroys a component, its array and the bindings in it; the backend
   is not told. *)
DestroyComponent ==
  /\ "destroy" \in Allowed
  /\ game = NoCall
  /\ \E c \in alive :
       /\ alive' = alive \ {c}
       /\ natives' = [natives EXCEPT ![c] = {}]
       /\ live_bindings' = live_bindings - Cardinality(natives[c])
       /\ game' = IF natives[c] = {} THEN game ELSE [op |-> "destroying"]
  /\ UNCHANGED <<registry, clones, clone_created, delivery, line, batch, lua, host, update,
                 budget, stopping, history>>

DestructorReturns ==
  /\ game.op = "destroying"
  /\ Return
  /\ UNCHANGED <<registry, engine, delivery, line, batch, lua, host, update, budget, stopping,
                 history>>

Unreal == Execute \/ ExecuteLocked \/ ExecuteThrows \/ ExecuteCatches \/ Clone \/ DestroyClone
          \/ DestroyComponent \/ DestructorReturns

-----------------------------------------------------------------------------
(* The host: sessions stopped off the game thread, and shutdown.           *)

(* on_lua_stop off the game thread: inactive first, then deactivate_all, which
   marks and deactivates under one mutex and erases events under the other. *)
StopOffGameThread ==
  /\ "stop_off_thread" \in Allowed
  /\ host = NoCall
  /\ \E x \in session_active :
       /\ ~(game.op \in {"stop", "stopped"} /\ game.session = x)
       /\ session_active' = session_active \ {x}
       /\ host' = [op |-> "deactivate", session |-> x]
  /\ UNCHANGED <<registry, engine, delivery, line, batch, inactive_sessions, game, update,
                 budget, stopping, history>>

DeactivateAll ==
  /\ host.op = "deactivate"
  /\ inactive_sessions' = inactive_sessions \cup {host.session}
  /\ active' = active \ { s \in subscriptions : SessionOf(s) = host.session }
  /\ host' = [host EXCEPT !.op = "erase"]
  /\ UNCHANGED <<target, targets, has_bound, policy, subscription, subscriptions, bindings,
                 engine, delivery, line, batch, session_active, game, update, budget, stopping,
                 history>>

EraseAll ==
  /\ host.op = "erase"
  /\ Queue!Erase({ s \in DOMAIN subscription : SessionOf(s) = host.session })
  /\ host' = NoCall
  /\ UNCHANGED <<registry, engine, delivery, next_event_sequence, capacity, warnings, batch,
                 lua, game, update, budget, stopping, history>>

(* shutdown, on the game thread or off it. *)
ShutdownBegins ==
  /\ "shutdown" \in Allowed
  /\ shutdown.at = "no" /\ host = NoCall
  /\ \E on_game \in BOOLEAN :
       /\ on_game => game = NoCall
       /\ shutdown' = [at |-> "begun", on_game |-> on_game, pin |-> FALSE]
       /\ game' = IF on_game THEN [op |-> "shutdown"] ELSE game
       /\ host' = IF on_game THEN host ELSE [op |-> "shutdown"]
  /\ initialized' = FALSE
  /\ accepting' = FALSE
  /\ UNCHANGED <<registry, engine, delivery, line, batch, lua, update, budget, history>>

(* Under the backend mutex.  Only the game thread may touch the native arrays;
   off it the objects stay where they are and the module must stay with them. *)
ShutdownForgets ==
  /\ shutdown.at = "begun"
  /\ shutdown' = [shutdown EXCEPT !.at = "forgotten",
       !.pin = ~shutdown.on_game /\ (bindings # {} \/ clone_created)]
  /\ IF shutdown.on_game
     THEN /\ natives' = Without(bindings)
          /\ live_bindings' = live_bindings - Cardinality(Found(bindings))
     ELSE UNCHANGED <<natives, live_bindings>>
  /\ subscriptions' = {} /\ active' = {} /\ bindings' = {} /\ targets' = {}
  /\ inactive_sessions' = {}
  /\ UNCHANGED <<target, has_bound, policy, subscription, alive, clones, clone_created,
                 delivery, line, batch, session_active, control, initialized, accepting,
                 history>>

(* Under the queue mutex. *)
ShutdownClearsQueue ==
  /\ shutdown.at = "forgotten"
  /\ Queue!Discard
  /\ shutdown' = [shutdown EXCEPT !.at = "cleared"]
  /\ UNCHANGED <<registry, engine, delivery, next_event_sequence, capacity, warnings, batch,
                 lua, control, initialized, accepting, history>>

(* The result: uninstall_implementation unloads the module or retains it. *)
ShutdownReturns ==
  /\ shutdown.at = "cleared"
  /\ shutdown' = [shutdown EXCEPT !.at =
       IF ~shutdown.pin /\ live_bindings = 0 THEN "unload" ELSE "retain"]
  /\ game' = IF shutdown.on_game THEN NoCall ELSE game
  /\ host' = IF shutdown.on_game THEN host ELSE NoCall
  /\ UNCHANGED <<registry, engine, delivery, line, batch, lua, update, budget, initialized,
                 accepting, history>>

Host == StopOffGameThread \/ DeactivateAll \/ EraseAll \/ ShutdownBegins \/ ShutdownForgets
        \/ ShutdownClearsQueue \/ ShutdownReturns

-----------------------------------------------------------------------------
(* on_update, on the event-loop thread.                                    *)

outside == <<registry, engine, line, lua, game, host, stopping>>

(* A due pass first flushes the delivery faults. *)
BeginUpdate ==
  /\ update.at = "idle"
  /\ update' = [update EXCEPT !.at = "begin", !.flush = "peek"]
  /\ UNCHANGED <<outside, delivery, batch, budget, history>>

(* The count of calls that a stop of their session has overtaken. *)
Overtaken(x) == IF x \in session_active THEN late ELSE [late EXCEPT ![x] = @ + 1]

(* take_delivery_fault clears the flag before it scans, never afterwards. *)
FlushPeeks ==
  /\ update.flush = "peek"
  /\ faults_pending' = FALSE
  /\ update' = [update EXCEPT !.flush = IF faults_pending THEN "scan" ELSE "no"]
  /\ UNCHANGED <<outside, fault, notified, batch, budget, history>>

(* Faulted targets nobody has been told about. *)
Unreported == { t \in targets \cap policy :
  /\ initialized
  /\ t \notin notified /\ fault[t] # "None"
  /\ target[t].session \notin inactive_sessions }

FlushTakes_NotNoted ==
  /\ update.flush = "scan"
  /\ \E t \in Unreported : update' = [update EXCEPT !.flush = "check", !.target = t]
  /\ faults_pending' = TRUE
  /\ UNCHANGED <<outside, fault, notified, batch, budget, history>>

FlushTakes_FlagStaysDown ==
  /\ update.flush = "scan"
  /\ \E t \in Unreported :
       /\ notified' = notified \cup {t}
       /\ update' = [update EXCEPT !.flush = "check", !.target = t]
  /\ UNCHANGED <<outside, fault, faults_pending, batch, budget, history>>

(* One of them is taken, and the flag raised again for the next look. *)
FlushTakes ==
  /\ update.flush = "scan"
  /\ \E t \in Unreported :
       /\ notified' = notified \cup {t}
       /\ update' = [update EXCEPT !.flush = "check", !.target = t]
  /\ faults_pending' = TRUE
  /\ UNCHANGED <<outside, fault, batch, budget, history>>

(* Is its session still active?  If not, nobody is told. *)
FlushChecks ==
  /\ update.flush = "check"
  /\ update' = IF target[update.target].session \in session_active
               THEN [update EXCEPT !.flush = "tell"]
               ELSE [update EXCEPT !.flush = "peek", !.target = 0]
  /\ UNCHANGED <<outside, delivery, batch, budget, history>>

(* The Lua dispatcher is called with the fault; what it throws is dropped. *)
FlushReports ==
  /\ update.flush = "tell"
  /\ reports' = [reports EXCEPT ![update.target] = @ + 1]
  /\ late' = Overtaken(target[update.target].session)
  /\ update' = [update EXCEPT !.flush = "peek", !.target = 0]
  /\ UNCHANGED <<outside, delivery, batch, budget, thrown, purged>>

(* There is none: the flush ends. *)
FlushEnds ==
  /\ update.flush = "scan" /\ Unreported = {}
  /\ update' = [update EXCEPT !.flush = "no"]
  /\ UNCHANGED <<outside, delivery, batch, budget, history>>

At(step) == update.at = step /\ update.flush = "no"
Go(step) == update' = [update EXCEPT !.at = step]

BeginPass_AlwaysLoads ==
  /\ At("begin")
  /\ budget' = NoBudget
  /\ Go("check")
  /\ UNCHANGED <<outside, delivery, batch, history>>

BeginPass ==
  /\ At("begin")
  /\ budget' = NoBudget
  /\ Go(IF pending = <<>> THEN "check" ELSE "run")
  /\ UNCHANGED <<outside, delivery, batch, history>>

CheckReady ==
  /\ At("check")
  /\ Go(IF events_ready THEN "take" ELSE "run")
  /\ UNCHANGED <<outside, delivery, batch, budget, history>>

TakeEvents ==
  /\ At("take")
  /\ Queue!Drain
  /\ Go("run")
  /\ UNCHANGED <<registry, engine, delivery, next_event_sequence, capacity, warnings,
                 last_examined, lua, game, host, budget, stopping, history>>

PopEvent ==
  /\ At("run") /\ Queue!Permits(budget)
  /\ Queue!Pop
  /\ update' = [update EXCEPT !.at = "publish", !.event = Head(pending)]
  /\ budget' = [budget EXCEPT !.progressed = TRUE]
  /\ UNCHANGED <<outside, delivery, remaining, history>>

(* consume begins: the count is published, then the faults flushed again. *)
PublishCount ==
  /\ At("publish")
  /\ remaining' = Len(pending)
  /\ update' = [update EXCEPT !.at = "consume", !.flush = "peek"]
  /\ UNCHANGED <<outside, delivery, pending, last_examined, budget, history>>

Counted == budget' = [budget EXCEPT !.processed = @ + 1]
NextEvent == update' = [update EXCEPT !.at = "run", !.event = NoCall]

Callback_AnySession(s) == Live(s)

(* The entry's owner is inactive, its target faulted or its session inactive. *)
Callback(s) == Live(s) /\ SessionOf(s) \in session_active

SkipEvent ==
  /\ At("consume") /\ ~Callback(update.event.owner)
  /\ NextEvent
  /\ UNCHANGED <<outside, delivery, batch, budget, history>>

(* The tests have passed; the call into Lua is a later step. *)
CheckEvent ==
  /\ At("consume") /\ Callback(update.event.owner)
  /\ Go("call")
  /\ UNCHANGED <<outside, delivery, batch, budget, history>>

(* The Lua callback runs, and returns or throws. *)
CallLua ==
  /\ At("call")
  /\ LET s == update.event.owner
         x == SessionOf(s)
     IN /\ late' = Overtaken(x)
        /\ \/ NextEvent /\ Counted /\ UNCHANGED thrown
           \/ Go("latch") /\ thrown' = thrown \cup {s} /\ UNCHANGED budget
  /\ UNCHANGED <<outside, delivery, batch, reports, purged>>

LatchError_OnlyDeactivates ==
  /\ At("latch")
  /\ Go("deactivate")
  /\ UNCHANGED <<outside, delivery, batch, budget, history>>

(* A failed callback: its target's fault is latched, then deactivate() works
   under the two mutexes in turn, then the faults are flushed. *)
LatchError ==
  /\ At("latch")
  /\ Latch(update.event.owner, "CallbackError")
  /\ Go("deactivate")
  /\ UNCHANGED <<outside, notified, batch, budget, history>>

Deactivate ==
  /\ At("deactivate")
  /\ IF update.event.owner \in subscriptions
     THEN active' = active \ {update.event.owner} /\ Go("erase")
     ELSE update' = [update EXCEPT !.at = "return", !.flush = "peek"] /\ UNCHANGED active
  /\ UNCHANGED <<target, targets, has_bound, policy, subscription, subscriptions, bindings,
                 engine, delivery, line, batch, lua, game, host, budget, stopping, history>>

EraseEvents ==
  /\ At("erase")
  /\ Queue!Erase({update.event.owner})
  /\ purged' = purged \cup {update.event.owner}
  /\ update' = [update EXCEPT !.at = "return", !.flush = "peek"]
  /\ UNCHANGED <<registry, engine, delivery, next_event_sequence, capacity, warnings, batch,
                 lua, game, host, budget, stopping, reports, thrown, late>>

(* A failed attempt counts too. *)
ReturnFailed ==
  /\ At("return")
  /\ NextEvent /\ Counted
  /\ UNCHANGED <<outside, delivery, batch, history>>

EndPass ==
  /\ At("run")
  /\ pending = <<>> \/ ~Queue!Permits(budget)
  /\ Go("idle")
  /\ budget' = NoBudget
  /\ UNCHANGED <<outside, delivery, batch, history>>

(* The clock is only read where the pass asks whether to go on. *)
TimeExpires ==
  /\ "expire" \in Allowed
  /\ At("run") /\ ~budget.expired
  /\ budget' = [budget EXCEPT !.expired = TRUE]
  /\ UNCHANGED <<outside, delivery, batch, update, history>>

Flush == FlushPeeks \/ FlushTakes \/ FlushChecks \/ FlushReports \/ FlushEnds

Update ==
  \/ BeginUpdate \/ Flush
  \/ BeginPass \/ CheckReady \/ TakeEvents \/ PopEvent \/ PublishCount
  \/ SkipEvent \/ CheckEvent \/ CallLua
  \/ LatchError \/ Deactivate \/ EraseEvents \/ ReturnFailed
  \/ EndPass

Next ==
  \/ CallOpen \/ CallTarget \/ CallUnbind \/ CallUnbindAll
  \/ Registration
  \/ Unreal
  \/ Host
  \/ Update \/ TimeExpires

Spec == Init /\ [][Next]_vars

(* on_update is called again and again and every pass returns. *)
FairSpec == Spec /\ WF_vars(Update)

-----------------------------------------------------------------------------
Calls ==
  {NoCall, [op |-> "shutdown"], [op |-> "destroying"]}
  \cup [op : {"open", "insert"}, session : Sessions, component : Components]
  \cup [op : {"bind", "enable", "close"}, session : Sessions, target : TargetIds]
  \cup [op : {"unbind"}, session : Sessions, subscription : SubscriptionIds]
  \cup [op : {"unbind_all", "unbind_keep", "stop", "stopped"}, session : Sessions]
  \cup [op : {"execute"}, subscription : SubscriptionIds, sequence : 1..MaxEvents]
  \cup [op : {"catch"}, subscription : SubscriptionIds]

RegistryOK ==
  /\ target \in Seq([session : Sessions, component : Components])
  /\ Len(target) <= MaxTargets
  /\ targets \subseteq DOMAIN target
  /\ has_bound \subseteq DOMAIN target /\ policy \subseteq DOMAIN target
  /\ subscription \in Seq([target : TargetIds, delivery : BOOLEAN])
  /\ Len(subscription) <= MaxSubscriptions
  /\ subscriptions \subseteq DOMAIN subscription
  /\ active \subseteq subscriptions /\ bindings \subseteq subscriptions

EngineOK ==
  /\ alive \subseteq Components
  /\ natives \in [Components -> SUBSET SubscriptionIds]
  /\ clones \in [SubscriptionIds -> 0..MaxClones]
  /\ clone_created \in BOOLEAN

DeliveryOK ==
  /\ fault \in [TargetIds -> Reasons \cup {"None"}]
  /\ notified \subseteq policy /\ faults_pending \in BOOLEAN
  /\ inactive_sessions \subseteq Sessions /\ session_active \subseteq Sessions

LineOK ==
  /\ next_event_sequence \in 1..MaxEvents + 1
  /\ events \in Seq(Event) /\ pending \in Seq(Event)

ThreadsOK ==
  /\ game \in Calls
  /\ host \in {NoCall, [op |-> "shutdown"]} \cup [op : {"deactivate", "erase"}, session : Sessions]
  /\ update \in [at : {"idle", "begin", "check", "take", "run", "publish", "consume", "call",
                       "latch", "deactivate", "erase", "return"},
                 flush : {"no", "peek", "scan", "check", "tell"},
                 target : TargetIds \cup {0}, event : Event \cup {NoCall}]
  /\ budget \in [processed : Nat, progressed : BOOLEAN, expired : BOOLEAN]
  /\ shutdown \in [at : {"no", "begun", "forgotten", "cleared", "unload", "retain"},
                   on_game : BOOLEAN, pin : BOOLEAN]
  /\ initialized \in BOOLEAN /\ accepting \in BOOLEAN

HistoryOK ==
  /\ reports \in [TargetIds -> Nat] /\ late \in [Sessions -> Nat]
  /\ thrown \subseteq DOMAIN subscription /\ purged \subseteq DOMAIN subscription

(* The rest of the queue's variables has DispatchQueue's types, and
   live_bindings is what LiveBindingsExact says. *)
TypeOK == RegistryOK /\ EngineOK /\ DeliveryOK /\ LineOK /\ ThreadsOK /\ HistoryOK

(* live_bindings counts the native objects there are, clones included. *)
LiveBindingsExact ==
  live_bindings =
    Cardinality({ s \in SubscriptionIds : \E c \in Components : s \in natives[c] })
    + Cardinality({ x \in SubscriptionIds \X (1..MaxClones) : x[2] <= clones[x[1]] })

(* Until shutdown has run, the engine's arrays hold exactly the originals that
   bindings_ tracks and whose component lives: none leaks, none dangles.  Each
   tracked one belongs to a registered subscription of a registered target.  The
   count of live objects is exact before and after. *)
OwnershipExact ==
  /\ TypeOK /\ LiveBindingsExact
  /\ shutdown.at \in {"no", "begun"} =>
       /\ bindings = subscriptions
       /\ \A c \in Components :
            natives[c] = IF c \in alive THEN { s \in bindings : ComponentOf(s) = c } ELSE {}
       /\ \A s \in subscriptions : TargetOf(s) \in targets

(* The module is unloaded only when Unreal holds no object with its code and
   the game thread is not inside one. *)
UnloadSafe ==
  shutdown.at = "unload" =>
    /\ \A s \in DOMAIN subscription : ~HasNative(s)
    /\ game.op \notin {"execute", "catch", "destroying"}

(* A session that deactivate_all has marked has no active subscription and
   gets none, although open_target may still hand it a target. *)
StoppedSessionUnbound ==
  \A s \in active : SessionOf(s) \notin inactive_sessions

(* Calls that end bindings; the session is the caller. *)
CalledBy(x) ==
  /\ game.op \in {"unbind", "close", "unbind_all", "unbind_keep", "stop"}
  /\ game.session = x

EndsItsOwn ==
  /\ \A s \in active \ active' :
       \/ CalledBy(SessionOf(s)) \/ SessionOf(s) \in inactive_sessions'
       \/ game.op = "catch" /\ game.subscription = s
       \/ s \in thrown
  /\ \A t \in targets \ targets' :
       CalledBy(target[t].session) \/ target[t].session \in inactive_sessions

(* Handles are plain numbers that any session may pass in.  A call ends only
   its own session's bindings and targets; otherwise they end because the
   session was stopped, its own callback or event failed, or by shutdown. *)
SessionsIsolated == [][EndsItsOwn \/ shutdown.at # shutdown'.at]_vars

(* A delivery policy is chosen before the first binding and for good, so a
   target and its subscriptions agree on it, and legacy targets never fault. *)
PolicyPrecedesBinding ==
  /\ \A s \in subscriptions : subscription[s].delivery <=> TargetOf(s) \in policy
  /\ \A t \in TargetIds : fault[t] # "None" => t \in policy

(* What has been purged from the producer queue does not come back: events of
   a failed subscription, of a stopped session, or after shutdown. *)
PurgedStaysPurged ==
  \A i \in DOMAIN events :
    LET s == events[i].owner IN
    /\ s \notin purged
    /\ SessionOf(s) \in inactive_sessions =>
         host.op = "erase" /\ host.session = SessionOf(s)
    /\ shutdown.at \notin {"cleared", "unload", "retain"}

(* The callback that returns or throws in a step. *)
CalledBack(s) == At("call") /\ update.event.owner = s /\ update'.at # "call"

(* A failed callback is the last of its subscription, and of every other one
   of its target if the target opted in. *)
ErrorIsFinal ==
  [][\A s \in SubscriptionIds : CalledBack(s) =>
       /\ s \notin thrown
       /\ \A r \in thrown :
            ~(subscription[r].delivery /\ TargetOf(r) = TargetOf(s))]_vars

(* Nobody hears of the same fault twice, and nobody hears of none. *)
ReportedOnce ==
  \A t \in TargetIds : reports[t] <= 1 /\ (reports[t] = 1 => fault[t] # "None")

(* The tests before a callback and the callback are not one step, so a stop on
   another thread can be overtaken; by one call, never by a second. *)
AtMostOneLateCall == \A x \in Sessions : late[x] <= 1

(* No fault is missed: the session hears of it, unless the target is closed,
   the session stops or the backend shuts down before. *)
FaultIsReported ==
  \A t \in TargetIds :
    (fault[t] # "None" /\ t \in targets)
      ~> (reports[t] = 1 \/ t \notin targets \/ ~initialized
          \/ target[t].session \notin session_active)

(* The backend uses its queue as DispatchQueue says. *)
ImplementsQueue == Queue!Spec
=============================================================================
