---------------------------- MODULE HelperScopes ----------------------------
(***************************************************************************)
(* The Lua helper API of bridge_api.lua: input scopes that own generated   *)
(* mapping contexts, the pool of rooted contexts, and the native handles   *)
(* and Lua callbacks of their bindings.  A method of a scope makes several *)
(* native and reflected calls; any of them may fail and what is left has   *)
(* to stay owned.  on_lua_stop ends the session on either thread.          *)
(*                                                                         *)
(* Lua calls of one session do not overlap, so a method is one step.  The  *)
(* event loop's test of a subscription and its call of the dispatcher are  *)
(* two, and any method may come in between.  Keys, triggers, options and   *)
(* error texts are left out.  Name_Mistake is Name with a mistake in it.   *)
(***************************************************************************)
EXTENDS Naturals, Sequences, FiniteSets

CONSTANTS
  Subsystems,   \* Enhanced Input subsystems of the game
  Services,     \* how a session may find the native lifetimes: ready, absent
  Observers,    \* the phases a debug scope observes besides "Triggered"
  MaxScopes,    \* bound: calls of OpenInput
  MaxBindings,  \* bound: calls of Bind
  MaxFailures   \* bound: methods and incidents in which calls fail

ASSUME HelperAssumption ==
  /\ "Triggered" \notin Observers
  /\ Services \subseteq {"ready", "absent"}
  /\ MaxScopes \in Nat /\ MaxBindings \in Nat /\ MaxFailures \in Nat

VARIABLES
  session,      \* LuaSession: running, stopping (on the game thread) or over
  lifetimes,    \* what weak handles can rely on
  alive,        \* the subsystems Unreal has not destroyed
  scope,        \* __scopeStates by scope id; `weak' says how it holds its
                \* subsystem
  record,       \* the records by binding id; `where' is the table of its
                \* scope that lists it, `phases' stand for native_handles
  pool,         \* __contextPool
  rooted,       \* contexts constructed with __rootedFlags: 1..rooted
  dead,         \* contexts that are no longer valid objects
  applied,      \* the contexts each subsystem has: pairs <<subsystem, context>>
  targets,      \* scopes whose component target the backend has
  subscribed,   \* <<binding, phase>>: handles of active native subscriptions
  callbacks,    \* handles in the Lua tables __bindings and __callbacks
  calling,      \* the delivery the event loop is in
  failures,     \* how many methods and incidents had failing calls
  late          \* history: a callback was heard that should have been over

engine == <<alive, dead, applied>>
owned == <<scope, record, pool, rooted>>
native == <<targets, subscribed>>
vars == <<session, lifetimes, engine, owned, native, callbacks, calling, failures, late>>

Idle == [at |-> "idle"]
None == 0
Handle == (1..MaxBindings) \X ({"Triggered"} \cup Observers)

Init ==
  /\ session = "running" /\ lifetimes \in Services
  /\ alive = Subsystems
  /\ scope = <<>> /\ record = <<>>
  /\ pool = {} /\ rooted = 0 /\ dead = {} /\ applied = {}
  /\ targets = {} /\ subscribed = {} /\ callbacks = {}
  /\ calling = Idle
  /\ failures = 0
  /\ late = FALSE

-----------------------------------------------------------------------------
Open == { s \in DOMAIN scope : ~scope[s].closed }
Fail == failures < MaxFailures /\ failures' = failures + 1
FailIf(p) == IF p THEN Fail ELSE UNCHANGED failures

(* __held: a weak handle needs the native lifetimes to answer. *)
Held(s) == scope[s].subsystem \in alive /\ (scope[s].weak => lifetimes = "ready")

Phases(s) == {"Triggered"} \cup IF scope[s].debug THEN Observers ELSE {}
Listed(b) == record[b].where # "dropped"
RecordsOf(S) == { b \in DOMAIN record : Listed(b) /\ record[b].scope \in S }
HandlesOf(S) == { h \in Handle : h[1] \in DOMAIN record /\ record[h[1]].scope \in S }
InUse == { b \in DOMAIN record : record[b].context # None }
Application(b) == <<scope[record[b].scope].subsystem, record[b].context>>

(* __removeRecord, first half: Unbind answers true for the handles the backend
   still has; of the others only a failed callback's may be written off. *)
KeptPhases(b) ==
  { p \in record[b].phases :
      <<b, p>> \notin subscribed /\ ~(p = "Triggered" /\ record[b].failed) }
Unbound(R) == { h \in subscribed : h[1] \in R /\ h[2] \in record[h[1]].phases }

(* __removeContext asks the subsystem only if the context was added and the
   subsystem is still held; `stuck' are the records for which that throws. *)
Withdraws(b) == record[b].context # None /\ record[b].added /\ Held(record[b].scope)
Gone(b, stuck) == KeptPhases(b) = {} /\ b \notin stuck

NewRecord(s, c, where, phases) ==
  [scope |-> s, where |-> where, context |-> c, added |-> c # None, phases |-> phases,
   failed |-> FALSE]
Nothing(s) == NewRecord(s, None, "dropped", {})

(* What is left of a record whose removal was tried. *)
RemovedRecord(b, stuck) ==
  IF Gone(b, stuck) THEN Nothing(record[b].scope)
  ELSE [record[b] EXCEPT !.phases = KeptPhases(b), !.added = @ /\ b \in stuck,
                         !.context = IF b \in stuck THEN @ ELSE None]

RemovedRecords(R, stuck) ==
  [b \in DOMAIN record |-> IF b \in R THEN RemovedRecord(b, stuck) ELSE record[b]]

(* __recycleContext empties the context and pools it, unless it is no valid
   object any more or emptying it throws (`spoiled'). *)
Recycled(R, spoiled) ==
  { record[b].context : b \in (R \cap InUse) \ spoiled } \ dead
Withdrawn(R) == { Application(b) : b \in { r \in R : Withdraws(r) } }

(* Which of the reflected calls of a removal of R fail. *)
Mishaps(R) ==
  { m \in [stuck : SUBSET { b \in R : Withdraws(b) },
           spoiled : SUBSET { b \in R \cap InUse : record[b].context \notin dead }] :
      m.stuck \cap m.spoiled = {} }

RemoveContexts(R, m) ==
  /\ applied' = applied \ Withdrawn(R \ m.stuck)
  /\ pool' = pool \cup Recycled(R \ m.stuck, m.spoiled)
  /\ FailIf(m.stuck \cup m.spoiled # {})

-----------------------------------------------------------------------------
(* Scopes on the game thread.                                              *)

(* Helpers.OpenInput; one that fails closes the target again.  __keep falls
   back to the plain object if the subsystem's lifetime cannot be captured. *)
OpenInput ==
  /\ session = "running" /\ Len(scope) < MaxScopes
  /\ \E u \in alive, debug, weak \in BOOLEAN :
       /\ weak => lifetimes = "ready"
       /\ FailIf(lifetimes = "ready" /\ ~weak)
       /\ scope' = Append(scope, [subsystem |-> u, weak |-> weak, debug |-> debug,
                                  closed |-> FALSE])
  /\ targets' = targets \cup {Len(scope) + 1}
  /\ UNCHANGED <<session, lifetimes, engine, record, pool, rooted, subscribed, callbacks,
                 calling, late>>

(* Bind takes a pooled context, or constructs one if there is none or the one
   taken is dead.  A new one gets the next number. *)
Fresh(p) == [context |-> rooted + 1, pool |-> p, rooted |-> rooted + 1]
Fetched ==
  IF pool = {} THEN { Fresh({}) }
  ELSE { IF c \in dead THEN Fresh(pool \ {c})
         ELSE [context |-> c, pool |-> pool \ {c}, rooted |-> rooted] : c \in pool }

Bindable(s) ==
  /\ session = "running" /\ s \in Open /\ Held(s)
  /\ Len(record) < MaxBindings

BindSucceeds == \E s \in Open, f \in Fetched :
  /\ Bindable(s)
  /\ LET handles == { <<Len(record) + 1, p>> : p \in Phases(s) }
     IN subscribed' = subscribed \cup handles /\ callbacks' = callbacks \cup handles
  /\ record' = Append(record, NewRecord(s, f.context, "bindings", Phases(s)))
  /\ pool' = f.pool /\ rooted' = f.rooted
  /\ applied' = applied \cup {<<scope[s].subsystem, f.context>>}
  /\ UNCHANGED <<session, lifetimes, alive, dead, scope, targets, calling, failures, late>>

(* The action or the trigger is not constructed, or the action's weak identity
   not initialized: Bind returns and the context is nobody's.  A new context
   may not be constructed either. *)
BindAbandons == \E s \in Open, f \in Fetched :
  /\ Bindable(s) /\ Fail
  /\ record' = Append(record, Nothing(s))
  /\ pool' = f.pool /\ rooted' \in {rooted, f.rooted}
  /\ UNCHANGED <<session, lifetimes, engine, scope, native, callbacks, calling, late>>

BindUndone_KeepsHandle == \E s \in Open, f \in Fetched, spoiled \in BOOLEAN :
  /\ Bindable(s) /\ Fail
  /\ record' = Append(record, Nothing(s))
  /\ subscribed' = subscribed \cup {<<Len(record) + 1, "Triggered">>}
  /\ callbacks' = callbacks \cup {<<Len(record) + 1, "Triggered">>}
  /\ pool' = IF spoiled THEN f.pool ELSE f.pool \cup {f.context}
  /\ rooted' = f.rooted
  /\ UNCHANGED <<session, lifetimes, engine, scope, targets, calling, late>>

(* A later call fails before the context is added: configuring, the path, the
   subscription or an observer.  What has been subscribed is unbound again and
   the context recycled. *)
BindUndone == \E s \in Open, f \in Fetched, spoiled \in BOOLEAN :
  /\ Bindable(s) /\ Fail
  /\ record' = Append(record, Nothing(s))
  /\ pool' = IF spoiled THEN f.pool ELSE f.pool \cup {f.context}
  /\ rooted' = f.rooted
  /\ UNCHANGED <<session, lifetimes, engine, scope, native, callbacks, calling, late>>

BindNotAdded_AddedLast == \E s \in Open, f \in Fetched, reached, spoiled \in BOOLEAN :
  LET pair == <<scope[s].subsystem, f.context>>
  IN /\ Bindable(s)
     /\ Fail
     /\ record' = Append(record, Nothing(s))
     /\ pool' = IF spoiled THEN f.pool ELSE f.pool \cup {f.context}
     /\ applied' = IF reached THEN applied \cup {pair} ELSE applied
     /\ rooted' = f.rooted
     /\ UNCHANGED <<session, lifetimes, alive, dead, scope, native, callbacks, calling, late>>

(* AddMappingContext throws, before or after it took effect.  The record says
   `added' already, so the context is removed again and recycled; if that throws
   too, the scope keeps the record among its orphans. *)
BindNotAdded == \E s \in Open, f \in Fetched, reached, stuck, spoiled \in BOOLEAN :
  LET pair == <<scope[s].subsystem, f.context>>
  IN /\ Bindable(s)
     /\ Fail
     /\ IF stuck
        THEN /\ record' = Append(record, NewRecord(s, f.context, "orphans", {}))
             /\ pool' = f.pool
             /\ applied' = IF reached THEN applied \cup {pair} ELSE applied
        ELSE /\ record' = Append(record, Nothing(s))
             /\ pool' = IF spoiled THEN f.pool ELSE f.pool \cup {f.context}
             /\ applied' = applied \ {pair}
     /\ rooted' = f.rooted
     /\ UNCHANGED <<session, lifetimes, alive, dead, scope, native, callbacks, calling, late>>

(* input:Unbind. *)
Unbind == \E b \in RecordsOf(Open) : \E m \in Mishaps({b}) :
  /\ session = "running" /\ record[b].where = "bindings"
  /\ record' = RemovedRecords({b}, m.stuck)
  /\ RemoveContexts({b}, m)
  /\ subscribed' = subscribed \ Unbound({b})
  /\ callbacks' = callbacks \ Unbound({b})
  /\ UNCHANGED <<session, lifetimes, alive, dead, scope, rooted, targets, calling, late>>

(* input:Refresh, for the bindings whose AddMappingContext does not throw. *)
Refresh == \E s \in Open :
  /\ session = "running" /\ Held(s)
  /\ LET mine == { b \in RecordsOf({s}) : record[b].where = "bindings" /\ record[b].added }
     IN \E thrown \in SUBSET mine :
          /\ applied' = applied \cup { Application(b) : b \in mine \ thrown }
          /\ FailIf(thrown # {})
  /\ UNCHANGED <<session, lifetimes, alive, dead, owned, native, callbacks, calling, late>>

(* Close of each scope of S: all its records are removed as far as they can
   be; if none is left, its target is closed and its callbacks forgotten. *)
Closable(S, m) == { s \in S \cap targets : \A b \in RecordsOf({s}) : Gone(b, m.stuck) }
CloseScopes(S, m) ==
  /\ RemoveContexts(RecordsOf(S), m)
  /\ scope' = [s \in DOMAIN scope |->
       IF s \in Closable(S, m) THEN [scope[s] EXCEPT !.closed = TRUE] ELSE scope[s]]

Close == \E s \in Open : \E m \in Mishaps(RecordsOf({s})) :
  LET done == Closable({s}, m)
  IN /\ session = "running"
     /\ CloseScopes({s}, m)
     /\ record' = RemovedRecords(RecordsOf({s}), m.stuck)
     /\ targets' = targets \ done
     /\ subscribed' = subscribed \ (Unbound(RecordsOf({s})) \cup HandlesOf(done))
     /\ callbacks' = callbacks \ (Unbound(RecordsOf({s})) \cup HandlesOf(done))
     /\ UNCHANGED <<session, lifetimes, alive, dead, rooted, calling, late>>

(* bridge.UnbindAll clears the callbacks, closes the scopes, and has the
   backend remove the rest.  With a scope left open the targets are preserved
   and the records forget the handles that are gone with it. *)
UnbindAll_KeepsHandles == \E m \in Mishaps(RecordsOf(Open)) :
  LET whole == Closable(Open, m) = Open
  IN /\ session = "running"
     /\ CloseScopes(Open, m)
     /\ record' = RemovedRecords(RecordsOf(Open), m.stuck)
     /\ targets' = IF whole THEN {} ELSE targets \ Closable(Open, m)
     /\ subscribed' = {} /\ callbacks' = {}
     /\ UNCHANGED <<session, lifetimes, alive, dead, rooted, calling, late>>

UnbindAll_ClearsIfWhole == \E m \in Mishaps(RecordsOf(Open)) :
  LET whole == Closable(Open, m) = Open
      left == RemovedRecords(RecordsOf(Open), m.stuck)
  IN /\ session = "running"
     /\ CloseScopes(Open, m)
     /\ record' = [b \in DOMAIN record |->
          IF ~whole /\ left[b].where # "dropped" THEN [left[b] EXCEPT !.phases = {}] ELSE left[b]]
     /\ targets' = IF whole THEN {} ELSE targets \ Closable(Open, m)
     /\ subscribed' = {}
     /\ callbacks' = IF whole THEN {} ELSE callbacks
     /\ UNCHANGED <<session, lifetimes, alive, dead, rooted, calling, late>>

UnbindAll == \E m \in Mishaps(RecordsOf(Open)) :
  LET whole == Closable(Open, m) = Open
      left == RemovedRecords(RecordsOf(Open), m.stuck)
  IN /\ session = "running"
     /\ CloseScopes(Open, m)
     /\ record' = [b \in DOMAIN record |->
          IF ~whole /\ left[b].where # "dropped" THEN [left[b] EXCEPT !.phases = {}] ELSE left[b]]
     /\ targets' = IF whole THEN {} ELSE targets \ Closable(Open, m)
     /\ subscribed' = {} /\ callbacks' = {}
     /\ UNCHANGED <<session, lifetimes, alive, dead, rooted, calling, late>>

Methods == OpenInput \/ BindSucceeds \/ BindAbandons \/ BindUndone \/ BindNotAdded
           \/ Unbind \/ Refresh \/ Close \/ UnbindAll

-----------------------------------------------------------------------------
(* on_lua_stop.                                                            *)

(* It begins by stopping the session's lifetimes. *)
StopBegins ==
  /\ session = "running"
  /\ session' = "stopping" /\ lifetimes' = "stopped"
  /\ UNCHANGED <<engine, owned, native, callbacks, calling, failures, late>>

(* On the game thread the helper scopes are closed next; whatever that leaves
   the backend removes, but not the contexts, and not the Lua callbacks of a
   scope that stays open.  A delivery past its test goes on. *)
StopCloses == \E m \in Mishaps(RecordsOf(Open)) :
  /\ session = "stopping"
  /\ CloseScopes(Open, m)
  /\ record' = RemovedRecords(RecordsOf(Open), m.stuck)
  /\ session' = "closed"
  /\ targets' = {} /\ subscribed' = {}
  /\ callbacks' =
       callbacks \ (Unbound(RecordsOf(Open)) \cup HandlesOf(Closable(Open, m)))
  /\ UNCHANGED <<lifetimes, alive, dead, rooted, calling, late>>

(* Off the game thread the subscriptions are only deactivated: Lua is left as
   it is, and the targets to later collection. *)
StopAbandons ==
  /\ session = "stopping"
  /\ session' = "abandoned"
  /\ subscribed' = {}
  /\ UNCHANGED <<lifetimes, engine, owned, targets, callbacks, calling, failures, late>>

Stop == StopBegins \/ StopCloses \/ StopAbandons

-----------------------------------------------------------------------------
(* Deliveries, on the event-loop thread.                                   *)

Running == session \in {"running", "stopping"}

(* on_update finds the subscription of an event active.  Observers have an empty
   callback, their deliveries make no difference. *)
CheckEvent ==
  /\ Running /\ calling = Idle
  /\ \E h \in subscribed :
       h[2] = "Triggered" /\ calling' = [at |-> "checked", handle |-> h]
  /\ UNCHANGED <<session, lifetimes, engine, owned, native, callbacks, failures, late>>

(* A delivery that nobody should hear: its binding is removed or has failed. *)
Over(h) == h[2] \notin record[h[1]].phases \/ record[h[1]].failed

(* __dispatch: without a callback for its token the event is dropped. *)
Dispatched(h) == calling = [at |-> "checked", handle |-> h]
Hears(h) == h \in callbacks /\ late' = (late \/ Over(h))

Dispatch == \E h \in Handle :
  /\ Dispatched(h)
  /\ Hears(h) \/ (h \notin callbacks /\ UNCHANGED late)
  /\ calling' = Idle
  /\ UNCHANGED <<session, lifetimes, engine, owned, native, callbacks, failures>>

(* The callback throws: its record is marked and the handle forgotten before
   the error reaches on_update. *)
CallbackFails == \E h \in Handle :
  /\ Dispatched(h) /\ Hears(h)
  /\ record' = [record EXCEPT ![h[1]].failed = TRUE]
  /\ callbacks' = callbacks \ {h}
  /\ calling' = [at |-> "failed", handle |-> h]
  /\ UNCHANGED <<session, lifetimes, engine, scope, pool, rooted, native, failures>>

(* on_update deactivates the subscription; the backend reaps it unasked. *)
Deactivate ==
  /\ calling.at = "failed"
  /\ subscribed' = subscribed \ {calling.handle}
  /\ calling' = Idle
  /\ UNCHANGED <<session, lifetimes, engine, owned, targets, callbacks, failures, late>>

Deliver == CheckEvent \/ Dispatch \/ CallbackFails \/ Deactivate

-----------------------------------------------------------------------------
(* The engine and the backend, behind the session's back.                  *)

(* Queuing an event throws: the backend deactivates and reaps the handle. *)
QueueThrows ==
  /\ Running /\ Fail
  /\ \E h \in subscribed : subscribed' = subscribed \ {h}
  /\ UNCHANGED <<session, lifetimes, engine, owned, targets, callbacks, calling, late>>

(* The game clears the mappings of a subsystem. *)
ClearMappings == \E u \in alive :
  /\ applied' = { a \in applied : a[1] # u }
  /\ UNCHANGED <<session, lifetimes, alive, dead, owned, native, callbacks, calling, failures, late>>

SubsystemDies == \E u \in alive :
  /\ alive' = alive \ {u}
  /\ applied' = { a \in applied : a[1] # u }
  /\ UNCHANGED <<session, lifetimes, dead, owned, native, callbacks, calling, failures, late>>

ContextDies == \E c \in (1..rooted) \ dead :
  /\ Running /\ Fail
  /\ dead' = dead \cup {c}
  /\ applied' = { a \in applied : a[2] # c }
  /\ UNCHANGED <<session, lifetimes, alive, owned, native, callbacks, calling, late>>

(* The session's losses run over, or Unreal's object array shuts down. *)
LifetimesFault ==
  /\ session = "running" /\ lifetimes = "ready" /\ Fail
  /\ lifetimes' = "faulted"
  /\ UNCHANGED <<session, engine, owned, native, callbacks, calling, late>>

Engine == QueueThrows \/ ClearMappings \/ SubsystemDies \/ ContextDies \/ LifetimesFault

Next == Methods \/ Stop \/ Deliver \/ Engine

Spec == Init /\ [][Next]_vars

(* A consumer that calls UnbindAll until it has succeeded. *)
RetrySpec == Spec /\ WF_vars(UnbindAll)

-----------------------------------------------------------------------------
TypeOK ==
  /\ session \in {"running", "stopping", "closed", "abandoned"}
  /\ lifetimes \in {"ready", "absent", "faulted", "stopped"}
  /\ alive \subseteq Subsystems
  /\ scope \in Seq([subsystem : Subsystems, weak : BOOLEAN, debug : BOOLEAN, closed : BOOLEAN])
  /\ record \in Seq([scope : DOMAIN scope, where : {"bindings", "orphans", "dropped"},
                     context : 0..rooted, added : BOOLEAN,
                     phases : SUBSET ({"Triggered"} \cup Observers), failed : BOOLEAN])
  /\ Len(scope) <= MaxScopes /\ Len(record) <= MaxBindings
  /\ rooted \in Nat /\ pool \subseteq 1..rooted /\ dead \subseteq 1..rooted
  /\ applied \subseteq Subsystems \X (1..rooted)
  /\ targets \subseteq DOMAIN scope
  /\ subscribed \subseteq Handle /\ callbacks \subseteq Handle
  /\ calling \in {Idle} \cup [at : {"checked", "failed"}, handle : Handle]
  /\ failures \in 0..MaxFailures /\ late \in BOOLEAN

(* A context has one holder: a record that its scope still lists, or the pool.
   While the session runs with its lifetimes intact, a subsystem has no private
   context but those that the records of an open scope on it have added, so
   that a retry can find them. *)
ContextsOwned ==
  /\ TypeOK
  /\ \A b \in InUse : Listed(b) /\ record[b].context \notin pool
  /\ \A b, d \in InUse : record[b].context = record[d].context => b = d
  /\ (session = "running" /\ lifetimes # "faulted") =>
       \A a \in applied : \E b \in InUse :
         Application(b) = a /\ record[b].added /\ record[b].scope \in Open

(* While the session runs, its targets are those of its open scopes, and every
   native handle and every Lua callback belongs to a record its scope lists:
   none outlives a failed Bind, an Unbind or a Close. *)
HandlesOwned ==
  session = "running" =>
    /\ targets = Open
    /\ \A h \in subscribed \cup callbacks :
         h[1] \in RecordsOf(Open) /\ h[2] \in record[h[1]].phases

(* After Unbind, Close or UnbindAll, after a stop's cleanup has removed its
   record and after its own error a callback is not heard again, although the
   event loop may have found its subscription active before; a cleanup that
   fails halfway does not resume delivery.  A stop that could not remove the
   record, or that only deactivates, still lets that one delivery through
   (AtMostOneLateCall of InputBackend bounds it). *)
SilencedStaysSilent == ~late

(* Whatever fails on the way, a consumer that repeats UnbindAll, and binds no
   more in the end, gets rid of every scope, target, handle and context. *)
Released ==
  /\ Open = {} /\ targets = {} /\ subscribed = {} /\ callbacks = {}
  /\ lifetimes # "faulted" => applied = {}
UnbindAllFinishes == []<>(Released \/ session # "running")

(* A stop on the game thread whose cleanup met no failure leaves no private
   context on a subsystem. *)
StopRemovesContexts == (session = "closed" /\ failures = 0) => applied = {}

(* A rooted context is in use or pooled for the next Bind, so that there are
   never more of them than there were bindings at once. *)
RootedContextsKept ==
  (1..rooted) \ dead \subseteq pool \cup { record[b].context : b \in InUse }
=============================================================================
