# UE4SSLuaEventBridge in TLA+

UE4SSLuaEventBridge lets Lua mods under UE4SS receive Unreal Enhanced Input events.
Unreal calls native delegates on the game thread, Lua callbacks run on UE4SS's
event-loop thread, and sessions, game components and finally the bridge's own module
may go away while both are busy. The modules here model that machinery, TLC checks
them on small instances, and TLAPS proves the safety properties of every module, and both refinements, for every size.

    tlc -config MCDispatchQueue.cfg MCDispatchQueue.tla
    tlapm DispatchQueueProofs.tla

## 1. Inventory

### Threads

| Thread | Runs |
| --- | --- |
| game thread | the native delegates (`NativeBinding::Execute`, `Clone`, the destructor), and every registration call Lua makes (`OpenInputComponent`, `SetDeliveryFaultPolicy`, `BindAction`, `Unbind`, `CloseInputComponent`, `UnbindAll`), `on_lua_stop` and shutdown when they happen there |
| event-loop thread | `BridgeMod::on_update`: faults, traces, loop start, lifetime losses, the event pass and with it the Lua callbacks |
| any other thread of the host | `on_lua_stop` and `uninstall` when they do not happen on the game thread |
| Unreal's object array | `NotifyUObjectCreated/Deleted`, on whatever thread creates or deletes an object |

### Components

| Component (files under `bridge/` unless said otherwise) | State | Operations | Correct when |
| --- | --- | --- | --- |
| Event queue and budgeted dispatch: `include/QueueBuffers.hpp`, `QueueCapacity.hpp`, `DispatchBacklog.hpp`, `DispatchBudget.hpp`, `take_events` | producer vector, readiness flag, capacity episode, retained batch, published count, budget of the pass | push, refuse, drain, erase, clear; pop, permits, publish | accepted events are examined once and in order, none is forgotten, limits hold, one warning per overflow episode, statistics miss nothing |
| Enhanced Input backend: `src/EnhancedInputBackend.cpp` | targets, subscriptions, live bindings, inactive sessions, fault state of each target, count of native objects | open, enable fault policy, bind, unbind, close, unbind all, deactivate, collect, take fault, shutdown | Unreal holds exactly the bindings the bridge tracks; a stopped session has none; a fault is latched once and reported once; unloading leaves no code in use |
| `BridgeMod::on_update` and session stop: `src/BridgeMod.cpp` | the pass, sessions and their `active` flag | `on_update`, `on_lua_stop`, `uninstall` | no callback after an error, at most one after a stop that overtakes it |
| Dispatch schedule: `include/QueueDispatchSchedule.hpp` | time of the next pass | `due` | passes keep their interval, and come |
| Trace queue and overflow warnings: `write_debug_trace`, `take_traces`, `flush_debug_traces` | second bounded queue, its readiness flag, its retained batch | push, drain, print | an overflow episode has one warning, which is printed; nothing is left in the queues after shutdown |
| Loop start: `BridgeMod.cpp` 548-584, 708-748 | registered tokens, delivered sessions; callbacks by token in Lua | register, cancel, flush, clear | a registered callback runs once, a cancelled one never |
| Object lifetimes: `include/LifecycleRegistry.hpp`, `LifetimeProbe.hpp` | captures by session, watched objects, lost tokens | start, stop, capture, valid, release, invalidate, take lost, shutdown | a capture never validates for a recycled slot; each loss is reported once |
| Session aliases: `include/SessionAliasIndex.hpp` | Lua state to session | bind, find, unbind | no alias outlives its session |
| Lua helper API: `lua/bridge_api.lua` | callbacks by token, scopes, records, rooted contexts, weak handles | dispatch, bind, refresh, close, unbind all, stop | a failed close can be retried; nothing stays rooted |
| Binding snapshot: `include/BindingSnapshot.hpp` | none | validate and copy a native array | never reads past what it validated |
| Enhanced Input ABI, UE4SS bindings: `include/EnhancedInputABI.hpp`, `UE4SSABI.hpp` | none | layouts, offsets | match the engine |
| Bootstrap loader: `bootstrap/src/Bootstrap.cpp`, `bootstrap/include/` | candidates, configuration, the loaded module | discover, order, load, start, uninstall | the best usable candidate runs; a module is freed once, and only if it allows that |
| Release and deployment tools: `tools/` | files of a release, `mods.txt` | build, verify, activate, deploy, launch | a failed step leaves the installation usable |

### How they interact

- A delegate and `on_update` share the event queue. The vector and the capacity are under
  the queue mutex; the readiness flag, `accepting`, a subscription's `active` and a target's
  fault are atomics read outside it.
- Registration, collection, `deactivate`, `take_delivery_fault` and `shutdown` share the
  maps of targets and subscriptions under the backend mutex. `deactivate`,
  `deactivate_all` and `shutdown` also need the queue mutex: the first two take it after they have
  released the backend mutex.
- `on_update` calls Lua through the session's one dispatcher. A callback that fails comes
  back as an error, which faults its target and deactivates its subscription.
- The event queue's refusals write into the trace queue under the same mutex. Debug lines go there too, from the game thread and from
  the event loop; `on_update` drains both queues, the events first.
- A helper scope owns nothing the backend knows of as a scope: it holds a target, native handles and contexts, and gives them back call by
  call. Its callbacks are Lua functions found by handle when the dispatcher is called.
- Off the game thread nobody may touch Unreal's arrays. A stop there marks the session and
  leaves its native bindings to the next registration call, which collects them; a shutdown
  there leaves them to Unreal and keeps the module loaded.

### What is hard

Unlocked tests before critical sections; flags cleared before a scan and raised during it; a
batch kept over several passes under a budget that counts attempts, time and first
progress differently; two reasons latching the same fault from two threads; allocations failing in the middle of
bookkeeping; sessions stopped between `open_target`'s two critical sections; native objects that Unreal clones and destroys
behind the bridge's back. `PROJECT.json` lists each hazard at its line with the
properties that cover it, or why none does yet.

## 2. Plan

In order of weight. All of it is built but the last row.

| # | Module | Extends or uses | Contents | Runs | Theorems |
| --- | --- | --- | --- | --- | --- |
| 1 | `OrderedDelivery` | | abstract: one line of events | through 2 and 3 | |
| 2 | `DispatchQueue`, `MCDispatchQueue`, `DispatchQueueProofs` | implements 1 | the queue and the pass | `dispatch_queue` | all its safety properties, refinement of 1 |
| 3 | `InputBackend`, `MCInputBackend`, `InputBackendProofs`, `DeliveryProofs` | implements 2 (INSTANCE) | backend, `on_update`, stop, shutdown | `faults`, `sessions`, `ownership` | all its safety properties, refinement of 2 |
| 4 | `LifecycleRegistry`, `MCLifecycleRegistry`, `LifecycleProofs` | | captures, notifications, slot reuse, losses | `lifetime_reuse` | all its properties |
| 5 | `LoopStart`, `MCLoopStart`, `LoopStartProofs` | | start and stop of sessions, aliases, register, cancel, flush | `loop_start`, `loop_start_cancel` | all its safety properties |
| 6 | `OverflowWarnings`, `MCOverflowWarnings`, `OverflowProofs` | | the trace queue next to the event queue, the schedule of passes, the printing | `overflow_warnings` | `WarningsExact`, `QuietAfterShutdown` |
| 7 | `HelperScopes`, `MCHelperScopes`, `HelperProofs` | rests on what 3 checks | scopes, records, rooted contexts, callbacks in Lua | `helper_scopes`, `helper_stop`, `rooted_contexts` | all its safety properties |
| 8 | `Bootstrap`, `MCBootstrap`, `BootstrapProofs` | | claim, candidates, start, uninstall, reload | `bootstrap` | all its properties |
| 9 | `BindingSnapshot`, the tools | | | not modelled, see section 6 | |

No module declares a RECURSIVE operator, so that each can be proved about.

## 3. The modules

### OrderedDelivery: what the queue promises

A line of accepted events; `Accept` at the end, `Examine` at the front, `Withdraw` for
events of owners that are no longer live. No buffers, flags or threads.

### DispatchQueue: how the queue does it

`events`, `events_ready`, `capacity`, `accepting`, `next_event_sequence` are the fields of
`EnhancedInputDispatchState`; `pending` and `remaining` are `DispatchBacklog` and
`ConsumerBacklogCount`; `pass` is `on_update`'s position and its `DispatchBudget`. `live`
stands for the tests of `active` and of the target's fault.

| Actions | Code |
| --- | --- |
| `ExecuteAccepted`, `ExecuteRefused`, `ExecuteThrows`, `ExecuteDeclined` | `NativeBinding::Execute`, one per way through it |
| `Deactivate`, `Purge` | the two critical sections of `deactivate` and `deactivate_all` |
| `StopAccepting`, `ShutdownClears` | `shutdown` |
| `BeginPass`, `CheckReady`, `TakeEvents` | `on_update` up to `take_events`, whose flag test is outside the mutex |
| `PopEvent`, `PublishCount`, `ConsumeEvent`, `EndPass` | `dispatch_budgeted` and the consumer it is given |
| `TimeExpires` | the pass's clock |

An erase is stated by its effect (which entries stay, in which order). The recycling of the spare vector changes
allocations only and is left out. `Execute` is one step here; its unlocked first tests are
separate in `InputBackend`, which refines this module, so nothing rests on that.

### InputBackend: the backend and its callers

The maps of the backend are sets of handles. Handles index the history sequences `target`
and `subscription`, because the code never reuses one and keeps subscriptions alive through
shared pointers held by events and native bindings. `delivery` in a subscription says that it shares its
target's `TargetDeliveryState`, exactly as it was when it was bound. `natives` and `clones` are what Unreal
owns; `game`, `host`, `update` are the three threads' positions.

| Actions | Code |
| --- | --- |
| `CallOpen`, `CallTarget`, `CallUnbind`, `CallUnbindAll` | the tests in BridgeMod's registration functions; the critical section is a later step |
| `OpenCollects`, `OpenInserts`, `EnableFaults`, `BindSucceeds`, `BindFails`, `CloseTarget`, `Unbind`, `UnbindAll`, `StopOnGameThread` | the backend's critical sections |
| `Execute`, `ExecuteLocked`, `ExecuteThrows`, `ExecuteCatches` | `NativeBinding::Execute`: unlocked tests, locked part, exception, handler |
| `Clone`, `DestroyClone`, `DestroyComponent`, `DestructorReturns` | Unreal's use of the bindings |
| `StopOffGameThread`, `DeactivateAll`, `EraseAll` | `on_lua_stop` off the game thread |
| `ShutdownBegins`, `ShutdownForgets`, `ShutdownClearsQueue`, `ShutdownReturns` | `shutdown` and the unload decision of `uninstall` |
| `BeginUpdate`, `Flush...` | `flush_delivery_faults` and `take_delivery_fault` |
| `BeginPass` ... `EndPass`, with `SkipEvent`, `CheckEvent`, `CallLua`, `LatchError`, `Deactivate`, `EraseEvents`, `ReturnFailed` | the event pass of `on_update` |

The queue steps are `DispatchQueue`'s own operators, through `Queue == INSTANCE DispatchQueue`, and
`ImplementsQueue` checks that the whole backend drives them as `DispatchQueue!Spec` allows. `Callable`
reflects that stop and the fault policy come through without BridgeMod's test for an initialized
backend.

`Allowed` selects which calls and incidents an instance includes: all of them at once are out of reach
for TLC. `faults`, `sessions` and `ownership` each take those that can disturb their properties, and together they fire every action.

### LifecycleRegistry: object lifetimes

The registry's maps are sets of tokens; `record` keeps what each token stands for, which the code
spreads over `Observation`, the identity map and the keys of the two indexes. `game` is the call
the game thread is in, with what it has read so far; `slots` is Unreal's object array.

| Actions | Code |
| --- | --- |
| `CallCapture`, `CallValid`, `ReadObject`, `ReadSerial` | `lifetime_capture`, `lifetime_valid` and `read_object_identity`, whose reads hold no lock |
| `CaptureAdds`, `CaptureRepeats`, `CaptureRefused`, `ValidReturns` | `capture` and `valid` under the registry's mutex |
| `StartSession`, `StopSession`, `ReportLosses`, `TakeLost`, `Release` | the registry's operations of the same names |
| `NotifyBegins`, `Invalidate` | `invalidate`: the look at the count outside the mutex, and the rest |
| `StartService`, `StopService`, `ShutdownRegistry` | the listeners and the flag that lets calls through |
| `CreateObject`, `AllocateSerial`, `DeleteObject`, `FreeObject` | external: Unreal's object array |

Of Unreal it is assumed that a slot is announced after it was filled and before it is freed, that a serial number belongs to one
object, and that it goes when the slot is freed. Objects come and go while a call is between two of its reads: the engine destroys
and loads objects on other threads as well. The memory at a dead object's address may hold any index.

### LoopStart: sessions and their loop-start callbacks

| Actions | Code |
| --- | --- |
| `PublishSession`, `RegisterState`, `StartReturns`, `StartFails` | `on_lua_start` from the point where the session becomes visible; aliases follow one by one, and any may fail |
| `StopClears`, `StopDeactivates`, `StopReturns` | `on_lua_stop`, whose three parts hold different mutexes or none |
| `OnLoopStart`, `RegisterLoopStart`, `RegistrationFails` | `onLoopStart`: the Lua half stores the callback, the native half registers its token or refuses |
| `Cancel`, `CancelLoopStart` | the function `onLoopStart` returns, in the same two halves |
| `UnbindAll` | `__clearCallbacks`, which drops these callbacks too |
| `FlushCollects`, `CheckSession`, `Dispatch`, `CallbackEnds`, `FlushReturns` | `flush_loop_start_callbacks` and the dispatcher's branch for token -2 |

Tokens of a flush are taken in any order, as from the hash tables they come from, and not even session by session. One step of the
model looks at the `active` flag and at the set of tokens where `register_loop_start` looks twice; a stop between
the two looks has already closed registration and emptied the set, so the answers are the same. A session's Lua code runs on one thread at a time.

### Bootstrap: main.dll

`claim` is a copy's `bootstrap_claim`, `leaked` says that a handle is open which no variable holds any more, and the claim exists for
the process while there is any handle. `live` counts implementations that are loaded.

| Actions | Code |
| --- | --- |
| `StartMod`, `ClaimRefused` | `start_mod` up to the claim; a refused copy has a handle until it closes it |
| `SearchFails`, `SearchThrows`, `SearchSucceeds` | `main.json` and `discover`, as inputs |
| `CandidateUnusable`, `LoadCandidate`, `StartFails`, `StartSucceeds`, `CandidatesExhausted` | the loop over the candidates |
| `CandidateThrows` | an exception out of that loop, from formatting or logging: the claim stays, a loaded candidate may stay with it, also with all recorded |
| `CallUninstall`, `Retain`, `Unload`, `UninstallReturns` | `uninstall_mod`, with `uninstall_implementation`'s answer as input |
| `ReloadBootstrap` | external: UE4SS frees a copy of main.dll and loads it again |

### OverflowWarnings: the trace queue beside the event queue

`game` and `loop` are the two threads that write lines: where each is, the debug lines it owes, and whether it has looked at
`accepting` for the next one. `capacity` is the part of `event_capacity` that the warning depends on. An event is its session and a line is its
session and the episode it warns of; no property here tells more apart. `wait` is what is left of the interval in
`QueueDispatchSchedule`, in ticks.

| Actions | Code |
| --- | --- |
| `Execute`, `Examine`, `Admission` | `NativeBinding::Execute`: its first two lines, its unlocked tests, its decision under the mutex with the warning |
| `GameWrites`, `LoopWrites` | `write_debug_trace`, in two steps: the look at `accepting`, and the rest under the mutex |
| `OnUpdate`, `ConsumeEvent`, `TakeTraces`, `FlushLine`, `EndPass` | `on_update` with `due`, `take_events`, `take_traces`, `flush_debug_traces` |
| `Tick` | external: the steady clock |
| `Deactivate`, `SessionStops`, `StopAccepting`, `ShutdownClears` | what ends a subscription, a session and the bridge, from any thread |

`take_traces` reads the readiness flag before it takes the mutex; only shutdown lowers the flag elsewhere, and then the drain finds nothing, so the
two are one step. The budget of the events is in `DispatchQueue`; here a pass may leave events after the first.

### HelperScopes: the Lua helper API

`record` is what `Bind` builds for a binding, with the table of its scope that lists it; `pool` is `__contextPool`. `applied` and `subscribed` are what the subsystem
and the backend have, `callbacks` what Lua has. Contexts are numbered as they are constructed.

| Actions | Code |
| --- | --- |
| `OpenInput`, `BindSucceeds`, `Unbind`, `Refresh`, `Close`, `UnbindAll` | the functions of the same names; of those that clean up, any subset of their reflected calls may fail |
| `BindAbandons`, `BindUndone`, `BindNotAdded` | `Bind`'s failing ends: before the context has an owner, with the context recycled, with the context perhaps applied; emptying a context to recycle it may throw |
| `StopBegins`, `StopCloses`, `StopAbandons` | `on_lua_stop`: lifetimes first, then on the game thread the helper cleanup and `unsubscribe_all`, or elsewhere `deactivate_all` alone |
| `CheckEvent`, `Dispatch`, `CallbackFails`, `Deactivate` | `on_update`'s test of the subscription, `__dispatch`, and what follows an error |
| `QueueThrows`, `LifetimesFault` | the backend and the registry ending things unasked |
| `ClearMappings`, `SubsystemDies`, `ContextDies` | external: the game and Unreal |

A method is one step because calls of one session do not overlap (UE4SS runs a mod's Lua code under one lock); what may come in between is the event
loop, which stands between `CheckEvent` and `Dispatch`. A stop cancels no delivery that is past its test: it still enters Lua,
where it finds the callbacks of what the cleanup could not remove, or of everything if the stop was off the game thread. That the Lua state is alive for it is up to
UE4SS. What the native calls answer is taken from `InputBackend`: an `Unbind` answers false only for
a handle that has been reaped, `CloseInputComponent` does not fail for a registered target, `UnbindAll` completes. Observers have an
empty callback, so only their handles are kept, not their deliveries. The pool is a set: which context `Bind` takes makes no difference to the properties.

### Definitions named Name_Mistake

`Admits_OneTooMany`, `Unbind_AnySession` and so on are definitions with a plausible bug: a dropped
guard, a missing reset, a lost second look. No specification uses them. Each property is
known to fail when the one paired with it in `PROJECT.json` "mutants" takes the place of the
right definition.

## 4. What the runs check

| Run | Instance | Shows |
| --- | --- | --- |
| `dispatch_queue` | 2 owners, limit 2, 1 attempt per pass, 4 events | `TypeOK`, `WithinCapacity`, `NoLostWakeup`, `BacklogCountExact`, `PassProgress`, `AcceptedIsExamined`, and that the queue implements `OrderedDelivery` |
| `overflow_warnings` | 1 session with debug lines, limit 1, 2 lines, 1 line per pass, interval 2, 4 executions | `WarningsExact`, `QuietAfterShutdown`, `WarningIsPrinted` |
| `faults` | 1 session, limit 1, 2 events, 2 targets, 2 subscriptions; refusals, exceptions, errors, clock | `PolicyPrecedesBinding`, `ReportedOnce`, `ErrorIsFinal`, `ImplementsQueue`, `FaultIsReported` |
| `sessions` | 2 sessions, 1 component, 1 event, 2 targets, 2 subscriptions; every call with any handle, stops on both threads | `StoppedSessionUnbound`, `SessionsIsolated` |
| `ownership` | 1 session, 1 component, 2 events, 1 target, 2 subscriptions, 1 clone each, 1 attempt per pass; component death, stops on both threads, both shutdowns | `OwnershipExact`, `UnloadSafe`, `PurgedStaysPurged`, `AtMostOneLateCall`, `ImplementsQueue` |
| `lifetime_reuse` | 1 session, 2 slots, 1 address, 2 objects, 3 tokens, 2 captures of each, 1 queued loss | `IndexesAgree`, `ValidMeansSameObject`, `LossesAccounted`, `FaultedFailsClosed`, `NotificationEndsObservations` |
| `loop_start` | 2 sessions, 2 Lua states, capacity 2, 3 callbacks | `AtMostOneLateCallback`, `AliasesExact`, `OneChance`, `RegisteredRuns` |
| `helper_scopes` | 1 subsystem, 2 scopes, 2 bindings, 1 observed phase, 1 method or incident with failing calls | `ContextsOwned`, `HandlesOwned`, `SilencedStaysSilent`, `UnbindAllFinishes` |
| `bootstrap` | 3 copies of main.dll, 3 versions | `TypeOK`, `OneImplementation`, `RetainedStaysLoaded`, `ClaimReleased`, `NewestUsableStarts` |

The type invariants of the other modules are conjuncts of `OwnershipExact`, `IndexesAgree`, `AliasesExact`, `WarningsExact` and `ContextsOwned`.

Three runs are expected to fail; each checks what the documentation says and the code does not do.

- `loop_start_cancel` checks `CancelAnswersWhetherItCancelled`, what DEVELOPERS.md says of the function that
  `onLoopStart` returns. Once `flush_loop_start_callbacks` has taken the tokens, a callback that has not run yet can still be cancelled, and never
  runs; but the function answers what the native side found, which is nothing, and so it says false. A callback
  that cancels another of its session in the same flush meets this without a second thread.
- `helper_stop` checks `StopRemovesContexts`: a stop on the game thread, with no failure anywhere, removes the private contexts. `on_lua_stop` ends the session's
  lifetimes before it closes the helper scopes, so every scope that holds its subsystem by a weak handle finds the subsystem gone, skips
  `RemoveMappingContext` and reports success. The contexts stay applied, empty.
- `rooted_contexts` checks `RootedContextsKept`: the number of rooted contexts stays at the peak number of bindings. `Bind` returns without recycling
  its context when the action, its trigger or its weak identity cannot be made.

Each property is stated in words above its definition. What a reader may not expect:

- `BacklogCountExact`: `GetDispatchStats` may count an event that was just popped, and never misses one.
- `WarningsExact` says that an episode's warning is posted with its first rejection that finds room, and not twice. It does not say that there is one:
  an episode that ends while the trace queue is full ends without, although a comment (`EnhancedInputBackend.cpp:282`) promises one per
  episode. Each rejection that finds no room for the warning also counts as a rejected line.
- `WarningIsPrinted` exempts the session whose event was rejected: its stop loses the warning, also when the queue was filled by another session.
- `AtMostOneLateCall`: the session is tested and Lua is called in two steps, so a stop on another thread can
  be overtaken, by one call and not by two.
- `StoppedSessionUnbound`: `open_target` may still insert a target for a session that stopped between its two
  critical sections; the next collection removes it and it never gets a binding.

- `ValidMeansSameObject` does not say that the object still lives when `valid` answers: it may be destroyed after its
  identity was read. It says that no other object is taken for it.
- `UnbindAllFinishes` speaks of `UnbindAll` and not of `Close`: once the backend has reaped a handle after a queue exception, `Close` of its scope fails for good,
  because it takes the missing handle for a failed removal; `UnbindAll` forgets the handles with the bindings it removes.
- `SilencedStaysSilent` is about callbacks that run, not deliveries that are queued: the dispatcher drops those whose token is gone. A stop counts as far as its
  cleanup removes records. What it cannot remove, and everything if it is off the game thread, may be called once more; `AtMostOneLateCall` is about that.
- `ClaimReleased` exempts a start that threw: its copy keeps the claim, perhaps with no implementation to show for it, and no copy can start one until the process ends. What such a
  start has loaded and not freed counts for `OneImplementation`.
- `NotificationEndsObservations` needs both indexes: a capture that was overtaken by its object's death is found by the
  address when a new object appears there in another slot. Until then such an observation stays, and its loss is not
  reported.

### Bounds and why they are enough

- `MaxEvents` bounds the delegates' executions. Four events in `dispatch_queue` with a limit of two and one attempt per pass give: a
  full vector behind a retained batch, two overflow episodes, an erase in the middle. Two events are enough for the backend's runs: a failing
  callback with a later event of its owner or of its target in the batch or in the vector, a call overtaken by a stop with another event behind it.
- `MaxTargets` = 2 gives two faults before one look at the flag; `MaxSubscriptions` = 2 gives two
  bindings of one target, or one of each of two.
- `MaxClones` = 1 per subscription: a clone may outlive its original, and the count of native objects may be kept above zero by clones alone.
- Four executions give two overflow episodes; two places for lines give a warning behind a debug line and a warning without room; one line per pass leaves a
  retained batch. The second episode's warning meets the first one's in either queue. With two sessions the liveness graph is too large; the
  theorems hold for any number of sessions.
- Two objects at one address in two slots: a capture may be overtaken by a successor in the same slot or in the other. Three tokens with a queue of
  one loss give an overflow and a capture after it. One session: two have five million states with two tokens alone, so that a notification that ends observations of
  several sessions rests on `LossesAreExact` and `RegistryAgrees`, which hold for any number. The slots are
  interchangeable, and no liveness is checked there. When a token or a reference would exceed its bound, the call waits for good.
- Two scopes give an `UnbindAll` that closes one and not the other; two bindings give a pooled context that is used again, two records of
  one scope of which one is stuck, or one record in each. `MaxFailures` counts methods with failing calls and incidents (a reaped handle, a dead context, faulted
  lifetimes), not single calls: all the calls of one cleanup may fail together. Two such events in one behaviour are out of reach.
- Two Lua states for two sessions of up to two states make the second session use the first one's addresses again. Three callbacks give two in one
  flush and one refused at the capacity of two.
- Three copies of main.dll: one that owns the process, one that is refused, one that has been reloaded. Three versions whose order
  differs between fields. `Bootstrap` needs no other bound, and its theorems hold for any number of either.
- One component suffices for ownership because a binding is attached to one component and no operation relates two. Two
  sessions suffice for isolation: a call names one session besides its own. They are interchangeable, hence the symmetry
  in `sessions`, which checks no liveness.

In every run that checks liveness the bounded actors may stop for good, as they may in reality: a delegate need not
execute, so a bound hides no progress from the consumer. In `helper_scopes` the bound on failures is part of what `UnbindAllFinishes` says: the failures end at some time.

### Fairness

Weak fairness of `Update`, all steps of `on_update` taken together. UE4SS calls `on_update`
from its event loop for as long as it runs, and the function waits for nothing but short critical
sections, which the model takes as single steps. `LoopStart` has the same, including that callbacks return, and weak fairness of
the native half of a call whose Lua half was made: it is the next statement of the same function. `OverflowWarnings` adds weak fairness of `Tick`, since a steady
clock goes on, and leaves the step where a pass is due to `Update`. `RetrySpec` in `HelperScopes` is about the consumer and not the bridge: weak fairness of
`UnbindAll` is a script that follows the documentation and calls it again until it has succeeded. Neither delegates, nor registration calls, nor the host are assumed
to ever do anything. `FaultIsReported`, `AcceptedIsExamined` and `WarningIsPrinted`
therefore say what the consumer's own progress is enough for.

Deadlock is checked in every run but those of `LifecycleRegistry` and `HelperScopes`. There the system may stop: once every session has ended and the service is down,
nothing has to happen. Elsewhere `on_update` can always begin another pass.

## 5. What is proved

`DispatchQueueProofs` proves, for every set `Owners` and every natural `Limit`, `MaxPerPass` and `MaxEvents`
(the module's three assumptions; TLC evaluates them):

| Theorem | Property |
| --- | --- |
| `TypeCorrect` | `TypeOK` |
| `BacklogCountCorrect` | `BacklogCountExact` |
| `BudgetRespected` | `AttemptsWithinBudget` |
| `PassesProgress` | `PassProgress` |
| `WakeupNeverLost` | `NoLostWakeup` |
| `CapacityRespected` | `WithinCapacity` |
| `WarnedOncePerEpisode` | `OneWarningPerEpisode` |
| `OrderKept` | `ExaminedInOrder` |
| `QueueRefinesOrderedDelivery` | `ImplementsOrderedDelivery` |

Each is an induction over the steps, with the type invariant and one more invariant:

- `CountInv`: `remaining` is exact, and the batch is empty wherever the pass may drain (`PassShape`). Without the shape a
  drain would overwrite a retained batch, so neither the count nor the order would be inductive. It also says that the
  count allowance is not used up while an entry is being consumed.
- `ProgressInv`: a pass that has examined nothing has attempted nothing, so `Permits` lets it examine the first
  entry; this makes `PassProgress` a fact about single steps.
- `QueueInv`: wake-up, capacity and warning together.
- `OrderInv`: the batch followed by the vector is one strictly increasing line between the last examined sequence number and the
  next one. `AppendToLine` and `TailOfLine` are its two ways to change; an erase keeps it because it keeps order.

`AttemptsWithinBudget`, `OneWarningPerEpisode` and `ExaminedInOrder` are not checked by a run of their own: each is proved, and the refinement and `WarningsExact` say more.

The refinement theorem shows that every step maps to a step of `OrderedDelivery` or to none. Draining moves events from one half of
the line to the other and is a stutter, because the batch was empty (`CountInv`).

`BootstrapProofs` proves, for every set of copies and every set of versions that are triples of naturals:

| Theorem | Property |
| --- | --- |
| `TypeCorrect` | `TypeOK` |
| `OneImplementationEver` | `OneImplementation` |
| `RetainedForGood` | `RetainedStaysLoaded` |
| `ClaimGivenBack` | `ClaimReleased` |
| `NewestStarts` | `NewestUsableStarts` |

That at most one implementation is loaded is not inductive: it rests on who owns the process. `ClaimInv` says that there is one owner and that it holds the
claim, and that a claim which was leaked or abandoned rules out any owner for good. `LiveInv` then accounts for what is loaded: it is the owner's, or
it was retained by a copy that has been reloaded, or it was left behind by a start that threw, and then the claim is leaked or abandoned and nobody can load another. `ShapeInv` ties a call's
place to the module, and `ChoiceInv` keeps what has been found, tried and chosen for `NewestStarts`.

`OverflowProofs` proves, for every set of sessions of which any may be debugged, every limit of the event queue (0, for unbounded, included), every positive limit and budget of the trace queue (1024 and 32 in the code), every interval and any number of
executions:

| Theorem | Property |
| --- | --- |
| `WarningsAreExact` | `WarningsExact` |
| `ShutdownIsQuiet` | `QuietAfterShutdown` |

`WarningsExact` is proved through `EpisodesInv`, which adds to it what the code's two flags have to do with an episode. `FlagsInv`: `overflow_reported` is up exactly during an
episode, and `warning_pending` is up exactly until its warning has been posted, so a second one cannot be. `LinesInv`: every warning that waits or was printed is of an episode up
to the current one, and of an earlier one as long as the current one's is still to come; a warning posted at the end of the lines is then behind all others, and taking and printing
lines from the front keep the order. `CountInv`: an episode costs an execution that filled the queue and one that was rejected, and the execution in progress may be the
next to count; this bounds the number of episodes. `QuietInv` adds to `QuietAfterShutdown` that `accepting` is down: the second look at it, under the mutex, is
all that keeps a late writer out.

`InputBackendProofs` and `DeliveryProofs` prove, for any sessions and components and any natural limits and bounds:

| Theorem | Property | Module |
| --- | --- | --- |
| `TypeCorrect` | `TypeOK`, and that handles were given out | `InputBackendProofs` |
| `PoliciesPrecedeBindings` | `PolicyPrecedesBinding` | |
| `StoppedSessionsUnbound` | `StoppedSessionUnbound` | |
| `SessionsAreIsolated` | `SessionsIsolated` | |
| `OwnershipIsExact` | `OwnershipExact` | |
| `UnloadIsSafe` | `UnloadSafe` | |
| `LateCallsAreBounded` | `AtMostOneLateCall` | `DeliveryProofs` |
| `FaultsAreReportedOnce` | `ReportedOnce` | |
| `ErrorsAreFinal` | `ErrorIsFinal` | |
| `PurgesAreFinal` | `PurgedStaysPurged` | |
| `BackendRefinesQueue` | `ImplementsQueue` | |
| `BackendQueueIsSafe` | the invariants of `DispatchQueue`, of the backend | |

The many actions are brought together by frame lemmas (`CallingFrame`, `FlushFrame`, `PassFrame`, ...), which say what a kind of step leaves alone. None of the
properties is inductive by itself:

- `HandlesInv`: a handle in an event, a binding, a call or the pass was given out. Everything else reads `subscription` and `target` through it.
- `PolicyInv` speaks of every subscription ever made and of `has_bound`: the policy of a target that was bound cannot change, even when the subscription is gone.
- `StageInv` and `ThrownInv` tie `initialized`, `accepting` and the maps to the stages of a shutdown, and the pass's last steps to a callback that failed: these
  two are the other ways to end what a session owns in `SessionsIsolated`.
- `OwnershipInv`: every original in an array is of a subscription of that component, so that the count, taken over two disjoint finite sets, changes by one where one
  set does.
- `UnloadInv` says for each stage of a shutdown how it can know that nothing is left: it has taken everything down itself, on the game thread and in one call; or no binding was
  tracked and no clone was ever made, and then Unreal is inside of none.
- `LateInv`: a call on its way into a stopped session is that session's first, because the session was tested while it was active.
- `ReportInv`: a target is marked as notified before its report is on its way. `ErrorInv` says that between a failure and its consequences the pass handles nothing else, and
  that no event is at its call whose owner, or whose target's opted-in sharers, have failed.
- `PurgedInv`: whoever `deactivate` has finished with is inactive. The second look at `active`, under the queue mutex, does the rest.

For the refinement, `SequenceInv` keeps the number a waiting delegate has drawn the last one, `EraseInv` says that the second section of `deactivate_all` finds no subscription left
that could queue, and every action is mapped to an action of `DispatchQueue` or to a stutter. `BackendQueueIsSafe` then takes the theorems of `DispatchQueueProofs` over, through
`INSTANCE` with the same mapping: no lost wakeup, limits, one warning per episode, the count, the budget and the order hold of the backend as it drives the queue.

`LifecycleProofs` proves, for any sessions, slots, addresses, limits and bounds (a token can be captured at least once):

| Theorem | Property |
| --- | --- |
| `TypeCorrect` | `TypeOK` |
| `RegistryAgrees` | `IndexesAgree` |
| `ValidIsExact` | `ValidMeansSameObject` |
| `LossesAreExact` | `LossesAccounted` |
| `NotificationsAreThorough` | `NotificationEndsObservations` |
| `FaultsFailClosed` | `FaultedFailsClosed` |

The types alone are not inductive: `Held`, every observation has a reference, keeps the counts from going below 0. `AgreeInv` is `IndexesAgree` without it. `SerialInv`: a serial
number is the slot's object's, or none, in the slot, in a call that has read it and in a record; so equal identities are equal objects although the three are read at
different times. `DueInv`: what a notification has to end when it begins is found under the slot or the address also when it gets the mutex. The address is
still there, because an object has its address for good. `LossInv`: a queue holds each token once and none that is observed, released or taken; a reporting token of a live
session is in one of the four places, unless the session is faulted. A row of losses appended to the queue keeps that, because the observations it is made of are in no queue
(`JoiningInjective`). Steps that end observations are taken together (`Ending`, `Steps`).

`LoopStartProofs` proves, for any sessions, states, capacity and number of tokens:

| Theorem | Property |
| --- | --- |
| `TypeCorrect` | `TypeOK` |
| `AliasesAreExact` | `AliasesExact` |
| `CallbacksHaveOneChance` | `OneChance` |
| `OneLateCallback` | `AtMostOneLateCallback` |

`StatesInv`: one session is in transit, and two that exist share no Lua state; `AliasInv`: an alias leads to a session that has the state, and a session that is starting has
aliases or still has them to publish. `TokenInv`: a token is used once, so a callback that began or was dropped is in no table. `LateInv`: with a late callback the
session is stopped and the loop is not about to enter it again.

`HelperProofs` proves, for any scopes, bindings, subsystems, observed phases and number of failures:

| Theorem | Property |
| --- | --- |
| `TypeCorrect` | `TypeOK` |
| `ContextsStayOwned` | `ContextsOwned` |
| `HandlesStayOwned` | `HandlesOwned` |
| `SilenceLasts` | `SilencedStaysSilent` |

The inductive invariant `HelperInv` has the types, `RecordsInv` (a listed record's scope is open; what a record has added is the context it has, and only a listed record has
one), `ContextsInv` and `HandlesInv`. `ContextsInv` adds to the property which scopes hold their subsystem weakly and that a dead subsystem has no context left: a cleanup that finds no
subsystem has then nothing to remove. `HandlesInv` follows handles and callbacks on the way down of a session as well, and takes failed callbacks out of the table, so that the dispatcher
can find none that was silenced. After a stop it keeps only that no native handle is left: the callbacks in Lua may be there, with their records.

Only model-checked: liveness (`AcceptedIsExamined`, `FaultIsReported`, `RegisteredRuns`, `WarningIsPrinted`, `UnbindAllFinishes`), which is out of the prover's reach, and the
three properties that the code does not have. Before they were proved, the strengthened invariants were checked by TLC on the instances of the runs.

## 6. What is not modelled, and where the models are coarser than the code

Whole components:

- The binding snapshot (`BindingSnapshot.hpp`, `inspect_target`) reads a native array for a report and changes nothing; what it must get right are addresses and sizes, of which
  these models know nothing.
- The ABI headers are layouts and offsets.
- The tools under `tools/` run at release time, apart from the game and from everything above; among them `release_session.py` replaces `mods.txt`, the only
  file that a crash could leave half done.
- Examples, packaging and tests have no state of the bridge.

Inside the modelled ones:

- Paths, phases, axis values and texts are left out. In `DispatchQueue` and `InputBackend` room in the trace queue is a free choice at each refusal;
  `OverflowWarnings` has the queue itself. Of its lines it keeps the session and the warned episode; which lines a scope writes, and the counter of rejected ones, are left out.
- The probe that decides whether the lifetime service starts is the choice to start it or not. The weak handles that Lua builds upon captures are in `HelperScopes` as far as scopes
  use them: they answer while the session's lifetimes do. Sessions' own
  `active` flag: the registry is called by any session at any time.
- `HelperScopes` leaves out the checking and packing of arguments, keys, triggers, priorities and labels. It has one session: the backend keeps sessions apart (`SessionsIsolated`).
- That methods called off the game thread are refused before they do anything is assumed by having them on the game thread only.
- `LoopStart` leaves out what a stop does besides: the helper cleanup is in `HelperScopes`, the backend's part in `InputBackend`, the registry's in `LifecycleRegistry`.
- `Bootstrap` takes what `main.json` and the version resources say as inputs; their parsers are not modelled. UE4SS is assumed to call
  `uninstall_mod` before it frees a copy of main.dll that runs an implementation.
- `inspect_target` and `target_delivery_valid` read only.
- BridgeMod's decoding of Lua arguments is left out; a call arrives with a session and any handle that has been given out, including other
  sessions' handles.
- Lua callbacks return or fail; what they call during the callback are the ordinary calls, made by any other step.
- The host thread is a thread of its own. UE4SS stops sessions and uninstalls from one of its own threads, so the model
  allows more interleavings than one particular host.
- `initialized` and `accepting` are lowered in one step at the beginning of shutdown; the delegates read only the second, the
  registration calls only the first.
- Sessions are never destroyed while the backend runs, as in the code; raw session pointers are sound for that reason.
- The lifetime of the bridge object during `uninstall` is the host's contract: `UnloadSafe` covers the objects Unreal
  holds and the delegate or destructor it is inside of, not a registration call under way.
