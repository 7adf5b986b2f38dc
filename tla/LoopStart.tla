----------------------------- MODULE LoopStart -----------------------------
(***************************************************************************)
(* Loop-start callbacks and the life of a Lua session in BridgeMod.        *)
(*                                                                         *)
(* A script stores a callback in a Lua table and registers its token with  *)
(* the native side.  The first on_update after the session was published   *)
(* takes all its tokens under session_mutex_, closes registration, and     *)
(* then calls the session's dispatcher once for each, without the mutex.   *)
(* Meanwhile scripts cancel, UnbindAll empties the Lua table, and the host *)
(* stops sessions and reuses the addresses of their Lua states.            *)
(*                                                                         *)
(* The Lua code of one session runs on one thread at a time, as a Lua      *)
(* state requires; it may call the bridge from within a callback.          *)
(* Name_Mistake is Name with a mistake in it.                              *)
(***************************************************************************)
EXTENDS Naturals, Sequences, FiniteSets, Functions

CONSTANTS
  Sessions,    \* Lua sessions that may be started
  States,      \* addresses of Lua states
  NoSession,   \* nullptr
  Capacity,    \* loop-start callbacks a session may have registered
  MaxTokens    \* bound: calls of onLoopStart in all sessions

ASSUME SessionsAssumption == NoSession \notin Sessions
ASSUME BoundsAssumption == Capacity \in Nat /\ MaxTokens \in Nat

VARIABLES
  phase,                 \* of each session: is it stored, and its active flag
  states,                \* by session, its Lua states; the host's `lua' first
  aliases_,              \* SessionAliasIndex
  starting,              \* on_lua_start: the states whose alias is still missing
  loop_start_callbacks, loop_start_delivered,  \* LuaSession
  callbacks,             \* __loopStartCallbacks, by session
  last_token,            \* __nextCallbackToken, by session
  script,                \* by session, the call of the bridge its Lua code is in
  update,                \* on_update's loop over the tokens it has taken
  begun, dropped, late,  \* history: callbacks begun, taken out of the table by
                         \* a script, and begun after their session's end
  denied                 \* history: callbacks whose cancellation answered false

session == <<phase, states, aliases_, starting>>
native == <<loop_start_callbacks, loop_start_delivered>>
lua == <<callbacks, last_token, script>>
history == <<begun, dropped, late, denied>>
vars == <<session, native, lua, update, history>>

Callbacks == Sessions \X Nat
NoCall == [op |-> "none", token |-> 0]
Loop(at, pending) == [at |-> at, pending |-> pending, callback |-> <<NoSession, 0>>]

(* LuaSession::active of a session that sessions_ holds. *)
Active(s) == phase[s] \in {"starting", "active", "stopping"}

(* Scripts run from the return of on_lua_start until the states are closed. *)
Scripting(s) == phase[s] \in {"active", "stopping", "inactive"}

(* The loop is inside of the session's dispatcher, or about to enter it. *)
Calling(s) == update.at \in {"call", "running"} /\ update.callback[1] = s
Running(s) == update.at = "running" /\ update.callback[1] = s

(* The host starts and stops one session at a time. *)
HostIdle == \A s \in Sessions : phase[s] \in {"new", "active", "closed", "erased"}

Init ==
  /\ phase = [s \in Sessions |-> "new"]
  /\ states = [s \in Sessions |-> <<>>]
  /\ aliases_ = [a \in States |-> NoSession]
  /\ starting = <<>>
  /\ loop_start_callbacks = [s \in Sessions |-> {}]
  /\ loop_start_delivered = [s \in Sessions |-> FALSE]
  /\ callbacks = [s \in Sessions |-> {}]
  /\ last_token = [s \in Sessions |-> 0]
  /\ script = [s \in Sessions |-> NoCall]
  /\ update = Loop("idle", {})
  /\ begun = {} /\ dropped = {} /\ late = {} /\ denied = {}

-----------------------------------------------------------------------------
(* on_lua_start and on_lua_stop.                                           *)

UnusedStates == States \ UNION { Range(states[s]) : s \in Sessions }

(* The session is stored, and visible to on_update, before it has aliases. *)
PublishSession ==
  /\ HostIdle
  /\ \E s \in Sessions, own \in UNION { [1..n -> UnusedStates] : n \in 1..2 } :
       /\ phase[s] = "new"
       /\ IsInjective(own)
       /\ phase' = [phase EXCEPT ![s] = "starting"]
       /\ states' = [states EXCEPT ![s] = own]
       /\ starting' = own
  /\ UNCHANGED <<aliases_, native, lua, update, history>>

RegisterState ==
  /\ \E s \in Sessions :
       /\ phase[s] = "starting" /\ starting # <<>>
       /\ aliases_' = [aliases_ EXCEPT ![Head(starting)] = s]
       /\ starting' = Tail(starting)
  /\ UNCHANGED <<phase, states, native, lua, update, history>>

(* Every alias of the session goes, and no other. *)
UnbindAliases(s) ==
  aliases_' = [a \in States |-> IF aliases_[a] = s THEN NoSession ELSE aliases_[a]]

(* An alias or the registry's session cannot be allocated. *)
StartFails_KeepsAliases ==
  /\ \E s \in Sessions :
       /\ phase[s] = "starting"
       /\ phase' = [phase EXCEPT ![s] = "erased"]
       /\ states' = [states EXCEPT ![s] = <<>>]
  /\ starting' = <<>>
  /\ UNCHANGED <<aliases_, native, lua, update, history>>

StartFails ==
  /\ \E s \in Sessions :
       /\ phase[s] = "starting"
       /\ UnbindAliases(s)
       /\ phase' = [phase EXCEPT ![s] = "erased"]
       /\ states' = [states EXCEPT ![s] = <<>>]
  /\ starting' = <<>>
  /\ UNCHANGED <<native, lua, update, history>>

StartReturns ==
  /\ starting = <<>>
  /\ \E s \in Sessions :
       /\ phase[s] = "starting"
       /\ phase' = [phase EXCEPT ![s] = "active"]
  /\ UNCHANGED <<states, aliases_, starting, native, lua, update, history>>

StopClears ==
  /\ HostIdle
  /\ \E x \in Sessions :
       /\ phase[x] = "active"
       /\ LET s == aliases_[states[x][1]] IN
            /\ s # NoSession
            /\ loop_start_callbacks' = [loop_start_callbacks EXCEPT ![s] = {}]
            /\ loop_start_delivered' = [loop_start_delivered EXCEPT ![s] = TRUE]
            /\ phase' = [phase EXCEPT ![s] = "stopping"]
  /\ UNCHANGED <<states, aliases_, starting, lua, update, history>>

StopDeactivates ==
  /\ \E s \in Sessions :
       /\ phase[s] = "stopping"
       /\ phase' = [phase EXCEPT ![s] = "inactive"]
  /\ UNCHANGED <<states, aliases_, starting, native, lua, update, history>>

(* The aliases go last; then the host closes the states, which nothing uses. *)
StopReturns ==
  /\ \E s \in Sessions :
       /\ phase[s] = "inactive"
       /\ ~Calling(s) /\ script[s] = NoCall
       /\ UnbindAliases(s)
       /\ phase' = [phase EXCEPT ![s] = "closed"]
       /\ states' = [states EXCEPT ![s] = <<>>]
       /\ callbacks' = [callbacks EXCEPT ![s] = {}]
  /\ UNCHANGED <<starting, native, last_token, script, update, history>>

-----------------------------------------------------------------------------
(* The script's calls: a Lua half and a native half.                       *)

OnLoopStart ==
  /\ \E s \in Sessions :
       /\ Scripting(s) /\ script[s] = NoCall
       /\ FoldFunction(+, 0, last_token) < MaxTokens
       /\ last_token' = [last_token EXCEPT ![s] = @ + 1]
       /\ callbacks' = [callbacks EXCEPT ![s] = @ \cup {last_token'[s]}]
       /\ script' = [script EXCEPT ![s] = [op |-> "register", token |-> last_token'[s]]]
  /\ UNCHANGED <<session, native, update, history>>

MayRegister_AfterDelivery(s) ==
  Active(s) /\ Cardinality(loop_start_callbacks[s]) < Capacity

(* The session is looked up before the mutex is taken again.  A stop between
   the two has closed registration before it lowers the flag, so one look at
   both decides the same. *)
MayRegister(s) ==
  /\ Active(s)
  /\ ~loop_start_delivered[s]
  /\ Cardinality(loop_start_callbacks[s]) < Capacity

Registers(s) == script[s] # NoCall /\ script[s].op = "register"

RegisterLoopStart(s) ==
  /\ Registers(s) /\ MayRegister(s)
  /\ loop_start_callbacks' = [loop_start_callbacks EXCEPT ![s] = @ \cup {script[s].token}]
  /\ script' = [script EXCEPT ![s] = NoCall]
  /\ UNCHANGED <<session, loop_start_delivered, callbacks, last_token, update, history>>

(* The native side refuses, and the Lua side forgets the callback again. *)
RegistrationFails(s) ==
  /\ Registers(s) /\ ~MayRegister(s)
  /\ callbacks' = [callbacks EXCEPT ![s] = @ \ {script[s].token}]
  /\ script' = [script EXCEPT ![s] = NoCall]
  /\ UNCHANGED <<session, native, last_token, update, history>>

(* The function onLoopStart returned: it first forgets the callback. *)
Cancel_KeepsCallback ==
  /\ \E s \in Sessions :
       /\ Scripting(s) /\ script[s] = NoCall
       /\ \E t \in callbacks[s] :
            /\ dropped' = dropped \cup {<<s, t>>}
            /\ script' = [script EXCEPT ![s] = [op |-> "cancel", token |-> t]]
  /\ UNCHANGED <<session, native, callbacks, last_token, update, begun, late, denied>>

Cancel ==
  /\ \E s \in Sessions :
       /\ Scripting(s) /\ script[s] = NoCall
       /\ \E t \in callbacks[s] :
            /\ callbacks' = [callbacks EXCEPT ![s] = @ \ {t}]
            /\ dropped' = dropped \cup {<<s, t>>}
            /\ script' = [script EXCEPT ![s] = [op |-> "cancel", token |-> t]]
  /\ UNCHANGED <<session, native, last_token, update, begun, late, denied>>

(* Its answer is whether the native side still had the token. *)
CancelLoopStart(s) ==
  /\ script[s] # NoCall /\ script[s].op = "cancel"
  /\ LET t == script[s].token
         erased == Active(s) /\ t \in loop_start_callbacks[s]
     IN
       /\ loop_start_callbacks' =
            [loop_start_callbacks EXCEPT ![s] = IF erased THEN @ \ {t} ELSE @]
       /\ denied' = IF erased THEN denied ELSE denied \cup {<<s, t>>}
  /\ script' = [script EXCEPT ![s] = NoCall]
  /\ UNCHANGED <<session, loop_start_delivered, callbacks, last_token, update, begun, dropped,
                 late>>

(* UnbindAll, for the game thread only, clears every table of callbacks. *)
UnbindAll ==
  /\ \E s \in Sessions :
       /\ Scripting(s) /\ script[s] = NoCall /\ ~Running(s)
       /\ callbacks[s] # {}
       /\ callbacks' = [callbacks EXCEPT ![s] = {}]
       /\ dropped' = dropped \cup ({s} \X callbacks[s])
  /\ UNCHANGED <<session, native, last_token, script, update, begun, late, denied>>

-----------------------------------------------------------------------------
(* flush_loop_start_callbacks.                                             *)

Due(s) == Active(s) /\ ~loop_start_delivered[s]

(* Under session_mutex_: every session is delivered once, all of it. *)
FlushCollects ==
  /\ update.at = "idle"
  /\ LET due == { s \in Sessions : Due(s) }
     IN update' = Loop("flush", UNION { {s} \X loop_start_callbacks[s] : s \in due })
  /\ loop_start_delivered' = [s \in Sessions |-> loop_start_delivered[s] \/ Due(s)]
  /\ loop_start_callbacks' =
       [s \in Sessions |-> IF Due(s) THEN {} ELSE loop_start_callbacks[s]]
  /\ UNCHANGED <<session, lua, history>>

(* Sessions and tokens come in the order of their hash tables. *)
CheckSession_Unchecked ==
  /\ update.at = "flush"
  /\ \E x \in update.pending :
       update' = [at |-> "call", pending |-> update.pending \ {x}, callback |-> x]
  /\ UNCHANGED <<session, native, lua, history>>

CheckSession ==
  /\ update.at = "flush"
  /\ \E x \in update.pending :
       LET rest == update.pending \ {x} IN
       update' = IF Active(x[1]) THEN [at |-> "call", pending |-> rest, callback |-> x]
                 ELSE Loop("flush", rest)
  /\ UNCHANGED <<session, native, lua, history>>

(* The dispatcher takes the callback out of the table before it runs it. *)
Dispatch ==
  /\ update.at = "call"
  /\ LET x == update.callback
         s == x[1]
         t == x[2]
     IN
       /\ script[s] = NoCall
       /\ callbacks' = [callbacks EXCEPT ![s] = @ \ {t}]
       /\ IF t \in callbacks[s]
          THEN /\ update' = [update EXCEPT !.at = "running"]
               /\ begun' = begun \cup {x}
               /\ late' = IF Active(s) THEN late ELSE late \cup {x}
          ELSE /\ update' = Loop("flush", update.pending)
               /\ UNCHANGED <<begun, late>>
  /\ UNCHANGED <<session, native, last_token, script, dropped, denied>>

(* The callback returns, or its error is caught and reported. *)
CallbackEnds ==
  /\ update.at = "running"
  /\ script[update.callback[1]] = NoCall
  /\ update' = Loop("flush", update.pending)
  /\ UNCHANGED <<session, native, lua, history>>

FlushReturns ==
  /\ update.at = "flush" /\ update.pending = {}
  /\ update' = Loop("idle", {})
  /\ UNCHANGED <<session, native, lua, history>>

-----------------------------------------------------------------------------
Update == FlushCollects \/ CheckSession \/ Dispatch \/ CallbackEnds \/ FlushReturns

Native(s) == RegisterLoopStart(s) \/ RegistrationFails(s) \/ CancelLoopStart(s)

Next ==
  \/ PublishSession \/ RegisterState \/ StartFails \/ StartReturns
  \/ StopClears \/ StopDeactivates \/ StopReturns
  \/ OnLoopStart \/ Cancel \/ UnbindAll
  \/ \E s \in Sessions : Native(s)
  \/ Update

(* The host keeps calling on_update, callbacks return, and a native call that
   was begun is finished. *)
Fairness == WF_vars(Update) /\ \A s \in Sessions : WF_vars(Native(s))

Spec == Init /\ [][Next]_vars /\ Fairness

-----------------------------------------------------------------------------
(* The variables have their types, and a session has at most Capacity
   registered callbacks: register_loop_start refuses the next one. *)
TypeOK ==
  /\ phase \in [Sessions -> {"new", "starting", "active", "stopping", "inactive", "closed", "erased"}]
  /\ states \in [Sessions -> Seq(States)] /\ starting \in Seq(States)
  /\ aliases_ \in [States -> Sessions \cup {NoSession}]
  /\ loop_start_callbacks \in [Sessions -> SUBSET Nat]
  /\ \A s \in Sessions : /\ IsFiniteSet(loop_start_callbacks[s])
                          /\ Cardinality(loop_start_callbacks[s]) <= Capacity
  /\ loop_start_delivered \in [Sessions -> BOOLEAN]
  /\ callbacks \in [Sessions -> SUBSET Nat]
  /\ last_token \in [Sessions -> Nat]
  /\ script \in [Sessions -> [op : {"none", "register", "cancel"}, token : Nat]]
  /\ update \in [at : {"idle", "flush", "call", "running"}, pending : SUBSET Callbacks,
                 callback : Callbacks \cup {<<NoSession, 0>>}]
  /\ update.at \in {"call", "running"} => update.callback \in Callbacks
  /\ begun \subseteq Callbacks /\ dropped \subseteq Callbacks
  /\ late \subseteq begun /\ denied \subseteq Callbacks

(* A callback begins at most once, and never after it was cancelled or cleared
   by UnbindAll, even if on_update had already taken its token. *)
OneChance ==
  [][ (update.at = "call" /\ update'.at = "running")
        => update'.callback \notin begun \cup dropped ]_vars

(* on_update looks at a session and calls its dispatcher in two steps, so a
   stop may be overtaken by one callback of the session, and not by two. *)
AtMostOneLateCallback ==
  \A s \in Sessions : Cardinality({ x \in late : x[1] = s }) <= 1

(* Every Lua state of a session that on_lua_start has returned for resolves to
   that session until on_lua_stop is done with it, so that the stop finds it,
   and no other state resolves to anything: not after a failed start, and not
   when an address is used again. *)
AliasesExact ==
  /\ TypeOK
  /\ \A s \in Sessions :
       /\ Scripting(s) => \A a \in Range(states[s]) : aliases_[a] = s
       /\ \A a \in States : aliases_[a] = s => a \in Range(states[s])

(* A registered callback begins, or its script takes it back, or its session
   stops: none falls between registration and the one delivery. *)
RegisteredRuns ==
  \A s \in Sessions, t \in 1..MaxTokens :
    t \in loop_start_callbacks[s]
      ~> (<<s, t>> \in begun \cup dropped \/ phase[s] # "active")

(* What DEVELOPERS.md says of the function onLoopStart returns: it "cancels a
   callback that has not yet run and returns whether cancellation succeeded".
   So, while the session runs, it answers false for no callback that it has
   kept from running. *)
CancelAnswersWhetherItCancelled ==
  \A x \in denied \cap dropped : phase[x[1]] # "active"
=============================================================================
