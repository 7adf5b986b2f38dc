------------------------- MODULE LifecycleRegistry -------------------------
(***************************************************************************)
(* Object lifetimes: LifecycleRegistry with its callers in BridgeMod and   *)
(* the part of Unreal's object array they depend on.                       *)
(*                                                                         *)
(* A Lua session captures an object on the game thread: the object's       *)
(* identity (address, index, serial number) is read from memory without    *)
(* any lock and registered under the registry's mutex afterwards.  Objects *)
(* come and go on any thread; the array tells the registry, which drops    *)
(* the observations of the slot and of the address and queues the losses.  *)
(*                                                                         *)
(* Tokens are never reused, so `record' keeps what each stands for, and    *)
(* the registry's maps are sets of tokens.  BridgeMod's own test that the  *)
(* session is active is left out: a call may come from any session at any  *)
(* time.  Name_Mistake is Name with a mistake in it.                       *)
(***************************************************************************)
EXTENDS Naturals, Sequences, FiniteSets, Functions

CONSTANTS
  Sessions,          \* Lua sessions
  Indices,           \* slots of Unreal's object array
  Addresses,         \* addresses objects may have
  ObservationLimit,  \* observation_limit_, per session
  LossLimit,         \* loss_limit_, per session
  MaxObjects,        \* bound: objects ever created
  MaxTokens,         \* bound: tokens ever given out
  MaxReferences      \* bound: captures of one token held together

ASSUME BoundsAssumption ==
  /\ ObservationLimit \in Nat /\ LossLimit \in Nat
  /\ MaxObjects \in Nat /\ MaxTokens \in Nat /\ MaxReferences \in Nat \ {0}

VARIABLES
  slots,             \* by index, the object array's item and what becomes of it
  address,           \* the addresses of the objects created, oldest first
  due,               \* history: by index, what the notification under way has
                     \* to end
  service,           \* the listeners and the flag that lets calls through
  sessions_,         \* "new", then registered, then "gone"
  record,            \* every observation ever made, the token is the index
  observations,      \* by session, the tokens in SessionState::observations
  tokens,            \* by session, the tokens in SessionState::tokens
  references,        \* Observation::references, by token
  by_index, by_address,  \* the tokens with a watch in each index
  observed,          \* observed_, read without the mutex
  report_losses, lost, overflow,  \* SessionState, by session
  released, taken,   \* history: tokens released in full and taken as lost
  game               \* the call the game thread is in, and what it has read

engine == <<slots, address, due>>
watches == <<observations, tokens, by_index, by_address, observed>>
losses == <<report_losses, lost, overflow>>
history == <<released, taken>>
vars == <<engine, service, sessions_, record, watches, references, losses, history, game>>

TokenIds == 1..MaxTokens
Registered(x) == sessions_[x] = "registered"
Observed == UNION { observations[x] : x \in Sessions }

(* lifetime_service_ready, and the time the listeners are in Unreal's lists. *)
Ready == service = "ready"
Listening == service \in {"listening", "ready", "stopping"}

FreeSlot == [object |-> 0, serial |-> 0, phase |-> "free"]
NoCall == [op |-> "none"]

Init ==
  /\ slots = [i \in Indices |-> FreeSlot]
  /\ address = <<>>
  /\ due = [i \in Indices |-> {}]
  /\ service = "off"
  /\ sessions_ = [x \in Sessions |-> "new"]
  /\ record = <<>>
  /\ observations = [x \in Sessions |-> {}] /\ tokens = [x \in Sessions |-> {}]
  /\ references = [t \in TokenIds |-> 0]
  /\ by_index = {} /\ by_address = {} /\ observed = 0
  /\ report_losses = [x \in Sessions |-> FALSE]
  /\ lost = [x \in Sessions |-> <<>>]
  /\ overflow = [x \in Sessions |-> FALSE]
  /\ released = {} /\ taken = {}
  /\ game = NoCall

-----------------------------------------------------------------------------
(* The registry, under its mutex.                                          *)

SameIdentity(r, s) == r.address = s.address /\ r.index = s.index /\ r.serial = s.serial

(* publish_count: a token belongs to one session, so the sum over the sessions
   is the size of the union. *)
PublishCount == observed' = Cardinality(Observed')

Drop_KeepsAddressWatch(gone) ==
  /\ observations' = [x \in Sessions |-> observations[x] \ gone]
  /\ tokens' = [x \in Sessions |-> tokens[x] \ gone]
  /\ by_index' = by_index \ gone
  /\ UNCHANGED by_address
  /\ PublishCount

(* Observations end: unwatched, forgotten, counted out. *)
Drop(gone) ==
  /\ observations' = [x \in Sessions |-> observations[x] \ gone]
  /\ tokens' = [x \in Sessions |-> tokens[x] \ gone]
  /\ by_index' = by_index \ gone
  /\ by_address' = by_address \ gone
  /\ PublishCount

(* The session's own state is created empty and erased as a whole. *)
Forget(gone) ==
  /\ sessions_' = [x \in Sessions |-> IF x \in gone THEN "gone" ELSE sessions_[x]]
  /\ report_losses' = [x \in Sessions |-> report_losses[x] /\ x \notin gone]
  /\ lost' = [x \in Sessions |-> IF x \in gone THEN <<>> ELSE lost[x]]
  /\ overflow' = [x \in Sessions |-> overflow[x] /\ x \notin gone]

StartSession ==
  /\ \E x \in Sessions :
       /\ sessions_[x] = "new"
       /\ sessions_' = [sessions_ EXCEPT ![x] = "registered"]
  /\ UNCHANGED <<engine, service, record, watches, references, losses, history, game>>

StopSession ==
  /\ \E x \in Sessions :
       /\ Registered(x)
       /\ Drop(observations[x])
       /\ Forget({x})
  /\ UNCHANGED <<engine, service, record, references, history, game>>

ReportLosses ==
  /\ \E x \in Sessions :
       /\ Registered(x)
       /\ report_losses' = [report_losses EXCEPT ![x] = TRUE]
  /\ UNCHANGED <<engine, service, sessions_, record, watches, references, lost, overflow,
                 history, game>>

TakeLost_NotPopped ==
  /\ Ready
  /\ \E x \in Sessions :
       /\ Registered(x)
       /\ report_losses' = [report_losses EXCEPT ![x] = TRUE]
       /\ IF overflow[x] \/ lost[x] = <<>> THEN UNCHANGED taken
          ELSE taken' = taken \cup {Head(lost[x])}
  /\ UNCHANGED <<engine, service, sessions_, record, watches, references, lost, overflow,
                 released, game>>

(* One loss at a time; asking also opts in. *)
TakeLost ==
  /\ Ready
  /\ \E x \in Sessions :
       /\ Registered(x)
       /\ report_losses' = [report_losses EXCEPT ![x] = TRUE]
       /\ IF overflow[x] \/ lost[x] = <<>> THEN UNCHANGED <<lost, taken>>
          ELSE /\ taken' = taken \cup {Head(lost[x])}
               /\ lost' = [lost EXCEPT ![x] = Tail(@)]
  /\ UNCHANGED <<engine, service, sessions_, record, watches, references, overflow,
                 released, game>>

(* A capture is given back; the last one ends the observation, without a loss. *)
Release ==
  /\ \E x \in Sessions : \E t \in observations[x] :
       /\ references' = [references EXCEPT ![t] = @ - 1]
       /\ IF references[t] > 1 THEN UNCHANGED <<watches, released>>
          ELSE Drop({t}) /\ released' = released \cup {t}
  /\ UNCHANGED <<engine, service, sessions_, record, losses, taken, game>>

-----------------------------------------------------------------------------
(* Calls on the game thread that read an object's identity first.          *)

(* lifetime_capture and lifetime_valid begin: nothing has been read. *)
Call(op, x, a, t) ==
  [op |-> op, at |-> "object", session |-> x, address |-> a, token |-> t,
   index |-> 0, serial |-> 0, object |-> 0]

CallCapture ==
  /\ game = NoCall /\ Ready
  /\ \E x \in Sessions, a \in Addresses :
       game' = Call("capture", x, a, 0)
  /\ UNCHANGED <<engine, service, sessions_, record, watches, references, losses, history>>

CallValid ==
  /\ game = NoCall /\ Ready
  /\ \E x \in Sessions, a \in Addresses, t \in DOMAIN record :
       game' = Call("valid", x, a, t)
  /\ UNCHANGED <<engine, service, sessions_, record, watches, references, losses, history>>

(* read_object_identity: an index from the memory at the address, which may
   have been freed and hold any; that slot's item must point back. *)
ReadObject ==
  /\ game.op # "none" /\ game.at = "object"
  /\ \/ \E i \in Indices :
          /\ slots[i].object # 0 /\ address[slots[i].object] = game.address
          /\ game' = [game EXCEPT !.at = "serial", !.index = i]
     \/ game' = NoCall
  /\ UNCHANGED <<engine, service, sessions_, record, watches, references, losses, history>>

ReadSerial_AcceptsNone ==
  /\ game.op # "none" /\ game.at = "serial"
  /\ game' = [game EXCEPT !.at = "locked", !.serial = slots[game.index].serial,
                            !.object = slots[game.index].object]
  /\ UNCHANGED <<engine, service, sessions_, record, watches, references, losses, history>>

(* The serial number is read from the item afterwards; none yet is a failure.
   `object' remembers whose it was. *)
ReadSerial ==
  /\ game.op # "none" /\ game.at = "serial"
  /\ game' = IF slots[game.index].serial = 0 THEN NoCall
             ELSE [game EXCEPT !.at = "locked", !.serial = slots[game.index].serial,
                               !.object = slots[game.index].object]
  /\ UNCHANGED <<engine, service, sessions_, record, watches, references, losses, history>>

Capturing == game.op = "capture" /\ game.at = "locked"
Existing == { t \in tokens[game.session] : SameIdentity(record[t], game) }

MayCapture_WhenFaulted == Registered(game.session)

(* A session that is gone or faulted captures nothing. *)
MayCapture == Registered(game.session) /\ ~overflow[game.session]

CaptureRefused ==
  /\ Capturing
  /\ \/ ~MayCapture
     \/ Existing = {} /\ Cardinality(observations[game.session]) >= ObservationLimit
  /\ game' = NoCall
  /\ UNCHANGED <<engine, service, sessions_, record, watches, references, losses, history>>

(* The same object again: the same token. *)
CaptureRepeats ==
  /\ Capturing /\ MayCapture
  /\ \E t \in Existing :
       /\ references[t] < MaxReferences
       /\ references' = [references EXCEPT ![t] = @ + 1]
  /\ game' = NoCall
  /\ UNCHANGED <<engine, service, sessions_, record, watches, losses, history>>

NewRecord ==
  [session |-> game.session, address |-> game.address, index |-> game.index,
   serial |-> game.serial, object |-> game.object,
   reporting |-> report_losses[game.session]]

CaptureAdds ==
  /\ Capturing /\ MayCapture
  /\ Existing = {} /\ Cardinality(observations[game.session]) < ObservationLimit
  /\ Len(record) < MaxTokens
  /\ LET t == Len(record) + 1
     IN /\ record' = Append(record, NewRecord)
        /\ observations' = [observations EXCEPT ![game.session] = @ \cup {t}]
        /\ tokens' = [tokens EXCEPT ![game.session] = @ \cup {t}]
        /\ references' = [references EXCEPT ![t] = 1]
        /\ by_index' = by_index \cup {t}
        /\ by_address' = by_address \cup {t}
  /\ PublishCount
  /\ game' = NoCall
  /\ UNCHANGED <<engine, service, sessions_, losses, history>>

(* LifecycleRegistry::valid. *)
Valid(x, t, identity) ==
  /\ Registered(x) /\ ~overflow[x]
  /\ t \in observations[x] /\ SameIdentity(record[t], identity)

ValidReturns ==
  /\ game.op = "valid" /\ game.at = "locked"
  /\ game' = NoCall
  /\ UNCHANGED <<engine, service, sessions_, record, watches, references, losses, history>>

-----------------------------------------------------------------------------
(* Unreal's object array, and the notifications that reach the registry.   *)

(* An object is put into a free slot; its creation is announced after that. *)
CreateObject ==
  /\ Len(address) < MaxObjects
  /\ \E i \in Indices, a \in Addresses :
       /\ slots[i].phase = "free"
       /\ \A j \in Indices : slots[j].object # 0 => address[slots[j].object] # a
       /\ address' = Append(address, a)
       /\ slots' = [slots EXCEPT ![i] =
            [object |-> Len(address) + 1, serial |-> 0, phase |-> "created"]]
  /\ UNCHANGED <<due, service, sessions_, record, watches, references, losses, history, game>>

(* The first weak reference gives an object its serial number, unlike any other. *)
AllocateSerial ==
  /\ \E i \in Indices :
       /\ slots[i].phase \in {"created", "creating", "live"} /\ slots[i].serial = 0
       /\ slots' = [slots EXCEPT ![i].serial = slots[i].object]
  /\ UNCHANGED <<address, due, service, sessions_, record, watches, references, losses,
                 history, game>>

DeleteObject ==
  /\ \E i \in Indices :
       /\ slots[i].phase = "live"
       /\ slots' = [slots EXCEPT ![i].phase = "deleted"]
  /\ UNCHANGED <<address, due, service, sessions_, record, watches, references, losses,
                 history, game>>

(* What collect finds in the two indexes, by slot or by address. *)
Matched_ByIndex(i) == { t \in by_index : record[t].index = i }

Matched(i) ==
  { t \in by_index : record[t].index = i }
    \cup { t \in by_address : record[t].address = address[slots[i].object] }

(* The notification of the creation or deletion in slot i is over. *)
Notified(i) ==
  /\ slots' = [slots EXCEPT ![i].phase = IF @ \in {"created", "creating"} THEN "live" ELSE "dying"]
  /\ due' = [due EXCEPT ![i] = {}]

(* The observations of the slot or of the address. *)
Concerned(i) ==
  { t \in Observed : record[t].index = i \/ record[t].address = address[slots[i].object] }

(* invalidate looks at the count without the mutex. *)
NotifyBegins ==
  /\ \E i \in Indices :
       /\ slots[i].phase \in {"created", "deleted"}
       /\ IF Listening /\ observed # 0
          THEN /\ slots' = [slots EXCEPT ![i].phase =
                              IF @ = "created" THEN "creating" ELSE "deleting"]
               /\ due' = [due EXCEPT ![i] = Concerned(i)]
          ELSE Notified(i)
  /\ UNCHANGED <<address, service, sessions_, record, watches, references, losses, history,
                 game>>

(* The ways to put the elements of a set in a row. *)
Rows(S) == { s \in [1..Cardinality(S) -> S] : IsInjective(s) }

(* Sessions that asked hear of their losses; one too many faults the session. *)
Lose(gone) ==
  \E rows \in [Sessions -> UNION { Rows(gone \cap observations[x]) : x \in Sessions }] :
    LET queues(x) == report_losses[x] /\ ~overflow[x] /\ gone \cap observations[x] # {}
        fits(x) == Len(lost[x]) + Len(rows[x]) <= LossLimit
    IN /\ \A x \in Sessions : rows[x] \in Rows(gone \cap observations[x])
       /\ lost' = [x \in Sessions |->
            IF queues(x) THEN IF fits(x) THEN lost[x] \o rows[x] ELSE <<>> ELSE lost[x]]
       /\ overflow' = [x \in Sessions |-> overflow[x] \/ (queues(x) /\ ~fits(x))]

(* invalidate, under the mutex. *)
Invalidate ==
  /\ \E i \in Indices :
       /\ slots[i].phase \in {"creating", "deleting"}
       /\ Drop(Matched(i) \cap Observed)
       /\ Lose(Matched(i) \cap Observed)
       /\ Notified(i)
  /\ UNCHANGED <<address, service, sessions_, record, references, report_losses, history, game>>

(* The slot is freed, and with it the serial number. *)
FreeObject ==
  /\ \E i \in Indices :
       /\ slots[i].phase = "dying"
       /\ slots' = [slots EXCEPT ![i] = FreeSlot]
  /\ UNCHANGED <<address, due, service, sessions_, record, watches, references, losses,
                 history, game>>

-----------------------------------------------------------------------------
(* The lifetime service: listeners first, then calls; and the way back.    *)

StartService ==
  /\ service \in {"off", "listening"}
  /\ service' = IF service = "off" THEN "listening" ELSE "ready"
  /\ UNCHANGED <<engine, sessions_, record, watches, references, losses, history, game>>

(* Also when it has never been started. *)
StopService ==
  /\ service \in {"off", "ready", "stopping"}
  /\ service' = IF service = "ready" THEN "stopping" ELSE "removed"
  /\ UNCHANGED <<engine, sessions_, record, watches, references, losses, history, game>>

(* LifecycleRegistry::shutdown. *)
ShutdownRegistry ==
  /\ service = "removed"
  /\ service' = "down"
  /\ Drop(Observed)
  /\ Forget({ x \in Sessions : Registered(x) })
  /\ UNCHANGED <<engine, record, references, history, game>>

Registry == StartSession \/ StopSession \/ ReportLosses \/ TakeLost \/ Release

Game == CallCapture \/ CallValid \/ ReadObject \/ ReadSerial \/ CaptureRefused
        \/ CaptureRepeats \/ CaptureAdds \/ ValidReturns

ObjectArray == CreateObject \/ AllocateSerial \/ DeleteObject \/ NotifyBegins \/ Invalidate
               \/ FreeObject

Service == StartService \/ StopService \/ ShutdownRegistry

Next == Registry \/ Game \/ ObjectArray \/ Service

Spec == Init /\ [][Next]_vars

-----------------------------------------------------------------------------
ArrayOK ==
  /\ slots \in [Indices -> [object : 0..MaxObjects, serial : 0..MaxObjects,
       phase : {"free", "created", "creating", "live", "deleted", "deleting", "dying"}]]
  /\ address \in Seq(Addresses) /\ Len(address) <= MaxObjects
  /\ \A i \in Indices : slots[i].object <= Len(address)
  /\ due \in [Indices -> SUBSET TokenIds]

RegistryOK ==
  /\ service \in {"off", "listening", "ready", "stopping", "removed", "down"}
  /\ sessions_ \in [Sessions -> {"new", "registered", "gone"}]
  /\ record \in Seq([session : Sessions, address : Addresses, index : Indices,
                     serial : 0..MaxObjects, object : 0..MaxObjects, reporting : BOOLEAN])
  /\ Len(record) <= MaxTokens
  /\ observations \in [Sessions -> SUBSET DOMAIN record]
  /\ tokens \in [Sessions -> SUBSET DOMAIN record]
  /\ references \in [TokenIds -> 0..MaxReferences]
  /\ by_index \subseteq DOMAIN record /\ by_address \subseteq DOMAIN record
  /\ observed \in Nat

LossesOK ==
  /\ report_losses \in [Sessions -> BOOLEAN] /\ overflow \in [Sessions -> BOOLEAN]
  /\ DOMAIN lost = Sessions /\ \A x \in Sessions : lost[x] \in Seq(DOMAIN record)
  /\ released \subseteq DOMAIN record /\ taken \subseteq DOMAIN record

(* A call of the game thread knows its slot once it has read the object. *)
GameOK ==
  \/ game = NoCall
  \/ /\ game \in [op : {"capture", "valid"}, at : {"object", "serial", "locked"},
                  session : Sessions, address : Addresses, token : {0} \cup DOMAIN record,
                  index : Indices \cup {0}, serial : 0..MaxObjects, object : 0..MaxObjects]
     /\ game.at # "object" => game.index \in Indices
     /\ game.op = "valid" => game.token \in DOMAIN record

TypeOK == ArrayOK /\ RegistryOK /\ LossesOK /\ GameOK

(* The registry's five structures tell of the same observations: both indexes,
   the identity map and the published count, and a session observes no object
   under two tokens. *)
IndexesAgree ==
  /\ TypeOK
  /\ by_index = Observed /\ by_address = Observed /\ tokens = observations
  /\ observed = Cardinality(Observed)
  /\ \A x \in Sessions : \A t \in observations[x] :
       /\ Registered(x) /\ record[t].session = x /\ references[t] > 0
       /\ \A u \in observations[x] : SameIdentity(record[t], record[u]) => t = u

(* Whenever valid answers yes, the object that lives at the address was there
   when the token was captured: no successor in the same slot or at the same
   address is taken for it, whatever happened between the unlocked reads. *)
ValidMeansSameObject ==
  (game.op = "valid" /\ game.at = "locked" /\ Valid(game.session, game.token, game))
    => record[game.token].object = game.object

(* A notification ends every observation of its slot or address that was
   registered when it began, although it may not even take the mutex. *)
NotificationEndsObservations ==
  [][\A i \in Indices :
       LET ends == slots'[i].phase \in {"live", "dying"}
       IN /\ (slots[i].phase \in {"created", "deleted"} /\ ends /\ Listening)
               => Concerned(i) \cap Observed' = {}
          /\ (slots[i].phase \in {"creating", "deleting"} /\ ends)
               => due[i] \cap Observed' = {}]_vars

(* No loss goes missing and none is told twice: a token captured by a session
   that reports is observed, released, queued or taken, and only one of these,
   unless the session has been faulted or is gone. *)
LossesAccounted ==
  \A t \in DOMAIN record :
    LET x == record[t].session
    IN (record[t].reporting /\ Registered(x) /\ ~overflow[x]) =>
         /\ t \in Observed \cup released \cup taken \cup Range(lost[x])
         /\ Cardinality({ i \in DOMAIN lost[x] : lost[x][i] = t })
              + Cardinality({ S \in {1, 2, 3} :
                  t \in (CASE S = 1 -> Observed [] S = 2 -> released [] S = 3 -> taken) }) = 1

(* A session whose queue of losses has run over stays faulted: it hears of
   nothing more and captures nothing more until it is stopped. *)
FaultedFailsClosed ==
  [][\A x \in Sessions : (overflow[x] /\ sessions_'[x] = "registered") =>
       /\ overflow'[x] /\ lost'[x] = <<>>
       /\ observations'[x] \subseteq observations[x]
       /\ \A t \in observations'[x] : references'[t] <= references[t]]_vars
=============================================================================
