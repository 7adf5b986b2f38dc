--------------------------- MODULE DeliveryProofs ---------------------------
(***************************************************************************)
(* Proofs about how events and faults get from a delegate to Lua: what a   *)
(* purge, a failed callback, a fault report and a stop are final for, and  *)
(* that InputBackend uses its queue as DispatchQueue says.                 *)
(***************************************************************************)
EXTENDS InputBackendProofs

-----------------------------------------------------------------------------
(* How on_update moves. *)

(* A flush runs before the pass, before an event's tests and after a failure. *)
FlushInv == update.flush # "no" => update.at \in {"begin", "consume", "return"}

LEMMA FlushMoves ==
  ASSUME TypeInv, FlushStep
  PROVE  /\ update.flush # "no"
         /\ update'.at = update.at /\ update'.event = update.event
         /\ update'.flush = "check" => FlushTakes
         /\ update'.flush = "tell" =>
              /\ FlushChecks /\ update.flush = "check" /\ update'.target = update.target
              /\ target[update.target].session \in session_active
<1>1. update \in Places
  BY DEF TypeInv, TypeOK, ThreadsOK, Places
<1>2. CASE FlushPeeks \/ FlushEnds
  BY <1>1, <1>2 DEF FlushPeeks, FlushEnds, Places
<1>3. CASE FlushTakes
  BY <1>1, <1>3 DEF FlushTakes, Places
<1>4. CASE FlushChecks \/ FlushReports
  BY <1>1, <1>4 DEF FlushChecks, FlushReports, Places
<1>5. QED
  BY <1>2, <1>3, <1>4 DEF FlushStep

LEMMA PassMoves ==
  ASSUME TypeInv, FlushInv, PassStep
  PROVE  /\ update.flush = "no" /\ update'.flush \in {"no", "peek"}
         /\ update.at \in {"idle", "begin", "check", "take", "run", "publish"}
         /\ update'.at \in {"idle", "begin", "check", "take", "run", "publish", "consume"}
         /\ update'.flush # "no" => update'.at \in {"begin", "consume"}
<1>1. update \in Places
  BY DEF TypeInv, TypeOK, ThreadsOK, Places
<1>2. CASE BeginUpdate \/ PublishCount
  BY <1>1, <1>2 DEF BeginUpdate, PublishCount, At, FlushInv, Places
<1>3. CASE BeginPass \/ CheckReady \/ TakeEvents \/ EndPass
  BY <1>1, <1>3 DEF BeginPass, CheckReady, TakeEvents, EndPass, At, Go, Places
<1>4. CASE PopEvent \/ TimeExpires
  BY <1>1, <1>4 DEF PopEvent, TimeExpires, At, Places
<1>5. QED
  BY <1>2, <1>3, <1>4 DEF PassStep

LEMMA EventMoves ==
  ASSUME TypeInv, EventStep
  PROVE  /\ update.flush = "no"
         /\ update'.at = "call" => CheckEvent /\ update'.event = update.event
         /\ update'.at = "latch" => CallLua /\ update'.event = update.event
         /\ update'.at = "deactivate" => LatchError /\ update'.event = update.event
         /\ update'.at = "erase" => Deactivate /\ update'.event = update.event
         /\ update'.flush \in {"no", "peek"}
         /\ update'.flush # "no" => update'.at = "return"
<1> USE DEF Go, NextEvent, At
<1>1. update \in Places
  BY DEF TypeInv, TypeOK, ThreadsOK, Places
<1>2. CASE SkipEvent \/ ReturnFailed
  BY <1>1, <1>2 DEF SkipEvent, ReturnFailed, Places
<1>3. CASE CheckEvent
  BY <1>1, <1>3 DEF CheckEvent, Places
<1>4. CASE CallLua
  BY <1>1, <1>4 DEF CallLua, Places
<1>5. CASE LatchError
  BY <1>1, <1>5 DEF LatchError, Places
<1>6. CASE Deactivate \/ EraseEvents
  BY <1>1, <1>6 DEF Deactivate, EraseEvents, Places
<1>7. QED
  BY <1>2, <1>3, <1>4, <1>5, <1>6 DEF EventStep

(* Which steps write the histories. *)
LEMMA HistoryFrame ==
  ASSUME [Next]_vars
  PROVE  /\ CallLua \/ UNCHANGED thrown
         /\ EraseEvents \/ UNCHANGED purged
         /\ FlushReports \/ UNCHANGED reports
         /\ CallLua \/ FlushReports \/ UNCHANGED late
<1> USE DEF history
<1>1. CASE FlushStep
  BY <1>1 DEF FlushStep, FlushPeeks, FlushTakes, FlushChecks, FlushReports, FlushEnds
<1>2. CASE EventStep
  BY <1>2 DEF EventStep, SkipEvent, CheckEvent, CallLua, LatchError, Deactivate, EraseEvents,
     ReturnFailed
<1>3. QED
  BY <1>1, <1>2, PassFrame, UpdateFrame

LEMMA NextFlushInv ==
  ASSUME TypeInv, FlushInv, [Next]_vars
  PROVE  FlushInv'
<1> USE DEF FlushInv
<1>1. CASE FlushStep
  BY <1>1, FlushMoves
<1>2. CASE PassStep
  BY <1>2, PassMoves
<1>3. CASE EventStep
  BY <1>3, EventMoves
<1>4. QED
  BY <1>1, <1>2, <1>3, UpdateFrame

-----------------------------------------------------------------------------
(* Calls into a stopped session. *)

(* A call on its way is the first since its session's stop. *)
LateInv ==
  /\ \A x \in Sessions : late[x] # 0 => x \notin session_active /\ late[x] = 1
  /\ update.at = "call" => late[SessionOf(update.event.owner)] = 0
  /\ update.flush = "tell" => late[target[update.target].session] = 0

LEMMA OwnersKept ==
  ASSUME TypeInv, [Next]_vars
  PROVE  \A s \in DOMAIN subscription :
           /\ subscription'[s] = subscription[s]
           /\ target'[subscription[s].target] = target[subscription[s].target]
<1>1. \A s \in DOMAIN subscription : subscription[s].target \in DOMAIN target
  BY DEF TypeInv, HandlesInv, TargetOf
<1>2. QED
  BY <1>1, SubscriptionsKept, TargetsKept DEF TypeInv, TypeOK

(* Sessions stop for good. *)
LEMMA SessionsStop ==
  ASSUME [Next]_vars
  PROVE  session_active' \subseteq session_active
  BY DeliveryFrame DEF StopOnGameThread, StopOffGameThread

LEMMA OvertakenFacts ==
  ASSUME TypeInv, LateInv, NEW x \in Sessions, late[x] = 0, late' = Overtaken(x),
         session_active' \subseteq session_active
  PROVE  \A y \in Sessions : late'[y] # 0 => y \notin session_active' /\ late'[y] = 1
<1>1. late \in [Sessions -> Nat]
  BY DEF TypeInv, TypeOK, HistoryOK
<1>2. CASE x \in session_active
  BY <1>2 DEF Overtaken, LateInv
<1>3. CASE x \notin session_active
  <2>1. late'[x] = 1 /\ \A y \in Sessions \ {x} : late'[y] = late[y]
    BY <1>1, <1>3 DEF Overtaken
  <2>2. QED
    BY <1>3, <2>1 DEF LateInv
<1>4. QED
  BY <1>2, <1>3

LEMMA NextLateInv ==
  ASSUME TypeInv, FlushInv, LateInv, [Next]_vars
  PROVE  LateInv'
<1>1. /\ update.at = "call" =>
           update.event.owner \in DOMAIN subscription /\ SessionOf(update.event.owner) \in Sessions
      /\ update.flush \in {"check", "tell"} =>
           update.target \in DOMAIN target /\ target[update.target].session \in Sessions
  BY RecordsOK DEF TypeInv, TypeOK, HandlesInv, Handling, SessionOf
<1>2. \A x \in Sessions : late'[x] # 0 => x \notin session_active' /\ late'[x] = 1
  <2>1. CASE FlushReports
    BY <1>1, <2>1, OvertakenFacts, SessionsStop DEF FlushReports, LateInv
  <2>2. CASE CallLua
    BY <1>1, <2>2, OvertakenFacts, SessionsStop DEF CallLua, LateInv, At
  <2>3. CASE UNCHANGED late
    BY <2>3, SessionsStop DEF LateInv
  <2>4. QED
    BY <2>1, <2>2, <2>3, HistoryFrame
<1>3. update'.at = "call" => late'[SessionOf(update.event.owner)'] = 0
  <2> SUFFICES ASSUME update'.at = "call"
               PROVE  late'[target'[subscription'[update'.event.owner].target].session] = 0
    BY DEF SessionOf, TargetOf
  <2>1. CASE CheckEvent
    <3>1. /\ update'.event = update.event /\ update.event.owner \in DOMAIN subscription
          /\ late' = late /\ SessionOf(update.event.owner) \in session_active
      BY <2>1, EventMoves DEF CheckEvent, EventStep, Callback, At, history, TypeInv, HandlesInv,
         Handling
    <3>2. SessionOf(update.event.owner) \in Sessions
      BY <3>1, RecordsOK DEF TypeInv, TypeOK, HandlesInv, SessionOf
    <3>3. late[SessionOf(update.event.owner)] = 0
      BY <3>1, <3>2 DEF LateInv
    <3>4. QED
      BY <3>1, <3>3, OwnersKept DEF SessionOf, TargetOf
  <2>2. CASE update'.at = update.at /\ update'.event = update.event /\ late' = late
    BY <1>1, <2>2, OwnersKept DEF LateInv, SessionOf, TargetOf
  <2>3. CASE FlushStep
    BY <2>3, FlushMoves DEF FlushInv
  <2>4. QED
    BY <2>1, <2>2, <2>3, PassMoves, EventMoves, UpdateFrame DEF history
<1>4. update'.flush = "tell" => late'[target'[update'.target].session] = 0
  <2> SUFFICES ASSUME update'.flush = "tell" PROVE late'[target'[update'.target].session] = 0
    OBVIOUS
  <2>1. CASE FlushStep
    <3>1. /\ late' = late /\ update'.target = update.target /\ update.flush = "check"
          /\ target[update.target].session \in session_active
      BY <2>1, FlushMoves DEF FlushChecks, history
    <3>2. target'[update.target] = target[update.target]
      BY <1>1, <3>1, TargetsKept DEF TypeInv, TypeOK
    <3>3. QED
      BY <1>1, <3>1, <3>2 DEF LateInv
  <2>2. CASE UNCHANGED <<update, late>>
    <3>1. target'[update.target] = target[update.target]
      BY <1>1, <2>2, TargetsKept DEF TypeInv, TypeOK
    <3>2. QED
      BY <2>2, <3>1 DEF LateInv
  <2>3. QED
    BY <2>1, <2>2, PassMoves, EventMoves, UpdateFrame DEF history
<1>5. QED
  BY <1>2, <1>3, <1>4 DEF LateInv

LEMMA InitLateInv == ASSUME Init PROVE FlushInv /\ LateInv
  BY DEF Init, FlushInv, LateInv

(* A stop on another thread is overtaken by one call into Lua, event or fault,
   never by a second, however many sessions, targets and events there are. *)
THEOREM LateCallsAreBounded == Spec => []AtMostOneLateCall
<1>1. Init => TypeInv /\ FlushInv /\ LateInv
  BY InitTypeInv, InitLateInv
<1>2. TypeInv /\ FlushInv /\ LateInv /\ [Next]_vars => (TypeInv /\ FlushInv /\ LateInv)'
  BY NextTypeInv, NextFlushInv, NextLateInv
<1>3. TypeInv /\ LateInv => AtMostOneLateCall
  <2>1. ASSUME TypeInv, LateInv, NEW x \in Sessions PROVE late[x] <= 1
    <3>1. late[x] \in Nat
      BY <2>1 DEF TypeInv, TypeOK, HistoryOK
    <3>2. QED
      BY <2>1, <3>1 DEF LateInv
  <2>2. QED
    BY <2>1 DEF AtMostOneLateCall
<1>4. QED
  BY <1>1, <1>2, <1>3, PTL DEF Spec

-----------------------------------------------------------------------------
(* Faults and their reports. *)

(* A target is marked before its report is on its way, and marked once. *)
ReportInv ==
  /\ \A t \in TargetIds : t \in notified => fault[t] # "None"
  /\ \A t \in TargetIds : reports[t] # 0 => t \in notified /\ reports[t] = 1
  /\ update.flush \in {"check", "tell"} =>
       update.target \in notified /\ reports[update.target] = 0

(* The first reason stays. *)
LEMMA FaultsStick ==
  ASSUME TypeInv, [Next]_vars
  PROVE  \A t \in TargetIds : fault[t] # "None" => fault'[t] = fault[t]
<1>1. fault \in [TargetIds -> Reasons \cup {"None"}]
  BY DEF TypeInv, TypeOK, DeliveryOK
<1>2. ASSUME NEW s, Latches(s)
      PROVE  \A t \in TargetIds : fault[t] # "None" => fault'[t] = fault[t]
  BY <1>1, <1>2 DEF Latches, Latch
<1>3. QED
  BY <1>2, LatchSteps DEF TypeInv, TypeOK

LEMMA NextReportInv ==
  ASSUME TypeInv, FlushInv, ReportInv, [Next]_vars
  PROVE  ReportInv'
<1>1. /\ reports \in [TargetIds -> Nat] /\ notified \subseteq TargetIds
      /\ update \in Places
  BY RecordsOK DEF TypeInv, TypeOK, HistoryOK, DeliveryOK, RegistryOK, ThreadsOK, Places
<1>2. CASE FlushTakes
  <2>1. PICK t \in Unreported :
          /\ notified' = notified \cup {t} /\ fault' = fault /\ reports' = reports
          /\ update' = [update EXCEPT !.flush = "check", !.target = t]
    BY <1>2 DEF FlushTakes, history
  <2>2. t \in TargetIds /\ t \notin notified /\ fault[t] # "None"
    BY <2>1, RecordsOK DEF Unreported, TypeInv, TypeOK, RegistryOK
  <2>3. update'.target = t
    BY <1>1, <2>1 DEF Places
  <2>4. reports[t] = 0
    BY <2>2 DEF ReportInv
  <2>5. QED
    BY <2>1, <2>2, <2>3, <2>4 DEF ReportInv
<1>3. CASE FlushReports
  <2>1. /\ update.flush = "tell" /\ reports' = [reports EXCEPT ![update.target] = @ + 1]
        /\ UNCHANGED <<fault, notified>>
        /\ update' = [update EXCEPT !.flush = "peek", !.target = 0]
    BY <1>3 DEF FlushReports, delivery
  <2>2. /\ update.target \in notified /\ reports'[update.target] = 1
        /\ \A t \in TargetIds \ {update.target} : reports'[t] = reports[t]
    BY <1>1, <2>1 DEF ReportInv
  <2>3. update'.flush = "peek"
    BY <1>1, <2>1 DEF Places
  <2>4. QED
    BY <2>1, <2>2, <2>3 DEF ReportInv
<1>4. CASE ~FlushTakes /\ ~FlushReports
  <2>1. notified' = notified /\ reports' = reports
    BY <1>4, HistoryFrame, DeliveryFrame
  <2>2. update'.flush \in {"check", "tell"} =>
          update.flush \in {"check", "tell"} /\ update'.target = update.target
    BY <1>4, FlushMoves, PassMoves, EventMoves, UpdateFrame
  <2>3. QED
    BY <2>1, <2>2, FaultsStick DEF ReportInv
<1>5. QED
  BY <1>2, <1>3, <1>4

LEMMA InitReportInv == ASSUME Init PROVE ReportInv
  BY DEF Init, ReportInv

(* No fault is reported twice and nothing is reported that is none, with any
   number of targets and whatever latches, closes or stops in between. *)
THEOREM FaultsAreReportedOnce == Spec => []ReportedOnce
<1>1. Init => TypeInv /\ FlushInv /\ ReportInv
  BY InitTypeInv, InitLateInv, InitReportInv
<1>2. TypeInv /\ FlushInv /\ ReportInv /\ [Next]_vars => (TypeInv /\ FlushInv /\ ReportInv)'
  BY NextTypeInv, NextFlushInv, NextReportInv
<1>3. TypeInv /\ ReportInv => ReportedOnce
  <2>1. ASSUME TypeInv, ReportInv, NEW t \in TargetIds
        PROVE  reports[t] <= 1 /\ (reports[t] = 1 => fault[t] # "None")
    <3>1. reports[t] \in Nat
      BY <2>1 DEF TypeInv, TypeOK, HistoryOK
    <3>2. QED
      BY <2>1, <3>1 DEF ReportInv
  <2>2. QED
    BY <2>1 DEF ReportedOnce
<1>4. QED
  BY <1>1, <1>2, <1>3, PTL DEF Spec
-----------------------------------------------------------------------------
(* Failed callbacks. *)

(* The subscriptions of a target that opted in share its fault. *)
Shares(r, s) == subscription[r].delivery /\ TargetOf(r) = TargetOf(s)

(* Between a failure and its consequences on_update handles nothing else. *)
ErrorInv ==
  /\ \A r \in thrown : r \in active =>
       update.at \in {"latch", "deactivate"} /\ update.event.owner = r
  /\ \A r \in thrown : subscription[r].delivery /\ fault[TargetOf(r)] = "None" =>
       update.at = "latch" /\ update.event.owner = r
  /\ update.at = "call" =>
       /\ update.event.owner \notin thrown
       /\ \A r \in thrown : ~Shares(r, update.event.owner)

(* Only new subscriptions become active. *)
LEMMA ActiveIsFinal ==
  ASSUME TypeInv, [Next]_vars
  PROVE  \A s \in DOMAIN subscription : s \in active' => s \in active
<1>1. CASE BindSucceeds
  <2>1. active' \subseteq active \cup {Made} /\ Made \notin DOMAIN subscription
    BY <1>1, MadeFacts DEF BindSucceeds, Made, TypeInv, TypeOK
  <2>2. QED
    BY <2>1
<1>2. QED
  BY <1>1, RegistryShrinks

LEMMA NextErrorInv ==
  ASSUME TypeInv, FlushInv, PolicyInv, ErrorInv, [Next]_vars
  PROVE  ErrorInv'
<1>1. /\ thrown \subseteq DOMAIN subscription /\ active \subseteq DOMAIN subscription
      /\ update.at \in Handling => update.event.owner \in DOMAIN subscription
      /\ \A s \in DOMAIN subscription :
           TargetOf(s) \in TargetIds /\ subscription[s].delivery \in BOOLEAN
  BY RecordsOK DEF TypeInv, TypeOK, HistoryOK, RegistryOK, HandlesInv
<1>2. \/ thrown' = thrown
      \/ /\ CallLua /\ thrown' = thrown \cup {update.event.owner}
         /\ active' = active /\ fault' = fault
         /\ update'.at = "latch" /\ update'.event = update.event
  <2>1. CASE CallLua
    <3>1. \/ thrown' = thrown
          \/ /\ update' = [update EXCEPT !.at = "latch"]
             /\ thrown' = thrown \cup {update.event.owner}
      BY <2>1 DEF CallLua, Go
    <3>2. active' = active /\ fault' = fault
      BY <2>1 DEF CallLua, outside, registry, delivery
    <3>3. update \in Places
      BY DEF TypeInv, TypeOK, ThreadsOK, Places
    <3>4. QED
      BY <2>1, <3>1, <3>2, <3>3 DEF Places
  <2>2. QED
    BY <2>1, HistoryFrame
<1>3. \A r \in thrown : r \in active' => r \in active
  BY <1>1, ActiveIsFinal
<1>4. ASSUME NEW r \in thrown', r \in active'
      PROVE  update'.at \in {"latch", "deactivate"} /\ update'.event.owner = r
  <2>1. CASE r \notin thrown
    BY <1>2, <1>4, <2>1
  <2>2. CASE r \in thrown
    <3>1. update.at \in {"latch", "deactivate"} /\ update.event.owner = r
      BY <1>3, <1>4, <2>2 DEF ErrorInv
    <3>2. CASE LatchError
      BY <3>1, <3>2 DEF LatchError, Go, TypeInv, TypeOK, ThreadsOK
    <3>3. ~Deactivate
      <4>1. Deactivate => active' = active \ {r} \/ r \notin subscriptions
        BY <3>1 DEF Deactivate, registry
      <4>2. QED
        BY <1>3, <1>4, <2>2, <4>1 DEF TypeInv, TypeOK, RegistryOK
    <3>4. EventStep => LatchError
      BY <3>1, <3>3 DEF EventStep, SkipEvent, CheckEvent, CallLua, EraseEvents, ReturnFailed, At
    <3>5. ~FlushStep /\ ~PassStep
      BY <3>1, FlushMoves, PassMoves DEF FlushInv
    <3>6. QED
      BY <3>1, <3>2, <3>4, <3>5, UpdateFrame
  <2>3. QED
    BY <2>1, <2>2
<1>5. ASSUME NEW r \in thrown', r \in DOMAIN subscription,
             subscription[r].delivery, fault'[TargetOf(r)] = "None"
      PROVE  update'.at = "latch" /\ update'.event.owner = r
  <2>1. CASE r \notin thrown
    BY <1>2, <1>5, <2>1
  <2>2. CASE r \in thrown
    <3>1. fault[TargetOf(r)] = "None"
      BY <1>1, <1>5, FaultsStick
    <3>2. update.at = "latch" /\ update.event.owner = r
      BY <1>5, <2>2, <3>1 DEF ErrorInv
    <3>3. ~LatchError
      <4>1. LatchError => fault'[TargetOf(r)] = "CallbackError"
        BY <1>1, <1>5, <3>1, <3>2 DEF LatchError, Latch, TypeInv, TypeOK, DeliveryOK
      <4>2. QED
        BY <1>5, <4>1
    <3>4. ~EventStep
      BY <3>2, <3>3 DEF EventStep, SkipEvent, CheckEvent, CallLua, Deactivate, EraseEvents,
         ReturnFailed, At
    <3>5. ~FlushStep /\ ~PassStep
      BY <3>2, FlushMoves, PassMoves DEF FlushInv
    <3>6. QED
      BY <3>2, <3>4, <3>5, UpdateFrame
  <2>3. QED
    BY <2>1, <2>2
<1>6. ASSUME update'.at = "call"
      PROVE  /\ thrown' = thrown /\ update'.event = update.event
             /\ update.at \in {"consume", "call"}
             /\ update.event.owner \notin thrown
             /\ \A r \in thrown : ~Shares(r, update.event.owner)
  <2>1. thrown' = thrown
    BY <1>2, <1>6
  <2>2. CASE CheckEvent
    <3> DEFINE s == update.event.owner
    <3>1. /\ update'.event = update.event /\ update.at = "consume" /\ s \in active
          /\ DeliveryValid(s) /\ s \in DOMAIN subscription
      BY <1>1, <1>6, <2>2, EventMoves DEF EventStep, CheckEvent, Callback, Live, At, Handling
    <3>2. s \notin thrown
      BY <3>1 DEF ErrorInv
    <3>3. ASSUME NEW r \in thrown, Shares(r, s) PROVE FALSE
      <4>1. subscription[s].delivery
        BY <1>1, <3>1, <3>3 DEF Shares, PolicyInv
      <4>2. fault[TargetOf(r)] = "None"
        BY <3>1, <3>3, <4>1 DEF Shares, DeliveryValid
      <4>3. QED
        BY <3>1, <3>3, <4>2 DEF Shares, ErrorInv
    <3>4. QED
      BY <2>1, <3>1, <3>2, <3>3
  <2>3. CASE update'.at = update.at /\ update'.event = update.event
    BY <1>6, <2>1, <2>3 DEF ErrorInv
  <2>4. ~FlushStep
    BY <1>6, FlushMoves DEF FlushInv
  <2>5. QED
    BY <1>6, <2>2, <2>3, <2>4, PassMoves, EventMoves, UpdateFrame
<1>7. \A r \in thrown' : r \in DOMAIN subscription
  BY <1>1, <1>2 DEF CallLua, At, Handling
<1>8. ASSUME NEW r \in DOMAIN subscription
      PROVE  /\ subscription'[r] = subscription[r] /\ TargetOf(r)' = TargetOf(r)
  BY OwnersKept DEF TargetOf
<1>9. update'.at = "call" => \A r \in thrown' : ~Shares(r, update.event.owner)'
  BY <1>1, <1>6, <1>7, <1>8, OwnersKept DEF Shares, TargetOf, Handling
<1>10. QED
  BY <1>4, <1>5, <1>6, <1>7, <1>8, <1>9 DEF ErrorInv

LEMMA InitErrorInv == ASSUME Init PROVE ErrorInv
  BY DEF Init, ErrorInv

LEMMA CallsFollowNoError ==
  ASSUME TypeInv, ErrorInv, [Next]_vars
  PROVE  \A s \in SubscriptionIds : CalledBack(s) =>
           /\ s \notin thrown
           /\ \A r \in thrown : ~(subscription[r].delivery /\ TargetOf(r) = TargetOf(s))
  BY DEF CalledBack, ErrorInv, Shares, At

(* A failed callback is the last of its subscription and, if the target opted
   in, of all its subscriptions, however many share the fault. *)
THEOREM ErrorsAreFinal == Spec => ErrorIsFinal
<1>1. Init => TypeInv /\ FlushInv /\ PolicyInv /\ ErrorInv
  BY InitTypeInv, InitLateInv, InitPolicyInv, InitErrorInv
<1>2. TypeInv /\ FlushInv /\ PolicyInv /\ ErrorInv /\ [Next]_vars
        => (TypeInv /\ FlushInv /\ PolicyInv /\ ErrorInv)'
  BY NextTypeInv, NextFlushInv, NextPolicyInv, NextErrorInv
<1>3. TypeInv /\ ErrorInv /\ [Next]_vars
        => [\A s \in SubscriptionIds : CalledBack(s) =>
              /\ s \notin thrown
              /\ \A r \in thrown :
                   ~(subscription[r].delivery /\ TargetOf(r) = TargetOf(s))]_vars
  BY CallsFollowNoError
<1>4. QED
  BY <1>1, <1>2, <1>3, PTL DEF Spec, ErrorIsFinal
-----------------------------------------------------------------------------
(* Purges. *)

(* Whoever deactivate() has finished with is inactive, so nothing of it can be
   queued again. *)
PurgedInv ==
  /\ \A s \in purged : s \notin active
  /\ update.at = "erase" => update.event.owner \notin active
  /\ PurgedStaysPurged

LEMMA NextInactive ==
  ASSUME TypeInv, PurgedInv, FlushInv, [Next]_vars
  PROVE  /\ \A s \in purged' : s \notin active'
         /\ update'.at = "erase" => update'.event.owner \notin active'
<1>1. /\ purged \subseteq DOMAIN subscription
      /\ update.at \in Handling => update.event.owner \in DOMAIN subscription
  BY DEF TypeInv, TypeOK, HistoryOK, HandlesInv
<1>2. \A s \in purged' : s \notin active'
  <2>1. CASE EraseEvents
    <3>1. purged' = purged \cup {update.event.owner} /\ update.at = "erase"
      BY <2>1 DEF EraseEvents, At
    <3>2. QED
      BY <1>1, <3>1, ActiveIsFinal DEF PurgedInv, Handling
  <2>2. CASE UNCHANGED purged
    BY <1>1, <2>2, ActiveIsFinal DEF PurgedInv
  <2>3. QED
    BY <2>1, <2>2, HistoryFrame
<1>3. update'.at = "erase" => update'.event.owner \notin active'
  <2> SUFFICES ASSUME update'.at = "erase" PROVE update'.event.owner \notin active'
    OBVIOUS
  <2>1. CASE Deactivate
    <3>1. update \in Places
      BY DEF TypeInv, TypeOK, ThreadsOK, Places
    <3>2. \/ update' = [update EXCEPT !.at = "return", !.flush = "peek"]
          \/ /\ active' = active \ {update.event.owner}
             /\ update' = [update EXCEPT !.at = "erase"]
      BY <2>1 DEF Deactivate, Go
    <3>3. active' = active \ {update.event.owner} /\ update'.event = update.event
      BY <3>1, <3>2 DEF Places
    <3>4. QED
      BY <3>3
  <2>2. CASE update'.at = update.at /\ update'.event = update.event
    BY <1>1, <2>2, ActiveIsFinal DEF PurgedInv, Handling
  <2>3. ~FlushStep
    BY FlushMoves DEF FlushInv
  <2>4. QED
    BY <2>1, <2>2, <2>3, PassMoves, EventMoves, UpdateFrame
<1>4. QED
  BY <1>2, <1>3

(* No step but Execute's adds an event, and that one's owner is active. *)
LEMMA EventSources ==
  ASSUME TypeInv, StageInv, [Next]_vars
  PROVE  /\ events' \in Seq(Event)
         /\ \A i \in DOMAIN events' :
              \/ \E k \in DOMAIN events : events'[i].owner = events[k].owner
              \/ /\ events'[i].owner \in active /\ ExecuteLocked
                 /\ shutdown.at = "no"
<1>1. events \in Seq(Event) /\ events' \in Seq(Event)
  BY NextLineOK DEF TypeInv, TypeOK, LineOK
<1>2. DOMAIN events = 1..Len(events) /\ DOMAIN events' = 1..Len(events')
  BY <1>1
<1>3. CASE ExecuteLocked
  <2>1. CASE UNCHANGED events
    BY <1>1, <2>1
  <2>2. CASE ~UNCHANGED events
    <3>1. PICK e \in Event : /\ events' = Append(events, e)
                             /\ e.owner = game.subscription
                             /\ Live(game.subscription) /\ accepting
      BY <1>3, <2>2, PushFacts DEF TypeInv, TypeOK
    <3>2. /\ DOMAIN events' = DOMAIN events \cup {Len(events) + 1}
          /\ events'[Len(events) + 1] = e
          /\ \A i \in DOMAIN events : events'[i] = events[i]
      BY <1>1, <3>1, AppendFacts
    <3>3. e.owner \in active /\ shutdown.at = "no"
      BY <3>1 DEF Live, StageInv
    <3>4. QED
      BY <1>1, <1>3, <3>2, <3>3
  <2>3. QED
    BY <2>1, <2>2
<1>4. CASE EraseAll \/ EraseEvents
  <2>1. PICK gone : Queue!Erase(gone)
    BY <1>4 DEF EraseAll, EraseEvents
  <2>2. \A i \in 1..Len(events') : \E k \in 1..Len(events) : events'[i] = events[k]
    BY <1>1, <2>1, EraseFacts
  <2>3. QED
    BY <1>1, <1>2, <2>2
<1>5. CASE ShutdownClearsQueue \/ TakeEvents
  <2>1. events' = <<>>
    BY <1>5 DEF ShutdownClearsQueue, TakeEvents, Queue!Discard, Queue!Drain
  <2>2. QED
    BY <1>1, <2>1
<1>6. CASE UNCHANGED events
  BY <1>1, <1>6
<1>7. QED
  BY <1>3, <1>4, <1>5, <1>6, LineFrame

LEMMA NextPurgedStaysPurged ==
  ASSUME TypeInv, SessionInv, PurgedInv, [Next]_vars
  PROVE  PurgedStaysPurged'
<1> SUFFICES ASSUME NEW i \in DOMAIN events', NEW s, s = events'[i].owner
             PROVE  /\ s \notin purged'
                    /\ SessionOf(s)' \in inactive_sessions' =>
                         host'.op = "erase" /\ host'.session = SessionOf(s)'
                    /\ shutdown'.at \notin {"cleared", "unload", "retain"}
  BY DEF PurgedStaysPurged
<1>1. /\ events \in Seq(Event) /\ DOMAIN events = 1..Len(events)
      /\ DOMAIN events' = 1..Len(events')
  BY EventSources DEF TypeInv, TypeOK, LineOK, SessionInv
<1>2. \/ \E k \in DOMAIN events : s = events[k].owner
      \/ ExecuteLocked /\ s \in active /\ shutdown.at = "no"
  BY EventSources DEF SessionInv
<1>3. s \in DOMAIN subscription
  BY <1>1, <1>2 DEF TypeInv, TypeOK, RegistryOK, HandlesInv
<1>4. SessionOf(s)' = SessionOf(s)
  BY <1>3, SubscriptionsKept DEF TypeInv, TypeOK
<1>5. /\ s \notin purged
      /\ SessionOf(s) \in inactive_sessions => host.op = "erase" /\ host.session = SessionOf(s)
      /\ shutdown.at \notin {"cleared", "unload", "retain"}
  <2>1. CASE \E k \in DOMAIN events : s = events[k].owner
    BY <2>1 DEF PurgedInv, PurgedStaysPurged
  <2>2. CASE s \in active /\ shutdown.at = "no"
    BY <2>2 DEF PurgedInv, SessionInv, StoppedSessionUnbound
  <2>3. QED
    BY <1>2, <2>1, <2>2
<1>6. s \notin purged'
  <2>1. CASE EraseEvents
    <3>1. events'[i].owner \notin {update.event.owner}
      BY <1>1, <2>1, EraseFacts DEF EraseEvents
    <3>2. purged' = purged \cup {update.event.owner}
      BY <2>1 DEF EraseEvents
    <3>3. QED
      BY <1>5, <3>1, <3>2
  <2>2. QED
    BY <1>5, <2>1, HistoryFrame
<1>7. shutdown'.at \notin {"cleared", "unload", "retain"}
  <2>1. ~ShutdownClearsQueue
    <3>1. ShutdownClearsQueue => events' = <<>>
      BY DEF ShutdownClearsQueue, Queue!Discard
    <3>2. QED
      BY <1>1, <3>1
  <2>2. ~ShutdownReturns
    BY <1>5 DEF ShutdownReturns
  <2>3. CASE ShutdownBegins \/ ShutdownForgets
    <3>1. /\ ShutdownBegins => shutdown'.at = "begun"
      BY DEF ShutdownBegins
    <3>2. ShutdownForgets => shutdown'.at = "forgotten"
      BY DEF ShutdownForgets, TypeInv, TypeOK, ThreadsOK
    <3>3. QED
      BY <2>3, <3>1, <3>2
  <2>4. QED
    BY <1>5, <2>1, <2>2, <2>3, LineFrame
<1>8. ASSUME SessionOf(s) \in inactive_sessions'
      PROVE  host'.op = "erase" /\ host'.session = SessionOf(s)
  <2>1. CASE DeactivateAll
    <3>1. /\ host.op = "deactivate" /\ host' = [host EXCEPT !.op = "erase"]
          /\ inactive_sessions' = inactive_sessions \cup {host.session}
      BY <2>1 DEF DeactivateAll
    <3>2. SessionOf(s) = host.session
      BY <1>5, <1>8, <3>1
    <3>3. host \in [op : {"deactivate", "erase"}, session : Sessions]
      BY <3>1 DEF NoCall, TypeInv, TypeOK, ThreadsOK
    <3>4. QED
      BY <3>1, <3>2, <3>3
  <2>2. CASE ~DeactivateAll
    <3>1. host.op = "erase" /\ host.session = SessionOf(s)
      BY <1>5, <1>8, <2>2, DeliveryFrame DEF ShutdownForgets
    <3>2. ~EraseAll
      <4>1. EraseAll => SessionOf(s) # host.session
        BY <1>1, <1>3, EraseFacts DEF EraseAll
      <4>2. QED
        BY <3>1, <4>1
    <3>3. ~StopOffGameThread /\ ~ShutdownBegins
      BY <3>1 DEF StopOffGameThread, ShutdownBegins, NoCall
    <3>4. ~ShutdownReturns
      BY <1>5 DEF ShutdownReturns
    <3>5. QED
      BY <2>2, <3>1, <3>2, <3>3, <3>4, LineFrame
  <2>3. QED
    BY <2>1, <2>2
<1>9. QED
  BY <1>4, <1>6, <1>7, <1>8

LEMMA InitPurgedInv == ASSUME Init PROVE PurgedInv
  BY DEF Init, PurgedInv, PurgedStaysPurged

(* What is purged from the producer queue does not come back: not the events of
   a failed subscription, of a stopped session, nor any after shutdown. *)
THEOREM PurgesAreFinal == Spec => []PurgedStaysPurged
<1>1. Init => TypeInv /\ FlushInv /\ SessionInv /\ PurgedInv
  BY InitTypeInv, InitLateInv, InitSessionInv, InitPurgedInv
<1>2. TypeInv /\ FlushInv /\ SessionInv /\ PurgedInv /\ [Next]_vars
        => (TypeInv /\ FlushInv /\ SessionInv /\ PurgedInv)'
  BY NextTypeInv, NextFlushInv, NextSessionInv, NextInactive, NextPurgedStaysPurged
     DEF PurgedInv
<1>3. PurgedInv => PurgedStaysPurged
  BY DEF PurgedInv
<1>4. QED
  BY <1>1, <1>2, <1>3, PTL DEF Spec
-----------------------------------------------------------------------------
(* The backend's queue is DispatchQueue. *)

(* A delegate waits for the mutex with the last sequence number there is. *)
SequenceInv == game.op = "execute" => game.sequence = next_event_sequence - 1

LEMMA ExecuteWaits ==
  ASSUME ThreadsOK, UnloadInv, [Next]_vars, game.op = "execute"
  PROVE  UNCHANGED game \/ ExecuteLocked \/ ExecuteThrows
<1>1. game # NoCall
  BY DEF NoCall
<1>2. ~Calling
  BY <1>1 DEF Calling, CallOpen, CallTarget, CallUnbind, CallUnbindAll, Enter, Callable
<1>3. ~Removing
  BY DEF Removing, OpenCollects, BindFails, CloseTarget, Unbind, UnbindAll
<1>4. ~OpenInserts /\ ~EnableFaults /\ ~BindSucceeds /\ ~StopOnGameThread
  BY DEF OpenInserts, EnableFaults, BindSucceeds, StopOnGameThread
<1>5. ~Execute /\ ~ExecuteCatches
  BY <1>1 DEF Execute, ExecuteCatches
<1>6. ~Clone /\ ~DestroyClone /\ ~DestroyComponent /\ ~DestructorReturns
  BY <1>1 DEF Clone, DestroyClone, DestroyComponent, DestructorReturns
<1>7. ShutdownBegins => UNCHANGED game
  BY <1>1 DEF ShutdownBegins
<1>8. ShutdownReturns => UNCHANGED game
  BY DEF ShutdownReturns, UnloadInv
<1>9. CASE StopOffGameThread \/ DeactivateAll \/ EraseAll \/ ShutdownForgets \/ ShutdownClearsQueue
  BY <1>9 DEF StopOffGameThread, DeactivateAll, EraseAll, ShutdownForgets, ShutdownClearsQueue,
         control
<1>10. CASE FlushStep \/ PassStep \/ EventStep
  BY <1>10, FlushFrame, PassFrame, EventFrame DEF outside
<1>11. QED
  BY <1>2, <1>3, <1>4, <1>5, <1>6, <1>7, <1>8, <1>9, <1>10, Steps DEF vars, control

LEMMA NextSequenceInv ==
  ASSUME TypeInv, UnloadInv, SequenceInv, [Next]_vars
  PROVE  SequenceInv'
<1>1. next_event_sequence \in Nat
  BY DEF TypeInv, TypeOK, LineOK
<1>2. CASE Execute
  <2>1. PICK s \in DOMAIN subscription :
          \/ game' = NoCall
          \/ game' = [op |-> "execute", subscription |-> s, sequence |-> next_event_sequence]
    BY <1>2 DEF Execute
  <2>2. next_event_sequence' = next_event_sequence + 1
    BY <1>2 DEF Execute
  <2>3. CASE game' = NoCall
    BY <2>3 DEF SequenceInv, NoCall
  <2>4. CASE game' = [op |-> "execute", subscription |-> s, sequence |-> next_event_sequence]
    BY <1>1, <2>2, <2>4 DEF SequenceInv
  <2>5. QED
    BY <2>1, <2>3, <2>4
<1>3. CASE ~Execute
  <2>1. game'.op = "execute" => game' = game
    BY <1>3, GameCauses DEF TypeInv, TypeOK
  <2>2. QED
    BY <1>3, <2>1, LineFrame DEF SequenceInv
<1>4. QED
  BY <1>2, <1>3

(* Whoever may enqueue: a subscription loses that for good, one to be made has
   it until the shutdown. *)
LEMMA LiveShrinks ==
  ASSUME TypeInv, StageInv, [Next]_vars
  PROVE  LiveOwners' \subseteq LiveOwners
<1>1. ASSUME NEW s \in DOMAIN subscription, Live(s)' PROVE Live(s)
  <2>1. s \in active
    BY <1>1, ActiveIsFinal DEF Live
  <2>2. subscription'[s] = subscription[s] /\ subscription[s].target \in TargetIds
    BY OwnersKept, RecordsOK DEF TypeInv, TypeOK, TargetOf
  <2>3. DeliveryValid(s)
    BY <1>1, <2>2, FaultsStick DEF Live, DeliveryValid, TargetOf
  <2>4. QED
    BY <2>1, <2>3 DEF Live
<1>2. DOMAIN subscription \subseteq DOMAIN subscription'
  BY SubscriptionsKept DEF TypeInv, TypeOK
<1>3. DOMAIN subscription' # DOMAIN subscription => shutdown.at = "no"
  BY MakingFrame DEF BindSucceeds, StageInv
<1>4. shutdown'.at \in {"no", "begun"} => shutdown.at \in {"no", "begun"}
  BY ShutdownSteps
<1>5. ASSUME NEW s \in LiveOwners' PROVE s \in LiveOwners
  <2>1. s \in SubscriptionIds
    BY DEF LiveOwners
  <2>2. CASE s \in DOMAIN subscription
    BY <1>1, <1>2, <1>5, <2>1, <2>2 DEF LiveOwners
  <2>3. CASE s \notin DOMAIN subscription
    BY <1>3, <1>4, <1>5, <2>1, <2>3 DEF LiveOwners
  <2>4. QED
    BY <2>2, <2>3
<1>6. QED
  BY <1>5

(* The queue's own variables, as DispatchQueue sees them. *)
QueueLine == <<next_event_sequence - InFlight, accepting, capacity, warnings, events,
               events_ready>>
QueueBatch == <<pending, remaining, last_examined, QueuePass>>

(* A step that at most withdraws owners. *)
LEMMA Withdraws ==
  ASSUME LiveOwners' \subseteq LiveOwners, UNCHANGED <<QueueLine, QueueBatch>>
  PROVE  [Queue!Next]_(Queue!vars)
<1> USE DEF QueueLine, QueueBatch
<1>1. CASE LiveOwners' = LiveOwners
  BY <1>1 DEF Queue!vars, Queue!producer, Queue!consumer, Queue!queue
<1>2. CASE LiveOwners' # LiveOwners
  <2>1. LiveOwners \ LiveOwners' \in SUBSET SubscriptionIds
    BY DEF LiveOwners
  <2>2. Queue!Deactivate(LiveOwners \ LiveOwners')
    BY <1>2 DEF Queue!Deactivate, Queue!queue, Queue!consumer
  <2>3. QED
    BY <2>1, <2>2 DEF Queue!Next, Queue!Control
<1>3. QED
  BY <1>1, <1>2
(* Most of the backend's steps do not concern the queue. *)
LEMMA QuietSteps ==
  ASSUME TypeInv, UnloadInv, [Next]_vars,
         ~Execute, ~ExecuteLocked, ~ExecuteThrows, ~EraseAll, ~ShutdownBegins,
         ~ShutdownClearsQueue, ~PassStep, ~EventStep
  PROVE  UNCHANGED <<QueueLine, QueueBatch>>
<1>1. UNCHANGED <<line, batch, accepting>>
  <2> USE DEF line, batch, stopping
  <2>1. CASE Calling \/ Removing
    BY <2>1, CallingFrame, RemovingFrame
  <2>2. CASE OpenInserts \/ EnableFaults \/ BindSucceeds \/ StopOnGameThread
    BY <2>2 DEF OpenInserts, EnableFaults, BindSucceeds, StopOnGameThread
  <2>3. CASE ExecuteCatches \/ Clone \/ DestroyClone \/ DestroyComponent \/ DestructorReturns
    BY <2>3 DEF ExecuteCatches, Clone, DestroyClone, DestroyComponent, DestructorReturns
  <2>4. CASE StopOffGameThread \/ DeactivateAll \/ ShutdownForgets \/ ShutdownReturns
    BY <2>4 DEF StopOffGameThread, DeactivateAll, ShutdownForgets, ShutdownReturns
  <2>5. CASE FlushStep
    BY <2>5, FlushFrame DEF outside
  <2>6. CASE UNCHANGED vars
    BY <2>6 DEF vars
  <2>7. QED
    BY <2>1, <2>2, <2>3, <2>4, <2>5, <2>6, Steps
<1>2. InFlight' = InFlight
  BY ExecuteWaits, GameCauses DEF InFlight, TypeInv, TypeOK
<1>3. update'.at = update.at /\ budget' = budget
  BY FlushMoves, FlushFrame, UpdateFrame
<1>4. QueuePass' = QueuePass
  BY <1>3 DEF QueuePass
<1>5. QED
  BY <1>1, <1>2, <1>4 DEF QueueLine, QueueBatch, line, batch

LEMMA QueueExecutes ==
  ASSUME TypeInv, Execute
  PROVE  [Queue!Next]_(Queue!vars)
<1>1. next_event_sequence \in Nat /\ next_event_sequence <= MaxEvents /\ InFlight = 0
  BY DEF Execute, TypeInv, TypeOK, LineOK, InFlight, NoCall
<1>2. /\ next_event_sequence' = next_event_sequence + 1
      /\ UNCHANGED <<accepting, capacity, warnings, events, events_ready, pending, remaining,
                     last_examined, update, budget, active, subscription, shutdown, fault>>
  BY DEF Execute, registry, delivery, batch, stopping
<1>3. LiveOwners' = LiveOwners /\ QueuePass' = QueuePass
  BY <1>2 DEF LiveOwners, Live, DeliveryValid, TargetOf, QueuePass
<1>4. InFlight' \in {0, 1}
  BY DEF InFlight
<1>5. CASE InFlight' = 1
  <2>1. next_event_sequence' - InFlight' = next_event_sequence - InFlight
    BY <1>1, <1>2, <1>5
  <2>2. QED
    BY <1>2, <1>3, <2>1 DEF Queue!vars, Queue!producer, Queue!consumer, Queue!queue
<1>6. CASE InFlight' = 0
  <2>1. /\ next_event_sequence' - InFlight' = (next_event_sequence - InFlight) + 1
        /\ next_event_sequence - InFlight <= MaxEvents
    BY <1>1, <1>2, <1>6
  <2>2. Queue!ExecuteDeclined
    BY <1>2, <1>3, <2>1 DEF Queue!ExecuteDeclined, Queue!NextSequence, Queue!queue,
       Queue!consumer
  <2>3. QED
    BY <2>2 DEF Queue!Next, Queue!Produce
<1>7. QED
  BY <1>4, <1>5, <1>6

(* A fault latched by a refusal takes the event's own owner with it. *)
LEMMA LatchWithdraws ==
  ASSUME TypeInv, NEW s \in DOMAIN subscription, NEW reason \in Reasons, Latch(s, reason),
         LiveOwners' # LiveOwners, UNCHANGED <<active, subscription, shutdown>>
  PROVE  s \in LiveOwners \ LiveOwners' \/ s \notin LiveOwners
<1>1. CASE fault' = fault
  <2>1. LiveOwners' = LiveOwners
    BY <1>1 DEF LiveOwners, Live, DeliveryValid, TargetOf
  <2>2. QED
    BY <2>1
<1>2. CASE fault' # fault
  <2>1. subscription[s].delivery /\ fault' = [fault EXCEPT ![TargetOf(s)] = reason]
    BY <1>2 DEF Latch
  <2>2. fault'[TargetOf(s)] # "None"
    BY <2>1, RecordsOK DEF TypeInv, TypeOK, DeliveryOK, Reasons
  <2>3. ~Live(s)'
    BY <2>1, <2>2 DEF Live, DeliveryValid, TargetOf
  <2>4. QED
    BY <2>3 DEF LiveOwners
<1>3. QED
  BY <1>1, <1>2

(* The step under the mutex, queued or refused. *)
LEMMA QueueLocked ==
  ASSUME TypeInv, StageInv, SequenceInv, ExecuteLocked \/ ExecuteThrows
  PROVE  [Queue!Next]_(Queue!vars)
<1> DEFINE s == game.subscription
           n == next_event_sequence - InFlight
<1>1. /\ game.op = "execute" /\ s \in DOMAIN subscription /\ s \in SubscriptionIds
      /\ n = game.sequence /\ n \in Nat /\ n <= MaxEvents
  <2>1. game.op = "execute"
    BY DEF ExecuteLocked, ExecuteThrows
  <2>2. /\ game \in [op : {"execute"}, subscription : SubscriptionIds, sequence : 1..MaxEvents]
        /\ s \in DOMAIN subscription
    BY <2>1, CallShape DEF TypeInv, TypeOK, HandlesInv
  <2>3. n = game.sequence
    BY <2>1 DEF SequenceInv, InFlight
  <2>4. QED
    BY <2>1, <2>2, <2>3
<1>2. next_event_sequence' - InFlight' = n + 1
  <2>1. InFlight = 1 /\ next_event_sequence' = next_event_sequence
    BY <1>1 DEF ExecuteLocked, ExecuteThrows, InFlight
  <2>2. InFlight' = 0
    <3>1. ExecuteLocked => game' = NoCall
      BY DEF ExecuteLocked, Return
    <3>2. ExecuteThrows => game' = [op |-> "catch", subscription |-> game.subscription]
      BY DEF ExecuteThrows
    <3>3. game'.op \in {"none", "catch"}
      BY <3>1, <3>2 DEF NoCall
    <3>4. QED
      BY <3>3 DEF InFlight
  <2>3. next_event_sequence \in Nat
    BY DEF TypeInv, TypeOK, LineOK
  <2>4. QED
    BY <2>1, <2>2, <2>3
<1>3. /\ UNCHANGED <<accepting, pending, remaining, last_examined, active, subscription,
                     shutdown>>
      /\ QueuePass' = QueuePass
  BY DEF ExecuteLocked, ExecuteThrows, registry, batch, stopping, QueuePass
<1>4. Live(s) <=> s \in LiveOwners
  BY <1>1 DEF LiveOwners
<1>5. ASSUME UNCHANGED fault PROVE LiveOwners' = LiveOwners
  BY <1>3, <1>5 DEF LiveOwners, Live, DeliveryValid, TargetOf
<1>6. LiveOwners' \subseteq LiveOwners /\ LiveOwners \in SUBSET SubscriptionIds
  BY LiveShrinks DEF LiveOwners, Next, Unreal
<1> HIDE DEF s, n
<1>7. ASSUME NEW traceRoom \in BOOLEAN, Queue!Refuse(traceRoom), Live(s), accepting,
             Latch(s, "QueueCapacity")
      PROVE  Queue!ExecuteRefused(s)
  <2>1. LiveOwners \ LiveOwners' # {} => s \in LiveOwners \ LiveOwners'
    BY <1>1, <1>3, <1>4, <1>7, LatchWithdraws DEF Reasons
  <2>2. LiveOwners' = LiveOwners \ (LiveOwners \ LiveOwners')
    BY <1>6
  <2>3. LiveOwners \ LiveOwners' \in SUBSET SubscriptionIds
    BY <1>6
  <2>4. QED
    BY <1>1, <1>2, <1>3, <1>4, <1>7, <2>1, <2>2, <2>3
       DEF Queue!ExecuteRefused, Queue!NextSequence, Queue!consumer, n
<1>8. CASE ExecuteLocked
  <2>1. CASE ~(Live(s) /\ accepting)
    <3>1. UNCHANGED <<events, events_ready, capacity, warnings, fault>>
      BY <1>8, <2>1 DEF ExecuteLocked, delivery, s
    <3>2. Queue!ExecuteDeclined
      BY <1>1, <1>2, <1>3, <1>5, <3>1 DEF Queue!ExecuteDeclined, Queue!NextSequence, Queue!queue,
         Queue!consumer, n
    <3>3. QED
      BY <3>2 DEF Queue!Next, Queue!Produce
  <2>2. CASE Live(s) /\ accepting
    <3>1. \/ Queue!Push([owner |-> s, sequence |-> game.sequence]) /\ UNCHANGED fault
          \/ /\ \E traceRoom \in BOOLEAN : Queue!Refuse(traceRoom)
             /\ Latch(s, "QueueCapacity")
      BY <1>8, <2>2 DEF ExecuteLocked, delivery, s
    <3>2. CASE Queue!Push([owner |-> s, sequence |-> game.sequence]) /\ UNCHANGED fault
      <4>1. Queue!ExecuteAccepted(s)
        BY <1>1, <1>2, <1>3, <1>4, <1>5, <2>2, <3>2 DEF Queue!ExecuteAccepted,
           Queue!NextSequence, Queue!consumer, n
      <4>2. QED
        BY <1>1, <4>1 DEF Queue!Next, Queue!Produce
    <3>3. CASE \E traceRoom \in BOOLEAN : Queue!Refuse(traceRoom) /\ Latch(s, "QueueCapacity")
      BY <1>1, <1>7, <2>2, <3>3 DEF Queue!Next, Queue!Produce
    <3>4. QED
      BY <3>1, <3>2, <3>3
  <2>3. QED
    BY <2>1, <2>2
<1>9. CASE ExecuteThrows
  <2>1. Live(s) /\ accepting
    BY <1>9 DEF ExecuteThrows, s
  <2>2. \/ Queue!Readmit /\ UNCHANGED fault
        \/ Queue!Refuse(FALSE) /\ Latch(s, "QueueCapacity")
    BY <1>9 DEF ExecuteThrows, s
  <2>3. CASE Queue!Readmit /\ UNCHANGED fault
    <3>1. Queue!ExecuteThrows(s)
      BY <1>1, <1>2, <1>3, <1>4, <1>5, <2>1, <2>3 DEF Queue!ExecuteThrows,
         Queue!NextSequence, Queue!consumer, n
    <3>2. QED
      BY <1>1, <3>1 DEF Queue!Next, Queue!Produce
  <2>4. CASE Queue!Refuse(FALSE) /\ Latch(s, "QueueCapacity")
    BY <1>1, <1>7, <2>1, <2>4 DEF Queue!Next, Queue!Produce
  <2>5. QED
    BY <2>2, <2>3, <2>4
<1>10. QED
  BY <1>8, <1>9
(* Between its two critical sections deactivate_all has no active subscription
   left to queue an event, even when a shutdown forgets the session's mark. *)
EraseInv ==
  host.op = "erase" => host.session \in inactive_sessions \/ shutdown.at \notin {"no", "begun"}

LEMMA NextEraseInv ==
  ASSUME TypeInv, EraseInv, [Next]_vars
  PROVE  EraseInv'
<1>1. CASE DeactivateAll
  <2>1. /\ host.op = "deactivate" /\ host' = [host EXCEPT !.op = "erase"]
        /\ inactive_sessions' = inactive_sessions \cup {host.session}
    BY <1>1 DEF DeactivateAll
  <2>2. host \in [op : {"deactivate", "erase"}, session : Sessions]
    BY <2>1 DEF TypeInv, TypeOK, ThreadsOK, NoCall
  <2>3. host'.session = host.session
    BY <2>1, <2>2
  <2>4. QED
    BY <2>1, <2>3 DEF EraseInv
<1>2. CASE StopOffGameThread \/ EraseAll \/ ShutdownBegins \/ ShutdownReturns
  <2>1. CASE StopOffGameThread
    <3>1. PICK x \in session_active : host' = [op |-> "deactivate", session |-> x]
      BY <2>1 DEF StopOffGameThread
    <3>2. host'.op = "deactivate"
      BY <3>1
    <3>3. QED
      BY <3>2 DEF EraseInv
  <2>2. CASE EraseAll
    <3>1. host'.op = "none"
      BY <2>2 DEF EraseAll, NoCall
    <3>2. QED
      BY <3>1 DEF EraseInv
  <2>3. CASE ShutdownBegins
    <3>1. host = NoCall /\ (host' = host \/ host' = [op |-> "shutdown"])
      BY <2>3 DEF ShutdownBegins
    <3>2. host'.op \in {"none", "shutdown"}
      BY <3>1 DEF NoCall
    <3>3. QED
      BY <3>2 DEF EraseInv
  <2>4. CASE ShutdownReturns
    <3>1. (host' = host \/ host' = NoCall) /\ inactive_sessions' = inactive_sessions
      BY <2>4 DEF ShutdownReturns, lua
    <3>2. shutdown'.at \notin {"no", "begun"}
      BY <2>4 DEF ShutdownReturns, TypeInv, TypeOK, ThreadsOK
    <3>3. QED
      BY <3>2 DEF EraseInv
  <2>5. QED
    BY <1>2, <2>1, <2>2, <2>3, <2>4
<1>3. CASE UNCHANGED host /\ ~DeactivateAll
  <2>1. CASE ShutdownForgets
    <3>1. shutdown'.at = "forgotten"
      BY <2>1 DEF ShutdownForgets, TypeInv, TypeOK, ThreadsOK
    <3>2. QED
      BY <3>1 DEF EraseInv
  <2>2. CASE UNCHANGED inactive_sessions
    BY <1>3, <2>2, ShutdownSteps DEF EraseInv
  <2>3. QED
    BY <1>3, <2>1, <2>2, DeliveryFrame
<1>4. QED
  BY <1>1, <1>2, <1>3, LineFrame

LEMMA QueueErasesAll ==
  ASSUME TypeInv, SessionInv, EraseInv, EraseAll
  PROVE  [Queue!Next]_(Queue!vars)
<1> DEFINE gone == { s \in DOMAIN subscription : SessionOf(s) = host.session }
<1>1. Queue!Erase(gone)
  BY DEF EraseAll
<1>2. \A s \in gone : s \notin active
  BY DEF EraseAll, EraseInv, SessionInv, StageInv, StoppedSessionUnbound, TypeInv, TypeOK,
     RegistryOK
<1>3. gone \cap LiveOwners = {}
  BY <1>2 DEF LiveOwners, Live
<1>4. gone \in SUBSET SubscriptionIds
  BY RecordsOK DEF TypeInv, TypeOK
<1>5. /\ UNCHANGED <<next_event_sequence, accepting, capacity, warnings, pending, remaining,
                     last_examined, game, update, budget, active, subscription, shutdown, fault>>
  BY DEF EraseAll, registry, delivery, batch, stopping
<1>6. LiveOwners' = LiveOwners /\ QueuePass' = QueuePass /\ InFlight' = InFlight
  BY <1>5 DEF LiveOwners, Live, DeliveryValid, TargetOf, QueuePass, InFlight
<1> HIDE DEF gone
<1>7. Queue!Purge(gone)
  BY <1>1, <1>3, <1>5, <1>6 DEF Queue!Purge, Queue!producer, Queue!consumer
<1>8. QED
  BY <1>4, <1>7 DEF Queue!Next, Queue!Control

LEMMA QueueShutdown ==
  ASSUME TypeInv, StageInv, ShutdownBegins \/ ShutdownClearsQueue
  PROVE  [Queue!Next]_(Queue!vars)
<1>1. CASE ShutdownBegins
  <2>1. /\ UNCHANGED <<next_event_sequence, capacity, warnings, events, events_ready, pending,
                       remaining, last_examined, update, budget, active, subscription, fault>>
        /\ accepting' = FALSE
    BY <1>1 DEF ShutdownBegins, registry, delivery, batch, line
  <2>2. shutdown.at = "no" /\ shutdown'.at = "begun"
    BY <1>1 DEF ShutdownBegins
  <2>3. accepting
    BY <2>2 DEF StageInv
  <2>4. LiveOwners' = LiveOwners /\ QueuePass' = QueuePass
    BY <2>1, <2>2 DEF LiveOwners, Live, DeliveryValid, TargetOf, QueuePass
  <2>5. InFlight' = InFlight
    <3>1. game' = game \/ (game = NoCall /\ game' = [op |-> "shutdown"])
      BY <1>1 DEF ShutdownBegins
    <3>2. game' = game \/ (game.op = "none" /\ game'.op = "shutdown")
      BY <3>1 DEF NoCall
    <3>3. QED
      BY <3>2 DEF InFlight
  <2>6. Queue!StopAccepting
    BY <2>1, <2>3, <2>4, <2>5 DEF Queue!StopAccepting, Queue!queue, Queue!consumer
  <2>7. QED
    BY <2>6 DEF Queue!Next, Queue!Control
<1>2. CASE ShutdownClearsQueue
  <2>1. /\ UNCHANGED <<next_event_sequence, accepting, capacity, warnings, pending, remaining,
                       last_examined, game, update, budget, active, subscription, fault>>
        /\ Queue!Discard
    BY <1>2 DEF ShutdownClearsQueue, registry, delivery, batch, control
  <2>2. shutdown.at = "forgotten" /\ shutdown'.at = "cleared" /\ active = {} /\ ~accepting
    BY <1>2 DEF ShutdownClearsQueue, StageInv, TypeInv, TypeOK, ThreadsOK, RegistryOK
  <2>3. LiveOwners = {} /\ LiveOwners' = {}
    BY <2>1, <2>2 DEF LiveOwners, Live
  <2>4. QueuePass' = QueuePass /\ InFlight' = InFlight
    BY <2>1 DEF QueuePass, InFlight
  <2>5. Queue!ShutdownClears
    BY <2>1, <2>2, <2>3, <2>4 DEF Queue!ShutdownClears, Queue!producer, Queue!consumer
  <2>6. QED
    BY <2>5 DEF Queue!Next, Queue!Control
<1>3. QED
  BY <1>1, <1>2

-----------------------------------------------------------------------------
(* The passes. *)

PassShape == /\ QueuePass \in Queue!Pass
             /\ QueuePass.processed = budget.processed
             /\ QueuePass.progressed = budget.progressed /\ QueuePass.expired = budget.expired
             /\ update.at \in {"idle", "begin"} => QueuePass.at = "idle"
             /\ update.at \in {"check", "take", "run", "publish"} => QueuePass.at = update.at
             /\ update.at \in Handling \ {"publish"} => QueuePass.at = "consume"

LEMMA PassRecord == TypeInv => PassShape
<1> SUFFICES ASSUME TypeInv PROVE PassShape
  OBVIOUS
<1> DEFINE place == CASE update.at \in {"idle", "begin"} -> "idle"
                      [] update.at \in {"check", "take", "run", "publish"} -> update.at
                      [] OTHER -> "consume"
<1>1. /\ place \in {"idle", "check", "take", "run", "publish", "consume"}
      /\ update.at \in {"idle", "begin"} => place = "idle"
      /\ update.at \in {"check", "take", "run", "publish"} => place = update.at
      /\ update.at \in Handling \ {"publish"} => place = "consume"
  BY DEF Handling
<1>2. /\ budget.processed \in Nat /\ budget.progressed \in BOOLEAN /\ budget.expired \in BOOLEAN
  BY DEF TypeInv, TypeOK, ThreadsOK
<1>3. QueuePass = [at |-> place, processed |-> budget.processed,
                   progressed |-> budget.progressed, expired |-> budget.expired]
  BY DEF QueuePass
<1> HIDE DEF place
<1>4. QED
  BY <1>1, <1>2, <1>3, Zenon DEF PassShape, Queue!Pass

LEMMA NextPassRecord == TypeInv' => PassShape'
  BY PassRecord, PTL

(* A pass is its four fields. *)
LEMMA PassUpdates ==
  ASSUME NEW p \in Queue!Pass, NEW q \in Queue!Pass
  PROVE  /\ q.processed = p.processed /\ q.progressed = p.progressed /\ q.expired = p.expired
              => q = [p EXCEPT !.at = q.at]
         /\ q.processed = p.processed /\ q.progressed = TRUE /\ q.expired = p.expired
              => q = [p EXCEPT !.at = q.at, !.progressed = TRUE]
         /\ q.at = p.at /\ q.processed = p.processed /\ q.progressed = p.progressed
            /\ q.expired = TRUE
              => q = [p EXCEPT !.expired = TRUE]
         /\ q.progressed = p.progressed /\ q.expired = p.expired =>
              /\ q.processed = p.processed =>
                   q = [p EXCEPT !.at = q.at, !.processed = IF FALSE THEN @ + 1 ELSE @]
              /\ q.processed = p.processed + 1 =>
                   q = [p EXCEPT !.at = q.at, !.processed = IF TRUE THEN @ + 1 ELSE @]
<1>1. /\ p = [at |-> p.at, processed |-> p.processed, progressed |-> p.progressed,
              expired |-> p.expired]
      /\ q = [at |-> q.at, processed |-> q.processed, progressed |-> q.progressed,
              expired |-> q.expired]
  BY Zenon DEF Queue!Pass
<1>2. ASSUME q.processed = p.processed, q.progressed = TRUE, q.expired = p.expired
      PROVE  q = [p EXCEPT !.at = q.at, !.progressed = TRUE]
  BY <1>1, <1>2, Zenon
<1>3. ASSUME q.at = p.at, q.processed = p.processed, q.progressed = p.progressed,
             q.expired = TRUE
      PROVE  q = [p EXCEPT !.expired = TRUE]
  BY <1>1, <1>3, Zenon
<1>4. ASSUME q.progressed = p.progressed, q.expired = p.expired, q.processed = p.processed
      PROVE  q = [p EXCEPT !.at = q.at, !.processed = IF FALSE THEN @ + 1 ELSE @]
  BY <1>1, <1>4, Zenon
<1>5. ASSUME q.progressed = p.progressed, q.expired = p.expired, q.processed = p.processed + 1
      PROVE  q = [p EXCEPT !.at = q.at, !.processed = IF TRUE THEN @ + 1 ELSE @]
  BY <1>1, <1>5, Zenon
<1>6. ASSUME q.processed = p.processed, q.progressed = p.progressed, q.expired = p.expired
      PROVE  q = [p EXCEPT !.at = q.at]
  BY <1>1, <1>6, Zenon
<1>7. QED
  BY <1>2, <1>3, <1>4, <1>5, <1>6

(* on_update's steps leave the producer's side alone but for the batch. *)
LEMMA PassLine ==
  ASSUME TypeInv, StageInv, [Next]_vars, PassStep \/ EventStep
  PROVE  /\ UNCHANGED <<next_event_sequence - InFlight, accepting, capacity, warnings>>
         /\ LiveOwners' \subseteq LiveOwners
         /\ PassStep => LiveOwners' = LiveOwners
<1>1. UNCHANGED <<next_event_sequence, accepting, game, capacity, warnings>>
  <2>1. CASE PassStep
    BY <2>1, PassFrame DEF PassStep, BeginUpdate, BeginPass, CheckReady, TakeEvents, PopEvent,
       PublishCount, EndPass, TimeExpires, outside, line, stopping
  <2>2. CASE EventStep
    BY <2>2, EventFrame DEF EventStep, SkipEvent, CheckEvent, CallLua, LatchError, Deactivate,
       EraseEvents, ReturnFailed, outside, line, stopping
  <2>3. QED
    BY <2>1, <2>2
<1>2. PassStep => LiveOwners' = LiveOwners
  BY PassFrame DEF LiveOwners, Live, DeliveryValid, TargetOf, registry, delivery, stopping
<1>3. QED
  BY <1>1, <1>2, LiveShrinks DEF InFlight
LEMMA QueuePasses ==
  ASSUME TypeInv, StageInv, FlushInv, [Next]_vars, PassStep
  PROVE  [Queue!Next]_(Queue!vars)
<1> USE PassRecord DEF PassShape, Queue!producer, Queue!queue, At, Go, batch
<1>0. PassShape'
  BY NextTypeInv, NextPassRecord
<1>1. /\ UNCHANGED <<next_event_sequence - InFlight, accepting, capacity, warnings>>
      /\ LiveOwners' = LiveOwners
  BY PassLine
<1>2. /\ update \in Places
      /\ budget \in [processed : Nat, progressed : BOOLEAN, expired : BOOLEAN]
  BY DEF TypeInv, TypeOK, ThreadsOK, Places
<1>3. CASE BeginUpdate
  <2>1. /\ update.at = "idle" /\ update'.at = "begin"
        /\ UNCHANGED <<budget, events, events_ready, pending, remaining, last_examined>>
    BY <1>2, <1>3 DEF BeginUpdate, outside, line, Places
  <2>2. QueuePass' = QueuePass
    BY <2>1 DEF QueuePass
  <2>3. QED
    BY <1>1, <2>1, <2>2 DEF Queue!vars, Queue!consumer
<1>4. CASE BeginPass
  <2>1. /\ update.at = "begin" /\ budget' = NoBudget
        /\ update'.at = IF pending = <<>> THEN "check" ELSE "run"
        /\ UNCHANGED <<events, events_ready, pending, remaining, last_examined>>
    BY <1>2, <1>4 DEF BeginPass, outside, line, Places
  <2>2. QueuePass' = [Queue!Idle EXCEPT !.at = IF pending = <<>> THEN "check" ELSE "run"]
    <3>1. /\ Queue!Idle \in Queue!Pass /\ QueuePass' \in Queue!Pass
          /\ QueuePass'.at = IF pending = <<>> THEN "check" ELSE "run"
      BY <1>0, <2>1 DEF Queue!Idle, Queue!Pass
    <3>2. /\ QueuePass'.processed = Queue!Idle.processed
          /\ QueuePass'.progressed = Queue!Idle.progressed
          /\ QueuePass'.expired = Queue!Idle.expired
      BY <1>0, <2>1 DEF Queue!Idle, NoBudget
    <3>3. QueuePass' = [Queue!Idle EXCEPT !.at = QueuePass'.at]
      BY <3>1, <3>2, PassUpdates
    <3>4. QED
      BY <3>1, <3>3
  <2>3. QueuePass.at = "idle"
    BY <2>1
  <2>4. Queue!BeginPass
    BY <1>1, <2>1, <2>2, <2>3 DEF Queue!BeginPass
  <2>5. QED
    BY <2>4 DEF Queue!Next, Queue!Update
<1>5. CASE CheckReady
  <2>1. /\ update.at = "check" /\ budget' = budget
        /\ update'.at = IF events_ready THEN "take" ELSE "run"
        /\ UNCHANGED <<events, events_ready, pending, remaining, last_examined>>
    BY <1>2, <1>5 DEF CheckReady, outside, line, Places
  <2>2. QueuePass' = [QueuePass EXCEPT !.at = IF events_ready THEN "take" ELSE "run"]
    BY <2>1 DEF QueuePass
  <2>3. QueuePass.at = "check"
    BY <2>1 DEF QueuePass
  <2>4. Queue!CheckReady
    BY <1>1, <2>1, <2>2, <2>3 DEF Queue!CheckReady
  <2>5. QED
    BY <2>4 DEF Queue!Next, Queue!Update
<1>6. CASE TakeEvents
  <2>1. /\ update.at = "take" /\ budget' = budget /\ update'.at = "run"
        /\ Queue!Drain /\ UNCHANGED last_examined
    BY <1>2, <1>6 DEF TakeEvents, Places
  <2>2. QueuePass' = [QueuePass EXCEPT !.at = "run"] /\ QueuePass.at = "take"
    BY <2>1 DEF QueuePass
  <2>3. Queue!TakeEvents
    BY <1>1, <2>1, <2>2 DEF Queue!TakeEvents
  <2>4. QED
    BY <2>3 DEF Queue!Next, Queue!Update
<1>7. CASE PopEvent
  <2>1. /\ update.at = "run" /\ Queue!Permits(budget) /\ Queue!Pop
        /\ budget' = [budget EXCEPT !.progressed = TRUE]
        /\ UNCHANGED <<events, events_ready, remaining>>
    BY <1>7 DEF PopEvent, outside, line
  <2>2. update'.at = "publish"
    BY <1>2, <1>7 DEF PopEvent, Places
  <2>3. QueuePass' = [QueuePass EXCEPT !.at = "publish", !.progressed = TRUE]
    <3>1. /\ budget'.processed = budget.processed /\ budget'.progressed = TRUE
          /\ budget'.expired = budget.expired
      BY <1>2, <2>1
    <3>2. /\ QueuePass \in Queue!Pass /\ QueuePass' \in Queue!Pass /\ QueuePass'.at = "publish"
          /\ QueuePass'.processed = QueuePass.processed /\ QueuePass'.progressed = TRUE
          /\ QueuePass'.expired = QueuePass.expired
      BY <1>0, <2>2, <3>1
    <3>3. QueuePass' = [QueuePass EXCEPT !.at = QueuePass'.at, !.progressed = TRUE]
      BY <3>2, PassUpdates
    <3>4. QED
      BY <3>2, <3>3
  <2>4. Queue!Permits(QueuePass) /\ QueuePass.at = "run"
    BY <2>1 DEF Queue!Permits, QueuePass
  <2>5. Queue!PopEvent
    BY <1>1, <2>1, <2>3, <2>4 DEF Queue!PopEvent
  <2>6. QED
    BY <2>5 DEF Queue!Next, Queue!Update
<1>8. CASE PublishCount
  <2>1. /\ update.at = "publish" /\ budget' = budget /\ update'.at = "consume"
        /\ remaining' = Len(pending)
        /\ UNCHANGED <<events, events_ready, pending, last_examined>>
    BY <1>2, <1>8 DEF PublishCount, outside, line, Places
  <2>2. QueuePass' = [QueuePass EXCEPT !.at = "consume"] /\ QueuePass.at = "publish"
    BY <2>1 DEF QueuePass
  <2>3. Queue!PublishCount
    BY <1>1, <2>1, <2>2 DEF Queue!PublishCount
  <2>4. QED
    BY <2>3 DEF Queue!Next, Queue!Update
<1>9. CASE EndPass
  <2>1. /\ update.at = "run" /\ budget' = NoBudget /\ update'.at = "idle"
        /\ pending = <<>> \/ ~Queue!Permits(budget)
        /\ UNCHANGED <<events, events_ready, pending, remaining, last_examined>>
    BY <1>2, <1>9 DEF EndPass, outside, line, Places
  <2>2. QueuePass' = Queue!Idle /\ QueuePass.at = "run"
    BY <2>1 DEF QueuePass, Queue!Idle, NoBudget
  <2>3. Queue!Permits(QueuePass) <=> Queue!Permits(budget)
    BY DEF Queue!Permits
  <2>4. Queue!EndPass
    BY <1>1, <2>1, <2>2, <2>3 DEF Queue!EndPass
  <2>5. QED
    BY <2>4 DEF Queue!Next, Queue!Update
<1>10. CASE TimeExpires
  <2>1. /\ update.at = "run" /\ ~budget.expired /\ budget' = [budget EXCEPT !.expired = TRUE]
        /\ update' = update
        /\ UNCHANGED <<events, events_ready, pending, remaining, last_examined>>
    BY <1>10 DEF TimeExpires, outside, line
  <2>2. QueuePass' = [QueuePass EXCEPT !.expired = TRUE] /\ QueuePass.at = "run"
    <3>1. /\ budget'.processed = budget.processed /\ budget'.progressed = budget.progressed
          /\ budget'.expired = TRUE
      BY <1>2, <2>1
    <3>2. /\ QueuePass \in Queue!Pass /\ QueuePass' \in Queue!Pass
          /\ QueuePass.at = "run" /\ QueuePass'.at = QueuePass.at
          /\ QueuePass'.processed = QueuePass.processed
          /\ QueuePass'.progressed = QueuePass.progressed /\ QueuePass'.expired = TRUE
      BY <1>0, <2>1, <3>1
    <3>3. QED
      BY <3>2, PassUpdates
  <2>3. Queue!TimeExpires
    BY <1>1, <2>1, <2>2 DEF Queue!TimeExpires
  <2>4. QED
    BY <2>3 DEF Queue!Next
<1>11. QED
  BY <1>3, <1>4, <1>5, <1>6, <1>7, <1>8, <1>9, <1>10 DEF PassStep

LEMMA QueueEvents ==
  ASSUME TypeInv, StageInv, PurgedInv, [Next]_vars, EventStep
  PROVE  [Queue!Next]_(Queue!vars)
<1> USE PassRecord DEF PassShape, At, Go, batch
<1>0. PassShape'
  BY NextTypeInv, NextPassRecord
<1>1. /\ UNCHANGED <<next_event_sequence - InFlight, accepting, capacity, warnings, pending,
                     remaining, last_examined>>
      /\ LiveOwners' \subseteq LiveOwners
  BY PassLine, EventFrame
<1>2. /\ update \in Places
      /\ budget \in [processed : Nat, progressed : BOOLEAN, expired : BOOLEAN]
  BY DEF TypeInv, TypeOK, ThreadsOK, Places
<1>3. ASSUME update.at \in Handling \ {"publish"}, update'.at \in Handling \ {"publish"},
             budget' = budget, UNCHANGED <<events, events_ready>>
      PROVE  [Queue!Next]_(Queue!vars)
  <2>1. QueuePass' = QueuePass
    BY <1>3 DEF QueuePass, Handling
  <2>2. QED
    BY <1>1, <1>3, <2>1, Withdraws DEF QueueLine, QueueBatch
<1>4. ASSUME update.at \in Handling \ {"publish"}, update'.at = "run",
             \/ budget' = budget
             \/ budget' = [budget EXCEPT !.processed = @ + 1],
             UNCHANGED <<events, events_ready>>, LiveOwners' = LiveOwners
      PROVE  [Queue!Next]_(Queue!vars)
  <2>1. /\ QueuePass \in Queue!Pass /\ QueuePass' \in Queue!Pass
        /\ QueuePass.at = "consume" /\ QueuePass'.at = "run"
    BY <1>0, <1>4
  <2>2. \E attempted \in BOOLEAN :
          QueuePass' = [QueuePass EXCEPT !.at = "run",
                          !.processed = IF attempted THEN @ + 1 ELSE @]
    <3>1. CASE budget' = budget
      <4>1. /\ budget'.processed = budget.processed
            /\ budget'.progressed = budget.progressed /\ budget'.expired = budget.expired
        BY <1>2, <3>1
      <4>2. /\ QueuePass'.processed = QueuePass.processed
            /\ QueuePass'.progressed = QueuePass.progressed
            /\ QueuePass'.expired = QueuePass.expired
        BY <1>0, <4>1
      <4>3. QueuePass' = [QueuePass EXCEPT !.at = QueuePass'.at,
                            !.processed = IF FALSE THEN @ + 1 ELSE @]
        BY <2>1, <4>2, PassUpdates
      <4>4. QED
        BY <2>1, <4>3
    <3>2. CASE budget' = [budget EXCEPT !.processed = @ + 1]
      <4>1. /\ budget'.processed = budget.processed + 1
            /\ budget'.progressed = budget.progressed /\ budget'.expired = budget.expired
        BY <1>2, <3>2
      <4>2. /\ QueuePass'.processed = QueuePass.processed + 1
            /\ QueuePass'.progressed = QueuePass.progressed
            /\ QueuePass'.expired = QueuePass.expired
        BY <1>0, <4>1
      <4>3. QueuePass' = [QueuePass EXCEPT !.at = QueuePass'.at,
                            !.processed = IF TRUE THEN @ + 1 ELSE @]
        BY <2>1, <4>2, PassUpdates
      <4>4. QED
        BY <2>1, <4>3
    <3>3. QED
      BY <1>4, <3>1, <3>2
  <2>3. Queue!ConsumeEvent
    BY <1>1, <1>4, <2>1, <2>2 DEF Queue!ConsumeEvent, Queue!producer, Queue!queue
  <2>4. QED
    BY <2>3 DEF Queue!Next, Queue!Update
<1>5. ASSUME UNCHANGED <<registry, fault, stopping>> PROVE LiveOwners' = LiveOwners
  BY <1>5 DEF LiveOwners, Live, DeliveryValid, TargetOf, registry, stopping
<1>6. CASE SkipEvent \/ ReturnFailed
  <2>1. /\ update.at \in {"consume", "return"} /\ update'.at = "run"
        /\ budget' = budget \/ budget' = [budget EXCEPT !.processed = @ + 1]
    BY <1>2, <1>6 DEF SkipEvent, ReturnFailed, NextEvent, Counted, Places
  <2>2. UNCHANGED <<events, events_ready, registry, fault, stopping>>
    BY <1>6 DEF SkipEvent, ReturnFailed, outside, line, delivery
  <2>3. QED
    BY <1>4, <1>5, <2>1, <2>2 DEF Handling
<1>7. CASE CheckEvent
  BY <1>2, <1>3, <1>7 DEF CheckEvent, outside, line, Handling, Places
<1>8. CASE CallLua
  <2>1. UNCHANGED <<events, events_ready, registry, fault, stopping>> /\ update.at = "call"
    BY <1>8 DEF CallLua, outside, line, delivery
  <2>2. \/ update'.at = "run" /\ budget' = [budget EXCEPT !.processed = @ + 1]
        \/ update'.at = "latch" /\ budget' = budget
    BY <1>2, <1>8 DEF CallLua, NextEvent, Counted, Places
  <2>3. QED
    BY <1>3, <1>4, <1>5, <2>1, <2>2 DEF Handling
<1>9. CASE LatchError \/ Deactivate
  <2>1. /\ update.at \in {"latch", "deactivate"}
        /\ update'.at \in {"deactivate", "erase", "return"}
        /\ budget' = budget
    BY <1>2, <1>9 DEF LatchError, Deactivate, Places
  <2>2. UNCHANGED <<events, events_ready>>
    BY <1>9 DEF LatchError, Deactivate, outside, line
  <2>3. QED
    BY <1>3, <2>1, <2>2 DEF Handling
<1>10. CASE EraseEvents
  <2>1. /\ update.at = "erase" /\ Queue!Erase({update.event.owner}) /\ budget' = budget
        /\ UNCHANGED <<registry, fault, stopping>>
    BY <1>10 DEF EraseEvents, delivery
  <2>2. update'.at = "return"
    BY <1>2, <1>10 DEF EraseEvents, Places
  <2>3. QueuePass' = QueuePass /\ LiveOwners' = LiveOwners
    BY <1>5, <2>1, <2>2 DEF QueuePass
  <2>4. update.event.owner \in DOMAIN subscription /\ update.event.owner \notin active
    BY <2>1 DEF PurgedInv, TypeInv, HandlesInv, Handling
  <2>5. {update.event.owner} \cap LiveOwners = {} /\ update.event.owner \in SubscriptionIds
    BY <2>4, RecordsOK DEF LiveOwners, Live, TypeInv, TypeOK
  <2>6. Queue!Purge({update.event.owner})
    BY <1>1, <2>1, <2>3, <2>5 DEF Queue!Purge, Queue!producer, Queue!consumer
  <2>7. {update.event.owner} \in SUBSET SubscriptionIds
    BY <2>5
  <2>8. QED
    BY <2>6, <2>7 DEF Queue!Next, Queue!Control
<1>11. QED
  BY <1>6, <1>7, <1>8, <1>9, <1>10 DEF EventStep

-----------------------------------------------------------------------------
(* What the refinement rests on. *)
LineInv == /\ TypeInv /\ FlushInv /\ SessionInv /\ PurgedInv
           /\ OwnershipInv /\ UnloadInv /\ SequenceInv /\ EraseInv

LEMMA InitLineInv == ASSUME Init PROVE LineInv
<1>1. TypeInv /\ FlushInv /\ SessionInv /\ PurgedInv /\ OwnershipInv /\ UnloadInv
  BY InitTypeInv, InitLateInv, InitSessionInv, InitPurgedInv, InitOwnershipInv, InitUnloadInv
<1>2. SequenceInv /\ EraseInv
  BY DEF Init, SequenceInv, EraseInv, NoCall
<1>3. QED
  BY <1>1, <1>2 DEF LineInv

LEMMA NextLineInv == ASSUME LineInv, [Next]_vars PROVE LineInv'
<1> USE DEF LineInv
<1>1. (TypeInv /\ FlushInv /\ SessionInv)'
  BY NextTypeInv, NextFlushInv, NextSessionInv
<1>2. PurgedInv'
  BY NextInactive, NextPurgedStaysPurged DEF PurgedInv
<1>3. (OwnershipInv /\ UnloadInv)'
  BY NextOwnershipInv, NextUnloadInv DEF SessionInv
<1>4. (SequenceInv /\ EraseInv)'
  BY NextSequenceInv, NextEraseInv
<1>5. QED
  BY <1>1, <1>2, <1>3, <1>4

LEMMA QueueSteps ==
  ASSUME LineInv, [Next]_vars
  PROVE  [Queue!Next]_(Queue!vars)
<1> USE DEF LineInv, SessionInv
<1>1. CASE Execute
  BY <1>1, QueueExecutes
<1>2. CASE ExecuteLocked \/ ExecuteThrows
  BY <1>2, QueueLocked
<1>3. CASE EraseAll
  BY <1>3, QueueErasesAll
<1>4. CASE ShutdownBegins \/ ShutdownClearsQueue
  BY <1>4, QueueShutdown
<1>5. CASE PassStep
  BY <1>5, QueuePasses
<1>6. CASE EventStep
  BY <1>6, QueueEvents
<1>7. CASE /\ ~Execute /\ ~ExecuteLocked /\ ~ExecuteThrows /\ ~EraseAll /\ ~ShutdownBegins
           /\ ~ShutdownClearsQueue /\ ~PassStep /\ ~EventStep
  BY <1>7, QuietSteps, Withdraws, LiveShrinks
<1>8. QED
  BY <1>1, <1>2, <1>3, <1>4, <1>5, <1>6, <1>7

(* Whatever registration, faults, stops and shutdown do around it, the backend
   uses its queue as DispatchQueue says: what is proved there holds here. *)
THEOREM BackendRefinesQueue == Spec => ImplementsQueue
<1>1. Init => LineInv /\ Queue!Init
  <2>1. ASSUME Init PROVE Queue!Init
    <3>1. InFlight = 0 /\ next_event_sequence - InFlight = 1
      BY <2>1 DEF Init, InFlight, NoCall
    <3>2. LiveOwners = SubscriptionIds
      BY <2>1 DEF Init, LiveOwners
    <3>3. QueuePass = Queue!Idle
      BY <2>1 DEF Init, QueuePass, Queue!Idle, NoBudget
    <3>4. QED
      BY <2>1, <3>1, <3>2, <3>3 DEF Init, Queue!Init
  <2>2. QED
    BY <2>1, InitLineInv
<1>2. LineInv /\ [Next]_vars => LineInv'
  BY NextLineInv
<1>3. LineInv /\ [Next]_vars => [Queue!Next]_(Queue!vars)
  BY QueueSteps
<1>4. QED
  BY <1>1, <1>2, <1>3, PTL DEF Spec, ImplementsQueue, Queue!Spec
-----------------------------------------------------------------------------
(* What DispatchQueueProofs proves of the queue holds for the backend's.  It
   proves it of this instance; the two are definition by definition the same. *)
Proved == INSTANCE DispatchQueueProofs WITH
  Owners <- SubscriptionIds, live <- LiveOwners, pass <- QueuePass,
  next_event_sequence <- next_event_sequence - InFlight

LEMMA SameQueue == Queue!Spec <=> Proved!Spec
<1>1. Queue!vars = Proved!vars /\ Queue!vars' = Proved!vars'
  BY DEF Queue!producer, Proved!producer, Queue!queue, Proved!queue, Queue!consumer,
     Proved!consumer, Queue!vars, Proved!vars
<1>2. Queue!Init <=> Proved!Init
  BY DEF Queue!Init, Proved!Init, Queue!Idle, Proved!Idle
<1>3. Queue!Produce <=> Proved!Produce
  BY Zenon DEF Queue!Produce, Proved!Produce, Queue!ExecuteAccepted, Proved!ExecuteAccepted,
     Queue!ExecuteRefused, Proved!ExecuteRefused, Queue!ExecuteThrows, Proved!ExecuteThrows,
     Queue!ExecuteDeclined, Proved!ExecuteDeclined, Queue!Push, Proved!Push, Queue!Readmit,
     Proved!Readmit, Queue!Refuse, Proved!Refuse, Queue!Admits, Proved!Admits,
     Queue!NextSequence, Proved!NextSequence, Queue!producer, Proved!producer, Queue!queue,
     Proved!queue, Queue!consumer, Proved!consumer, Queue!vars, Proved!vars
<1>4. Queue!Control <=> Proved!Control
  BY Zenon DEF Queue!Control, Proved!Control, Queue!Deactivate, Proved!Deactivate, Queue!Purge,
     Proved!Purge, Queue!StopAccepting, Proved!StopAccepting, Queue!ShutdownClears,
     Proved!ShutdownClears, Queue!Erase, Proved!Erase, Queue!Discard, Proved!Discard,
     Queue!producer, Proved!producer, Queue!queue, Proved!queue, Queue!consumer,
     Proved!consumer, Queue!vars, Proved!vars
<1>5. Queue!Update <=> Proved!Update
  BY Zenon DEF Queue!Update, Proved!Update, Queue!BeginPass, Proved!BeginPass, Queue!CheckReady,
     Proved!CheckReady, Queue!TakeEvents, Proved!TakeEvents, Queue!PopEvent, Proved!PopEvent,
     Queue!PublishCount, Proved!PublishCount, Queue!ConsumeEvent, Proved!ConsumeEvent,
     Queue!EndPass, Proved!EndPass, Queue!Drain, Proved!Drain, Queue!Pop, Proved!Pop,
     Queue!Permits, Proved!Permits, Queue!Idle, Proved!Idle, Queue!producer, Proved!producer,
     Queue!queue, Proved!queue, Queue!consumer, Proved!consumer, Queue!vars, Proved!vars
<1>6. Queue!TimeExpires <=> Proved!TimeExpires
  BY DEF Queue!TimeExpires, Proved!TimeExpires, Queue!producer, Proved!producer, Queue!queue,
     Proved!queue, Queue!consumer, Proved!consumer, Queue!vars, Proved!vars
<1>7. [Queue!Next]_(Queue!vars) <=> [Proved!Next]_(Proved!vars)
  <2>1. Queue!Next <=> Proved!Next
    BY <1>3, <1>4, <1>5, <1>6, Zenon DEF Queue!Next, Proved!Next
  <2>2. QED
    BY <1>1, <2>1
<1>8. QED
  BY <1>2, <1>7, PTL DEF Queue!Spec, Proved!Spec

QueueSafe == /\ Queue!NoLostWakeup /\ Queue!WithinCapacity /\ Queue!OneWarningPerEpisode
             /\ Queue!BacklogCountExact /\ Queue!AttemptsWithinBudget /\ Queue!ExaminedInOrder

(* The backend's queue, with registration, faults, stops and shutdown around it:
   no accepted event goes unnoticed, the limit holds for vector and batch, one
   warning per episode of overflow, the published count is exact, the budget is
   kept, and events are examined once, in the order of their numbers. *)
THEOREM BackendQueueIsSafe == Spec => []QueueSafe
<1>1. Limit \in Nat /\ MaxPerPass \in Nat /\ MaxEvents \in Nat
  BY BoundsAssumption
<1>2. Spec => Proved!Spec
  BY BackendRefinesQueue, SameQueue DEF ImplementsQueue
<1>3. Proved!Spec => [](/\ Proved!NoLostWakeup /\ Proved!WithinCapacity
                        /\ Proved!OneWarningPerEpisode /\ Proved!BacklogCountExact
                        /\ Proved!AttemptsWithinBudget /\ Proved!ExaminedInOrder)
  BY <1>1, Proved!WakeupNeverLost, Proved!CapacityRespected, Proved!WarnedOncePerEpisode,
     Proved!BacklogCountCorrect, Proved!BudgetRespected, Proved!OrderKept, PTL
<1>4. /\ Proved!NoLostWakeup <=> Queue!NoLostWakeup
      /\ Proved!WithinCapacity <=> Queue!WithinCapacity
      /\ Proved!OneWarningPerEpisode <=> Queue!OneWarningPerEpisode
      /\ Proved!BacklogCountExact <=> Queue!BacklogCountExact
      /\ Proved!AttemptsWithinBudget <=> Queue!AttemptsWithinBudget
      /\ Proved!ExaminedInOrder <=> Queue!ExaminedInOrder
  BY DEF Queue!NoLostWakeup, Proved!NoLostWakeup, Queue!WithinCapacity, Proved!WithinCapacity,
     Queue!OneWarningPerEpisode, Proved!OneWarningPerEpisode, Queue!BacklogCountExact,
     Proved!BacklogCountExact, Queue!AttemptsWithinBudget, Proved!AttemptsWithinBudget,
     Queue!ExaminedInOrder, Proved!ExaminedInOrder, Queue!Waiting, Proved!Waiting
<1>5. QED
  BY <1>2, <1>3, <1>4, PTL DEF QueueSafe
=============================================================================
