------------------------ MODULE DispatchQueueProofs ------------------------
(***************************************************************************)
(* What DispatchQueue's runs check on a small instance, proved for every   *)
(* set of owners, every queue limit and every budget: the types, the       *)
(* safety invariants, and that the queue implements OrderedDelivery.       *)
(***************************************************************************)
EXTENDS DispatchQueue, SequenceTheorems, TLAPS

(* Erase keeps a subsequence: no new event, no change of order. *)
LEMMA EraseKeepsSubsequence ==
  ASSUME TypeOK, NEW gone, Erase(gone)
  PROVE  /\ events' \in Seq(Event)
         /\ Len(events') <= Len(events)
         /\ events_ready' = events_ready
         /\ \E kept \in [1..Len(events') -> 1..Len(events)] :
              /\ \A i, j \in 1..Len(events') : i < j => kept[i] < kept[j]
              /\ \A k \in 1..Len(events) :
                   events[k].owner \notin gone <=> \E i \in 1..Len(events') : kept[i] = k
              /\ \A i \in 1..Len(events') : events'[i] = events[kept[i]]
<1>1. PICK n \in 0..Len(events) : \E kept \in [1..n -> 1..Len(events)] :
        /\ \A i, j \in 1..n : i < j => kept[i] < kept[j]
        /\ \A k \in 1..Len(events) :
             events[k].owner \notin gone <=> \E i \in 1..n : kept[i] = k
        /\ events' = [i \in 1..n |-> events[kept[i]]]
        /\ UNCHANGED events_ready
  BY DEF Erase
<1>2. PICK kept \in [1..n -> 1..Len(events)] :
        /\ \A i, j \in 1..n : i < j => kept[i] < kept[j]
        /\ \A k \in 1..Len(events) :
             events[k].owner \notin gone <=> \E i \in 1..n : kept[i] = k
        /\ events' = [i \in 1..n |-> events[kept[i]]]
        /\ UNCHANGED events_ready
  BY <1>1
<1>3. events \in Seq(Event) /\ Len(events) \in Nat /\ n \in Nat /\ n <= Len(events)
  BY DEF TypeOK
<1>4. \A i \in 1..n : events[kept[i]] \in Event
  BY <1>2, <1>3
<1>5. events' \in [1..n -> Event]
  BY <1>2, <1>4
<1>6. events' \in Seq(Event) /\ Len(events') = n
  BY <1>3, <1>5
<1>7. QED
  BY <1>2, <1>3, <1>6

-----------------------------------------------------------------------------
(* Type correctness.                                                       *)

LEMMA InitTypeOK == ASSUME Init PROVE TypeOK
<1>1. events \in Seq(Event) /\ pending \in Seq(Event)
  BY DEF Init
<1>2. accepting \in BOOLEAN /\ events_ready \in BOOLEAN /\ live \subseteq Owners
  BY DEF Init
<1>3. /\ next_event_sequence \in Nat \ {0} /\ warnings \in Nat
      /\ remaining \in Nat /\ last_examined \in Nat
  BY DEF Init
<1>4. capacity \in Capacity /\ pass \in Pass
  BY DEF Init, Capacity, Pass, Idle
<1>5. QED
  BY <1>1, <1>2, <1>3, <1>4 DEF TypeOK

(* A refusal keeps the capacity record a capacity record. *)
LEMMA RefusalRecorded ==
  ASSUME NEW c \in Capacity, NEW n \in Nat, NEW p \in BOOLEAN
  PROVE  [c EXCEPT !.rejected = n, !.overflow_reported = TRUE, !.warning_pending = p] \in Capacity
  BY DEF Capacity

LEMMA RefuseTypeOK ==
  ASSUME TypeOK, NEW traceRoom \in BOOLEAN, Refuse(traceRoom)
  PROVE  capacity' \in Capacity /\ warnings' \in Nat /\ UNCHANGED <<events, events_ready>>
<1> DEFINE rejected == capacity.rejected + 1
           wanted == capacity.warning_pending \/ ~capacity.overflow_reported
           posted == wanted /\ ~traceRoom
<1>1. capacity \in Capacity /\ warnings \in Nat
  BY DEF TypeOK
<1>2. rejected \in Nat /\ posted \in BOOLEAN
  BY <1>1 DEF Capacity
<1>3. capacity' = [capacity EXCEPT
        !.rejected = rejected, !.overflow_reported = TRUE, !.warning_pending = posted]
  BY DEF Refuse
<1>4. warnings' \in Nat /\ UNCHANGED <<events, events_ready>>
  BY <1>1 DEF Refuse, queue
<1> HIDE DEF rejected, posted
<1>5. QED
  BY <1>1, <1>2, <1>3, <1>4, RefusalRecorded

LEMMA NextTypeOK == ASSUME TypeOK, [Next]_vars PROVE TypeOK'
<1>0. Len(events) \in Nat /\ next_event_sequence + 1 \in Nat \ {0}
  BY DEF TypeOK
<1>1. ASSUME NEW o \in Owners, ExecuteAccepted(o) PROVE TypeOK'
  <2> DEFINE high == IF Len(events) + 1 > capacity.high_water
                     THEN Len(events) + 1 ELSE capacity.high_water
  <2>1. [owner |-> o, sequence |-> next_event_sequence] \in Event
    BY <1>1, MaxEventsAssumption DEF ExecuteAccepted, Event, TypeOK
  <2>2. events' \in Seq(Event)
    BY <1>1, <2>1 DEF ExecuteAccepted, Push, TypeOK
  <2>3. high \in Nat
    BY <1>0 DEF Capacity, TypeOK
  <2>4. capacity' \in Capacity
    BY <1>1, <2>3 DEF ExecuteAccepted, Push, Capacity, TypeOK
  <2>5. QED
    BY <1>1, <2>2, <2>4 DEF ExecuteAccepted, Push, NextSequence, consumer, TypeOK
<1>2. ASSUME NEW o \in Owners, ExecuteRefused(o) PROVE TypeOK'
  <2>1. capacity' \in Capacity /\ warnings' \in Nat /\ UNCHANGED <<events, events_ready>>
    BY <1>2, RefuseTypeOK DEF ExecuteRefused
  <2>2. live' \subseteq Owners
    BY <1>2 DEF ExecuteRefused, TypeOK
  <2>3. QED
    BY <1>0, <1>2, <2>1, <2>2 DEF ExecuteRefused, NextSequence, consumer, TypeOK
<1>3. ASSUME NEW o \in Owners, ExecuteThrows(o) PROVE TypeOK'
  <2>1. CASE Refuse(FALSE)
    BY <1>0, <1>3, <2>1, RefuseTypeOK DEF ExecuteThrows, NextSequence, consumer, TypeOK
  <2>2. CASE Readmit
    <3>1. capacity' \in Capacity /\ warnings' \in Nat /\ UNCHANGED <<events, events_ready>>
      BY <2>2 DEF Readmit, queue, Capacity, TypeOK
    <3>2. QED
      BY <1>0, <1>3, <3>1 DEF ExecuteThrows, NextSequence, consumer, TypeOK
  <2>3. QED
    BY <1>3, <2>1, <2>2 DEF ExecuteThrows
<1>4. CASE ExecuteDeclined
  BY <1>4 DEF ExecuteDeclined, NextSequence, consumer, queue, TypeOK
<1>5. ASSUME NEW gone \in SUBSET Owners, Deactivate(gone) PROVE TypeOK'
  BY <1>5 DEF Deactivate, consumer, queue, TypeOK
<1>6. ASSUME NEW gone \in SUBSET Owners, Purge(gone) PROVE TypeOK'
  <2>1. events' \in Seq(Event) /\ events_ready' = events_ready
    BY <1>6, EraseKeepsSubsequence DEF Purge
  <2>2. QED
    BY <1>6, <2>1 DEF Purge, producer, consumer, TypeOK
<1>7. CASE StopAccepting
  BY <1>7 DEF StopAccepting, consumer, queue, TypeOK
<1>8. CASE ShutdownClears
  <2>1. events' \in Seq(Event)
    BY <1>8 DEF ShutdownClears, Discard
  <2>2. events_ready' \in BOOLEAN
    BY <1>8 DEF ShutdownClears, Discard
  <2>3. QED
    BY <1>8, <2>1, <2>2 DEF ShutdownClears, producer, consumer, TypeOK
<1>9. CASE BeginPass
  BY <1>9 DEF BeginPass, Idle, Pass, producer, queue, TypeOK
<1>10. CASE CheckReady
  BY <1>10 DEF CheckReady, Pass, producer, queue, TypeOK
<1>11. CASE TakeEvents
  <2>1. pass' \in Pass
    BY <1>11 DEF TakeEvents, Pass, TypeOK
  <2>2. pending' \in Seq(Event) /\ remaining' \in Nat /\ events' \in Seq(Event)
    BY <1>0, <1>11 DEF TakeEvents, Drain, TypeOK
  <2>3. events_ready' \in BOOLEAN
    BY <1>11 DEF TakeEvents, Drain
  <2>4. QED
    BY <1>11, <2>1, <2>2, <2>3 DEF TakeEvents, producer, TypeOK
<1>12. CASE PopEvent
  <2>1. Head(pending) \in Event /\ Tail(pending) \in Seq(Event)
    BY <1>12 DEF PopEvent, Pop, TypeOK
  <2>2. Head(pending).sequence \in Nat
    BY <2>1, MaxEventsAssumption DEF Event
  <2>3. pass' \in Pass
    BY <1>12 DEF PopEvent, Pass, TypeOK
  <2>4. QED
    BY <1>12, <2>1, <2>2, <2>3 DEF PopEvent, Pop, producer, queue, TypeOK
<1>13. CASE PublishCount
  BY <1>13 DEF PublishCount, Pass, producer, queue, TypeOK
<1>14. CASE ConsumeEvent
  <2>1. pass.processed \in Nat /\ pass.processed + 1 \in Nat
    BY DEF Pass, TypeOK
  <2>2. PICK n \in Nat : pass' = [pass EXCEPT !.at = "run", !.processed = n]
    BY <1>14, <2>1 DEF ConsumeEvent
  <2>3. pass' \in Pass
    BY <2>2 DEF Pass, TypeOK
  <2>4. QED
    BY <1>14, <2>3 DEF ConsumeEvent, producer, queue, TypeOK
<1>15. CASE EndPass
  BY <1>15 DEF EndPass, Idle, Pass, producer, queue, TypeOK
<1>16. CASE TimeExpires
  BY <1>16 DEF TimeExpires, Pass, producer, queue, TypeOK
<1>17. CASE UNCHANGED vars
  BY <1>17 DEF vars, producer, consumer, queue, TypeOK
<1>18. QED
  BY <1>1, <1>2, <1>3, <1>4, <1>5, <1>6, <1>7, <1>8, <1>9, <1>10, <1>11, <1>12,
     <1>13, <1>14, <1>15, <1>16, <1>17
     DEF Next, Produce, Control, Update

(* Every reachable state has the declared shape, for every set of owners,
   every queue limit and every budget. *)
THEOREM TypeCorrect == Spec => []TypeOK
<1>1. Init => TypeOK
  BY InitTypeOK
<1>2. TypeOK /\ [Next]_vars => TypeOK'
  BY NextTypeOK
<1>3. QED
  BY <1>1, <1>2, PTL DEF Spec

-----------------------------------------------------------------------------
(* The consumer's bookkeeping.  While an entry is being consumed the count
   allowance is not used up yet: that is what PopEvent's guard establishes and
   what keeps ConsumeEvent within it.                                      *)
PassShape ==
  /\ pass.at \in {"check", "take"} => pending = <<>>
  /\ (pass.at \in {"publish", "consume"} /\ MaxPerPass # 0) => pass.processed < MaxPerPass

CountInv == TypeOK /\ PassShape /\ BacklogCountExact /\ AttemptsWithinBudget

LEMMA InitCountInv == ASSUME Init PROVE CountInv
<1>1. TypeOK
  BY InitTypeOK
<1>2. pass = Idle /\ pending = <<>> /\ remaining = 0
  BY DEF Init
<1>3. PassShape /\ BacklogCountExact /\ AttemptsWithinBudget
  BY <1>2, MaxPerPassAssumption DEF PassShape, BacklogCountExact, AttemptsWithinBudget, Idle
<1>4. QED
  BY <1>1, <1>3 DEF CountInv

LEMMA NextCountInv == ASSUME CountInv, [Next]_vars PROVE CountInv'
<1>1. TypeOK /\ TypeOK' /\ pass \in Pass /\ pending \in Seq(Event)
  BY NextTypeOK DEF CountInv, TypeOK
<1>2. CASE UNCHANGED consumer
  BY <1>1, <1>2 DEF CountInv, PassShape, BacklogCountExact, AttemptsWithinBudget, consumer
<1>3. CASE BeginPass
  BY <1>1, <1>3, MaxPerPassAssumption
     DEF CountInv, PassShape, BacklogCountExact, AttemptsWithinBudget, BeginPass, Idle
<1>4. CASE CheckReady
  <2>1. pass.at = "check" /\ pass'.at \in {"take", "run"} /\ pass'.processed = pass.processed
    BY <1>1, <1>4 DEF CheckReady, Pass
  <2>2. UNCHANGED <<pending, remaining>>
    BY <1>4 DEF CheckReady
  <2>3. QED
    BY <1>1, <2>1, <2>2 DEF CountInv, PassShape, BacklogCountExact, AttemptsWithinBudget
<1>5. CASE TakeEvents
  <2>1. pass'.at = "run" /\ pass'.processed = pass.processed
    BY <1>1, <1>5 DEF TakeEvents, Pass
  <2>2. remaining' = Len(pending') /\ Len(pending') \in Nat
    BY <1>1, <1>5 DEF TakeEvents, Drain, TypeOK
  <2>3. QED
    BY <1>1, <2>1, <2>2 DEF CountInv, PassShape, BacklogCountExact, AttemptsWithinBudget
<1>6. CASE PopEvent
  <2>1. Len(pending') + 1 = Len(pending) /\ remaining' = remaining
    BY <1>1, <1>6 DEF PopEvent, Pop
  <2>2. pass.at = "run" /\ pass'.at = "publish" /\ pass'.processed = pass.processed
    BY <1>1, <1>6 DEF PopEvent, Pass
  <2>3. MaxPerPass # 0 => pass.processed < MaxPerPass
    BY <1>1, <1>6, MaxPerPassAssumption DEF PopEvent, Permits, Pass
  <2>4. QED
    BY <1>1, <2>1, <2>2, <2>3
       DEF CountInv, PassShape, BacklogCountExact, AttemptsWithinBudget
<1>7. CASE PublishCount
  BY <1>1, <1>7
     DEF CountInv, PassShape, BacklogCountExact, AttemptsWithinBudget, PublishCount, Pass
<1>8. CASE ConsumeEvent
  <2>1. pass.processed \in Nat /\ pass.at = "consume"
    BY <1>1, <1>8 DEF ConsumeEvent, Pass
  <2>2. PICK n \in {pass.processed, pass.processed + 1} :
          pass' = [pass EXCEPT !.at = "run", !.processed = n]
    BY <1>8 DEF ConsumeEvent
  <2>3. pass'.at = "run" /\ pass'.processed = n
    BY <1>1, <2>2 DEF Pass
  <2>4. UNCHANGED <<pending, remaining>>
    BY <1>8 DEF ConsumeEvent
  <2>5. MaxPerPass # 0 => n <= MaxPerPass
    BY <2>1, <2>2, MaxPerPassAssumption DEF CountInv, PassShape
  <2>6. QED
    BY <1>1, <2>1, <2>3, <2>4, <2>5
       DEF CountInv, PassShape, BacklogCountExact, AttemptsWithinBudget
<1>9. CASE EndPass
  BY <1>1, <1>9, MaxPerPassAssumption
     DEF CountInv, PassShape, BacklogCountExact, AttemptsWithinBudget, EndPass, Idle
<1>10. CASE TimeExpires
  BY <1>1, <1>10
     DEF CountInv, PassShape, BacklogCountExact, AttemptsWithinBudget, TimeExpires, Pass
<1>11. QED
  BY <1>2, <1>3, <1>4, <1>5, <1>6, <1>7, <1>8, <1>9, <1>10
     DEF Next, Produce, Control, Update, ExecuteAccepted, ExecuteRefused, ExecuteThrows,
         ExecuteDeclined, Deactivate, Purge, StopAccepting, ShutdownClears, vars

(* The count GetDispatchStats reads is exact, for every limit and budget. *)
THEOREM BacklogCountCorrect == Spec => []BacklogCountExact
<1>1. Init => CountInv
  BY InitCountInv
<1>2. CountInv /\ [Next]_vars => CountInv'
  BY NextCountInv
<1>3. CountInv => BacklogCountExact
  BY DEF CountInv
<1>4. QED
  BY <1>1, <1>2, <1>3, PTL DEF Spec

(* No pass ever attempts more callbacks than the count allows, although
   skipped entries are free and the first entry always goes through. *)
THEOREM BudgetRespected == Spec => []AttemptsWithinBudget
<1>1. Init => CountInv
  BY InitCountInv
<1>2. CountInv /\ [Next]_vars => CountInv'
  BY NextCountInv
<1>3. CountInv => AttemptsWithinBudget
  BY DEF CountInv
<1>4. QED
  BY <1>1, <1>2, <1>3, PTL DEF Spec

-----------------------------------------------------------------------------
(* Progress of a pass.  An attempt was counted only after a pop, so a budget
   that refuses has let something through.                                 *)
ProgressInv ==
  /\ TypeOK
  /\ pass.at \in {"check", "take"} => pending = <<>>
  /\ (pass.processed # 0 \/ pass.at \in {"publish", "consume"}) => pass.progressed

LEMMA InitProgressInv == ASSUME Init PROVE ProgressInv
<1>1. TypeOK
  BY InitTypeOK
<1>2. pass = Idle
  BY DEF Init
<1>3. QED
  BY <1>1, <1>2 DEF ProgressInv, Idle

LEMMA NextProgressInv == ASSUME ProgressInv, [Next]_vars PROVE ProgressInv'
<1>1. TypeOK /\ TypeOK' /\ pass \in Pass
  BY NextTypeOK DEF ProgressInv, TypeOK
<1>2. CASE UNCHANGED consumer
  BY <1>1, <1>2 DEF ProgressInv, consumer
<1>3. CASE BeginPass
  BY <1>1, <1>3 DEF ProgressInv, BeginPass, Idle
<1>4. CASE CheckReady
  BY <1>1, <1>4 DEF ProgressInv, CheckReady, Pass
<1>5. CASE TakeEvents
  BY <1>1, <1>5 DEF ProgressInv, TakeEvents, Pass
<1>6. CASE PopEvent
  BY <1>1, <1>6 DEF ProgressInv, PopEvent, Pass
<1>7. CASE PublishCount
  BY <1>1, <1>7 DEF ProgressInv, PublishCount, Pass
<1>8. CASE ConsumeEvent
  <2>1. pass.progressed
    BY <1>8 DEF ProgressInv, ConsumeEvent
  <2>2. PICK n \in {pass.processed, pass.processed + 1} :
          pass' = [pass EXCEPT !.at = "run", !.processed = n]
    BY <1>8 DEF ConsumeEvent
  <2>3. pass'.at = "run" /\ pass'.progressed = pass.progressed
    BY <1>1, <2>2 DEF Pass
  <2>4. QED
    BY <1>1, <2>1, <2>3 DEF ProgressInv
<1>9. CASE EndPass
  BY <1>1, <1>9 DEF ProgressInv, EndPass, Idle
<1>10. CASE TimeExpires
  BY <1>1, <1>10 DEF ProgressInv, TimeExpires, Pass
<1>11. QED
  BY <1>2, <1>3, <1>4, <1>5, <1>6, <1>7, <1>8, <1>9, <1>10
     DEF Next, Produce, Control, Update, ExecuteAccepted, ExecuteRefused, ExecuteThrows,
         ExecuteDeclined, Deactivate, Purge, StopAccepting, ShutdownClears, vars

(* One step of a pass: it does not end on a nonempty batch without progress,
   and pops nothing more once it is late. *)
LEMMA ProgressStep ==
  ASSUME ProgressInv, [Next]_vars
  PROVE  /\ (pass.at = "run" /\ pass'.at = "idle" /\ pending # <<>>) => pass.progressed
         /\ (pass.expired /\ pass.progressed) => Len(pending') >= Len(pending)
<1>1. pass \in Pass /\ pending \in Seq(Event) /\ events \in Seq(Event)
  BY DEF ProgressInv, TypeOK
<1>2. CASE UNCHANGED <<pending, pass>>
  BY <1>1, <1>2
<1>3. CASE BeginPass \/ CheckReady \/ PublishCount \/ ConsumeEvent \/ TimeExpires
  <2>1. pending' = pending
    BY <1>3 DEF BeginPass, CheckReady, PublishCount, ConsumeEvent, TimeExpires
  <2>2. pass.at = "run" => pass'.at = "run"
    BY <1>1, <1>3 DEF BeginPass, CheckReady, PublishCount, ConsumeEvent, TimeExpires, Pass
  <2>3. QED
    BY <1>1, <2>1, <2>2
<1>4. CASE TakeEvents
  <2>1. pass.at = "take" /\ pending = <<>> /\ pending' = events
    BY <1>4 DEF TakeEvents, Drain, ProgressInv
  <2>2. QED
    BY <1>1, <2>1
<1>5. CASE PopEvent
  <2>1. pass.progressed => ~pass.expired
    BY <1>5 DEF PopEvent, Permits
  <2>2. pass'.at = "publish"
    BY <1>1, <1>5 DEF PopEvent, Pass
  <2>3. QED
    BY <2>1, <2>2
<1>6. CASE EndPass
  <2>1. pending' = pending /\ (pending # <<>> => ~Permits(pass))
    BY <1>6 DEF EndPass
  <2>2. ~Permits(pass) => pass.progressed
    BY DEF Permits, ProgressInv
  <2>3. QED
    BY <1>1, <2>1, <2>2
<1>7. QED
  BY <1>2, <1>3, <1>4, <1>5, <1>6
     DEF Next, Produce, Control, Update, ExecuteAccepted, ExecuteRefused, ExecuteThrows,
         ExecuteDeclined, Deactivate, Purge, StopAccepting, ShutdownClears, vars, consumer

(* Every pass over a nonempty batch examines an entry, and a late one no second:
   for every budget, including none. *)
THEOREM PassesProgress == Spec => PassProgress
<1>1. Init => ProgressInv
  BY InitProgressInv
<1>2. ProgressInv /\ [Next]_vars => ProgressInv'
  BY NextProgressInv
<1>3. ProgressInv /\ [Next]_vars =>
        [/\ (pass.at = "run" /\ pass'.at = "idle" /\ pending # <<>>) => pass.progressed
         /\ (pass.expired /\ pass.progressed) => Len(pending') >= Len(pending)]_vars
  BY ProgressStep
<1>4. QED
  BY <1>1, <1>2, <1>3, PTL DEF Spec, PassProgress

-----------------------------------------------------------------------------
(* The producer's bookkeeping.                                             *)
QueueInv == TypeOK /\ NoLostWakeup /\ WithinCapacity /\ OneWarningPerEpisode

LEMMA InitQueueInv == ASSUME Init PROVE QueueInv
<1>1. TypeOK
  BY InitTypeOK
<1>2. NoLostWakeup /\ WithinCapacity
  BY LimitAssumption DEF Init, NoLostWakeup, WithinCapacity
<1>3. OneWarningPerEpisode
  BY DEF Init, OneWarningPerEpisode
<1>4. QED
  BY <1>1, <1>2, <1>3 DEF QueueInv

(* The steps that touch the producer's bookkeeping or the two buffers. *)
LEMMA QueueSteps ==
  ASSUME [Next]_vars
  PROVE  \/ UNCHANGED <<events, events_ready, capacity, warnings, pending>>
         \/ \E o \in Owners : ExecuteAccepted(o)
         \/ \E traceRoom \in BOOLEAN : Refuse(traceRoom) /\ UNCHANGED pending
         \/ Readmit /\ UNCHANGED pending
         \/ \E gone \in SUBSET Owners : Purge(gone)
         \/ ShutdownClears \/ TakeEvents \/ PopEvent
  BY DEF Next, Produce, Control, Update, ExecuteRefused, ExecuteThrows, ExecuteDeclined,
         Deactivate, StopAccepting, BeginPass, CheckReady, PublishCount, ConsumeEvent, EndPass,
         TimeExpires, vars, producer, consumer, queue

LEMMA NextQueueInv == ASSUME QueueInv, [Next]_vars PROVE QueueInv'
<1>0. /\ TypeOK /\ TypeOK'
      /\ Len(events) \in Nat /\ Len(pending) \in Nat
      /\ capacity \in Capacity /\ capacity.high_water \in Nat
  BY NextTypeOK DEF QueueInv, TypeOK, Capacity
<1>1. CASE UNCHANGED <<events, events_ready, capacity, warnings, pending>>
  BY <1>0, <1>1 DEF QueueInv, NoLostWakeup, WithinCapacity, OneWarningPerEpisode
<1>2. ASSUME NEW o \in Owners, ExecuteAccepted(o) PROVE QueueInv'
  <2> DEFINE high == IF Len(events) + 1 > capacity.high_water
                     THEN Len(events) + 1 ELSE capacity.high_water
  <2>1. /\ events_ready' = TRUE /\ warnings' = 0 /\ UNCHANGED pending
        /\ Limit = 0 \/ Len(events) < Limit
        /\ capacity' = [capacity EXCEPT !.overflow_reported = FALSE,
                          !.warning_pending = FALSE, !.high_water = high]
    BY <1>2 DEF ExecuteAccepted, Push, Admits, consumer
  <2>2. Len(events') = Len(events) + 1
    BY <1>0, <1>2 DEF ExecuteAccepted, Push, TypeOK
  <2>3. /\ capacity'.high_water = high
        /\ capacity'.overflow_reported = FALSE /\ capacity'.warning_pending = FALSE
    BY <1>0, <2>1 DEF Capacity
  <2>4. NoLostWakeup'
    BY <2>1 DEF NoLostWakeup
  <2>5. WithinCapacity'
    BY <1>0, <2>1, <2>2, <2>3, LimitAssumption DEF QueueInv, WithinCapacity
  <2>6. OneWarningPerEpisode'
    BY <2>1, <2>3 DEF OneWarningPerEpisode
  <2>7. QED
    BY <1>0, <2>4, <2>5, <2>6 DEF QueueInv
<1>3. ASSUME NEW traceRoom \in BOOLEAN, Refuse(traceRoom), UNCHANGED pending PROVE QueueInv'
  <2> DEFINE wanted == capacity.warning_pending \/ ~capacity.overflow_reported
  <2>1. /\ capacity'.high_water = capacity.high_water
        /\ capacity'.overflow_reported = TRUE
        /\ capacity'.warning_pending = (wanted /\ ~traceRoom)
    BY <1>0, <1>3 DEF Refuse, Capacity
  <2>2. warnings' = IF wanted /\ traceRoom THEN warnings + 1 ELSE warnings
    BY <1>3 DEF Refuse
  <2>3. UNCHANGED <<events, events_ready>>
    BY <1>3 DEF Refuse, queue
  <2>4. NoLostWakeup' /\ WithinCapacity'
    BY <1>3, <2>1, <2>3 DEF QueueInv, NoLostWakeup, WithinCapacity
  <2>5. OneWarningPerEpisode'
    <3>1. CASE wanted /\ traceRoom
      <4>1. warnings = 0
        BY <3>1 DEF QueueInv, OneWarningPerEpisode
      <4>2. warnings' = 1
        BY <2>2, <3>1, <4>1
      <4>3. ~capacity'.warning_pending
        BY <2>1, <3>1
      <4>4. QED
        BY <2>1, <4>2, <4>3 DEF OneWarningPerEpisode
    <3>2. CASE wanted /\ ~traceRoom
      <4>1. warnings = 0
        BY <3>2 DEF QueueInv, OneWarningPerEpisode
      <4>2. capacity'.warning_pending /\ warnings' = 0
        BY <2>1, <2>2, <3>2, <4>1
      <4>3. QED
        BY <2>1, <4>2 DEF OneWarningPerEpisode
    <3>3. CASE ~wanted
      <4>1. warnings = 1
        BY <3>3 DEF QueueInv, OneWarningPerEpisode
      <4>2. ~capacity'.warning_pending /\ warnings' = 1
        BY <2>1, <2>2, <3>3, <4>1
      <4>3. QED
        BY <2>1, <4>2 DEF OneWarningPerEpisode
    <3>4. QED
      BY <3>1, <3>2, <3>3
  <2>6. QED
    BY <1>0, <2>4, <2>5 DEF QueueInv
<1>4. CASE Readmit /\ UNCHANGED pending
  <2>1. /\ capacity'.high_water = capacity.high_water /\ warnings' = 0
        /\ capacity'.overflow_reported = FALSE /\ capacity'.warning_pending = FALSE
        /\ UNCHANGED <<events, events_ready>>
    BY <1>0, <1>4 DEF Readmit, queue, Capacity
  <2>2. QED
    BY <1>0, <1>4, <2>1 DEF QueueInv, NoLostWakeup, WithinCapacity, OneWarningPerEpisode
<1>5. ASSUME NEW gone \in SUBSET Owners, Purge(gone) PROVE QueueInv'
  <2>1. Len(events') <= Len(events) /\ events_ready' = events_ready /\ Len(events') \in Nat
    BY <1>0, <1>5, EraseKeepsSubsequence DEF Purge, TypeOK
  <2>2. UNCHANGED <<capacity, warnings, pending>>
    BY <1>5 DEF Purge, producer, consumer
  <2>3. events' # <<>> => events # <<>>
    BY <1>0, <2>1 DEF TypeOK
  <2>4. NoLostWakeup'
    BY <2>1, <2>3 DEF QueueInv, NoLostWakeup
  <2>5. WithinCapacity'
    BY <1>0, <2>1, <2>2, LimitAssumption DEF QueueInv, WithinCapacity
  <2>6. OneWarningPerEpisode'
    BY <2>2 DEF QueueInv, OneWarningPerEpisode
  <2>7. QED
    BY <1>0, <2>4, <2>5, <2>6 DEF QueueInv
<1>6. CASE ShutdownClears
  <2>1. events' = <<>> /\ UNCHANGED <<capacity, warnings, pending>>
    BY <1>6 DEF ShutdownClears, Discard, producer, consumer
  <2>2. NoLostWakeup' /\ WithinCapacity'
    BY <1>0, <2>1, LimitAssumption DEF QueueInv, NoLostWakeup, WithinCapacity
  <2>3. OneWarningPerEpisode'
    BY <2>1 DEF QueueInv, OneWarningPerEpisode
  <2>4. QED
    BY <1>0, <2>2, <2>3 DEF QueueInv
<1>7. CASE TakeEvents
  <2>1. events' = <<>> /\ pending' = events /\ UNCHANGED <<capacity, warnings>>
    BY <1>7 DEF TakeEvents, Drain, producer
  <2>2. NoLostWakeup' /\ WithinCapacity'
    BY <1>0, <2>1, LimitAssumption DEF QueueInv, NoLostWakeup, WithinCapacity
  <2>3. OneWarningPerEpisode'
    BY <2>1 DEF QueueInv, OneWarningPerEpisode
  <2>4. QED
    BY <1>0, <2>2, <2>3 DEF QueueInv
<1>8. CASE PopEvent
  <2>1. UNCHANGED <<events, events_ready, capacity, warnings>>
    BY <1>8 DEF PopEvent, producer, queue
  <2>2. Len(pending') <= Len(pending) /\ Len(pending') \in Nat
    BY <1>0, <1>8 DEF PopEvent, Pop, TypeOK
  <2>3. NoLostWakeup' /\ WithinCapacity'
    BY <1>0, <2>1, <2>2, LimitAssumption DEF QueueInv, NoLostWakeup, WithinCapacity
  <2>4. OneWarningPerEpisode'
    BY <2>1 DEF QueueInv, OneWarningPerEpisode
  <2>5. QED
    BY <1>0, <2>3, <2>4 DEF QueueInv
<1>9. QED
  BY <1>1, <1>2, <1>3, <1>4, <1>5, <1>6, <1>7, <1>8, QueueSteps

(* An event the producer has accepted is never left behind a lowered flag,
   whatever is erased, drained or cleared in between. *)
THEOREM WakeupNeverLost == Spec => []NoLostWakeup
<1>1. Init => QueueInv
  BY InitQueueInv
<1>2. QueueInv /\ [Next]_vars => QueueInv'
  BY NextQueueInv
<1>3. QueueInv => NoLostWakeup
  BY DEF QueueInv
<1>4. QED
  BY <1>1, <1>2, <1>3, PTL DEF Spec

(* Neither buffer ever exceeds the queue limit, whatever the limit is. *)
THEOREM CapacityRespected == Spec => []WithinCapacity
<1>1. Init => QueueInv
  BY InitQueueInv
<1>2. QueueInv /\ [Next]_vars => QueueInv'
  BY NextQueueInv
<1>3. QueueInv => WithinCapacity
  BY DEF QueueInv
<1>4. QED
  BY <1>1, <1>2, <1>3, PTL DEF Spec

(* An overflow episode posts one warning, or still has it pending. *)
THEOREM WarnedOncePerEpisode == Spec => []OneWarningPerEpisode
<1>1. Init => QueueInv
  BY InitQueueInv
<1>2. QueueInv /\ [Next]_vars => QueueInv'
  BY NextQueueInv
<1>3. QueueInv => OneWarningPerEpisode
  BY DEF QueueInv
<1>4. QED
  BY <1>1, <1>2, <1>3, PTL DEF Spec

-----------------------------------------------------------------------------
(* Order.  Each buffer is ordered, and a batch is only taken into an empty one:
   that makes the two of them one line.                                    *)
Increasing(q) == \A i, j \in 1..Len(q) : i < j => q[i].sequence < q[j].sequence

Between(q, low, high) ==
  \A i \in 1..Len(q) : low < q[i].sequence /\ q[i].sequence < high

OrderInv ==
  /\ TypeOK
  /\ pass.at \in {"check", "take"} => pending = <<>>
  /\ last_examined < next_event_sequence
  /\ Increasing(pending) /\ Increasing(events)
  /\ Between(pending, last_examined, next_event_sequence)
  /\ Between(events, last_examined, next_event_sequence)
  /\ \A i \in 1..Len(pending), j \in 1..Len(events) :
       pending[i].sequence < events[j].sequence

(* Ordered separately and one before the other, they are ordered together. *)
LEMMA OrderInvImpliesOrder == ASSUME OrderInv PROVE ExaminedInOrder
<1>1. pending \in Seq(Event) /\ events \in Seq(Event)
  BY DEF OrderInv, TypeOK
<1>2. Waiting \in Seq(Event) /\ Len(Waiting) = Len(pending) + Len(events)
  BY <1>1 DEF Waiting
<1>3. \A i \in 1..Len(Waiting) :
        Waiting[i] = IF i <= Len(pending) THEN pending[i] ELSE events[i - Len(pending)]
  BY <1>1 DEF Waiting
<1>4. \A i \in 1..Len(Waiting) :
        last_examined < Waiting[i].sequence /\ Waiting[i].sequence < next_event_sequence
  <2> TAKE i \in 1..Len(Waiting)
  <2>1. CASE i <= Len(pending)
    BY <1>1, <1>2, <1>3, <2>1 DEF OrderInv, Between
  <2>2. CASE i > Len(pending)
    <3>1. i - Len(pending) \in 1..Len(events)
      BY <1>1, <1>2, <2>2
    <3>2. QED
      BY <1>1, <1>2, <1>3, <2>2, <3>1 DEF OrderInv, Between
  <2>3. QED
    BY <1>1, <1>2, <2>1, <2>2
<1>5. ASSUME NEW i \in 1..Len(Waiting), NEW j \in 1..Len(Waiting), i < j
      PROVE  Waiting[i].sequence < Waiting[j].sequence
  <2>1. CASE j <= Len(pending)
    BY <1>1, <1>2, <1>3, <1>5, <2>1 DEF OrderInv, Increasing
  <2>2. CASE i <= Len(pending) /\ j > Len(pending)
    <3>1. i \in 1..Len(pending) /\ j - Len(pending) \in 1..Len(events)
      BY <1>1, <1>2, <2>2
    <3>2. QED
      BY <1>1, <1>3, <2>2, <3>1 DEF OrderInv
  <2>3. CASE i > Len(pending)
    <3>1. /\ i - Len(pending) \in 1..Len(events) /\ j - Len(pending) \in 1..Len(events)
          /\ i - Len(pending) < j - Len(pending)
          /\ ~(i <= Len(pending)) /\ ~(j <= Len(pending))
      BY <1>1, <1>2, <1>5, <2>3
    <3>2. Waiting[i] = events[i - Len(pending)] /\ Waiting[j] = events[j - Len(pending)]
      BY <1>3, <3>1
    <3>3. events[i - Len(pending)].sequence < events[j - Len(pending)].sequence
      BY <3>1 DEF OrderInv, Increasing
    <3>4. QED
      BY <3>2, <3>3
  <2>4. QED
    BY <1>1, <1>2, <2>1, <2>2, <2>3
<1>6. QED
  BY <1>4, <1>5 DEF ExaminedInOrder

LEMMA InitOrderInv == ASSUME Init PROVE OrderInv
<1>1. TypeOK
  BY InitTypeOK
<1>2. pass.at = "idle" /\ last_examined = 0 /\ next_event_sequence = 1
  BY DEF Init, Idle
<1>3. pending = <<>> /\ events = <<>>
  BY DEF Init
<1>4. QED
  BY <1>1, <1>2, <1>3 DEF OrderInv, Increasing, Between

(* What every step does to the line, the clock of sequence numbers and the pass. *)
LEMMA OrderSteps ==
  ASSUME [Next]_vars
  PROVE  \/ \E o \in Owners : ExecuteAccepted(o)
         \/ /\ next_event_sequence' \in {next_event_sequence, next_event_sequence + 1}
            /\ UNCHANGED <<events, pending, last_examined, pass>>
         \/ \E gone \in SUBSET Owners : Purge(gone)
         \/ ShutdownClears \/ TakeEvents \/ PopEvent
         \/ /\ BeginPass \/ CheckReady \/ PublishCount \/ ConsumeEvent \/ EndPass \/ TimeExpires
            /\ UNCHANGED <<events, pending, last_examined, next_event_sequence>>
  BY DEF Next, Produce, Control, Update, ExecuteRefused, ExecuteThrows, ExecuteDeclined, Readmit,
         Refuse, Deactivate, StopAccepting, BeginPass, CheckReady, PublishCount, ConsumeEvent,
         EndPass, TimeExpires, NextSequence, vars, producer, consumer, queue

LEMMA NextOrderInv == ASSUME OrderInv, [Next]_vars PROVE OrderInv'
<1>0. /\ TypeOK /\ TypeOK'
      /\ pending \in Seq(Event) /\ events \in Seq(Event) /\ pass \in Pass
      /\ next_event_sequence \in Nat /\ last_examined \in Nat
      /\ \A e \in Event : e.sequence \in Nat
  <2>1. TypeOK /\ TypeOK'
    BY NextTypeOK DEF OrderInv
  <2>2. /\ pending \in Seq(Event) /\ events \in Seq(Event) /\ pass \in Pass
        /\ next_event_sequence \in Nat /\ last_examined \in Nat
    BY <2>1 DEF TypeOK
  <2>3. \A e \in Event : e.sequence \in Nat
    BY MaxEventsAssumption DEF Event
  <2>4. QED
    BY <2>1, <2>2, <2>3
<1>1. ASSUME NEW o \in Owners, ExecuteAccepted(o) PROVE OrderInv'
  <2> DEFINE e == [owner |-> o, sequence |-> next_event_sequence]
  <2>0. e \in Event /\ e.sequence = next_event_sequence
    BY <1>1, MaxEventsAssumption DEF ExecuteAccepted, Event, OrderInv, TypeOK
  <2>1. /\ e \in Event /\ e.sequence = next_event_sequence
        /\ events' = Append(events, e)
        /\ next_event_sequence' = next_event_sequence + 1
        /\ UNCHANGED <<pending, last_examined, pass>>
    BY <1>1, <2>0 DEF ExecuteAccepted, Push, NextSequence, consumer
  <2> HIDE DEF e
  <2>2. /\ Len(events) \in Nat /\ Len(events') = Len(events) + 1
        /\ \A i \in 1..Len(events) : events'[i] = events[i]
        /\ events'[Len(events) + 1] = e
    BY <1>0, <2>1
  <2>3. Increasing(events')
    <3> SUFFICES ASSUME NEW i \in 1..Len(events'), NEW j \in 1..Len(events'), i < j
                 PROVE  events'[i].sequence < events'[j].sequence
      BY DEF Increasing
    <3>1. i \in 1..Len(events) /\ (j \in 1..Len(events) \/ j = Len(events) + 1)
      BY <2>2
    <3>2. CASE j \in 1..Len(events)
      <4>1. events[i].sequence < events[j].sequence
        BY <3>1, <3>2 DEF OrderInv, Increasing
      <4>2. QED
        BY <2>2, <3>1, <3>2, <4>1
    <3>3. CASE j = Len(events) + 1
      BY <2>1, <2>2, <3>1, <3>3 DEF OrderInv, Between
    <3>4. QED
      BY <3>1, <3>2, <3>3
  <2>4. Between(events', last_examined', next_event_sequence')
    BY <1>0, <2>1, <2>2 DEF OrderInv, Between
  <2>5. Between(pending', last_examined', next_event_sequence')
    BY <1>0, <2>1 DEF OrderInv, Between
  <2>6. \A i \in 1..Len(pending'), j \in 1..Len(events') :
          pending'[i].sequence < events'[j].sequence
    BY <1>0, <2>1, <2>2 DEF OrderInv, Between
  <2>7. QED
    BY <1>0, <2>1, <2>3, <2>4, <2>5, <2>6 DEF OrderInv, Increasing
<1>2. CASE /\ next_event_sequence' \in {next_event_sequence, next_event_sequence + 1}
           /\ UNCHANGED <<events, pending, last_examined, pass>>
  <2>1. next_event_sequence' \in Nat /\ next_event_sequence <= next_event_sequence'
    BY <1>0, <1>2
  <2>2. \A q \in Seq(Event) :
          Between(q, last_examined, next_event_sequence)
            => Between(q, last_examined, next_event_sequence')
    BY <1>0, <2>1 DEF Between
  <2>3. /\ Between(pending, last_examined, next_event_sequence')
        /\ Between(events, last_examined, next_event_sequence')
    BY <1>0, <2>2 DEF OrderInv
  <2>4. last_examined < next_event_sequence'
    BY <1>0, <2>1 DEF OrderInv
  <2>5. TypeOK' /\ UNCHANGED <<events, pending, last_examined, pass>>
    BY <1>0, <1>2
  <2>6. QED
    BY <2>3, <2>4, <2>5 DEF OrderInv, Increasing, Between
<1>3. ASSUME NEW gone \in SUBSET Owners, Purge(gone) PROVE OrderInv'
  <2>1. UNCHANGED <<next_event_sequence, pending, last_examined, pass>>
    BY <1>3 DEF Purge, producer, consumer
  <2>2. /\ events' \in Seq(Event)
        /\ \E kept \in [1..Len(events') -> 1..Len(events)] :
             /\ \A i, j \in 1..Len(events') : i < j => kept[i] < kept[j]
             /\ \A i \in 1..Len(events') : events'[i] = events[kept[i]]
    BY <1>0, <1>3, EraseKeepsSubsequence DEF Purge
  <2>3. PICK kept \in [1..Len(events') -> 1..Len(events)] :
             /\ \A i, j \in 1..Len(events') : i < j => kept[i] < kept[j]
             /\ \A i \in 1..Len(events') : events'[i] = events[kept[i]]
    BY <2>2
  <2>4. Increasing(events')
    <3> SUFFICES ASSUME NEW i \in 1..Len(events'), NEW j \in 1..Len(events'), i < j
                 PROVE  events'[i].sequence < events'[j].sequence
      BY DEF Increasing
    <3>1. kept[i] \in 1..Len(events) /\ kept[j] \in 1..Len(events) /\ kept[i] < kept[j]
      BY <2>3
    <3>2. events[kept[i]].sequence < events[kept[j]].sequence
      BY <3>1 DEF OrderInv, Increasing
    <3>3. QED
      BY <2>3, <3>2
  <2>5. Between(events', last_examined', next_event_sequence')
    BY <2>1, <2>3 DEF OrderInv, Between
  <2>6. \A i \in 1..Len(pending'), j \in 1..Len(events') :
          pending'[i].sequence < events'[j].sequence
    BY <2>1, <2>3 DEF OrderInv
  <2>7. QED
    BY <1>0, <2>1, <2>4, <2>5, <2>6 DEF OrderInv, Increasing, Between
<1>4. CASE ShutdownClears
  <2>1. events' = <<>> /\ UNCHANGED <<next_event_sequence, pending, last_examined, pass>>
    BY <1>4 DEF ShutdownClears, Discard, producer, consumer
  <2>2. QED
    BY <1>0, <2>1 DEF OrderInv, Increasing, Between
<1>5. CASE TakeEvents
  <2>1. /\ pending' = events /\ events' = <<>> /\ pass'.at = "run"
        /\ UNCHANGED <<next_event_sequence, last_examined>>
    BY <1>0, <1>5 DEF TakeEvents, Drain, producer, Pass
  <2>2. QED
    BY <1>0, <2>1 DEF OrderInv, Increasing, Between
<1>6. CASE PopEvent
  <2>1. /\ pending # <<>> /\ pending' = Tail(pending)
        /\ last_examined' = pending[1].sequence /\ pass'.at = "publish"
        /\ UNCHANGED <<next_event_sequence, events>>
    BY <1>0, <1>6 DEF PopEvent, Pop, producer, queue, Pass
  <2>2. /\ Len(pending) \in Nat /\ 1 \in 1..Len(pending)
        /\ Len(pending') = Len(pending) - 1
        /\ \A i \in 1..Len(pending') : i + 1 \in 1..Len(pending) /\ pending'[i] = pending[i + 1]
    BY <1>0, <2>1
  <2>3. last_examined' < next_event_sequence'
    BY <2>1, <2>2 DEF OrderInv, Between
  <2>4. Increasing(pending')
    BY <2>2 DEF OrderInv, Increasing
  <2>5. Between(pending', last_examined', next_event_sequence')
    BY <2>1, <2>2 DEF OrderInv, Increasing, Between
  <2>6. Between(events', last_examined', next_event_sequence')
    BY <2>1, <2>2 DEF OrderInv, Between
  <2>7. \A i \in 1..Len(pending'), j \in 1..Len(events') :
          pending'[i].sequence < events'[j].sequence
    BY <2>1, <2>2 DEF OrderInv
  <2>8. QED
    BY <1>0, <2>1, <2>3, <2>4, <2>5, <2>6, <2>7 DEF OrderInv
<1>7. CASE /\ BeginPass \/ CheckReady \/ PublishCount \/ ConsumeEvent \/ EndPass \/ TimeExpires
           /\ UNCHANGED <<events, pending, last_examined, next_event_sequence>>
  <2>1. pass'.at \in {"check", "take"} => pending = <<>>
    <3>1. CASE BeginPass
      BY <3>1 DEF BeginPass, Idle
    <3>2. CASE CheckReady \/ TimeExpires
      BY <1>0, <3>2 DEF OrderInv, CheckReady, TimeExpires, Pass
    <3>3. CASE PublishCount \/ EndPass
      BY <1>0, <3>3 DEF PublishCount, EndPass, Idle, Pass
    <3>4. CASE ConsumeEvent
      <4>1. PICK attempted \in BOOLEAN : pass' = [pass EXCEPT !.at = "run",
              !.processed = IF attempted THEN @ + 1 ELSE @]
        BY <3>4 DEF ConsumeEvent
      <4>2. pass'.at = "run"
        BY <1>0, <4>1 DEF Pass
      <4>3. QED
        BY <4>2
    <3>5. QED
      BY <1>7, <3>1, <3>2, <3>3, <3>4
  <2>2. QED
    BY <1>0, <1>7, <2>1 DEF OrderInv, Increasing, Between
<1>8. QED
  BY <1>1, <1>2, <1>3, <1>4, <1>5, <1>6, <1>7, OrderSteps

(* Events are examined in the order their delegates ran, each at most once. *)
THEOREM OrderKept == Spec => []ExaminedInOrder
<1>1. Init => OrderInv
  BY InitOrderInv
<1>2. OrderInv /\ [Next]_vars => OrderInv'
  BY NextOrderInv
<1>3. OrderInv => ExaminedInOrder
  BY OrderInvImpliesOrder
<1>4. QED
  BY <1>1, <1>2, <1>3, PTL DEF Spec

-----------------------------------------------------------------------------
(* Refinement: every step is one step of OrderedDelivery, or none.         *)

LEMMA AppendToLine ==
  ASSUME NEW S, NEW s \in Seq(S), NEW t \in Seq(S), NEW e \in S
  PROVE  s \o Append(t, e) = Append(s \o t, e)
<1>1. /\ s \o t \in Seq(S) /\ Append(t, e) \in Seq(S)
      /\ Append(s \o t, e) \in Seq(S) /\ s \o Append(t, e) \in Seq(S)
  OBVIOUS
<1>2. Len(s \o Append(t, e)) = Len(Append(s \o t, e))
  BY <1>1
<1>3. \A i \in 1..Len(s \o Append(t, e)) : (s \o Append(t, e))[i] = Append(s \o t, e)[i]
  BY <1>1
<1>4. QED
  BY <1>1, <1>2, <1>3, SeqEqual

LEMMA TailOfLine ==
  ASSUME NEW S, NEW s \in Seq(S), NEW t \in Seq(S), s # <<>>
  PROVE  s \o t # <<>> /\ Head(s \o t) = Head(s) /\ Tail(s \o t) = Tail(s) \o t
<1>1. s \o t \in Seq(S) /\ s \o t # <<>> /\ Len(s) \in Nat \ {0}
  OBVIOUS
<1>2. /\ Tail(s \o t) \in Seq(S) /\ Tail(s) \in Seq(S) /\ Tail(s) \o t \in Seq(S)
      /\ Len(Tail(s)) = Len(s) - 1
  BY <1>1, HeadTailProperties
<1>3. Len(Tail(s \o t)) = Len(s) + Len(t) - 1 /\ Len(Tail(s) \o t) = Len(s) + Len(t) - 1
  BY <1>1, <1>2
<1>4. \A i \in 1..Len(Tail(s \o t)) : Tail(s \o t)[i] = (Tail(s) \o t)[i]
  BY <1>1, <1>2, <1>3
<1>5. Head(s \o t) = Head(s)
  BY <1>1
<1>6. QED
  BY <1>1, <1>2, <1>3, <1>4, <1>5, SeqEqual

(* Erasing from the younger buffer withdraws from the line. *)
LEMMA PurgeWithdraws ==
  ASSUME OrderInv, OrderInv', NEW gone \in SUBSET Owners, Purge(gone)
  PROVE  Ordered!Withdraw
<1> DEFINE P == Len(pending)
           n == P + Len(events')
<1>0. /\ pending \in Seq(Event) /\ events \in Seq(Event) /\ events' \in Seq(Event)
      /\ UNCHANGED <<pending, last_examined, live>> /\ gone \cap live = {}
  BY DEF OrderInv, TypeOK, Purge, producer, consumer
<1>1. /\ P \in Nat /\ Len(events) \in Nat /\ Len(events') \in Nat
      /\ Len(events') <= Len(events)
  BY <1>0, EraseKeepsSubsequence DEF Purge, OrderInv
<1>2. PICK kept \in [1..Len(events') -> 1..Len(events)] :
        /\ \A i, j \in 1..Len(events') : i < j => kept[i] < kept[j]
        /\ \A k \in 1..Len(events) :
             events[k].owner \notin gone <=> \E i \in 1..Len(events') : kept[i] = k
        /\ \A i \in 1..Len(events') : events'[i] = events[kept[i]]
  BY EraseKeepsSubsequence DEF Purge, OrderInv
<1>3. /\ Waiting \in Seq(Event) /\ Len(Waiting) = P + Len(events)
      /\ \A i \in 1..Len(Waiting) : Waiting[i] = IF i <= P THEN pending[i] ELSE events[i - P]
  BY <1>0 DEF Waiting
<1>4. /\ Waiting' \in Seq(Event) /\ Len(Waiting') = n
      /\ \A i \in 1..n : Waiting'[i] = IF i <= P THEN pending[i] ELSE events'[i - P]
  BY <1>0 DEF Waiting
<1> DEFINE K == [i \in 1..n |-> IF i <= P THEN i ELSE P + kept[i - P]]
<1>5. \A i \in 1..n : i > P => i - P \in 1..Len(events') /\ kept[i - P] \in 1..Len(events)
  BY <1>1, <1>2
<1>6. n \in 0..Len(Waiting) /\ K \in [1..n -> 1..Len(Waiting)]
  BY <1>1, <1>3, <1>5
<1>7. ASSUME NEW i \in 1..n, NEW j \in 1..n, i < j PROVE K[i] < K[j]
  <2>1. CASE j <= P
    BY <1>1, <1>7, <2>1
  <2>2. CASE i <= P /\ j > P
    <3>1. K[i] = i /\ K[j] = P + kept[j - P] /\ kept[j - P] \in 1..Len(events)
      BY <1>1, <1>5, <2>2
    <3>2. QED
      BY <1>1, <2>2, <3>1
  <2>3. CASE i > P
    <3>1. /\ i - P \in 1..Len(events') /\ j - P \in 1..Len(events') /\ i - P < j - P
          /\ K[i] = P + kept[i - P] /\ K[j] = P + kept[j - P]
          /\ kept[i - P] \in 1..Len(events) /\ kept[j - P] \in 1..Len(events)
      BY <1>1, <1>5, <1>7, <2>3
    <3>2. kept[i - P] < kept[j - P]
      BY <1>2, <3>1
    <3>3. QED
      BY <1>1, <3>1, <3>2
  <2>4. QED
    BY <1>1, <2>1, <2>2, <2>3
<1>8. ASSUME NEW k \in 1..Len(Waiting), Waiting[k].owner \in live
      PROVE  \E i \in 1..n : K[i] = k
  <2>1. CASE k <= P
    <3>1. k \in 1..n
      BY <1>1, <1>3, <2>1
    <3>2. K[k] = k
      BY <2>1, <3>1
    <3>3. QED
      BY <3>1, <3>2
  <2>2. CASE k > P
    <3>1. k - P \in 1..Len(events) /\ events[k - P].owner \notin gone
      <4>1. k - P \in 1..Len(events) /\ ~(k <= P)
        BY <1>1, <1>3, <2>2
      <4>2. Waiting[k] = events[k - P]
        BY <1>3, <4>1
      <4>3. QED
        BY <1>0, <1>8, <4>1, <4>2
    <3>2. PICK i \in 1..Len(events') : kept[i] = k - P
      BY <1>2, <3>1
    <3>3. P + i \in 1..n /\ K[P + i] = k
      BY <1>1, <1>3, <2>2, <3>2
    <3>4. QED
      BY <3>3
  <2>3. QED
    BY <1>1, <1>3, <2>1, <2>2
<1>9. Waiting' = [i \in 1..n |-> Waiting[K[i]]]
  <2>1. \A i \in 1..n : Waiting'[i] = Waiting[K[i]]
    <3> TAKE i \in 1..n
    <3>1. CASE i <= P
      <4>1. K[i] = i
        BY <3>1
      <4>2. Waiting'[i] = pending[i]
        BY <1>4, <3>1
      <4>3. i \in 1..Len(Waiting)
        BY <1>1, <1>3, <3>1
      <4>4. Waiting[i] = pending[i]
        BY <1>3, <3>1, <4>3
      <4>5. QED
        BY <4>1, <4>2, <4>4
    <3>2. CASE i > P
      <4>0. i - P \in 1..Len(events') /\ kept[i - P] \in 1..Len(events) /\ ~(i <= P)
        BY <1>1, <1>5, <3>2
      <4>1. /\ Waiting'[i] = events'[i - P] /\ events'[i - P] = events[kept[i - P]]
            /\ K[i] = P + kept[i - P] /\ ~(K[i] <= P) /\ K[i] - P = kept[i - P]
        <5>1. Waiting'[i] = events'[i - P]
          BY <1>4, <4>0
        <5>2. events'[i - P] = events[kept[i - P]]
          BY <1>2, <4>0
        <5>3. K[i] = P + kept[i - P] /\ ~(K[i] <= P) /\ K[i] - P = kept[i - P]
          BY <1>1, <4>0
        <5>4. QED
          BY <5>1, <5>2, <5>3
      <4>2. Waiting[K[i]] = events[kept[i - P]]
        BY <1>3, <1>6, <4>1
      <4>3. QED
        BY <4>1, <4>2
    <3>3. QED
      BY <1>1, <3>1, <3>2
  <2>2. DOMAIN Waiting' = 1..n /\ Waiting' = [i \in DOMAIN Waiting' |-> Waiting'[i]]
    BY <1>4
  <2>3. QED
    BY <2>1, <2>2
<1> HIDE DEF K, n
<1>10. QED
  BY <1>0, <1>6, <1>7, <1>8, <1>9 DEF Ordered!Withdraw

(* Shutdown withdraws every event that has not been taken yet. *)
LEMMA ClearWithdraws ==
  ASSUME OrderInv, ShutdownClears
  PROVE  Ordered!Withdraw
<1> DEFINE n == Len(pending)
           K == [i \in 1..n |-> i]
<1>0. /\ pending \in Seq(Event) /\ events \in Seq(Event) /\ events' = <<>> /\ live = {}
      /\ UNCHANGED <<pending, last_examined, live>>
  BY DEF OrderInv, TypeOK, ShutdownClears, Discard, producer, consumer
<1>1. Waiting' = pending
  BY <1>0, ConcatEmptySeq DEF Waiting
<1>2. /\ Waiting \in Seq(Event) /\ n \in 0..Len(Waiting)
      /\ \A i \in 1..n : i \in 1..Len(Waiting) /\ Waiting[i] = pending[i]
  BY <1>0 DEF Waiting
<1>3. K \in [1..n -> 1..Len(Waiting)] /\ \A i, j \in 1..n : i < j => K[i] < K[j]
  BY <1>2
<1>4. Waiting' = [i \in 1..n |-> Waiting[K[i]]]
  BY <1>0, <1>1, <1>2
<1> HIDE DEF K, n
<1>5. QED
  BY <1>0, <1>2, <1>3, <1>4 DEF Ordered!Withdraw

LEMMA NextRefines ==
  ASSUME OrderInv, OrderInv', [Next]_vars
  PROVE  [Ordered!ONext]_(Ordered!ovars)
<1>0. pending \in Seq(Event) /\ events \in Seq(Event)
  BY DEF OrderInv, TypeOK
<1>1. ASSUME NEW o \in Owners, ExecuteAccepted(o) PROVE Ordered!Accept
  <2> DEFINE e == [owner |-> o, sequence |-> next_event_sequence]
  <2>1. e \in Event /\ e.owner \in live /\ e.sequence = next_event_sequence
    BY <1>1, MaxEventsAssumption DEF ExecuteAccepted, Event, OrderInv, TypeOK
  <2>2. events' = Append(events, e) /\ UNCHANGED <<pending, last_examined, live>>
    BY <1>1 DEF ExecuteAccepted, Push, consumer
  <2> HIDE DEF e
  <2>3. Waiting' = Append(Waiting, e)
    BY <1>0, <2>1, <2>2, AppendToLine DEF Waiting
  <2>4. e.sequence > last_examined
    BY <2>1 DEF OrderInv, TypeOK
  <2>5. \A i \in DOMAIN Waiting : e.sequence > Waiting[i].sequence
    <3>1. DOMAIN Waiting = 1..Len(Waiting)
      BY <1>0 DEF Waiting
    <3>2. \A i \in 1..Len(Waiting) : Waiting[i].sequence < next_event_sequence
      BY OrderInvImpliesOrder DEF ExaminedInOrder
    <3>3. QED
      BY <2>1, <3>1, <3>2
  <2>6. QED
    BY <2>1, <2>2, <2>3, <2>4, <2>5 DEF Ordered!Accept, Ordered!OEvent, Event
<1>2. ASSUME NEW gone \in SUBSET Owners, Purge(gone) PROVE Ordered!Withdraw
  BY <1>2, PurgeWithdraws
<1>3. CASE ShutdownClears
  BY <1>3, ClearWithdraws DEF Ordered!ONext
<1>4. CASE TakeEvents
  <2>1. pending = <<>> /\ pending' = events /\ events' = <<>>
        /\ UNCHANGED <<last_examined, live>>
    BY <1>4 DEF TakeEvents, Drain, OrderInv, producer
  <2>2. Waiting' = Waiting
    BY <1>0, <2>1, ConcatEmptySeq DEF Waiting
  <2>3. QED
    BY <2>1, <2>2 DEF Ordered!ovars
<1>5. CASE PopEvent
  <2>1. /\ pending # <<>> /\ pending' = Tail(pending) /\ last_examined' = Head(pending).sequence
        /\ UNCHANGED <<events, live>>
    BY <1>5 DEF PopEvent, Pop, producer, queue
  <2>2. Waiting # <<>> /\ Head(Waiting) = Head(pending) /\ Waiting' = Tail(Waiting)
    BY <1>0, <2>1, TailOfLine DEF Waiting
  <2>3. QED
    BY <2>1, <2>2 DEF Ordered!Examine, Ordered!ONext
<1>6. CASE UNCHANGED <<events, pending, last_examined>> /\ live' \subseteq live
  BY <1>6 DEF Ordered!Retire, Ordered!ONext, Waiting
<1>7. \/ \E o \in Owners : ExecuteAccepted(o)
      \/ \E gone \in SUBSET Owners : Purge(gone)
      \/ ShutdownClears \/ TakeEvents \/ PopEvent
      \/ UNCHANGED <<events, pending, last_examined>> /\ live' \subseteq live
  BY DEF Next, Produce, Control, Update, ExecuteRefused, ExecuteThrows, ExecuteDeclined, Readmit,
         Refuse, Deactivate, StopAccepting, BeginPass, CheckReady, PublishCount, ConsumeEvent,
         EndPass, TimeExpires, vars, producer, consumer, queue
<1>8. QED
  BY <1>1, <1>2, <1>3, <1>4, <1>5, <1>6, <1>7 DEF Ordered!ONext

(* The two buffers, the flag and the bounded passes together deliver what
   OrderedDelivery promises, for every limit, budget and set of owners. *)
THEOREM QueueRefinesOrderedDelivery == Spec => ImplementsOrderedDelivery
<1>1. Init => OrderInv /\ Ordered!OInit
  <2>1. ASSUME Init PROVE Waiting = <<>>
    BY <2>1, ConcatEmptySeq DEF Init, Waiting
  <2>2. QED
    BY <2>1, InitOrderInv DEF Init, Ordered!OInit
<1>2. OrderInv /\ [Next]_vars => OrderInv'
  BY NextOrderInv
<1>3. OrderInv /\ OrderInv' /\ [Next]_vars => [Ordered!ONext]_(Ordered!ovars)
  BY NextRefines
<1>4. QED
  BY <1>1, <1>2, <1>3, PTL DEF Spec, ImplementsOrderedDelivery, Ordered!OSpec
=============================================================================
