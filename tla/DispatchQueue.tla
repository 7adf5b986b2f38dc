--------------------------- MODULE DispatchQueue ---------------------------
(***************************************************************************)
(* The event queue between the native delegates (Unreal's game thread) and *)
(* BridgeMod::on_update (UE4SS's event-loop thread).                       *)
(*                                                                         *)
(* The producer side is EnhancedInputDispatchState: a vector guarded by a  *)
(* mutex, the readiness flag the consumer reads without that mutex, and    *)
(* the QueueCapacity bookkeeping.  The consumer side is DispatchBacklog:   *)
(* the batch taken from the vector, examined entry by entry under a        *)
(* DispatchBudget, a retained rest being continued by the next pass.       *)
(* Each step under the mutex is one action, and so is each unlocked access *)
(* to state that the two threads share.                                    *)
(*                                                                         *)
(* Payloads are left out; an event is its owner and its sequence number.   *)
(* `live' abstracts what Execute and on_update test before they go on: the *)
(* subscription is active and its target has no delivery fault.            *)
(*                                                                         *)
(* A definition Name_Mistake is Name with a mistake in it: the properties  *)
(* below are checked to notice it.  No specification uses one.             *)
(***************************************************************************)
EXTENDS Naturals, Sequences, FiniteSets

CONSTANTS
  Owners,       \* the subscriptions whose delegates produce events
  Limit,        \* QueueCapacity::limit, 0 means unbounded
  MaxPerPass,   \* DispatchBudget::count_, 0 means no count limit
  MaxEvents     \* bound: how often the delegates execute

ASSUME LimitAssumption == Limit \in Nat
ASSUME MaxPerPassAssumption == MaxPerPass \in Nat
ASSUME MaxEventsAssumption == MaxEvents \in Nat

VARIABLES
  next_event_sequence,  \* EnhancedInputDispatchState::next_event_sequence
  accepting,            \* EnhancedInputDispatchState::accepting
  live,                 \* owners that are active with a valid delivery
  events,               \* the producer vector, under the queue mutex
  events_ready,         \* QueueReadiness, read by the consumer without it
  capacity,             \* QueueCapacity
  warnings,             \* overflow warnings posted in the current episode
  pending,              \* DispatchBacklog: the consumer's rest of a batch
  remaining,            \* ConsumerBacklogCount::remaining_
  last_examined,        \* history: sequence number the consumer popped last
  pass                  \* the on_update pass: where it is and its budget

producer == <<next_event_sequence, accepting, live, capacity, warnings>>
consumer == <<pending, remaining, last_examined, pass>>
queue == <<events, events_ready>>
vars == <<producer, consumer, queue>>

Event == [owner : Owners, sequence : 1..MaxEvents]

Capacity == [high_water : Nat, rejected : Nat,
             warning_pending : BOOLEAN, overflow_reported : BOOLEAN]

Pass == [at : {"idle", "check", "take", "run", "publish", "consume"},
         processed : Nat, progressed : BOOLEAN, expired : BOOLEAN]

Idle == [at |-> "idle", processed |-> 0, progressed |-> FALSE, expired |-> FALSE]

Init ==
  /\ next_event_sequence = 1
  /\ accepting = TRUE
  /\ live = Owners
  /\ events = <<>>
  /\ events_ready = FALSE
  /\ capacity = [high_water |-> 0, rejected |-> 0,
                 warning_pending |-> FALSE, overflow_reported |-> FALSE]
  /\ warnings = 0
  /\ pending = <<>>
  /\ remaining = 0
  /\ last_examined = 0
  /\ pass = Idle

-----------------------------------------------------------------------------
(* QueueCapacity and the queue's own operations, all under the mutex.      *)

Admits_OneTooMany == Limit = 0 \/ Len(events) <= Limit

(* QueueCapacity::admit says yes. *)
Admits == Limit = 0 \/ Len(events) < Limit

(* An admitted event is appended and published; its admission ends the
   overflow episode, with or without a warning still to be posted. *)
Push(e) ==
  /\ Admits
  /\ events' = Append(events, e)
  /\ events_ready' = TRUE
  /\ capacity' = [capacity EXCEPT
       !.overflow_reported = FALSE, !.warning_pending = FALSE,
       !.high_water = IF Len(events) + 1 > @ THEN Len(events) + 1 ELSE @]
  /\ warnings' = 0

(* The admission of an event that could then not be stored. *)
Readmit ==
  /\ Admits
  /\ capacity' = [capacity EXCEPT
       !.overflow_reported = FALSE, !.warning_pending = FALSE]
  /\ warnings' = 0
  /\ UNCHANGED queue

(* A refused event is counted.  The first refusal of an episode asks for a
   warning, posted as soon as the trace queue has room for it. *)
Refuse(traceRoom) ==
  /\ ~Admits
  /\ LET wanted == capacity.warning_pending \/ ~capacity.overflow_reported
     IN /\ capacity' = [capacity EXCEPT
             !.rejected = @ + 1, !.overflow_reported = TRUE,
             !.warning_pending = wanted /\ ~traceRoom]
        /\ warnings' = IF wanted /\ traceRoom THEN warnings + 1 ELSE warnings
  /\ UNCHANGED queue

Drain_Uncounted ==
  /\ pending' = events
  /\ events' = <<>>
  /\ events_ready' = FALSE
  /\ UNCHANGED remaining

(* drain_queue: the whole vector becomes the consumer's batch. *)
Drain ==
  /\ pending' = events
  /\ events' = <<>>
  /\ events_ready' = FALSE
  /\ remaining' = Len(events)

Erase_ResetsReady(gone) ==
  \E n \in 0..Len(events) : \E kept \in [1..n -> 1..Len(events)] :
    /\ \A i, j \in 1..n : i < j => kept[i] < kept[j]
    /\ \A k \in 1..Len(events) :
         events[k].owner \notin gone <=> \E i \in 1..n : kept[i] = k
    /\ events' = [i \in 1..n |-> events[kept[i]]]
    /\ events_ready' = FALSE

(* std::erase_if on the producer vector: the events of the owners in `gone'
   go, the others keep their order; the readiness flag is not touched. *)
Erase(gone) ==
  \E n \in 0..Len(events) : \E kept \in [1..n -> 1..Len(events)] :
    /\ \A i, j \in 1..n : i < j => kept[i] < kept[j]
    /\ \A k \in 1..Len(events) :
         events[k].owner \notin gone <=> \E i \in 1..n : kept[i] = k
    /\ events' = [i \in 1..n |-> events[kept[i]]]
    /\ UNCHANGED events_ready

Discard ==
  /\ events' = <<>>
  /\ events_ready' = FALSE

(* DispatchBacklog::pop. *)
Pop ==
  /\ pending # <<>>
  /\ last_examined' = Head(pending).sequence
  /\ pending' = Tail(pending)

Permits_UntilAnAttempt(p) ==
  \/ p.processed = 0
  \/ (MaxPerPass = 0 \/ p.processed < MaxPerPass) /\ ~p.expired

Permits_NoFirstProgress(p) ==
  (MaxPerPass = 0 \/ p.processed < MaxPerPass) /\ ~p.expired

(* DispatchBudget::permits: the first entry of a pass always, afterwards only
   within the count of live attempts and within the time. *)
Permits(p) ==
  \/ p.processed = 0 /\ ~p.progressed
  \/ (MaxPerPass = 0 \/ p.processed < MaxPerPass) /\ ~p.expired

-----------------------------------------------------------------------------
(* The producer: NativeBinding::Execute.                                   *)

NextSequence == next_event_sequence' = next_event_sequence + 1

(* The owner is live and the bridge accepts: queued when there is room. *)
ExecuteAccepted(o) ==
  /\ next_event_sequence <= MaxEvents
  /\ accepting /\ o \in live
  /\ Push([owner |-> o, sequence |-> next_event_sequence])
  /\ NextSequence
  /\ UNCHANGED <<accepting, live, consumer>>

(* No room: the refusal may fault the owner's target, and with it every owner
   that belongs to the target. *)
ExecuteRefused(o) ==
  /\ next_event_sequence <= MaxEvents
  /\ accepting /\ o \in live
  /\ \E traceRoom \in BOOLEAN : Refuse(traceRoom)
  /\ \E faulted \in SUBSET Owners :
       /\ faulted # {} => o \in faulted
       /\ live' = live \ faulted
  /\ NextSequence
  /\ UNCHANGED <<accepting, consumer>>

(* An allocation fails under the mutex, after the admission or while the
   warning is posted: nothing is queued, the bookkeeping has moved on. *)
ExecuteThrows(o) ==
  /\ next_event_sequence <= MaxEvents
  /\ accepting /\ o \in live
  /\ Readmit \/ Refuse(FALSE)
  /\ NextSequence
  /\ UNCHANGED <<accepting, live, consumer>>

(* The binding is inactive or dispatch has stopped: only the sequence number
   is consumed. *)
ExecuteDeclined ==
  /\ next_event_sequence <= MaxEvents
  /\ NextSequence
  /\ UNCHANGED <<accepting, live, capacity, warnings, queue, consumer>>

-----------------------------------------------------------------------------
(* Deactivation and shutdown, from any thread.                             *)

(* Owners are unbound, fail, have their target faulted or their session
   stopped; their queued events may stay behind. *)
Deactivate(gone) ==
  /\ gone # {} /\ gone \subseteq live
  /\ live' = live \ gone
  /\ UNCHANGED <<next_event_sequence, accepting, capacity, warnings, queue,
                 consumer>>

(* deactivate and deactivate_all erase what their owners had queued; a session
   may have owned none. *)
Purge(gone) ==
  /\ gone \cap live = {}
  /\ Erase(gone)
  /\ UNCHANGED <<producer, consumer>>

StopAccepting ==
  /\ accepting
  /\ accepting' = FALSE
  /\ UNCHANGED <<next_event_sequence, live, capacity, warnings, queue, consumer>>

(* The end of EnhancedInputBackend::shutdown. *)
ShutdownClears ==
  /\ ~accepting /\ live = {}
  /\ Discard
  /\ UNCHANGED <<producer, consumer>>

-----------------------------------------------------------------------------
(* The consumer: BridgeMod::on_update.                                     *)

BeginPass_AlwaysLoads ==
  /\ pass.at = "idle"
  /\ pass' = [Idle EXCEPT !.at = "check"]
  /\ UNCHANGED <<pending, remaining, last_examined, producer, queue>>

(* A due pass starts its clock, then continues a retained batch or looks
   for a new one. *)
BeginPass ==
  /\ pass.at = "idle"
  /\ pass' = [Idle EXCEPT !.at = IF pending = <<>> THEN "check" ELSE "run"]
  /\ UNCHANGED <<pending, remaining, last_examined, producer, queue>>

(* take_events looks at the flag before it takes the mutex. *)
CheckReady ==
  /\ pass.at = "check"
  /\ pass' = [pass EXCEPT !.at = IF events_ready THEN "take" ELSE "run"]
  /\ UNCHANGED <<pending, remaining, last_examined, producer, queue>>

TakeEvents ==
  /\ pass.at = "take"
  /\ Drain
  /\ pass' = [pass EXCEPT !.at = "run"]
  /\ UNCHANGED <<last_examined, producer>>

PopEvent ==
  /\ pass.at = "run"
  /\ Permits(pass)
  /\ Pop
  /\ pass' = [pass EXCEPT !.at = "publish", !.progressed = TRUE]
  /\ UNCHANGED <<remaining, producer, queue>>

PublishCount_OneShort ==
  /\ pass.at = "publish"
  /\ remaining' = Len(pending) - 1
  /\ pass' = [pass EXCEPT !.at = "consume"]
  /\ UNCHANGED <<pending, last_examined, producer, queue>>

(* The first thing consume does with the popped entry. *)
PublishCount ==
  /\ pass.at = "publish"
  /\ remaining' = Len(pending)
  /\ pass' = [pass EXCEPT !.at = "consume"]
  /\ UNCHANGED <<pending, last_examined, producer, queue>>

(* The entry is called back, which counts, or skipped, which does not. *)
ConsumeEvent ==
  /\ pass.at = "consume"
  /\ \E attempted \in BOOLEAN :
       pass' = [pass EXCEPT !.at = "run",
                  !.processed = IF attempted THEN @ + 1 ELSE @]
  /\ UNCHANGED <<pending, remaining, last_examined, producer, queue>>

(* The pass's time allowance runs out at any moment. *)
TimeExpires ==
  /\ pass.at # "idle" /\ ~pass.expired
  /\ pass' = [pass EXCEPT !.expired = TRUE]
  /\ UNCHANGED <<pending, remaining, last_examined, producer, queue>>

EndPass ==
  /\ pass.at = "run"
  /\ pending = <<>> \/ ~Permits(pass)
  /\ pass' = Idle
  /\ UNCHANGED <<pending, remaining, last_examined, producer, queue>>

Produce ==
  \/ \E o \in Owners : ExecuteAccepted(o) \/ ExecuteRefused(o) \/ ExecuteThrows(o)
  \/ ExecuteDeclined

Control ==
  \/ \E gone \in SUBSET Owners : Deactivate(gone) \/ Purge(gone)
  \/ StopAccepting
  \/ ShutdownClears

Update == BeginPass \/ CheckReady \/ TakeEvents \/ PopEvent \/ PublishCount
          \/ ConsumeEvent \/ EndPass

Next == Produce \/ Control \/ Update \/ TimeExpires

Spec == Init /\ [][Next]_vars

(* UE4SS calls on_update again and again and every pass returns; nothing is
   assumed of the game thread or of the clock. *)
FairSpec == Spec /\ WF_vars(Update)

-----------------------------------------------------------------------------
(* Every accepted event nobody has examined, in the order it will be. *)
Waiting == pending \o events

TypeOK ==
  /\ next_event_sequence \in Nat \ {0}
  /\ accepting \in BOOLEAN
  /\ live \subseteq Owners
  /\ events \in Seq(Event)
  /\ events_ready \in BOOLEAN
  /\ capacity \in Capacity
  /\ warnings \in Nat
  /\ pending \in Seq(Event)
  /\ remaining \in Nat
  /\ last_examined \in Nat
  /\ pass \in Pass

(* A batch never overtakes an older one and no event is examined twice: what
   waits is strictly ordered by sequence number, younger than everything
   examined and older than everything still to come. *)
ExaminedInOrder ==
  /\ \A i, j \in 1..Len(Waiting) : i < j => Waiting[i].sequence < Waiting[j].sequence
  /\ \A i \in 1..Len(Waiting) :
       last_examined < Waiting[i].sequence /\ Waiting[i].sequence < next_event_sequence

(* The producer vector respects its limit and the high-water mark covers it;
   the consumer's retained batch is not counted, and never exceeds it either. *)
WithinCapacity ==
  /\ Limit # 0 => /\ Len(events) <= Limit /\ Len(pending) <= Limit
                  /\ capacity.high_water <= Limit
  /\ Len(events) <= capacity.high_water

(* The consumer skips the mutex when the flag is down, so the flag must be up
   whenever something is queued: no accepted event is left unnoticed. *)
NoLostWakeup == events # <<>> => events_ready

(* At most one warning per overflow episode, and an episode without one still
   has its request pending; outside an episode nothing is pending. *)
OneWarningPerEpisode ==
  IF capacity.overflow_reported
  THEN warnings = IF capacity.warning_pending THEN 0 ELSE 1
  ELSE warnings = 0 /\ ~capacity.warning_pending

(* GetDispatchStats reads the published count at any moment: it never misses
   a retained event and is one too high only between a pop and its publication. *)
BacklogCountExact ==
  remaining = Len(pending) + (IF pass.at = "publish" THEN 1 ELSE 0)

(* The count allowance holds for callback attempts at every moment of a pass. *)
AttemptsWithinBudget == MaxPerPass # 0 => pass.processed <= MaxPerPass

(* A pass over a nonempty batch examines at least one entry, and once the time
   is up no second one, however many of the entries were skipped. *)
PassProgress ==
  [][/\ (pass.at = "run" /\ pass'.at = "idle" /\ pending # <<>>) => pass.progressed
     /\ (pass.expired /\ pass.progressed) => Len(pending') >= Len(pending)]_vars

(* A retained batch is never starved and a published one never forgotten:
   every accepted event is eventually examined or withdrawn. *)
AcceptedIsExamined ==
  \A n \in 1..MaxEvents :
    (\E i \in 1..Len(Waiting) : Waiting[i].sequence = n)
      ~> ~(\E i \in 1..Len(Waiting) : Waiting[i].sequence = n)

(* The two buffers and the flag together are one line of ordered events. *)
Ordered == INSTANCE OrderedDelivery WITH waiting <- Waiting
ImplementsOrderedDelivery == Ordered!OSpec
=============================================================================
