-------------------------- MODULE OverflowWarnings --------------------------
(***************************************************************************)
(* The diagnostics next to the event queue: the bounded trace queue, the   *)
(* one warning an overflow of the event queue posts into it, and the       *)
(* scheduled pass of on_update that prints both through Lua.  Unreal's     *)
(* game thread and UE4SS's event-loop thread write lines, the latter takes *)
(* and prints them.  A debug line is written in two steps, because         *)
(* write_debug_trace tests `accepting' before it has the mutex and again   *)
(* under it.                                                               *)
(*                                                                         *)
(* Events are their session, one subscription each; DispatchQueue has      *)
(* their budget and their wakeup.  A line is its session and the overflow  *)
(* episode it warns of, 0 if it is a debug line.  Time is counted in       *)
(* ticks.  Name_Mistake is Name with a mistake in it.                      *)
(***************************************************************************)
EXTENDS Naturals, Sequences

CONSTANTS
  Sessions,     \* the Lua sessions with a subscription
  Debugged,     \* those whose subscription has debug.enabled
  Limit,        \* event_capacity.limit, 0 means unbounded
  TraceLimit,   \* trace_capacity.limit
  TraceBudget,  \* the count of flush_debug_traces' budget
  Interval,     \* QueueDispatchSchedule::interval_ in ticks
  MaxExecutes   \* bound: calls of Execute

ASSUME OverflowAssumption ==
  /\ Debugged \subseteq Sessions /\ "nobody" \notin Sessions
  /\ Limit \in Nat /\ TraceLimit \in Nat \ {0} /\ TraceBudget \in Nat \ {0}
  /\ Interval \in Nat /\ MaxExecutes \in Nat

VARIABLES
  active,         \* sessions with LuaSession::active
  live,           \* sessions whose subscription is active and its delivery valid
  accepting,      \* EnhancedInputDispatchState::accepting
  cleared,        \* shutdown has emptied the queues
  events,         \* the producer's events
  capacity,       \* event_capacity
  traces,         \* the producer's lines
  traces_ready,   \* QueueReadiness of the lines
  pending_events, \* BridgeMod::pending_events_
  pending_traces, \* BridgeMod::pending_traces_
  wait,           \* ticks until QueueDispatchSchedule::next_
  game,           \* the game thread in Execute
  loop,           \* the event-loop thread in on_update
  executes,       \* how often Execute was called
  overflow,       \* history: the current or last overflow episode
  printed         \* history: episodes whose warning was handed to Lua

control == <<active, live, accepting, cleared>>
eventQueue == <<events, pending_events>>
traceQueue == <<traces, traces_ready>>
vars == <<control, eventQueue, capacity, traceQueue, pending_traces, wait, game, loop,
          executes, overflow, printed>>

(* A thread has debug lines to write, given by their sessions, and has seen
   `accepting' for the next of them; `moved' counts what a pass has handled. *)
Nobody == "nobody"
Idle == [at |-> "idle", session |-> Nobody, lines |-> <<>>, peeked |-> FALSE, moved |-> 0]
Owes(s, n) == IF s \in Debugged THEN [i \in 1..n |-> s] ELSE <<>>

Init ==
  /\ active = Sessions /\ live = Sessions
  /\ accepting = TRUE /\ cleared = FALSE
  /\ events = <<>> /\ pending_events = <<>>
  /\ capacity = [warning_pending |-> FALSE, overflow_reported |-> FALSE]
  /\ traces = <<>> /\ traces_ready = FALSE /\ pending_traces = <<>>
  /\ wait = 0
  /\ game = Idle /\ loop = Idle
  /\ executes = 0
  /\ overflow = [number |-> 0, open |-> FALSE, posted |-> 0, room |-> FALSE]
  /\ printed = {}

-----------------------------------------------------------------------------
(* write_debug_trace.                                                      *)

Peeked(t) == [t EXCEPT !.peeked = accepting, !.lines = IF accepting THEN @ ELSE Tail(@)]
Written(t) == [t EXCEPT !.peeked = FALSE, !.lines = Tail(@)]
TraceRoom == Len(traces) < TraceLimit

Publish(line) == traces' = Append(traces, line) /\ traces_ready' = TRUE

PushLine_TrustsPeek(t) ==
  \/ TraceRoom /\ Publish([session |-> Head(t.lines), episode |-> 0])
  \/ UNCHANGED traceQueue

(* Under the mutex, with a second look at `accepting'.  The line is lost if
   there is no room, and if an allocation fails. *)
PushLine(t) ==
  \/ accepting /\ TraceRoom /\ Publish([session |-> Head(t.lines), episode |-> 0])
  \/ UNCHANGED traceQueue

GameWrites ==
  /\ game.lines # <<>>
  /\ IF game.peeked THEN PushLine(game) /\ game' = Written(game)
     ELSE game' = Peeked(game) /\ UNCHANGED traceQueue
  /\ UNCHANGED <<control, eventQueue, capacity, pending_traces, wait, loop, executes,
                 overflow, printed>>

LoopWrites ==
  /\ loop.lines # <<>>
  /\ IF loop.peeked THEN PushLine(loop) /\ loop' = Written(loop)
     ELSE loop' = Peeked(loop) /\ UNCHANGED traceQueue
  /\ UNCHANGED <<control, eventQueue, capacity, pending_traces, wait, game, executes,
                 overflow, printed>>

-----------------------------------------------------------------------------
(* The producer: NativeBinding::Execute.                                   *)

(* Two lines are written before anything is decided. *)
Execute(s) ==
  /\ game.at = "idle" /\ game.lines = <<>> /\ executes < MaxExecutes
  /\ executes' = executes + 1
  /\ game' = [Idle EXCEPT !.at = "entered", !.session = s, !.lines = Owes(s, 2)]
  /\ UNCHANGED <<control, eventQueue, capacity, traceQueue, pending_traces, wait, loop,
                 overflow, printed>>

Deliverable == game.session \in live /\ accepting
Decided == game' = [Idle EXCEPT !.lines = Owes(game.session, 1)]

(* The first look at `active' and `accepting', without the mutex. *)
Examine ==
  /\ game.at = "entered" /\ game.lines = <<>>
  /\ IF Deliverable THEN game' = [game EXCEPT !.at = "admit"] ELSE Decided
  /\ UNCHANGED <<control, eventQueue, capacity, traceQueue, pending_traces, wait, loop,
                 executes, overflow, printed>>

(* QueueCapacity::admit. *)
Admits == Limit = 0 \/ Len(events) < Limit
Admitted == [warning_pending |-> FALSE, overflow_reported |-> FALSE]
Rejected ==
  IF capacity.overflow_reported THEN capacity
  ELSE [warning_pending |-> TRUE, overflow_reported |-> TRUE]

EpisodeEnds == overflow' = [overflow EXCEPT !.open = FALSE]
Episode ==
  IF overflow.open THEN overflow
  ELSE [number |-> overflow.number + 1, open |-> TRUE, posted |-> 0, room |-> FALSE]

AdmitEvent ==
  /\ Deliverable /\ Admits
  /\ events' = Append(events, game.session)
  /\ capacity' = Admitted /\ EpisodeEnds
  /\ UNCHANGED <<live, traceQueue>>

RejectEvent_StaysPending ==
  /\ Deliverable /\ ~Admits
  /\ IF Rejected.warning_pending /\ TraceRoom
     THEN /\ Publish([session |-> game.session, episode |-> Episode.number])
          /\ overflow' = [Episode EXCEPT !.posted = @ + 1, !.room = TRUE]
     ELSE overflow' = [Episode EXCEPT !.room = @ \/ TraceRoom] /\ UNCHANGED traceQueue
  /\ capacity' = Rejected
  /\ live' \in { live, live \ {game.session} }
  /\ UNCHANGED events

(* A rejected event may fault its target.  The warning of the episode is
   posted by the first rejection that finds room for it among the lines. *)
RejectEvent ==
  /\ Deliverable /\ ~Admits
  /\ IF Rejected.warning_pending /\ TraceRoom
     THEN /\ Publish([session |-> game.session, episode |-> Episode.number])
          /\ overflow' = [Episode EXCEPT !.posted = @ + 1, !.room = TRUE]
          /\ capacity' = [Rejected EXCEPT !.warning_pending = FALSE]
     ELSE /\ overflow' = [Episode EXCEPT !.room = @ \/ TraceRoom]
          /\ capacity' = Rejected
          /\ UNCHANGED traceQueue
  /\ live' \in { live, live \ {game.session} }
  /\ UNCHANGED events

(* Storing the event, or the warning, fails; the admission stands. *)
QueueException ==
  /\ Deliverable
  /\ live' = live \ {game.session}
  /\ IF Admits THEN capacity' = Admitted /\ EpisodeEnds
     ELSE capacity' = Rejected /\ overflow' = Episode /\ Rejected.warning_pending /\ TraceRoom
  /\ UNCHANGED <<events, traceQueue>>

Decline == ~Deliverable /\ UNCHANGED <<live, events, capacity, overflow, traceQueue>>

(* The decision under the mutex, and the line about it that follows. *)
Admission ==
  /\ game.at = "admit"
  /\ AdmitEvent \/ RejectEvent \/ QueueException \/ Decline
  /\ Decided
  /\ UNCHANGED <<active, accepting, cleared, pending_events, pending_traces, wait, loop,
                 executes, printed>>

-----------------------------------------------------------------------------
(* The consumer: BridgeMod::on_update.                                     *)

(* QueueDispatchSchedule::due. *)
Due == wait = 0 /\ wait' = Interval
NotDue_Postpones == wait # 0 /\ wait' = Interval
NotDue == wait # 0 /\ UNCHANGED wait

(* A due pass takes the queued events if no batch is left. *)
OnUpdate ==
  /\ loop.at = "idle" /\ loop.lines = <<>>
  /\ \/ /\ Due
        /\ loop' = [loop EXCEPT !.at = "events", !.moved = 0]
        /\ IF pending_events = <<>> THEN pending_events' = events /\ events' = <<>>
           ELSE UNCHANGED eventQueue
     \/ NotDue /\ UNCHANGED <<loop, eventQueue>>
  /\ UNCHANGED <<control, capacity, traceQueue, pending_traces, game, executes, overflow,
                 printed>>

(* A skipped event has two lines written about it, one that is called back
   three; the callback may leave the rest to a later pass. *)
ConsumeEvent ==
  /\ loop.at = "events" /\ loop.lines = <<>> /\ pending_events # <<>>
  /\ \E n \in 2..3 :
       loop' = [loop EXCEPT !.moved = 1, !.lines = Owes(Head(pending_events), n)]
  /\ pending_events' = Tail(pending_events)
  /\ UNCHANGED <<control, events, capacity, traceQueue, pending_traces, wait, game,
                 executes, overflow, printed>>

(* take_traces, if no batch is left and the readiness flag is up. *)
TakeTraces ==
  /\ loop.at = "events" /\ loop.lines = <<>>
  /\ pending_events = <<>> \/ loop.moved > 0
  /\ loop' = [loop EXCEPT !.at = "flush", !.moved = 0]
  /\ IF pending_traces = <<>> /\ traces_ready
     THEN pending_traces' = traces /\ traces' = <<>> /\ traces_ready' = FALSE
     ELSE UNCHANGED <<pending_traces, traceQueue>>
  /\ UNCHANGED <<control, eventQueue, capacity, wait, game, executes, overflow, printed>>

(* A line of a session that has stopped is skipped. *)
FlushLine ==
  /\ loop.at = "flush" /\ pending_traces # <<>> /\ loop.moved < TraceBudget
  /\ loop' = [loop EXCEPT !.moved = @ + 1]
  /\ pending_traces' = Tail(pending_traces)
  /\ LET line == Head(pending_traces)
     IN printed' = IF line.session \in active /\ line.episode # 0
                   THEN printed \cup {line.episode} ELSE printed
  /\ UNCHANGED <<control, eventQueue, capacity, traceQueue, wait, game, executes, overflow>>

(* The time allowance may end a pass after its first line. *)
EndPass ==
  /\ loop.at = "flush" /\ (pending_traces = <<>> \/ loop.moved > 0)
  /\ loop' = [loop EXCEPT !.at = "idle", !.moved = 0]
  /\ UNCHANGED <<control, eventQueue, capacity, traceQueue, pending_traces, wait, game,
                 executes, overflow, printed>>

Tick ==
  /\ wait > 0 /\ wait' = wait - 1
  /\ UNCHANGED <<control, eventQueue, capacity, traceQueue, pending_traces, game, loop,
                 executes, overflow, printed>>

-----------------------------------------------------------------------------
(* Sessions and the bridge, from any thread.                               *)

(* std::erase_if: the events of other sessions stay, in their order. *)
Erase(s) == \E n \in 0..Len(events) : \E kept \in [1..n -> 1..Len(events)] :
  /\ \A i, j \in 1..n : i < j => kept[i] < kept[j]
  /\ \A k \in 1..Len(events) : events[k] # s <=> \E i \in 1..n : kept[i] = k
  /\ events' = [i \in 1..n |-> events[kept[i]]]

(* A subscription ends or its target is faulted elsewhere; the events it had
   queued are erased, unless it was unbound. *)
Deactivate(s) ==
  /\ s \in live /\ live' = live \ {s}
  /\ Erase(s) \/ UNCHANGED events
  /\ UNCHANGED <<active, accepting, cleared, pending_events, capacity, traceQueue,
                 pending_traces, wait, game, loop, executes, overflow, printed>>

SessionStops(s) ==
  /\ s \in active /\ active' = active \ {s}
  /\ UNCHANGED <<live, accepting, cleared, eventQueue, capacity, traceQueue, pending_traces,
                 wait, game, loop, executes, overflow, printed>>

StopAccepting ==
  /\ accepting /\ accepting' = FALSE
  /\ UNCHANGED <<active, live, cleared, eventQueue, capacity, traceQueue, pending_traces,
                 wait, game, loop, executes, overflow, printed>>

(* The end of EnhancedInputBackend::shutdown. *)
ShutdownClears ==
  /\ ~accepting /\ ~cleared
  /\ cleared' = TRUE /\ live' = {}
  /\ events' = <<>> /\ traces' = <<>> /\ traces_ready' = FALSE
  /\ UNCHANGED <<active, accepting, pending_events, capacity, pending_traces, wait, game,
                 loop, executes, overflow, printed>>

Produce == (\E s \in Sessions : Execute(s)) \/ Examine \/ Admission \/ GameWrites
Update == OnUpdate \/ ConsumeEvent \/ TakeTraces \/ FlushLine \/ EndPass \/ LoopWrites
Control == (\E s \in Sessions : Deactivate(s) \/ SessionStops(s))
           \/ StopAccepting \/ ShutdownClears

Next == Produce \/ Update \/ Tick \/ Control
Spec == Init /\ [][Next]_vars

(* UE4SS calls on_update again and again, and the clock goes on. *)
FairSpec == Spec /\ WF_vars(Update) /\ WF_vars(Tick)

-----------------------------------------------------------------------------
Waiting == pending_traces \o traces

Line == [session : Sessions, episode : Nat]
Thread == [at : {"idle", "entered", "admit", "events", "flush"},
           session : Sessions \cup {Nobody}, lines : Seq(Sessions), peeked : BOOLEAN,
           moved : Nat]

TypeOK ==
  /\ active \subseteq Sessions /\ live \subseteq Sessions
  /\ accepting \in BOOLEAN /\ cleared \in BOOLEAN
  /\ events \in Seq(Sessions) /\ pending_events \in Seq(Sessions)
  /\ capacity \in [warning_pending : BOOLEAN, overflow_reported : BOOLEAN]
  /\ traces \in Seq(Line) /\ pending_traces \in Seq(Line)
  /\ traces_ready \in BOOLEAN
  /\ wait \in 0..Interval
  /\ game \in Thread /\ loop \in Thread
  /\ executes \in 0..MaxExecutes
  /\ overflow \in [number : Nat, open : BOOLEAN, posted : Nat, room : BOOLEAN]
  /\ printed \subseteq Nat

(* However the two queues fill and empty, an overflow episode - the rejections
   between two admissions - has at most one warning, and has it as soon as one
   of its rejections finds room among the lines; the warnings wait, and are
   printed, in the order of their episodes, of which there are no more than
   half the executions. *)
OnePerEpisode ==
  /\ overflow.posted <= 1
  /\ overflow.room => overflow.posted = 1
  /\ 2 * overflow.number <= MaxExecutes

InEpisodeOrder ==
  /\ \A i, j \in 1..Len(Waiting) :
       (i < j /\ Waiting[i].episode # 0 /\ Waiting[j].episode # 0) =>
         Waiting[i].episode < Waiting[j].episode
  /\ \A i \in 1..Len(Waiting), e \in printed :
       Waiting[i].episode # 0 => e < Waiting[i].episode

WarningsExact == TypeOK /\ OnePerEpisode /\ InEpisodeOrder

(* What makes WarningsExact inductive: the flags follow the episodes; posted
   warnings are of episodes up to the current one, and of earlier ones if its
   own is still to come; an episode takes two executions. *)
FlagsInv ==
  /\ OnePerEpisode
  /\ capacity.overflow_reported = overflow.open
  /\ capacity.warning_pending => overflow.open
  /\ overflow.open => overflow.posted = IF capacity.warning_pending THEN 0 ELSE 1

Posted(e) == e <= overflow.number /\ (overflow.posted = 0 => e < overflow.number)
AllPosted ==
  /\ \A i \in 1..Len(Waiting) : Waiting[i].episode # 0 => Posted(Waiting[i].episode)
  /\ \A e \in printed : Posted(e)
LinesInv == InEpisodeOrder /\ AllPosted

Decisions == IF game.at = "idle" THEN executes ELSE executes - 1
CountInv ==
  /\ game.at # "idle" => executes > 0 /\ game.session \in Sessions
  /\ IF overflow.open THEN 2 * overflow.number <= Decisions
     ELSE (overflow.number # 0 \/ events # <<>>) => 2 * overflow.number < Decisions

EpisodesInv == TypeOK /\ FlagsInv /\ LinesInv /\ CountInv

(* A thread that looked at `accepting' before shutdown and gets the mutex after
   it leaves nothing in the emptied queues: their entries point into sessions
   that are destroyed with the bridge. *)
QuietAfterShutdown ==
  cleared => (events = <<>> /\ traces = <<>>)

QuietInv == QuietAfterShutdown /\ (cleared => ~accepting)

(* An episode takes an execution that fills the queue and one that is rejected. *)
Episodes == { e \in 1..MaxExecutes : 2 * e <= MaxExecutes }

(* A posted warning is printed, behind however many lines and across however
   many retained batches, unless its session stops or the bridge shuts down
   before. *)
WarningIsPrinted ==
  \A e \in Episodes, s \in Sessions :
    (\E i \in DOMAIN Waiting : Waiting[i] = [session |-> s, episode |-> e])
      ~> (e \in printed \/ s \notin active \/ ~accepting)
=============================================================================
