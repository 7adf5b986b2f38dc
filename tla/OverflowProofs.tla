--------------------------- MODULE OverflowProofs ---------------------------
(***************************************************************************)
(* The safety properties of OverflowWarnings, for every set of sessions,   *)
(* every limit of the two queues and every interval of the schedule.       *)
(***************************************************************************)
EXTENDS OverflowWarnings, SequenceTheorems, TLAPS

USE OverflowAssumption

(* Erase leaves events of the same sessions, and none where none were. *)
LEMMA EraseKeepsEvents ==
  ASSUME TypeOK, NEW s, Erase(s)
  PROVE  events' \in Seq(Sessions) /\ (events = <<>> => events' = <<>>)
<1>1. PICK n \in 0..Len(events) : \E kept \in [1..n -> 1..Len(events)] :
        events' = [i \in 1..n |-> events[kept[i]]]
  BY DEF Erase
<1>2. PICK kept \in [1..n -> 1..Len(events)] : events' = [i \in 1..n |-> events[kept[i]]]
  BY <1>1
<1>3. events \in Seq(Sessions) /\ Len(events) \in Nat /\ n \in Nat /\ n <= Len(events)
  BY DEF TypeOK
<1>4. \A i \in 1..n : events[kept[i]] \in Sessions
  BY <1>2, <1>3
<1>5. events' \in [1..n -> Sessions]
  BY <1>2, <1>4
<1>6. events' \in Seq(Sessions) /\ Len(events') = n
  BY <1>3, <1>5
<1>7. QED
  BY <1>3, <1>6

(* The next debug line to write is of a session, and the rest too. *)
LEMMA DebtTypeOK ==
  ASSUME NEW t \in Thread, t.lines # <<>>
  PROVE  Head(t.lines) \in Sessions /\ Tail(t.lines) \in Seq(Sessions)
  BY DEF Thread

LEMMA OwesTypeOK ==
  ASSUME NEW s \in Sessions, NEW n \in Nat
  PROVE  Owes(s, n) \in Seq(Sessions)
<1>1. [i \in 1..n |-> s] \in Seq(Sessions)
  OBVIOUS
<1>2. QED
  BY <1>1 DEF Owes

(* Writing a line leaves a thread a thread, and the queue of lines one. *)
LEMMA WriteTypeOK ==
  ASSUME NEW t \in Thread, t.lines # <<>>, accepting \in BOOLEAN
  PROVE  Peeked(t) \in Thread /\ Written(t) \in Thread
<1>1. Tail(t.lines) \in Seq(Sessions) /\ t.lines \in Seq(Sessions)
  BY DebtTypeOK DEF Thread
<1>2. Written(t) \in Thread
  BY <1>1 DEF Written, Thread
<1>3. Peeked(t) \in Thread
  BY <1>1 DEF Peeked, Thread
<1>4. QED
  BY <1>2, <1>3

LEMMA PublishTypeOK ==
  ASSUME traces \in Seq(Line), NEW line \in Line, Publish(line)
  PROVE  traces' \in Seq(Line) /\ traces_ready' \in BOOLEAN
<1>1. traces' \in Seq(Line)
  BY DEF Publish
<1>2. traces_ready' \in BOOLEAN
  BY DEF Publish
<1>3. QED
  BY <1>1, <1>2

LEMMA PushTypeOK ==
  ASSUME TypeOK, NEW t \in Thread, t.lines # <<>>, PushLine(t)
  PROVE  traces' \in Seq(Line) /\ traces_ready' \in BOOLEAN
<1>1. CASE UNCHANGED traceQueue
  BY <1>1 DEF traceQueue, TypeOK
<1>2. CASE Publish([session |-> Head(t.lines), episode |-> 0])
  <2>1. [session |-> Head(t.lines), episode |-> 0] \in Line
    BY DebtTypeOK DEF Line
  <2>2. QED
    BY <1>2, <2>1, PublishTypeOK DEF TypeOK
<1>3. QED
  BY <1>1, <1>2 DEF PushLine

-----------------------------------------------------------------------------
(* Type correctness.  A step of the invariants below starts where the game   *)
(* thread's session is known, so CountInv is among the assumptions.          *)

LEMMA InitTypeOK == ASSUME Init PROVE TypeOK
<1>1. active \subseteq Sessions /\ live \subseteq Sessions /\ accepting \in BOOLEAN
      /\ cleared \in BOOLEAN /\ traces_ready \in BOOLEAN
  BY DEF Init
<1>2. /\ events \in Seq(Sessions) /\ pending_events \in Seq(Sessions)
      /\ traces \in Seq(Line) /\ pending_traces \in Seq(Line)
  BY DEF Init
<1>3. capacity \in [warning_pending : BOOLEAN, overflow_reported : BOOLEAN]
  BY DEF Init
<1>4. game \in Thread /\ loop \in Thread
  BY DEF Init, Idle, Thread
<1>5. overflow \in [number : Nat, open : BOOLEAN, posted : Nat, room : BOOLEAN]
  BY DEF Init
<1>6. wait \in 0..Interval /\ executes \in 0..MaxExecutes /\ printed \subseteq Nat
  BY DEF Init
<1>7. QED
  BY <1>1, <1>2, <1>3, <1>4, <1>5, <1>6 DEF TypeOK

Counts == [number : Nat, open : BOOLEAN, posted : Nat, room : BOOLEAN]
Flags == [warning_pending : BOOLEAN, overflow_reported : BOOLEAN]

LEMMA EpisodeTypeOK ==
  ASSUME TypeOK
  PROVE  /\ Episode \in Counts /\ Rejected \in Flags /\ Admitted \in Flags
         /\ \A p \in Nat, r \in BOOLEAN : [Episode EXCEPT !.posted = p, !.room = r] \in Counts
         /\ [Rejected EXCEPT !.warning_pending = FALSE] \in Flags
         /\ [overflow EXCEPT !.open = FALSE] \in Counts
<1>1. overflow \in Counts /\ capacity \in Flags
  BY DEF TypeOK, Counts, Flags
<1>2. overflow.number + 1 \in Nat
  BY <1>1 DEF Counts
<1>3. [number |-> overflow.number + 1, open |-> TRUE, posted |-> 0, room |-> FALSE] \in Counts
  BY <1>2 DEF Counts
<1>4. Episode \in Counts
  BY <1>1, <1>3 DEF Episode
<1>5. Rejected \in Flags /\ Admitted \in Flags
  BY <1>1 DEF Rejected, Admitted, Flags
<1>6. \A p \in Nat, r \in BOOLEAN : [Episode EXCEPT !.posted = p, !.room = r] \in Counts
  BY <1>4 DEF Counts
<1>7. [Rejected EXCEPT !.warning_pending = FALSE] \in Flags
  BY <1>5 DEF Flags
<1>8. [overflow EXCEPT !.open = FALSE] \in Counts
  BY <1>1 DEF Counts
<1>9. QED
  BY <1>4, <1>5, <1>6, <1>7, <1>8

(* What the decision under the mutex does to the types. *)
LEMMA DecisionTypeOK ==
  ASSUME TypeOK, game.session \in Sessions,
         AdmitEvent \/ RejectEvent \/ QueueException \/ Decline
  PROVE  /\ live' \subseteq Sessions /\ events' \in Seq(Sessions)
         /\ capacity' \in Flags /\ overflow' \in Counts
         /\ traces' \in Seq(Line) /\ traces_ready' \in BOOLEAN
<1>1. overflow \in Counts /\ capacity \in Flags /\ live \subseteq Sessions
      /\ events \in Seq(Sessions) /\ traces \in Seq(Line) /\ traces_ready \in BOOLEAN
  BY DEF TypeOK, Counts, Flags
<1>2. Episode \in Counts /\ Rejected \in Flags /\ Admitted \in Flags
  BY EpisodeTypeOK
<1>3. CASE AdmitEvent
  <2>1. events' \in Seq(Sessions)
    BY <1>1, <1>3 DEF AdmitEvent
  <2>2. capacity' \in Flags /\ overflow' \in Counts
    BY <1>2, <1>3, EpisodeTypeOK DEF AdmitEvent, EpisodeEnds
  <2>3. UNCHANGED <<live, traceQueue>>
    BY <1>3 DEF AdmitEvent
  <2>4. QED
    BY <1>1, <2>1, <2>2, <2>3 DEF traceQueue
<1>4. CASE RejectEvent
  <2>1. live' \subseteq Sessions /\ events' = events
    BY <1>1, <1>4 DEF RejectEvent
  <2>2. CASE Rejected.warning_pending /\ TraceRoom
    <3>1. [session |-> game.session, episode |-> Episode.number] \in Line
      BY <1>2 DEF Line, Counts
    <3>2. traces' \in Seq(Line) /\ traces_ready' \in BOOLEAN
      BY <1>1, <1>4, <2>2, <3>1, PublishTypeOK DEF RejectEvent
    <3>3. Episode.posted + 1 \in Nat
      BY <1>2 DEF Counts
    <3>4. overflow' = [Episode EXCEPT !.posted = Episode.posted + 1, !.room = TRUE]
          /\ capacity' = [Rejected EXCEPT !.warning_pending = FALSE]
      BY <1>4, <2>2 DEF RejectEvent
    <3>5. overflow' \in Counts /\ capacity' \in Flags
      BY <3>3, <3>4, EpisodeTypeOK
    <3>6. QED
      BY <1>1, <2>1, <3>2, <3>5
  <2>3. CASE ~(Rejected.warning_pending /\ TraceRoom)
    <3>1. overflow' = [Episode EXCEPT !.room = Episode.room \/ TraceRoom]
          /\ capacity' = Rejected /\ UNCHANGED traceQueue
      BY <1>4, <2>3 DEF RejectEvent
    <3>2. (Episode.room \/ TraceRoom) \in BOOLEAN
      OBVIOUS
    <3>3. overflow' \in Counts
      BY <1>2, <3>1, <3>2 DEF Counts
    <3>4. QED
      BY <1>1, <1>2, <2>1, <3>1, <3>3 DEF traceQueue
  <2>4. QED
    BY <2>2, <2>3
<1>5. CASE QueueException
  <2>1. live' \subseteq Sessions /\ UNCHANGED <<events, traceQueue>>
    BY <1>1, <1>5 DEF QueueException
  <2>2. capacity' \in Flags /\ overflow' \in Counts
    BY <1>2, <1>5, EpisodeTypeOK DEF QueueException, EpisodeEnds
  <2>3. QED
    BY <1>1, <2>1, <2>2 DEF traceQueue
<1>6. CASE Decline
  BY <1>1, <1>6 DEF Decline, traceQueue
<1>7. QED
  BY <1>3, <1>4, <1>5, <1>6

LEMMA DecidedTypeOK ==
  ASSUME TypeOK, game.session \in Sessions, Decided
  PROVE  game' \in Thread
<1>1. Owes(game.session, 1) \in Seq(Sessions)
  BY OwesTypeOK
<1>2. QED
  BY <1>1 DEF Decided, Idle, Thread

LEMMA NextTypeOK == ASSUME TypeOK, CountInv, [Next]_vars PROVE TypeOK'
<1> USE DEF control, eventQueue, traceQueue
<1>1. ASSUME NEW s \in Sessions, Execute(s) PROVE TypeOK'
  <2>1. Owes(s, 2) \in Seq(Sessions)
    BY OwesTypeOK
  <2>2. game' \in Thread
    <3>1. game' = [at |-> "entered", session |-> s, lines |-> Owes(s, 2), peeked |-> FALSE,
                   moved |-> 0]
      BY <1>1 DEF Execute, Idle
    <3>2. QED
      BY <2>1, <3>1 DEF Thread
  <2>3. executes' \in 0..MaxExecutes
    BY <1>1 DEF Execute, TypeOK
  <2>4. QED
    BY <1>1, <2>2, <2>3 DEF Execute, TypeOK
<1>2. CASE Examine
  <2>1. game.session \in Sessions
    BY <1>2 DEF Examine, CountInv
  <2>2. [game EXCEPT !.at = "admit"] \in Thread
    BY DEF Thread, TypeOK
  <2>3. game' \in Thread
    BY <1>2, <2>1, <2>2, DecidedTypeOK DEF Examine
  <2>4. QED
    BY <1>2, <2>3 DEF Examine, TypeOK
<1>3. CASE Admission
  <2>1. game.session \in Sessions
    BY <1>3 DEF Admission, CountInv
  <2>2. game' \in Thread
    BY <1>3, <2>1, DecidedTypeOK DEF Admission
  <2>3. /\ live' \subseteq Sessions /\ events' \in Seq(Sessions)
        /\ capacity' \in Flags /\ overflow' \in Counts
        /\ traces' \in Seq(Line) /\ traces_ready' \in BOOLEAN
    BY <1>3, <2>1, DecisionTypeOK DEF Admission
  <2>4. QED
    BY <1>3, <2>2, <2>3 DEF Admission, TypeOK, Flags, Counts
<1>4. CASE GameWrites
  <2>1. game \in Thread /\ game.lines # <<>>
    BY <1>4 DEF GameWrites, TypeOK
  <2>2. game' \in Thread
    BY <1>4, <2>1, WriteTypeOK DEF GameWrites, TypeOK
  <2>3. traces' \in Seq(Line) /\ traces_ready' \in BOOLEAN
    BY <1>4, <2>1, PushTypeOK DEF GameWrites, TypeOK
  <2>4. QED
    BY <1>4, <2>2, <2>3 DEF GameWrites, TypeOK
<1>5. CASE LoopWrites
  <2>1. loop \in Thread /\ loop.lines # <<>>
    BY <1>5 DEF LoopWrites, TypeOK
  <2>2. loop' \in Thread
    BY <1>5, <2>1, WriteTypeOK DEF LoopWrites, TypeOK
  <2>3. traces' \in Seq(Line) /\ traces_ready' \in BOOLEAN
    BY <1>5, <2>1, PushTypeOK DEF LoopWrites, TypeOK
  <2>4. QED
    BY <1>5, <2>2, <2>3 DEF LoopWrites, TypeOK
<1>6. CASE OnUpdate
  <2>1. [loop EXCEPT !.at = "events", !.moved = 0] \in Thread
    BY DEF Thread, TypeOK
  <2>2. loop' \in Thread
    BY <1>6, <2>1 DEF OnUpdate, TypeOK
  <2>3. events' \in Seq(Sessions) /\ pending_events' \in Seq(Sessions)
    BY <1>6 DEF OnUpdate, TypeOK
  <2>4. wait' \in 0..Interval
    BY <1>6 DEF OnUpdate, Due, NotDue, TypeOK
  <2>5. QED
    BY <1>6, <2>2, <2>3, <2>4 DEF OnUpdate, TypeOK
<1>7. CASE ConsumeEvent
  <2>1. Head(pending_events) \in Sessions /\ pending_events' \in Seq(Sessions)
    BY <1>7 DEF ConsumeEvent, TypeOK
  <2>2. \A n \in 2..3 : Owes(Head(pending_events), n) \in Seq(Sessions)
    BY <2>1, OwesTypeOK
  <2>3. PICK q \in Seq(Sessions) : loop' = [loop EXCEPT !.moved = 1, !.lines = q]
    BY <1>7, <2>2 DEF ConsumeEvent
  <2>4. loop' \in Thread
    BY <2>3 DEF Thread, TypeOK
  <2>5. QED
    BY <1>7, <2>1, <2>4 DEF ConsumeEvent, TypeOK
<1>8. CASE TakeTraces
  <2>1. loop' \in Thread
    BY <1>8 DEF TakeTraces, Thread, TypeOK
  <2>2. traces' \in Seq(Line) /\ pending_traces' \in Seq(Line)
    BY <1>8 DEF TakeTraces, TypeOK
  <2>3. traces_ready' \in BOOLEAN
    BY <1>8 DEF TakeTraces, TypeOK
  <2>4. QED
    BY <1>8, <2>1, <2>2, <2>3 DEF TakeTraces, TypeOK
<1>9. CASE FlushLine
  <2>1. Head(pending_traces) \in Line /\ pending_traces' \in Seq(Line)
    BY <1>9 DEF FlushLine, TypeOK
  <2>2. printed' \subseteq Nat
    BY <1>9, <2>1 DEF FlushLine, Line, TypeOK
  <2>3. loop.moved + 1 \in Nat
    BY DEF Thread, TypeOK
  <2>4. loop' \in Thread
    BY <1>9, <2>3 DEF FlushLine, Thread, TypeOK
  <2>5. QED
    BY <1>9, <2>1, <2>2, <2>4 DEF FlushLine, TypeOK
<1>10. CASE EndPass
  <2>1. loop' \in Thread
    BY <1>10 DEF EndPass, Thread, TypeOK
  <2>2. QED
    BY <1>10, <2>1 DEF EndPass, TypeOK
<1>11. CASE Tick
  BY <1>11 DEF Tick, TypeOK
<1>12. ASSUME NEW s \in Sessions, Deactivate(s) PROVE TypeOK'
  <2>1. events' \in Seq(Sessions)
    BY <1>12, EraseKeepsEvents DEF Deactivate, TypeOK
  <2>2. live' \subseteq Sessions
    BY <1>12 DEF Deactivate, TypeOK
  <2>3. QED
    BY <1>12, <2>1, <2>2 DEF Deactivate, TypeOK
<1>13. ASSUME NEW s \in Sessions, SessionStops(s) PROVE TypeOK'
  BY <1>13 DEF SessionStops, TypeOK
<1>14. CASE StopAccepting
  BY <1>14 DEF StopAccepting, TypeOK
<1>15. CASE ShutdownClears
  <2>1. events' \in Seq(Sessions) /\ traces' \in Seq(Line)
    BY <1>15 DEF ShutdownClears
  <2>2. cleared' \in BOOLEAN /\ traces_ready' \in BOOLEAN /\ live' \subseteq Sessions
    BY <1>15 DEF ShutdownClears
  <2>3. QED
    BY <1>15, <2>1, <2>2 DEF ShutdownClears, TypeOK
<1>16. CASE UNCHANGED vars
  BY <1>16 DEF vars, TypeOK
<1>17. QED
  BY <1>1, <1>2, <1>3, <1>4, <1>5, <1>6, <1>7, <1>8, <1>9, <1>10, <1>11, <1>12, <1>13,
     <1>14, <1>15, <1>16 DEF Next, Produce, Update, Control

-----------------------------------------------------------------------------
(* The flags of QueueCapacity follow the episodes.                           *)

LEMMA DecisionFlags ==
  ASSUME TypeOK, FlagsInv, AdmitEvent \/ RejectEvent \/ QueueException \/ Decline
  PROVE  /\ overflow'.posted <= 1 /\ (overflow'.room => overflow'.posted = 1)
         /\ capacity'.overflow_reported = overflow'.open
         /\ capacity'.warning_pending => overflow'.open
         /\ overflow'.open => overflow'.posted = IF capacity'.warning_pending THEN 0 ELSE 1
<1>1. overflow \in Counts /\ capacity \in Flags
  BY DEF TypeOK, Counts, Flags
<1>2. /\ Episode.open /\ Rejected.overflow_reported
      /\ Episode.posted = IF Rejected.warning_pending THEN 0 ELSE 1
      /\ Episode.room => Episode.posted = 1
  BY <1>1 DEF FlagsInv, OnePerEpisode, Episode, Rejected, Counts, Flags
<1>3. Episode \in Counts /\ Rejected \in Flags
  BY EpisodeTypeOK
<1>4. CASE overflow' = [overflow EXCEPT !.open = FALSE] /\ capacity' = Admitted
  BY <1>1, <1>4 DEF FlagsInv, OnePerEpisode, Admitted, Counts
<1>5. CASE overflow' = Episode /\ capacity' = Rejected
  BY <1>2, <1>3, <1>5 DEF Counts, Flags
<1>6. CASE AdmitEvent
  BY <1>4, <1>6 DEF AdmitEvent, EpisodeEnds
<1>7. CASE QueueException
  BY <1>4, <1>5, <1>7 DEF QueueException, EpisodeEnds
<1>8. CASE Decline
  BY <1>8 DEF Decline, FlagsInv, OnePerEpisode
<1>9. CASE RejectEvent
  <2>1. CASE Rejected.warning_pending /\ TraceRoom
    <3>1. overflow' = [Episode EXCEPT !.posted = Episode.posted + 1, !.room = TRUE]
          /\ capacity' = [Rejected EXCEPT !.warning_pending = FALSE]
      BY <1>9, <2>1 DEF RejectEvent
    <3>2. Episode.posted = 0
      BY <1>2, <2>1
    <3>3. overflow'.posted = 1 /\ overflow'.open = Episode.open
      BY <1>3, <3>1, <3>2 DEF Counts
    <3>4. ~capacity'.warning_pending /\ capacity'.overflow_reported = Rejected.overflow_reported
      BY <1>3, <3>1 DEF Flags
    <3>5. overflow'.open = capacity'.overflow_reported
      BY <1>1, <3>3, <3>4 DEF Episode, Rejected, FlagsInv
    <3>6. QED
      BY <3>3, <3>4, <3>5
  <2>2. CASE ~(Rejected.warning_pending /\ TraceRoom)
    <3>1. overflow' = [Episode EXCEPT !.room = Episode.room \/ TraceRoom]
          /\ capacity' = Rejected
      BY <1>9, <2>2 DEF RejectEvent
    <3>2. overflow'.posted = Episode.posted /\ overflow'.open = Episode.open
          /\ (overflow'.room => Episode.room \/ TraceRoom)
      BY <1>3, <3>1 DEF Counts
    <3>3. overflow'.room => overflow'.posted = 1
      BY <1>2, <2>2, <3>2
    <3>4. Episode.open = Rejected.overflow_reported
      BY <1>1 DEF Episode, Rejected, FlagsInv
    <3>5. overflow'.posted <= 1
          /\ overflow'.posted = IF capacity'.warning_pending THEN 0 ELSE 1
      BY <1>2, <3>1, <3>2
    <3>6. capacity'.overflow_reported = overflow'.open /\ overflow'.open
      BY <1>2, <3>1, <3>2, <3>4
    <3>7. QED
      BY <3>3, <3>5, <3>6
  <2>3. QED
    BY <2>1, <2>2
<1>10. QED
  BY <1>6, <1>7, <1>8, <1>9

LEMMA InitFlags == ASSUME Init PROVE FlagsInv
  BY DEF Init, FlagsInv, OnePerEpisode

LEMMA NextFlags ==
  ASSUME TypeOK, FlagsInv, CountInv, CountInv', TypeOK', [Next]_vars
  PROVE  FlagsInv'
<1>0. 2 * overflow'.number <= MaxExecutes
  <2>1. overflow'.number \in Nat /\ executes' \in 0..MaxExecutes
    BY DEF TypeOK
  <2>2. 2 * overflow'.number <= executes' \/ overflow'.number = 0
    BY <2>1 DEF CountInv, Decisions
  <2>3. QED
    BY <2>1, <2>2
<1>1. CASE UNCHANGED <<overflow, capacity>>
  BY <1>0, <1>1 DEF FlagsInv, OnePerEpisode
<1>2. CASE Admission
  BY <1>0, <1>2, DecisionFlags DEF Admission, FlagsInv, OnePerEpisode
<1>3. QED
  BY <1>1, <1>2 DEF Next, Produce, Update, Control, Execute, Examine, GameWrites, LoopWrites,
     OnUpdate, ConsumeEvent, TakeTraces, FlushLine, EndPass, Tick, Deactivate, SessionStops,
     StopAccepting, ShutdownClears, vars

-----------------------------------------------------------------------------
(* Every episode takes an admission that fills the queue and a rejection.    *)

LEMMA InitCount == ASSUME Init PROVE CountInv
  BY DEF Init, CountInv, Decisions, Idle

LEMMA NextCount == ASSUME TypeOK, CountInv, [Next]_vars PROVE CountInv'
<1>0. /\ overflow.number \in Nat /\ overflow.open \in BOOLEAN /\ executes \in Nat
      /\ events \in Seq(Sessions) /\ game \in Thread
  BY DEF TypeOK
<1>1. CASE /\ game'.at = game.at /\ game'.session = game.session
           /\ UNCHANGED <<executes, overflow>>
           /\ events' = <<>> \/ events' = events \/ events # <<>>
  BY <1>1 DEF CountInv, Decisions
<1>2. CASE UNCHANGED <<game, executes, overflow, events>>
  BY <1>1, <1>2
<1>3. ASSUME NEW s \in Sessions, Execute(s) PROVE CountInv'
  <2>1. game.at = "idle" /\ game'.at = "entered" /\ game'.session = s /\ executes' = executes + 1
    BY <1>3 DEF Execute, Idle
  <2>2. UNCHANGED <<overflow, events>>
    BY <1>3 DEF Execute, eventQueue
  <2>3. QED
    BY <1>0, <2>1, <2>2 DEF CountInv, Decisions
<1>4. ASSUME game.at # "idle", Decided, executes' = executes
      PROVE  /\ Decisions' = Decisions + 1 /\ Decisions >= 0
             /\ game'.at = "idle"
  BY <1>0, <1>4 DEF Decided, Idle, Decisions, CountInv
<1>5. CASE Examine
  <2>1. UNCHANGED <<overflow, events, executes>> /\ game.at = "entered"
    BY <1>5 DEF Examine, eventQueue
  <2>2. CASE Decided
    BY <1>0, <1>4, <2>1, <2>2 DEF CountInv, Decisions
  <2>3. CASE game' = [game EXCEPT !.at = "admit"]
    <3>1. game'.at = "admit" /\ game'.session = game.session
      BY <1>0, <2>3 DEF Thread
    <3>2. QED
      BY <2>1, <3>1 DEF CountInv, Decisions
  <2>4. QED
    BY <1>5, <2>2, <2>3 DEF Examine
<1>6. CASE Admission
  <2>1. Decisions' = Decisions + 1 /\ Decisions >= 0 /\ game'.at = "idle" /\ Decisions \in Nat
    BY <1>0, <1>4, <1>6 DEF Admission, Decisions
  <2>2. CASE overflow' = [overflow EXCEPT !.open = FALSE]
    <3>1. ~overflow'.open /\ overflow'.number = overflow.number
      BY <2>2 DEF TypeOK
    <3>2. 2 * overflow'.number < Decisions'
      BY <1>0, <2>1, <3>1 DEF CountInv
    <3>3. QED
      BY <2>1, <3>1, <3>2 DEF CountInv
  <2>3. CASE /\ overflow'.open /\ overflow'.number = Episode.number /\ ~Admits
             /\ UNCHANGED events
    <3>1. events # <<>>
      BY <1>0, <2>3 DEF Admits
    <3>2. 2 * Episode.number <= Decisions'
      BY <1>0, <2>1, <3>1 DEF CountInv, Episode
    <3>3. QED
      BY <2>1, <2>3, <3>2 DEF CountInv
  <2>4. CASE AdmitEvent
    BY <2>2, <2>4 DEF AdmitEvent, EpisodeEnds
  <2>5. Episode \in Counts /\ Episode.open
    BY EpisodeTypeOK DEF Episode
  <2>6. CASE RejectEvent
    <3>1. \A p \in Nat, r \in BOOLEAN :
            LET e == [Episode EXCEPT !.posted = p, !.room = r]
            IN e.open = Episode.open /\ e.number = Episode.number
      BY <2>5 DEF Counts
    <3>2. overflow'.open /\ overflow'.number = Episode.number
      BY <2>5, <2>6, <3>1 DEF RejectEvent, Counts
    <3>3. QED
      BY <2>3, <2>6, <3>2 DEF RejectEvent
  <2>7. CASE QueueException
    BY <2>2, <2>3, <2>5, <2>7 DEF QueueException, EpisodeEnds
  <2>8. CASE Decline
    <3>1. UNCHANGED <<overflow, events>>
      BY <2>8 DEF Decline
    <3>2. QED
      BY <1>0, <2>1, <3>1 DEF CountInv
  <2>9. QED
    BY <1>6, <2>4, <2>6, <2>7, <2>8 DEF Admission
<1>7. CASE GameWrites
  <2>1. game'.at = game.at /\ game'.session = game.session
    BY <1>0, <1>7 DEF GameWrites, Peeked, Written, Thread
  <2>2. QED
    BY <1>1, <1>7, <2>1 DEF GameWrites, eventQueue
<1>8. CASE OnUpdate
  BY <1>1, <1>8 DEF OnUpdate, eventQueue
<1>9. ASSUME NEW s \in Sessions, Deactivate(s) PROVE CountInv'
  <2>1. events' = <<>> \/ events' = events \/ events # <<>>
    BY <1>9, EraseKeepsEvents DEF Deactivate
  <2>2. QED
    BY <1>1, <1>9, <2>1 DEF Deactivate
<1>10. CASE ShutdownClears
  BY <1>1, <1>10 DEF ShutdownClears
<1>11. QED
  BY <1>2, <1>3, <1>5, <1>6, <1>7, <1>8, <1>9, <1>10
     DEF Next, Produce, Update, Control, LoopWrites, ConsumeEvent, TakeTraces, FlushLine,
         EndPass, Tick, SessionStops, StopAccepting, vars, eventQueue

-----------------------------------------------------------------------------
(* The lines wait and are printed in the order of their episodes.            *)

LEMMA EpisodesOfWaiting ==
  ASSUME TypeOK
  PROVE  /\ Waiting \in Seq(Line) /\ Len(Waiting) \in Nat /\ printed \subseteq Nat
         /\ \A i \in 1..Len(Waiting) : Waiting[i].episode \in Nat
<1>1. Waiting \in Seq(Line)
  BY DEF Waiting, TypeOK
<1>2. \A i \in 1..Len(Waiting) : Waiting[i] \in Line
  BY <1>1
<1>3. QED
  BY <1>1, <1>2 DEF Line, TypeOK

(* A new line is debug output, or of an episode later than every posted one. *)
LEMMA LinesAppended ==
  ASSUME TypeOK, TypeOK', LinesInv, NEW line \in Line, Publish(line),
         UNCHANGED <<pending_traces, printed>>,
         \A e \in Nat : Posted(e) => Posted(e)',
         line.episode # 0 =>
           /\ Posted(line.episode)'
           /\ \A e \in Nat : Posted(e) => e < line.episode
  PROVE  LinesInv'
<1>1. /\ traces \in Seq(Line) /\ pending_traces \in Seq(Line)
      /\ traces' = Append(traces, line)
  BY DEF TypeOK, Publish
<1>2. traces' \in Seq(Line) /\ Len(traces') = Len(traces) + 1
      /\ \A i \in 1..Len(traces) : traces'[i] = traces[i]
      /\ traces'[Len(traces) + 1] = line
  BY <1>1
<1>3. /\ Len(Waiting) = Len(pending_traces) + Len(traces)
      /\ Len(Waiting') = Len(pending_traces) + Len(traces) + 1
      /\ Len(pending_traces) \in Nat /\ Len(traces) \in Nat
  BY <1>1, <1>2 DEF Waiting
<1>4. \A i \in 1..Len(Waiting) : Waiting'[i] = Waiting[i]
  BY <1>1, <1>2, <1>3 DEF Waiting
<1>5. Waiting'[Len(Waiting) + 1] = line
  BY <1>1, <1>2, <1>3 DEF Waiting
<1>6. /\ Len(Waiting) \in Nat /\ line.episode \in Nat /\ printed \subseteq Nat
      /\ \A i \in 1..Len(Waiting) : Waiting[i].episode \in Nat
  BY EpisodesOfWaiting DEF Line
<1>7. \A i \in 1..Len(Waiting') : i \in 1..Len(Waiting) \/ i = Len(Waiting) + 1
  BY <1>3, <1>6
<1>8. ASSUME NEW i \in 1..Len(Waiting), Waiting[i].episode # 0
      PROVE  /\ Posted(Waiting[i].episode)
             /\ Waiting[i].episode \in Nat
             /\ line.episode # 0 => Waiting[i].episode < line.episode
  BY <1>6, <1>8 DEF LinesInv, AllPosted
<1>9. AllPosted'
  <2>1. \A i \in 1..Len(Waiting) : Waiting[i].episode # 0 =>
          /\ Waiting[i].episode <= overflow'.number
          /\ overflow'.posted = 0 => Waiting[i].episode < overflow'.number
    BY <1>8 DEF Posted
  <2>2. \A e \in printed' : e <= overflow'.number
                            /\ (overflow'.posted = 0 => e < overflow'.number)
    BY <1>6 DEF LinesInv, AllPosted, Posted
  <2>3. line.episode # 0 => /\ line.episode <= overflow'.number
                            /\ overflow'.posted = 0 => line.episode < overflow'.number
    BY DEF Posted
  <2>4. QED
    BY <1>4, <1>5, <1>7, <2>1, <2>2, <2>3 DEF AllPosted, Posted
<1>10. \A i, j \in 1..Len(Waiting') :
         (i < j /\ Waiting'[i].episode # 0 /\ Waiting'[j].episode # 0) =>
           Waiting'[i].episode < Waiting'[j].episode
  <2>1. SUFFICES ASSUME NEW i \in 1..Len(Waiting'), NEW j \in 1..Len(Waiting'), i < j,
                        Waiting'[i].episode # 0, Waiting'[j].episode # 0
                 PROVE  Waiting'[i].episode < Waiting'[j].episode
    OBVIOUS
  <2>2. i \in 1..Len(Waiting)
    BY <1>3, <1>6, <2>1
  <2>3. CASE j \in 1..Len(Waiting)
    BY <1>4, <2>1, <2>2, <2>3 DEF LinesInv, InEpisodeOrder
  <2>4. CASE j = Len(Waiting) + 1
    BY <1>4, <1>5, <1>8, <2>1, <2>2, <2>4
  <2>5. QED
    BY <1>7, <2>3, <2>4
<1>11. \A i \in 1..Len(Waiting'), e \in printed' :
         Waiting'[i].episode # 0 => e < Waiting'[i].episode
  <2>1. SUFFICES ASSUME NEW i \in 1..Len(Waiting'), NEW e \in printed,
                        Waiting'[i].episode # 0
                 PROVE  e < Waiting'[i].episode
    OBVIOUS
  <2>2. CASE i \in 1..Len(Waiting)
    BY <1>4, <2>1, <2>2 DEF LinesInv, InEpisodeOrder
  <2>3. CASE i = Len(Waiting) + 1
    BY <1>5, <1>6, <2>1, <2>3 DEF LinesInv, AllPosted
  <2>4. QED
    BY <1>7, <2>2, <2>3
<1>12. QED
  BY <1>9, <1>10, <1>11 DEF LinesInv, InEpisodeOrder

(* The lines that are left after some of the first or the last are gone. *)
LEMMA LinesKept ==
  ASSUME TypeOK, LinesInv, UNCHANGED printed,
         \A e \in Nat : Posted(e) => Posted(e)',
         Len(Waiting') \in Nat, Len(Waiting') <= Len(Waiting),
         \A i \in 1..Len(Waiting') : Waiting'[i] = Waiting[i]
  PROVE  LinesInv'
<1>1. /\ Len(Waiting) \in Nat /\ printed \subseteq Nat
      /\ \A i \in 1..Len(Waiting) : Waiting[i].episode \in Nat
      /\ \A i \in 1..Len(Waiting') : i \in 1..Len(Waiting)
  BY EpisodesOfWaiting
<1>2. InEpisodeOrder'
  BY <1>1 DEF LinesInv, InEpisodeOrder
<1>3. AllPosted'
  BY <1>1 DEF LinesInv, AllPosted, Posted
<1>4. QED
  BY <1>2, <1>3 DEF LinesInv

LEMMA LinesUnchanged ==
  ASSUME TypeOK, LinesInv, UNCHANGED <<traces, pending_traces, printed>>,
         \A e \in Nat : Posted(e) => Posted(e)'
  PROVE  LinesInv'
<1>1. Waiting' = Waiting /\ Len(Waiting) \in Nat
  BY DEF Waiting, TypeOK
<1>2. QED
  BY <1>1, LinesKept

LEMMA LinesDebug ==
  ASSUME TypeOK, TypeOK', LinesInv, NEW t \in Thread, t.lines # <<>>, PushLine(t),
         UNCHANGED <<pending_traces, printed, overflow>>
  PROVE  LinesInv'
<1>1. \A e \in Nat : Posted(e) => Posted(e)'
  BY DEF Posted
<1>2. CASE UNCHANGED traceQueue
  BY <1>1, <1>2, LinesUnchanged DEF traceQueue
<1>3. CASE Publish([session |-> Head(t.lines), episode |-> 0])
  <2>1. [session |-> Head(t.lines), episode |-> 0] \in Line
    BY DebtTypeOK DEF Line
  <2>2. QED
    BY <1>1, <1>3, <2>1, LinesAppended
<1>4. QED
  BY <1>2, <1>3 DEF PushLine

(* The first line goes; if it is a warning, it was the oldest. *)
LEMMA LinesFlushed ==
  ASSUME TypeOK, LinesInv, FlushLine
  PROVE  LinesInv'
<1> DEFINE first == Head(pending_traces)
<1>1. /\ traces \in Seq(Line) /\ pending_traces \in Seq(Line) /\ printed \subseteq Nat
      /\ pending_traces # <<>> /\ pending_traces' = Tail(pending_traces)
      /\ UNCHANGED <<traces, overflow>>
  BY DEF TypeOK, FlushLine, traceQueue
<1>2. /\ Len(Waiting) \in Nat \ {0} /\ Len(Waiting') = Len(Waiting) - 1
      /\ Waiting[1] = first
  BY <1>1 DEF Waiting
<1>3. \A i \in 1..Len(Waiting') : Waiting'[i] = Waiting[i + 1]
  BY <1>1, <1>2 DEF Waiting
<1>4. printed' = printed \/ (first.episode # 0 /\ printed' = printed \cup {first.episode})
  BY DEF FlushLine
<1> HIDE DEF first
<1>5. /\ 1 \in 1..Len(Waiting)
      /\ \A i \in 1..Len(Waiting') : i + 1 \in 1..Len(Waiting) /\ 1 < i + 1
      /\ \A i \in 1..Len(Waiting) : Waiting[i].episode \in Nat
  BY <1>2, EpisodesOfWaiting
<1>6. \A i \in 1..Len(Waiting'), e \in printed' :
        Waiting'[i].episode # 0 => e < Waiting'[i].episode
  <2>1. SUFFICES ASSUME NEW i \in 1..Len(Waiting'), NEW e \in printed', Waiting'[i].episode # 0
                 PROVE  e < Waiting'[i].episode
    OBVIOUS
  <2>2. Waiting'[i] = Waiting[i + 1] /\ i + 1 \in 1..Len(Waiting) /\ 1 < i + 1
    BY <1>3, <1>5
  <2>3. CASE e \in printed
    BY <2>1, <2>2, <2>3 DEF LinesInv, InEpisodeOrder
  <2>4. CASE e = first.episode /\ first.episode # 0
    BY <1>2, <1>5, <2>1, <2>2, <2>4 DEF LinesInv, InEpisodeOrder
  <2>5. QED
    BY <1>4, <2>3, <2>4
<1>7. \A i, j \in 1..Len(Waiting') :
        (i < j /\ Waiting'[i].episode # 0 /\ Waiting'[j].episode # 0) =>
          Waiting'[i].episode < Waiting'[j].episode
  <2>1. SUFFICES ASSUME NEW i \in 1..Len(Waiting'), NEW j \in 1..Len(Waiting'), i < j,
                        Waiting'[i].episode # 0, Waiting'[j].episode # 0
                 PROVE  Waiting'[i].episode < Waiting'[j].episode
    OBVIOUS
  <2>2. i + 1 < j + 1 /\ i + 1 \in 1..Len(Waiting) /\ j + 1 \in 1..Len(Waiting)
    BY <1>5, <2>1
  <2>3. QED
    BY <1>3, <2>1, <2>2 DEF LinesInv, InEpisodeOrder
<1>8. AllPosted'
  <2>1. \A i \in 1..Len(Waiting') : Waiting'[i].episode # 0 =>
          /\ Waiting'[i].episode <= overflow.number
          /\ overflow.posted = 0 => Waiting'[i].episode < overflow.number
    BY <1>3, <1>5 DEF LinesInv, AllPosted, Posted
  <2>2. \A e \in printed' : e <= overflow.number /\ (overflow.posted = 0 => e < overflow.number)
    BY <1>2, <1>4, <1>5 DEF LinesInv, AllPosted, Posted
  <2>3. QED
    BY <1>1, <2>1, <2>2 DEF AllPosted, Posted
<1>9. QED
  BY <1>6, <1>7, <1>8 DEF LinesInv, InEpisodeOrder

LEMMA LinesTaken ==
  ASSUME TypeOK, LinesInv, TakeTraces
  PROVE  LinesInv'
<1>1. traces \in Seq(Line) /\ pending_traces \in Seq(Line) /\ UNCHANGED <<overflow, printed>>
  BY DEF TypeOK, TakeTraces
<1>2. Waiting' = Waiting /\ Len(Waiting) \in Nat
  <2>1. CASE UNCHANGED <<pending_traces, traces>>
    BY <1>1, <2>1 DEF Waiting
  <2>2. CASE pending_traces = <<>> /\ pending_traces' = traces /\ traces' = <<>>
    BY <1>1, <2>2 DEF Waiting
  <2>3. QED
    BY <2>1, <2>2 DEF TakeTraces, traceQueue
<1>3. \A e \in Nat : Posted(e) => Posted(e)'
  BY <1>1 DEF Posted
<1>4. QED
  BY <1>1, <1>2, <1>3, LinesKept

LEMMA LinesCleared ==
  ASSUME TypeOK, LinesInv, ShutdownClears
  PROVE  LinesInv'
<1>1. /\ traces \in Seq(Line) /\ pending_traces \in Seq(Line)
      /\ traces' = <<>> /\ UNCHANGED <<pending_traces, overflow, printed>>
  BY DEF TypeOK, ShutdownClears
<1>2. /\ Waiting' = pending_traces /\ Len(Waiting) = Len(pending_traces) + Len(traces)
      /\ Len(pending_traces) \in Nat /\ Len(traces) \in Nat
      /\ \A i \in 1..Len(pending_traces) : Waiting[i] = pending_traces[i]
  BY <1>1 DEF Waiting
<1>3. \A e \in Nat : Posted(e) => Posted(e)'
  BY <1>1 DEF Posted
<1>4. QED
  BY <1>1, <1>2, <1>3, LinesKept

(* The warning of an episode is later than everything posted before. *)
LEMMA LinesDecided ==
  ASSUME TypeOK, TypeOK', FlagsInv, LinesInv, game.session \in Sessions,
         AdmitEvent \/ RejectEvent \/ QueueException \/ Decline,
         UNCHANGED <<pending_traces, printed>>
  PROVE  LinesInv'
<1>1. overflow \in Counts /\ Episode \in Counts
  BY EpisodeTypeOK DEF TypeOK, Counts
<1>2. \A e \in Nat : Posted(e) =>
        e <= Episode.number /\ (Episode.posted = 0 => e < Episode.number)
  BY <1>1 DEF Posted, Episode, Counts
<1>3. CASE overflow'.number = overflow.number /\ overflow'.posted = overflow.posted
           /\ UNCHANGED traceQueue
  <2>1. \A e \in Nat : Posted(e) => Posted(e)'
    BY <1>3 DEF Posted
  <2>2. QED
    BY <1>3, <2>1, LinesUnchanged DEF traceQueue
<1>4. CASE overflow'.number = Episode.number /\ overflow'.posted = Episode.posted
           /\ UNCHANGED traceQueue
  <2>1. \A e \in Nat : Posted(e) => Posted(e)'
    BY <1>2, <1>4 DEF Posted
  <2>2. QED
    BY <1>4, <2>1, LinesUnchanged DEF traceQueue
<1>5. [overflow EXCEPT !.open = FALSE].number = overflow.number
      /\ [overflow EXCEPT !.open = FALSE].posted = overflow.posted
  BY <1>1 DEF Counts
<1>6. CASE AdmitEvent
  BY <1>3, <1>5, <1>6 DEF AdmitEvent, EpisodeEnds
<1>7. CASE QueueException
  BY <1>3, <1>4, <1>5, <1>7 DEF QueueException, EpisodeEnds
<1>8. CASE Decline
  BY <1>3, <1>8 DEF Decline
<1>9. CASE RejectEvent
  <2>1. CASE Rejected.warning_pending /\ TraceRoom
    <3>0. [session |-> game.session, episode |-> Episode.number] \in Line
      BY <1>1 DEF Line, Counts
    <3>1. PICK line \in Line : line = [session |-> game.session, episode |-> Episode.number]
      BY <3>0
    <3>2. Publish(line)
          /\ overflow' = [Episode EXCEPT !.posted = Episode.posted + 1, !.room = TRUE]
      BY <1>9, <2>1, <3>1 DEF RejectEvent
    <3>3. overflow'.number = Episode.number /\ overflow'.posted = Episode.posted + 1
      BY <1>1, <3>2 DEF Counts
    <3>4. Episode.posted = 0
      BY <1>1, <2>1 DEF TypeOK, FlagsInv, Episode, Rejected
    <3>5. \A e \in Nat : Posted(e) => Posted(e)'
      BY <1>1, <1>2, <3>3, <3>4 DEF Posted
    <3>6. \A e \in Nat : Posted(e) => e < line.episode
      BY <1>2, <3>1, <3>4 DEF Counts
    <3>7. Posted(line.episode)'
      BY <1>1, <3>1, <3>3, <3>4 DEF Posted, Counts
    <3>8. QED
      BY <3>1, <3>2, <3>5, <3>6, <3>7, LinesAppended
  <2>2. CASE ~(Rejected.warning_pending /\ TraceRoom)
    <3>1. overflow' = [Episode EXCEPT !.room = Episode.room \/ TraceRoom] /\ UNCHANGED traceQueue
      BY <1>9, <2>2 DEF RejectEvent
    <3>2. overflow'.number = Episode.number /\ overflow'.posted = Episode.posted
      BY <1>1, <3>1 DEF Counts
    <3>3. QED
      BY <1>4, <3>1, <3>2
  <2>3. QED
    BY <2>1, <2>2
<1>10. QED
  BY <1>6, <1>7, <1>8, <1>9

LEMMA InitLines == ASSUME Init PROVE LinesInv
<1>1. Waiting = <<>> /\ printed = {}
  BY DEF Init, Waiting
<1>2. QED
  BY <1>1 DEF LinesInv, InEpisodeOrder, AllPosted

LEMMA NextLines ==
  ASSUME TypeOK, TypeOK', FlagsInv, LinesInv, CountInv, [Next]_vars
  PROVE  LinesInv'
<1>1. CASE UNCHANGED <<traceQueue, pending_traces, printed, overflow>>
  <2>1. \A e \in Nat : Posted(e) => Posted(e)'
    BY <1>1 DEF Posted
  <2>2. QED
    BY <1>1, <2>1, LinesUnchanged DEF traceQueue
<1>2. CASE Admission
  <2>1. game.session \in Sessions
    BY <1>2 DEF Admission, CountInv
  <2>2. QED
    BY <1>2, <2>1, LinesDecided DEF Admission
<1>3. CASE GameWrites
  <2>1. game \in Thread /\ game.lines # <<>>
    BY <1>3 DEF GameWrites, TypeOK
  <2>2. PushLine(game) \/ UNCHANGED traceQueue
    BY <1>3 DEF GameWrites
  <2>3. UNCHANGED <<pending_traces, printed, overflow>>
    BY <1>3 DEF GameWrites
  <2>4. QED
    BY <1>1, <2>1, <2>2, <2>3, LinesDebug
<1>4. CASE LoopWrites
  <2>1. loop \in Thread /\ loop.lines # <<>>
    BY <1>4 DEF LoopWrites, TypeOK
  <2>2. PushLine(loop) \/ UNCHANGED traceQueue
    BY <1>4 DEF LoopWrites
  <2>3. UNCHANGED <<pending_traces, printed, overflow>>
    BY <1>4 DEF LoopWrites
  <2>4. QED
    BY <1>1, <2>1, <2>2, <2>3, LinesDebug
<1>5. QED
  BY <1>1, <1>2, <1>3, <1>4, LinesFlushed, LinesTaken, LinesCleared
     DEF Next, Produce, Update, Control, Execute, Examine, OnUpdate, ConsumeEvent,
         EndPass, Tick, Deactivate, SessionStops, StopAccepting, vars, traceQueue

(* A warning per episode, where there is room for it, and in order, for every
   limit of the two queues and every number of executions. *)
THEOREM WarningsAreExact == Spec => []WarningsExact
<1>1. Init => EpisodesInv
  BY InitTypeOK, InitFlags, InitLines, InitCount DEF EpisodesInv
<1>2. EpisodesInv /\ [Next]_vars => EpisodesInv'
  <2>1. SUFFICES ASSUME EpisodesInv, [Next]_vars PROVE EpisodesInv'
    OBVIOUS
  <2>2. TypeOK' /\ CountInv'
    BY <2>1, NextTypeOK, NextCount DEF EpisodesInv
  <2>3. QED
    BY <2>1, <2>2, NextFlags, NextLines DEF EpisodesInv
<1>3. EpisodesInv => WarningsExact
  BY DEF EpisodesInv, WarningsExact, FlagsInv, LinesInv
<1>4. QED
  BY <1>1, <1>2, <1>3, PTL DEF Spec

-----------------------------------------------------------------------------
(* Shutdown.                                                                 *)

(* Whoever gets the mutex after shutdown emptied the queues puts nothing back,
   whatever was tested before. *)
THEOREM ShutdownIsQuiet == Spec => []QuietAfterShutdown
<1>1. Init => TypeOK /\ CountInv /\ QuietInv
  BY InitTypeOK, InitCount DEF Init, QuietInv, QuietAfterShutdown
<1>2. TypeOK /\ CountInv /\ QuietInv /\ [Next]_vars => (TypeOK /\ CountInv /\ QuietInv)'
  <2>1. SUFFICES ASSUME TypeOK, CountInv, QuietInv, [Next]_vars
                 PROVE  (TypeOK /\ CountInv /\ QuietInv)'
    OBVIOUS
  <2>2. QuietInv'
    <3>1. CASE cleared
      <4>1. ~accepting /\ events = <<>> /\ traces = <<>>
        BY <2>1, <3>1 DEF QuietInv, QuietAfterShutdown
      <4>2. ASSUME NEW t, PushLine(t) PROVE traces' = <<>>
        BY <4>1, <4>2 DEF PushLine, traceQueue
      <4>3. CASE Admission
        BY <4>1, <4>3 DEF Admission, AdmitEvent, RejectEvent, QueueException, Decline,
           Deliverable, traceQueue, QuietInv, QuietAfterShutdown
      <4>4. CASE GameWrites
        BY <4>1, <4>2, <4>4 DEF GameWrites, eventQueue, control, traceQueue, QuietInv,
           QuietAfterShutdown
      <4>5. CASE LoopWrites
        BY <4>1, <4>2, <4>5 DEF LoopWrites, eventQueue, control, traceQueue, QuietInv,
           QuietAfterShutdown
      <4>6. ASSUME NEW s \in Sessions, Deactivate(s) PROVE QuietInv'
        BY <2>1, <4>1, <4>6, EraseKeepsEvents DEF Deactivate, traceQueue, QuietInv,
           QuietAfterShutdown
      <4>7. CASE OnUpdate \/ TakeTraces
        BY <4>1, <4>7 DEF OnUpdate, TakeTraces, control, eventQueue, traceQueue, QuietInv,
           QuietAfterShutdown
      <4>8. CASE UNCHANGED <<accepting, cleared, events, traces>>
        BY <2>1, <4>8 DEF QuietInv, QuietAfterShutdown
      <4>9. CASE StopAccepting \/ ShutdownClears
        BY <3>1, <4>1, <4>9 DEF StopAccepting, ShutdownClears
      <4>10. QED
        BY <2>1, <4>3, <4>4, <4>5, <4>6, <4>7, <4>8, <4>9
           DEF Next, Produce, Update, Control, Execute, Examine, ConsumeEvent, FlushLine,
               EndPass, Tick, SessionStops, vars, control, eventQueue, traceQueue
    <3>2. CASE ~cleared
      <4>1. CASE ShutdownClears
        BY <4>1 DEF ShutdownClears, QuietInv, QuietAfterShutdown
      <4>2. CASE cleared' = cleared
        BY <3>2, <4>2 DEF QuietInv, QuietAfterShutdown
      <4>3. QED
        BY <2>1, <4>1, <4>2
           DEF Next, Produce, Update, Control, Execute, Examine, Admission, GameWrites,
               LoopWrites, OnUpdate, ConsumeEvent, TakeTraces, FlushLine, EndPass, Tick,
               Deactivate, SessionStops, StopAccepting, vars, control
    <3>3. QED
      BY <3>1, <3>2
  <2>3. QED
    BY <2>1, <2>2, NextTypeOK, NextCount
<1>3. QuietInv => QuietAfterShutdown
  BY DEF QuietInv
<1>4. QED
  BY <1>1, <1>2, <1>3, PTL DEF Spec
=============================================================================
