-------------------------- MODULE OrderedDelivery --------------------------
(***************************************************************************)
(* What the dispatch queue promises, with no buffers, flags or threads:    *)
(* one line of accepted events.  Events join at the end and are examined   *)
(* from the front; the only other way out is to be withdrawn, and only the *)
(* events of an owner that is no longer live may be.                       *)
(***************************************************************************)
EXTENDS Naturals, Sequences

CONSTANTS
  Owners,               \* the subscriptions that produce events
  MaxEvents             \* bound: the highest sequence number

VARIABLES
  waiting,              \* accepted events nobody has examined, oldest first
  last_examined,        \* the sequence number examined last, 0 at the start
  live                  \* owners that may produce and be called back

ovars == <<waiting, last_examined, live>>

OEvent == [owner : Owners, sequence : 1..MaxEvents]

OInit ==
  /\ waiting = <<>>
  /\ last_examined = 0
  /\ live = Owners

(* A live owner's event, younger than everything seen so far, joins the line. *)
Accept ==
  \E e \in OEvent :
    /\ e.owner \in live
    /\ e.sequence > last_examined
    /\ \A i \in DOMAIN waiting : e.sequence > waiting[i].sequence
    /\ waiting' = Append(waiting, e)
    /\ UNCHANGED <<last_examined, live>>

(* The oldest event is handed to the consumer: called back or skipped. *)
Examine ==
  /\ waiting # <<>>
  /\ last_examined' = Head(waiting).sequence
  /\ waiting' = Tail(waiting)
  /\ UNCHANGED live

(* Owners stop being live and never come back. *)
Retire ==
  /\ live' \subseteq live
  /\ UNCHANGED <<waiting, last_examined>>

(* Some events of retired owners leave the line; the others keep their order. *)
Withdraw ==
  \E n \in 0..Len(waiting) : \E kept \in [1..n -> 1..Len(waiting)] :
    /\ \A i, j \in 1..n : i < j => kept[i] < kept[j]
    /\ \A k \in 1..Len(waiting) :
         waiting[k].owner \in live => \E i \in 1..n : kept[i] = k
    /\ waiting' = [i \in 1..n |-> waiting[kept[i]]]
    /\ UNCHANGED <<last_examined, live>>

ONext == Accept \/ Examine \/ Retire \/ Withdraw

OSpec == OInit /\ [][ONext]_ovars
=============================================================================
