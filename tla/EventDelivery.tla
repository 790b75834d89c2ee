--------------------------- MODULE EventDelivery ---------------------------
(***************************************************************************)
(* What the transactional outbox promises, with neither relays, locks nor  *)
(* queues: an event is recorded with the business change it reports, it    *)
(* is announced on the bus after it was recorded, and it is settled (never *)
(* relayed again) after it was announced.  Announcing may be repeated;     *)
(* recording and settling happen once and are never undone.                *)
(***************************************************************************)
EXTENDS Naturals

CONSTANT Events

VARIABLES
  recorded,    \* events whose business transaction committed
  announced,   \* events that reached the bus at least once
  settled      \* events the relay will never touch again

vars == <<recorded, announced, settled>>

Init ==
  /\ recorded = {}
  /\ announced = {}
  /\ settled = {}

Record(e) ==
  /\ e \notin recorded
  /\ recorded' = recorded \cup {e}
  /\ UNCHANGED <<announced, settled>>

Announce(e) ==
  /\ e \in recorded \ settled
  /\ announced' = announced \cup {e}
  /\ UNCHANGED <<recorded, settled>>

Settle(e) ==
  /\ e \in announced \ settled
  /\ settled' = settled \cup {e}
  /\ UNCHANGED <<recorded, announced>>

Next == \E e \in Events : Record(e) \/ Announce(e) \/ Settle(e)

Spec == Init /\ [][Next]_vars
=============================================================================
