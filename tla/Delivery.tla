------------------------------ MODULE Delivery ------------------------------
(***************************************************************************)
(* What the outbox promises to the consumers of the Kafka topic: of each   *)
(* conversation every committed event arrives, no event arrives for the    *)
(* first time before the one that precedes it, and any event may arrive    *)
(* again ("exactly-once is not claimed").                                  *)
(*                                                                         *)
(* An event is known by its sequence in its conversation; that the         *)
(* sequences of a conversation are 1, 2, ... is LogDense of EventLog.      *)
(***************************************************************************)
EXTENDS Integers, Sequences

CONSTANTS Conversation, MaxEvents   \* MaxEvents: bound of the model per conversation

VARIABLES
  committed,  \* committed[c]: highest event sequence committed in PostgreSQL
  log         \* log[c]: the records of the topic with key c, in partition order

deliveryVars == <<committed, log>>

Delivered(c) == {log[c][i] : i \in DOMAIN log[c]}

DeliveryInit ==
  /\ committed = [c \in Conversation |-> 0]
  /\ log = [c \in Conversation |-> <<>>]

\* A command commits and with it its event (EventLog's AppendEvent).
Commit(c) ==
  /\ committed[c] < MaxEvents
  /\ committed' = [committed EXCEPT ![c] = @ + 1]
  /\ UNCHANGED log

\* The first arrival of event s, after that of every earlier one.
Deliver(c, s) ==
  /\ s \in 1..committed[c] /\ s \notin Delivered(c)
  /\ s = 1 \/ s - 1 \in Delivered(c)
  /\ log' = [log EXCEPT ![c] = Append(@, s)]
  /\ UNCHANGED committed

Redeliver(c, s) ==
  /\ s \in Delivered(c)
  /\ log' = [log EXCEPT ![c] = Append(@, s)]
  /\ UNCHANGED committed

DeliverSome(c) == \E s \in 1..MaxEvents : Deliver(c, s)

DeliveryNext ==
  \E c \in Conversation :
    Commit(c) \/ DeliverSome(c) \/ \E s \in 1..MaxEvents : Redeliver(c, s)

DeliverySafety == DeliveryInit /\ [][DeliveryNext]_deliveryVars

DeliverySpec == DeliverySafety /\ \A c \in Conversation : WF_deliveryVars(DeliverSome(c))
=============================================================================
