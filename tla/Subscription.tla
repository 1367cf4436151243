---------------------------- MODULE Subscription ----------------------------
(***************************************************************************)
(* What a subscribed client may rely on: from the cursor it subscribed     *)
(* with, it receives the committed events of the conversation one by one,  *)
(* without a gap, a repetition or a reordering, until the subscription     *)
(* ends.  The client keeps cursor[c] and subscribes again from there.      *)
(***************************************************************************)
EXTENDS Integers

CONSTANTS Conversation, MaxEvents   \* MaxEvents: bound of the model per conversation

VARIABLES
  event_sequence,  \* event_sequence[c]: events committed in conversation c
  live,            \* conversations whose subscription the client holds for valid
  opened,          \* opened[c]: how often a subscription of c was confirmed
  cursor           \* cursor[c]: last event the client has of c

subscriptionVars == <<event_sequence, live, opened, cursor>>

SubscriptionInit ==
  /\ event_sequence = [c \in Conversation |-> 0]
  /\ live = {}
  /\ opened = [c \in Conversation |-> 0]
  /\ cursor = [c \in Conversation |-> 0]

\* A command commits and with it its event.
Commit(c) ==
  /\ event_sequence[c] < MaxEvents
  /\ event_sequence' = [event_sequence EXCEPT ![c] = @ + 1]
  /\ UNCHANGED <<live, opened, cursor>>

\* The server confirms a subscription from the cursor the client asked for.
Open(c, after) ==
  /\ after \in 0..event_sequence[c]
  /\ live' = live \cup {c}
  /\ opened' = [opened EXCEPT ![c] = @ + 1]
  /\ cursor' = [cursor EXCEPT ![c] = after]
  /\ UNCHANGED event_sequence

Next(c) ==
  /\ c \in live
  /\ cursor[c] < event_sequence[c]
  /\ cursor' = [cursor EXCEPT ![c] = @ + 1]
  /\ UNCHANGED <<event_sequence, live, opened>>

Close(c) ==
  /\ live' = live \ {c}
  /\ UNCHANGED <<event_sequence, opened, cursor>>

SubscriptionNext ==
  \E c \in Conversation :
    Commit(c) \/ Next(c) \/ Close(c) \/ \E after \in 0..MaxEvents : Open(c, after)

SubscriptionSafety == SubscriptionInit /\ [][SubscriptionNext]_subscriptionVars
=============================================================================
