------------------------------ MODULE EventLog ------------------------------
(***************************************************************************)
(* The per-conversation event log.  Every command that changes an          *)
(* aggregate calls Append (here AppendEvent) inside its own transaction,   *)
(* while it holds the conversation row: one counter is incremented and two *)
(* rows are inserted, one that Replay reads and one that the outbox worker *)
(* publishes.                                                              *)
(*                                                                         *)
(* An envelope is a reference, never a body.  Of its payload the model     *)
(* keeps the resource it names (ref) and the version it carries, 0 for the *)
(* kinds whose payload has none.                                           *)
(***************************************************************************)
EXTENDS Integers

CONSTANTS
  None,       \* the reference of an event about the conversation itself
  MaxEvents   \* bound of the model: no command starts that would exceed it

VARIABLES
  event_sequence,       \* conversations.event_sequence
  conversation_events,  \* rows Replay reads
  outbox_events         \* rows the outbox worker publishes

logVars == <<event_sequence, conversation_events, outbox_events>>

Envelope(sequence, kind, ref, version) ==
  [sequence |-> sequence, kind |-> kind, ref |-> ref, version |-> version]

LogInit ==
  /\ event_sequence = 0
  /\ conversation_events = {}
  /\ outbox_events = {}

\* One call of Append.
AppendEvent(kind, ref, version) ==
  LET next == event_sequence + 1
      e    == Envelope(next, kind, ref, version)
  IN /\ next <= MaxEvents
     /\ event_sequence' = next
     /\ conversation_events' = conversation_events \cup {e}
     /\ outbox_events' = outbox_events \cup {e}

(* Plausible slips of AppendEvents; no specification uses them.             *)

\* The whole batch shares one increment of the counter.
AppendEventsShared(kind, S) ==
  LET next == event_sequence + 1
      new  == {Envelope(next, kind, r, 0) : r \in S}
  IN /\ next <= MaxEvents
     /\ event_sequence' = next
     /\ conversation_events' = conversation_events \cup new
     /\ outbox_events' = outbox_events \cup new

\* One event is appended for the whole batch.
AppendEventsOnce(kind, S) == \E r \in S : AppendEvent(kind, r, 0)

\* One call of Append for each reference in S, one after the other in some order:
\* order[r] is the position of r among the n calls.
AppendEvents(kind, S) ==
  \E n \in 1..MaxEvents : \E order \in [S -> 1..n] :
    LET new == {Envelope(event_sequence + order[r], kind, r, 0) : r \in S}
    IN /\ \A i \in 1..n : \E r \in S : order[r] = i
       /\ \A r, t \in S : order[r] = order[t] => r = t
       /\ event_sequence + n <= MaxEvents
       /\ event_sequence' = event_sequence + n
       /\ conversation_events' = conversation_events \cup new
       /\ outbox_events' = outbox_events \cup new

\* The log is dense: the events of a conversation carry the sequences
\* 1..event_sequence, each exactly once, and each has its outbox row.  Replay
\* answers "resync" at the first gap and the outbox publishes in this order.
LogDense ==
  /\ {e.sequence : e \in conversation_events} = 1..event_sequence
  /\ \A e, f \in conversation_events : e.sequence = f.sequence => e = f
  /\ outbox_events = conversation_events
=============================================================================
