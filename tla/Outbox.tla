------------------------------- MODULE Outbox -------------------------------
(***************************************************************************)
(* The outbox workers: several worker processes publish the committed      *)
(* events of each conversation to Kafka, the earliest pending one first.   *)
(* One transaction of PostgreSQL spans the publication, so that a crash, a *)
(* lost session, a timeout or a lost acknowledgement can come between any  *)
(* two of its steps; all of these are counted by faults.                   *)
(***************************************************************************)
EXTENDS Delivery, FiniteSets

CONSTANTS
  Worker,
  None,
  Limit,      \* candidates of one Batch (32 in the code)
  MaxFaults   \* bound of the model on the faults of a behaviour

ASSUME OutboxAssumption ==
  /\ None \notin Worker
  /\ Limit \in Nat \ {0}
  /\ MaxEvents \in Nat
  /\ MaxFaults \in Nat

VARIABLES
  published,   \* published[c]: sequences with published_at set
  waiting,     \* conversations whose head has next_attempt_at in the future
  lock,        \* lock[c]: the worker whose session holds the advisory lock, or None
  candidates,  \* candidates[w]: conversations of the current Batch still to do
  step,        \* where w is in One
  work,        \* the conversation and event sequence w is publishing
  inflight,    \* produce requests on their way: <<w, c, s>>
  faults

workerVars == <<candidates, step, work>>
outboxVars == <<deliveryVars, published, waiting, lock, workerVars, inflight, faults>>

OutboxInit ==
  /\ DeliveryInit
  /\ published = [c \in Conversation |-> {}]
  /\ waiting = {}
  /\ lock = [c \in Conversation |-> None]
  /\ candidates = [w \in Worker |-> {}]
  /\ step = [w \in Worker |-> "idle"]
  /\ work = [w \in Worker |-> [conversation |-> None, sequence |-> 0]]
  /\ inflight = {}
  /\ faults = 0

Pending(c) == (1..committed[c]) \ published[c]
Ready(c) == Pending(c) # {} /\ c \notin waiting

\* The earliest pending event of c; the mutant takes any of them.
EarliestMutant(c, s) == s \in Pending(c)
Earliest(c, s) == s \in Pending(c) /\ \A t \in Pending(c) : s <= t

Fault == faults < MaxFaults /\ faults' = faults + 1

Holds(w) == lock[work[w].conversation] = w

\* The advisory lock belongs to the transaction; the mutant keeps it for the session.
ReleaseMutant(w) == UNCHANGED lock
Release(w) == lock' = [c \in Conversation |-> IF lock[c] = w THEN None ELSE lock[c]]

-----------------------------------------------------------------------------
(* Batch and One                                                           *)

\* Batch reads the ready heads once; nothing is locked yet.
Select(w) ==
  /\ step[w] = "idle" /\ candidates[w] = {}
  /\ \E S \in SUBSET {c \in Conversation : Ready(c)} :
       /\ S # {} /\ Cardinality(S) <= Limit
       /\ Cardinality(S) = Limit \/ S = {c \in Conversation : Ready(c)}
       /\ candidates' = [candidates EXCEPT ![w] = S]
  /\ UNCHANGED <<deliveryVars, published, waiting, lock, step, work, inflight, faults>>

\* One takes the advisory lock and reads the head again.
Claim(w, c) ==
  /\ step[w] = "idle" /\ c \in candidates[w]
  /\ lock[c] = None /\ Ready(c)
  /\ lock' = [lock EXCEPT ![c] = w]
  /\ candidates' = [candidates EXCEPT ![w] = @ \ {c}]
  /\ step' = [step EXCEPT ![w] = "claimed"]
  /\ \E s \in 1..MaxEvents :
       /\ Earliest(c, s)
       /\ work' = [work EXCEPT ![w] = [conversation |-> c, sequence |-> s]]
  /\ UNCHANGED <<deliveryVars, published, waiting, inflight, faults>>

\* Another worker holds the lock, or has published or postponed the head since.
Skip(w, c) ==
  /\ step[w] = "idle" /\ c \in candidates[w]
  /\ lock[c] # None \/ ~Ready(c)
  /\ candidates' = [candidates EXCEPT ![w] = @ \ {c}]
  /\ UNCHANGED <<deliveryVars, published, waiting, lock, step, work, inflight, faults>>

Request(w) == <<w, work[w].conversation, work[w].sequence>>

Publish(w) ==
  /\ step[w] = "claimed"
  /\ step' = [step EXCEPT ![w] = "sent"]
  /\ inflight' = inflight \cup {Request(w)}
  /\ UNCHANGED <<deliveryVars, published, waiting, lock, candidates, work, faults>>

Waits(w) == step[w] = "sent" /\ Request(w) \in inflight

\* Publish returns an error while the request may still arrive: its context ended.
Fail(w) ==
  /\ Waits(w)
  /\ Fault
  /\ step' = [step EXCEPT ![w] = "failed"]
  /\ UNCHANGED <<deliveryVars, published, waiting, lock, candidates, work, inflight>>

\* Publish returns an error because the request or its acknowledgement was lost.
TimeOut(w) ==
  /\ step[w] = "sent" /\ ~Waits(w)
  /\ step' = [step EXCEPT ![w] = "failed"]
  /\ UNCHANGED <<deliveryVars, published, waiting, lock, candidates, work, inflight, faults>>

\* The end of One: the acknowledged event is marked, or the head is postponed.  Both
\* commit only while the session still holds its lock; MarkMutant marks an event
\* whose publication failed as well.
MarkMutant(w) ==
  /\ step[w] \in {"acked", "failed"} /\ Holds(w)
  /\ published' = [published EXCEPT ![work[w].conversation] = @ \cup {work[w].sequence}]
  /\ step' = [step EXCEPT ![w] = "idle"]
  /\ Release(w)
  /\ UNCHANGED <<deliveryVars, waiting, candidates, work, inflight, faults>>

Mark(w) ==
  /\ step[w] = "acked" /\ Holds(w)
  /\ published' = [published EXCEPT ![work[w].conversation] = @ \cup {work[w].sequence}]
  /\ step' = [step EXCEPT ![w] = "idle"]
  /\ Release(w)
  /\ UNCHANGED <<deliveryVars, waiting, candidates, work, inflight, faults>>

Postpone(w) ==
  /\ step[w] = "failed" /\ Holds(w)
  /\ waiting' = waiting \cup {work[w].conversation}
  /\ step' = [step EXCEPT ![w] = "idle"]
  /\ Release(w)
  /\ UNCHANGED <<deliveryVars, published, candidates, work, inflight, faults>>

\* The transaction rolls back: a statement or the commit fails, or One's four seconds
\* are over.
Rollback(w) ==
  /\ step[w] # "idle" /\ Holds(w)
  /\ Fault
  /\ step' = [step EXCEPT ![w] = "idle"]
  /\ Release(w)
  /\ UNCHANGED <<deliveryVars, published, waiting, candidates, work, inflight>>

\* The first statement after the session was lost fails.
Abandon(w) ==
  /\ step[w] # "idle" /\ ~Holds(w)
  /\ step' = [step EXCEPT ![w] = "idle"]
  /\ UNCHANGED <<deliveryVars, published, waiting, lock, candidates, work, inflight, faults>>

-----------------------------------------------------------------------------
(* The environment: PostgreSQL, Kafka, processes and time                  *)

\* The database ends the session and frees its lock; the worker does not know yet
\* and may still publish.
LoseSession(w) ==
  /\ step[w] # "idle" /\ Holds(w)
  /\ Fault
  /\ Release(w)
  /\ UNCHANGED <<deliveryVars, published, waiting, workerVars, inflight>>

\* The process dies; the batch is forgotten, its requests may still arrive.
Crash(w) ==
  /\ step[w] # "idle" \/ candidates[w] # {}
  /\ Fault
  /\ step' = [step EXCEPT ![w] = "idle"]
  /\ candidates' = [candidates EXCEPT ![w] = {}]
  /\ Release(w)
  /\ UNCHANGED <<deliveryVars, published, waiting, work, inflight>>

\* The broker appends a request, whether or not its worker still waits for it.
Arrive(r) ==
  /\ r \in inflight
  /\ inflight' = inflight \ {r}
  /\ log' = [log EXCEPT ![r[2]] = Append(@, r[3])]
  /\ UNCHANGED <<committed, published, waiting, lock, candidates, work>>

Awaited(r) == step[r[1]] = "sent" /\ Request(r[1]) = r

Acknowledge(r) ==
  Arrive(r) /\ Awaited(r) /\ step' = [step EXCEPT ![r[1]] = "acked"] /\ UNCHANGED faults
LoseAck(r) == Arrive(r) /\ Awaited(r) /\ Fault /\ UNCHANGED step
ArriveLate(r) == Arrive(r) /\ ~Awaited(r) /\ UNCHANGED <<step, faults>>

Lose(r) ==
  /\ r \in inflight
  /\ Fault
  /\ inflight' = inflight \ {r}
  /\ UNCHANGED <<deliveryVars, published, waiting, lock, workerVars>>

\* next_attempt_at passes (at most 60 seconds after a failure).
Retry(c) ==
  /\ c \in waiting
  /\ waiting' = waiting \ {c}
  /\ UNCHANGED <<deliveryVars, published, lock, workerVars, inflight, faults>>

CommitEvent(c) ==
  Commit(c) /\ UNCHANGED <<published, waiting, lock, workerVars, inflight, faults>>

-----------------------------------------------------------------------------
One(w) == \/ \E c \in Conversation : Claim(w, c) \/ Skip(w, c)
          \/ Publish(w) \/ TimeOut(w) \/ Mark(w) \/ Postpone(w) \/ Abandon(w)

OutboxNext ==
  \/ \E w \in Worker : Select(w) \/ One(w) \/ Fail(w) \/ Rollback(w) \/ LoseSession(w) \/ Crash(w)
  \/ \E r \in inflight : Acknowledge(r) \/ LoseAck(r) \/ ArriveLate(r) \/ Lose(r)
  \/ \E c \in Conversation : Retry(c) \/ CommitEvent(c)

\* Run never stops while the process lives (the orchestrator restarts it otherwise),
\* One is bounded by its contexts, a request on its way arrives, is lost or is given
\* up, and deadlines pass.  Nothing is assumed of which ready heads Select takes.
Fairness ==
  /\ \A w \in Worker : WF_outboxVars(Select(w)) /\ WF_outboxVars(One(w))
  /\ WF_outboxVars(\E r \in inflight : Acknowledge(r) \/ ArriveLate(r))
  /\ \A c \in Conversation : WF_outboxVars(Retry(c))

OutboxSpec == OutboxInit /\ [][OutboxNext]_outboxVars /\ Fairness

-----------------------------------------------------------------------------
(* Properties                                                              *)

\* An event is marked as published only after the broker has it, and the marked
\* events are the first ones: a failed head is never passed, whichever worker
\* published it, crashed on it or lost its session over it.
PublishedFirst ==
  \A c \in Conversation :
    /\ published[c] \subseteq Delivered(c)
    /\ \E n \in 0..committed[c] : published[c] = 1..n

\* The topic is what Delivery promises: events arrive for the first time in order.
Contract == INSTANCE Delivery WITH Conversation <- Conversation, MaxEvents <- MaxEvents,
                                   committed <- committed, log <- log
InOrder == Contract!DeliverySafety

\* "Outbox event eventually publishes": once the faults stop, every committed event
\* is delivered and marked, however many workers died on the way.
EventuallyPublished ==
  \A c \in Conversation : \A s \in 1..MaxEvents :
    s <= committed[c] ~> s \in published[c]
=============================================================================
