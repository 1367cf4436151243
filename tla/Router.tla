------------------------------- MODULE Router -------------------------------
(***************************************************************************)
(* The routers of the worker processes: they consume the topic (here what  *)
(* Delivery promises of it), and turn each event into one Redis hint that  *)
(* wakes the API instances.  Kafka assigns a partition, here one           *)
(* conversation, to one member of the consumer group at a time.  A router  *)
(* the group evicted keeps the record in hand: its client joins the group  *)
(* again only at AllowRebalance, after the record, which it cannot commit. *)
(*                                                                         *)
(* Redis, the commit in PostgreSQL, the offset commit and the process can  *)
(* fail at any step; these faults, rebalances and redeliveries are counted *)
(* by faults.                                                              *)
(***************************************************************************)
EXTENDS Delivery

CONSTANTS
  Worker,     \* worker processes, each with one router
  None,
  MaxFaults   \* bound of the model on the faults of a behaviour

VARIABLES
  offset,   \* offset[c]: records of partition c committed by the consumer group
  owner,    \* owner[c]: the router Kafka assigns partition c to
  members,  \* the routers that are in the consumer group
  phase,    \* where each router is in Run and Handle
  hand,     \* the partition and position of the record a router is handling
  inbox,    \* consumer_inbox: <<conversation, sequence>>
  hints,    \* hints[c][s]: hints sent for event s of c
  faults

routerVars == <<offset, owner, members, phase, hand, inbox, hints>>
allVars == <<deliveryVars, routerVars, faults>>

RouterInit ==
  /\ DeliveryInit
  /\ offset = [c \in Conversation |-> 0]
  /\ owner \in [Conversation -> Worker]
  /\ members = Worker
  /\ phase = [r \in Worker |-> "idle"]
  /\ hand = [r \in Worker |-> [conversation |-> None, position |-> 0]]
  /\ inbox = {}
  /\ hints = [c \in Conversation |-> [s \in 1..MaxEvents |-> 0]]
  /\ faults = 0

Fault == faults < MaxFaults /\ faults' = faults + 1

\* The event a router has in hand.
Event(r) == <<hand[r].conversation, log[hand[r].conversation][hand[r].position]>>

\* Handle holds the advisory lock of its event from the inbox check to the commit.
Locked(r) == phase[r] \in {"unseen", "hinted"}
FreeMutant(r) == TRUE
Free(r) == \A q \in Worker \ {r} : Locked(q) => Event(q) # Event(r)

Goto(r, p) == phase' = [phase EXCEPT ![r] = p]

-----------------------------------------------------------------------------
\* PollRecords hands out the record after the committed offset.
Poll(r, c) ==
  /\ phase[r] = "idle" /\ owner[c] = r
  /\ offset[c] < Len(log[c])
  /\ hand' = [hand EXCEPT ![r] = [conversation |-> c, position |-> offset[c] + 1]]
  /\ Goto(r, "polled")
  /\ UNCHANGED <<deliveryVars, offset, owner, members, inbox, hints, faults>>

\* Handle looks the event up in the inbox; the reference itself is always valid,
\* because the event was committed before it was published.
Check(r) ==
  /\ phase[r] = "polled" /\ Free(r)
  /\ Goto(r, IF Event(r) \in inbox THEN "done" ELSE "unseen")
  /\ UNCHANGED <<deliveryVars, offset, owner, members, hand, inbox, hints, faults>>

SendHint(r) ==
  /\ phase[r] = "unseen"
  /\ hints' = [hints EXCEPT ![Event(r)[1]][Event(r)[2]] = @ + 1]
  /\ Goto(r, "hinted")
  /\ UNCHANGED <<deliveryVars, offset, owner, members, hand, inbox, faults>>

\* The inbox row commits.  The mutant inserts it before the hint is sent.
RecordMutant(r) ==
  /\ phase[r] \in {"unseen", "hinted"}
  /\ inbox' = inbox \cup {Event(r)}
  /\ Goto(r, "done")
  /\ UNCHANGED <<deliveryVars, offset, owner, members, hand, hints, faults>>

Record(r) ==
  /\ phase[r] = "hinted"
  /\ inbox' = inbox \cup {Event(r)}
  /\ Goto(r, "done")
  /\ UNCHANGED <<deliveryVars, offset, owner, members, hand, hints, faults>>

\* CommitRecords succeeds only for the owner of the partition.
CommitOffset(r) ==
  /\ phase[r] = "done" /\ owner[hand[r].conversation] = r
  /\ offset' = [offset EXCEPT ![hand[r].conversation] = hand[r].position]
  /\ Goto(r, "idle")
  /\ UNCHANGED <<deliveryVars, owner, members, hand, inbox, hints, faults>>

\* Publish to Redis, the transaction or the offset commit fails: Run handles the same
\* record again, and never one beyond it; the mutant goes on with the next record.
AgainMutant(r) ==
  /\ phase[r] \in {"unseen", "hinted", "done"} /\ owner[hand[r].conversation] = r
  /\ Fault
  /\ offset' = [offset EXCEPT ![hand[r].conversation] = hand[r].position]
  /\ Goto(r, "idle")
  /\ UNCHANGED <<deliveryVars, owner, members, hand, inbox, hints>>

Again(r) ==
  /\ phase[r] \in {"unseen", "hinted", "done"}
  /\ Fault
  /\ Goto(r, "polled")
  /\ UNCHANGED <<deliveryVars, offset, owner, members, hand, inbox, hints>>

\* A router that was evicted cannot commit and handles the same record for ever.
Refused(r) ==
  /\ phase[r] = "done" /\ owner[hand[r].conversation] # r
  /\ Goto(r, "polled")
  /\ UNCHANGED <<deliveryVars, offset, owner, members, hand, inbox, hints, faults>>

\* The partitions of r go to other members of the group.
Reassign(r) ==
  /\ members' = members \ {r}
  /\ members' # {}
  /\ owner' \in [Conversation -> Worker]
  /\ \A c \in Conversation : IF owner[c] = r THEN owner'[c] \in members' ELSE owner'[c] = owner[c]

\* A rebalance outlasts the time the group waits for r, which still handles a record.
\* The group never loses its last member (see the README).
Evict(r) ==
  /\ r \in members /\ phase[r] # "idle"
  /\ Fault
  /\ Reassign(r)
  /\ UNCHANGED <<deliveryVars, offset, phase, hand, inbox, hints>>

\* The process dies or is stopped: its transaction rolls back and its lock is freed.
\* The last member comes back with its partitions.
Stop(r) ==
  /\ Fault
  /\ Reassign(r) \/ (members = {r} /\ UNCHANGED <<members, owner>>)
  /\ Goto(r, "idle")
  /\ UNCHANGED <<deliveryVars, offset, hand, inbox, hints>>

\* A router without a record in hand joins the group, with some of the partitions of
\* the members that have none in hand either.
Join(r) ==
  /\ r \notin members /\ phase[r] = "idle"
  /\ members' = members \cup {r}
  /\ \E S \in SUBSET {c \in Conversation : phase[owner[c]] = "idle"} :
       owner' = [c \in Conversation |-> IF c \in S THEN r ELSE owner[c]]
  /\ UNCHANGED <<deliveryVars, offset, phase, hand, inbox, hints, faults>>

Handle(r) == Check(r) \/ SendHint(r) \/ Record(r) \/ CommitOffset(r) \/ Refused(r)

Topic(c) ==
  \/ (Commit(c) \/ DeliverSome(c)) /\ UNCHANGED <<routerVars, faults>>
  \/ (\E s \in 1..MaxEvents : Redeliver(c, s)) /\ Fault /\ UNCHANGED routerVars

RouterNext ==
  \/ \E r \in Worker : (\E c \in Conversation : Poll(r, c)) \/ Handle(r) \/ Again(r)
                      \/ Evict(r) \/ Stop(r) \/ Join(r)
  \/ \E c \in Conversation : Topic(c)

\* Routers keep polling and handling; the topic delivers, as Outbox is shown to.
RouterFairness ==
  /\ \A r \in Worker : WF_allVars(Handle(r)) /\ WF_allVars(\E c \in Conversation : Poll(r, c))
  /\ \A c \in Conversation : WF_allVars(DeliverSome(c) /\ UNCHANGED <<routerVars, faults>>)

RouterSpec == RouterInit /\ [][RouterNext]_allVars /\ RouterFairness

-----------------------------------------------------------------------------
(* Properties                                                              *)

\* No hint is lost on the way to Redis: what the consumer group has passed is in the
\* inbox, and what is in the inbox was hinted, through crashes, rebalances and
\* failures of Redis, PostgreSQL or the offset commit.
NoHintSkipped ==
  /\ \A c \in Conversation : \A i \in 1..offset[c] : i \in DOMAIN log[c] /\ <<c, log[c][i]>> \in inbox
  /\ \A e \in inbox : hints[e[1]][e[2]] > 0

\* "Kafka consumer ignores duplicate event_id": once an event is in the inbox nobody
\* hints it again, not even an evicted router racing its successor on the same event.
DuplicatesIgnored ==
  [][\A e \in inbox : hints'[e[1]][e[2]] = hints[e[1]][e[2]]]_allVars

\* Every committed event is hinted once the faults stop, although an evicted router
\* never does anything useful again.
EventuallyHinted ==
  \A c \in Conversation : \A s \in 1..MaxEvents : s <= committed[c] ~> <<c, s>> \in inbox
=============================================================================
