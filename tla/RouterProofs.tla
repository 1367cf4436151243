---------------------------- MODULE RouterProofs ----------------------------
(***************************************************************************)
(* No hint is skipped and none is sent again for an event of the inbox,    *)
(* for any number of routers, conversations and events.  The argument: the *)
(* lock of an event lets one router at a time be between its look at the   *)
(* inbox and its own row there, so that what it saw stays true; and all    *)
(* that precedes the record in a router's hand is in the inbox, so that an *)
(* offset may be committed by whoever owns the partition by then.          *)
(***************************************************************************)
EXTENDS Router, TLAPS

Phases == {"idle", "polled", "unseen", "hinted", "done"}

RouterTypeOK ==
  /\ committed \in [Conversation -> Nat]
  /\ log \in [Conversation -> Seq(1..MaxEvents)]
  /\ offset \in [Conversation -> Nat]
  /\ owner \in [Conversation -> Worker]
  /\ members \subseteq Worker
  /\ phase \in [Worker -> Phases]
  /\ hand \in [Worker -> [conversation : Conversation \cup {None}, position : Nat]]
  /\ inbox \subseteq Conversation \X (1..MaxEvents)
  /\ hints \in [Conversation -> [1..MaxEvents -> Nat]]

\* The records of c before position i are in the inbox.
SeenBefore(c, i) == \A j \in 1..(i - 1) : <<c, log[c][j]>> \in inbox

\* A busy router has a record of the topic in hand, and all before it was recorded.
HandValid ==
  \A r \in Worker : phase[r] # "idle" =>
    /\ hand[r].conversation \in Conversation
    /\ hand[r].position \in DOMAIN log[hand[r].conversation]
    /\ SeenBefore(hand[r].conversation, hand[r].position)

\* What a router saw under the lock of its event is still true.
LockedUnseen == \A r \in Worker : Locked(r) => Event(r) \notin inbox

\* The lock of an event has one holder.
OneHolder == \A r, q \in Worker : r # q /\ Locked(r) /\ Locked(q) => Event(r) # Event(q)

HintedSent == \A r \in Worker : phase[r] = "hinted" => hints[Event(r)[1]][Event(r)[2]] > 0

DoneRecorded == \A r \in Worker : phase[r] = "done" => Event(r) \in inbox

RouterInv ==
  /\ RouterTypeOK
  /\ HandValid
  /\ LockedUnseen
  /\ OneHolder
  /\ HintedSent
  /\ DoneRecorded
  /\ NoHintSkipped

-----------------------------------------------------------------------------
(* The initial states and the types                                        *)

LEMMA InitialInv == RouterInit => RouterInv
<1> SUFFICES ASSUME RouterInit PROVE RouterInv
  OBVIOUS
<1>1. RouterTypeOK
  <2>1. hints \in [Conversation -> [1..MaxEvents -> Nat]]
    BY DEF RouterInit
  <2>2. hand \in [Worker -> [conversation : Conversation \cup {None}, position : Nat]]
    BY DEF RouterInit
  <2> QED  BY <2>1, <2>2 DEF RouterInit, DeliveryInit, RouterTypeOK, Phases
<1>2. \A r \in Worker : phase[r] = "idle"
  BY DEF RouterInit
<1>3. HandValid /\ LockedUnseen /\ OneHolder /\ HintedSent /\ DoneRecorded
  BY <1>2 DEF HandValid, LockedUnseen, OneHolder, HintedSent, DoneRecorded, Locked
<1>4. NoHintSkipped
  BY DEF RouterInit, NoHintSkipped
<1> QED  BY <1>1, <1>3, <1>4 DEF RouterInv

LEMMA ElementTyped ==
  ASSUME NEW S, NEW q \in Seq(S), NEW i \in DOMAIN q
  PROVE  q[i] \in S
OBVIOUS

\* One more in the count of t for d.
LEMMA CountTyped ==
  ASSUME NEW D, NEW S, NEW f \in [D -> [S -> Nat]], NEW d \in D, NEW t \in S,
         NEW g, g = [f EXCEPT ![d][t] = @ + 1]
  PROVE  /\ g \in [D -> [S -> Nat]]
         /\ g[d][t] = f[d][t] + 1
         /\ \A e \in D : \A u \in S : <<e, u>> # <<d, t>> => g[e][u] = f[e][u]
<1>1. f[d] \in [S -> Nat] /\ f[d][t] \in Nat
  OBVIOUS
<1>2. g[d] = [f[d] EXCEPT ![t] = @ + 1] /\ \A e \in D \ {d} : g[e] = f[e]
  OBVIOUS
<1>3. g[d] \in [S -> Nat]
  BY <1>1, <1>2
<1>4. g \in [D -> [S -> Nat]]
  BY <1>2, <1>3
<1>5. g[d][t] = f[d][t] + 1 /\ \A u \in S \ {t} : g[d][u] = f[d][u]
  BY <1>1, <1>2
<1> QED  BY <1>2, <1>4, <1>5

LEMMA EventTyped ==
  ASSUME RouterTypeOK, HandValid, NEW r \in Worker, phase[r] # "idle"
  PROVE  /\ Event(r) \in Conversation \X (1..MaxEvents)
         /\ Event(r)[1] \in Conversation /\ Event(r)[2] \in 1..MaxEvents
<1>1. /\ hand[r].conversation \in Conversation
      /\ hand[r].position \in DOMAIN log[hand[r].conversation]
  BY DEF HandValid
<1>2. log[hand[r].conversation] \in Seq(1..MaxEvents)
  BY <1>1 DEF RouterTypeOK
<1>3. log[hand[r].conversation][hand[r].position] \in 1..MaxEvents
  BY <1>1, <1>2, ElementTyped
<1> QED  BY <1>1, <1>3 DEF Event

\* A step of the topic appends a record, commits an event, or changes nothing of it.
LEMMA TopicAppends ==
  ASSUME RouterTypeOK, RouterNext
  PROVE  \/ UNCHANGED deliveryVars
         \/ \E c \in Conversation : Commit(c) /\ UNCHANGED routerVars
         \/ \E c \in Conversation : \E s \in 1..MaxEvents :
              /\ log' = [log EXCEPT ![c] = Append(@, s)]
              /\ UNCHANGED <<committed, routerVars>>
<1>1. ASSUME NEW c \in Conversation, Topic(c)
      PROVE  \/ Commit(c) /\ UNCHANGED routerVars
             \/ \E s \in 1..MaxEvents :
                  /\ log' = [log EXCEPT ![c] = Append(@, s)]
                  /\ UNCHANGED <<committed, routerVars>>
  BY <1>1 DEF Topic, DeliverSome, Deliver, Redeliver
<1>2. ASSUME NEW r \in Worker,
             \/ (\E c \in Conversation : Poll(r, c)) \/ Handle(r) \/ Again(r)
             \/ Evict(r) \/ Stop(r) \/ Join(r)
      PROVE  UNCHANGED deliveryVars
  BY <1>2 DEF Poll, Handle, Check, SendHint, Record, CommitOffset, Refused, Again, Evict, Stop, Join
<1> QED  BY <1>1, <1>2 DEF RouterNext

\* Records stay where they are.
LEMMA LogGrows ==
  ASSUME RouterTypeOK, RouterNext
  PROVE  /\ log' \in [Conversation -> Seq(1..MaxEvents)]
         /\ \A c \in Conversation : \A i \in DOMAIN log[c] :
              i \in DOMAIN log'[c] /\ log'[c][i] = log[c][i]
<1>1. log \in [Conversation -> Seq(1..MaxEvents)]
  BY DEF RouterTypeOK
<1>2. CASE log' = log
  BY <1>1, <1>2
<1>3. ASSUME NEW c \in Conversation, NEW s \in 1..MaxEvents, log' = [log EXCEPT ![c] = Append(@, s)]
      PROVE  /\ log' \in [Conversation -> Seq(1..MaxEvents)]
             /\ \A d \in Conversation : \A i \in DOMAIN log[d] :
                  i \in DOMAIN log'[d] /\ log'[d][i] = log[d][i]
  <2>1. log[c] \in Seq(1..MaxEvents) /\ log'[c] = Append(log[c], s)
    BY <1>1, <1>3
  <2>2. \A i \in DOMAIN log[c] : i \in DOMAIN log'[c] /\ log'[c][i] = log[c][i]
    BY <2>1
  <2>3. log' \in [Conversation -> Seq(1..MaxEvents)]
    BY <1>1, <1>3
  <2>4. \A d \in Conversation \ {c} : log'[d] = log[d]
    BY <1>1, <1>3
  <2> QED  BY <2>2, <2>3, <2>4
<1> QED  BY <1>2, <1>3, TopicAppends DEF Commit, deliveryVars

LEMMA PhaseTyped ==
  ASSUME RouterTypeOK, NEW r \in Worker, NEW p \in Phases, Goto(r, p)
  PROVE  phase' \in [Worker -> Phases]
BY DEF RouterTypeOK, Goto

LEMMA OwnerTyped ==
  ASSUME RouterTypeOK, NEW r \in Worker, Evict(r) \/ Stop(r) \/ Join(r)
  PROVE  owner' \in [Conversation -> Worker] /\ members' \subseteq Worker
<1>1. ASSUME Reassign(r) PROVE owner' \in [Conversation -> Worker] /\ members' \subseteq Worker
  BY <1>1 DEF Reassign, RouterTypeOK
<1>2. ASSUME Join(r) PROVE owner' \in [Conversation -> Worker] /\ members' \subseteq Worker
  BY <1>2 DEF Join, RouterTypeOK
<1> QED  BY <1>1, <1>2 DEF Evict, Stop, RouterTypeOK

LEMMA RouterTyped == RouterInv /\ RouterNext => RouterTypeOK'
<1> SUFFICES ASSUME RouterInv, RouterNext PROVE RouterTypeOK'
  OBVIOUS
<1>1. RouterTypeOK /\ HandValid
  BY DEF RouterInv
<1> DEFINE Hands == [Worker -> [conversation : Conversation \cup {None}, position : Nat]]
<1>2. log' \in [Conversation -> Seq(1..MaxEvents)]
  BY <1>1, LogGrows
<1>3. ASSUME NEW c \in Conversation, Topic(c) PROVE RouterTypeOK'
  <2>1. committed' \in [Conversation -> Nat]
    <3>1. committed' = committed \/ committed' = [committed EXCEPT ![c] = @ + 1]
      BY <1>3 DEF Topic, Commit, DeliverSome, Deliver, Redeliver
    <3>2. committed \in [Conversation -> Nat]
      BY <1>1 DEF RouterTypeOK
    <3> QED  BY <3>1, <3>2
  <2>2. UNCHANGED routerVars
    BY <1>3 DEF Topic
  <2> QED  BY <1>1, <1>2, <2>1, <2>2 DEF routerVars, RouterTypeOK
<1>4. ASSUME NEW r \in Worker, NEW c \in Conversation, Poll(r, c) PROVE RouterTypeOK'
  <2>1. phase' \in [Worker -> Phases]
    BY <1>1, <1>4, PhaseTyped DEF Poll, Phases
  <2>2. hand' \in Hands
    <3>1. [conversation |-> c, position |-> offset[c] + 1] \in
            [conversation : Conversation \cup {None}, position : Nat]
      BY <1>1 DEF RouterTypeOK
    <3> QED  BY <1>1, <1>4, <3>1 DEF Poll, RouterTypeOK
  <2> QED  BY <1>1, <1>4, <2>1, <2>2 DEF Poll, deliveryVars, RouterTypeOK
<1>5. ASSUME NEW r \in Worker, Check(r) PROVE RouterTypeOK'
  <2>1. phase' \in [Worker -> Phases]
    BY <1>1, <1>5, PhaseTyped DEF Check, Phases
  <2> QED  BY <1>1, <1>5, <2>1 DEF Check, deliveryVars, RouterTypeOK
<1>6. ASSUME NEW r \in Worker, SendHint(r) PROVE RouterTypeOK'
  <2>1. phase' \in [Worker -> Phases]
    BY <1>1, <1>6, PhaseTyped DEF SendHint, Phases
  <2>2. Event(r)[1] \in Conversation /\ Event(r)[2] \in 1..MaxEvents
    BY <1>1, <1>6, EventTyped DEF SendHint
  <2>3. hints' \in [Conversation -> [1..MaxEvents -> Nat]]
    <3> DEFINE d == Event(r)[1]
               t == Event(r)[2]
    <3>1. hints \in [Conversation -> [1..MaxEvents -> Nat]] /\ hints' = [hints EXCEPT ![d][t] = @ + 1]
      BY <1>1, <1>6 DEF SendHint, RouterTypeOK
    <3>2. d \in Conversation /\ t \in 1..MaxEvents
      BY <2>2
    <3> DEFINE S == 1..MaxEvents
               g == hints'
    <3>3. hints \in [Conversation -> [S -> Nat]] /\ d \in Conversation /\ t \in S
          /\ g = [hints EXCEPT ![d][t] = @ + 1]
      BY <3>1, <3>2
    <3> HIDE DEF d, t, S, g
    <3>4. g \in [Conversation -> [S -> Nat]]
      BY <3>3, CountTyped
    <3> QED  BY <3>4 DEF g, S
  <2> QED  BY <1>1, <1>6, <2>1, <2>3 DEF SendHint, deliveryVars, RouterTypeOK
<1>7. ASSUME NEW r \in Worker, Record(r) PROVE RouterTypeOK'
  <2>1. phase' \in [Worker -> Phases]
    BY <1>1, <1>7, PhaseTyped DEF Record, Phases
  <2>2. inbox' \subseteq Conversation \X (1..MaxEvents)
    BY <1>1, <1>7, EventTyped DEF Record, RouterTypeOK
  <2> QED  BY <1>1, <1>7, <2>1, <2>2 DEF Record, deliveryVars, RouterTypeOK
<1>8. ASSUME NEW r \in Worker, CommitOffset(r) PROVE RouterTypeOK'
  <2>1. phase' \in [Worker -> Phases]
    BY <1>1, <1>8, PhaseTyped DEF CommitOffset, Phases
  <2>2. offset' \in [Conversation -> Nat]
    BY <1>1, <1>8 DEF CommitOffset, RouterTypeOK
  <2> QED  BY <1>1, <1>8, <2>1, <2>2 DEF CommitOffset, deliveryVars, RouterTypeOK
<1>9. ASSUME NEW r \in Worker, Refused(r) \/ Again(r) PROVE RouterTypeOK'
  <2>1. phase' \in [Worker -> Phases]
    BY <1>1, <1>9, PhaseTyped DEF Refused, Again, Phases
  <2> QED  BY <1>1, <1>9, <2>1 DEF Refused, Again, deliveryVars, RouterTypeOK
<1>10. ASSUME NEW r \in Worker, Evict(r) \/ Stop(r) \/ Join(r) PROVE RouterTypeOK'
  <2>1. phase' \in [Worker -> Phases]
    BY <1>1, <1>10, PhaseTyped DEF Evict, Stop, Join, Phases, RouterTypeOK
  <2>2. owner' \in [Conversation -> Worker] /\ members' \subseteq Worker
    BY <1>1, <1>10, OwnerTyped
  <2> QED  BY <1>1, <1>10, <2>1, <2>2 DEF Evict, Stop, Join, deliveryVars, RouterTypeOK
<1> QED  BY <1>3, <1>4, <1>5, <1>6, <1>7, <1>8, <1>9, <1>10 DEF RouterNext, Handle

-----------------------------------------------------------------------------
(* What a step may change                                                  *)

\* Where a router is.
LEMMA PhaseSteps ==
  ASSUME RouterTypeOK, RouterNext, NEW r \in Worker
  PROVE  \/ phase'[r] = phase[r]
         \/ phase'[r] = "idle"
         \/ phase'[r] = "polled" /\ (phase[r] # "idle" \/ \E c \in Conversation : Poll(r, c))
         \/ Check(r) \/ SendHint(r) \/ Record(r)
<1>1. phase \in [Worker -> Phases]
  BY DEF RouterTypeOK
<1>2. ASSUME NEW q \in Worker, NEW c \in Conversation, Poll(q, c)
      PROVE  phase'[r] = phase[r] \/ (phase'[r] = "polled" /\ \E d \in Conversation : Poll(r, d))
  BY <1>1, <1>2 DEF Poll, Goto
<1>3. ASSUME NEW q \in Worker, Check(q) \/ SendHint(q) \/ Record(q)
      PROVE  phase'[r] = phase[r] \/ Check(r) \/ SendHint(r) \/ Record(r)
  <2>1. CASE q = r
    BY <1>3, <2>1
  <2>2. CASE q # r
    BY <1>1, <1>3, <2>2 DEF Check, SendHint, Record, Goto
  <2> QED  BY <2>1, <2>2
<1>4. ASSUME NEW q \in Worker, Refused(q) \/ Again(q)
      PROVE  phase'[r] = phase[r] \/ (phase'[r] = "polled" /\ phase[r] # "idle")
  BY <1>1, <1>4 DEF Refused, Again, Goto
<1>5. ASSUME NEW q \in Worker, CommitOffset(q) \/ Evict(q) \/ Stop(q) \/ Join(q)
      PROVE  phase'[r] = phase[r] \/ phase'[r] = "idle"
  BY <1>1, <1>5 DEF CommitOffset, Evict, Stop, Join, Goto
<1>6. ASSUME NEW c \in Conversation, Topic(c) PROVE phase'[r] = phase[r]
  BY <1>6 DEF Topic, routerVars
<1> QED  BY <1>2, <1>3, <1>4, <1>5, <1>6 DEF RouterNext, Handle

\* A router keeps the record it has in hand until it polls the next.
LEMMA HandSteps ==
  ASSUME RouterTypeOK, RouterNext, NEW r \in Worker
  PROVE  hand'[r] = hand[r] \/ \E c \in Conversation : Poll(r, c)
<1>1. ASSUME NEW q \in Worker, NEW c \in Conversation, Poll(q, c)
      PROVE  hand'[r] = hand[r] \/ \E d \in Conversation : Poll(r, d)
  BY <1>1 DEF Poll, RouterTypeOK
<1>2. ASSUME NEW q \in Worker, Handle(q) \/ Again(q) \/ Evict(q) \/ Stop(q) \/ Join(q)
      PROVE  hand' = hand
  BY <1>2 DEF Handle, Check, SendHint, Record, CommitOffset, Refused, Again, Evict, Stop, Join
<1>3. ASSUME NEW c \in Conversation, Topic(c) PROVE hand' = hand
  BY <1>3 DEF Topic, routerVars
<1> QED  BY <1>1, <1>2, <1>3 DEF RouterNext

LEMMA EventKept ==
  ASSUME RouterInv, RouterNext, NEW r \in Worker, phase[r] # "idle"
  PROVE  hand'[r] = hand[r] /\ Event(r)' = Event(r)
<1>1. RouterTypeOK
  BY DEF RouterInv
<1>2. hand'[r] = hand[r]
  BY <1>1, HandSteps DEF Poll
<1>3. /\ hand[r].conversation \in Conversation
      /\ hand[r].position \in DOMAIN log[hand[r].conversation]
  BY DEF RouterInv, HandValid
<1>4. log'[hand[r].conversation][hand[r].position] = log[hand[r].conversation][hand[r].position]
  BY <1>1, <1>3, LogGrows
<1> QED  BY <1>2, <1>4 DEF Event

\* The inbox grows by the event that its router recorded, and by nothing else.
LEMMA InboxSteps ==
  ASSUME RouterNext
  PROVE  inbox' = inbox \/ \E r \in Worker : Record(r)
BY DEF RouterNext, Poll, Handle, Check, SendHint, CommitOffset, Refused, Again, Evict, Stop, Join,
       Topic, routerVars

LEMMA InboxGrows == RouterNext => inbox \subseteq inbox'
BY InboxSteps DEF Record

\* Hints are sent, never taken back, and only by a router that saw its event unseen.
LEMMA HintSteps ==
  ASSUME RouterNext
  PROVE  hints' = hints \/ \E r \in Worker : SendHint(r)
BY DEF RouterNext, Poll, Handle, Check, Record, CommitOffset, Refused, Again, Evict, Stop, Join,
       Topic, routerVars

LEMMA HintsGrow ==
  ASSUME RouterInv, RouterNext, NEW c \in Conversation, NEW s \in 1..MaxEvents
  PROVE  hints'[c][s] \in Nat /\ hints[c][s] \in Nat /\ hints[c][s] <= hints'[c][s]
<1>1. hints \in [Conversation -> [1..MaxEvents -> Nat]] /\ RouterTypeOK /\ HandValid
  BY DEF RouterInv, RouterTypeOK
<1>2. hints[c][s] \in Nat
  BY <1>1
<1>3. CASE hints' = hints
  BY <1>2, <1>3
<1>4. ASSUME NEW r \in Worker, SendHint(r)
      PROVE  hints'[c][s] \in Nat /\ hints[c][s] \in Nat /\ hints[c][s] <= hints'[c][s]
  <2> DEFINE d == Event(r)[1]
             t == Event(r)[2]
  <2>1. d \in Conversation /\ t \in 1..MaxEvents
    BY <1>1, <1>4, EventTyped DEF SendHint
  <2>2. hints' = [hints EXCEPT ![d][t] = @ + 1]
    BY <1>4 DEF SendHint
  <2> HIDE DEF d, t
  <2>3. /\ hints'[d][t] = hints[d][t] + 1
        /\ \A e \in Conversation : \A u \in 1..MaxEvents :
             <<e, u>> # <<d, t>> => hints'[e][u] = hints[e][u]
    BY <1>1, <2>1, <2>2, CountTyped
  <2>4. hints'[c][s] = hints[c][s] \/ hints'[c][s] = hints[c][s] + 1
    BY <2>3
  <2> QED  BY <1>2, <2>4
<1> QED  BY <1>3, <1>4, HintSteps


-----------------------------------------------------------------------------
(* The inductive invariant                                                 *)

LEMMA SeenBeforeStays ==
  ASSUME RouterInv, RouterNext, NEW c \in Conversation, NEW i,
         1..(i - 1) \subseteq DOMAIN log[c], SeenBefore(c, i)
  PROVE  SeenBefore(c, i)'
<1>1. \A j \in 1..(i - 1) : <<c, log[c][j]>> \in inbox /\ log'[c][j] = log[c][j]
  BY LogGrows DEF SeenBefore, RouterInv
<1> QED  BY <1>1, InboxGrows DEF SeenBefore

LEMMA HandStaysValid ==
  ASSUME RouterInv, RouterNext
  PROVE  HandValid'
<1> SUFFICES ASSUME NEW r \in Worker, phase'[r] # "idle"
             PROVE  /\ hand'[r].conversation \in Conversation
                    /\ hand'[r].position \in DOMAIN log'[hand'[r].conversation]
                    /\ SeenBefore(hand[r].conversation, hand[r].position)'
  BY DEF HandValid
<1>1. RouterTypeOK /\ log \in [Conversation -> Seq(1..MaxEvents)]
  BY DEF RouterInv, RouterTypeOK
\* It is enough that the record was valid before the step.
<1>2. ASSUME NEW c \in Conversation, NEW i \in Nat, hand'[r] = [conversation |-> c, position |-> i],
             i \in DOMAIN log[c], SeenBefore(c, i)
      PROVE  /\ hand'[r].conversation \in Conversation
             /\ hand'[r].position \in DOMAIN log'[hand'[r].conversation]
             /\ SeenBefore(hand[r].conversation, hand[r].position)'
  <2>1. i \in DOMAIN log'[c]
    BY <1>1, <1>2, LogGrows
  <2>2. 1..(i - 1) \subseteq DOMAIN log[c]
    BY <1>1, <1>2
  <2>3. SeenBefore(c, i)'
    BY <1>2, <2>2, SeenBeforeStays
  <2>4. hand'[r].conversation = c /\ hand'[r].position = i
    BY <1>2
  <2> QED  BY <2>1, <2>3, <2>4 DEF SeenBefore
<1>3. CASE phase[r] # "idle"
  <2>1. hand'[r] = hand[r]
    BY <1>3, EventKept
  <2>2. PICK c \in Conversation, i \in Nat : hand[r] = [conversation |-> c, position |-> i]
    <3>1. hand[r] \in [conversation : Conversation \cup {None}, position : Nat]
      BY <1>1 DEF RouterTypeOK
    <3>2. hand[r].conversation \in Conversation
      BY <1>3 DEF RouterInv, HandValid
    <3> QED  BY <3>1, <3>2
  <2>3. hand[r].conversation = c /\ hand[r].position = i
    BY <2>2
  <2>4. i \in DOMAIN log[c] /\ SeenBefore(c, i)
    BY <1>3, <2>3 DEF RouterInv, HandValid
  <2> QED  BY <1>2, <2>1, <2>2, <2>4
<1>4. ASSUME NEW c \in Conversation, Poll(r, c)
      PROVE  /\ hand'[r].conversation \in Conversation
             /\ hand'[r].position \in DOMAIN log'[hand'[r].conversation]
             /\ SeenBefore(hand[r].conversation, hand[r].position)'
  <2> DEFINE i == offset[c] + 1
  <2>1. offset[c] \in Nat /\ Len(log[c]) \in Nat /\ offset[c] < Len(log[c]) /\ DOMAIN log[c] = 1..Len(log[c])
    BY <1>1, <1>4 DEF Poll, RouterTypeOK
  <2>2. i \in Nat /\ i \in DOMAIN log[c] /\ i - 1 = offset[c]
    BY <2>1
  <2>3. hand'[r] = [conversation |-> c, position |-> i]
    BY <1>1, <1>4 DEF Poll, RouterTypeOK
  <2>4. SeenBefore(c, i)
    BY <2>2 DEF SeenBefore, RouterInv, NoHintSkipped
  <2> HIDE DEF i
  <2>5. PICK k \in Nat : k = i
    BY <2>2
  <2> QED  BY <1>2, <2>2, <2>3, <2>4, <2>5
<1>5. phase[r] # "idle" \/ \E c \in Conversation : Poll(r, c)
  BY <1>1, PhaseSteps DEF Check, SendHint, Record
<1> QED  BY <1>3, <1>4, <1>5

\* A router holds the lock of its event after a step if it held it before, or has just
\* looked it up while nobody held it.
LEMMA LockedSteps ==
  ASSUME RouterInv, RouterNext, NEW r \in Worker, Locked(r)'
  PROVE  /\ phase[r] # "idle"
         /\ Locked(r) \/ (Check(r) /\ Event(r) \notin inbox)
<1>1. RouterTypeOK
  BY DEF RouterInv
<1>2. phase'[r] \in {"unseen", "hinted"}
  BY DEF Locked
<1>3. ASSUME Check(r) PROVE Event(r) \notin inbox
  <2>1. phase'[r] = IF Event(r) \in inbox THEN "done" ELSE "unseen"
    BY <1>1, <1>3 DEF Check, Goto, RouterTypeOK
  <2> QED  BY <1>2, <2>1
<1>4. ASSUME SendHint(r) \/ Record(r) PROVE Locked(r)
  BY <1>4 DEF SendHint, Record, Locked
<1> QED  BY <1>1, <1>2, <1>3, <1>4, PhaseSteps DEF Locked, Check

LEMMA LockedStaysUnseen ==
  ASSUME RouterInv, RouterNext
  PROVE  LockedUnseen'
<1> SUFFICES ASSUME NEW r \in Worker, Locked(r)'
             PROVE  Event(r)' \notin inbox'
  BY DEF LockedUnseen
<1>1. phase[r] # "idle" /\ Event(r)' = Event(r)
  BY LockedSteps, EventKept
<1>2. Event(r) \notin inbox
  BY LockedSteps DEF RouterInv, LockedUnseen
<1>3. ASSUME NEW q \in Worker, Record(q)
      PROVE  Event(r) \notin inbox'
  <2>1. phase'[q] = "done" /\ inbox' = inbox \cup {Event(q)} /\ Locked(q)
    BY <1>3 DEF Record, Goto, Locked, RouterInv, RouterTypeOK
  <2>2. q # r
    BY <2>1 DEF Locked
  <2>3. Locked(r)
    <3>1. phase'[r] = phase[r]
      BY <1>3, <2>2 DEF Record, Goto, RouterInv, RouterTypeOK
    <3> QED  BY <3>1 DEF Locked
  <2>4. Event(r) # Event(q)
    BY <2>1, <2>2, <2>3 DEF RouterInv, OneHolder
  <2> QED  BY <1>2, <2>1, <2>4
<1> QED  BY <1>1, <1>2, <1>3, InboxSteps

LEMMA OneStaysHolder ==
  ASSUME RouterInv, RouterNext
  PROVE  OneHolder'
<1> SUFFICES ASSUME NEW r \in Worker, NEW q \in Worker, r # q, Locked(r)', Locked(q)'
             PROVE  Event(r)' # Event(q)'
  BY DEF OneHolder
<1>1. Event(r)' = Event(r) /\ Event(q)' = Event(q)
  BY LockedSteps, EventKept
<1>2. (Locked(r) \/ Check(r)) /\ (Locked(q) \/ Check(q))
  BY LockedSteps
<1>3. ~ (Check(r) /\ Check(q))
  BY DEF Check, Goto, RouterInv, RouterTypeOK
<1>4. ASSUME Locked(r), Locked(q) PROVE Event(r) # Event(q)
  BY <1>4 DEF RouterInv, OneHolder
<1>5. ASSUME Check(r), Locked(q) PROVE Event(r) # Event(q)
  BY <1>5 DEF Check, Free
<1>6. ASSUME Locked(r), Check(q) PROVE Event(r) # Event(q)
  BY <1>6 DEF Check, Free
<1> QED  BY <1>1, <1>2, <1>3, <1>4, <1>5, <1>6

LEMMA HintedStaysSent ==
  ASSUME RouterInv, RouterNext
  PROVE  HintedSent'
<1> SUFFICES ASSUME NEW r \in Worker, phase'[r] = "hinted"
             PROVE  (hints[Event(r)[1]][Event(r)[2]] > 0)'
  BY DEF HintedSent
<1>1. RouterTypeOK /\ HandValid
  BY DEF RouterInv
<1>2. phase[r] = "hinted" \/ SendHint(r)
  BY <1>1, PhaseSteps DEF Check, Record, Goto, RouterTypeOK
<1> DEFINE d == Event(r)[1]
           t == Event(r)[2]
<1>3. phase[r] # "idle"
  BY <1>2 DEF SendHint
<1>4. d \in Conversation /\ t \in 1..MaxEvents /\ Event(r)' = Event(r)
  BY <1>1, <1>3, EventTyped, EventKept
<1>5. PICK e \in Conversation, u \in 1..MaxEvents : e = d /\ u = t
  BY <1>4
<1>6. hints'[e][u] \in Nat /\ hints[e][u] \in Nat /\ hints[e][u] <= hints'[e][u]
  BY HintsGrow
<1>7. CASE phase[r] = "hinted"
  <2>1. hints[e][u] > 0
    BY <1>5, <1>7 DEF RouterInv, HintedSent
  <2>2. hints'[e][u] > 0
    BY <1>6, <2>1
  <2> QED  BY <1>4, <1>5, <2>2
<1>8. CASE SendHint(r)
  <2>1. hints' = [hints EXCEPT ![e][u] = @ + 1]
    BY <1>5, <1>8 DEF SendHint
  <2>2. hints'[e][u] = hints[e][u] + 1
    BY <1>1, <2>1, CountTyped DEF RouterTypeOK
  <2>3. hints'[e][u] > 0
    BY <1>6, <2>2
  <2> QED  BY <1>4, <1>5, <2>3
<1> QED  BY <1>2, <1>7, <1>8

LEMMA DoneStaysRecorded ==
  ASSUME RouterInv, RouterNext
  PROVE  DoneRecorded'
<1> SUFFICES ASSUME NEW r \in Worker, phase'[r] = "done"
             PROVE  Event(r)' \in inbox'
  BY DEF DoneRecorded
<1>1. RouterTypeOK
  BY DEF RouterInv
<1>2. phase[r] = "done" \/ Check(r) \/ Record(r)
  BY <1>1, PhaseSteps DEF SendHint, Goto, RouterTypeOK
<1>3. Event(r)' = Event(r)
  BY <1>2, EventKept DEF Check, Record
<1>4. CASE phase[r] = "done"
  BY <1>3, <1>4, InboxGrows DEF RouterInv, DoneRecorded
<1>5. CASE Check(r)
  <2>1. phase'[r] = IF Event(r) \in inbox THEN "done" ELSE "unseen"
    BY <1>1, <1>5 DEF Check, Goto, RouterTypeOK
  <2> QED  BY <1>3, <2>1, InboxGrows
<1>6. CASE Record(r)
  BY <1>3, <1>6 DEF Record
<1> QED  BY <1>2, <1>4, <1>5, <1>6

LEMMA NoHintStaysSkipped ==
  ASSUME RouterInv, RouterNext
  PROVE  NoHintSkipped'
<1>1. RouterTypeOK /\ HandValid
  BY DEF RouterInv
<1>2. ASSUME NEW c \in Conversation, NEW i \in 1..offset'[c]
      PROVE  i \in DOMAIN log'[c] /\ <<c, log'[c][i]>> \in inbox'
  <2>1. i \in DOMAIN log[c] /\ <<c, log[c][i]>> \in inbox
    <3>1. CASE offset'[c] = offset[c]
      BY <3>1 DEF RouterInv, NoHintSkipped
    <3>2. ASSUME NEW r \in Worker, CommitOffset(r), offset'[c] # offset[c]
          PROVE  i \in DOMAIN log[c] /\ <<c, log[c][i]>> \in inbox
      <4> DEFINE p == hand[r].position
      <4>1. hand[r].conversation = c /\ offset'[c] = p
        BY <1>1, <3>2 DEF CommitOffset, RouterTypeOK
      <4>2. p \in DOMAIN log[c] /\ SeenBefore(c, p) /\ Event(r) = <<c, log[c][p]>>
        BY <3>2, <4>1 DEF CommitOffset, RouterInv, HandValid, Event
      <4>3. <<c, log[c][p]>> \in inbox
        BY <3>2, <4>2 DEF CommitOffset, RouterInv, DoneRecorded
      <4>4. log[c] \in Seq(1..MaxEvents)
        BY <1>1 DEF RouterTypeOK
      <4> HIDE DEF p
      <4>5. p \in Nat /\ i \in 1..p /\ i \in DOMAIN log[c]
        BY <4>1, <4>2, <4>4
      <4>6. i = p \/ i \in 1..(p - 1)
        BY <4>5
      <4> QED  BY <4>2, <4>3, <4>5, <4>6 DEF SeenBefore
    <3>3. offset' = offset \/ \E r \in Worker : CommitOffset(r)
      BY DEF RouterNext, Poll, Handle, Check, SendHint, Record, Refused, Again, Evict, Stop, Join,
             Topic, routerVars
    <3> QED  BY <3>1, <3>2, <3>3
  <2>2. i \in DOMAIN log'[c] /\ log'[c][i] = log[c][i]
    BY <1>1, <2>1, LogGrows
  <2> QED  BY <2>1, <2>2, InboxGrows
<1>3. ASSUME NEW e \in inbox'
      PROVE  hints'[e[1]][e[2]] > 0
  <2>1. e \in inbox \/ \E r \in Worker : Record(r) /\ e = Event(r)
    BY <1>3, InboxSteps DEF Record
  <2>2. /\ e \in Conversation \X (1..MaxEvents)
        /\ hints[e[1]][e[2]] > 0
    <3>1. CASE e \in inbox
      BY <3>1 DEF RouterInv, RouterTypeOK, NoHintSkipped
    <3>2. ASSUME NEW r \in Worker, Record(r), e = Event(r)
          PROVE  /\ e \in Conversation \X (1..MaxEvents)
                 /\ hints[e[1]][e[2]] > 0
      BY <1>1, <3>2, EventTyped DEF Record, RouterInv, HintedSent
    <3> QED  BY <2>1, <3>1, <3>2
  <2>3. PICK c \in Conversation, s \in 1..MaxEvents : e = <<c, s>>
    BY <2>2
  <2>4. hints'[c][s] \in Nat /\ hints[c][s] \in Nat /\ hints[c][s] <= hints'[c][s]
    BY HintsGrow
  <2>5. hints[c][s] > 0
    BY <2>2, <2>3
  <2>6. hints'[c][s] > 0
    BY <2>4, <2>5
  <2> QED  BY <2>3, <2>6
<1> QED  BY <1>2, <1>3 DEF NoHintSkipped

LEMMA InvKept == RouterInv /\ [RouterNext]_allVars => RouterInv'
<1>1. ASSUME RouterInv, RouterNext PROVE RouterInv'
  BY <1>1, RouterTyped, HandStaysValid, LockedStaysUnseen, OneStaysHolder, HintedStaysSent,
     DoneStaysRecorded, NoHintStaysSkipped DEF RouterInv
<1>2. ASSUME RouterInv, UNCHANGED allVars PROVE RouterInv'
  BY <1>2 DEF allVars, deliveryVars, routerVars, RouterInv, RouterTypeOK, HandValid, SeenBefore,
              LockedUnseen, OneHolder, HintedSent, DoneRecorded, NoHintSkipped, Locked, Event
<1> QED  BY <1>1, <1>2

-----------------------------------------------------------------------------
(* The theorems                                                            *)

\* The inductive invariant of the routers: types, valid records in hand, one holder of
\* the lock of an event, and what each phase of Handle may rely on.
THEOREM RouterInvariant == RouterSpec => []RouterInv
BY InitialInv, InvKept, PTL DEF RouterSpec

\* What the consumer group has passed is in the inbox, and what is in the inbox was sent
\* to Redis, through every crash, rebalance and failure (Handle records the event after
\* Redis has taken the hint, Run commits the offset after Handle).
THEOREM NoHintEverSkipped == RouterSpec => []NoHintSkipped
<1>1. RouterInv => NoHintSkipped
  BY DEF RouterInv
<1> QED  BY <1>1, RouterInvariant, PTL

LEMMA IgnoringStep ==
  ASSUME RouterInv, [RouterNext]_allVars
  PROVE  [\A e \in inbox : hints'[e[1]][e[2]] = hints[e[1]][e[2]]]_allVars
<1> SUFFICES ASSUME RouterNext, NEW e \in inbox
             PROVE  hints'[e[1]][e[2]] = hints[e[1]][e[2]]
  OBVIOUS
<1>1. RouterTypeOK /\ HandValid
  BY DEF RouterInv
<1>2. PICK c \in Conversation, s \in 1..MaxEvents : e = <<c, s>>
  BY <1>1 DEF RouterTypeOK
<1>3. ASSUME NEW r \in Worker, SendHint(r)
      PROVE  hints'[c][s] = hints[c][s]
  <2>1. Event(r) # <<c, s>>
    BY <1>2, <1>3 DEF SendHint, RouterInv, LockedUnseen, Locked
  <2>2. PICK d \in Conversation, t \in 1..MaxEvents : Event(r) = <<d, t>>
    BY <1>1, <1>3, EventTyped DEF SendHint
  <2>3. hints' = [hints EXCEPT ![d][t] = @ + 1]
    BY <1>3, <2>2 DEF SendHint
  <2> QED  BY <1>1, <2>1, <2>2, <2>3, CountTyped DEF RouterTypeOK
<1> QED  BY <1>2, <1>3, HintSteps

\* Once an event is in the inbox nobody hints it again, not even an evicted router that
\* races its successor: both look it up under the lock of the event.
THEOREM DuplicatesAlwaysIgnored == RouterSpec => DuplicatesIgnored
BY IgnoringStep, RouterInvariant, PTL DEF RouterSpec, DuplicatesIgnored
=============================================================================
