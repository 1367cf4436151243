---------------------------- MODULE OutboxProofs ----------------------------
(***************************************************************************)
(* The outbox publishes in order, for any number of workers, conversations *)
(* and events and whatever fails: PublishedFirst, and that the topic is    *)
(* the one Delivery promises.  The argument: a lock has one holder, which  *)
(* works on the earliest pending event of the conversation it locked; a    *)
(* worker that lost its lock, or a request it left behind, is late but     *)
(* never early, for what precedes its event was delivered when it was      *)
(* claimed, and stays so.                                                  *)
(***************************************************************************)
EXTENDS Outbox, TLAPS

Steps == {"idle", "claimed", "sent", "acked", "failed"}

OutboxTypeOK ==
  /\ committed \in [Conversation -> 0..MaxEvents]
  /\ log \in [Conversation -> Seq(1..MaxEvents)]
  /\ published \in [Conversation -> SUBSET (1..MaxEvents)]
  /\ waiting \subseteq Conversation
  /\ lock \in [Conversation -> Worker \cup {None}]
  /\ candidates \in [Worker -> SUBSET Conversation]
  /\ step \in [Worker -> Steps]
  /\ work \in [Worker -> [conversation : Conversation \cup {None}, sequence : 0..MaxEvents]]
  /\ inflight \subseteq Worker \X Conversation \X (1..MaxEvents)
  /\ faults \in 0..MaxFaults

\* Event s of c is committed, and all that precede it have arrived.
Due(c, s) == s \in 1..committed[c] /\ 1..(s - 1) \subseteq Delivered(c)

\* A lock is held by a worker that is publishing the conversation it locked, and has
\* marked all that precedes its event and nothing else.
HolderFirst ==
  \A c \in Conversation : lock[c] # None =>
    /\ step[lock[c]] # "idle"
    /\ work[lock[c]].conversation = c
    /\ published[c] = 1..(work[lock[c]].sequence - 1)

\* The event of a busy worker is due, with or without the lock.
WorkDue ==
  \A w \in Worker : step[w] # "idle" =>
    /\ work[w].conversation \in Conversation
    /\ Due(work[w].conversation, work[w].sequence)

AckedArrived ==
  \A w \in Worker : step[w] = "acked" => work[w].sequence \in Delivered(work[w].conversation)

\* So is the event of every request on its way, whoever sent it.
RequestsDue == \A r \in inflight : Due(r[2], r[3])

ArrivedCommitted == \A c \in Conversation : Delivered(c) \subseteq 1..committed[c]

OutboxInv ==
  /\ OutboxTypeOK
  /\ HolderFirst
  /\ WorkDue
  /\ AckedArrived
  /\ RequestsDue
  /\ ArrivedCommitted
  /\ PublishedFirst

-----------------------------------------------------------------------------
(* The initial states                                                      *)

LEMMA InitialInv == OutboxInit => OutboxInv
<1> SUFFICES ASSUME OutboxInit PROVE OutboxInv
  OBVIOUS
<1> USE OutboxAssumption
<1>1. OutboxTypeOK
  BY DEF OutboxInit, DeliveryInit, OutboxTypeOK, Steps
<1>2. ASSUME NEW c \in Conversation
      PROVE  Delivered(c) = {} /\ published[c] = {} /\ committed[c] = 0
  <2>1. log[c] = <<>> /\ published[c] = {} /\ committed[c] = 0
    BY DEF OutboxInit, DeliveryInit
  <2> QED  BY <2>1 DEF Delivered
<1>3. PublishedFirst
  <2> SUFFICES ASSUME NEW c \in Conversation
               PROVE  \E n \in 0..committed[c] : published[c] = 1..n
    BY <1>2 DEF PublishedFirst
  <2>1. 1..0 = {} /\ 0 \in 0..0
    OBVIOUS
  <2>2. 0 \in 0..committed[c] /\ published[c] = 1..0
    BY <1>2, <2>1
  <2> QED  BY <2>2
<1>4. HolderFirst /\ WorkDue /\ AckedArrived /\ RequestsDue
  BY DEF OutboxInit, HolderFirst, WorkDue, AckedArrived, RequestsDue
<1>5. ArrivedCommitted
  BY <1>2 DEF ArrivedCommitted
<1> QED  BY <1>1, <1>3, <1>4, <1>5 DEF OutboxInv

-----------------------------------------------------------------------------
(* The topic and the event log only grow                                   *)

LEMMA ArriveAppends ==
  ASSUME OutboxTypeOK, NEW r, Arrive(r)
  PROVE  /\ r[2] \in Conversation /\ r[3] \in 1..MaxEvents
         /\ log' = [log EXCEPT ![r[2]] = Append(@, r[3])]
         /\ log' \in [Conversation -> Seq(1..MaxEvents)]
         /\ Delivered(r[2])' = Delivered(r[2]) \cup {r[3]}
         /\ \A c \in Conversation \ {r[2]} : Delivered(c)' = Delivered(c)
<1>1. r \in Worker \X Conversation \X (1..MaxEvents)
  BY DEF Arrive, OutboxTypeOK
<1>2. r[2] \in Conversation /\ r[3] \in 1..MaxEvents
  BY <1>1
<1>3. log \in [Conversation -> Seq(1..MaxEvents)]
  BY DEF OutboxTypeOK
<1>4. log' = [log EXCEPT ![r[2]] = Append(@, r[3])]
  BY DEF Arrive
<1>5. log' \in [Conversation -> Seq(1..MaxEvents)]
  BY <1>2, <1>3, <1>4
<1>6. Delivered(r[2])' = Delivered(r[2]) \cup {r[3]}
  <2> DEFINE l == log[r[2]]
  <2>1. l \in Seq(1..MaxEvents) /\ log'[r[2]] = Append(l, r[3])
    BY <1>2, <1>3, <1>4
  <2>2. DOMAIN Append(l, r[3]) = (DOMAIN l) \cup {Len(l) + 1}
    BY <2>1, <1>2
  <2>3. Append(l, r[3])[Len(l) + 1] = r[3] /\ \A i \in DOMAIN l : Append(l, r[3])[i] = l[i]
    BY <2>1, <1>2
  <2> QED  BY <2>1, <2>2, <2>3 DEF Delivered
<1>7. \A c \in Conversation \ {r[2]} : Delivered(c)' = Delivered(c)
  BY <1>3, <1>4 DEF Delivered
<1> QED  BY <1>2, <1>4, <1>5, <1>6, <1>7

\* Every step that is not an arrival or a commit leaves the topic and the events alone.
LEMMA TopicSteps ==
  ASSUME OutboxNext
  PROVE  \/ UNCHANGED deliveryVars
         \/ \E c \in Conversation : CommitEvent(c)
         \/ \E r \in inflight : Arrive(r)
BY DEF OutboxNext, One, Select, Claim, Skip, Publish, TimeOut, Mark, Postpone, Abandon, Fail, Rollback,
       LoseSession, Crash, Acknowledge, LoseAck, ArriveLate, Lose, Retry

LEMMA NothingTakenBack ==
  ASSUME OutboxTypeOK, OutboxNext
  PROVE  \A c \in Conversation :
           /\ committed[c] \in Nat /\ committed'[c] \in Nat /\ committed[c] <= committed'[c]
           /\ Delivered(c) \subseteq Delivered(c)'
<1> USE OutboxAssumption
<1>1. committed \in [Conversation -> 0..MaxEvents]
  BY DEF OutboxTypeOK
<1>2. CASE UNCHANGED deliveryVars
  BY <1>1, <1>2 DEF deliveryVars, Delivered
<1>3. CASE \E c \in Conversation : CommitEvent(c)
  BY <1>1, <1>3 DEF CommitEvent, Commit, Delivered
<1>4. CASE \E r \in inflight : Arrive(r)
  <2> PICK r \in inflight : Arrive(r)
    BY <1>4
  <2>1. committed' = committed
    BY DEF Arrive
  <2>2. \A c \in Conversation : Delivered(c) \subseteq Delivered(c)'
    BY ArriveAppends
  <2> QED  BY <1>1, <2>1, <2>2
<1> QED  BY <1>2, <1>3, <1>4, TopicSteps

LEMMA DueStays ==
  ASSUME OutboxTypeOK, OutboxNext, NEW c \in Conversation, NEW s, Due(c, s)
  PROVE  Due(c, s)'
<1>1. /\ committed[c] \in Nat /\ committed'[c] \in Nat /\ committed[c] <= committed'[c]
      /\ Delivered(c) \subseteq Delivered(c)'
  BY NothingTakenBack
<1>2. s \in 1..committed[c] /\ 1..(s - 1) \subseteq Delivered(c)
  BY DEF Due
<1> QED  BY <1>1, <1>2 DEF Due

-----------------------------------------------------------------------------
(* Types                                                                   *)

LEMMA ReleaseTyped ==
  ASSUME OutboxTypeOK, NEW w \in Worker, Release(w)
  PROVE  lock' \in [Conversation -> Worker \cup {None}]
BY DEF OutboxTypeOK, Release

LEMMA FaultTyped == OutboxTypeOK /\ Fault => faults' \in 0..MaxFaults
BY OutboxAssumption DEF OutboxTypeOK, Fault

LEMMA ClaimTyped ==
  ASSUME OutboxTypeOK, NEW w \in Worker, NEW c \in Conversation, Claim(w, c)
  PROVE  OutboxTypeOK'
<1>1. PICK s \in 1..MaxEvents :
        Earliest(c, s) /\ work' = [work EXCEPT ![w] = [conversation |-> c, sequence |-> s]]
  BY DEF Claim
<1>2. work' \in [Worker -> [conversation : Conversation \cup {None}, sequence : 0..MaxEvents]]
  <2>1. [conversation |-> c, sequence |-> s] \in
          [conversation : Conversation \cup {None}, sequence : 0..MaxEvents]
    BY OutboxAssumption
  <2> QED  BY <1>1, <2>1 DEF OutboxTypeOK
<1>3. candidates' \in [Worker -> SUBSET Conversation]
  BY DEF Claim, OutboxTypeOK
<1>4. lock' \in [Conversation -> Worker \cup {None}] /\ step' \in [Worker -> Steps]
  BY DEF Claim, OutboxTypeOK, Steps
<1> QED  BY <1>2, <1>3, <1>4 DEF Claim, OutboxTypeOK, deliveryVars

LEMMA PublishTyped ==
  ASSUME OutboxTypeOK, WorkDue, NEW w \in Worker, Publish(w)
  PROVE  OutboxTypeOK'
<1>1. /\ work[w].conversation \in Conversation
      /\ work[w].sequence \in 1..committed[work[w].conversation]
  BY DEF Publish, WorkDue, Due
<1>2. work[w].sequence \in 1..MaxEvents
  BY <1>1, OutboxAssumption DEF OutboxTypeOK
<1>3. Request(w) \in Worker \X Conversation \X (1..MaxEvents)
  BY <1>1, <1>2 DEF Request
<1>4. inflight' \subseteq Worker \X Conversation \X (1..MaxEvents)
  BY <1>3 DEF Publish, OutboxTypeOK
<1>5. step' \in [Worker -> Steps]
  BY DEF Publish, OutboxTypeOK, Steps
<1> QED  BY <1>4, <1>5 DEF Publish, OutboxTypeOK, deliveryVars

LEMMA MarkTyped ==
  ASSUME OutboxTypeOK, WorkDue, NEW w \in Worker, Mark(w)
  PROVE  OutboxTypeOK'
<1>1. /\ work[w].conversation \in Conversation
      /\ work[w].sequence \in 1..committed[work[w].conversation]
  BY DEF Mark, WorkDue, Due
<1>2. work[w].sequence \in 1..MaxEvents
  BY <1>1, OutboxAssumption DEF OutboxTypeOK
<1>3. published' \in [Conversation -> SUBSET (1..MaxEvents)]
  BY <1>1, <1>2 DEF Mark, OutboxTypeOK
<1>4. step' \in [Worker -> Steps]
  BY DEF Mark, OutboxTypeOK, Steps
<1>5. lock' \in [Conversation -> Worker \cup {None}]
  BY ReleaseTyped DEF Mark
<1> QED  BY <1>3, <1>4, <1>5 DEF Mark, OutboxTypeOK, deliveryVars

LEMMA WorkerStepTyped ==
  ASSUME OutboxTypeOK, WorkDue, NEW w \in Worker,
         Select(w) \/ One(w) \/ Fail(w) \/ Rollback(w) \/ LoseSession(w) \/ Crash(w)
  PROVE  OutboxTypeOK'
<1>1. CASE Select(w)
  BY <1>1 DEF Select, OutboxTypeOK, deliveryVars
<1>2. ASSUME NEW c \in Conversation, Skip(w, c) PROVE OutboxTypeOK'
  <2>1. candidates' \in [Worker -> SUBSET Conversation]
    BY <1>2 DEF Skip, OutboxTypeOK
  <2> QED  BY <1>2, <2>1 DEF Skip, OutboxTypeOK, deliveryVars
<1>3. CASE TimeOut(w) \/ Abandon(w) \/ Fail(w)
  <2>1. step' \in [Worker -> Steps]
    BY <1>3 DEF TimeOut, Abandon, Fail, OutboxTypeOK, Steps
  <2>2. faults' \in 0..MaxFaults
    BY <1>3, FaultTyped DEF TimeOut, Abandon, Fail, OutboxTypeOK
  <2> QED  BY <1>3, <2>1, <2>2 DEF TimeOut, Abandon, Fail, OutboxTypeOK, deliveryVars
<1>4. CASE Postpone(w)
  <2>1. work[w].conversation \in Conversation
    BY <1>4 DEF Postpone, WorkDue
  <2>2. lock' \in [Conversation -> Worker \cup {None}]
    BY <1>4, ReleaseTyped DEF Postpone
  <2>3. step' \in [Worker -> Steps] /\ waiting' \subseteq Conversation
    BY <1>4, <2>1 DEF Postpone, OutboxTypeOK, Steps
  <2> QED  BY <1>4, <2>2, <2>3 DEF Postpone, OutboxTypeOK, deliveryVars
<1>5. CASE Rollback(w) \/ LoseSession(w) \/ Crash(w)
  <2>1. lock' \in [Conversation -> Worker \cup {None}]
    BY <1>5, ReleaseTyped DEF Rollback, LoseSession, Crash
  <2>2. step' \in [Worker -> Steps]
    BY <1>5 DEF Rollback, LoseSession, Crash, OutboxTypeOK, Steps, workerVars
  <2>3. candidates' \in [Worker -> SUBSET Conversation]
    BY <1>5 DEF Rollback, LoseSession, Crash, OutboxTypeOK, workerVars
  <2>4. faults' \in 0..MaxFaults
    BY <1>5, FaultTyped DEF Rollback, LoseSession, Crash
  <2> QED  BY <1>5, <2>1, <2>2, <2>3, <2>4
           DEF Rollback, LoseSession, Crash, OutboxTypeOK, deliveryVars, workerVars
<1> QED  BY <1>1, <1>2, <1>3, <1>4, <1>5, ClaimTyped, PublishTyped, MarkTyped DEF One

LEMMA EnvironmentTyped ==
  ASSUME OutboxTypeOK,
         \/ \E r \in inflight : Acknowledge(r) \/ LoseAck(r) \/ ArriveLate(r) \/ Lose(r)
         \/ \E c \in Conversation : Retry(c) \/ CommitEvent(c)
  PROVE  OutboxTypeOK'
<1>1. ASSUME NEW r \in inflight, Acknowledge(r) \/ LoseAck(r) \/ ArriveLate(r)
      PROVE  OutboxTypeOK'
  <2>1. Arrive(r)
    BY <1>1 DEF Acknowledge, LoseAck, ArriveLate
  <2>2. log' \in [Conversation -> Seq(1..MaxEvents)]
    BY <2>1, ArriveAppends
  <2>3. r \in Worker \X Conversation \X (1..MaxEvents)
    BY DEF OutboxTypeOK
  <2>4. step' \in [Worker -> Steps]
    BY <1>1, <2>3 DEF Acknowledge, LoseAck, ArriveLate, OutboxTypeOK, Steps
  <2>5. faults' \in 0..MaxFaults
    BY <1>1, FaultTyped DEF Acknowledge, LoseAck, ArriveLate, OutboxTypeOK
  <2> QED  BY <2>1, <2>2, <2>4, <2>5 DEF Arrive, OutboxTypeOK
<1>2. ASSUME NEW r \in inflight, Lose(r) PROVE OutboxTypeOK'
  <2>1. faults' \in 0..MaxFaults
    BY <1>2, FaultTyped DEF Lose
  <2> QED  BY <1>2, <2>1 DEF Lose, OutboxTypeOK, deliveryVars, workerVars
<1>3. ASSUME NEW c \in Conversation, Retry(c) PROVE OutboxTypeOK'
  BY <1>3 DEF Retry, OutboxTypeOK, deliveryVars, workerVars
<1>4. ASSUME NEW c \in Conversation, CommitEvent(c) PROVE OutboxTypeOK'
  <2>1. committed' \in [Conversation -> 0..MaxEvents]
    BY <1>4, OutboxAssumption DEF CommitEvent, Commit, OutboxTypeOK
  <2> QED  BY <1>4, <2>1 DEF CommitEvent, Commit, OutboxTypeOK, workerVars
<1> QED  BY <1>1, <1>2, <1>3, <1>4


LEMMA OutboxTyped == OutboxInv /\ OutboxNext => OutboxTypeOK'
BY WorkerStepTyped, EnvironmentTyped DEF OutboxInv, OutboxNext

-----------------------------------------------------------------------------
(* What every worker publishes is due                                      *)

LEMMA EarliestIsNext ==
  ASSUME OutboxTypeOK, PublishedFirst, NEW c \in Conversation, NEW s \in 1..MaxEvents, Earliest(c, s)
  PROVE  /\ published[c] = 1..(s - 1)
         /\ Due(c, s)
<1>1. s \in 1..committed[c] /\ s \notin published[c] /\ \A t \in (1..committed[c]) \ published[c] : s <= t
  BY DEF Earliest, Pending
<1>2. PICK n \in 0..committed[c] : published[c] = 1..n
  BY DEF PublishedFirst
<1>3. committed[c] \in Nat
  BY OutboxAssumption DEF OutboxTypeOK
<1>4. n < s
  BY <1>1, <1>2, <1>3
<1>5. s <= n + 1
  BY <1>1, <1>2, <1>3
<1>6. published[c] = 1..(s - 1)
  BY <1>2, <1>3, <1>4, <1>5
<1>7. published[c] \subseteq Delivered(c)
  BY DEF PublishedFirst
<1> QED  BY <1>1, <1>6, <1>7 DEF Due

\* A busy worker has the event it had, or has just claimed one.
LEMMA WorkKept ==
  ASSUME OutboxTypeOK, OutboxNext, NEW w \in Worker, step'[w] # "idle"
  PROVE  \/ step[w] # "idle" /\ work'[w] = work[w]
         \/ \E c \in Conversation : Claim(w, c)
<1>1. step \in [Worker -> Steps]
  BY DEF OutboxTypeOK
<1>2. ASSUME NEW v \in Worker, NEW c \in Conversation, Claim(v, c)
      PROVE  Claim(w, c) \/ (step[w] # "idle" /\ work'[w] = work[w])
  <2>1. CASE v = w
    BY <1>2, <2>1
  <2>2. CASE v # w
    <3>1. step'[w] = step[w]
      BY <1>1, <1>2, <2>2 DEF Claim
    <3>2. work'[w] = work[w]
      BY <1>2, <2>2 DEF Claim, OutboxTypeOK
    <3> QED  BY <3>1, <3>2
  <2> QED  BY <2>1, <2>2
<1>3. ASSUME NEW v \in Worker,
             \/ Select(v) \/ Publish(v) \/ TimeOut(v) \/ Mark(v) \/ Postpone(v) \/ Abandon(v)
             \/ Fail(v) \/ Rollback(v) \/ LoseSession(v) \/ Crash(v)
             \/ \E c \in Conversation : Skip(v, c)
      PROVE  step[w] # "idle" /\ work'[w] = work[w]
  <2>1. work' = work
    BY <1>3 DEF Select, Publish, TimeOut, Mark, Postpone, Abandon, Fail, Rollback, LoseSession,
                Crash, Skip, workerVars
  <2>2. CASE Select(v) \/ LoseSession(v) \/ \E c \in Conversation : Skip(v, c)
    BY <2>1, <2>2 DEF Select, LoseSession, Skip, workerVars
  <2>3. CASE Publish(v) \/ TimeOut(v) \/ Fail(v)
    BY <1>1, <2>1, <2>3 DEF Publish, TimeOut, Fail, Waits
  <2>4. CASE Mark(v) \/ Postpone(v) \/ Abandon(v) \/ Rollback(v) \/ Crash(v)
    BY <1>1, <2>1, <2>4 DEF Mark, Postpone, Abandon, Rollback, Crash
  <2> QED  BY <1>3, <2>2, <2>3, <2>4
<1>4. ASSUME NEW r \in inflight, Acknowledge(r) \/ LoseAck(r) \/ ArriveLate(r) \/ Lose(r)
      PROVE  step[w] # "idle" /\ work'[w] = work[w]
  <2>1. work' = work
    BY <1>4 DEF Acknowledge, LoseAck, ArriveLate, Lose, Arrive, workerVars
  <2>2. step[w] # "idle"
    <3>1. CASE Acknowledge(r)
      <4>1. step[r[1]] = "sent" /\ step' = [step EXCEPT ![r[1]] = "acked"]
        BY <3>1 DEF Acknowledge, Awaited
      <4> QED  BY <1>1, <4>1
    <3>2. CASE LoseAck(r) \/ ArriveLate(r) \/ Lose(r)
      BY <3>2 DEF LoseAck, ArriveLate, Lose, workerVars
    <3> QED  BY <1>4, <3>1, <3>2
  <2> QED  BY <2>1, <2>2
<1>5. ASSUME NEW c \in Conversation, Retry(c) \/ CommitEvent(c)
      PROVE  step[w] # "idle" /\ work'[w] = work[w]
  BY <1>5 DEF Retry, CommitEvent, workerVars
<1> QED  BY <1>2, <1>3, <1>4, <1>5 DEF OutboxNext, One

\* What a claim gives the worker.
LEMMA ClaimTakes ==
  ASSUME OutboxTypeOK, PublishedFirst, NEW w \in Worker, NEW c \in Conversation, Claim(w, c)
  PROVE  /\ step'[w] = "claimed" /\ lock'[c] = w
         /\ work'[w].conversation = c
         /\ published'[c] = 1..(work'[w].sequence - 1)
         /\ Due(work[w].conversation, work[w].sequence)'
<1>1. PICK s \in 1..MaxEvents :
        Earliest(c, s) /\ work' = [work EXCEPT ![w] = [conversation |-> c, sequence |-> s]]
  BY DEF Claim
<1>2. work'[w] = [conversation |-> c, sequence |-> s]
  BY <1>1 DEF OutboxTypeOK
<1>3. published[c] = 1..(s - 1) /\ Due(c, s)
  BY <1>1, EarliestIsNext
<1>4. published' = published /\ UNCHANGED deliveryVars
  BY DEF Claim
<1>5. Due(c, s)'
  BY <1>3, <1>4 DEF Due, Delivered, deliveryVars
<1>6. Due(work[w].conversation, work[w].sequence)'
  BY <1>2, <1>5 DEF Due, Delivered
<1>7. step'[w] = "claimed" /\ lock'[c] = w
  BY DEF Claim, OutboxTypeOK
<1> QED  BY <1>2, <1>3, <1>4, <1>6, <1>7

LEMMA WorkStaysDue ==
  ASSUME OutboxInv, OutboxNext
  PROVE  WorkDue'
<1> SUFFICES ASSUME NEW w \in Worker, step'[w] # "idle"
             PROVE  /\ work'[w].conversation \in Conversation
                    /\ Due(work[w].conversation, work[w].sequence)'
  BY DEF WorkDue
<1>1. CASE step[w] # "idle" /\ work'[w] = work[w]
  <2>1. work[w].conversation \in Conversation /\ Due(work[w].conversation, work[w].sequence)
    BY <1>1 DEF OutboxInv, WorkDue
  <2>2. PICK c \in Conversation, s \in {work[w].sequence} : c = work[w].conversation
    BY <2>1
  <2>3. Due(c, s)
    BY <2>1, <2>2
  <2>4. Due(c, s)'
    BY <2>3, DueStays DEF OutboxInv
  <2>5. c = work'[w].conversation /\ s = work'[w].sequence
    BY <1>1, <2>2
  <2>6. Due(work[w].conversation, work[w].sequence)'
    BY <2>4, <2>5 DEF Due, Delivered
  <2> QED  BY <2>5, <2>6
<1>2. ASSUME NEW c \in Conversation, Claim(w, c)
      PROVE  /\ work'[w].conversation \in Conversation
             /\ Due(work[w].conversation, work[w].sequence)'
  BY <1>2, ClaimTakes DEF OutboxInv
<1> QED  BY <1>1, <1>2, WorkKept DEF OutboxInv


-----------------------------------------------------------------------------
(* A lock has a holder that has marked all before its event                *)

\* A lock that is held after a step was held before it, by the same worker and with the
\* same events marked, or was claimed by the step.
LEMMA LockKept ==
  ASSUME OutboxInv, OutboxNext, NEW c \in Conversation, lock'[c] # None
  PROVE  \/ lock'[c] = lock[c] /\ step'[lock[c]] # "idle" /\ published'[c] = published[c]
         \/ \E w \in Worker : Claim(w, c)
<1> DEFINE Kept == lock'[c] = lock[c] /\ step'[lock[c]] # "idle" /\ published'[c] = published[c]
<1>1. /\ step \in [Worker -> Steps] /\ lock \in [Conversation -> Worker \cup {None}]
      /\ published \in [Conversation -> SUBSET (1..MaxEvents)]
  BY DEF OutboxInv, OutboxTypeOK
<1>2. lock[c] # None => /\ lock[c] \in Worker /\ step[lock[c]] # "idle"
                        /\ work[lock[c]].conversation = c
  BY <1>1 DEF OutboxInv, HolderFirst
<1>3. ASSUME NEW w \in Worker, NEW d \in Conversation, Claim(w, d), d # c
      PROVE  Kept
  <2>1. lock'[c] = lock[c] /\ published' = published
    BY <1>1, <1>3 DEF Claim
  <2>2. step'[lock[c]] # "idle"
    BY <1>1, <1>2, <1>3, <2>1 DEF Claim
  <2> QED  BY <2>1, <2>2
<1>4. ASSUME NEW w \in Worker, Release(w), UNCHANGED step \/ step' = [step EXCEPT ![w] = "idle"]
      PROVE  lock'[c] = lock[c] /\ lock[c] # w /\ step'[lock[c]] # "idle"
  <2>1. lock'[c] = lock[c] /\ lock[c] # w
    BY <1>4, OutboxAssumption DEF Release
  <2> QED  BY <1>1, <1>2, <1>4, <2>1
<1>5. ASSUME NEW w \in Worker, Postpone(w) \/ Rollback(w) \/ LoseSession(w) \/ Crash(w)
      PROVE  Kept
  BY <1>4, <1>5 DEF Postpone, Rollback, LoseSession, Crash, workerVars
<1>6. ASSUME NEW w \in Worker, Mark(w)
      PROVE  Kept
  <2>1. lock'[c] = lock[c] /\ lock[c] # w /\ step'[lock[c]] # "idle"
    BY <1>4, <1>6 DEF Mark
  <2>2. work[w].conversation # c
    BY <1>6, <2>1 DEF Mark, Holds
  <2> QED  BY <1>1, <1>6, <2>1, <2>2 DEF Mark
<1>7. ASSUME NEW w \in Worker, Abandon(w)
      PROVE  Kept
  <2>1. lock' = lock /\ published' = published
    BY <1>7 DEF Abandon
  <2>2. lock[c] # w
    BY <1>2, <1>7, OutboxAssumption DEF Abandon, Holds
  <2> QED  BY <1>1, <1>2, <1>7, <2>1, <2>2 DEF Abandon
<1>8. ASSUME NEW w \in Worker, Publish(w) \/ TimeOut(w) \/ Fail(w)
      PROVE  Kept
  <2>1. lock' = lock /\ published' = published
    BY <1>8 DEF Publish, TimeOut, Fail
  <2>2. step'[lock[c]] # "idle"
    BY <1>1, <1>2, <1>8, <2>1 DEF Publish, TimeOut, Fail
  <2> QED  BY <2>1, <2>2
<1>9. ASSUME NEW w \in Worker, Select(w) \/ \E d \in Conversation : Skip(w, d)
      PROVE  Kept
  BY <1>2, <1>9 DEF Select, Skip
<1>10. ASSUME NEW r \in inflight, Acknowledge(r) \/ LoseAck(r) \/ ArriveLate(r)
       PROVE  Kept
  <2>1. lock' = lock /\ published' = published
    BY <1>10 DEF Acknowledge, LoseAck, ArriveLate, Arrive
  <2>2. step'[lock[c]] # "idle"
    BY <1>1, <1>2, <1>10, <2>1 DEF Acknowledge, LoseAck, ArriveLate
  <2> QED  BY <2>1, <2>2
<1>11. ASSUME \/ \E r \in inflight : Lose(r)
              \/ \E d \in Conversation : Retry(d) \/ CommitEvent(d)
       PROVE  Kept
  BY <1>2, <1>11 DEF Lose, Retry, CommitEvent, workerVars
<1> HIDE DEF Kept
<1>12. Kept \/ \E w \in Worker : Claim(w, c)
  BY <1>3, <1>5, <1>6, <1>7, <1>8, <1>9, <1>10, <1>11 DEF OutboxNext, One
<1> QED  BY <1>12 DEF Kept

LEMMA HolderStaysFirst ==
  ASSUME OutboxInv, OutboxNext
  PROVE  HolderFirst'
<1> SUFFICES ASSUME NEW c \in Conversation, lock'[c] # None
             PROVE  /\ step'[lock'[c]] # "idle"
                    /\ work'[lock'[c]].conversation = c
                    /\ published'[c] = 1..(work'[lock'[c]].sequence - 1)
  BY DEF HolderFirst
<1>1. ASSUME lock'[c] = lock[c], step'[lock[c]] # "idle", published'[c] = published[c]
      PROVE  /\ step'[lock'[c]] # "idle"
             /\ work'[lock'[c]].conversation = c
             /\ published'[c] = 1..(work'[lock'[c]].sequence - 1)
  <2> DEFINE w == lock[c]
  <2>1. w \in Worker
    BY <1>1 DEF OutboxInv, OutboxTypeOK
  <2>2. step[w] # "idle" /\ work[w].conversation = c /\ published[c] = 1..(work[w].sequence - 1)
    BY <1>1 DEF OutboxInv, HolderFirst
  <2>3. work'[w] = work[w]
    BY <1>1, <2>1, <2>2, WorkKept DEF OutboxInv, Claim
  <2> QED  BY <1>1, <2>2, <2>3
<1>2. ASSUME NEW w \in Worker, Claim(w, c)
      PROVE  /\ step'[lock'[c]] # "idle"
             /\ work'[lock'[c]].conversation = c
             /\ published'[c] = 1..(work'[lock'[c]].sequence - 1)
  BY <1>2, ClaimTakes DEF OutboxInv
<1> QED  BY <1>1, <1>2, LockKept

-----------------------------------------------------------------------------
(* What is acknowledged has arrived, and nothing is on its way too early   *)

LEMMA AckedStaysArrived ==
  ASSUME OutboxInv, OutboxNext
  PROVE  AckedArrived'
<1> SUFFICES ASSUME NEW w \in Worker, step'[w] = "acked"
             PROVE  (work[w].sequence \in Delivered(work[w].conversation))'
  BY DEF AckedArrived
<1>1. step \in [Worker -> Steps] /\ OutboxTypeOK
  BY DEF OutboxInv, OutboxTypeOK
<1>2. step[w] # "idle" /\ work'[w] = work[w]
  <2>1. ~ \E c \in Conversation : Claim(w, c)
    BY <1>1 DEF Claim
  <2> QED  BY <1>1, <2>1, WorkKept
<1>3. PICK c \in Conversation : c = work[w].conversation
  BY <1>2 DEF OutboxInv, WorkDue
<1>4. ASSUME work[w].sequence \in Delivered(c) \/ work[w].sequence \in Delivered(c)'
      PROVE  (work[w].sequence \in Delivered(work[w].conversation))'
  <2>1. work'[w].sequence \in Delivered(c)'
    BY <1>1, <1>2, <1>4, NothingTakenBack
  <2> QED  BY <1>2, <1>3, <2>1 DEF Delivered
<1>5. CASE step[w] = "acked"
  BY <1>3, <1>4, <1>5 DEF OutboxInv, AckedArrived
<1>6. CASE step[w] # "acked"
  <2>1. PICK r \in inflight : Acknowledge(r) /\ r[1] = w
    <3>1. ASSUME NEW v \in Worker,
                 \/ \E c1 \in Conversation : Claim(v, c1) \/ Skip(v, c1)
                 \/ Select(v) \/ Publish(v) \/ TimeOut(v) \/ Mark(v) \/ Postpone(v) \/ Abandon(v)
                 \/ Fail(v) \/ Rollback(v) \/ LoseSession(v) \/ Crash(v)
          PROVE  FALSE
      <4>1. CASE \/ Select(v) \/ LoseSession(v) \/ \E c1 \in Conversation : Skip(v, c1)
        BY <1>6, <4>1 DEF Select, LoseSession, Skip, workerVars
      <4>2. CASE \E c1 \in Conversation : Claim(v, c1)
        BY <1>1, <1>6, <4>2 DEF Claim
      <4>3. CASE Publish(v) \/ TimeOut(v) \/ Fail(v)
        BY <1>1, <1>6, <4>3 DEF Publish, TimeOut, Fail
      <4>4. CASE Mark(v) \/ Postpone(v) \/ Abandon(v) \/ Rollback(v) \/ Crash(v)
        BY <1>1, <1>6, <4>4 DEF Mark, Postpone, Abandon, Rollback, Crash
      <4> QED  BY <3>1, <4>1, <4>2, <4>3, <4>4
    <3>2. ASSUME NEW q \in inflight, LoseAck(q) \/ ArriveLate(q) \/ Lose(q) PROVE FALSE
      BY <1>6, <3>2 DEF LoseAck, ArriveLate, Lose, workerVars
    <3>3. ASSUME NEW q \in inflight, Acknowledge(q) PROVE q[1] = w
      BY <1>1, <1>6, <3>3 DEF Acknowledge
    <3>4. ASSUME NEW d \in Conversation, Retry(d) \/ CommitEvent(d) PROVE FALSE
      BY <1>6, <3>4 DEF Retry, CommitEvent, workerVars
    <3> QED  BY <3>1, <3>2, <3>3, <3>4 DEF OutboxNext, One
  <2>2. Arrive(r) /\ r = <<w, work[w].conversation, work[w].sequence>>
    BY <2>1 DEF Acknowledge, Awaited, Request
  <2>3. work[w].sequence \in Delivered(r[2])' /\ r[2] = c
    BY <1>1, <1>3, <2>2, ArriveAppends
  <2>4. work[w].sequence \in Delivered(c)'
    BY <2>3
  <2> QED  BY <1>4, <2>4
<1> QED  BY <1>5, <1>6

LEMMA RequestsStayDue ==
  ASSUME OutboxInv, OutboxNext
  PROVE  RequestsDue'
<1> SUFFICES ASSUME NEW r \in inflight'
             PROVE  Due(r[2], r[3])'
  BY DEF RequestsDue
<1>1. r \in inflight \/ \E w \in Worker : Publish(w) /\ r = Request(w)
  BY DEF OutboxNext, One, Select, Claim, Skip, Publish, TimeOut, Mark, Postpone, Abandon, Fail, Rollback,
         LoseSession, Crash, Acknowledge, LoseAck, ArriveLate, Arrive, Lose, Retry, CommitEvent
<1>2. r[2] \in Conversation /\ Due(r[2], r[3])
  <2>1. CASE r \in inflight
    BY <2>1 DEF OutboxInv, OutboxTypeOK, RequestsDue
  <2>2. ASSUME NEW w \in Worker, Publish(w), r = Request(w)
        PROVE  r[2] \in Conversation /\ Due(r[2], r[3])
    <3>1. r[2] = work[w].conversation /\ r[3] = work[w].sequence
      BY <2>2 DEF Request
    <3> QED  BY <2>2, <3>1 DEF OutboxInv, WorkDue, Publish
  <2> QED  BY <1>1, <2>1, <2>2
<1> QED  BY <1>2, DueStays DEF OutboxInv

LEMMA ArrivedStaysCommitted ==
  ASSUME OutboxInv, OutboxNext
  PROVE  ArrivedCommitted'
<1> SUFFICES ASSUME NEW c \in Conversation
             PROVE  Delivered(c)' \subseteq 1..committed'[c]
  BY DEF ArrivedCommitted
<1>1. /\ committed[c] \in Nat /\ committed'[c] \in Nat /\ committed[c] <= committed'[c]
      /\ Delivered(c) \subseteq 1..committed[c]
  BY NothingTakenBack DEF OutboxInv, ArrivedCommitted
<1>2. CASE UNCHANGED deliveryVars \/ \E d \in Conversation : CommitEvent(d)
  <2>1. Delivered(c)' = Delivered(c)
    BY <1>2 DEF deliveryVars, CommitEvent, Commit, Delivered
  <2> QED  BY <1>1, <2>1
<1>3. ASSUME NEW r \in inflight, Arrive(r)
      PROVE  Delivered(c)' \subseteq 1..committed'[c]
  <2>1. r[3] \in 1..committed[r[2]] /\ committed' = committed
    BY <1>3 DEF OutboxInv, RequestsDue, Due, Arrive
  <2>2. CASE r[2] = c
    <3>1. Delivered(r[2])' = Delivered(r[2]) \cup {r[3]}
      BY <1>3, ArriveAppends DEF OutboxInv
    <3>2. Delivered(c)' = Delivered(c) \cup {r[3]}
      BY <2>2, <3>1 DEF Delivered
    <3> QED  BY <1>1, <2>1, <2>2, <3>2
  <2>3. CASE r[2] # c
    <3>1. Delivered(c)' = Delivered(c)
      BY <1>3, <2>3, ArriveAppends DEF OutboxInv
    <3> QED  BY <1>1, <3>1
  <2> QED  BY <2>2, <2>3
<1> QED  BY <1>2, <1>3, TopicSteps

-----------------------------------------------------------------------------
(* The marked events are the first ones, and have arrived                  *)

LEMMA PublishedSteps ==
  OutboxNext => published' = published \/ \E w \in Worker : Mark(w)
BY DEF OutboxNext, One, Select, Claim, Skip, Publish, TimeOut, Postpone, Abandon, Fail, Rollback,
       LoseSession, Crash, Acknowledge, LoseAck, ArriveLate, Arrive, Lose, Retry, CommitEvent

LEMMA PublishedStaysFirst ==
  ASSUME OutboxInv, OutboxNext
  PROVE  PublishedFirst'
<1> SUFFICES ASSUME NEW c \in Conversation
             PROVE  /\ published'[c] \subseteq Delivered(c)'
                    /\ \E n \in 0..committed'[c] : published'[c] = 1..n
  BY DEF PublishedFirst
<1>1. /\ committed[c] \in Nat /\ committed'[c] \in Nat /\ committed[c] <= committed'[c]
      /\ Delivered(c) \subseteq Delivered(c)'
  BY NothingTakenBack DEF OutboxInv
<1>2. PICK n \in 0..committed[c] : published[c] = 1..n
  BY DEF OutboxInv, PublishedFirst
<1>3. published[c] \subseteq Delivered(c) /\ n \in 0..committed'[c]
  BY <1>1, <1>2 DEF OutboxInv, PublishedFirst
<1>4. CASE published'[c] = published[c]
  BY <1>1, <1>2, <1>3, <1>4
<1>5. ASSUME NEW w \in Worker, Mark(w), published'[c] # published[c]
      PROVE  /\ published'[c] \subseteq Delivered(c)'
             /\ \E m \in 0..committed'[c] : published'[c] = 1..m
  <2> DEFINE s == work[w].sequence
  <2>1. work[w].conversation = c /\ published'[c] = published[c] \cup {s}
    BY <1>5 DEF Mark, OutboxInv, OutboxTypeOK
  <2>2. step[w] = "acked" /\ lock[c] = w /\ w # None
    BY <1>5, <2>1, OutboxAssumption DEF Mark, Holds
  <2>3. s \in Delivered(c) /\ s \in 1..committed[c]
    BY <2>1, <2>2 DEF OutboxInv, AckedArrived, WorkDue, Due
  <2>4. published[c] = 1..(s - 1)
    BY <2>2 DEF OutboxInv, HolderFirst
  <2> HIDE DEF s
  <2>5. published'[c] = 1..s
    BY <1>1, <2>1, <2>3, <2>4
  <2>6. s \in 0..committed'[c]
    BY <1>1, <2>3
  <2> QED  BY <1>1, <1>3, <2>1, <2>3, <2>5, <2>6
<1> QED  BY <1>4, <1>5, PublishedSteps

-----------------------------------------------------------------------------
(* The theorems                                                            *)

LEMMA InvKept == OutboxInv /\ [OutboxNext]_outboxVars => OutboxInv'
<1>1. ASSUME OutboxInv, OutboxNext PROVE OutboxInv'
  BY <1>1, OutboxTyped, HolderStaysFirst, WorkStaysDue, AckedStaysArrived, RequestsStayDue,
     ArrivedStaysCommitted, PublishedStaysFirst DEF OutboxInv
<1>2. ASSUME OutboxInv, UNCHANGED outboxVars PROVE OutboxInv'
  BY <1>2 DEF outboxVars, deliveryVars, workerVars, OutboxInv, OutboxTypeOK, HolderFirst, WorkDue, Due,
              Delivered, AckedArrived, RequestsDue, ArrivedCommitted, PublishedFirst
<1> QED  BY <1>1, <1>2

\* The inductive invariant, of which the other theorems follow: types, a holder that
\* works on the earliest pending event, and nothing early at a worker or on its way.
THEOREM OutboxInvariant == OutboxSpec => []OutboxInv
BY InitialInv, InvKept, PTL DEF OutboxSpec

\* An event is marked as published only after the broker has it, and the marked events
\* of a conversation are its first ones, whatever happens to the workers: One publishes
\* the earliest pending row under an advisory lock and marks it in the same transaction.
THEOREM PublishedAlwaysFirst == OutboxSpec => []PublishedFirst
<1>1. OutboxInv => PublishedFirst
  BY DEF OutboxInv
<1> QED  BY <1>1, OutboxInvariant, PTL

LEMMA SameContract ==
  /\ Contract!DeliveryInit = DeliveryInit
  /\ Contract!deliveryVars = deliveryVars
  /\ \A c : Contract!Delivered(c) = Delivered(c)
BY DEF Contract!DeliveryInit, DeliveryInit, Contract!deliveryVars, deliveryVars,
       Contract!Delivered, Delivered

\* A committed event is a step Commit of the contract, an arrival is a first arrival in
\* order or another arrival of what is there, and all else is a stutter.
LEMMA StepsOfContract == OutboxInv /\ OutboxNext => [Contract!DeliveryNext]_deliveryVars
<1> SUFFICES ASSUME OutboxInv, OutboxNext
             PROVE  Contract!DeliveryNext \/ UNCHANGED deliveryVars
  OBVIOUS
<1>1. ASSUME NEW c \in Conversation, CommitEvent(c)
      PROVE  Contract!DeliveryNext
  <2>1. Contract!Commit(c)
    BY <1>1 DEF CommitEvent, Commit, Contract!Commit
  <2> QED  BY <2>1 DEF Contract!DeliveryNext
<1>2. ASSUME NEW r \in inflight, Arrive(r)
      PROVE  Contract!DeliveryNext
  <2> DEFINE c == r[2]
             s == r[3]
  <2>1. c \in Conversation /\ s \in 1..MaxEvents /\ log' = [log EXCEPT ![c] = Append(@, s)]
    BY <1>2, ArriveAppends DEF OutboxInv
  <2>2. s \in 1..committed[c] /\ 1..(s - 1) \subseteq Delivered(c)
    BY DEF OutboxInv, RequestsDue, Due
  <2>3. committed' = committed
    BY <1>2 DEF Arrive
  <2> HIDE DEF c, s
  <2>4. CASE s \in Delivered(c)
    <3>1. Contract!Redeliver(c, s)
      BY <2>1, <2>3, <2>4, SameContract DEF Contract!Redeliver
    <3> QED  BY <2>1, <3>1 DEF Contract!DeliveryNext
  <2>5. CASE s \notin Delivered(c)
    <3>1. s = 1 \/ s - 1 \in Delivered(c)
      BY <2>1, <2>2
    <3>2. Contract!Deliver(c, s)
      BY <2>1, <2>2, <2>3, <2>5, <3>1, SameContract DEF Contract!Deliver
    <3> QED  BY <2>1, <3>2 DEF Contract!DeliveryNext, Contract!DeliverSome
  <2> QED  BY <2>4, <2>5
<1> QED  BY <1>1, <1>2, TopicSteps

\* The detailed outbox implements the contract of its consumers: the topic of a
\* conversation gets every event for the first time after the one that precedes it.
THEOREM OutboxImplementsDelivery == OutboxSpec => InOrder
<1>1. OutboxInit => Contract!DeliveryInit
  BY SameContract DEF OutboxInit
<1>2. OutboxInv /\ [OutboxNext]_outboxVars => [Contract!DeliveryNext]_(Contract!deliveryVars)
  BY StepsOfContract DEF outboxVars, Contract!deliveryVars, deliveryVars
<1> QED  BY <1>1, <1>2, OutboxInvariant, PTL DEF OutboxSpec, InOrder, Contract!DeliverySafety
=============================================================================
