---------------------------- MODULE SessionProofs ----------------------------
(***************************************************************************)
(* Proofs about the stream of a session, for any conversations, any queue, *)
(* any batch and any number of commands, changes and failures.  First what *)
(* a frame is allowed: what run enqueues and write takes are frames, and   *)
(* nothing is written without a permission that held after the frame left  *)
(* the queue.  Then the order of the frames: the hand of write, the queue  *)
(* and what run is about to enqueue lead a client from its cursor to the   *)
(* position of run, one event at a time, and so the session implements     *)
(* Subscription.                                                           *)
(***************************************************************************)
EXTENDS Session, TLAPS, SequenceTheorems

-----------------------------------------------------------------------------
(* The inductive invariant                                                 *)

\* run pushes only while it has something to push.
Busy == run = "push" => pushing # <<>>

\* write has a frame in its hands, and reads again only events and replies.
Taken == writer \in {"verify", "authorise", "reread", "write"}
Held ==
  /\ Taken => current \in Frames
  /\ writer = "reread" => current.kind \in {"event", "reply"}

\* What holds now held since the frame was taken: allowed forgets nothing.
Remembered ==
  Taken =>
    /\ token => "token" \in allowed
    /\ current.conversation \in access => "access" \in allowed
    /\ read_receipts => "receipts" \in allowed

\* What write has asked so far about a frame with content was answered with yes.
Content == current.kind \notin {"error", "revoked"}
Asked ==
  /\ writer \in {"authorise", "reread", "write"} /\ Content => "token" \in allowed
  /\ writer \in {"reread", "write"} /\ Content => "access" \in allowed
  /\ writer = "write" /\ current.kind = "event" /\ current.sequence \in Hidden
       => "receipts" \in allowed

SessionInv == SessionTypeOK /\ Busy /\ Held /\ Remembered /\ Asked

-----------------------------------------------------------------------------
(* Frames and queues                                                       *)

LEMMA FrameType ==
  ASSUME NEW kind \in Kinds, NEW c \in Conversation, NEW n \in 0..MaxEvents
  PROVE  Frame(kind, c, n) \in Frames
  BY DEF Frame, Frames

\* The queue takes frames, and never more than its capacity.
LEMMA EnqueueType ==
  ASSUME send \in Seq(Frames), Len(send) <= Capacity, closing \in BOOLEAN,
         NEW f \in Frames, Enqueue(f)
  PROVE  send' \in Seq(Frames) /\ Len(send') <= Capacity /\ closing' \in BOOLEAN
<1>1. CASE Len(send) < Capacity
  <2>1. send' = Append(send, f) /\ closing' = closing BY <1>1 DEF Enqueue
  <2>2. Append(send, f) \in Seq(Frames) /\ Len(Append(send, f)) = Len(send) + 1
    BY AppendProperties
  <2>3. Len(send) \in Nat BY LenProperties
  <2> QED BY <1>1, <2>1, <2>2, <2>3, SessionAssumption
<1>2. CASE ~(Len(send) < Capacity)
  BY <1>2 DEF Enqueue
<1> QED BY <1>1, <1>2

\* A replay is a sequence of frames, wherever it starts.
LEMMA ReplayedType ==
  ASSUME event_sequence \in [Conversation -> 0..MaxEvents],
         NEW c \in Conversation, NEW i \in 0..MaxEvents
  PROVE  Replayed(c, i) \in Seq(Frames)
<1> DEFINE n == Through(c, i) - i
           events == [k \in 1..n |-> Frame("event", c, i + k)]
           notice == IF Through(c, i) = event_sequence[c] /\ (initial \/ Through(c, i) > i)
                     THEN <<Frame("sync", c, Through(c, i))>> ELSE <<>>
<1>0. MaxEvents \in Nat /\ Batch \in Nat /\ event_sequence[c] \in 0..MaxEvents
  BY SessionAssumption
<1>1. Through(c, i) \in 0..MaxEvents
  BY <1>0 DEF Through
<1>2. events \in Seq(Frames)
  <2>1. CASE n \in Nat
    <3>1. \A k \in 1..n : Frame("event", c, i + k) \in Frames
      <4> TAKE k \in 1..n
      <4>1. i + k \in 0..MaxEvents BY <1>0, <1>1, <2>1
      <4> QED BY <4>1, FrameType DEF Kinds
    <3>2. events \in [1..n -> Frames] BY <3>1
    <3> HIDE DEF n, events
    <3> QED BY <3>2, <2>1
  <2>2. CASE n \notin Nat
    <3>1. n \in Int /\ n < 0 BY <1>0, <1>1, <2>2
    <3>2. 1..n = 1..0 BY <3>1
    <3>3. events \in [1..0 -> Frames] BY <3>2
    <3> HIDE DEF events
    <3> QED BY <3>3
  <2> QED BY <2>1, <2>2
<1>3. notice \in Seq(Frames)
  <2>1. Frame("sync", c, Through(c, i)) \in Frames BY <1>1, FrameType DEF Kinds
  <2>2. <<Frame("sync", c, Through(c, i))>> \in Seq(Frames) BY <2>1
  <2> QED BY <2>2
<1>4. Replayed(c, i) = events \o notice
  BY DEF Replayed
<1> HIDE DEF events, notice
<1> QED BY <1>2, <1>3, <1>4, ConcatProperties

-----------------------------------------------------------------------------
LEMMA SessionInitInv == SessionInit => SessionInv
<1> SUFFICES ASSUME SessionInit PROVE SessionInv
  OBVIOUS
<1> USE DEF SessionInit, SubscriptionInit
<1>1. SessionTypeOK
  <2>1. <<>> \in Seq(Frames) /\ Len(<<>>) = 0 BY EmptySeq
  <2>2. 0 \in 0..MaxEvents /\ 0 \in Nat /\ 0 <= Capacity BY SessionAssumption
  <2>3. pushing \in Seq(Frames) /\ send \in Seq(Frames) /\ Len(send) <= Capacity
    BY <2>1, <2>2
  <2> HIDE DEF SessionInit, SubscriptionInit
  <2>4. /\ event_sequence \in [Conversation -> 0..MaxEvents]
        /\ position \in [Conversation -> 0..MaxEvents]
        /\ cursor \in [Conversation -> 0..MaxEvents]
        /\ opened \in [Conversation -> Nat]
    BY <2>2 DEF SessionInit, SubscriptionInit
  <2> QED BY <2>3, <2>4 DEF SessionTypeOK, SessionInit, SubscriptionInit
<1>2. Busy BY DEF Busy
<1>3. Held /\ Remembered /\ Asked BY DEF Held, Remembered, Asked, Taken
<1> QED BY <1>1, <1>2, <1>3 DEF SessionInv

-----------------------------------------------------------------------------
(* run                                                                     *)

\* What write has asked stands while nobody touches the permissions and the frame.
LEMMA WriterKept ==
  ASSUME Held, Remembered, Asked,
         UNCHANGED <<access, read_receipts, token, writer, current, allowed>>
  PROVE  Held' /\ Remembered' /\ Asked'
  BY DEF Held, Remembered, Asked, Taken, Content, Frames

\* run ends, by itself or with the session.
LEMMA DisconnectInv ==
  ASSUME SessionInv, Unauthenticated \/ RunVerifyFails \/ Cancelled
  PROVE  SessionInv'
<1> USE DEF SessionInv, Unauthenticated, RunVerifyFails, Cancelled, Disconnect, Fault,
        environmentVars, writerVars, clientVars, counters
<1>1. SessionTypeOK' BY DEF SessionTypeOK
<1>2. Busy' BY DEF Busy
<1>3. Held' /\ Remembered' /\ Asked' BY WriterKept
<1> QED BY <1>1, <1>2, <1>3

LEMMA SubscribeInv ==
  ASSUME SessionInv, NEW c \in Conversation, NEW after \in 0..MaxEvents, Subscribe(c, after)
  PROVE  SessionInv'
<1> USE DEF SessionInv, Subscribe, Command, environmentVars, writerVars, clientVars
<1> DEFINE accepted == /\ c \in subscribed \/ Cardinality(subscribed) < MaxSubscriptions
                       /\ c \in access /\ after <= event_sequence[c]
<1>0. 0 \in 0..MaxEvents BY SessionAssumption
<1>1. \E f \in Frames : Enqueue(f)
  <2>1. Frame("subscribed", c, after) \in Frames /\ Frame("error", c, 0) \in Frames
    BY <1>0, FrameType DEF Kinds
  <2> QED BY <2>1
<1>2. send' \in Seq(Frames) /\ Len(send') <= Capacity /\ closing' \in BOOLEAN
  BY <1>1, EnqueueType DEF SessionTypeOK
<1>3. SessionTypeOK'
  <2>1. CASE accepted BY <2>1, <1>2 DEF SessionTypeOK
  <2>2. CASE ~accepted BY <2>2, <1>2 DEF SessionTypeOK
  <2> QED BY <2>1, <2>2
<1>4. Busy'
  <2>1. CASE accepted BY <2>1 DEF Busy
  <2>2. CASE ~accepted BY <2>2 DEF Busy
  <2> QED BY <2>1, <2>2
<1>5. Held' /\ Remembered' /\ Asked' BY WriterKept
<1> QED BY <1>3, <1>4, <1>5

\* The other commands do nothing to run but enqueue an answer.
LEMMA CommandInv ==
  ASSUME SessionInv, NEW c \in Conversation, Unsubscribe(c) \/ OtherCommand(c)
  PROVE  SessionInv'
<1> USE DEF SessionInv, Unsubscribe, OtherCommand, Command, environmentVars, runVars,
        writerVars, clientVars
<1>0. 0 \in 0..MaxEvents BY SessionAssumption
<1>1. \E f \in Frames : Enqueue(f)
  <2>1. /\ Frame("unsubscribed", c, 0) \in Frames
        /\ Frame("ack", c, 0) \in Frames /\ Frame("reply", c, 0) \in Frames
        /\ Frame("error", c, 0) \in Frames
    BY <1>0, FrameType DEF Kinds
  <2> QED BY <2>1
<1>2. send' \in Seq(Frames) /\ Len(send') <= Capacity /\ closing' \in BOOLEAN
  BY <1>1, EnqueueType DEF SessionTypeOK
<1>3. SessionTypeOK'
  <2>1. CASE Unsubscribe(c) BY <2>1, <1>2 DEF SessionTypeOK
  <2>2. CASE OtherCommand(c) BY <2>2, <1>2 DEF SessionTypeOK
  <2> QED BY <2>1, <2>2
<1>4. Busy' BY DEF Busy
<1>5. Held' /\ Remembered' /\ Asked' BY WriterKept
<1> QED BY <1>3, <1>4, <1>5

\* catchup starts, and skips a conversation that has to wait or cannot be read.
LEMMA CatchUpInv ==
  ASSUME SessionInv, CatchUp \/ \E c \in Conversation : Defer(c) \/ ReplayFails(c)
  PROVE  SessionInv'
<1> USE DEF SessionInv, CatchUp, Defer, ReplayFails, ReplayDue, After, Fault, environmentVars,
        writerVars, clientVars, counters
<1>1. SessionTypeOK' BY DEF SessionTypeOK
<1>2. Busy' BY DEF Busy
<1>3. Held' /\ Remembered' /\ Asked' BY WriterKept
<1> QED BY <1>1, <1>2, <1>3

LEMMA ReplayInv ==
  ASSUME SessionInv, NEW c \in Conversation, Replay(c)
  PROVE  SessionInv'
<1> USE DEF SessionInv, Replay, After, environmentVars, writerVars, clientVars, counters
<1>1. pushing' \in Seq(Frames) /\ subscribed' \subseteq Conversation
  <2>1. CASE c \in access
    <3>1. position[c] \in 0..MaxEvents BY DEF SessionTypeOK
    <3>2. Replayed(c, position[c]) \in Seq(Frames) BY <3>1, ReplayedType DEF SessionTypeOK
    <3> QED BY <2>1, <3>2 DEF SessionTypeOK
  <2>2. CASE c \notin access
    <3>1. 0 \in 0..MaxEvents BY SessionAssumption
    <3>2. Frame("revoked", c, 0) \in Frames BY <3>1, FrameType DEF Kinds
    <3>3. <<Frame("revoked", c, 0)>> \in Seq(Frames) BY <3>2
    <3> QED BY <2>2, <3>3 DEF SessionTypeOK
  <2> QED BY <2>1, <2>2
<1>2. SessionTypeOK' BY <1>1 DEF SessionTypeOK
<1>3. Busy' BY DEF Busy
<1>4. Held' /\ Remembered' /\ Asked' BY WriterKept
<1> QED BY <1>2, <1>3, <1>4

LEMMA PushInv ==
  ASSUME SessionInv, Push
  PROVE  SessionInv'
<1> USE DEF SessionInv, Push, After, environmentVars, writerVars, clientVars, counters
<1> DEFINE f == Head(pushing)
<1>1. f \in Frames /\ Tail(pushing) \in Seq(Frames)
  BY HeadTailProperties DEF Busy, SessionTypeOK
<1>2. send' \in Seq(Frames) /\ Len(send') <= Capacity /\ closing' \in BOOLEAN
  BY <1>1, EnqueueType DEF SessionTypeOK
<1>3. pushing' \in Seq(Frames)
  <2>1. <<>> \in Seq(Frames) BY EmptySeq
  <2> QED BY <1>1, <2>1
<1>4. position' \in [Conversation -> 0..MaxEvents]
  <2>1. f.conversation \in Conversation /\ f.sequence \in 0..MaxEvents BY <1>1 DEF Frames
  <2>2. CASE Len(send) < Capacity /\ f.kind = "event"
    <3>1. position' = [position EXCEPT ![f.conversation] = f.sequence] BY <2>2
    <3> QED BY <2>1, <3>1 DEF SessionTypeOK
  <2>3. CASE ~(Len(send) < Capacity /\ f.kind = "event")
    BY <2>3 DEF SessionTypeOK
  <2> QED BY <2>2, <2>3
<1>5. SessionTypeOK' BY <1>2, <1>3, <1>4 DEF SessionTypeOK
<1>6. Busy' BY DEF Busy
<1>7. Held' /\ Remembered' /\ Asked' BY WriterKept
<1> QED BY <1>5, <1>6, <1>7

-----------------------------------------------------------------------------
(* write                                                                   *)

\* The permissions of a frame are those the state gives.
LEMMA PermissionsAre ==
  ASSUME NEW c
  PROVE  /\ Permissions(c) \subseteq {"access", "receipts", "token"}
         /\ c \in access => "access" \in Permissions(c)
         /\ read_receipts => "receipts" \in Permissions(c)
         /\ token => "token" \in Permissions(c)
  BY DEF Permissions

\* write looks for the request to close, or ends; it has no frame yet, or none any more.
LEMMA WriterRestInv ==
  ASSUME SessionInv,
         Top \/ CloseFirst \/ VerifyFails \/ RereadFails \/ WriteFails
  PROVE  SessionInv'
<1> USE DEF SessionInv, Top, CloseFirst, VerifyFails, RereadFails, WriteFails, Fault,
        WriterFrame, environmentVars, runVars, clientVars, counters
<1>1. SessionTypeOK' BY DEF SessionTypeOK
<1>2. Busy' BY DEF Busy
<1>3. Held' /\ Remembered' /\ Asked' BY DEF Held, Remembered, Asked, Taken
<1> QED BY <1>1, <1>2, <1>3

\* Taking a frame starts the memory of its permissions.
LEMMA TakeInv ==
  ASSUME SessionInv, Take
  PROVE  SessionInv'
<1> USE DEF SessionInv, Take, WriterFrame, environmentVars, runVars, clientVars, counters
<1>1. /\ Head(send) \in Frames
      /\ Tail(send) \in Seq(Frames) /\ Len(Tail(send)) = Len(send) - 1
      /\ Len(send) \in Nat
  BY HeadTailProperties, LenProperties DEF SessionTypeOK
<1>2. send' \in Seq(Frames) /\ Len(send') <= Capacity
  BY <1>1, SessionAssumption DEF SessionTypeOK
<1>3. SessionTypeOK' BY <1>1, <1>2, PermissionsAre DEF SessionTypeOK
<1>4. Busy' BY DEF Busy
<1>5. Held' BY <1>1 DEF Held, Taken
<1>6. Remembered' BY PermissionsAre DEF Remembered, Taken
<1>7. Asked' BY DEF Asked
<1> QED BY <1>3, <1>4, <1>5, <1>6, <1>7

LEMMA VerifyInv ==
  ASSUME SessionInv, Verify
  PROVE  SessionInv'
<1> USE DEF SessionInv, Verify, WriterFrame, environmentVars, runVars, clientVars, counters
<1>1. SessionTypeOK' BY DEF SessionTypeOK
<1>2. Busy' BY DEF Busy
<1>3. Held' BY DEF Held, Taken
<1>4. Remembered' BY DEF Remembered, Taken
<1>5. Asked' BY DEF Asked, Content, Remembered, Taken
<1> QED BY <1>1, <1>2, <1>3, <1>4, <1>5

\* A revocation is a frame without content.
LEMMA RevocationType ==
  ASSUME current \in Frames
  PROVE  Revocation \in Frames /\ Revocation.kind = "revoked"
                             /\ Revocation.conversation = current.conversation
<1>1. current.conversation \in Conversation BY DEF Frames
<1>2. 0 \in 0..MaxEvents BY SessionAssumption
<1>3. Revocation \in Frames BY <1>1, <1>2, FrameType DEF Revocation, Kinds
<1> QED BY <1>3 DEF Revocation, Frame

\* A frame passes only if its conversation is readable now; else it is a revocation.
LEMMA AuthoriseInv ==
  ASSUME SessionInv, Authorise \/ AuthoriseFails
  PROVE  SessionInv'
<1> USE DEF SessionInv, Authorise, AuthoriseFails, Fault, WriterFrame, environmentVars, runVars,
        clientVars, counters
<1>0. current \in Frames /\ writer = "authorise" BY DEF Held, Taken
<1>1. CASE current' = Revocation /\ writer' = "write"
  <2>1. /\ current' \in Frames /\ current'.kind = "revoked"
        /\ current'.conversation = current.conversation
    BY <1>0, <1>1, RevocationType
  <2>2. SessionTypeOK' BY <1>1, <2>1 DEF SessionTypeOK
  <2>3. Busy' BY DEF Busy
  <2>4. Held' BY <1>1, <2>1 DEF Held
  <2>5. Remembered' BY <1>0, <1>1, <2>1 DEF Remembered, Taken
  <2>6. Asked' BY <1>1, <2>1 DEF Asked, Content
  <2> QED BY <2>2, <2>3, <2>4, <2>5, <2>6
<1>2. CASE /\ current.conversation \in access /\ UNCHANGED current
           /\ writer' = IF current.kind \in {"event", "reply"} THEN "reread" ELSE "write"
  <2>1. SessionTypeOK' BY <1>2 DEF SessionTypeOK
  <2>2. Busy' BY DEF Busy
  <2>3. Held' BY <1>0, <1>2 DEF Held
  <2>4. Remembered' BY <1>0, <1>2 DEF Remembered, Taken
  <2>5. Asked' BY <1>0, <1>2 DEF Asked, Content, Remembered, Taken
  <2> QED BY <2>1, <2>2, <2>3, <2>4, <2>5
<1> QED BY <1>1, <1>2

\* Reading the event or the message again asks for membership and for the setting once more.
LEMMA RereadInv ==
  ASSUME SessionInv, Reread
  PROVE  SessionInv'
<1> USE DEF SessionInv, Reread, WriterFrame, environmentVars, runVars, clientVars, counters
<1>0. current \in Frames /\ current.kind \in {"event", "reply"} BY DEF Held, Taken
<1>1. CASE current.conversation \notin access
  <2>1. /\ current' \in Frames /\ current'.kind = "revoked"
        /\ current'.conversation = current.conversation
    BY <1>0, <1>1, RevocationType
  <2>2. SessionTypeOK' BY <2>1 DEF SessionTypeOK
  <2>3. Busy' BY DEF Busy
  <2>4. Held' BY <2>1 DEF Held
  <2>5. Remembered' BY <2>1 DEF Remembered, Taken
  <2>6. Asked' BY <2>1 DEF Asked, Content
  <2> QED BY <2>2, <2>3, <2>4, <2>5, <2>6
<1> DEFINE hide == current.kind = "event" /\ current.sequence \in Hidden /\ ~read_receipts
<1>2. CASE current.conversation \in access /\ hide
  <2>0. current' = [current EXCEPT !.kind = "advance"] BY <1>2
  <2>1. /\ current' \in Frames /\ current'.kind = "advance"
        /\ current'.conversation = current.conversation
    BY <1>0, <2>0 DEF Frames, Kinds
  <2>2. SessionTypeOK' BY <2>1 DEF SessionTypeOK
  <2>3. Busy' BY DEF Busy
  <2>4. Held' BY <2>1 DEF Held
  <2>5. Remembered' BY <2>1 DEF Remembered, Taken
  <2>6. Asked' BY <1>0, <2>1 DEF Asked, Content
  <2> QED BY <2>2, <2>3, <2>4, <2>5, <2>6
<1>3. CASE current.conversation \in access /\ ~hide
  <2>0. current' = current BY <1>3
  <2>1. SessionTypeOK' BY <2>0 DEF SessionTypeOK
  <2>2. Busy' BY DEF Busy
  <2>3. Held' BY <2>0 DEF Held, Taken
  <2>4. Remembered' BY <2>0 DEF Remembered, Taken
  <2>5. Asked' BY <1>0, <1>3, <2>0 DEF Asked, Content, Remembered, Taken
  <2> QED BY <2>1, <2>2, <2>3, <2>4, <2>5
<1> QED BY <1>1, <1>2, <1>3

LEMMA WriteInv ==
  ASSUME SessionInv, Write
  PROVE  SessionInv'
<1> USE DEF SessionInv, Write, environmentVars, runVars, counters
<1> DEFINE c == current.conversation
<1>0. c \in Conversation /\ current.sequence \in 0..MaxEvents BY DEF Held, Taken, Frames
<1>1. live' \subseteq Conversation
  <2>1. live' \subseteq live \cup {c} OBVIOUS
  <2> QED BY <1>0, <2>1 DEF SessionTypeOK
<1>2. revoked' \subseteq Conversation
  <2>1. revoked' \subseteq revoked \cup {c} OBVIOUS
  <2> QED BY <1>0, <2>1 DEF SessionTypeOK
<1>3. cursor' \in [Conversation -> 0..MaxEvents]
  <2>1. \/ cursor' = [cursor EXCEPT ![c] = current.sequence]
        \/ cursor' = cursor
    OBVIOUS
  <2> QED BY <1>0, <2>1 DEF SessionTypeOK
<1>4. opened' \in [Conversation -> Nat]
  <2>1. \/ opened' = [opened EXCEPT ![c] = @ + 1]
        \/ opened' = opened
    OBVIOUS
  <2> QED BY <1>0, <2>1 DEF SessionTypeOK
<1>5. SessionTypeOK' BY <1>1, <1>2, <1>3, <1>4 DEF SessionTypeOK
<1>6. Busy' BY DEF Busy
<1>7. Held' /\ Remembered' /\ Asked' BY DEF Held, Remembered, Asked, Taken
<1> QED BY <1>5, <1>6, <1>7

-----------------------------------------------------------------------------
(* The other processes                                                     *)

LEMMA CommitInv ==
  ASSUME SessionInv, NEW c \in Conversation, CommitEvent(c)
  PROVE  SessionInv'
<1> USE DEF SessionInv, CommitEvent, Commit, runVars, writerVars, counters
<1>1. event_sequence' \in [Conversation -> 0..MaxEvents]
  <2>1. event_sequence[c] + 1 \in 0..MaxEvents BY SessionAssumption DEF SessionTypeOK
  <2> QED BY <2>1 DEF SessionTypeOK
<1>2. SessionTypeOK' BY <1>1 DEF SessionTypeOK
<1>3. Busy' BY DEF Busy
<1>4. Held' /\ Remembered' /\ Asked' BY WriterKept
<1> QED BY <1>2, <1>3, <1>4

\* What is taken away is not forgotten, and what is given is remembered.
LEMMA ChangeInv ==
  ASSUME SessionInv,
         SwitchReceipts \/ LogOut \/ \E c \in Conversation : Leave(c) \/ Rejoin(c)
  PROVE  SessionInv'
<1> USE DEF SessionInv, Leave, Rejoin, SwitchReceipts, LogOut, Change, EnvironmentFrame,
        runVars, writerVars, clientVars
<1>0. allowed \subseteq allowed' /\ allowed' \subseteq {"access", "receipts", "token"}
  BY DEF SessionTypeOK
<1>1. SessionTypeOK'
  <2>1. access' \subseteq Conversation
    <3>1. access' \subseteq access \cup Conversation OBVIOUS
    <3> QED BY <3>1 DEF SessionTypeOK
  <2>2. read_receipts' \in BOOLEAN /\ token' \in BOOLEAN BY DEF SessionTypeOK
  <2>3. UNCHANGED <<event_sequence, EnvironmentFrame>> BY Zenon
  <2> QED BY <1>0, <2>1, <2>2, <2>3 DEF SessionTypeOK
<1>2. Busy' BY DEF Busy
<1>3. Held' BY DEF Held, Taken
<1>4. Remembered'
  <2>1. Taken => current # Idle BY DEF Held, Frames, Idle, Frame, Kinds
  <2> QED BY <2>1 DEF Remembered, Taken
<1>5. Asked' BY <1>0 DEF Asked, Content
<1> QED BY <1>1, <1>2, <1>3, <1>4, <1>5

LEMMA SessionStepInv == SessionInv /\ [SessionNext]_sessionVars => SessionInv'
<1> SUFFICES ASSUME SessionInv, [SessionNext]_sessionVars PROVE SessionInv'
  OBVIOUS
<1>1. CASE RunStep
  <2>1. ASSUME NEW c \in Conversation, Defer(c) PROVE SessionInv' BY <2>1, CatchUpInv
  <2>2. ASSUME NEW c \in Conversation, Replay(c) PROVE SessionInv' BY <2>2, ReplayInv
  <2> QED BY <1>1, <2>1, <2>2, DisconnectInv, PushInv DEF RunStep
<1>2. CASE CatchUp
  BY <1>2, CatchUpInv
<1>3. CASE WriterStep
  BY <1>3, WriterRestInv, TakeInv, VerifyInv, AuthoriseInv, RereadInv, WriteInv DEF WriterStep
<1>4. CASE ClientStep
  <2>1. ASSUME NEW c \in Conversation, NEW after \in 0..MaxEvents, Subscribe(c, after)
        PROVE  SessionInv'
    BY <2>1, SubscribeInv
  <2>2. ASSUME NEW c \in Conversation, Unsubscribe(c) \/ OtherCommand(c) PROVE SessionInv'
    BY <2>2, CommandInv
  <2> QED BY <1>4, <2>1, <2>2 DEF ClientStep
<1>5. CASE FaultStep
  <2>1. ASSUME NEW c \in Conversation, ReplayFails(c) PROVE SessionInv' BY <2>1, CatchUpInv
  <2> QED BY <1>5, <2>1, DisconnectInv, WriterRestInv, AuthoriseInv DEF FaultStep
<1>6. CASE EnvironmentStep
  <2>1. ASSUME NEW c \in Conversation, CommitEvent(c) PROVE SessionInv' BY <2>1, CommitInv
  <2>2. ASSUME NEW c \in Conversation, Leave(c) \/ Rejoin(c) PROVE SessionInv'
    BY <2>2, ChangeInv
  <2> QED BY <1>6, <2>1, <2>2, ChangeInv DEF EnvironmentStep
<1>7. CASE UNCHANGED sessionVars
  <2> USE DEF sessionVars, environmentVars, runVars, writerVars, clientVars
  <2>1. SessionTypeOK' BY <1>7 DEF SessionInv, SessionTypeOK
  <2>2. Busy' BY <1>7 DEF SessionInv, Busy
  <2>3. Held' /\ Remembered' /\ Asked' BY <1>7, WriterKept DEF SessionInv
  <2> QED BY <2>1, <2>2, <2>3 DEF SessionInv
<1> QED BY <1>1, <1>2, <1>3, <1>4, <1>5, <1>6, <1>7 DEF SessionNext

-----------------------------------------------------------------------------
\* The inductive invariant of a stream.
THEOREM SessionInvariant == SessionSpec => []SessionInv
  BY SessionInitInv, SessionStepInv, PTL DEF SessionSpec

\* The queue never grows beyond its capacity, and all that run enqueues and write takes
\* are frames of conversations.
THEOREM SessionTypes == SessionSpec => []SessionTypeOK
<1>1. SessionInv => SessionTypeOK BY DEF SessionInv
<1> QED BY <1>1, SessionInvariant, PTL

\* No frame with content is written for a user who was logged out or no member all the
\* time since it left the queue, and no receipt of somebody else while they were hidden.
THEOREM ContentAlwaysAllowed == SessionSpec => []ContentAllowed
<1>1. SessionInv => ContentAllowed
  BY DEF SessionInv, ContentAllowed, Asked, Content
<1> QED BY <1>1, SessionInvariant, PTL

-----------------------------------------------------------------------------
(* The inductive invariant of the order of the frames                      *)

Cursors == 0..MaxEvents

\* Frame f takes a client that holds c for live from cursor a to cursor b.  A client
\* that learns that its subscription ended is no longer live, and so may be anywhere.
Moves(c, f, a, b) ==
  \/ f.conversation # c /\ b = a
  \/ f.conversation = c /\ f.kind \in {"ack", "reply", "error"} /\ b = a
  \/ f.conversation = c /\ f.kind = "sync" /\ f.sequence = a /\ b = a
  \/ f.conversation = c /\ f.kind \in {"event", "advance"} /\ f.sequence = a + 1 /\ b = a + 1
  \/ f.conversation = c /\ f.kind = "subscribed" /\ b = f.sequence
  \/ f.conversation = c /\ f.kind \in {"unsubscribed", "revoked"}

At(c, a) == c \in live => cursor[c] = a

\* Once write is done with the frame it holds, if any, a live client of c is at b.
Reaches(c, b) ==
  \/ ~Taken /\ At(c, b)
  \/ Taken /\ \E a \in Cursors : At(c, a) /\ Moves(c, current, a, b)

\* The frames of the queue take a live client of c from one cursor to the next, and at
\* the end of the queue it is where run is.
Trace(c, e) ==
  /\ Reaches(c, e[0])
  /\ \A i \in 1..Len(send) : Moves(c, send[i], e[i - 1], e[i])
  /\ c \in subscribed => e[Len(send)] = position[c]

Streaming(c) == \E e \in [0..Len(send) -> Cursors] : Trace(c, e)

Flowing == ~closing /\ writer # "ended" => \A c \in Conversation : Streaming(c)

\* Once the connection is to be closed write may take one more frame: the head of the
\* queue, or, if it is empty, the next that run enqueues.
LastFits ==
  closing /\ writer = "wait" =>
    \A c \in Conversation :
      IF send = <<>>
      THEN c \in subscribed => At(c, position[c])
      ELSE \E a, b \in Cursors : At(c, a) /\ Moves(c, Head(send), a, b)

HandFits == \A c \in Conversation : \E b \in Cursors : Reaches(c, b)

\* What run is about to enqueue for one conversation: a revocation, or the events after
\* its position, one by one, and perhaps the notice that there are no more.
Ordered(c, frames) ==
  \A k \in 1..Len(frames) :
    /\ frames[k].conversation = c
    /\ \/ frames[k].kind = "event" /\ frames[k].sequence = position[c] + k
       \/ frames[k].kind = "sync" /\ k = Len(frames) /\ frames[k].sequence = position[c] + k - 1

PushingOrdered ==
  run = "push" =>
    \E c \in Conversation :
      \/ Len(pushing) = 1 /\ pushing[1].conversation = c /\ pushing[1].kind = "revoked"
      \/ c \in subscribed /\ Ordered(c, pushing)

\* run replays subscriptions, and takes no command meanwhile.
Todo == todo \subseteq subscribed /\ (run = "select" => todo = {})

\* Nobody is ahead of the log of the conversation.
Past(f) ==
  f.kind \in {"subscribed", "event", "advance"} => f.sequence <= event_sequence[f.conversation]

AllPast ==
  /\ Taken => Past(current)
  /\ \A i \in 1..Len(send) : Past(send[i])
  /\ \A i \in 1..Len(pushing) : Past(pushing[i])
  /\ \A c \in subscribed : position[c] <= event_sequence[c]

Order ==
  /\ Flowing /\ LastFits /\ HandFits
  /\ PushingOrdered /\ Todo /\ AllPast

-----------------------------------------------------------------------------
(* Steps that leave the client and the writer alone                        *)

ClientFrame == <<writer, current, live, cursor>>

LEMMA ReachesKept ==
  ASSUME UNCHANGED ClientFrame, NEW c, NEW b
  PROVE  Reaches(c, b)' <=> Reaches(c, b)
  BY DEF ClientFrame, Reaches, Taken, At, Moves

\* The queue always starts with a frame that write may take next.
LEMMA HeadFits ==
  ASSUME SessionTypeOK, Flowing, ~closing, writer = "wait", NEW c \in Conversation
  PROVE  IF send = <<>>
         THEN c \in subscribed => At(c, position[c])
         ELSE \E a, b \in Cursors : At(c, a) /\ Moves(c, Head(send), a, b)
<1>1. PICK e \in [0..Len(send) -> Cursors] : Trace(c, e)
  BY DEF Flowing, Streaming
<1>2. At(c, e[0])
  BY <1>1 DEF Trace, Reaches, Taken
<1>3. CASE send = <<>>
  <2>1. Len(send) = 0 BY <1>3
  <2> QED BY <1>1, <1>2, <1>3, <2>1 DEF Trace
<1>4. CASE send # <<>>
  <2>1. Len(send) \in Nat /\ 1 \in 1..Len(send) /\ Head(send) = send[1]
    BY <1>4 DEF SessionTypeOK
  <2>2. Moves(c, send[1], e[1 - 1], e[1]) BY <1>1, <2>1 DEF Trace
  <2>3. e[0] \in Cursors /\ e[1] \in Cursors BY <2>1
  <2>4. Moves(c, Head(send), e[0], e[1]) BY <2>1, <2>2
  <2> QED BY <1>2, <1>4, <2>3, <2>4
<1> QED BY <1>3, <1>4

\* The queue stands, subscriptions may end, and the connection may be asked to close.
LEMMA QuietOrder ==
  ASSUME SessionTypeOK, Flowing, LastFits, HandFits,
         UNCHANGED <<send, position, ClientFrame>>, subscribed' \subseteq subscribed,
         closing => closing'
  PROVE  Flowing' /\ LastFits' /\ HandFits'
<1> USE DEF ClientFrame
<1>1. Flowing'
  <2> SUFFICES ASSUME ~closing', writer' # "ended", NEW c \in Conversation PROVE Streaming(c)'
    BY DEF Flowing
  <2>1. PICK e \in [0..Len(send) -> Cursors] : Trace(c, e)
    BY DEF Flowing, Streaming
  <2>2. Trace(c, e)'
    BY <2>1, ReachesKept DEF Trace, Moves
  <2> QED BY <2>2 DEF Streaming
<1>2. LastFits'
  <2> SUFFICES ASSUME writer = "wait", NEW c \in Conversation
               PROVE  IF send' = <<>>
                      THEN c \in subscribed' => At(c, position[c])'
                      ELSE \E a, b \in Cursors : At(c, a)' /\ Moves(c, Head(send'), a, b)
    BY DEF LastFits, At
  <2>1. IF send = <<>>
        THEN c \in subscribed => At(c, position[c])
        ELSE \E a, b \in Cursors : At(c, a) /\ Moves(c, Head(send), a, b)
    BY HeadFits DEF LastFits
  <2> QED BY <2>1 DEF At
<1>3. HandFits'
  BY ReachesKept DEF HandFits
<1> QED BY <1>1, <1>2, <1>3

\* run enqueues a frame that takes a live client from its position to its new position.
LEMMA EnqueueOrder ==
  ASSUME SessionTypeOK, Flowing, LastFits, HandFits, UNCHANGED ClientFrame,
         NEW f \in Frames, Enqueue(f),
         \A c \in Conversation : \A a \in Cursors :
           (c \in subscribed => a = position[c]) =>
             \E b \in Cursors :
               Moves(c, f, a, b) /\ (Len(send) < Capacity /\ c \in subscribed' => b = position'[c])
  PROVE  Flowing' /\ LastFits' /\ HandFits'
<1> DEFINE n == Len(send)
<1> USE DEF ClientFrame
<1>0. n \in Nat /\ send \in Seq(Frames) /\ subscribed \subseteq Conversation
  BY DEF SessionTypeOK
<1>1. HandFits'
  BY ReachesKept DEF HandFits
<1>2. CASE n < Capacity
  <2>1. send' = Append(send, f) /\ closing' = closing
    BY <1>2 DEF Enqueue
  <2>2. /\ Len(send') = n + 1 /\ send'[n + 1] = f
        /\ \A i \in 1..n : send'[i] = send[i]
    BY <1>0, <2>1
  <2>3. Flowing'
    <3> SUFFICES ASSUME ~closing, writer # "ended", NEW c \in Conversation PROVE Streaming(c)'
      BY <2>1 DEF Flowing
    <3>1. PICK e \in [0..n -> Cursors] : Trace(c, e)
      BY DEF Flowing, Streaming
    <3>2. PICK b \in Cursors : Moves(c, f, e[n], b) /\ (c \in subscribed' => b = position'[c])
      BY <1>0, <1>2, <3>1 DEF Trace
    <3>3. PICK g \in [0..(n + 1) -> Cursors] : g[n + 1] = b /\ \A i \in 0..n : g[i] = e[i]
      <4> DEFINE h == [i \in 0..(n + 1) |-> IF i = n + 1 THEN b ELSE e[i]]
      <4>1. h \in [0..(n + 1) -> Cursors] BY <1>0
      <4>2. h[n + 1] = b /\ \A i \in 0..n : h[i] = e[i] BY <1>0
      <4> HIDE DEF h
      <4> QED BY <4>1, <4>2
    <3>4. g[n + 1] = b /\ \A i \in 0..n : g[i] = e[i]
      BY <3>3
    <3>5. Reaches(c, g[0])'
      <4>1. g[0] = e[0] BY <1>0, <3>4
      <4>2. Reaches(c, e[0]) BY <3>1 DEF Trace
      <4> QED BY <4>1, <4>2, ReachesKept
    <3>6. \A i \in 1..(n + 1) : Moves(c, send'[i], g[i - 1], g[i])
      <4> TAKE i \in 1..(n + 1)
      <4>1. CASE i = n + 1
        <5>1. i - 1 = n /\ g[i - 1] = e[n] /\ g[i] = b BY <1>0, <3>4, <4>1
        <5> QED BY <2>2, <3>2, <4>1, <5>1
      <4>2. CASE i # n + 1
        <5>1. i \in 1..n /\ i - 1 \in 0..n /\ i \in 0..n BY <1>0, <4>2
        <5>2. Moves(c, send[i], e[i - 1], e[i]) BY <3>1, <5>1 DEF Trace
        <5> QED BY <2>2, <3>4, <5>1, <5>2
      <4> QED BY <4>1, <4>2
    <3>7. (\A i \in 1..Len(send) : Moves(c, send[i], g[i - 1], g[i]))'
      BY <2>2, <3>6 DEF Moves
    <3>8. Trace(c, g)'
      BY <2>2, <3>2, <3>4, <3>5, <3>7 DEF Trace
    <3>9. g \in [0..Len(send') -> Cursors]
      BY <2>2
    <3> QED BY <3>8, <3>9 DEF Streaming
  <2>4. LastFits'
    <3> SUFFICES ASSUME closing, writer = "wait", NEW c \in Conversation
                 PROVE  \E a, b \in Cursors : At(c, a)' /\ Moves(c, Head(send'), a, b)
      BY <1>0, <2>1, <2>2 DEF LastFits
    <3>1. CASE send = <<>>
      <4>1. Head(send') = f BY <2>1, <3>1
      <4>2. PICK a \in Cursors : At(c, a) /\ (c \in subscribed => a = position[c])
        <5>1. CASE c \in subscribed
          BY <3>1, <5>1 DEF LastFits, SessionTypeOK, Cursors
        <5>2. CASE c \notin subscribed
          BY <5>2 DEF At, SessionTypeOK, Cursors
        <5> QED BY <5>1, <5>2
      <4>3. PICK b \in Cursors : Moves(c, f, a, b)
        BY <4>2
      <4> QED BY <4>1, <4>2, <4>3 DEF At
    <3>2. CASE send # <<>>
      <4>1. Head(send') = Head(send) BY <1>0, <2>1, <3>2
      <4>2. PICK a \in Cursors, b \in Cursors : At(c, a) /\ Moves(c, Head(send), a, b)
        BY <3>2 DEF LastFits
      <4> QED BY <4>1, <4>2 DEF At
    <3> QED BY <3>1, <3>2
  <2> QED BY <1>1, <2>3, <2>4
<1>3. CASE ~(n < Capacity)
  <2>1. closing' = TRUE /\ send' = send
    BY <1>3 DEF Enqueue
  <2>2. send # <<>>
    BY <1>3, SessionAssumption
  <2>3. Flowing'
    BY <2>1 DEF Flowing
  <2>4. LastFits'
    <3> SUFFICES ASSUME writer = "wait", NEW c \in Conversation
                 PROVE  \E a, b \in Cursors : At(c, a)' /\ Moves(c, Head(send), a, b)
      BY <2>1, <2>2 DEF LastFits
    <3>1. PICK a \in Cursors, b \in Cursors : At(c, a) /\ Moves(c, Head(send), a, b)
      BY <2>2, HeadFits DEF LastFits
    <3> QED BY <3>1 DEF At
  <2> QED BY <1>1, <2>3, <2>4
<1> QED BY <1>2, <1>3

-----------------------------------------------------------------------------
(* The frames are in the past of the log                                   *)

LEMMA PastKept ==
  ASSUME SessionTypeOK, NEW f, Past(f),
         f.kind \in {"subscribed", "event", "advance"} => f.conversation \in Conversation /\ f.sequence \in Int,
         \A c \in Conversation : event_sequence'[c] \in Nat /\ event_sequence[c] <= event_sequence'[c]
  PROVE  Past(f)'
<1> SUFFICES ASSUME f.kind \in {"subscribed", "event", "advance"}
             PROVE  f.sequence <= event_sequence'[f.conversation]
  BY DEF Past
<1>1. f.conversation \in Conversation /\ f.sequence \in Int /\ event_sequence[f.conversation] \in Nat
  BY SessionAssumption DEF SessionTypeOK
<1>2. f.sequence <= event_sequence[f.conversation] BY DEF Past
<1> QED BY <1>1, <1>2

LEMMA PastSame == ASSUME event_sequence' = event_sequence, NEW f PROVE Past(f)' <=> Past(f)
  BY DEF Past

LEMMA EnqueuePast ==
  ASSUME SessionTypeOK, AllPast, event_sequence' = event_sequence,
         NEW f \in Frames, Past(f), Enqueue(f)
  PROVE  (\A i \in 1..Len(send) : Past(send[i]))'
<1> SUFFICES ASSUME NEW i \in 1..Len(send') PROVE Past(send'[i])
  BY PastSame DEF Past
<1>1. CASE send' = send
  BY <1>1 DEF AllPast
<1>2. CASE send' = Append(send, f)
  <2>1. send \in Seq(Frames) /\ Len(send) \in Nat BY DEF SessionTypeOK
  <2>2. Len(send') = Len(send) + 1 BY <1>2, <2>1
  <2>3. CASE i = Len(send) + 1
    <3>1. send'[i] = f BY <1>2, <2>1, <2>3
    <3> QED BY <3>1
  <2>4. CASE i # Len(send) + 1
    <3>1. i \in 1..Len(send) /\ send'[i] = send[i] BY <1>2, <2>1, <2>2, <2>4
    <3> QED BY <3>1 DEF AllPast
  <2> QED BY <2>3, <2>4
<1> QED BY <1>1, <1>2 DEF Enqueue

-----------------------------------------------------------------------------
(* run keeps the order                                                     *)

\* What a replay of a subscription enqueues is in order, and in the past of the log.
LEMMA ReplayedOrdered ==
  ASSUME SessionTypeOK, NEW c \in Conversation, position[c] <= event_sequence[c]
  PROVE  /\ Ordered(c, Replayed(c, position[c]))
         /\ \A k \in 1..Len(Replayed(c, position[c])) : Past(Replayed(c, position[c])[k])
<1> DEFINE i == position[c]
           t == Through(c, i)
           n == t - i
           events == [k \in 1..n |-> Frame("event", c, i + k)]
           notice == IF t = event_sequence[c] /\ (initial \/ t > i)
                     THEN <<Frame("sync", c, t)>> ELSE <<>>
           all == Replayed(c, i)
<1>1. i \in Nat /\ event_sequence[c] \in Nat /\ Batch \in Nat /\ MaxEvents \in Nat
  BY SessionAssumption DEF SessionTypeOK
<1>2. t \in Nat /\ n \in Nat /\ t <= event_sequence[c] /\ i + n = t
  BY <1>1 DEF Through
<1>3. all = events \o notice
  BY DEF Replayed
<1> HIDE DEF t, n, all
<1> DEFINE S == {Frame("event", c, i + k) : k \in 1..n} \cup {Frame("sync", c, t)}
<1>4. /\ events \in Seq(S) /\ Len(events) = n
      /\ \A k \in 1..n : events[k] = Frame("event", c, i + k)
  <2>1. events \in [1..n -> S] OBVIOUS
  <2>2. \A k \in 1..n : events[k] = Frame("event", c, i + k) OBVIOUS
  <2> HIDE DEF events, S
  <2> QED BY <1>2, <2>1, <2>2
<1>5. /\ notice \in Seq(S) /\ Len(notice) \in {0, 1}
      /\ Len(notice) = 1 => notice[1] = Frame("sync", c, t)
  <2> DEFINE g == Frame("sync", c, t)
  <2>1. g \in S OBVIOUS
  <2>2. notice = <<>> \/ notice = <<g>> OBVIOUS
  <2> HIDE DEF g, S, notice
  <2>3. <<>> \in Seq(S) /\ Len(<<>>) = 0 BY EmptySeq
  <2>4. <<g>> \in Seq(S) /\ Len(<<g>>) = 1 /\ <<g>>[1] = g BY <2>1
  <2>5. notice \in Seq(S) /\ Len(notice) \in {0, 1} /\ (Len(notice) = 1 => notice[1] = g)
    <3>1. CASE notice = <<>> BY <2>3, <3>1
    <3>2. CASE notice = <<g>> BY <2>4, <3>2
    <3> QED BY <2>2, <3>1, <3>2
  <2> QED BY <2>5 DEF g
<1> HIDE DEF events, notice, S
<1>6. /\ Len(all) = n + Len(notice)
      /\ \A k \in 1..n : all[k] = Frame("event", c, i + k)
      /\ Len(notice) = 1 => all[n + 1] = Frame("sync", c, t)
  <2>2. /\ Len(all) = Len(events) + Len(notice)
        /\ \A k \in 1..Len(all) : all[k] = IF k <= Len(events) THEN events[k]
                                            ELSE notice[k - Len(events)]
    BY <1>3, <1>4, <1>5, ConcatProperties
  <2> QED BY <1>2, <1>4, <1>5, <2>2
<1>7. ASSUME NEW k \in 1..Len(all)
      PROVE  /\ all[k].conversation = c /\ Past(all[k])
             /\ \/ all[k].kind = "event" /\ all[k].sequence = i + k
                \/ all[k].kind = "sync" /\ k = Len(all) /\ all[k].sequence = i + k - 1
  <2>1. CASE k \in 1..n
    <3>1. all[k] = Frame("event", c, i + k) BY <1>6, <2>1
    <3>2. i + k <= event_sequence[c] BY <1>1, <1>2, <2>1
    <3> QED BY <3>1, <3>2 DEF Frame, Past
  <2>2. CASE k \notin 1..n
    <3>1. Len(notice) \in {0, 1} BY <1>5
    <3>2. k \in 1..(n + Len(notice)) BY <1>6, <1>7
    <3>3. Len(all) = n + Len(notice) BY <1>6
    <3>4. ASSUME Len(notice) = 0 PROVE k = n + 1 /\ Len(notice) = 1 /\ k = Len(all)
      <4>1. k \in 1..n BY <1>2, <3>2, <3>4
      <4> QED BY <2>2, <4>1
    <3>5. ASSUME Len(notice) = 1 PROVE k = n + 1 /\ Len(notice) = 1 /\ k = Len(all)
      <4>1. k = n + 1 BY <1>2, <2>2, <3>2, <3>5
      <4> QED BY <3>3, <3>5, <4>1
    <3>6. k = n + 1 /\ Len(notice) = 1 /\ k = Len(all) BY <3>1, <3>4, <3>5
    <3>7. all[k] = Frame("sync", c, t) BY <1>6, <3>6
    <3>8. t = i + k - 1 BY <1>1, <1>2, <3>6
    <3> QED BY <3>6, <3>7, <3>8 DEF Frame, Past
  <2> QED BY <2>1, <2>2
<1> QED BY <1>7 DEF Ordered, all

\* run ends.
LEMMA DisconnectOrder ==
  ASSUME SessionInv, Order, Unauthenticated \/ RunVerifyFails \/ Cancelled
  PROVE  Order'
<1> USE DEF Order, Unauthenticated, RunVerifyFails, Cancelled, Disconnect, environmentVars,
        writerVars, clientVars
<1>1. Flowing' /\ LastFits' /\ HandFits'
  <2>1. UNCHANGED <<send, position, ClientFrame>> /\ subscribed' = subscribed /\ (closing => closing')
    BY DEF ClientFrame
  <2> QED BY <2>1, QuietOrder DEF SessionInv
<1>2. PushingOrdered' /\ Todo'
  BY DEF PushingOrdered, Todo
<1>3. AllPast'
  BY DEF AllPast, Taken, Past
<1> QED BY <1>1, <1>2, <1>3

\* A subscription that is confirmed starts at the cursor it asks for.
LEMMA SubscribeOrder ==
  ASSUME SessionInv, Order, NEW c \in Conversation, NEW after \in 0..MaxEvents, Subscribe(c, after)
  PROVE  Order'
<1> DEFINE accepted == /\ c \in subscribed \/ Cardinality(subscribed) < MaxSubscriptions
                       /\ c \in access /\ after <= event_sequence[c]
<1>0. /\ SessionTypeOK /\ 0 \in 0..MaxEvents
      /\ UNCHANGED <<ClientFrame, event_sequence, pushing>>
      /\ run = "select"
  BY SessionAssumption DEF Subscribe, SessionInv, environmentVars, writerVars, clientVars, ClientFrame
<1>1. CASE accepted
  <2> DEFINE f == Frame("subscribed", c, after)
  <2>1. /\ Enqueue(f) /\ subscribed' = subscribed \cup {c} /\ position' = [position EXCEPT ![c] = after]
        /\ run' = "replay" /\ todo' = {c}
    BY <1>1 DEF Subscribe
  <2>2. f \in Frames /\ Past(f)
    BY <1>0, <1>1, FrameType DEF Kinds, Past, Frame
  <2>3. \A d \in Conversation : \A a \in Cursors :
          (d \in subscribed => a = position[d]) =>
            \E b \in Cursors :
              Moves(d, f, a, b) /\ (Len(send) < Capacity /\ d \in subscribed' => b = position'[d])
    <3> SUFFICES ASSUME NEW d \in Conversation, NEW a \in Cursors, d \in subscribed => a = position[d]
                 PROVE  \E b \in Cursors : Moves(d, f, a, b) /\ (d \in subscribed' => b = position'[d])
      OBVIOUS
    <3>1. CASE d = c
      <4>1. Moves(d, f, a, after) /\ after = position'[d] /\ after \in Cursors
        BY <1>0, <2>1, <3>1 DEF Moves, Frame, SessionTypeOK, Cursors
      <4> QED BY <4>1
    <3>2. CASE d # c
      <4>1. Moves(d, f, a, a) /\ (d \in subscribed' => a = position'[d])
        BY <1>0, <2>1, <3>2 DEF Moves, Frame, SessionTypeOK
      <4> QED BY <4>1
    <3> QED BY <3>1, <3>2
  <2> HIDE DEF f
  <2>4. Flowing' /\ LastFits' /\ HandFits'
    BY <1>0, <2>1, <2>2, <2>3, EnqueueOrder DEF Order
  <2>5. PushingOrdered' /\ Todo'
    BY <2>1 DEF PushingOrdered, Todo
  <2>6. AllPast'
    <3>1. (\A i \in 1..Len(send) : Past(send[i]))'
      BY <1>0, <2>1, <2>2, EnqueuePast DEF Order
    <3>2. \A d \in subscribed' : position'[d] <= event_sequence'[d]
      BY <1>0, <1>1, <2>1 DEF Order, AllPast, SessionTypeOK
    <3> QED BY <1>0, <3>1, <3>2 DEF Order, AllPast, Taken, Past, ClientFrame
  <2> QED BY <2>4, <2>5, <2>6 DEF Order
<1>2. CASE ~accepted
  <2> DEFINE f == Frame("error", c, 0)
  <2>1. Enqueue(f) /\ UNCHANGED <<subscribed, position, run, todo>>
    BY <1>2 DEF Subscribe
  <2>2. f \in Frames /\ Past(f)
    BY <1>0, FrameType DEF Kinds, Past, Frame
  <2>3. \A d \in Conversation : \A a \in Cursors : Moves(d, f, a, a)
    BY DEF Moves, Frame
  <2> HIDE DEF f
  <2>4. Flowing' /\ LastFits' /\ HandFits'
    BY <1>0, <2>1, <2>2, <2>3, EnqueueOrder DEF Order
  <2>5. PushingOrdered' /\ Todo'
    BY <1>0, <2>1 DEF Order, PushingOrdered, Todo
  <2>6. AllPast'
    <3>1. (\A i \in 1..Len(send) : Past(send[i]))'
      BY <1>0, <2>1, <2>2, EnqueuePast DEF Order
    <3> QED BY <1>0, <2>1, <3>1 DEF Order, AllPast, Taken, Past, ClientFrame
  <2> QED BY <2>4, <2>5, <2>6 DEF Order
<1> QED BY <1>1, <1>2

LEMMA CommandOrder ==
  ASSUME SessionInv, Order, NEW c \in Conversation, Unsubscribe(c) \/ OtherCommand(c)
  PROVE  Order'
<1>0. /\ SessionTypeOK /\ 0 \in 0..MaxEvents
      /\ UNCHANGED <<ClientFrame, event_sequence, pushing, position, run, todo>>
      /\ run = "select" /\ subscribed' \subseteq subscribed
  BY SessionAssumption DEF Unsubscribe, OtherCommand, SessionInv, environmentVars, runVars, writerVars,
                           clientVars, ClientFrame
<1>1. PICK kind \in {"unsubscribed", "ack", "reply", "error"} :
        Enqueue(Frame(kind, c, 0)) /\ (kind = "unsubscribed" => c \notin subscribed')
  BY DEF Unsubscribe, OtherCommand
<1> DEFINE f == Frame(kind, c, 0)
<1>2. f \in Frames /\ Past(f)
  BY <1>0, FrameType DEF Kinds, Past, Frame
<1>3. \A d \in Conversation : \A a \in Cursors : Moves(d, f, a, a)
  BY DEF Moves, Frame
<1>4. Enqueue(f) BY <1>1
<1> HIDE DEF f
<1>5. Flowing' /\ LastFits' /\ HandFits'
  BY <1>0, <1>2, <1>3, <1>4, EnqueueOrder DEF Order
<1>6. PushingOrdered' /\ Todo'
  BY <1>0 DEF Order, PushingOrdered, Todo
<1>7. AllPast'
  <2>1. (\A i \in 1..Len(send) : Past(send[i]))'
    BY <1>0, <1>2, <1>4, EnqueuePast DEF Order
  <2> QED BY <1>0, <2>1 DEF Order, AllPast, Taken, Past, ClientFrame
<1> QED BY <1>5, <1>6, <1>7 DEF Order

LEMMA CatchUpOrder ==
  ASSUME SessionInv, Order, CatchUp \/ \E c \in Conversation : Defer(c) \/ ReplayFails(c)
  PROVE  Order'
<1>0. /\ SessionTypeOK
      /\ UNCHANGED <<ClientFrame, event_sequence, pushing, position, subscribed, send>>
      /\ closing => closing'
      /\ run' # "push"
  BY DEF CatchUp, Defer, ReplayFails, After, SessionInv, environmentVars, writerVars, clientVars, ClientFrame
<1>1. Flowing' /\ LastFits' /\ HandFits'
  BY <1>0, QuietOrder DEF Order
<1>2. PushingOrdered'
  BY <1>0 DEF PushingOrdered
<1>3. Todo'
  BY <1>0 DEF CatchUp, Defer, ReplayFails, After, Order, Todo
<1>4. AllPast'
  BY <1>0 DEF Order, AllPast, Taken, Past, ClientFrame
<1> QED BY <1>1, <1>2, <1>3, <1>4 DEF Order

LEMMA ReplayOrder ==
  ASSUME SessionInv, Order, NEW c \in Conversation, Replay(c)
  PROVE  Order'
<1>0. /\ SessionTypeOK
      /\ UNCHANGED <<ClientFrame, event_sequence, position, closing, send>>
      /\ subscribed' \subseteq subscribed /\ c \in todo /\ todo' = todo \ {c}
      /\ run' = (IF pushing' = <<>> THEN After(todo') ELSE "push")
  BY DEF Replay, ReplayDue, SessionInv, environmentVars, writerVars, clientVars, ClientFrame
<1>1. Flowing' /\ LastFits' /\ HandFits'
  BY <1>0, QuietOrder DEF Order
<1>2. todo' \subseteq subscribed'
  BY <1>0 DEF Replay, Order, Todo
<1>3. Todo'
  BY <1>0, <1>2 DEF Todo, After
<1>4. CASE c \in access
  <2>1. pushing' = Replayed(c, position[c]) /\ subscribed' = subscribed
    BY <1>4 DEF Replay
  <2>2. position[c] <= event_sequence[c] /\ c \in subscribed
    BY <1>0 DEF Order, AllPast, Todo
  <2>3. /\ Ordered(c, pushing')
        /\ \A k \in 1..Len(pushing') : Past(pushing'[k])
    BY <1>0, <2>1, <2>2, ReplayedOrdered
  <2>4. Ordered(c, pushing)'
    BY <1>0, <2>3 DEF Ordered
  <2>5. PushingOrdered'
    BY <2>1, <2>2, <2>4 DEF PushingOrdered
  <2>6. AllPast'
    BY <1>0, <2>1, <2>3 DEF Order, AllPast, Taken, Past, ClientFrame
  <2> QED BY <1>1, <1>3, <2>5, <2>6 DEF Order
<1>5. CASE c \notin access
  <2>1. pushing' = <<Frame("revoked", c, 0)>>
    BY <1>5 DEF Replay
  <2>2. Len(pushing') = 1 /\ pushing'[1].conversation = c /\ pushing'[1].kind = "revoked"
    BY <2>1 DEF Frame
  <2>3. PushingOrdered'
    BY <2>2 DEF PushingOrdered
  <2>4. \A k \in 1..Len(pushing') : Past(pushing'[k])
    BY <2>2 DEF Past
  <2>5. AllPast'
    BY <1>0, <2>4 DEF Order, AllPast, Taken, Past, ClientFrame
  <2> QED BY <1>1, <1>3, <2>3, <2>5 DEF Order
<1> QED BY <1>4, <1>5

\* The position of run follows the frame it enqueues.
LEMMA PushOrder ==
  ASSUME SessionInv, Order, Push
  PROVE  Order'
<1> DEFINE f == Head(pushing)
<1>0. /\ SessionTypeOK /\ run = "push" /\ pushing # <<>> /\ pushing \in Seq(Frames)
      /\ UNCHANGED <<ClientFrame, event_sequence, subscribed, todo>>
      /\ Enqueue(f)
      /\ pushing' = (IF Len(send) < Capacity THEN Tail(pushing) ELSE <<>>)
      /\ run' = (IF pushing' = <<>> THEN After(todo) ELSE "push")
  BY DEF Push, SessionInv, Busy, SessionTypeOK, environmentVars, writerVars, clientVars, ClientFrame
<1>1. /\ f \in Frames /\ f = pushing[1] /\ Len(pushing) \in Nat \ {0}
      /\ Tail(pushing) \in Seq(Frames) /\ Len(Tail(pushing)) = Len(pushing) - 1
      /\ \A k \in 1..Len(Tail(pushing)) : Tail(pushing)[k] = pushing[k + 1]
  BY <1>0, HeadTailProperties
<1>2. position' = IF Len(send) < Capacity /\ f.kind = "event"
                  THEN [position EXCEPT ![f.conversation] = f.sequence] ELSE position
  BY DEF Push
<1>3. PICK c \in Conversation :
        \/ Len(pushing) = 1 /\ f.conversation = c /\ f.kind = "revoked"
        \/ c \in subscribed /\ Ordered(c, pushing)
  BY <1>0, <1>1 DEF Order, PushingOrdered
<1>4. Past(f)
  BY <1>1 DEF Order, AllPast
<1> HIDE DEF f
<1>5. \/ f.kind = "revoked" /\ Len(pushing) = 1
      \/ /\ c \in subscribed /\ f.conversation = c
         /\ \/ f.kind = "event" /\ f.sequence = position[c] + 1
            \/ f.kind = "sync" /\ f.sequence = position[c]
  <2>1. position[c] \in Int BY <1>0 DEF SessionTypeOK
  <2>2. 1 \in 1..Len(pushing) BY <1>1
  <2>3. CASE Len(pushing) = 1 /\ f.conversation = c /\ f.kind = "revoked"
    BY <2>3
  <2>4. CASE c \in subscribed /\ Ordered(c, pushing)
    <3>1. /\ f.conversation = c
          /\ \/ f.kind = "event" /\ f.sequence = position[c] + 1
             \/ f.kind = "sync" /\ f.sequence = position[c] + 1 - 1
      BY <1>1, <2>2, <2>4 DEF Ordered
    <3> QED BY <2>1, <2>4, <3>1
  <2> QED BY <1>3, <2>3, <2>4
<1>6. \A d \in Conversation : \A a \in Cursors :
        (d \in subscribed => a = position[d]) =>
          \E b \in Cursors :
            Moves(d, f, a, b) /\ (Len(send) < Capacity /\ d \in subscribed' => b = position'[d])
  <2> SUFFICES ASSUME NEW d \in Conversation, NEW a \in Cursors, d \in subscribed => a = position[d]
               PROVE  \E b \in Cursors :
                        Moves(d, f, a, b) /\ (Len(send) < Capacity /\ d \in subscribed' => b = position'[d])
    OBVIOUS
  <2>1. CASE d = f.conversation /\ f.kind = "event"
    <3>1. f.sequence \in Cursors /\ f.sequence = a + 1
      BY <1>1, <1>5, <2>1 DEF Frames, Cursors
    <3>2. Moves(d, f, a, f.sequence) /\ (Len(send) < Capacity => f.sequence = position'[d])
      BY <1>0, <1>2, <2>1, <3>1 DEF Moves, SessionTypeOK
    <3> QED BY <3>1, <3>2
  <2>2. CASE d = f.conversation /\ f.kind # "event"
    <3>1. Moves(d, f, a, a)
      BY <1>5, <2>2 DEF Moves
    <3> QED BY <1>0, <1>2, <2>2, <3>1
  <2>3. CASE d # f.conversation
    <3>1. Moves(d, f, a, a) /\ position'[d] = position[d]
      BY <1>0, <1>2, <2>3 DEF Moves, SessionTypeOK
    <3> QED BY <1>0, <3>1
  <2> QED BY <2>1, <2>2, <2>3
<1>7. Flowing' /\ LastFits' /\ HandFits'
  BY <1>0, <1>1, <1>6, EnqueueOrder DEF Order
<1>8. Todo'
  BY <1>0 DEF Order, Todo, After
<1>9. PushingOrdered'
  <2> SUFFICES ASSUME run' = "push"
               PROVE  c \in subscribed' /\ Ordered(c, pushing)'
    BY DEF PushingOrdered
  <2>1. pushing' # <<>>
    BY <1>0 DEF After
  <2>2. pushing' = Tail(pushing) /\ Len(send) < Capacity
    BY <1>0, <2>1
  <2>3. Len(pushing) > 1
    BY <1>1, <2>1, <2>2
  <2>4. c \in subscribed /\ Ordered(c, pushing)
    <3>1. Len(pushing) # 1 BY <1>1, <2>3
    <3> QED BY <1>3, <3>1
  <2>5. f.conversation = c /\ f.kind = "event" /\ f.sequence = position[c] + 1
    <3>1. 1 \in 1..Len(pushing) /\ 1 # Len(pushing) BY <1>1, <2>3
    <3> QED BY <1>1, <2>4, <3>1 DEF Ordered
  <2>6. position'[c] = position[c] + 1 /\ position[c] \in Nat
    BY <1>0, <1>2, <2>2, <2>5 DEF SessionTypeOK
  <2>7. ASSUME NEW k \in 1..Len(pushing')
        PROVE  /\ pushing'[k].conversation = c
               /\ \/ pushing'[k].kind = "event" /\ pushing'[k].sequence = position'[c] + k
                  \/ /\ pushing'[k].kind = "sync" /\ k = Len(pushing')
                     /\ pushing'[k].sequence = position'[c] + k - 1
    <3>1. k + 1 \in 1..Len(pushing) /\ pushing'[k] = pushing[k + 1]
      BY <1>1, <2>2
    <3>2. /\ pushing[k + 1].conversation = c
          /\ \/ pushing[k + 1].kind = "event" /\ pushing[k + 1].sequence = position[c] + (k + 1)
             \/ /\ pushing[k + 1].kind = "sync" /\ k + 1 = Len(pushing)
                /\ pushing[k + 1].sequence = position[c] + (k + 1) - 1
      BY <2>4, <3>1 DEF Ordered
    <3>3. Len(pushing') = Len(pushing) - 1 /\ k \in Nat
      BY <1>1, <2>2
    <3>4. CASE pushing[k + 1].kind = "event" /\ pushing[k + 1].sequence = position[c] + (k + 1)
      BY <2>6, <3>1, <3>2, <3>3, <3>4
    <3>5. CASE /\ pushing[k + 1].kind = "sync" /\ k + 1 = Len(pushing)
               /\ pushing[k + 1].sequence = position[c] + (k + 1) - 1
      <4>0. Len(pushing) \in Nat BY <1>1
      <4>1. k = Len(pushing') BY <3>3, <3>5, <4>0
      <4>2. pushing'[k].sequence = position'[c] + k - 1 BY <2>6, <3>1, <3>3, <3>5
      <4> QED BY <3>1, <3>2, <3>5, <4>1, <4>2
    <3> QED BY <3>2, <3>4, <3>5
  <2> QED BY <1>0, <2>4, <2>7 DEF Ordered
<1>10. AllPast'
  <2>1. (\A i \in 1..Len(send) : Past(send[i]))'
    BY <1>0, <1>1, <1>4, EnqueuePast DEF Order
  <2>2. \A k \in 1..Len(pushing') : Past(pushing'[k])
    <3>1. CASE pushing' = Tail(pushing)
      BY <1>1, <3>1 DEF Order, AllPast
    <3>2. CASE pushing' = <<>>
      BY <3>2
    <3> QED BY <1>0, <3>1, <3>2
  <2>3. \A d \in subscribed' : position'[d] <= event_sequence'[d]
    BY <1>0, <1>2, <1>4 DEF Order, AllPast, Past, SessionTypeOK
  <2> QED BY <1>0, <2>1, <2>2, <2>3 DEF Order, AllPast, Taken, Past, ClientFrame
<1> QED BY <1>7, <1>8, <1>9, <1>10 DEF Order

-----------------------------------------------------------------------------
(* write keeps the order                                                   *)

RunFrame == <<event_sequence, subscribed, position, run, todo, pushing>>

\* What concerns run alone stays, and so does the past while the hand holds what it held.
LEMMA RunKept ==
  ASSUME Order, UNCHANGED <<RunFrame, send>>, Taken' => Past(current')
  PROVE  PushingOrdered' /\ Todo' /\ AllPast'
<1>1. PushingOrdered' /\ Todo'
  BY DEF RunFrame, Order, PushingOrdered, Ordered, Todo
<1>2. AllPast'
  BY DEF RunFrame, Order, AllPast, Past
<1> QED BY <1>1, <1>2

\* write has no frame any more, and perhaps has ended.
LEMMA WriterRestOrder ==
  ASSUME SessionInv, Order, Top \/ CloseFirst \/ VerifyFails \/ RereadFails \/ WriteFails
  PROVE  Order'
<1> USE DEF Top, CloseFirst, VerifyFails, RereadFails, WriteFails, WriterFrame, environmentVars, runVars,
        clientVars
<1>0. /\ UNCHANGED <<RunFrame, send, live, cursor>> /\ ~Taken' /\ SessionTypeOK
      /\ (~closing' /\ writer' # "ended") => writer = "top" /\ ~closing
      /\ ~(closing' /\ writer' = "wait")
  BY DEF RunFrame, Taken, SessionInv, SessionTypeOK
<1>1. PushingOrdered' /\ Todo' /\ AllPast'
  BY <1>0, RunKept
<1>2. Flowing'
  <2> SUFFICES ASSUME writer = "top", ~closing, NEW c \in Conversation PROVE Streaming(c)'
    BY <1>0 DEF Flowing
  <2>1. PICK e \in [0..Len(send) -> Cursors] : Trace(c, e)
    BY DEF Order, Flowing, Streaming
  <2>2. Trace(c, e)'
    BY <1>0, <2>1 DEF Trace, Reaches, Taken, At, Moves, RunFrame
  <2> QED BY <1>0, <2>2 DEF Streaming
<1>3. LastFits'
  BY <1>0 DEF LastFits
<1>4. HandFits'
  BY <1>0 DEF HandFits, Reaches, At, SessionTypeOK, Cursors
<1> QED BY <1>1, <1>2, <1>3, <1>4 DEF Order

\* The head of the queue goes to the hand.
LEMMA TakeOrder ==
  ASSUME SessionInv, Order, Take
  PROVE  Order'
<1> USE DEF Take, WriterFrame, environmentVars, runVars, clientVars
<1>0. /\ UNCHANGED <<event_sequence, subscribed, position, run, todo, pushing, live, cursor, closing>>
      /\ SessionTypeOK /\ writer = "wait" /\ ~Taken /\ Taken' /\ send # <<>>
      /\ current' = Head(send) /\ send' = Tail(send)
  BY DEF Taken, SessionInv
<1> DEFINE n == Len(send)
<1>1. /\ n \in Nat \ {0} /\ Head(send) = send[1] /\ Len(send') = n - 1
      /\ \A i \in 1..(n - 1) : send'[i] = send[i + 1]
  BY <1>0, HeadTailProperties DEF SessionTypeOK
<1>2. PushingOrdered' /\ Todo'
  BY <1>0 DEF Order, PushingOrdered, Ordered, Todo
<1>3. AllPast'
  <2>1. Past(send[1]) /\ \A i \in 1..(n - 1) : Past(send[i + 1])
    BY <1>1 DEF Order, AllPast
  <2>2. (\A i \in 1..Len(send) : Past(send[i]))'
    BY <1>0, <1>1, <2>1 DEF Past
  <2>3. Past(current)'
    BY <1>0, <1>1, <2>1 DEF Past
  <2> QED BY <1>0, <2>2, <2>3 DEF Order, AllPast, Past
<1>4. ASSUME ~closing, NEW c \in Conversation
      PROVE  Streaming(c)'
  <2>1. PICK e \in [0..n -> Cursors] : Trace(c, e)
    BY <1>0, <1>4 DEF Order, Flowing, Streaming
  <2>2. PICK g \in [0..(n - 1) -> Cursors] : \A i \in 0..(n - 1) : g[i] = e[i + 1]
    <3> DEFINE h == [i \in 0..(n - 1) |-> e[i + 1]]
    <3>1. h \in [0..(n - 1) -> Cursors] BY <1>1
    <3>2. \A i \in 0..(n - 1) : h[i] = e[i + 1] OBVIOUS
    <3> HIDE DEF h
    <3> QED BY <3>1, <3>2
  <2>3. At(c, e[0]) /\ Moves(c, send[1], e[0], e[1]) /\ e[0] \in Cursors
    <3>1. Moves(c, send[1], e[1 - 1], e[1]) BY <1>1, <2>1 DEF Trace
    <3> QED BY <1>0, <1>1, <2>1, <3>1 DEF Trace, Reaches
  <2>4. Reaches(c, g[0])'
    <3>1. g[0] = e[1] BY <1>1, <2>2
    <3>2. At(c, e[0])' /\ Moves(c, current', e[0], g[0])
      BY <1>0, <1>1, <2>3, <3>1 DEF At
    <3> QED BY <1>0, <2>3, <3>2 DEF Reaches, Moves
  <2>5. \A i \in 1..(n - 1) : Moves(c, send'[i], g[i - 1], g[i])
    <3> TAKE i \in 1..(n - 1)
    <3>1. i + 1 \in 1..n /\ g[i - 1] = e[i] /\ g[i] = e[i + 1] /\ (i + 1) - 1 = i
      BY <1>1, <2>2
    <3>2. Moves(c, send[i + 1], e[(i + 1) - 1], e[i + 1]) BY <2>1, <3>1 DEF Trace
    <3> QED BY <1>1, <3>1, <3>2
  <2>6. (\A i \in 1..Len(send) : Moves(c, send[i], g[i - 1], g[i]))'
    BY <1>1, <2>5 DEF Moves
  <2>7. g[n - 1] = e[n]
    BY <1>1, <2>2
  <2>8. Trace(c, g)'
    BY <1>0, <1>1, <2>1, <2>4, <2>6, <2>7 DEF Trace
  <2> QED BY <1>1, <2>8 DEF Streaming
<1>5. Flowing'
  BY <1>0, <1>4 DEF Flowing
<1>6. LastFits'
  BY <1>0 DEF LastFits
<1>7. HandFits'
  <2> SUFFICES ASSUME NEW c \in Conversation PROVE (\E b \in Cursors : Reaches(c, b))'
    BY DEF HandFits
  <2>1. PICK a \in Cursors, b \in Cursors : At(c, a) /\ Moves(c, Head(send), a, b)
    BY <1>0, HeadFits DEF Order, LastFits
  <2>2. At(c, a)' /\ Moves(c, current', a, b)
    BY <1>0, <2>1 DEF At
  <2> QED BY <1>0, <2>2 DEF Reaches, Moves
<1> QED BY <1>2, <1>3, <1>5, <1>6, <1>7 DEF Order

\* A frame that is authorised or read again moves the client as before, or not at all
\* because it has become a revocation.
LEMMA HandOrder ==
  ASSUME SessionInv, Order, Taken, Taken' \/ writer' = "ended",
         UNCHANGED <<RunFrame, send, live, cursor, closing>>,
         Taken' => /\ \A c \in Conversation : \A a, b \in Cursors :
                        Moves(c, current, a, b) => Moves(c, current', a, b)
                   /\ Past(current')
  PROVE  Order'
<1>1. PushingOrdered' /\ Todo' /\ AllPast'
  BY RunKept
<1>2. SessionTypeOK /\ \A c \in Conversation : cursor[c] \in Cursors
  BY DEF SessionInv, SessionTypeOK, Cursors
<1>3. ASSUME Taken', NEW c \in Conversation, NEW b \in Cursors, Reaches(c, b)
      PROVE  Reaches(c, b)'
  <2>1. PICK a \in Cursors : At(c, a) /\ Moves(c, current, a, b)
    BY <1>3 DEF Reaches
  <2>2. At(c, a)' /\ Moves(c, current', a, b)
    BY <1>3, <2>1 DEF At
  <2> QED BY <1>3, <2>2 DEF Reaches, Moves
<1>4. Flowing'
  <2> SUFFICES ASSUME ~closing, writer' # "ended", NEW c \in Conversation PROVE Streaming(c)'
    BY DEF Flowing
  <2>1. PICK e \in [0..Len(send) -> Cursors] : Trace(c, e)
    BY DEF Order, Flowing, Streaming, Taken
  <2>0. Len(send) \in Nat
    BY <1>2 DEF SessionTypeOK
  <2>2. e[0] \in Cursors /\ Reaches(c, e[0])
    BY <2>0, <2>1 DEF Trace
  <2>3. Reaches(c, e[0])'
    BY <1>3, <2>2
  <2>4. Trace(c, e)'
    BY <2>1, <2>3 DEF Trace, Moves, RunFrame
  <2> QED BY <2>4 DEF Streaming
<1>5. LastFits'
  BY DEF LastFits, Taken
<1>6. HandFits'
  <2>1. CASE Taken'
    BY <1>3, <2>1 DEF Order, HandFits
  <2>2. CASE ~Taken'
    BY <1>2, <2>2 DEF HandFits, Reaches, At
  <2> QED BY <2>1, <2>2
<1> QED BY <1>1, <1>4, <1>5, <1>6 DEF Order

LEMMA VerifyOrder ==
  ASSUME SessionInv, Order, Verify \/ Authorise \/ AuthoriseFails \/ Reread
  PROVE  Order'
<1> USE DEF Verify, Authorise, AuthoriseFails, Reread, WriterFrame, environmentVars, runVars, clientVars
<1>1. /\ Taken /\ (Taken' \/ writer' = "ended") /\ UNCHANGED <<RunFrame, send, live, cursor, closing>>
      /\ current \in Frames
  BY DEF Taken, RunFrame, SessionInv, Held
<1>2. \/ current' = current
      \/ current' = Revocation
      \/ current.kind = "event" /\ current' = [current EXCEPT !.kind = "advance"]
  BY DEF SessionInv, Held
<1>3. Past(current)
  BY <1>1 DEF Order, AllPast
<1> HIDE DEF Verify, Authorise, AuthoriseFails, Reread, WriterFrame, environmentVars, runVars, clientVars
<1>4. Past(current') /\ \A c \in Conversation : \A a, b \in Cursors :
                          Moves(c, current, a, b) => Moves(c, current', a, b)
  <2>1. CASE current' = current
    BY <1>3, <2>1
  <2>2. CASE current' = Revocation
    <3>1. current'.kind = "revoked" /\ current'.conversation = current.conversation
      BY <1>1, <2>2, RevocationType
    <3> QED BY <3>1 DEF Moves, Past
  <2>3. CASE current.kind = "event" /\ current' = [current EXCEPT !.kind = "advance"]
    <3>1. /\ current'.kind = "advance" /\ current'.conversation = current.conversation
          /\ current'.sequence = current.sequence
      BY <1>1, <2>3 DEF Frames
    <3> QED BY <1>3, <2>3, <3>1 DEF Moves, Past
  <2> QED BY <1>2, <2>1, <2>2, <2>3
<1> QED BY <1>1, <1>4, HandOrder

\* The frame reaches the client, which moves as the trace says.
LEMMA WriteOrder ==
  ASSUME SessionInv, Order, Write
  PROVE  Order'
<1> DEFINE d == current.conversation
<1>0. /\ Taken /\ ~Taken' /\ writer' = "top" /\ UNCHANGED <<RunFrame, send, closing>>
      /\ current \in Frames /\ SessionTypeOK
      /\ live' = (CASE current.kind = "subscribed" -> live \cup {d}
                    [] current.kind \in {"unsubscribed", "revoked"} -> live \ {d}
                    [] OTHER -> live)
      /\ cursor' = (IF current.kind = "subscribed" \/ (current.kind \in {"event", "advance"} /\ d \in live)
                    THEN [cursor EXCEPT ![d] = current.sequence] ELSE cursor)
  BY DEF Write, Taken, RunFrame, SessionInv, Held, environmentVars, runVars
<1>1. PushingOrdered' /\ Todo' /\ AllPast'
  BY <1>0, RunKept
<1>2. d \in Conversation /\ cursor \in [Conversation -> Cursors] /\ current.kind \in Kinds
  BY <1>0 DEF Frames, SessionTypeOK, Cursors
<1>3. ASSUME NEW c \in Conversation, NEW b \in Cursors, Reaches(c, b)
      PROVE  Reaches(c, b)'
  <2>1. PICK a \in Cursors : At(c, a) /\ Moves(c, current, a, b)
    BY <1>0, <1>3 DEF Reaches
  <2>2. ASSUME c \in live' PROVE cursor'[c] = b
    <3>1. CASE c # d
      <4>1. c \in live /\ cursor'[c] = cursor[c] BY <1>0, <1>2, <2>2, <3>1
      <4> QED BY <2>1, <3>1, <4>1 DEF At, Moves
    <3>2. CASE c = d /\ current.kind = "subscribed"
      <4>1. cursor'[c] = current.sequence BY <1>0, <1>2, <3>2
      <4> QED BY <2>1, <3>2, <4>1 DEF Moves
    <3>3. CASE c = d /\ current.kind \in {"event", "advance"}
      <4>1. c \in live BY <1>0, <2>2, <3>3
      <4>2. cursor'[c] = current.sequence BY <1>0, <1>2, <3>3, <4>1
      <4> QED BY <2>1, <3>3, <4>2 DEF Moves
    <3>4. CASE c = d /\ current.kind \in {"ack", "reply", "error", "sync"}
      <4>1. c \in live /\ cursor' = cursor BY <1>0, <2>2, <3>4
      <4> QED BY <2>1, <3>4, <4>1 DEF At, Moves
    <3>5. CASE c = d /\ current.kind \in {"unsubscribed", "revoked"}
      BY <1>0, <2>2, <3>5
    <3> QED BY <1>2, <3>1, <3>2, <3>3, <3>4, <3>5 DEF Kinds
  <2> QED BY <1>0, <2>2 DEF Reaches, At
<1>4. Flowing'
  <2> SUFFICES ASSUME ~closing, NEW c \in Conversation PROVE Streaming(c)'
    BY <1>0 DEF Flowing
  <2>1. PICK e \in [0..Len(send) -> Cursors] : Trace(c, e)
    BY <1>0 DEF Order, Flowing, Streaming, Taken
  <2>2. e[0] \in Cursors /\ Reaches(c, e[0])
    BY <1>0, <2>1 DEF Trace, SessionTypeOK
  <2>3. Reaches(c, e[0])'
    BY <1>3, <2>2
  <2>4. Trace(c, e)'
    BY <1>0, <2>1, <2>3 DEF Trace, Moves, RunFrame
  <2> QED BY <1>0, <2>4 DEF Streaming
<1>5. LastFits'
  BY <1>0 DEF LastFits
<1>6. HandFits'
  BY <1>3 DEF Order, HandFits
<1> QED BY <1>1, <1>4, <1>5, <1>6 DEF Order

-----------------------------------------------------------------------------
(* The other processes keep the order                                      *)

LEMMA CommitOrder ==
  ASSUME SessionInv, Order, NEW d \in Conversation, CommitEvent(d)
  PROVE  Order'
<1>0. /\ UNCHANGED <<ClientFrame, subscribed, position, run, todo, pushing, send, closing>>
      /\ SessionTypeOK
      /\ event_sequence' = [event_sequence EXCEPT ![d] = @ + 1]
  BY DEF CommitEvent, Commit, runVars, writerVars, clientVars, ClientFrame, SessionInv
<1>1. Flowing' /\ LastFits' /\ HandFits'
  BY <1>0, QuietOrder DEF Order
<1>2. PushingOrdered' /\ Todo'
  BY <1>0 DEF Order, PushingOrdered, Ordered, Todo
<1>3. \A c \in Conversation :
        event_sequence[c] \in Nat /\ event_sequence'[c] \in Nat /\ event_sequence[c] <= event_sequence'[c]
  <2>1. event_sequence \in [Conversation -> 0..MaxEvents] BY <1>0 DEF SessionTypeOK
  <2> QED BY <1>0, <2>1, SessionAssumption
<1>4. ASSUME NEW f \in Frames, Past(f) PROVE Past(f)'
  <2>1. f.conversation \in Conversation /\ f.sequence \in Int BY DEF Frames
  <2> QED BY <1>0, <1>3, <1>4, <2>1, PastKept
<1>5. AllPast'
  <2>1. Taken' => Past(current)'
    <3>1. Taken => current \in Frames /\ Past(current) BY DEF SessionInv, Held, Order, AllPast
    <3>2. ASSUME Taken PROVE Past(current)'
      <4>1. PICK f \in Frames : f = current /\ Past(f) BY <3>1, <3>2
      <4>2. Past(f)' BY <1>4, <4>1
      <4> QED BY <1>0, <4>1, <4>2 DEF Past, ClientFrame
    <3> QED BY <1>0, <3>2 DEF Taken, ClientFrame
  <2>2. ASSUME NEW q \in Seq(Frames), \A i \in 1..Len(q) : Past(q[i])
        PROVE  (\A i \in 1..Len(q) : Past(q[i]))'
    BY <1>4, <2>2
  <2>3. (\A i \in 1..Len(send) : Past(send[i]))'
    <3>1. PICK q \in Seq(Frames) : q = send BY <1>0 DEF SessionTypeOK
    <3>2. \A i \in 1..Len(q) : Past(q[i]) BY <3>1 DEF Order, AllPast
    <3>3. (\A i \in 1..Len(q) : Past(q[i]))' BY <2>2, <3>2
    <3> QED BY <1>0, <3>1, <3>3 DEF Past
  <2>4. (\A i \in 1..Len(pushing) : Past(pushing[i]))'
    <3>1. PICK q \in Seq(Frames) : q = pushing BY <1>0 DEF SessionTypeOK
    <3>2. \A i \in 1..Len(q) : Past(q[i]) BY <3>1 DEF Order, AllPast
    <3>3. (\A i \in 1..Len(q) : Past(q[i]))' BY <2>2, <3>2
    <3> QED BY <1>0, <3>1, <3>3 DEF Past
  <2>5. \A c \in subscribed' : position'[c] <= event_sequence'[c]
    <3> SUFFICES ASSUME NEW c \in subscribed PROVE position[c] <= event_sequence'[c]
      BY <1>0
    <3>1. position[c] \in Int /\ position[c] <= event_sequence[c] /\ c \in Conversation
      BY <1>0 DEF Order, AllPast, SessionTypeOK
    <3> QED BY <1>3, <3>1
  <2> QED BY <2>1, <2>3, <2>4, <2>5 DEF AllPast
<1> QED BY <1>1, <1>2, <1>5 DEF Order

LEMMA ChangeOrder ==
  ASSUME SessionInv, Order,
         SwitchReceipts \/ LogOut \/ (\E c \in Conversation : Leave(c) \/ Rejoin(c))
           \/ UNCHANGED sessionVars
  PROVE  Order'
<1>0. UNCHANGED <<ClientFrame, event_sequence, subscribed, position, run, todo, pushing, send, closing>>
  BY DEF SwitchReceipts, LogOut, Leave, Rejoin, EnvironmentFrame, runVars, writerVars, clientVars, ClientFrame,
         sessionVars, environmentVars
<1>1. Flowing' /\ LastFits' /\ HandFits'
  BY <1>0, QuietOrder DEF Order, SessionInv
<1>2. PushingOrdered' /\ Todo'
  BY <1>0 DEF Order, PushingOrdered, Ordered, Todo
<1>3. AllPast'
  BY <1>0 DEF Order, AllPast, Past, Taken, ClientFrame
<1> QED BY <1>1, <1>2, <1>3 DEF Order

-----------------------------------------------------------------------------
(* The order of the frames, and what the client sees                       *)

LEMMA SessionOrderInit == SessionInit => Order
<1> SUFFICES ASSUME SessionInit PROVE Order
  OBVIOUS
<1>1. /\ send = <<>> /\ pushing = <<>> /\ live = {} /\ subscribed = {} /\ todo = {}
      /\ closing = FALSE /\ writer = "top" /\ run = "select" /\ ~Taken
  BY DEF SessionInit, SubscriptionInit, Taken
<1>2. Len(send) = 0 /\ Len(pushing) = 0 /\ 0 \in Cursors
  BY <1>1, SessionAssumption DEF Cursors
<1>3. ASSUME NEW c \in Conversation PROVE Streaming(c) /\ Reaches(c, 0)
  <2> DEFINE e == [i \in 0..Len(send) |-> 0]
  <2>1. e \in [0..Len(send) -> Cursors] /\ e[0] = 0
    BY <1>2
  <2> HIDE DEF e
  <2>2. Reaches(c, 0)
    BY <1>1 DEF Reaches, At
  <2>3. Trace(c, e)
    BY <1>1, <1>2, <2>1, <2>2 DEF Trace
  <2> QED BY <2>1, <2>2, <2>3 DEF Streaming
<1>4. Flowing /\ LastFits /\ HandFits
  BY <1>1, <1>2, <1>3 DEF Flowing, LastFits, HandFits
<1>5. PushingOrdered /\ Todo /\ AllPast
  BY <1>1, <1>2 DEF PushingOrdered, Todo, AllPast
<1> QED BY <1>4, <1>5 DEF Order

LEMMA SessionOrderStep == SessionInv /\ Order /\ [SessionNext]_sessionVars => Order'
<1> SUFFICES ASSUME SessionInv, Order, [SessionNext]_sessionVars PROVE Order'
  OBVIOUS
<1>1. CASE RunStep
  <2>1. ASSUME NEW c \in Conversation, Defer(c) PROVE Order' BY <2>1, CatchUpOrder
  <2>2. ASSUME NEW c \in Conversation, Replay(c) PROVE Order' BY <2>2, ReplayOrder
  <2> QED BY <1>1, <2>1, <2>2, DisconnectOrder, PushOrder DEF RunStep
<1>2. CASE CatchUp
  BY <1>2, CatchUpOrder
<1>3. CASE WriterStep
  BY <1>3, WriterRestOrder, TakeOrder, VerifyOrder, WriteOrder DEF WriterStep
<1>4. CASE ClientStep
  <2>1. ASSUME NEW c \in Conversation, NEW after \in 0..MaxEvents, Subscribe(c, after)
        PROVE  Order'
    BY <2>1, SubscribeOrder
  <2>2. ASSUME NEW c \in Conversation, Unsubscribe(c) \/ OtherCommand(c) PROVE Order'
    BY <2>2, CommandOrder
  <2> QED BY <1>4, <2>1, <2>2 DEF ClientStep
<1>5. CASE FaultStep
  <2>1. ASSUME NEW c \in Conversation, ReplayFails(c) PROVE Order' BY <2>1, CatchUpOrder
  <2> QED BY <1>5, <2>1, DisconnectOrder, WriterRestOrder, VerifyOrder DEF FaultStep
<1>6. CASE EnvironmentStep
  <2>1. ASSUME NEW c \in Conversation, CommitEvent(c) PROVE Order' BY <2>1, CommitOrder
  <2>2. ASSUME NEW c \in Conversation, Leave(c) \/ Rejoin(c) PROVE Order' BY <2>2, ChangeOrder
  <2> QED BY <1>6, <2>1, <2>2, ChangeOrder DEF EnvironmentStep
<1>7. CASE UNCHANGED sessionVars
  BY <1>7, ChangeOrder
<1> QED BY <1>1, <1>2, <1>3, <1>4, <1>5, <1>6, <1>7 DEF SessionNext

\* The frames in the queue and in the hands of run and write continue one another, from
\* the cursor of the client to the position of run, whatever cuts the stream.
THEOREM SessionOrder == SessionSpec => [](SessionInv /\ Order)
<1>1. SessionInit => SessionInv /\ Order
  BY SessionInitInv, SessionOrderInit
<1>2. SessionInv /\ Order /\ [SessionNext]_sessionVars => (SessionInv /\ Order)'
  BY SessionStepInv, SessionOrderStep
<1> QED BY <1>1, <1>2, PTL DEF SessionSpec

\* What the frame in the hand of write says to a client for which its subscription is live.
LEMMA HandSays ==
  ASSUME SessionInv, Order, writer = "write", current.conversation \in live
  PROVE  /\ current.kind = "sync" => current.sequence = cursor[current.conversation]
         /\ current.kind \in {"event", "advance"}
              => current.sequence = cursor[current.conversation] + 1
<1> DEFINE c == current.conversation
<1>1. Taken /\ c \in Conversation /\ c \in live
  BY DEF Taken, SessionInv, Held, Frames
<1>2. PICK b \in Cursors : Reaches(c, b)
  BY <1>1 DEF Order, HandFits
<1>3. PICK a \in Cursors : At(c, a) /\ Moves(c, current, a, b)
  BY <1>1, <1>2 DEF Reaches
<1>4. cursor[c] = a
  BY <1>1, <1>3 DEF At
<1> QED BY <1>3, <1>4 DEF Moves

\* A client that is told sync.complete has every event up to the sequence it names.
THEOREM SyncAlwaysExact == SessionSpec => []SyncExact
<1>1. SessionInv /\ Order => SyncExact
  BY HandSays DEF SyncExact
<1> QED BY <1>1, SessionOrder, PTL

\* A write confirms, continues or ends the subscription of its conversation, or tells the
\* client nothing about its cursor.
LEMMA WriteStreams ==
  ASSUME SessionInv, Order, Write
  PROVE  [Stream!SubscriptionNext]_(Stream!subscriptionVars)
<1> DEFINE c == current.conversation
           s == current.sequence
<1>1. /\ writer = "write" /\ Taken /\ current \in Frames /\ SessionTypeOK
      /\ UNCHANGED event_sequence
      /\ live' = (CASE current.kind = "subscribed" -> live \cup {c}
                    [] current.kind \in {"unsubscribed", "revoked"} -> live \ {c}
                    [] OTHER -> live)
      /\ cursor' = (IF current.kind = "subscribed" \/ (current.kind \in {"event", "advance"} /\ c \in live)
                    THEN [cursor EXCEPT ![c] = s] ELSE cursor)
      /\ opened' = (IF current.kind = "subscribed" THEN [opened EXCEPT ![c] = @ + 1] ELSE opened)
  BY DEF Write, Taken, SessionInv, Held, environmentVars
<1>2. c \in Conversation /\ s \in 0..MaxEvents /\ current.kind \in Kinds
  BY <1>1 DEF Frames
<1>3. Past(current)
  BY <1>1 DEF Order, AllPast
<1>4. event_sequence[c] \in Nat /\ cursor[c] \in Nat /\ s \in Nat
  BY <1>1, <1>2, SessionAssumption DEF SessionTypeOK
<1>5. CASE current.kind = "subscribed"
  <2>1. s \in 0..event_sequence[c]
    BY <1>3, <1>4, <1>5 DEF Past
  <2>2. Stream!Open(c, s)
    BY <1>1, <1>5, <2>1 DEF Stream!Open
  <2> QED BY <1>2, <2>2 DEF Stream!SubscriptionNext
<1>6. CASE current.kind \in {"event", "advance"} /\ c \in live
  <2>1. s = cursor[c] + 1
    BY <1>1, <1>6, HandSays
  <2>2. cursor[c] < event_sequence[c]
    BY <1>3, <1>4, <1>6, <2>1 DEF Past
  <2>3. cursor' = [cursor EXCEPT ![c] = @ + 1] /\ UNCHANGED <<live, opened>>
    BY <1>1, <1>6, <2>1
  <2>4. Stream!Next(c)
    BY <1>1, <1>6, <2>2, <2>3 DEF Stream!Next
  <2> QED BY <1>2, <2>4 DEF Stream!SubscriptionNext
<1>7. CASE current.kind \in {"unsubscribed", "revoked"}
  <2>1. Stream!Close(c)
    BY <1>1, <1>7 DEF Stream!Close
  <2> QED BY <1>2, <2>1 DEF Stream!SubscriptionNext
<1>8. CASE \/ current.kind \in {"event", "advance"} /\ c \notin live
           \/ current.kind \in {"ack", "reply", "error", "sync"}
  BY <1>1, <1>8 DEF Stream!subscriptionVars
<1> QED BY <1>2, <1>5, <1>6, <1>7, <1>8 DEF Kinds

\* Every step of the session is one of the subscription, or the client does not see it.
LEMMA SessionStreams ==
  SessionInv /\ Order /\ [SessionNext]_sessionVars
    => [Stream!SubscriptionNext]_(Stream!subscriptionVars)
<1> SUFFICES ASSUME SessionInv, Order, [SessionNext]_sessionVars
             PROVE  [Stream!SubscriptionNext]_(Stream!subscriptionVars)
  OBVIOUS
<1>1. CASE Write
  BY <1>1, WriteStreams
<1>2. ASSUME NEW c \in Conversation, CommitEvent(c)
      PROVE  [Stream!SubscriptionNext]_(Stream!subscriptionVars)
  <2>1. Stream!Commit(c)
    BY <1>2 DEF CommitEvent, Commit, Stream!Commit
  <2> QED BY <2>1 DEF Stream!SubscriptionNext
<1> DEFINE Unseen == UNCHANGED Stream!subscriptionVars
<1> USE DEF Stream!subscriptionVars, environmentVars, clientVars
<1>3. CASE RunStep \/ CatchUp \/ ClientStep
  <2>1. RunStep => Unseen
    BY DEF RunStep, Unauthenticated, Push, Cancelled, Defer, Replay, Disconnect
  <2>2. CatchUp => Unseen
    BY DEF CatchUp
  <2>3. ClientStep => Unseen
    BY DEF ClientStep, Subscribe, Unsubscribe, OtherCommand
  <2> QED BY <1>3, <2>1, <2>2, <2>3
<1>4. CASE Top \/ CloseFirst \/ Take \/ Verify \/ Authorise \/ Reread
  BY <1>4 DEF Top, CloseFirst, Take, Verify, Authorise, Reread, WriterFrame
<1>5. CASE FaultStep
  BY <1>5 DEF FaultStep, ReplayFails, RunVerifyFails, Disconnect, VerifyFails, AuthoriseFails, RereadFails,
              WriteFails, WriterFrame
<1>6. CASE SwitchReceipts \/ LogOut \/ \E c \in Conversation : Leave(c) \/ Rejoin(c)
  BY <1>6 DEF SwitchReceipts, LogOut, Leave, Rejoin, EnvironmentFrame
<1>7. CASE UNCHANGED sessionVars
  BY <1>7 DEF sessionVars
<1> QED BY <1>1, <1>2, <1>3, <1>4, <1>5, <1>6, <1>7 DEF SessionNext, WriterStep, EnvironmentStep

\* The session implements the subscription: from the cursor the client asked for, its events
\* come one by one, without a gap, a repetition or a reordering.
THEOREM SessionImplementsSubscription == SessionSpec => InSequence
<1>1. SessionInit => Stream!SubscriptionInit
  BY DEF SessionInit, SubscriptionInit, Stream!SubscriptionInit
<1> QED BY <1>1, SessionStreams, SessionOrder, PTL
        DEF SessionSpec, InSequence, Stream!SubscriptionSafety
=============================================================================
