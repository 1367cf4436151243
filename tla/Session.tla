------------------------------- MODULE Session -------------------------------
(***************************************************************************)
(* The stream of one WebSocket session.  The goroutine run owns the        *)
(* subscriptions: it reads events from PostgreSQL and enqueues frames.     *)
(* The goroutine write takes them from the bounded queue, asks the         *)
(* authentication service, reads membership and the event again, and       *)
(* writes to the socket.  Both go on while members leave and rejoin,       *)
(* settings change, the user logs out and reads fail.                      *)
(*                                                                         *)
(* How the goroutines of a connection end is the subject of Connection;    *)
(* here the session is over once its writer has ended.                     *)
(***************************************************************************)
EXTENDS Subscription, Sequences, FiniteSets

CONSTANTS
  Capacity,     \* length of the send queue (64 in the code)
  Threshold,    \* catching up waits while the queue is longer (16 in the code)
  Batch,        \* events of one Replay (32 in the code)
  MaxSubscriptions,  \* 16 in the code
  Hidden,       \* sequences of receipts of other users
  MaxCommands,  \* bound of the model on the commands of the client
  MaxChanges,   \* bound of the model on changes of membership, settings and token
  MaxFaults     \* bound of the model on failing reads and writes

ASSUME SessionAssumption ==
  /\ Capacity \in Nat \ {0} /\ Threshold \in 0..(Capacity - 1)
  /\ Batch \in Nat \ {0} /\ MaxSubscriptions \in Nat \ {0} /\ MaxEvents \in Nat
  /\ Hidden \subseteq 1..MaxEvents
  /\ MaxCommands \in Nat /\ MaxChanges \in Nat /\ MaxFaults \in Nat

VARIABLES
  access,         \* conversations the user is an active member of
  read_receipts,  \* the flag of project_settings
  token,          \* the credential is valid
  subscribed,     \* the keys of run's subscriptions ...
  position,       \* ... and their values, the last sequence enqueued
  run,            \* where run is
  todo,           \* conversations run still has to replay
  initial,        \* it replays because of a subscribe command
  pushing,        \* frames run is about to enqueue
  send,           \* the queue of frames
  closing,        \* the closing channel, of capacity one, is full
  writer,         \* where write is
  current,        \* the frame it has taken
  allowed,        \* history: permissions that held at some moment since it took it
  revoked,        \* history: conversations with a subscription.revoked since the last subscribe
  commands, changes, faults

environmentVars == <<event_sequence, access, read_receipts, token>>
runVars == <<subscribed, position, run, todo, initial, pushing>>
writerVars == <<writer, current>>
clientVars == <<live, opened, cursor, revoked>>
counters == <<commands, changes, faults>>
sessionVars == <<environmentVars, runVars, send, closing, writerVars, allowed,
                 clientVars, counters>>

Frame(kind, c, sequence) == [kind |-> kind, conversation |-> c, sequence |-> sequence]
Idle == Frame("none", "none", 0)

SessionInit ==
  /\ SubscriptionInit
  /\ access = Conversation
  /\ read_receipts = TRUE
  /\ token = TRUE
  /\ subscribed = {}
  /\ position = [c \in Conversation |-> 0]
  /\ run = "select"
  /\ todo = {}
  /\ initial = FALSE
  /\ pushing = <<>>
  /\ send = <<>>
  /\ closing = FALSE
  /\ writer = "top"
  /\ current = Idle
  /\ allowed = {}
  /\ revoked = {}
  /\ commands = 0 /\ changes = 0 /\ faults = 0

Fault == faults < MaxFaults /\ faults' = faults + 1 /\ UNCHANGED <<commands, changes>>
Command == commands < MaxCommands /\ commands' = commands + 1 /\ UNCHANGED <<changes, faults>>
Change == changes < MaxChanges /\ changes' = changes + 1 /\ UNCHANGED <<commands, faults>>

(* The definitions called ...Mutant are plausible slips of the definition that    *)
(* follows them.  No specification uses them.                                     *)

\* enqueue: a full queue closes the connection instead of growing or dropping the frame.
EnqueueGrow(f) == send' = Append(send, f) /\ UNCHANGED closing

Enqueue(f) ==
  IF Len(send) < Capacity
  THEN send' = Append(send, f) /\ UNCHANGED closing
  ELSE closing' = TRUE /\ UNCHANGED send

-----------------------------------------------------------------------------
(* run                                                                     *)

\* verify rejects the credential, or fails: the session is closed.
Disconnect ==
  /\ run = "select"
  /\ closing' = TRUE
  /\ run' = "ended"
  /\ UNCHANGED <<environmentVars, subscribed, position, todo, initial, pushing, send,
                 writerVars, allowed, clientVars>>
Unauthenticated == ~token /\ Disconnect /\ UNCHANGED counters
RunVerifyFails == Fault /\ Disconnect

\* conversation.subscribe; one subscription too many, a cursor in the future or a
\* missing membership is an error.
Subscribe(c, after) ==
  /\ run = "select" /\ token
  /\ Command
  /\ IF /\ c \in subscribed \/ Cardinality(subscribed) < MaxSubscriptions
        /\ c \in access /\ after <= event_sequence[c]
     THEN /\ subscribed' = subscribed \cup {c}
          /\ position' = [position EXCEPT ![c] = after]
          /\ Enqueue(Frame("subscribed", c, after))
          /\ run' = "replay" /\ todo' = {c} /\ initial' = TRUE
     ELSE /\ Enqueue(Frame("error", c, 0))
          /\ UNCHANGED <<subscribed, position, run, todo, initial>>
  /\ UNCHANGED <<environmentVars, pushing, writerVars, allowed, clientVars>>

Unsubscribe(c) ==
  /\ run = "select" /\ token
  /\ Command
  /\ subscribed' = subscribed \ {c}
  /\ Enqueue(Frame("unsubscribed", c, 0))
  /\ UNCHANGED <<environmentVars, position, run, todo, initial, pushing,
                 writerVars, allowed, clientVars>>

\* Any other command is answered by a frame of its conversation, and so is one that is
\* refused or fails, a subscribe too.  The reply of a command on a message carries it.
OtherCommand(c) ==
  /\ run = "select" /\ token
  /\ Command
  /\ \/ c \in access /\ \E kind \in {"ack", "reply"} : Enqueue(Frame(kind, c, 0))
     \/ Enqueue(Frame("error", c, 0))
  /\ UNCHANGED <<environmentVars, runVars, writerVars, allowed, clientVars>>

\* catchup replays every subscription.  A wake, which is a hint or the rest of a long
\* replay, asks nobody about the credential.  Nothing is lost if a hint is, and so the
\* model has no wake channel.
CatchUp ==
  /\ run = "select"
  /\ subscribed # {}
  /\ run' = "replay" /\ todo' = subscribed /\ initial' = FALSE
  /\ UNCHANGED <<environmentVars, subscribed, position, pushing, send, closing,
                 writerVars, allowed, clientVars, counters>>

\* The tick of a second verifies the credential first.
Poll == token /\ CatchUp

\* Where run goes when it is done with one conversation.
After(rest) == IF rest = {} THEN "select" ELSE "replay"

\* The events of one Replay after sequence i, and the notice that ends the last batch.
Through(c, i) == IF event_sequence[c] <= i + Batch THEN event_sequence[c] ELSE i + Batch
ReplayedMutant(c, i) ==
  Append([k \in 1..(Through(c, i) - i) |-> Frame("event", c, i + k)],
         Frame("sync", c, event_sequence[c]))

Replayed(c, i) ==
  [k \in 1..(Through(c, i) - i) |-> Frame("event", c, i + k)]
    \o IF Through(c, i) = event_sequence[c] /\ (initial \/ Through(c, i) > i)
       THEN <<Frame("sync", c, Through(c, i))>> ELSE <<>>

\* The queue is still long: large catch-ups wait.
LongMutant == Len(send) >= Threshold
Long == Len(send) > Threshold

Defer(c) ==
  /\ run = "replay" /\ c \in todo
  /\ Long /\ ~initial
  /\ todo' = todo \ {c}
  /\ run' = After(todo')
  /\ UNCHANGED <<environmentVars, subscribed, position, initial, pushing, send,
                 closing, writerVars, allowed, clientVars, counters>>

ReplayDue(c) ==
  /\ run = "replay" /\ c \in todo
  /\ Long => initial

\* Replay reads membership, the high watermark and the events in one snapshot.
Replay(c) ==
  /\ ReplayDue(c)
  /\ todo' = todo \ {c}
  /\ IF c \in access
     THEN pushing' = Replayed(c, position[c]) /\ UNCHANGED subscribed
     ELSE pushing' = <<Frame("revoked", c, 0)>> /\ subscribed' = subscribed \ {c}
  /\ run' = IF pushing' = <<>> THEN After(todo') ELSE "push"
  /\ UNCHANGED <<environmentVars, position, initial, send, closing, writerVars,
                 allowed, clientVars, counters>>

ReplayFails(c) ==
  /\ ReplayDue(c)
  /\ Fault
  /\ todo' = todo \ {c}
  /\ run' = After(todo')
  /\ closing' = TRUE
  /\ UNCHANGED <<environmentVars, subscribed, position, initial, pushing, send,
                 writerVars, allowed, clientVars>>

PushMutant ==
  LET f == Head(pushing)
  IN /\ run = "push"
     /\ send' = IF Len(send) < Capacity THEN Append(send, f) ELSE send
     /\ pushing' = Tail(pushing)
     /\ position' = IF f.kind = "event"
                    THEN [position EXCEPT ![f.conversation] = f.sequence] ELSE position
     /\ run' = IF pushing' = <<>> THEN After(todo) ELSE "push"
     /\ UNCHANGED <<environmentVars, subscribed, todo, initial, closing, writerVars, allowed,
                    clientVars, counters>>

\* The cursor follows each event that was enqueued; the first that was not ends replay.
Push ==
  LET f == Head(pushing)
  IN /\ run = "push"
     /\ Enqueue(f)
     /\ pushing' = IF Len(send) < Capacity THEN Tail(pushing) ELSE <<>>
     /\ position' = IF Len(send) < Capacity /\ f.kind = "event"
                    THEN [position EXCEPT ![f.conversation] = f.sequence] ELSE position
     /\ run' = IF pushing' = <<>> THEN After(todo) ELSE "push"
     /\ UNCHANGED <<environmentVars, subscribed, todo, initial, writerVars, allowed,
                    clientVars, counters>>

\* The context is cancelled when the writer ends.
Cancelled ==
  /\ writer = "ended" /\ run # "ended"
  /\ run' = "ended"
  /\ UNCHANGED <<environmentVars, subscribed, position, todo, initial, pushing, send,
                 closing, writerVars, allowed, clientVars, counters>>

-----------------------------------------------------------------------------
(* write                                                                   *)

WriterFrame == <<environmentVars, runVars, clientVars>>

\* The request to close is looked at before the queue ...
Top ==
  /\ writer = "top"
  /\ writer' = IF closing THEN "ended" ELSE "wait"
  /\ UNCHANGED <<WriterFrame, send, closing, current, allowed, counters>>

\* ... and together with it, where either may win.
CloseFirst ==
  /\ writer = "wait" /\ closing
  /\ writer' = "ended"
  /\ UNCHANGED <<WriterFrame, send, closing, current, allowed, counters>>

Permissions(c) ==
  {p \in {"access", "receipts", "token"} :
     CASE p = "access" -> c \in access
       [] p = "receipts" -> read_receipts
       [] p = "token" -> token}

Take ==
  /\ writer = "wait" /\ send # <<>>
  /\ current' = Head(send)
  /\ send' = Tail(send)
  /\ allowed' = Permissions(Head(send).conversation)
  /\ writer' = "verify"
  /\ UNCHANGED <<WriterFrame, closing, counters>>

Verify ==
  /\ writer = "verify"
  /\ writer' = IF ~token THEN "ended"
               ELSE IF current.kind \in {"error", "revoked"} THEN "write" ELSE "authorise"
  /\ UNCHANGED <<WriterFrame, send, closing, current, allowed, counters>>

\* The authentication service is unavailable.
VerifyFails ==
  /\ writer = "verify"
  /\ Fault
  /\ writer' = "ended"
  /\ UNCHANGED <<WriterFrame, send, closing, current, allowed>>

Revocation == Frame("revoked", current.conversation, 0)

\* Conversations.Get: any error, an outage too, turns the frame into a revocation.
Authorise ==
  /\ writer = "authorise"
  /\ IF current.conversation \in access
     THEN /\ writer' = IF current.kind \in {"event", "reply"} THEN "reread" ELSE "write"
          /\ UNCHANGED current
     ELSE current' = Revocation /\ writer' = "write"
  /\ UNCHANGED <<WriterFrame, send, closing, allowed, counters>>

AuthoriseFails ==
  /\ writer = "authorise"
  /\ Fault
  /\ current' = Revocation
  /\ writer' = "write"
  /\ UNCHANGED <<WriterFrame, send, closing, allowed>>

\* The event, or the message of a reply, is read again; a receipt that is no longer
\* shown becomes sync.advance.
RereadMutant ==
  /\ writer = "reread"
  /\ current' = current
  /\ writer' = "write"
  /\ UNCHANGED <<WriterFrame, send, closing, allowed, counters>>

Reread ==
  /\ writer = "reread"
  /\ current' = IF current.conversation \notin access THEN Revocation
                ELSE IF current.kind = "event" /\ current.sequence \in Hidden /\ ~read_receipts
                THEN [current EXCEPT !.kind = "advance"] ELSE current
  /\ writer' = "write"
  /\ UNCHANGED <<WriterFrame, send, closing, allowed, counters>>

RereadFails ==
  /\ writer = "reread"
  /\ Fault
  /\ closing' = TRUE
  /\ writer' = "top"
  /\ UNCHANGED <<WriterFrame, send, current, allowed>>

\* The frame reaches the client.
Write ==
  LET c == current.conversation
  IN /\ writer = "write"
     /\ writer' = "top"
     /\ current' = Idle
     /\ allowed' = {}
     /\ live' = CASE current.kind = "subscribed" -> live \cup {c}
                  [] current.kind \in {"unsubscribed", "revoked"} -> live \ {c}
                  [] OTHER -> live
     /\ cursor' = IF current.kind = "subscribed" \/ (current.kind \in {"event", "advance"} /\ c \in live)
                  THEN [cursor EXCEPT ![c] = current.sequence] ELSE cursor
     /\ opened' = IF current.kind = "subscribed" THEN [opened EXCEPT ![c] = @ + 1] ELSE opened
     /\ revoked' = CASE current.kind = "revoked" -> revoked \cup {c}
                     [] current.kind = "subscribed" -> revoked \ {c}
                     [] OTHER -> revoked
     /\ UNCHANGED <<environmentVars, runVars, send, closing, counters>>

\* The socket is slow or broken.
WriteFails ==
  /\ writer = "write"
  /\ Fault
  /\ writer' = "ended"
  /\ UNCHANGED <<WriterFrame, send, closing, current, allowed>>

-----------------------------------------------------------------------------
(* The other processes                                                     *)

EnvironmentFrame == <<runVars, send, closing, writerVars, clientVars>>

CommitEvent(c) ==
  Commit(c) /\ UNCHANGED <<access, read_receipts, token, runVars, send, closing,
                           writerVars, allowed, revoked, counters>>

Leave(c) ==
  /\ c \in access
  /\ Change
  /\ access' = access \ {c}
  /\ UNCHANGED <<event_sequence, read_receipts, token, EnvironmentFrame, allowed>>

Rejoin(c) ==
  /\ c \notin access
  /\ Change
  /\ access' = access \cup {c}
  /\ allowed' = IF current.conversation = c THEN allowed \cup {"access"} ELSE allowed
  /\ UNCHANGED <<event_sequence, read_receipts, token, EnvironmentFrame>>

SwitchReceipts ==
  /\ Change
  /\ read_receipts' = ~read_receipts
  /\ allowed' = IF read_receipts' /\ current # Idle THEN allowed \cup {"receipts"} ELSE allowed
  /\ UNCHANGED <<event_sequence, access, token, EnvironmentFrame>>

LogOut ==
  /\ token
  /\ Change
  /\ token' = FALSE
  /\ UNCHANGED <<event_sequence, access, read_receipts, EnvironmentFrame, allowed>>

-----------------------------------------------------------------------------
RunStep ==
  \/ Unauthenticated \/ Push \/ Cancelled
  \/ \E c \in Conversation : Defer(c) \/ Replay(c)

WriterStep == Top \/ CloseFirst \/ Take \/ Verify \/ Authorise \/ Reread \/ Write

ClientStep ==
  \E c \in Conversation :
    \/ \E after \in 0..MaxEvents : Subscribe(c, after)
    \/ Unsubscribe(c) \/ OtherCommand(c)

FaultStep ==
  \/ \E c \in Conversation : ReplayFails(c)
  \/ RunVerifyFails \/ VerifyFails \/ AuthoriseFails \/ RereadFails \/ WriteFails

EnvironmentStep ==
  \/ SwitchReceipts \/ LogOut
  \/ \E c \in Conversation : CommitEvent(c) \/ Leave(c) \/ Rejoin(c)

SessionNext == RunStep \/ CatchUp \/ WriterStep \/ ClientStep \/ FaultStep \/ EnvironmentStep

\* Both goroutines go on: every read and write is bounded by a context.  The ticker
\* makes Poll happen again and again.
SessionFairness ==
  WF_sessionVars(RunStep) /\ WF_sessionVars(Poll) /\ WF_sessionVars(WriterStep)

SessionSpec == SessionInit /\ [][SessionNext]_sessionVars /\ SessionFairness

-----------------------------------------------------------------------------
(* Properties                                                              *)

Kinds == {"ack", "reply", "error", "subscribed", "unsubscribed", "event", "advance", "sync", "revoked"}
Frames == [kind : Kinds, conversation : Conversation, sequence : 0..MaxEvents]

SessionTypeOK ==
  /\ event_sequence \in [Conversation -> 0..MaxEvents]
  /\ access \subseteq Conversation
  /\ read_receipts \in BOOLEAN /\ token \in BOOLEAN
  /\ subscribed \subseteq Conversation
  /\ position \in [Conversation -> 0..MaxEvents]
  /\ run \in {"select", "replay", "push", "ended"}
  /\ todo \subseteq Conversation
  /\ initial \in BOOLEAN
  /\ pushing \in Seq(Frames)
  /\ send \in Seq(Frames) /\ Len(send) <= Capacity
  /\ closing \in BOOLEAN
  /\ writer \in {"top", "wait", "verify", "authorise", "reread", "write", "ended"}
  /\ current \in Frames \cup {Idle}
  /\ allowed \subseteq {"access", "receipts", "token"}
  /\ live \subseteq Conversation /\ revoked \subseteq Conversation
  /\ cursor \in [Conversation -> 0..MaxEvents]
  /\ opened \in [Conversation -> Nat]

\* What the client sees is a subscription: its events come one by one from the cursor
\* it asked for, although queue overflows, repeated subscriptions, lost and regained
\* memberships and failing reads cut the stream.
Stream == INSTANCE Subscription WITH
            Conversation <- Conversation, MaxEvents <- MaxEvents,
            event_sequence <- event_sequence, live <- live, opened <- opened, cursor <- cursor
InSequence == Stream!SubscriptionSafety

\* sync.complete tells the truth: a client that gets it has every event up to the
\* sequence it names.
SyncExact ==
  writer = "write" /\ current.kind = "sync" /\ current.conversation \in live
    => current.sequence = cursor[current.conversation]

\* Nothing of a conversation is written for a user who, all the time since the frame
\* was taken from the queue, had left it or was logged out; and no receipt of somebody
\* else while receipts were hidden.
ContentAllowed ==
  writer = "write" /\ current.kind \notin {"error", "revoked"} =>
    /\ {"access", "token"} \subseteq allowed
    /\ current.kind = "event" /\ current.sequence \in Hidden => "receipts" \in allowed

\* Every committed event reaches a subscribed client, or the client learns that the
\* subscription or the connection ended; hints may all be lost.
EventuallyDelivered ==
  \A c \in Conversation : \A n \in 1..MaxEvents :
    c \in live /\ n <= event_sequence[c]
      ~> (c \in live => n <= cursor[c]) \/ writer = "ended"

\* "Leave/kick -> subscription.revoked without further content": after the notice no
\* event of the conversation is written before the client subscribes again.
RevokedFinal ==
  writer = "write" /\ current.kind \in {"event", "advance"} => current.conversation \notin revoked
=============================================================================
