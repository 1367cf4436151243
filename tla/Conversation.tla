---------------------------- MODULE Conversation ----------------------------
(***************************************************************************)
(* The messages of one conversation: sending with retries, replies,        *)
(* forwards, edits, tombstones, reactions, pins and read checkpoints, on   *)
(* top of the membership commands.                                         *)
(*                                                                         *)
(* Every action is one committed transaction: activityAccess and Receipt   *)
(* take the Project, the actor and then the conversation row FOR UPDATE    *)
(* before they read what they test, so the commands of one conversation    *)
(* run one after the other.  A refused command, a matching retry and a     *)
(* relation change without effect write nothing and are no actions.        *)
(***************************************************************************)
EXTENDS Membership

CONSTANTS
  Message,      \* message identifiers
  Client,       \* client_message_id values
  Body,         \* texts and captions
  Wiped,        \* the body of a tombstone
  Attachment,   \* logical attachments
  Emoji,        \* canonical reactions
  MaxKinds,     \* distinct reactions of a message (32 in the code)
  MaxPins,      \* live pins of a conversation (100 in the code)
  Blacklisted   \* bodies the blacklist may come to reject

ASSUME ConversationAssumption ==
  /\ None \notin Message \cup Attachment
  /\ Message \cap User = {}
  /\ Wiped \notin Body
  /\ Blacklisted \subseteq Body
  /\ MaxKinds \in Nat \ {0} /\ MaxPins \in Nat \ {0}

VARIABLES
  message_sequence,   \* conversations.message_sequence
  last_message_id,    \* conversations.last_message_id
  status,             \* "none", "active", "expired" (TTL passed) or "deleted"
  type,               \* "TEXT" or "IMAGE"
  sender,
  sequence,           \* messages.sequence, 0 before the message exists
  version,            \* messages.resource_version
  body,               \* decrypted content
  reply_to,           \* messages.reply_to_message_id
  forwarded_from,     \* messages.forwarded_from_message_id
  origin,             \* original_sender of the encrypted forward payload
  indexed,            \* messages with a message_search row
  reactions,          \* message_reactions: <<message, user, emoji>>
  pins,               \* pinned_messages
  idempotency,        \* message_idempotency rows
  lapsed,             \* messages whose receipt passed its expires_at
  client,             \* history: the client_message_id a message was sent as
  attachment_status,  \* "absent", "ready", "attached" or "deleted"
  uploader,
  links,              \* message_attachments: <<message, attachment>>
  last_read,          \* conversation_members.last_read_sequence
  last_delivered,     \* conversation_members.last_delivered_sequence
  rejected            \* bodies the enabled blacklist rejects

messageVars == <<message_sequence, last_message_id, status, type, sender, sequence,
                 version, body, reply_to, forwarded_from, origin, indexed>>
relationVars == <<reactions, pins>>
dedupVars == <<idempotency, lapsed, client>>
attachmentVars == <<attachment_status, uploader, links>>
checkpointVars == <<last_read, last_delivered>>
contentVars == <<messageVars, relationVars, dedupVars, attachmentVars,
                 checkpointVars, rejected>>
vars == <<membershipVars, contentVars>>

Init ==
  /\ MemberInit
  /\ message_sequence = 0
  /\ last_message_id = None
  /\ status = [m \in Message |-> "none"]
  /\ type = [m \in Message |-> "TEXT"]
  /\ sender = [m \in Message |-> None]
  /\ sequence = [m \in Message |-> 0]
  /\ version = [m \in Message |-> 0]
  /\ body = [m \in Message |-> Wiped]
  /\ reply_to = [m \in Message |-> None]
  /\ forwarded_from = [m \in Message |-> None]
  /\ origin = [m \in Message |-> None]
  /\ indexed = {}
  /\ reactions = {}
  /\ pins = {}
  /\ idempotency = {}
  /\ lapsed = {}
  /\ client = [m \in Message |-> None]
  /\ attachment_status = [a \in Attachment |-> "absent"]
  /\ uploader = [a \in Attachment |-> None]
  /\ links = {}
  /\ last_read = [u \in User |-> 0]
  /\ last_delivered = [u \in User |-> 0]
  /\ rejected = {}

Live(m) == status[m] = "active"
Exists(m) == status[m] # "none"

(* The definitions called ...Mutant are plausible slips of the definition that    *)
(* follows them.  No specification uses them: the runs show that each would be    *)
(* found.                                                                         *)

\* activityAccess: reactions are open to every active, unbanned member ...
ActivityAccessMutant(u) == conversation_type # "absent" /\ Active(u) /\ u \notin banned

ActivityAccess(u) ==
  /\ conversation_type # "absent"
  /\ u \notin project_banned
  /\ u \in Bots => "allow_bots" \in flags
  /\ Active(u)
  /\ u \notin banned

\* ... and content writes in a CHANNEL to its moderators only.
WriteAccess(u) ==
  /\ ActivityAccess(u)
  /\ conversation_type = "CHANNEL" => role[u] = "moderator"

-----------------------------------------------------------------------------
(* Sending                                                                 *)

\* The canonical command is what the receipt fingerprints: a send by its type,
\* body, reply target and attachment, a forward by its source alone.
SendCommand ==
  [type : {"TEXT"}, body : Body, reply : Message \cup {None}, attachment : {None}]
  \cup [type : {"IMAGE"}, body : Body, reply : Message \cup {None}, attachment : Attachment]
ForwardCommand == [source : Message]

ReceiptsOf(u, c) == {r \in idempotency : r.sender = u /\ r.client = c}

\* An unexpired receipt turns the command into a retry, which writes nothing.
NoLiveReceiptMutant(u, c) ==
  \A r \in ReceiptsOf(u, c) : r.message \in lapsed \/ ~Live(r.message)
NoLiveReceipt(u, c) == \A r \in ReceiptsOf(u, c) : r.message \in lapsed

\* CheckContent: no enabled blacklist entry matches.
CheckContent(content) == content \notin rejected

NextSequenceMutant == Cardinality({m \in Message : Live(m)}) + 1
NextSequence == message_sequence + 1

\* What Send and forward do alike once every check has passed.
Store(u, c, m, command, kind, content, reply, source, author) ==
  /\ status[m] = "none"
  /\ message_sequence' = NextSequence
  /\ last_message_id' = m
  /\ status' = [status EXCEPT ![m] = "active"]
  /\ type' = [type EXCEPT ![m] = kind]
  /\ sender' = [sender EXCEPT ![m] = u]
  /\ sequence' = [sequence EXCEPT ![m] = NextSequence]
  /\ version' = [version EXCEPT ![m] = 1]
  /\ body' = [body EXCEPT ![m] = content]
  /\ reply_to' = [reply_to EXCEPT ![m] = reply]
  /\ forwarded_from' = [forwarded_from EXCEPT ![m] = source]
  /\ origin' = [origin EXCEPT ![m] = author]
  /\ indexed' = indexed \cup {m}
  /\ client' = [client EXCEPT ![m] = c]
  /\ idempotency' = (idempotency \ ReceiptsOf(u, c)) \cup
       {[sender |-> u, client |-> c, message |-> m, command |-> command]}
  /\ AppendEvent("message.created", m, 1)
  /\ UNCHANGED <<memberVars, projectVars, relationVars, lapsed, checkpointVars, rejected>>

\* An image consumes a ready upload of its sender.
ReadyForMutant(u, a) == attachment_status[a] \in {"ready", "attached"} /\ uploader[a] = u
ReadyFor(u, a) == attachment_status[a] = "ready" /\ uploader[a] = u

Send(u, c, m, command) ==
  /\ WriteAccess(u)
  /\ command.reply # None => "allow_reply" \in flags
  /\ command.type = "IMAGE" => "allow_images" \in flags
  /\ NoLiveReceipt(u, c)
  /\ CheckContent(command.body)
  /\ command.reply # None => Live(command.reply)
  /\ Store(u, c, m, command, command.type, command.body, command.reply, None, None)
  /\ IF command.type = "IMAGE"
     THEN /\ ReadyFor(u, command.attachment)
          /\ attachment_status' = [attachment_status EXCEPT ![command.attachment] = "attached"]
          /\ links' = links \cup {<<m, command.attachment>>}
          /\ UNCHANGED uploader
     ELSE UNCHANGED attachmentVars

SourceAllowedMutant(source) == Live(source) /\ (type[source] = "IMAGE" => "allow_images" \in flags)
SourceAllowed(source) ==
  /\ Live(source)
  /\ type[source] = "IMAGE" => "allow_images" \in flags
  /\ CheckContent(body[source])

\* The author snapshot is carried along a chain of forwards.
OriginalSenderMutant(source) == sender[source]
OriginalSender(source) == IF origin[source] # None THEN origin[source] ELSE sender[source]

\* The source is a live message of this conversation, and an image gets a logical
\* attachment of its own (copy) that shares the stored object.
Forward(u, c, m, source, copy) ==
  /\ WriteAccess(u)
  /\ "allow_forward" \in flags
  /\ NoLiveReceipt(u, c)
  /\ SourceAllowed(source)
  /\ Store(u, c, m, [source |-> source], type[source], body[source], None, source,
           OriginalSender(source))
  /\ IF type[source] = "IMAGE"
     THEN /\ \E a \in Attachment : <<source, a>> \in links /\ attachment_status[a] = "attached"
          /\ copy \in Attachment /\ attachment_status[copy] = "absent"
          /\ attachment_status' = [attachment_status EXCEPT ![copy] = "attached"]
          /\ uploader' = [uploader EXCEPT ![copy] = u]
          /\ links' = links \cup {<<m, copy>>}
     ELSE copy = None /\ UNCHANGED attachmentVars

-----------------------------------------------------------------------------
(* Edits and tombstones                                                    *)

\* mutationAccess: only the author, and only while still allowed to write.
MutationAccess(u, m, flag) ==
  /\ Exists(m)
  /\ WriteAccess(u)
  /\ sender[m] = u
  /\ flag \in flags

Edit(u, m, content) ==
  /\ MutationAccess(u, m, "allow_edit")
  /\ Live(m)
  /\ type[m] = "TEXT"
  /\ CheckContent(content)
  /\ body' = [body EXCEPT ![m] = content]
  /\ version' = [version EXCEPT ![m] = @ + 1]
  /\ indexed' = (indexed \ {m}) \cup {m}
  /\ AppendEvent("message.updated", m, version[m] + 1)
  /\ UNCHANGED <<message_sequence, last_message_id, status, type, sender, sequence,
                 reply_to, forwarded_from, origin, memberVars, projectVars,
                 relationVars, dedupVars, attachmentVars, checkpointVars, rejected>>

\* The live message with the highest sequence once m is gone, or None.
LatestLiveMutant(m) ==
  LET earlier == {n \in Message : Live(n) /\ sequence[n] < sequence[m]}
  IN IF earlier = {} THEN None
     ELSE CHOOSE n \in earlier : \A k \in earlier : sequence[k] <= sequence[n]

LatestLive(m) ==
  LET live == {n \in Message \ {m} : Live(n)}
  IN IF live = {} THEN None
     ELSE CHOOSE n \in live : \A k \in live : sequence[k] <= sequence[n]

\* A message that has expired but was never deleted can still be deleted.
Delete(u, m) ==
  LET attached == {a \in Attachment : <<m, a>> \in links}
  IN /\ MutationAccess(u, m, "allow_delete")
     /\ status[m] # "deleted"
     /\ status' = [status EXCEPT ![m] = "deleted"]
     /\ body' = [body EXCEPT ![m] = Wiped]
     /\ origin' = [origin EXCEPT ![m] = None]
     /\ reply_to' = [reply_to EXCEPT ![m] = None]
     /\ version' = [version EXCEPT ![m] = @ + 1]
     /\ indexed' = indexed \ {m}
     /\ reactions' = {r \in reactions : r[1] # m}
     /\ pins' = pins \ {m}
     /\ attachment_status' = [a \in Attachment |->
          IF a \in attached THEN "deleted" ELSE attachment_status[a]]
     /\ links' = {l \in links : l[1] # m}
     /\ last_message_id' = LatestLive(m)
     /\ AppendEvent("message.deleted", m, version[m] + 1)
     /\ UNCHANGED <<message_sequence, type, sender, sequence, forwarded_from, uploader,
                    memberVars, projectVars, dedupVars, checkpointVars, rejected>>

-----------------------------------------------------------------------------
(* Reactions and pins                                                      *)

RelationAccessMutant(u, m, flag) == Exists(m) /\ ActivityAccess(u) /\ flag \in flags

RelationAccess(u, m, flag) ==
  /\ Live(m)
  /\ ActivityAccess(u)
  /\ flag \in flags

\* relationResult: a relation that changed moves the message to a new version.
publishFrame == <<message_sequence, last_message_id, status, type, sender, sequence, body,
                  reply_to, forwarded_from, origin, indexed, memberVars, projectVars,
                  dedupVars, attachmentVars, checkpointVars, rejected>>

PublishMutant(kind, m) ==
  /\ version' = [version EXCEPT ![m] = @ + 1]
  /\ AppendEvent(kind, m, version[m])
  /\ UNCHANGED publishFrame

Publish(kind, m) ==
  /\ version' = [version EXCEPT ![m] = @ + 1]
  /\ AppendEvent(kind, m, version[m] + 1)
  /\ UNCHANGED publishFrame

KindsOn(m) == {e \in Emoji : \E u \in User : <<m, u, e>> \in reactions}

KindAllowedMutant(m, e) == e \in KindsOn(m) \/ Cardinality(KindsOn(m)) <= MaxKinds
KindAllowed(m, e) == e \in KindsOn(m) \/ Cardinality(KindsOn(m)) < MaxKinds

React(u, m, e) ==
  /\ RelationAccess(u, m, "allow_reactions")
  /\ <<m, u, e>> \notin reactions
  /\ KindAllowed(m, e)
  /\ reactions' = reactions \cup {<<m, u, e>>}
  /\ Publish("reaction.created", m)
  /\ UNCHANGED pins

Unreact(u, m, e) ==
  /\ RelationAccess(u, m, "allow_reactions")
  /\ <<m, u, e>> \in reactions
  /\ reactions' = reactions \ {<<m, u, e>>}
  /\ Publish("reaction.deleted", m)
  /\ UNCHANGED pins

PinAccess(u, m) ==
  /\ RelationAccess(u, m, "allow_pin")
  /\ conversation_type \in {"GROUP", "CHANNEL"}
  /\ role[u] = "moderator"

Pin(u, m) ==
  /\ PinAccess(u, m)
  /\ m \notin pins
  /\ Cardinality({n \in pins : Live(n)}) < MaxPins
  /\ pins' = pins \cup {m}
  /\ Publish("message.pinned", m)
  /\ UNCHANGED reactions

Unpin(u, m) ==
  /\ PinAccess(u, m)
  /\ m \in pins
  /\ pins' = pins \ {m}
  /\ Publish("message.unpinned", m)
  /\ UNCHANGED reactions

-----------------------------------------------------------------------------
(* Checkpoints, time and the other components                              *)

LargerMutant(i, j) == j
Larger(i, j) == IF i < j THEN j ELSE i

\* Reading acknowledges delivery too.
Delivered(u, kind, s) == Larger(last_delivered[u], s)

\* Members of a CHANNEL acknowledge too; bots are not excluded and no flag is
\* asked for: read_receipts only hides the event from the others when replayed.
Receipt(u, kind, s) ==
  LET read      == IF kind = "read" THEN Larger(last_read[u], s) ELSE last_read[u]
      delivered == Delivered(u, kind, s)
  IN /\ u \notin project_banned
     /\ Active(u)
     /\ u \notin banned
     /\ s <= message_sequence
     /\ read # last_read[u] \/ delivered # last_delivered[u]
     /\ last_read' = [last_read EXCEPT ![u] = read]
     /\ last_delivered' = [last_delivered EXCEPT ![u] = delivered]
     /\ member_version' = [member_version EXCEPT ![u] = @ + 1]
     /\ AppendEvent(IF kind = "read" THEN "message.read" ELSE "message.delivered",
               u, member_version[u] + 1)
     /\ UNCHANGED <<conversation_type, metadata_version, role, left, banned, founders,
                    projectVars, messageVars, relationVars, dedupVars, attachmentVars,
                    rejected>>

\* The retention deadline passes.  Only time does this: there is no event.
Expire(m) ==
  /\ Live(m)
  /\ status' = [status EXCEPT ![m] = "expired"]
  /\ UNCHANGED <<membershipVars, message_sequence, last_message_id, type, sender, sequence,
                 version, body, reply_to, forwarded_from, origin, indexed, relationVars,
                 dedupVars, attachmentVars, checkpointVars, rejected>>

\* 365 days pass since the message was sent.
Lapse(m) ==
  /\ Exists(m) /\ m \notin lapsed
  /\ lapsed' = lapsed \cup {m}
  /\ UNCHANGED <<membershipVars, messageVars, relationVars, idempotency, client,
                 attachmentVars, checkpointVars, rejected>>

\* An upload of u becomes ready; its steps are in Attachments.
Upload(u, a) ==
  /\ attachment_status[a] = "absent"
  /\ attachment_status' = [attachment_status EXCEPT ![a] = "ready"]
  /\ uploader' = [uploader EXCEPT ![a] = u]
  /\ UNCHANGED <<membershipVars, messageVars, relationVars, dedupVars, links,
                 checkpointVars, rejected>>

\* The Cleaner claims a ready upload; its steps are in Attachments.
Reclaim(a) ==
  /\ attachment_status[a] = "ready"
  /\ attachment_status' = [attachment_status EXCEPT ![a] = "deleted"]
  /\ UNCHANGED <<membershipVars, messageVars, relationVars, dedupVars, uploader, links,
                 checkpointVars, rejected>>

\* An administrator changes the entries of the blacklist, or switches it on or off.
UpdateBlacklist(a, words) ==
  /\ a \in Admins \ project_banned
  /\ words # rejected
  /\ rejected' = words
  /\ UNCHANGED <<membershipVars, messageVars, relationVars, dedupVars, attachmentVars,
                 checkpointVars>>

-----------------------------------------------------------------------------
SendStep == \E u \in User, c \in Client, m \in Message, command \in SendCommand :
              Send(u, c, m, command)
ForwardStep == \E u \in User, c \in Client, m, s \in Message, copy \in Attachment \cup {None} :
                 Forward(u, c, m, s, copy)
MutationStep == \E u \in User, m \in Message : (\E b \in Body : Edit(u, m, b)) \/ Delete(u, m)
RelationStep == \E u \in User, m \in Message :
                  \/ \E e \in Emoji : React(u, m, e) \/ Unreact(u, m, e)
                  \/ Pin(u, m) \/ Unpin(u, m)
ReceiptStep == \E u \in User, kind \in {"read", "delivered"}, s \in 1..message_sequence :
                 Receipt(u, kind, s)
TimeStep == \E m \in Message : Expire(m) \/ Lapse(m)
UploadStep == \E a \in Attachment : Reclaim(a) \/ \E u \in User : Upload(u, a)
BlacklistStep == \E a \in User, words \in SUBSET Blacklisted : UpdateBlacklist(a, words)

Next ==
  \/ MemberNext /\ UNCHANGED contentVars
  \/ SendStep \/ ForwardStep \/ MutationStep \/ RelationStep
  \/ ReceiptStep \/ TimeStep \/ UploadStep \/ BlacklistStep

Spec == Init /\ [][Next]_vars

-----------------------------------------------------------------------------
(* Properties                                                              *)

EventsOf(m) == {e \in conversation_events : e.ref = m}

\* Every version of a message was published exactly once: its events carry the
\* versions 1..version.  A change without an event would never reach a client
\* that resumes by replay, and one version used twice would hide the second
\* change from a client that compares versions.
VersionsLogged ==
  \A m \in Message :
    /\ {e.version : e \in EventsOf(m)} = 1..version[m]
    /\ \A e, f \in EventsOf(m) : e.version = f.version => e = f

\* The tombstone is the last thing that happens to a message: it is deleted
\* exactly when it has a message.deleted event, no event about it follows, and
\* nothing of it is kept: no body, author snapshot, reply reference, search row,
\* reaction, pin or attachment.
Bare(m) ==
  /\ body[m] = Wiped /\ m \notin indexed \cup pins
  /\ reply_to[m] = None /\ origin[m] = None
  /\ \A r \in reactions : r[1] # m
  /\ \A l \in links : l[1] # m

Tombstones ==
  \A m \in Message :
    /\ (status[m] = "deleted") <=> \E e \in EventsOf(m) : e.kind = "message.deleted"
    /\ \A e, f \in EventsOf(m) :
         e.kind = "message.deleted" => f.sequence <= e.sequence /\ f.version <= e.version
    /\ IF status[m] \in {"active", "expired"} THEN body[m] # Wiped /\ m \in indexed
                                             ELSE Bare(m)

\* The preview of the conversation is never a tombstone and never older than a
\* live message, through deletions of the newest message and expiry.
LastMessageValid ==
  /\ last_message_id # None => status[last_message_id] \in {"active", "expired"}
  /\ \A m \in Message : Live(m) =>
       last_message_id # None /\ sequence[m] <= sequence[last_message_id]

\* Message sequences are dense, and messages were created in that order: a client
\* that pages by sequence and one that replays events see the same order.
MessageOrder ==
  /\ {sequence[m] : m \in {n \in Message : Exists(n)}} = 1..message_sequence
  /\ \A m, n \in Message : Exists(m) /\ Exists(n) /\ sequence[m] = sequence[n] => m = n
  /\ LET created == {e \in conversation_events : e.kind = "message.created"}
     IN \A e, f \in created :
          sequence[e.ref] < sequence[f.ref] => e.sequence < f.sequence

\* An attachment is attached exactly when one message that is not deleted links
\* it, and an image that is not deleted has exactly one.
AttachmentsLinked ==
  /\ \A a \in Attachment :
       (attachment_status[a] = "attached") <=> \E m \in Message : <<m, a>> \in links
  /\ \A l, k \in links : l[1] = k[1] \/ l[2] = k[2] => l = k
  /\ \A m \in Message : (\E a \in Attachment : <<m, a>> \in links)
       <=> (type[m] = "IMAGE" /\ status[m] \in {"active", "expired"})

\* Resending is harmless: two messages of one sender under one client_message_id
\* exist only if the receipt of one of them had expired, even when the first was
\* deleted or expired in between or the retry asks for something else; and the one
\* receipt they leave answers for the newer of them.
RetryOnce ==
  /\ \A m, n \in Message :
       Exists(m) /\ Exists(n) /\ m # n /\ sender[m] = sender[n] /\ client[m] = client[n]
         => m \in lapsed \/ n \in lapsed
  /\ \A m \in Message : Exists(m) =>
       \E r \in idempotency :
         /\ ReceiptsOf(sender[m], client[m]) = {r}
         /\ sender[r.message] = sender[m] /\ client[r.message] = client[m]
         /\ sequence[m] <= sequence[r.message]

\* The caps hold whatever the order of pins, unpins, reactions and expiry.
RelationsBounded ==
  /\ Cardinality({m \in pins : Live(m)}) <= MaxPins
  /\ \A m \in Message : Cardinality(KindsOn(m)) <= MaxKinds

\* A forward of a forward still names the author of the first message of the
\* chain, also after messages in between were deleted.
RootAuthor ==
  LET at(i) == CHOOSE m \in Message : sequence[m] = i
      author[i \in 1..message_sequence] ==
        IF forwarded_from[at(i)] = None THEN sender[at(i)]
        ELSE author[sequence[forwarded_from[at(i)]]]
  IN author

OriginIsRoot ==
  \A m \in Message : status[m] \in {"active", "expired"} /\ forwarded_from[m] # None =>
    origin[m] = RootAuthor[sequence[m]]

\* What an excluded user (left, or banned in the conversation or the Project) has
\* written stands still: no new message, reaction or checkpoint of theirs appears.
Excluded(u) == ~Active(u) \/ u \in banned \/ u \in project_banned
InertStep ==
  \A u \in User : Excluded(u) =>
    /\ \A m \in Message : sender'[m] = u => sender[m] = u
    /\ \A r \in reactions' : r[2] = u => r \in reactions
    /\ last_read'[u] = last_read[u] /\ last_delivered'[u] = last_delivered[u]
ExcludedInert == [][InertStep]_vars

\* What the blacklist rejects is never stored, however it arrives: as a new
\* message, as an edit, or as a forward of a message that was sent before the entry
\* was added.
ScreenedStep ==
  \A e \in conversation_events' \ conversation_events :
    e.kind \in {"message.created", "message.updated"} => body'[e.ref] \notin rejected
ContentScreened == [][ScreenedStep]_vars

\* Nothing a client keeps as a cursor or precondition ever runs backwards: the
\* counters, every version and every checkpoint, across leaving and rejoining.  And
\* nobody has read what was not delivered, or was delivered what was not sent.
CheckpointStep ==
  /\ event_sequence' >= event_sequence /\ message_sequence' >= message_sequence
  /\ \A m \in Message : version'[m] >= version[m]
  /\ \A m \in Message : Exists(m) => sequence'[m] = sequence[m]
  /\ \A u \in User : /\ member_version'[u] >= member_version[u]
                     /\ last_read'[u] \in last_read[u]..last_delivered'[u]
                     /\ last_delivered'[u] \in last_delivered[u]..message_sequence'
Checkpoints == [][CheckpointStep]_vars
=============================================================================
