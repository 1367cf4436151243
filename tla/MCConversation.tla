--------------------------- MODULE MCConversation ---------------------------
(***************************************************************************)
(* The instance of Conversation for TLC.  Every command is there, and      *)
(* Focus says which of their combinations are extended: a state beyond it  *)
(* is checked, but its successors are not explored.                        *)
(***************************************************************************)
EXTENDS Conversation

CONSTANTS u1, u2, u3, m1, m2, m3, a1, a2, c1, c2, e1, e2

EventsWithin(kinds, n) ==
  Cardinality({e \in conversation_events : e.kind \in kinds}) <= n

MemberKinds ==
  {"conversation.created", "conversation.updated", "conversation.members.added",
   "conversation.member.updated", "conversation.member.left"}

\* u1 and u2, messages, clients and attachments are interchangeable, and used in the
\* order of their names.
InOrder ==
  /\ event_sequence = 1 /\ conversation_type # "DIRECT" => role[u1] = "moderator"
  /\ sequence[m2] # 0 => sequence[m1] \in 1..sequence[m2]
  /\ sequence[m3] # 0 => sequence[m2] \in 1..sequence[m3]
  /\ client[m1] \in {None, c1}
  /\ attachment_status[a2] # "absent" => attachment_status[a1] # "absent"

OneExpired == Cardinality({m \in Message : status[m] = "expired"}) <= 1
NoChange(kinds) == EventsWithin(kinds, 0)
Settled == flags = Flags /\ project_banned = {}
NoRelations == NoChange({"reaction.created", "message.pinned"})
NoUploads == \A a \in Attachment : attachment_status[a] = "absent"
NoReceipts == \A u \in User : last_delivered[u] = 0

\* Commands on members only, three after the creation.
MembersFocus ==
  /\ message_sequence = 0 /\ event_sequence <= 3
  /\ NoUploads /\ rejected = {}

\* Three texts with replies, forwards, edits, deletions and repeated commands, one
\* receipt lapsed.
TextFocus ==
  /\ conversation_type = "GROUP" /\ founders = {u1, u2}
  /\ event_sequence <= 4 /\ EventsWithin(MemberKinds, 1) /\ Cardinality(lapsed) <= 1
  /\ Settled
  /\ NoUploads /\ NoRelations /\ NoReceipts /\ rejected = {}

\* Two texts with reactions, pins and receipts, while members come and go.
RelationFocus ==
  /\ conversation_type = "CHANNEL"
  /\ event_sequence <= 4 /\ EventsWithin(MemberKinds, 2)
  /\ role[u3] = "none" /\ flags = Flags
  /\ sequence[m3] = 0 /\ client[m2] \in {None, c2} /\ lapsed = {}
  /\ \A m \in Message : reply_to[m] = None /\ forwarded_from[m] = None
  /\ NoChange({"message.updated"}) /\ NoUploads /\ rejected = {}

\* Two messages with images, while the blacklist changes.
ImageFocus ==
  /\ conversation_type = "DIRECT" /\ founders = {u1, u2}
  /\ event_sequence <= 3 /\ EventsWithin(MemberKinds, 1)
  /\ Settled
  /\ sequence[m3] = 0 /\ lapsed = {} /\ NoRelations /\ NoReceipts
  /\ \A m \in Message : reply_to[m] = None

Focus ==
  /\ InOrder /\ OneExpired
  /\ MembersFocus \/ TextFocus \/ RelationFocus \/ ImageFocus
=============================================================================
