CONSTANTS
  u1 = u1
  u2 = u2
  u3 = u3
  m1 = m1
  m2 = m2
  m3 = m3
  a1 = a1
  a2 = a2
  c1 = c1
  c2 = c2
  e1 = e1
  e2 = e2
  None = None
  Wiped = Wiped
  User = {u1, u2, u3}
  Bots = {u3}
  Admins = {u1, u2}
  Flags = {"allow_bots", "allow_reply", "allow_edit", "allow_delete", "allow_forward", "allow_reactions", "allow_pin", "allow_images"}
  Switchable = {"allow_bots"}
  Message = {m1, m2, m3}
  Client = {c1, c2}
  Body = {"b1"}
  Attachment = {a1, a2}
  Emoji = {e1, e2}
  MaxKinds = 1
  MaxPins = 1
  Blacklisted = {"b1"}
  MaxEvents = 5
SPECIFICATION Spec
INVARIANTS MemberTypeOK LogDense ModeratorKept ModeratorsHuman MembershipLogged LastMessageValid MessageOrder RetryOnce OriginIsRoot VersionsLogged Tombstones RelationsBounded AttachmentsLinked
PROPERTIES ExcludedInert ContentScreened Checkpoints
CONSTRAINT Focus
CHECK_DEADLOCK FALSE
