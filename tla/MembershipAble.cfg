CONSTANTS
  u1 = u1
  u2 = u2
  u3 = u3
  None = None
  User = {u1, u2, u3}
  Bots = {}
  Admins = {u1}
  Flags = {"allow_bots"}
  Switchable = {}
  MaxEvents = 5
SPECIFICATION MemberSpec
PROPERTIES AbleModeratorKept
CHECK_DEADLOCK FALSE
