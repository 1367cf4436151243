CONSTANTS
  peer = peer
  alice = alice
  r1 = r1
  r2 = r2
  Request = {r1, r2}
  Ip = {peer}
  User = {alice}
  NoOne = NoOne
  IpPerMinute = 1
  UserPerMinute = 1
  Second = 2
  Seconds = 1
  Origin = {"docs", "web"}
  Allowed = {"web"}
SPECIFICATION Spec
INVARIANTS WithinLimit WaitIsEnough
PROPERTIES WindowEnds TokenForgotten
CHECK_DEADLOCK FALSE
