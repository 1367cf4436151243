CONSTANTS
  t1 = t1
  t2 = t2
  Tx = {t1, t2}
  User = {1, 2}
  Bots = {}
  Conv = {1, 2}
  Sent = {1}
  Kinds = {"send", "delete", "forward", "add", "promote", "demote", "remove", "direct", "ban", "unban", "allow_bots", "allow_delete", "appoint", "dismiss", "download", "report", "profile"}
SPECIFICATION Spec
INVARIANTS ReadsCurrent OnlyDownloadsDeadlock
PROPERTIES OneAtATime
SYMMETRY Symmetry
CHECK_DEADLOCK FALSE
