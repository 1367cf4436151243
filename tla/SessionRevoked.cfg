CONSTANTS
  c1 = c1
  c2 = c2
  Conversation = {c1}
  MaxEvents = 2
  Capacity = 2
  Threshold = 0
  Batch = 1
  MaxSubscriptions = 1
  Hidden = {2}
  MaxCommands = 2
  MaxChanges = 0
  MaxFaults = 1
SPECIFICATION SessionSpec
INVARIANTS RevokedFinal
CHECK_DEADLOCK FALSE
