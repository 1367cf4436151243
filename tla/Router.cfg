CONSTANTS
  w1 = w1
  w2 = w2
  c1 = c1
  c2 = c2
  None = None
  Worker = {w1, w2}
  Conversation = {c1, c2}
  MaxEvents = 2
  MaxFaults = 2
SPECIFICATION RouterSpec
INVARIANTS NoHintSkipped
PROPERTIES  EventuallyHinted
CHECK_DEADLOCK FALSE
