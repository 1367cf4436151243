CONSTANTS
  c1 = c1
  c2 = c2
  Connection = {c1, c2}
  MaxConnections = 2
  MaxLeases = 1
  Incoming = 1
  MaxFrames = 2
  MaxFaults = 1
SPECIFICATION ConnectionSpec
INVARIANTS DrainLeavesNothing
PROPERTIES EveryoneEnds
CHECK_DEADLOCK FALSE
