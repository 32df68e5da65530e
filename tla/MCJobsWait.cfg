CONSTANTS
  MaxProcs = 2
  MaxStops = 0
  MaxCommands = 1
SPECIFICATION Spec
INVARIANT ForegroundWaitedFor
CHECK_DEADLOCK FALSE
