CONSTANTS
  MaxProcs = 3
  MaxStops = 2
  MaxCommands = 2
SPECIFICATION FairSpec
INVARIANTS TypeOK HandlerKnowsChildren GroupWhole SoleJobWaitedFor
PROPERTIES SoleWaitEnds ZombiesReaped
CHECK_DEADLOCK FALSE
