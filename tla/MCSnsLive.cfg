SPECIFICATION FairSpec
CONSTANTS
  u1 = u1  u2 = u2  u3 = u3  p1 = p1  p2 = p2  r1 = r1  r2 = r2
  Simulator = Simulator
  NoThread = NoThread
  NoAction = NoAction
  Nodes <- MCPair
  Neighbours <- MCPairNeighbours
  Order <- MCPairOrder
  Pushers <- MCOnePusher
  Readers <- MCReaders
  ProportionalityConstant = 2
  MaxActions = 2
  MaxClock = 1
  SpuriousWakeups = FALSE
INVARIANTS
  FeedTracked
PROPERTY EveryActionRead
CHECK_DEADLOCK FALSE
