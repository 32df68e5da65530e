SPECIFICATION Spec
CONSTANTS
  u1 = u1  u2 = u2  u3 = u3  p1 = p1  p2 = p2  r1 = r1  r2 = r2
  Simulator = Simulator
  NoThread = NoThread
  NoAction = NoAction
  Nodes <- MCNodes
  Neighbours <- MCNeighbours
  Order <- MCOrder
  Pushers <- MCPushers
  Readers <- MCReaders
  ProportionalityConstant = 1
  MaxActions = 2
  MaxClock = 0
  SpuriousWakeups = TRUE
SYMMETRY ThreadSymmetry
INVARIANTS
  TypeOK
  MutualExclusion
  LogOrder
  DeliveredOnce
  BlockedOnlyWhenDone
PROPERTY DeliversOnce
CHECK_DEADLOCK FALSE
