SPECIFICATION Spec
CONSTANTS
  t1 = t1  t2 = t2  t3 = t3
  M = 8
  Threads <- MCThreads
  Size <- MCSize
  PastEnd <- MCPastEnd
INVARIANTS
  TypeOK
  Tiled
  ListsDisjoint
  LifoClientsServed
CHECK_DEADLOCK FALSE
