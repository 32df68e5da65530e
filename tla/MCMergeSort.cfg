SPECIFICATION FairSpec
CONSTANTS
  M = 32
  N = 5
  Pointers = {p1, p2, p3}
  Absent = Absent
  Null = Null
  PastEnd <- MCPastEnd
  Values <- MCValues
INVARIANTS
  TypeOK
  ListReachable
  MemoryTiled
  CallsSort
PROPERTY Finishes
CHECK_DEADLOCK FALSE
