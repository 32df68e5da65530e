SPECIFICATION FairSpec
CONSTANTS
  g1 = g1  g2 = g2  g3 = g3  c1 = c1  c2 = c2
  Nobody = Nobody
  N = 2
  Guests <- MCGuests
  Cleaners <- MCCleaners
  priority <- MCPriority
  MaxCleanings = 1
  SpuriousWakeups = FALSE
PROPERTIES
  CleaningEnds
CHECK_DEADLOCK FALSE
