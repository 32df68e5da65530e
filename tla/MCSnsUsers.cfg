SPECIFICATION Spec
CONSTANTS
  N = 7
  R = 3
  MaxRounds = 4
INVARIANTS
  TypeOK
  SelectionProceeds
  DistinctInRound
CHECK_DEADLOCK FALSE
