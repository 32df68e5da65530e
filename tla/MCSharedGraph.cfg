SPECIFICATION Spec
CONSTANTS
  NConsumers = 2
  Consumers <- MCConsumers
  InitialNodes = 2
  InitialEdges <- MCInitialEdges
  ProducerCapacity = 2
  ConsumerCapacity = 3
  MaxNewNodes = 1
  MaxDegree = 2
INVARIANTS
  TypeOK
  ReadsOneProduct
  PathsShortest
  SharesPartition
CHECK_DEADLOCK FALSE
