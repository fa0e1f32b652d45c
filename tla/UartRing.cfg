SPECIFICATION FairSpec
CONSTANTS
  Cap = 4
  FifoDepth = 2
  ReadSize = 1
  MaxBytes = 10
INVARIANTS
  InOrder
  RingHolds
  NoLostWakeup
PROPERTIES
  
  ImplementsQueue
CHECK_DEADLOCK FALSE
