SPECIFICATION Spec
CONSTANTS
  SmallSize = 5
  BurstSize = 8
  FifoDepth = 2
  MaxBytes = 6
  BitAnd <- AndOf
INVARIANT NoLostWakeup
PROPERTIES
  NeverGarbage
  Drained
CHECK_DEADLOCK FALSE
