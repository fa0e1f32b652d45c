SPECIFICATION Spec
CONSTANTS
  SmallSize = 5
  BurstSize = 8
  FifoDepth = 2
  MaxBytes = 6
  BitAnd <- AndOf
INVARIANT AllIntoRing
CHECK_DEADLOCK FALSE
