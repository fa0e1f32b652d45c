SPECIFICATION Spec
CONSTANTS
  Clients = {a, b}
  None = None
  PoolSize = 2
  OfferTime = 0
  LeaseTime = 1
  DeclineTime = 1
  ClockPeriod = 3
  AtZero = TRUE
  QueueLen = 1
SYMMETRY Stas
INVARIANTS
  AckedIsLeased
CHECK_DEADLOCK FALSE
