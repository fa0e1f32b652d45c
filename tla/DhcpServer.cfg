SPECIFICATION Spec
CONSTANTS
  Clients = {a, b}
  None = None
  PoolSize = 2
  OfferTime = 0
  LeaseTime = 0
  DeclineTime = 1
  ClockPeriod = 3
  AtZero = FALSE
  QueueLen = 1
SYMMETRY Stas
INVARIANTS
  LeasesDistinct
  NoDoubleUse
  NeverRefused
PROPERTIES
  LeaseKept
  ImplementsPool
CHECK_DEADLOCK FALSE
