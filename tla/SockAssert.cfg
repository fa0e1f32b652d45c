SPECIFICATION Spec
CONSTANTS
  Fds = {0, 1, 2}
  Ports = {1, 2}
  HeadAbove = TRUE
  Overlap = FALSE
  Faults = FALSE
INVARIANTS
  WatchedOpen
CHECK_DEADLOCK FALSE
