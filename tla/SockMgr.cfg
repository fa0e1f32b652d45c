SPECIFICATION FairSpec
CONSTANTS
  Fds = {0, 1, 2}
  Ports = {1}
  HeadAbove = TRUE
  Overlap = FALSE
  Faults = TRUE
INVARIANTS
  
  
  WatchedOpen
  WatchedListed
  Served
PROPERTIES
  OnlyAsked
  CloseCompletes
  
  CommandReturns
CHECK_DEADLOCK FALSE
