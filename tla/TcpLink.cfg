SPECIFICATION FairSpec
CONSTANTS
  Fds = {0, 1, 2}
  MaxTasks = 3
  Foreign = TRUE
  Patient = TRUE
INVARIANTS
  MagicMeansOpen
  
  
PROPERTIES
  
  ImplementsStatus
CHECK_DEADLOCK FALSE
