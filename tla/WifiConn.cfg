SPECIFICATION FairSpec
CONSTANTS
  Limits = {1, 2}
  QueueLength = 5
INVARIANTS
  LimitTaken
  Supervised
PROPERTIES
  Answered
CHECK_DEADLOCK FALSE
