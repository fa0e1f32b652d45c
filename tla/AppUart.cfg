SPECIFICATION FairSpec
CONSTANTS
  Size = 3
  FifoDepth = 2
  Lengths = {2}
  Links = {"tcp", "udp"}
  MaxLines = 4
INVARIANTS
  TypeOK
  Terminated
  ByteOrder
  AnswersOwed
PROPERTIES
  Handled
CHECK_DEADLOCK FALSE
