SPECIFICATION ConsoleSpec
CONSTANTS
  Cap = 2
  FifoDepth = 1
  ReadSize = 1
  MaxBytes = 5
  BufferSize = 3
  Keys = {"char", "bs", "cr", "?", "esc"}
INVARIANTS
  LineAsTyped

  
CHECK_DEADLOCK FALSE
