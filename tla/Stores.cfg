SPECIFICATION Spec
CONSTANTS
  Values = {u, v}
  NBlocks = 2
  Settings = {s, t}
  Default = s
  MaxFds = 2
INVARIANTS
  Stored
  OthersKept
  Survives
CHECK_DEADLOCK FALSE
