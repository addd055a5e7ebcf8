SPECIFICATION Spec
CONSTANTS
  Scripts <- AllScripts
  MaxHistory = 3
  TrimBatch = 2
  Capacity = 2
INVARIANTS
  ReplayIsComplete
CHECK_DEADLOCK FALSE
