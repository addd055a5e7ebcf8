SPECIFICATION Spec
CONSTANTS
  Scripts <- AllScripts
  MaxHistory = 3
  TrimBatch = 2
  Capacity = 2
INVARIANTS
  AsksForFinalResult
CHECK_DEADLOCK FALSE
