SPECIFICATION FairSpec
CONSTANTS
  Scripts <- AllScripts
  MaxHistory = 3
  TrimBatch = 2
  Capacity = 2
INVARIANTS
  HistoryIsRecent
  InOrder
  CloseIsFinal
PROPERTIES
  FinishedCloses
CHECK_DEADLOCK FALSE
