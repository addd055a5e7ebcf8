SPECIFICATION FairSpec
CONSTANTS
  p1 = p1
  x = x
  q = q
  Provision = {p1}
  Exec = {x}
  Plain = {q}
  Uses <- OneBox
  MaxRetries = 1
  MaxSteps = 2
  MaxLives = 2
INVARIANTS
  NothingLeaks
  TeardownIsSafe
PROPERTIES
  CancelEnds
  CleanupEnds
CHECK_DEADLOCK FALSE
