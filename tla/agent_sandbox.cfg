SPECIFICATION FairSpec
CONSTANTS
  Node = {"plan", "code"}
  MaxTries = 2
  MaxConnections = 1
  MaxEvents = 1
INVARIANTS
  AnswerIsComplete
  OwnOrLostAnswers
PROPERTIES
  CancelEnds
CHECK_DEADLOCK FALSE
