SPECIFICATION FairSpec
CONSTANTS
  Name <- Names
  END = "__end__"
  Alphabet <- Spelling
  EndSpellings = {"END", "End", "end"}
  NoWhen = NoWhen
  Graphs <- LoopAndBranch
  MaxSteps = 4
  MaxRetries = 1
  Patient = {"c", "d"}
  MaxDrives = 3
  Nobody = Nobody
  Spelled <- MoreNames
  Documents <- SomeDocuments
  Directories <- SomeDirectories
  Token <- Tokens
  Templates <- ShortTemplates
  Letter <- Letters
  Values <- OddValues
  Keys <- SomeKeys
  Mark <- Marks
  Workers <- SomeWorkers
  Answers <- World
  Histories <- TwoSteps
  Outputs <- Widths13
  MaxExecOutput = 5
  Attached <- Networks
INVARIANTS
  MeansItsText
  CheckpointExact
  StateIsPath
  ResumesExactlyHere
  DurableIsPrefix
  NoOrphanNode
  CancelStopsSoon
  ReportedIsStored
PROPERTIES
  CompletedMeansDone
  ImplementsRecord
  DriverEnds
  CancelEnds
  FailureEndsAttempt
CHECK_DEADLOCK FALSE
