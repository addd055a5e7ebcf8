SPECIFICATION Spec
CONSTANTS
  Name <- Names
  END = "__end__"
  Alphabet <- Spelling
  EndSpellings = {"END", "End", "end"}
  NoWhen = NoWhen
  Graphs <- JustChain
  MaxSteps = 3
  MaxRetries = 0
  Patient = {}
  MaxDrives = 1
  Nobody = Nobody
  Spelled <- MoreNames
  Documents <- SomeDocuments
  Directories <- SomeDirectories
  Token <- Tokens
  Templates <- ShortTemplates
  Letter <- Letters
  Values <- OddValues
  Keys <- SomeKeys
  Mark <- Marks
  Workers <- SomeWorkers
  Answers <- World
  Histories <- TwoSteps
  Outputs <- Widths13
  MaxExecOutput = 5
  Attached <- Networks
INVARIANTS
  LimitMeansExceeded
CHECK_DEADLOCK FALSE
