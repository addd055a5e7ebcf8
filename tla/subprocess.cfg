SPECIFICATION FairTools
CONSTANTS
  Stream <- Streams
  Child = "child"
  Kid = {"kid"}
  Code = {0, 1, 2}
  Killed = Killed
  Caller = {"script", "search", "command"}
  Cap = 2
  Chunk = 2
  Continues = {3, 7}
  MaxBytes <- Bytes
  Editor = {e, f, w}
  Edits <- SomeEdits
  Contents <- SomeContents
  FirstFile <- Start
  MaxReadLines = 3
INVARIANTS
  OutputIsExact
  NothingSurvives
  FilesStayWhole
PROPERTIES
  CallEnds
CHECK_DEADLOCK FALSE
