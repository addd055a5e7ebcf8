SPECIFICATION FairSpec
CONSTANTS
  MaxIterations = 6
  KeepRecent = 5
  MaxBatch = 2
  LineBytes = 2
  MaxBlocks = 2
  MaxPieces = 2
  MaxRendered = 2
  MaxToolName = 4
  ServerNames <- MCServerNames
  RemoteNames <- MCRemoteNames
  MaxServers = 2
  MaxTools = 2
INVARIANTS
  RequestWellFormed
  NothingForgotten
  RecentIsVerbatim
  CancelStopsSoon
  WireFaithful
  NamesReachTools
PROPERTIES
  CancelEnds
CHECK_DEADLOCK FALSE
