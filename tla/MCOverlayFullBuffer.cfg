SPECIFICATION Spec
CONSTANTS
  Node <- PairNodes
  Portal = "A"
  Peers <- PairPeers
  Dead = {}
  DeadlinesExpire = FALSE
  Rows <- PairTwoRows
  ChunkRows = 2
  Capacity = 1
  MaxFetch = 2
  PushFailures = FALSE
  Tries = 5
INVARIANTS CompleteAtFinal
CHECK_DEADLOCK FALSE
