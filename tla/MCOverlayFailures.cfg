SPECIFICATION Spec
CONSTANTS
  Node <- PairNodes
  Portal = "A"
  Peers <- PairPeers
  Dead = {}
  DeadlinesExpire = TRUE
  Rows <- PairThreeRows
  ChunkRows = 2
  Capacity = 3
  MaxFetch = 2
  PushFailures = TRUE
  Tries = 2
INVARIANTS CopiesBounded
PROPERTIES ImplementsService
CHECK_DEADLOCK FALSE
