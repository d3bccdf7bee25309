SPECIFICATION Spec
CONSTANTS
  Node <- RingNodes
  Portal = "A"
  Peers <- RingPeers
  Dead = {}
  DeadlinesExpire = FALSE
  Rows <- RingRows
  ChunkRows = 1
  Capacity = 2
  MaxFetch = 2
  PushFailures = FALSE
  Tries = 5
INVARIANTS TypeOK RowsOnceInOrder
PROPERTIES ImplementsService EventuallyFinal
CHECK_DEADLOCK FALSE
