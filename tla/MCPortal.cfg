SPECIFICATION Spec
CONSTANTS
  Node <- TwoNodes
  Root = "A"
  Peers <- OnePeer
  Query <- OneQuery
  Rows <- OneRow
  Capacity = 1
  Word = 8
  InitialChunk = 1
  MinChunk = 1
  MaxChunk = 1
  CacheCapacity = 2
  CacheMaxRows = 1
  Losses = FALSE
  Abandons = FALSE
  MaxAgain = 0
  MaxRequests = 2
INVARIANTS TypeOK FinalIsComplete
CHECK_DEADLOCK FALSE
