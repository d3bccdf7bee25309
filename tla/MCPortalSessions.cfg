SPECIFICATION Spec
CONSTANTS
  Node <- TwoNodes
  Root = "A"
  Peers <- OnePeer
  Query <- OneQuery
  Rows <- TwoRows
  Capacity = 2
  Word = 8
  InitialChunk = 0
  MinChunk = 1
  MaxChunk = 2
  CacheCapacity = 2
  CacheMaxRows = 1
  Losses = TRUE
  Abandons = TRUE
  MaxAgain = 1
  MaxRequests = 1
INVARIANTS TypeOK FinalIsComplete CancelSticks
PROPERTIES ErasedOnlyWhenFinal FetchTakesSomething SessionsEnd
CHECK_DEADLOCK FALSE
