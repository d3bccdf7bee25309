SPECIFICATION FloodSpec
CONSTANTS
  Node <- OverlayNodes
  Portal <- OverlayPortal
  Peers <- OverlayPeers
  Dead = {"G"}
  DeadlinesExpire = FALSE
PROPERTIES FloodEnds
CHECK_DEADLOCK FALSE
