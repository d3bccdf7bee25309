SPECIFICATION FloodSpec
CONSTANTS
  Node <- OverlayNodes
  Portal <- OverlayPortal
  Peers <- OverlayPeers
  Dead = {"D"}
  DeadlinesExpire = FALSE
INVARIANTS FloodTypeOK AtMostOneExecution RefusedPeersAreRouted RoutesLeadToPortal
PROPERTIES RouteKept ReachableExecute CancelHeard
CHECK_DEADLOCK FALSE
