------------------------------ MODULE MCFanout ------------------------------
(* The overlays of the Fanout runs. *)
EXTENDS AbortFlood, FiniteSetsExt, TLC

C == INSTANCE Config

NodeLine(n, root) ==
  [kw |-> "node", args |-> <<n, <<"host", "127.0.0.1">>, <<"port", 50051>>, <<"root", root>>>>]
EdgeLine(a, b) == [kw |-> "edge", args |-> <<a, b>>]
PartLine(n, path) == [kw |-> "partition", args |-> <<n, path>>]

(* config/topology.conf without its leaves F, H and I, which are asked and  *)
(* answer as C does: the cycles B-D-E and A-B-E-G.                          *)
OverlayConf ==
  <<NodeLine("A", "true"), NodeLine("B", ""), NodeLine("C", ""), NodeLine("D", ""),
    NodeLine("E", ""), NodeLine("G", ""),
    EdgeLine("A", "B"), EdgeLine("B", "C"), EdgeLine("B", "D"), EdgeLine("B", "E"),
    EdgeLine("E", "D"), EdgeLine("E", "G"), EdgeLine("A", "G"),
    PartLine("A", "part_A"), PartLine("B", "part_B"), PartLine("C", "part_C"),
    PartLine("D", "part_D"), PartLine("E", "part_E"), PartLine("G", "part_G")>>

(* The files that partition_data.py writes all load. *)
BadFiles == {}

Started == {n \in C!NodeIds(OverlayConf) : C!Starts("cpp", OverlayConf, BadFiles, n)}
RootId == CHOOSE n \in C!RootIds("cpp", OverlayConf) : TRUE
Stubs == FoldSet(LAMBDA n, stubs : stubs @@ (n :> C!NeighborsOf(OverlayConf, n)), <<>>, Started)

(* TLC evaluates the definitions above once, and these at every use. *)
OverlayNodes == Started
OverlayPortal == RootId
OverlayPeers == Stubs
=============================================================================
