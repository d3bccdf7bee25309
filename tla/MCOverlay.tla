----------------------------- MODULE MCOverlay -----------------------------
(* Small overlays for whole queries. *)
EXTENDS Overlay

Neighbours(nodes, edges) ==
  [n \in nodes |-> {m \in nodes : <<n, m>> \in edges \/ <<m, n>> \in edges}]

(* The cycle A-B-E-G of config/topology.conf: E is two hops from the portal, *)
(* asked by B and by G, and its upstream is the one that asked first.       *)
RingNodes == {"A", "B", "E", "G"}
RingPeers == Neighbours(RingNodes, {<<"A","B">>, <<"B","E">>, <<"E","G">>, <<"A","G">>})
RingRows == [n \in RingNodes |-> IF n = "E" THEN 2 ELSE IF n = "G" THEN 1 ELSE 0]

(* Two neighbours, the further one with a full chunk (PairTwoRows, and then *)
(* the empty last one) or with a full chunk and a last row (PairThreeRows). *)
PairNodes == {"A", "B"}
PairPeers == Neighbours(PairNodes, {<<"A","B">>})
PairThreeRows == [n \in PairNodes |-> IF n = "B" THEN 3 ELSE 0]
PairTwoRows == [n \in PairNodes |-> IF n = "B" THEN 2 ELSE 0]
=============================================================================
