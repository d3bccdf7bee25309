------------------------------ MODULE MCPortal ------------------------------
(* Small portals. *)
EXTENDS Portal

OneQuery == {"q"}
TwoNodes == {"A", "B"}
OnePeer == {"B"}

(* A peer with one row, for a query that is asked twice. *)
OneRow == [q \in OneQuery |-> [p \in TwoNodes |-> IF p = "B" THEN 1 ELSE 0]]

(* A peer with more rows than the cache takes; one that comes again fills   *)
(* the buffer.                                                              *)
TwoRows == [q \in OneQuery |-> [p \in TwoNodes |-> IF p = "B" THEN 2 ELSE 0]]
=============================================================================
