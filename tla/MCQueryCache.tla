---------------------------- MODULE MCQueryCache ----------------------------
(* Six specs that are told apart and two that are not, on two hash values.  *)
EXTENDS QueryCache

TwoFields == {"x", "y"}
PlainAndNaN == {"box", "nan"}

(* One hash for everything that uses a box or asks for x, another for the   *)
(* rest: collisions between equal and unequal boxes and between fields.     *)
Colliding ==
  [k \in TwoFields \X BOOLEAN \X (PlainAndNaN \cup {"none"}) |->
     IF k[2] \/ k[1] = "x" THEN 0 ELSE IF k[3] = "nan" THEN 2 ELSE 1]
=============================================================================
