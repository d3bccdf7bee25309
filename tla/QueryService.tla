---------------------------- MODULE QueryService ----------------------------
(***************************************************************************)
(* What the overlay promises the client of one query that nobody cancels    *)
(* (docs/ARCHITECTURE.md, docs/CHUNKING.md): every matching row at most     *)
(* once, in chunks, and a final chunk only when every row has been handed   *)
(* out -- except the rows the system has written off by then.  The code     *)
(* writes rows off in two places, named in Overlay; which rows those may be *)
(* is left open here, that no other row is missing is not.                  *)
(***************************************************************************)
CONSTANT Result        \* the rows of every node's partition that match

VARIABLES delivered,   \* the rows the client has received
          writtenOff,  \* the rows the system no longer waits for
          finished     \* the client has been told final = true

serviceVars == <<delivered, writtenOff, finished>>

ServiceInit ==
  /\ delivered = {}
  /\ writtenOff = {}
  /\ finished = FALSE

WriteOff ==
  /\ writtenOff \subseteq writtenOff' /\ writtenOff' \subseteq Result
  /\ UNCHANGED <<delivered, finished>>

(* A chunk carries rows the client has not seen. *)
Deliver ==
  /\ ~finished
  /\ \E rows \in SUBSET (Result \ delivered) : delivered' = delivered \cup rows
  /\ UNCHANGED <<writtenOff, finished>>

Finish ==
  /\ ~finished /\ Result \subseteq delivered \cup writtenOff
  /\ finished' = TRUE
  /\ UNCHANGED <<delivered, writtenOff>>

ServiceSpec == ServiceInit /\ [][WriteOff \/ Deliver \/ Finish]_serviceVars
=============================================================================
