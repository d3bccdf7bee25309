------------------------------- MODULE LruMap -------------------------------
(***************************************************************************)
(* What the result cache promises (cpp/include/QueryCache.hpp: "LRU result  *)
(* cache keyed on QuerySpec"): a list of at most Capacity entries in order  *)
(* of use.  A look-up finds the entry of an equal spec, if there is one     *)
(* anywhere in the list, and makes it the most recent; a store replaces it, *)
(* or makes room by dropping the least recent entry.  No hashes here.       *)
(***************************************************************************)
EXTENDS LruOps

CONSTANTS Spec, Rows,
          Same(_, _),   \* are two specs the same query?
          Storable(_),  \* are the rows few enough to be kept?
          Capacity,     \* cache_capacity
          Miss          \* the answer of a look-up that finds nothing

VARIABLES recent,  \* the entries, most recent first
          answer   \* what the last look-up returned

Positions(s) == {i \in DOMAIN recent : Same(recent[i].spec, s)}

Init == recent = <<>> /\ answer = Miss

Get(s) ==
  IF Positions(s) = {}
    THEN answer' = Miss /\ UNCHANGED recent
    ELSE \E i \in Positions(s) : /\ answer' = recent[i].rows
                                 /\ recent' = MovedToFront(recent, i, recent[i])

Put(s, rows) ==
  LET entry == [spec |-> s, rows |-> rows]
  IN  /\ Capacity > 0 /\ Storable(rows)
      /\ IF Positions(s) = {}
           THEN recent' = PushedFront(recent, entry, Capacity)
           ELSE \E i \in Positions(s) :
                  recent' = MovedToFront(recent, i, [recent[i] EXCEPT !.rows = rows])
      /\ UNCHANGED answer

Next == \E s \in Spec : Get(s) \/ \E rows \in Rows : Put(s, rows)

MapSpec == Init /\ [][Next]_<<recent, answer>>
=============================================================================
