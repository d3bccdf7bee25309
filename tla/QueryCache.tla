----------------------------- MODULE QueryCache -----------------------------
(***************************************************************************)
(* The portal's result cache (cpp/src/QueryCache.cpp): a doubly linked list *)
(* lru_ of entries and a multimap index_ from a hash to list iterators.     *)
(* get and put hold mu_, so each is one step.  An iterator is the number of *)
(* its list node; numbers are reused, as freed nodes are.                   *)
(*                                                                          *)
(* A spec is what specEqual tells apart: the exact fields (borough,         *)
(* complaint type, dates, max_rows) as one value, whether a geo box is      *)
(* used, and the box, which neither the hash nor the comparison looks at    *)
(* when it is not used.  A box with a NaN corner equals nothing, not even   *)
(* itself.  The hit and miss counters only feed GetStats and are left out.  *)
(***************************************************************************)
EXTENDS LruOps, FiniteSets

CONSTANTS Fields,      \* values of the exact fields
          Box, NaNBox, \* geo boxes, and those among them with a NaN corner
          Mix,         \* the hash of <<fields, use_geo_box, box or NoBox>>
          NoBox,
          Rows, TooMany, \* results, and those among them above max_rows_
          Capacity, Miss

ASSUME CacheConstants ==
  /\ NaNBox \subseteq Box /\ NoBox \notin Box
  /\ Mix \in [Fields \X BOOLEAN \X (Box \cup {NoBox}) -> Nat]
  /\ TooMany \subseteq Rows
  /\ Capacity \in Nat

VARIABLES lru, index, answer

vars == <<lru, index, answer>>

QuerySpec == [fields : Fields, geo : BOOLEAN, box : Box]

(* Mutant: the hash takes the box in even when it is not used. *)
HashAlwaysWithBox(s) == Mix[<<s.fields, s.geo, s.box>>]

HashSpec(s) == Mix[<<s.fields, s.geo, IF s.geo THEN s.box ELSE NoBox>>]

SpecEqual(a, b) ==
  /\ a.fields = b.fields /\ a.geo = b.geo
  /\ a.geo => a.box = b.box /\ a.box \notin NaNBox

(* The list positions that index_.equal_range(hash) leads to. *)
Bucket(hash) == {i \in DOMAIN lru : <<hash, lru[i].node>> \in index}

Found(s) == {i \in Bucket(HashSpec(s)) : SpecEqual(lru[i].spec, s)}

FreeNode == CHOOSE n \in 1..(Len(lru) + 1) : \A i \in DOMAIN lru : lru[i].node # n

Init ==
  /\ lru = <<>>
  /\ index = {}
  /\ answer = Miss

Get(s) ==
  /\ IF Capacity = 0 \/ Found(s) = {}
       THEN answer' = Miss /\ UNCHANGED lru
       ELSE \E i \in Found(s) : /\ answer' = lru[i].rows
                                /\ lru' = MovedToFront(lru, i, lru[i])
  /\ UNCHANGED index

(* The index entry of the node to be dropped, found by its iterator among   *)
(* the entries with its hash.                                               *)
Back == lru[Len(lru)]

(* Mutant: eviction erases the first index entry with the hash of the node. *)
EvictAnyOfHash ==
  IF Len(lru) < Capacity THEN index
  ELSE index \ {CHOOSE e \in index : e[1] = Back.hash}

Evict == IF Len(lru) < Capacity THEN index ELSE index \ {<<Back.hash, Back.node>>}

Replace(s, rows) ==
  /\ \E i \in Found(s) : lru' = MovedToFront(lru, i, [lru[i] EXCEPT !.rows = rows])
  /\ UNCHANGED index

(* The list node is freed before the new one is made; the model numbers the *)
(* new one first, which is the same but for the number.                     *)
Insert(s, rows) ==
  /\ Found(s) = {}
  /\ lru' = PushedFront(lru, [node |-> FreeNode, hash |-> HashSpec(s),
                              spec |-> s, rows |-> rows], Capacity)
  /\ index' = Evict \cup {<<HashSpec(s), FreeNode>>}

Put(s, rows) ==
  /\ Capacity > 0 /\ rows \notin TooMany
  /\ Replace(s, rows) \/ Insert(s, rows)
  /\ UNCHANGED answer

Next == \E s \in QuerySpec : Get(s) \/ \E rows \in Rows : Put(s, rows)

CacheSpec == Init /\ [][Next]_vars

-----------------------------------------------------------------------------

Entry == [node : Nat, hash : Nat, spec : QuerySpec, rows : Rows]

(* Types of the list, the index and the last answer; the list keeps to      *)
(* cache_capacity.                                                          *)
TypeOK ==
  /\ lru \in Seq(Entry) /\ Len(lru) <= Capacity
  /\ index \subseteq Nat \X Nat
  /\ answer \in Rows \cup {Miss}

(* The index has exactly one iterator for every list node, under the hash   *)
(* of its spec, and none that dangles: put erases the iterator of the very  *)
(* node it drops although others may have the same hash.                    *)
IndexAgrees ==
  /\ index = {<<lru[i].hash, lru[i].node>> : i \in DOMAIN lru}
  /\ \A i \in DOMAIN lru : lru[i].hash = HashSpec(lru[i].spec)
  /\ \A i, j \in DOMAIN lru : lru[i].node = lru[j].node => i = j

(* With hashes and collisions, the cache is the plain list of recent        *)
(* results: it finds what a search of the whole list would find, whatever   *)
(* the unused box of the spec is, and forgets only the least recent.        *)
Storable(rows) == rows \notin TooMany
Map == INSTANCE LruMap WITH
  Spec <- QuerySpec, Same <- SpecEqual,
  recent <- [i \in DOMAIN lru |-> [spec |-> lru[i].spec, rows |-> lru[i].rows]]

ImplementsMap == Map!MapSpec
=============================================================================
