-------------------------- MODULE QueryCacheProofs --------------------------
(***************************************************************************)
(* Proofs about the portal's result cache (QueryCache) for every capacity,  *)
(* every set of specs and every hash function: its types and its bound, the *)
(* agreement of the hash index with the list, and that the whole implements *)
(* the plain list of recent results (LruMap).                               *)
(***************************************************************************)
EXTENDS QueryCache, OpsProofs

-----------------------------------------------------------------------------
(* Hashes and list nodes.                                                   *)

(* Specs that specEqual takes for one another have the same hash, so a      *)
(* bucket holds every entry a look-up may answer with (hashSpec).           *)
LEMMA EqualSpecsHashAlike ==
  ASSUME NEW a \in QuerySpec, NEW b \in QuerySpec, SpecEqual(a, b)
  PROVE  HashSpec(a) = HashSpec(b)
  BY DEF SpecEqual, HashSpec

(* A hash is a number. *)
LEMMA HashType ==
  ASSUME NEW s \in QuerySpec
  PROVE  HashSpec(s) \in Nat
<1> DEFINE box == IF s.geo THEN s.box ELSE NoBox
<1>1. <<s.fields, s.geo, box>> \in Fields \X BOOLEAN \X (Box \cup {NoBox})
  BY DEF QuerySpec
<1>2. HashSpec(s) = Mix[<<s.fields, s.geo, box>>]
  BY DEF HashSpec
<1> QED
  BY <1>1, <1>2, CacheConstants

(* n + 1 numbers do not go one to one into n places. *)
LEMMA OneTooMany ==
  ASSUME NEW n \in Nat, NEW f \in [1..(n + 1) -> 1..n]
  PROVE  \E x, y \in 1..(n + 1) : x # y /\ f[x] = f[y]
<1> DEFINE S == 1..(n + 1)
           T == 1..n
<1>1. IsFiniteSet(S) /\ IsFiniteSet(T) /\ Cardinality(T) < Cardinality(S)
  BY FS_Interval
<1>2. f \in [S -> T]
  OBVIOUS
<1> HIDE DEF S, T
<1>3. \E x, y \in S : x # y /\ f[x] = f[y]
  BY <1>1, <1>2, FS_PigeonHole
<1> QED
  BY <1>3 DEF S

(* A list that is not full leaves a node number free: there is one number   *)
(* more than there are nodes.                                               *)
LEMMA FreeNodeIsFree ==
  ASSUME lru \in Seq(Entry)
  PROVE  /\ FreeNode \in 1..(Len(lru) + 1)
         /\ \A i \in DOMAIN lru : lru[i].node # FreeNode
<1> DEFINE used(n) == \E i \in DOMAIN lru : lru[i].node = n
           holder == [n \in 1..(Len(lru) + 1) |-> CHOOSE i \in DOMAIN lru : lru[i].node = n]
<1>1. Len(lru) \in Nat /\ DOMAIN lru = 1..Len(lru)
  BY LenProperties
<1>2. \E n \in 1..(Len(lru) + 1) : ~used(n)
  <2> SUFFICES ASSUME \A n \in 1..(Len(lru) + 1) : used(n)
               PROVE  FALSE
    OBVIOUS
  <2>1. \A n \in 1..(Len(lru) + 1) : holder[n] \in DOMAIN lru /\ lru[holder[n]].node = n
    OBVIOUS
  <2>2. holder \in [1..(Len(lru) + 1) -> 1..Len(lru)]
    BY <1>1, <2>1
  <2> HIDE DEF holder
  <2>3. \E x, y \in 1..(Len(lru) + 1) : x # y /\ holder[x] = holder[y]
    BY <1>1, <2>2, OneTooMany
  <2> QED
    BY <2>1, <2>3
<1>3. \E n \in 1..(Len(lru) + 1) : \A i \in DOMAIN lru : lru[i].node # n
  BY <1>2
<1> QED
  BY <1>3 DEF FreeNode

-----------------------------------------------------------------------------
(* Types.                                                                   *)

(* An entry with other rows, as put stores them, is still an entry. *)
LEMMA EntryType ==
  ASSUME TypeOK, NEW i \in DOMAIN lru
  PROVE  /\ lru[i] \in Entry /\ lru[i].rows \in Rows
         /\ \A rows \in Rows : [lru[i] EXCEPT !.rows = rows] \in Entry
<1>1. lru[i] \in Entry
  BY LenProperties, ElementOfSeq DEF TypeOK
<1> QED
  BY <1>1 DEF Entry

(* The entry put makes for a spec that has none. *)
LEMMA NewEntryType ==
  ASSUME TypeOK, NEW s \in QuerySpec, NEW rows \in Rows
  PROVE  [node |-> FreeNode, hash |-> HashSpec(s), spec |-> s, rows |-> rows] \in Entry
  BY HashType, FreeNodeIsFree DEF Entry, TypeOK

(* A look-up and a store each leave the list with known length, entry by    *)
(* entry: what the later proofs use of the two operators above.             *)
LEMMA GetMoves ==
  ASSUME TypeOK, NEW s \in QuerySpec, Get(s)
  PROVE  \/ answer' = Miss /\ UNCHANGED <<lru, index>>
         \/ \E i \in Found(s) : /\ i \in DOMAIN lru /\ answer' = lru[i].rows
                                /\ lru' = MovedToFront(lru, i, lru[i])
                                /\ index' = index
  BY DEF Get, Found, Bucket

(* Types and capacity are preserved by every step. *)
LEMMA NextType ==
  ASSUME TypeOK, [Next]_vars
  PROVE  TypeOK'
<1> USE DEF TypeOK
<1>1. Len(lru) \in Nat
  BY LenProperties
<1>2. ASSUME NEW s \in QuerySpec, Get(s)
      PROVE  TypeOK'
  <2>1. CASE answer' = Miss /\ UNCHANGED <<lru, index>>
    BY <2>1
  <2>2. ASSUME NEW i \in DOMAIN lru, answer' = lru[i].rows,
               lru' = MovedToFront(lru, i, lru[i]), index' = index
        PROVE  TypeOK'
    <3>1. lru[i] \in Entry /\ lru[i].rows \in Rows
      BY EntryType
    <3>2. lru' \in Seq(Entry) /\ Len(lru') = Len(lru)
      BY <2>2, <3>1, MovedToFrontIs
    <3> QED
      BY <2>2, <3>1, <3>2
  <2> QED
    BY <1>2, <2>1, <2>2, GetMoves
<1>3. ASSUME NEW s \in QuerySpec, NEW rows \in Rows, Replace(s, rows), UNCHANGED answer
      PROVE  TypeOK'
  <2>1. PICK i \in Found(s) :
          lru' = MovedToFront(lru, i, [lru[i] EXCEPT !.rows = rows])
    BY <1>3 DEF Replace
  <2>2. i \in DOMAIN lru
    BY DEF Found, Bucket
  <2> DEFINE e == [lru[i] EXCEPT !.rows = rows]
  <2>3. e \in Entry
    BY <2>2, EntryType
  <2> HIDE DEF e
  <2>4. lru' \in Seq(Entry) /\ Len(lru') = Len(lru)
    <3>1. lru' = MovedToFront(lru, i, e)
      BY <2>1 DEF e
    <3> QED
      BY <2>2, <2>3, <3>1, MovedToFrontIs
  <2>5. index' = index /\ answer' = answer
    BY <1>3 DEF Replace
  <2> QED
    BY <2>4, <2>5
<1>4. ASSUME NEW s \in QuerySpec, NEW rows \in Rows, Capacity > 0,
             Insert(s, rows), UNCHANGED answer
      PROVE  TypeOK'
  <2> DEFINE e == [node |-> FreeNode, hash |-> HashSpec(s), spec |-> s, rows |-> rows]
  <2>1. e \in Entry
    BY NewEntryType
  <2>2. Capacity \in Nat \ {0}
    BY <1>4, CacheConstants
  <2>3. lru' = PushedFront(lru, e, Capacity)
    BY <1>4 DEF Insert
  <2>4. index' \subseteq index \cup {<<HashSpec(s), FreeNode>>}
    BY <1>4 DEF Insert, Evict
  <2>5. <<HashSpec(s), FreeNode>> \in Nat \X Nat
    BY <1>1, HashType, FreeNodeIsFree
  <2> HIDE DEF e
  <2>6. /\ lru' \in Seq(Entry)
        /\ Len(lru') = IF Len(lru) >= Capacity THEN Len(lru) ELSE Len(lru) + 1
    BY <2>1, <2>2, <2>3, PushedFrontIs
  <2>7. Len(lru') <= Capacity
    BY <1>1, <2>2, <2>6
  <2> QED
    BY <1>4, <2>4, <2>5, <2>6, <2>7
<1>5. CASE UNCHANGED vars
  BY <1>5 DEF vars
<1> QED
  BY <1>2, <1>3, <1>4, <1>5 DEF Next, Put

(* The list never holds more than cache_capacity results, whatever is asked *)
(* and stored (QueryCache::put).                                            *)
THEOREM TypeCorrect == CacheSpec => []TypeOK
<1>1. Init => TypeOK
  BY CacheConstants, EmptySeq DEF Init, TypeOK
<1> QED
  BY <1>1, NextType, PTL DEF CacheSpec

-----------------------------------------------------------------------------
(* The index.                                                               *)

(* The list after a splice, entry by entry. *)
LEMMA MovedIs ==
  ASSUME TypeOK, NEW i \in DOMAIN lru, NEW e \in Entry
  PROVE  /\ DOMAIN MovedToFront(lru, i, e) = 1..Len(lru)
         /\ MovedToFront(lru, i, e)[1] = e
         /\ \A k \in 2..i : MovedToFront(lru, i, e)[k] = lru[k-1]
         /\ \A k \in (i+1)..Len(lru) : MovedToFront(lru, i, e)[k] = lru[k]
<1>1. lru \in Seq(Entry)
  BY DEF TypeOK
<1>2. /\ MovedToFront(lru, i, e) \in Seq(Entry)
      /\ Len(MovedToFront(lru, i, e)) = Len(lru)
  BY <1>1, MovedToFrontIs
<1>3. MovedToFront(lru, i, e)[1] = e
  BY <1>1, MovedToFrontIs
<1>4. ASSUME NEW k \in 2..i
      PROVE  MovedToFront(lru, i, e)[k] = lru[k-1]
  BY <1>1, MovedToFrontIs
<1>5. ASSUME NEW k \in (i+1)..Len(lru)
      PROVE  MovedToFront(lru, i, e)[k] = lru[k]
  BY <1>1, MovedToFrontIs
<1> QED
  BY <1>2, <1>3, <1>4, <1>5, LenProperties

(* splice neither makes nor frees a node: the index still agrees when the   *)
(* entry that moved kept its node, its hash and its spec.                   *)
LEMMA MoveKeepsAgreement ==
  ASSUME TypeOK, IndexAgrees, NEW i \in DOMAIN lru, NEW e \in Entry
  PROVE  /\ e.node = lru[i].node /\ e.hash = lru[i].hash /\ e.spec = lru[i].spec
         /\ lru' = MovedToFront(lru, i, e) /\ index' = index
         => IndexAgrees'
<1> DEFINE from(k) == IF k = 1 THEN i ELSE IF k <= i THEN k - 1 ELSE k
           to(j) == IF j = i THEN 1 ELSE IF j < i THEN j + 1 ELSE j
<1>1. Len(lru) \in Nat /\ DOMAIN lru = 1..Len(lru) /\ i \in 1..Len(lru)
  BY LenProperties DEF TypeOK
<1> DEFINE moved == MovedToFront(lru, i, e)
<1>2. /\ DOMAIN moved = 1..Len(lru) /\ moved[1] = e
      /\ \A k \in 2..i : moved[k] = lru[k-1]
      /\ \A k \in (i+1)..Len(lru) : moved[k] = lru[k]
  BY MovedIs
<1> HIDE DEF moved
<1> SUFFICES ASSUME e.node = lru[i].node, e.hash = lru[i].hash, e.spec = lru[i].spec,
                    lru' = moved, index' = index
             PROVE  IndexAgrees'
  BY DEF moved
<1>3. ASSUME NEW k \in DOMAIN moved
      PROVE  /\ from(k) \in DOMAIN lru
             /\ moved[k].node = lru[from(k)].node
             /\ moved[k].hash = lru[from(k)].hash
             /\ moved[k].spec = lru[from(k)].spec
  BY <1>1, <1>2
<1>4. \A j \in DOMAIN lru : to(j) \in DOMAIN moved /\ from(to(j)) = j
  BY <1>1, <1>2
<1>5. \A k, m \in DOMAIN moved : from(k) = from(m) => k = m
  BY <1>1, <1>2
<1> HIDE DEF from, to
<1>6. index = {<<moved[k].hash, moved[k].node>> : k \in DOMAIN moved}
  BY <1>3, <1>4 DEF IndexAgrees
<1>7. \A k \in DOMAIN moved : moved[k].hash = HashSpec(moved[k].spec)
  BY <1>3 DEF IndexAgrees
<1>8. \A k, m \in DOMAIN moved : moved[k].node = moved[m].node => k = m
  BY <1>3, <1>5 DEF IndexAgrees
<1> QED
  BY <1>6, <1>7, <1>8 DEF IndexAgrees, moved

(* What put leaves in the index when it makes room: the iterators of the    *)
(* entries that stay, and of no other.                                      *)
LEMMA EvictErasesOne ==
  ASSUME TypeOK, IndexAgrees, Capacity > 0
  PROVE  Evict = {<<lru[j].hash, lru[j].node>> :
                    j \in 1..(IF Len(lru) >= Capacity THEN Len(lru) - 1 ELSE Len(lru))}
<1> DEFINE kept == IF Len(lru) >= Capacity THEN Len(lru) - 1 ELSE Len(lru)
<1>1. Len(lru) \in Nat /\ DOMAIN lru = 1..Len(lru) /\ Capacity \in Nat
  BY LenProperties, CacheConstants DEF TypeOK
<1>2. index = {<<lru[j].hash, lru[j].node>> : j \in 1..Len(lru)}
  BY <1>1 DEF IndexAgrees
<1>3. CASE Len(lru) < Capacity
  BY <1>1, <1>2, <1>3 DEF Evict
<1>4. CASE ~(Len(lru) < Capacity)
  <2>1. Evict = index \ {<<lru[Len(lru)].hash, lru[Len(lru)].node>>}
    BY <1>4 DEF Evict, Back
  <2>2. Len(lru) \in 1..Len(lru) /\ kept = Len(lru) - 1
    <3>1. Len(lru) >= Capacity /\ Len(lru) >= 1
      BY <1>1, <1>4
    <3> QED
      BY <1>1, <3>1
  <2>3. \A j \in 1..Len(lru) : lru[j].node = lru[Len(lru)].node => j = Len(lru)
    BY <1>1, <2>2 DEF IndexAgrees
  <2>4. \A j : j \in 1..kept <=> j \in 1..Len(lru) /\ j # Len(lru)
    <3>1. \A j : j \in 1..(Len(lru) - 1) <=> j \in 1..Len(lru) /\ j # Len(lru)
      BY <1>1
    <3> QED
      BY <2>2, <3>1
  <2> HIDE DEF kept
  <2>5. Evict = {<<lru[j].hash, lru[j].node>> : j \in 1..kept}
    BY <1>2, <2>1, <2>2, <2>3, <2>4
  <2> QED
    BY <2>5 DEF kept
<1> QED
  BY <1>3, <1>4

(* push_front and the emplace that follows it keep the agreement: the new   *)
(* node is none of those listed.                                            *)
LEMMA InsertKeepsAgreement ==
  ASSUME TypeOK, IndexAgrees, Capacity > 0,
         NEW s \in QuerySpec, NEW rows \in Rows, Insert(s, rows)
  PROVE  IndexAgrees'
<1> DEFINE e == [node |-> FreeNode, hash |-> HashSpec(s), spec |-> s, rows |-> rows]
           kept == IF Len(lru) >= Capacity THEN Len(lru) - 1 ELSE Len(lru)
<1>1. Len(lru) \in Nat /\ DOMAIN lru = 1..Len(lru) /\ Capacity \in Nat \ {0}
  BY LenProperties, CacheConstants DEF TypeOK
<1>2. e \in Entry
  BY NewEntryType
<1>3. \A j \in 1..Len(lru) : lru[j].node # FreeNode
  BY <1>1, FreeNodeIsFree DEF TypeOK
<1>4. e.node = FreeNode /\ e.hash = HashSpec(s) /\ e.spec = s
  OBVIOUS
<1>5. lru' = PushedFront(lru, e, Capacity)
  BY DEF Insert
<1>6. index' = {<<lru[j].hash, lru[j].node>> : j \in 1..kept} \cup {<<HashSpec(s), FreeNode>>}
  BY EvictErasesOne DEF Insert
<1>7. kept \in Nat /\ kept <= Len(lru)
  BY <1>1
<1> HIDE DEF e
<1>8. /\ DOMAIN lru' = 1..(kept + 1)
      /\ \A k \in 1..(kept + 1) : lru'[k] = IF k = 1 THEN e ELSE lru[k-1]
  <2>1. /\ lru' \in Seq(Entry) /\ Len(lru') = kept + 1
        /\ \A k \in DOMAIN lru' : lru'[k] = IF k = 1 THEN e ELSE lru[k-1]
    BY <1>1, <1>2, <1>5, PushedFrontIs DEF TypeOK
  <2> QED
    BY <2>1, LenProperties
<1> HIDE DEF kept
<1>9. /\ lru'[1] = e /\ 1 \in 1..(kept + 1)
      /\ \A j \in 1..kept : j + 1 \in 1..(kept + 1) /\ lru'[j+1] = lru[j]
      /\ \A k \in 1..(kept + 1) : k = 1 \/ (k - 1 \in 1..kept /\ lru'[k] = lru[k-1])
  BY <1>7, <1>8
<1>10. index' = {<<lru'[k].hash, lru'[k].node>> : k \in 1..(kept + 1)}
  BY <1>4, <1>6, <1>9
<1>11. 1..kept \subseteq DOMAIN lru
  BY <1>1, <1>7
<1>12. \A k \in 1..(kept + 1) : lru'[k].hash = HashSpec(lru'[k].spec)
  BY <1>4, <1>9, <1>11 DEF IndexAgrees
<1>13. ASSUME NEW k \in 1..(kept + 1), NEW m \in 1..(kept + 1),
              lru'[k].node = lru'[m].node
       PROVE  k = m
  <2>1. CASE k = 1 /\ m # 1
    BY <1>1, <1>3, <1>4, <1>9, <1>11, <1>13, <2>1
  <2>2. CASE k # 1 /\ m = 1
    BY <1>1, <1>3, <1>4, <1>9, <1>11, <1>13, <2>2
  <2>3. CASE k # 1 /\ m # 1
    <3>1. k - 1 = m - 1
      BY <1>9, <1>11, <1>13, <2>3 DEF IndexAgrees
    <3> QED
      BY <1>7, <3>1
  <2> QED
    BY <2>1, <2>2, <2>3
<1> QED
  BY <1>8, <1>10, <1>12, <1>13 DEF IndexAgrees

(* Every step of the cache keeps the index agreeing with the list. *)
LEMMA NextAgreement ==
  ASSUME TypeOK, IndexAgrees, [Next]_vars
  PROVE  IndexAgrees'
<1>1. ASSUME NEW s \in QuerySpec, Get(s)
      PROVE  IndexAgrees'
  <2>1. CASE UNCHANGED <<lru, index>>
    BY <2>1 DEF IndexAgrees
  <2>2. ASSUME NEW i \in DOMAIN lru, lru' = MovedToFront(lru, i, lru[i]), index' = index
        PROVE  IndexAgrees'
    BY <2>2, EntryType, MoveKeepsAgreement
  <2> QED
    BY <1>1, <2>1, <2>2, GetMoves
<1>2. ASSUME NEW s \in QuerySpec, NEW rows \in Rows, Replace(s, rows)
      PROVE  IndexAgrees'
  <2>1. PICK i \in Found(s) :
          lru' = MovedToFront(lru, i, [lru[i] EXCEPT !.rows = rows])
    BY <1>2 DEF Replace
  <2> DEFINE e == [lru[i] EXCEPT !.rows = rows]
  <2>2. i \in DOMAIN lru
    BY DEF Found, Bucket
  <2>3. /\ e \in Entry /\ e.node = lru[i].node
        /\ e.hash = lru[i].hash /\ e.spec = lru[i].spec
    BY <2>2, EntryType DEF Entry
  <2>4. lru' = MovedToFront(lru, i, e) /\ index' = index
    BY <1>2, <2>1 DEF Replace
  <2> HIDE DEF e
  <2> QED
    BY <2>2, <2>3, <2>4, MoveKeepsAgreement
<1>3. CASE UNCHANGED vars
  BY <1>3 DEF vars, IndexAgrees
<1> QED
  BY <1>1, <1>2, <1>3, InsertKeepsAgreement DEF Next, Put

(* After any calls of get and put the index has one iterator per list node, *)
(* under the hash of its spec, and none that dangles, however specs collide *)
(* (QueryCache::put's search of the bucket for the node it drops).          *)
THEOREM IndexMatchesList == CacheSpec => []IndexAgrees
<1>1. Init => IndexAgrees
  BY DEF Init, IndexAgrees
<1> QED
  BY <1>1, NextAgreement, TypeCorrect, PTL DEF CacheSpec

-----------------------------------------------------------------------------
(* The cache implements the plain list (LruMap).                            *)

Pair == [spec : QuerySpec, rows : Rows]
PairOf(e) == [spec |-> e.spec, rows |-> e.rows]
View(list) == [i \in DOMAIN list |-> PairOf(list[i])]

(* The refinement mapping keeps the length and every entry's place. *)
LEMMA ViewIs ==
  ASSUME NEW list \in Seq(Entry)
  PROVE  /\ View(list) \in Seq(Pair) /\ Len(View(list)) = Len(list)
         /\ DOMAIN View(list) = DOMAIN list
         /\ \A k \in 1..Len(list) : View(list)[k] = PairOf(list[k])
<1>1. Len(list) \in Nat /\ DOMAIN list = 1..Len(list)
  BY LenProperties
<1>2. \A k \in 1..Len(list) : list[k] \in Entry
  BY ElementOfSeq
<1>3. \A k \in 1..Len(list) : PairOf(list[k]) \in Pair
  BY <1>2 DEF PairOf, Pair, Entry
<1>4. View(list) = [k \in 1..Len(list) |-> PairOf(list[k])]
  BY <1>1 DEF View
<1>5. View(list) \in [1..Len(list) -> Pair]
  BY <1>3, <1>4
<1>6. View(list) \in Seq(Pair) /\ Len(View(list)) = Len(list)
  BY <1>1, <1>5, SeqDef
<1> QED
  BY <1>1, <1>4, <1>6

(* Moving an entry to the front and forgetting its node and hash commute. *)
LEMMA ViewOfMoved ==
  ASSUME NEW list \in Seq(Entry), NEW i \in DOMAIN list, NEW e \in Entry
  PROVE  View(MovedToFront(list, i, e)) = MovedToFront(View(list), i, PairOf(e))
<1> DEFINE view == View(list)
           pair == PairOf(e)
           low  == MovedToFront(list, i, e)
           high == MovedToFront(view, i, pair)
<1>1. Len(list) \in Nat /\ i \in 1..Len(list)
  BY LenProperties
<1>2. /\ view \in Seq(Pair) /\ Len(view) = Len(list) /\ i \in DOMAIN view
      /\ \A k \in 1..Len(list) : view[k] = PairOf(list[k])
  BY <1>1, ViewIs
<1>3. view \in Seq(Pair) /\ i \in DOMAIN view
  BY <1>2
<1>4. pair \in Pair
  BY DEF PairOf, Pair, Entry
<1> HIDE DEF view, pair
<1>5. low \in Seq(Entry) /\ Len(low) = Len(list) /\ low[1] = e
  BY MovedToFrontIs
<1>6. \A k \in 2..i : low[k] = list[k-1]
  BY MovedDown
<1>7. \A k \in (i+1)..Len(list) : low[k] = list[k]
  BY MovedNot
<1>8. high \in Seq(Pair) /\ Len(high) = Len(list) /\ high[1] = pair
  <2>1. high \in Seq(Pair) /\ Len(high) = Len(view)
    BY <1>3, <1>4, MovedToFrontIs
  <2>2. high[1] = pair
    BY <1>3, <1>4, MovedFirst
  <2> QED
    BY <1>2, <2>1, <2>2
<1>9. \A k \in 2..i : high[k] = view[k-1]
  BY <1>3, <1>4, MovedDown
<1>10. \A k \in (i+1)..Len(list) : high[k] = view[k]
  <2>1. \A k \in (i+1)..Len(view) : high[k] = view[k]
    BY <1>3, <1>4, MovedNot
  <2> QED
    BY <1>2, <2>1
<1> HIDE DEF low, high
<1>11. /\ View(low) \in Seq(Pair) /\ Len(View(low)) = Len(list)
       /\ \A k \in 1..Len(list) : View(low)[k] = PairOf(low[k])
  BY <1>5, ViewIs
<1>12. ASSUME NEW k \in 1..Len(list)
       PROVE  View(low)[k] = high[k]
  <2>1. CASE k = 1
    BY <1>5, <1>8, <1>11, <2>1 DEF pair
  <2>2. CASE k \in 2..i
    <3>1. view[k-1] = PairOf(list[k-1])
      BY <1>1, <1>2, <2>2
    <3> QED
      BY <1>6, <1>9, <1>11, <2>2, <3>1
  <2>3. CASE k \in (i+1)..Len(list)
    BY <1>2, <1>7, <1>10, <1>11, <2>3
  <2>4. k = 1 \/ k \in 2..i \/ k \in (i+1)..Len(list)
    BY <1>1
  <2> QED
    BY <2>1, <2>2, <2>3, <2>4
<1>13. View(low) = high
  BY <1>8, <1>11, <1>12, SeqEqual
<1> QED
  BY <1>13 DEF low, high, view, pair

(* So do pushing an entry and forgetting. *)
LEMMA ViewOfPushed ==
  ASSUME NEW list \in Seq(Entry), NEW e \in Entry,
         NEW cap \in Nat \ {0}, Len(list) <= cap
  PROVE  View(PushedFront(list, e, cap)) = PushedFront(View(list), PairOf(e), cap)
<1> DEFINE view == View(list)
           pair == PairOf(e)
           low  == PushedFront(list, e, cap)
           high == PushedFront(view, pair, cap)
           n    == IF Len(list) >= cap THEN Len(list) ELSE Len(list) + 1
<1>1. Len(list) \in Nat /\ n \in Nat /\ n - 1 <= Len(list)
  BY LenProperties
<1>2. /\ view \in Seq(Pair) /\ Len(view) = Len(list)
      /\ \A k \in 1..Len(list) : view[k] = PairOf(list[k])
  BY ViewIs
<1>3. pair \in Pair
  BY DEF PairOf, Pair, Entry
<1> HIDE DEF view, pair
<1>4. low \in Seq(Entry) /\ Len(low) = n
  BY PushedFrontIs
<1>5. \A k \in DOMAIN low : low[k] = IF k = 1 THEN e ELSE list[k-1]
  BY PushedFrontIs
<1>6. high \in Seq(Pair) /\ Len(high) = n
  BY <1>2, <1>3, PushedFrontIs
<1>7. \A k \in DOMAIN high : high[k] = IF k = 1 THEN pair ELSE view[k-1]
  BY <1>2, <1>3, PushedFrontIs
<1> HIDE DEF low, high, n
<1>8. DOMAIN low = 1..n /\ DOMAIN high = 1..n
  BY <1>4, <1>6, LenProperties
<1>9. /\ View(low) \in Seq(Pair) /\ Len(View(low)) = n
      /\ \A k \in 1..n : View(low)[k] = PairOf(low[k])
  BY <1>4, ViewIs
<1>10. ASSUME NEW k \in 1..n
       PROVE  View(low)[k] = high[k]
  <2>1. CASE k = 1
    BY <1>5, <1>7, <1>8, <1>9, <2>1 DEF pair
  <2>2. CASE k # 1
    <3>1. view[k-1] = PairOf(list[k-1])
      BY <1>1, <1>2, <2>2
    <3> QED
      BY <1>5, <1>7, <1>8, <1>9, <2>2, <3>1
  <2> QED
    BY <2>1, <2>2
<1>11. View(low) = high
  BY <1>6, <1>9, <1>10, SeqEqual
<1> QED
  BY <1>11 DEF low, high, view, pair

(* A look-up by hash finds exactly what a search of the whole list finds. *)
LEMMA FoundIsPositions ==
  ASSUME TypeOK, IndexAgrees, NEW s \in QuerySpec
  PROVE  Found(s) = Map!Positions(s)
<1>1. DOMAIN View(lru) = DOMAIN lru /\ \A i \in DOMAIN lru : View(lru)[i].spec = lru[i].spec
  BY DEF View, PairOf
<1>2. Map!Positions(s) = {i \in DOMAIN lru : SpecEqual(lru[i].spec, s)}
  BY <1>1 DEF Map!Positions, View, PairOf
<1>3. ASSUME NEW i \in DOMAIN lru, SpecEqual(lru[i].spec, s)
      PROVE  <<HashSpec(s), lru[i].node>> \in index
  <2>1. lru[i].spec \in QuerySpec
    BY EntryType DEF Entry
  <2>2. HashSpec(lru[i].spec) = HashSpec(s)
    BY <1>3, <2>1, EqualSpecsHashAlike
  <2> QED
    BY <2>2 DEF IndexAgrees
<1> QED
  BY <1>2, <1>3 DEF Found, Bucket

(* The two modules mean the same list operations. *)
LEMMA MapOps ==
  ASSUME NEW list, NEW i, NEW e, NEW cap
  PROVE  /\ Map!MovedToFront(list, i, e) = MovedToFront(list, i, e)
         /\ Map!PushedFront(list, e, cap) = PushedFront(list, e, cap)
  BY DEF Map!MovedToFront, MovedToFront, Map!PushedFront, PushedFront,
         Map!Without, Without

(* A hit, a miss and a switched-off cache answer as the plain list does. *)
LEMMA GetImplements ==
  ASSUME TypeOK, IndexAgrees, NEW s \in QuerySpec, Get(s)
  PROVE  Map!Get(s)
<1> DEFINE view == View(lru)
<1>1. view = [i \in DOMAIN lru |-> [spec |-> lru[i].spec, rows |-> lru[i].rows]]
  BY DEF View, PairOf
<1>2. Found(s) = Map!Positions(s)
  BY FoundIsPositions
<1>3. CASE Found(s) = {} \/ Capacity = 0
  <2>1. Found(s) = {}
    <3>1. CASE Capacity = 0
      BY <3>1, LenProperties DEF TypeOK, Found, Bucket
    <3> QED
      BY <1>3, <3>1
  <2>2. answer' = Miss /\ lru' = lru
    BY <2>1 DEF Get
  <2> QED
    BY <1>2, <2>1, <2>2 DEF Map!Get
<1>4. CASE ~(Found(s) = {} \/ Capacity = 0)
  <2>1. PICK i \in Found(s) : answer' = lru[i].rows /\ lru' = MovedToFront(lru, i, lru[i])
    BY <1>4 DEF Get
  <2>2. i \in DOMAIN lru
    BY DEF Found, Bucket
  <2>3. lru[i] \in Entry /\ lru \in Seq(Entry)
    BY <2>2, EntryType DEF TypeOK
  <2>4. View(lru') = MovedToFront(view, i, PairOf(lru[i]))
    BY <2>1, <2>2, <2>3, ViewOfMoved, Zenon
  <2>5. view[i] = PairOf(lru[i]) /\ view[i].rows = lru[i].rows
    BY <2>2 DEF View, PairOf
  <2>6. answer' = view[i].rows /\ View(lru') = Map!MovedToFront(view, i, view[i])
    BY <2>1, <2>4, <2>5, MapOps
  <2>7. Map!Positions(s) # {} /\ i \in Map!Positions(s)
    BY <1>2, <1>4
  <2> QED
    BY <2>6, <2>7 DEF Map!Get, View, PairOf
<1> QED
  BY <1>3, <1>4

(* So does a store that finds an entry of an equal spec, *)
LEMMA ReplaceImplements ==
  ASSUME TypeOK, IndexAgrees, NEW s \in QuerySpec, NEW rows \in Rows,
         Capacity > 0, rows \notin TooMany, Replace(s, rows), answer' = answer
  PROVE  Map!Put(s, rows)
<1> DEFINE view == View(lru)
<1>1. PICK i \in Found(s) : lru' = MovedToFront(lru, i, [lru[i] EXCEPT !.rows = rows])
  BY DEF Replace
<1> DEFINE e == [lru[i] EXCEPT !.rows = rows]
<1>2. i \in DOMAIN lru
  BY DEF Found, Bucket
<1>3. e \in Entry /\ lru[i] \in Entry /\ lru \in Seq(Entry)
  BY <1>2, EntryType DEF TypeOK
<1>4. view[i] = PairOf(lru[i])
  BY <1>2 DEF View
<1>5. PairOf(e) = [view[i] EXCEPT !.rows = rows]
  BY <1>3, <1>4 DEF PairOf, Entry
<1>6. lru' = MovedToFront(lru, i, e)
  BY <1>1
<1> HIDE DEF e
<1>7. View(lru') = MovedToFront(view, i, PairOf(e))
  BY <1>2, <1>3, <1>6, ViewOfMoved, Zenon
<1>8. View(lru') = Map!MovedToFront(view, i, [view[i] EXCEPT !.rows = rows])
  BY <1>5, <1>7, MapOps
<1>9. i \in Map!Positions(s) /\ Map!Positions(s) # {}
  BY FoundIsPositions
<1> QED
  BY <1>8, <1>9 DEF Map!Put, Storable, View, PairOf

(* and one that does not. *)
LEMMA InsertImplements ==
  ASSUME TypeOK, IndexAgrees, NEW s \in QuerySpec, NEW rows \in Rows,
         Capacity > 0, rows \notin TooMany, Insert(s, rows), answer' = answer
  PROVE  Map!Put(s, rows)
<1> DEFINE view == View(lru)
           e == [node |-> FreeNode, hash |-> HashSpec(s), spec |-> s, rows |-> rows]
<1>1. e \in Entry /\ lru \in Seq(Entry) /\ Len(lru) <= Capacity
  BY NewEntryType DEF TypeOK
<1>2. Capacity \in Nat \ {0}
  BY CacheConstants
<1>3. lru' = PushedFront(lru, e, Capacity)
  BY DEF Insert
<1>4. PairOf(e) = [spec |-> s, rows |-> rows]
  BY DEF PairOf
<1> HIDE DEF e
<1>5. View(lru') = PushedFront(view, PairOf(e), Capacity)
  BY <1>1, <1>2, <1>3, ViewOfPushed, Zenon
<1>6. View(lru') = Map!PushedFront(view, [spec |-> s, rows |-> rows], Capacity)
  BY <1>4, <1>5, MapOps
<1>7. Map!Positions(s) = {}
  BY FoundIsPositions DEF Insert
<1> QED
  BY <1>6, <1>7 DEF Map!Put, Storable, View, PairOf

(* Every step of the cache is a step of the plain list, or leaves it alone. *)
LEMMA NextImplements ==
  ASSUME TypeOK, IndexAgrees, [Next]_vars
  PROVE  [Map!Next]_<<[i \in DOMAIN lru |-> [spec |-> lru[i].spec, rows |-> lru[i].rows]],
                      answer>>
<1>1. ASSUME NEW s \in QuerySpec, Get(s)
      PROVE  Map!Next
  BY <1>1, GetImplements DEF Map!Next
<1>2. ASSUME NEW s \in QuerySpec, NEW rows \in Rows, Put(s, rows)
      PROVE  Map!Next
  <2>1. Capacity > 0 /\ rows \notin TooMany /\ answer' = answer
    BY <1>2 DEF Put
  <2>2. Map!Put(s, rows)
    BY <1>2, <2>1, ReplaceImplements, InsertImplements DEF Put
  <2> QED
    BY <2>2 DEF Map!Next
<1>3. CASE UNCHANGED vars
  BY <1>3 DEF vars
<1> QED
  BY <1>1, <1>2, <1>3 DEF Next

(* The portal's cache, with its hashes, collisions, unused boxes and NaN    *)
(* corners, is a plain list of recent results for every capacity and every  *)
(* hash (QueryCache::get and put).                                          *)
THEOREM CacheImplementsMap == CacheSpec => ImplementsMap
<1>1. Init => Map!Init
  BY DEF Init, Map!Init
<1> QED
  BY <1>1, NextImplements, TypeCorrect, IndexMatchesList, PTL
     DEF CacheSpec, ImplementsMap, Map!MapSpec
=============================================================================
