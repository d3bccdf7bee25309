------------------------------ MODULE OpsProofs ------------------------------
(***************************************************************************)
(* What the operators that several components share do to any value: the    *)
(* operations of the row buffer keep its type, its bound and, seen by who   *)
(* pushed and who popped, its order; a list in order of use is rearranged   *)
(* and bounded as QueryCache means it.                                      *)
(***************************************************************************)
EXTENDS BufferOps, LruOps, SequenceTheorems, FiniteSetTheorems, TLAPS

-----------------------------------------------------------------------------
(* The row buffer.                                                          *)

(* Pushing and popping change the queue and the count of rows served. *)
SameBut(b, c) ==
  /\ c.capacity = b.capacity /\ c.expected = b.expected
  /\ c.done = b.done /\ c.started = b.started
  /\ c.canceled = b.canceled

(* The smaller of two naturals. *)
LEMMA LesserFacts ==
  ASSUME NEW m \in Nat, NEW n \in Nat
  PROVE  Lesser(m, n) \in Nat /\ Lesser(m, n) <= m /\ Lesser(m, n) <= n
  BY DEF Lesser

(* pushRows takes a prefix of the rows, no longer than the room there is. *)
LEMMA EnqueuedFacts ==
  ASSUME NEW Row, NEW Producer, NEW b \in BufferRecord(Row, Producer), NEW rows \in Seq(Row)
  PROVE  /\ Enqueued(b, rows) \in Nat
         /\ Enqueued(b, rows) <= Len(rows)
         /\ Len(b.q) <= b.capacity => Len(b.q) + Enqueued(b, rows) <= b.capacity
         /\ b.canceled => Enqueued(b, rows) = 0
  <1>1. Len(b.q) \in Nat /\ b.capacity \in Nat /\ Len(rows) \in Nat
    BY LenProperties DEF BufferRecord
  <1>2. Room(b) \in Nat /\ (Len(b.q) <= b.capacity => Len(b.q) + Room(b) = b.capacity)
    BY <1>1 DEF Room
  <1>3. CASE b.canceled
    BY <1>1, <1>3 DEF Enqueued
  <1>4. CASE ~b.canceled
    <2>1. Enqueued(b, rows) = Lesser(Len(rows), Room(b))
      BY <1>4 DEF Enqueued
    <2>2. /\ Lesser(Len(rows), Room(b)) \in Nat
          /\ Lesser(Len(rows), Room(b)) <= Len(rows)
          /\ Lesser(Len(rows), Room(b)) <= Room(b)
      BY <1>1, <1>2, LesserFacts
    <2> QED BY <1>1, <1>2, <1>4, <2>1, <2>2
  <1> QED BY <1>3, <1>4

(* pushRows appends that prefix and touches nothing else. *)
LEMMA PushFacts ==
  ASSUME NEW Row, NEW Producer, NEW b \in BufferRecord(Row, Producer), NEW rows \in Seq(Row)
  PROVE  /\ PushRows(b, rows) \in BufferRecord(Row, Producer)
         /\ PushRows(b, rows).q = b.q \o SubSeq(rows, 1, Enqueued(b, rows))
         /\ Len(PushRows(b, rows).q) = Len(b.q) + Enqueued(b, rows)
         /\ SubSeq(rows, 1, Enqueued(b, rows)) \in Seq(Row)
         /\ SameBut(b, PushRows(b, rows)) /\ PushRows(b, rows).served = b.served
  <1> DEFINE taken == SubSeq(rows, 1, Enqueued(b, rows))
  <1>1. b.q \in Seq(Row)
    BY DEF BufferRecord
  <1>2. taken \in Seq(Row) /\ Len(taken) = Enqueued(b, rows)
    BY EnqueuedFacts, SubSeqProperties, LenProperties
  <1>3. b.q \o taken \in Seq(Row) /\ Len(b.q \o taken) = Len(b.q) + Len(taken)
    BY <1>1, <1>2, ConcatProperties
  <1>4. PushRows(b, rows) = [b EXCEPT !.q = b.q \o taken]
    BY DEF PushRows
  <1> HIDE DEF taken
  <1>5. PushRows(b, rows) \in BufferRecord(Row, Producer) /\ PushRows(b, rows).q = b.q \o taken
    BY <1>3, <1>4 DEF BufferRecord
  <1>6. SameBut(b, PushRows(b, rows)) /\ PushRows(b, rows).served = b.served
    BY <1>4 DEF BufferRecord, SameBut
  <1> QED BY <1>2, <1>3, <1>5, <1>6 DEF taken

(* The queue is the rows popped and then the rows that stay. *)
LEMMA PopKeepsAll ==
  ASSUME NEW Row, NEW Producer, NEW b \in BufferRecord(Row, Producer), NEW max \in Nat
  PROVE  b.q = Popped(b, max) \o PopUpTo(b, max).q
  <1> DEFINE k == Lesser(max, Len(b.q))
  <1>1. b.q \in Seq(Row) /\ Len(b.q) \in Nat
    BY LenProperties DEF BufferRecord
  <1>2. k \in Nat /\ k <= Len(b.q)
    BY <1>1, LesserFacts
  <1>3. Popped(b, max) = SubSeq(b.q, 1, k) /\ PopUpTo(b, max).q = SubSeq(b.q, k + 1, Len(b.q))
    BY DEF Popped, PopUpTo, BufferRecord
  <1> HIDE DEF k
  <1>4. 1 \in 1..Len(b.q) + 1 /\ k \in 1 - 1..Len(b.q) /\ Len(b.q) \in k..Len(b.q)
    BY <1>1, <1>2
  <1>5. SubSeq(b.q, 1, k) \o SubSeq(b.q, k + 1, Len(b.q)) = SubSeq(b.q, 1, Len(b.q))
    BY <1>1, <1>4, ConcatAdjacentSubSeq
  <1> QED BY <1>1, <1>3, <1>5, SubSeqFull

(* popUpTo splits the queue: what it returns, then what it leaves. *)
LEMMA PopFacts ==
  ASSUME NEW Row, NEW Producer, NEW b \in BufferRecord(Row, Producer), NEW max \in Nat
  PROVE  /\ Popped(b, max) \in Seq(Row)
         /\ PopUpTo(b, max) \in BufferRecord(Row, Producer)
         /\ b.q = Popped(b, max) \o PopUpTo(b, max).q
         /\ Len(PopUpTo(b, max).q) <= Len(b.q)
         /\ PopUpTo(b, max).served = b.served + Len(Popped(b, max))
         /\ b.q = <<>> => Popped(b, max) = <<>> /\ PopUpTo(b, max).q = <<>>
         /\ SameBut(b, PopUpTo(b, max))
  <1> DEFINE k == Lesser(max, Len(b.q))
  <1> DEFINE rest == SubSeq(b.q, k + 1, Len(b.q))
  <1>1. b.q \in Seq(Row) /\ Len(b.q) \in Nat /\ b.served \in Nat
    BY LenProperties DEF BufferRecord
  <1>2. k \in Nat /\ k <= Len(b.q)
    BY <1>1, LesserFacts
  <1>3. Popped(b, max) = SubSeq(b.q, 1, k)
        /\ PopUpTo(b, max) = [b EXCEPT !.q = rest, !.served = b.served + k]
    BY DEF Popped, PopUpTo
  <1> HIDE DEF k
  <1>4. Popped(b, max) \in Seq(Row) /\ Len(Popped(b, max)) = k
    BY <1>1, <1>2, <1>3, SubSeqProperties
  <1>5. rest \in Seq(Row) /\ Len(rest) = Len(b.q) - k
    BY <1>1, <1>2, SubSeqProperties
  <1>6. b.q = Popped(b, max) \o PopUpTo(b, max).q
    BY PopKeepsAll
  <1> HIDE DEF rest
  <1>7. /\ PopUpTo(b, max) \in BufferRecord(Row, Producer)
        /\ PopUpTo(b, max).q = rest /\ PopUpTo(b, max).served = b.served + k
    <2>1. b.served + k \in Nat
      BY <1>1, <1>2
    <2> QED BY <1>3, <1>5, <2>1 DEF BufferRecord
  <1>8. b.q = <<>> => Popped(b, max) = <<>> /\ rest = <<>>
    BY <1>1, <1>2, <1>4, <1>5, EmptySeq
  <1>9. SameBut(b, PopUpTo(b, max))
    BY <1>3 DEF BufferRecord, SameBut
  <1>10. Len(rest) <= Len(b.q)
    BY <1>1, <1>2, <1>5
  <1> QED BY <1>4, <1>6, <1>7, <1>8, <1>9, <1>10

(* The marks add a producer, cancel empties the queue for good. *)
LEMMA MarkFacts ==
  ASSUME NEW Row, NEW Producer, NEW b \in BufferRecord(Row, Producer), NEW p \in Producer
  PROVE  /\ MarkProducerStarted(b, p) \in BufferRecord(Row, Producer)
         /\ MarkProducerStarted(b, p).done = b.done
         /\ MarkProducerDone(b, p) \in BufferRecord(Row, Producer)
         /\ MarkProducerDone(b, p).done = b.done \cup {p}
         /\ \A c \in {MarkProducerStarted(b, p), MarkProducerDone(b, p)} :
              /\ c.q = b.q /\ c.served = b.served /\ c.canceled = b.canceled
              /\ c.capacity = b.capacity /\ c.expected = b.expected
  BY DEF BufferRecord, MarkProducerStarted, MarkProducerDone

(* cancel empties the queue and leaves the rest of the buffer alone. *)
LEMMA CancelFacts ==
  ASSUME NEW Row, NEW Producer, NEW b \in BufferRecord(Row, Producer)
  PROVE  /\ CancelBuffer(b) \in BufferRecord(Row, Producer)
         /\ CancelBuffer(b).q = <<>> /\ CancelBuffer(b).canceled = TRUE
         /\ CancelBuffer(b).served = b.served
         /\ CancelBuffer(b).capacity = b.capacity /\ CancelBuffer(b).expected = b.expected
  BY EmptySeq DEF BufferRecord, CancelBuffer

-----------------------------------------------------------------------------
(* Lists in order of use.                                                   *)

(* splice to the front (QueryCache::get, put) keeps the length; the entry   *)
(* comes first, those that stood before it move down by one, the others     *)
(* stay.                                                                    *)
LEMMA MovedToFrontIs ==
  ASSUME NEW S, NEW list \in Seq(S), NEW i \in DOMAIN list, NEW e \in S
  PROVE  /\ MovedToFront(list, i, e) \in Seq(S)
         /\ Len(MovedToFront(list, i, e)) = Len(list)
         /\ MovedToFront(list, i, e)[1] = e
         /\ \A k \in 2..i : MovedToFront(list, i, e)[k] = list[k-1]
         /\ \A k \in (i+1)..Len(list) : MovedToFront(list, i, e)[k] = list[k]
<1> DEFINE front == SubSeq(list, 1, i - 1)
           back  == SubSeq(list, i + 1, Len(list))
<1>1. i \in 1..Len(list) /\ Len(list) \in Nat
  BY LenProperties
<1>2. front \in Seq(S) /\ Len(front) = i - 1 /\ \A k \in 1..(i-1) : front[k] = list[k]
  BY <1>1, SubSeqProperties, ElementOfSeq
<1>3. /\ back \in Seq(S) /\ Len(back) = Len(list) - i
      /\ \A k \in 1..(Len(list)-i) : back[k] = list[i+k]
  BY <1>1, SubSeqProperties, ElementOfSeq
<1> HIDE DEF front, back
<1>4. /\ Without(list, i) \in Seq(S) /\ Len(Without(list, i)) = Len(list) - 1
      /\ \A k \in 1..(Len(list)-1) :
           Without(list, i)[k] = IF k <= i - 1 THEN list[k] ELSE list[k+1]
  <2>0. Len(front) + Len(back) = Len(list) - 1
    <3>1. Len(front) = i - 1
      BY <1>2
    <3>2. Len(back) = Len(list) - i
      BY <1>3
    <3>3. i \in Int /\ Len(list) \in Int
      BY <1>1
    <3> QED
      BY <3>1, <3>2, <3>3
  <2>1. /\ front \o back \in Seq(S) /\ Len(front \o back) = Len(front) + Len(back)
        /\ \A k \in 1..(Len(front)+Len(back)) : (front \o back)[k] =
             IF k <= Len(front) THEN front[k] ELSE back[k - Len(front)]
    BY <1>2, <1>3, ConcatProperties
  <2>2. Without(list, i) = front \o back
    BY DEF Without, front, back
  <2>3. ASSUME NEW k \in 1..(Len(list)-1)
        PROVE  Without(list, i)[k] = IF k <= i - 1 THEN list[k] ELSE list[k+1]
    <3>1. k \in 1..(Len(front)+Len(back)) /\ Len(front) = i - 1
      <4>1. k \in 1..(Len(front)+Len(back))
        BY <2>0
      <4> QED
        BY <1>2, <4>1
    <3>2. CASE k <= i - 1
      BY <1>1, <1>2, <2>1, <2>2, <3>1, <3>2
    <3>3. CASE ~(k <= i - 1)
      <4>1. k - (i - 1) \in 1..(Len(list) - i) /\ i + (k - (i - 1)) = k + 1
        BY <1>1, <3>3
      <4>2. back[k - (i - 1)] = list[k + 1]
        BY <1>3, <4>1
      <4> QED
        BY <1>1, <2>1, <2>2, <3>1, <3>3, <4>2
    <3> QED
      BY <3>2, <3>3
  <2> QED
    BY <2>1, <2>2, <2>3, <2>0
<1>5. <<e>> \in Seq(S) /\ Len(<<e>>) = 1 /\ <<e>>[1] = e
  OBVIOUS
<1>6. /\ <<e>> \o Without(list, i) \in Seq(S)
      /\ Len(<<e>> \o Without(list, i)) = 1 + Len(Without(list, i))
      /\ \A k \in 1..(1 + Len(Without(list, i))) : (<<e>> \o Without(list, i))[k] =
           IF k <= 1 THEN <<e>>[k] ELSE Without(list, i)[k - 1]
  BY <1>4, <1>5, ConcatProperties
<1>7. MovedToFront(list, i, e)[1] = e
  BY <1>1, <1>4, <1>5, <1>6 DEF MovedToFront
<1>8. ASSUME NEW k \in 2..Len(list)
      PROVE  MovedToFront(list, i, e)[k] = IF k <= i THEN list[k-1] ELSE list[k]
  <2>1. k - 1 \in 1..(Len(list) - 1) /\ k - 1 + 1 = k
    BY <1>1
  <2>2. MovedToFront(list, i, e)[k] = Without(list, i)[k - 1]
    BY <1>1, <1>4, <1>6 DEF MovedToFront
  <2> QED
    BY <1>1, <1>4, <2>1, <2>2
<1> QED
  BY <1>1, <1>4, <1>6, <1>7, <1>8 DEF MovedToFront

(* The same, place by place: the entry that moved is first; *)
LEMMA MovedFirst ==
  ASSUME NEW S, NEW list \in Seq(S), NEW i \in DOMAIN list, NEW e \in S
  PROVE  MovedToFront(list, i, e)[1] = e
  BY MovedToFrontIs

(* those before it are one place further; *)
LEMMA MovedDown ==
  ASSUME NEW S, NEW list \in Seq(S), NEW i \in DOMAIN list, NEW e \in S,
         NEW k \in 2..i
  PROVE  MovedToFront(list, i, e)[k] = list[k-1]
  BY MovedToFrontIs

(* and those after it are where they were. *)
LEMMA MovedNot ==
  ASSUME NEW S, NEW list \in Seq(S), NEW i \in DOMAIN list, NEW e \in S,
         NEW k \in (i+1)..Len(list)
  PROVE  MovedToFront(list, i, e)[k] = list[k]
  BY MovedToFrontIs

(* pop_back when full, then push_front (QueryCache::put): the new entry is  *)
(* first, the others move down by one, and only the last may be gone.       *)
LEMMA PushedFrontIs ==
  ASSUME NEW S, NEW list \in Seq(S), NEW e \in S,
         NEW cap \in Nat \ {0}, Len(list) <= cap
  PROVE  /\ PushedFront(list, e, cap) \in Seq(S)
         /\ Len(PushedFront(list, e, cap)) =
              IF Len(list) >= cap THEN Len(list) ELSE Len(list) + 1
         /\ \A k \in DOMAIN PushedFront(list, e, cap) :
              PushedFront(list, e, cap)[k] = IF k = 1 THEN e ELSE list[k-1]
<1> DEFINE kept == IF Len(list) >= cap THEN SubSeq(list, 1, Len(list) - 1) ELSE list
<1>1. Len(list) \in Nat
  BY LenProperties
<1>2. /\ kept \in Seq(S)
      /\ Len(kept) = IF Len(list) >= cap THEN Len(list) - 1 ELSE Len(list)
      /\ \A k \in 1..Len(kept) : kept[k] = list[k]
  BY <1>1, SubSeqProperties, ElementOfSeq
<1> HIDE DEF kept
<1>3. <<e>> \in Seq(S) /\ Len(<<e>>) = 1 /\ <<e>>[1] = e
  OBVIOUS
<1>4. /\ <<e>> \o kept \in Seq(S) /\ Len(<<e>> \o kept) = 1 + Len(kept)
      /\ \A k \in 1..(1 + Len(kept)) :
           (<<e>> \o kept)[k] = IF k <= 1 THEN <<e>>[k] ELSE kept[k - 1]
  BY <1>2, <1>3, ConcatProperties
<1>5. PushedFront(list, e, cap) = <<e>> \o kept
  BY DEF PushedFront, kept
<1>6. DOMAIN (<<e>> \o kept) = 1..(1 + Len(kept))
  BY <1>4, LenProperties
<1>7. ASSUME NEW k \in 1..(1 + Len(kept))
      PROVE  (<<e>> \o kept)[k] = IF k = 1 THEN e ELSE list[k-1]
  <2>1. Len(kept) \in Nat
    BY <1>2, LenProperties
  <2> QED
    BY <1>2, <1>3, <1>4, <2>1
<1> QED
  BY <1>1, <1>2, <1>4, <1>5, <1>6, <1>7
=============================================================================
