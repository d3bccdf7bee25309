------------------------- MODULE ChunkBufferProofs -------------------------
(***************************************************************************)
(* The promises of ChunkBuffer for any producers, any number of FetchChunk  *)
(* threads and any bounds.                                                  *)
(***************************************************************************)
EXTENDS ChunkBuffer, OpsProofs

(* The rows of one pushRows call, and the notify_all it may end with. *)
LEMMA ChunkType ==
  ASSUME TypeOK, NEW p \in Producer, NEW n \in Nat
  PROVE  Chunk(p, n) \in Seq(Row) /\ Len(Chunk(p, n)) = n
  <1>1. \A i \in 1..n : <<p, offered[p] + i>> \in Row
    BY DEF TypeOK, Row
  <1>2. Chunk(p, n) \in [1..n -> Row]
    BY <1>1 DEF Chunk
  <1> QED BY <1>2, SeqDef DEF Chunk

(* notify_all leaves every consumer in a known place, none of them waiting. *)
LEMMA NotifiedType ==
  ASSUME TypeOK
  PROVE  /\ Notified \in [Consumer -> {"idle", "waiting", "notified"}]
         /\ \A c \in Consumer : Notified[c] # "waiting"
  BY DEF TypeOK, Notified

(* The types hold at the start. *)
LEMMA InitType == Init => TypeOK
  <1>1. Cardinality(Producer) \in Nat
    BY BufferConstants, FS_CardinalityType
  <1> QED BY <1>1, BufferConstants, EmptySeq DEF Init, TypeOK, NewBuffer, BufferRecord

(* The consumer's tail of popUpTo, in the three actions that end in it. *)
LEMMA TakeType ==
  ASSUME TypeOK, NEW c \in Consumer, NEW max \in Nat, Take(c, max)
  PROVE  /\ buf' \in BufferRecord(Row, Producer)
         /\ buf'.capacity = buf.capacity /\ buf'.expected = buf.expected
         /\ pc' \in [Consumer -> {"idle", "waiting", "notified"}]
         /\ served' \in Seq(Row)
         /\ UNCHANGED <<offered, accepted>>
  <1>1. buf \in BufferRecord(Row, Producer) /\ buf' = PopUpTo(buf, max)
        /\ served' = served \o Popped(buf, max) /\ served \in Seq(Row)
    BY DEF TypeOK, Take
  <1>2. buf' \in BufferRecord(Row, Producer) /\ served' \in Seq(Row)
    BY <1>1, PopFacts, ConcatProperties
  <1>3. buf'.capacity = buf.capacity /\ buf'.expected = buf.expected
    BY <1>1, PopFacts DEF SameBut
  <1> QED BY <1>2, <1>3 DEF TypeOK, Take

(* Every step keeps the types. *)
LEMMA NextType == TypeOK /\ [Next]_vars => TypeOK'
  <1> SUFFICES ASSUME TypeOK, [Next]_vars PROVE TypeOK'
    OBVIOUS
  <1>1. CASE UNCHANGED vars
    BY <1>1 DEF vars, TypeOK
  <1>2. ASSUME NEW p \in Producer, NEW n \in 1..MaxChunk, Push(p, n)
        PROVE  TypeOK'
    <2> DEFINE rows == Chunk(p, n)
    <2>1. n \in Nat /\ rows \in Seq(Row) /\ buf \in BufferRecord(Row, Producer)
      BY ChunkType DEF TypeOK
    <2>2. /\ buf' = PushRows(buf, rows)
          /\ pc' = pc \/ pc' = Notified
          /\ offered' = [offered EXCEPT ![p] = @ + n]
          /\ accepted' = accepted \o SubSeq(rows, 1, Enqueued(buf, rows))
          /\ UNCHANGED <<want, served>>
      BY <1>2 DEF Push
    <2> HIDE DEF rows
    <2>3. buf' \in BufferRecord(Row, Producer)
      BY <2>1, <2>2, PushFacts
    <2>4. buf'.capacity = buf.capacity /\ buf'.expected = buf.expected
      BY <2>1, <2>2, PushFacts DEF SameBut
    <2>5. accepted' \in Seq(Row)
      BY <2>1, <2>2, PushFacts, ConcatProperties DEF TypeOK
    <2> QED BY <2>1, <2>2, <2>3, <2>4, <2>5, NotifiedType DEF TypeOK
  <1>3. ASSUME NEW p \in Producer, Started(p) \/ Done(p)
        PROVE  TypeOK'
    <2>1. buf' = MarkProducerStarted(buf, p) \/ buf' = MarkProducerDone(buf, p)
      BY <1>3 DEF Started, Done
    <2>2. /\ buf' \in BufferRecord(Row, Producer)
          /\ buf'.capacity = buf.capacity /\ buf'.expected = buf.expected
      BY <1>3, <2>1, MarkFacts DEF TypeOK
    <2> QED BY <1>3, <2>2, NotifiedType DEF Started, Done, TypeOK
  <1>4. ASSUME NEW c \in Consumer, NEW max \in 1..MaxFetch, NEW block \in BOOLEAN,
               EnterPop(c, max, block)
        PROVE  TypeOK'
    <2>1. max \in Nat /\ want' \in [Consumer -> Nat]
      BY <1>4 DEF EnterPop, TypeOK
    <2>2. CASE Take(c, max)
      BY <2>1, <2>2, TakeType DEF TypeOK
    <2>3. CASE /\ pc' = [pc EXCEPT ![c] = "waiting"]
               /\ UNCHANGED <<buf, offered, accepted, served>>
      BY <2>1, <2>3 DEF TypeOK
    <2> QED BY <1>4, <2>2, <2>3 DEF EnterPop
  <1>5. ASSUME NEW c \in Consumer, Wake(c) \/ TimeOut(c)
        PROVE  TypeOK'
    <2>1. want[c] \in Nat /\ want' = want
      BY <1>5 DEF Wake, TimeOut, TypeOK
    <2>2. CASE Take(c, want[c])
      BY <2>1, <2>2, TakeType DEF TypeOK
    <2>3. CASE /\ pc' = [pc EXCEPT ![c] = "waiting"]
               /\ UNCHANGED <<buf, offered, accepted, served>>
      BY <2>1, <2>3 DEF TypeOK
    <2> QED BY <1>5, <2>2, <2>3 DEF Wake, TimeOut
  <1>6. ASSUME Cancel PROVE TypeOK'
    <2>1. buf' = CancelBuffer(buf) /\ buf \in BufferRecord(Row, Producer)
      BY <1>6 DEF Cancel, TypeOK
    <2>2. /\ buf' \in BufferRecord(Row, Producer)
          /\ buf'.capacity = buf.capacity /\ buf'.expected = buf.expected
      BY <2>1, CancelFacts
    <2>3. pc' \in [Consumer -> {"idle", "waiting", "notified"}]
      BY <1>6, NotifiedType DEF Cancel
    <2>4. UNCHANGED <<want, offered, accepted, served>>
      BY <1>6 DEF Cancel
    <2> QED BY <2>2, <2>3, <2>4 DEF TypeOK
  <1> QED BY <1>1, <1>2, <1>3, <1>4, <1>5, <1>6 DEF Next

(* The buffer, the waiting threads and the history keep their types. *)
THEOREM TypeCorrect == Spec => []TypeOK
  BY InitType, NextType, PTL DEF Spec

-----------------------------------------------------------------------------

(* Concatenation of rows is associative. *)
LEMMA ConcatRegroups ==
  \A s, t, u \in Seq(Row) : (s \o t) \o u = s \o (t \o u)
  BY ConcatAssociative

(* What a step does to the buffer and the two histories: it pushes, pops,   *)
(* marks, cancels, or leaves all three alone.                               *)
Pushes == \E rows \in Seq(Row) :
  /\ buf' = PushRows(buf, rows)
  /\ accepted' = accepted \o SubSeq(rows, 1, Enqueued(buf, rows))
  /\ served' = served

Pops == \E max \in Nat :
  /\ buf' = PopUpTo(buf, max)
  /\ served' = served \o Popped(buf, max)
  /\ accepted' = accepted

Marks ==
  /\ \E p \in Producer : buf' \in {MarkProducerStarted(buf, p), MarkProducerDone(buf, p)}
  /\ UNCHANGED <<accepted, served>>

Cancels == buf' = CancelBuffer(buf) /\ UNCHANGED <<accepted, served>>

(* Every step is one of these five. *)
LEMMA BufferSteps ==
  ASSUME TypeOK, [Next]_vars
  PROVE  Pushes \/ Pops \/ Marks \/ Cancels \/ UNCHANGED <<buf, accepted, served>>
  <1>1. ASSUME NEW p \in Producer, NEW n \in 1..MaxChunk, Push(p, n)
        PROVE  Pushes
    <2> DEFINE rows == Chunk(p, n)
    <2>1. rows \in Seq(Row)
      BY ChunkType
    <2>2. /\ buf' = PushRows(buf, rows)
          /\ accepted' = accepted \o SubSeq(rows, 1, Enqueued(buf, rows))
          /\ served' = served
      BY <1>1 DEF Push
    <2> HIDE DEF rows
    <2> QED BY <2>1, <2>2 DEF Pushes
  <1>2. ASSUME NEW p \in Producer, Started(p) \/ Done(p)
        PROVE  Marks
    BY <1>2 DEF Started, Done, Marks
  <1>3. ASSUME NEW c \in Consumer, NEW max \in 1..MaxFetch, NEW block \in BOOLEAN,
               EnterPop(c, max, block)
        PROVE  Pops \/ UNCHANGED <<buf, accepted, served>>
    BY <1>3 DEF EnterPop, Take, Pops
  <1>4. ASSUME NEW c \in Consumer, Wake(c) \/ TimeOut(c)
        PROVE  Pops \/ UNCHANGED <<buf, accepted, served>>
    <2>1. want[c] \in Nat
      BY DEF TypeOK
    <2> QED BY <1>4, <2>1 DEF Wake, TimeOut, Take, Pops
  <1>5. ASSUME Cancel PROVE Cancels
    BY <1>5 DEF Cancel, Cancels
  <1>6. CASE UNCHANGED vars
    BY <1>6 DEF vars
  <1> QED BY <1>1, <1>2, <1>3, <1>4, <1>5, <1>6 DEF Next

(* The deque never outgrows its capacity. *)
THEOREM BufferBounded == Spec => []Bounded
  <1>1. Init => Bounded
    BY BufferConstants, EmptySeq DEF Init, Bounded, NewBuffer
  <1>2. TypeOK /\ Bounded /\ [Next]_vars => Bounded'
    <2> SUFFICES ASSUME TypeOK, Bounded, [Next]_vars PROVE Bounded'
      OBVIOUS
    <2>1. buf \in BufferRecord(Row, Producer) /\ buf.capacity = Capacity /\ Len(buf.q) \in Nat
      BY LenProperties DEF TypeOK, BufferRecord
    <2>2. CASE Pushes
      <3>1. PICK rows \in Seq(Row) : buf' = PushRows(buf, rows)
        BY <2>2 DEF Pushes
      <3>2. Len(buf'.q) = Len(buf.q) + Enqueued(buf, rows)
        BY <2>1, <3>1, PushFacts
      <3>3. Len(buf.q) + Enqueued(buf, rows) <= buf.capacity
        BY <2>1, EnqueuedFacts DEF Bounded
      <3> QED BY <2>1, <3>2, <3>3 DEF Bounded
    <2>3. CASE Pops
      <3>1. PICK max \in Nat : buf' = PopUpTo(buf, max)
        BY <2>3 DEF Pops
      <3>2. Len(buf'.q) <= Len(buf.q) /\ buf' \in BufferRecord(Row, Producer)
        BY <2>1, <3>1, PopFacts
      <3>3. Len(buf'.q) \in Nat
        BY <3>2, LenProperties DEF BufferRecord
      <3> QED BY <2>1, <3>2, <3>3, BufferConstants DEF Bounded
    <2>4. CASE Marks
      BY <2>1, <2>4, MarkFacts DEF Marks, Bounded
    <2>5. CASE Cancels
      <3>1. buf'.q = <<>>
        BY <2>1, <2>5, CancelFacts DEF Cancels
      <3> QED BY <3>1, BufferConstants, EmptySeq DEF Bounded
    <2>6. CASE UNCHANGED <<buf, accepted, served>>
      BY <2>6 DEF Bounded
    <2> QED BY <2>2, <2>3, <2>4, <2>5, <2>6, BufferSteps
  <1> QED BY <1>1, <1>2, TypeCorrect, PTL DEF Spec

(* Nothing has been taken in or handed out at the start ... *)
LEMMA InitConserved == Init => Conserved
  BY EmptySeq, ConcatEmptySeq DEF Init, Conserved, NewBuffer

(* ... and no step loses, repeats or reorders a row. *)
LEMMA NextConserved == TypeOK /\ TypeOK' /\ Conserved /\ [Next]_vars => Conserved'
  <1> SUFFICES ASSUME TypeOK, TypeOK', Conserved, [Next]_vars PROVE Conserved'
    OBVIOUS
  <1>1. /\ buf \in BufferRecord(Row, Producer) /\ buf.q \in Seq(Row)
        /\ served \in Seq(Row) /\ accepted \in Seq(Row)
    BY DEF TypeOK, BufferRecord
  <1>2. CASE Pushes
    <2>1. PICK rows \in Seq(Row) :
            /\ buf' = PushRows(buf, rows)
            /\ accepted' = accepted \o SubSeq(rows, 1, Enqueued(buf, rows))
            /\ served' = served
      BY <1>2 DEF Pushes
    <2> DEFINE taken == SubSeq(rows, 1, Enqueued(buf, rows))
    <2>2. /\ taken \in Seq(Row) /\ buf'.q = buf.q \o taken
          /\ buf'.canceled = buf.canceled /\ buf'.served = buf.served
      <3>1. /\ taken \in Seq(Row) /\ PushRows(buf, rows).q = buf.q \o taken
            /\ SameBut(buf, PushRows(buf, rows)) /\ PushRows(buf, rows).served = buf.served
        BY <1>1, PushFacts
      <3> QED BY <2>1, <3>1 DEF SameBut
    <2>3. buf.canceled => taken = <<>>
      BY <1>1, EnqueuedFacts, SubSeqEmpty
    <2> HIDE DEF taken
    <2>4. CASE buf.canceled
      BY <1>1, <2>1, <2>2, <2>3, <2>4, ConcatEmptySeq, EmptySeq DEF Conserved
    <2>5. CASE ~buf.canceled
      <3>1. accepted' = (served \o buf.q) \o taken
        BY <2>1, <2>5 DEF Conserved, taken
      <3>2. (served \o buf.q) \o taken = served \o (buf.q \o taken)
        <4> DEFINE queue == buf.q
        <4>1. served \in Seq(Row) /\ queue \in Seq(Row) /\ taken \in Seq(Row)
          BY <1>1, <2>2
        <4> HIDE DEF queue
        <4>2. (served \o queue) \o taken = served \o (queue \o taken)
          BY <4>1, ConcatRegroups
        <4> QED BY <4>2 DEF queue
      <3>3. accepted' = served' \o buf'.q
        BY <2>1, <2>2, <3>1, <3>2
      <3>4. buf'.served = Len(served')
        BY <2>1, <2>2 DEF Conserved
      <3> QED BY <2>2, <2>5, <3>3, <3>4 DEF Conserved
    <2> QED BY <2>4, <2>5
  <1>3. CASE Pops
    <2>1. PICK max \in Nat : /\ buf' = PopUpTo(buf, max)
                             /\ served' = served \o Popped(buf, max)
                             /\ accepted' = accepted
      BY <1>3 DEF Pops
    <2> DEFINE out == Popped(buf, max)
    <2>2. /\ out \in Seq(Row) /\ buf.q = out \o buf'.q
          /\ buf'.canceled = buf.canceled /\ buf'.served = buf.served + Len(out)
          /\ buf.q = <<>> => buf'.q = <<>>
      <3>1. /\ out \in Seq(Row) /\ buf.q = out \o PopUpTo(buf, max).q
            /\ PopUpTo(buf, max).served = buf.served + Len(out)
            /\ buf.q = <<>> => PopUpTo(buf, max).q = <<>>
            /\ SameBut(buf, PopUpTo(buf, max))
        BY <1>1, PopFacts
      <3> QED BY <2>1, <3>1 DEF SameBut
    <2>3. served' = served \o out
      BY <2>1
    <2> HIDE DEF out
    <2>4. buf'.q \in Seq(Row)
      BY DEF TypeOK, BufferRecord
    <2>5. buf'.served = Len(served')
      BY <1>1, <2>2, <2>3, ConcatProperties DEF Conserved
    <2>6. ~buf.canceled => accepted' = served' \o buf'.q
      <3>1. (served \o out) \o buf'.q = served \o (out \o buf'.q)
        BY <1>1, <2>2, <2>4, ConcatRegroups
      <3> QED BY <2>1, <2>2, <2>3, <3>1 DEF Conserved
    <2> QED BY <2>2, <2>5, <2>6 DEF Conserved
  <1>4. CASE Marks
    <2>1. PICK p \in Producer : buf' \in {MarkProducerStarted(buf, p), MarkProducerDone(buf, p)}
      BY <1>4 DEF Marks
    <2>2. buf'.q = buf.q /\ buf'.canceled = buf.canceled /\ buf'.served = buf.served
      BY <1>1, <2>1, MarkFacts
    <2>3. accepted' = accepted /\ served' = served
      BY <1>4 DEF Marks
    <2> QED BY <2>2, <2>3 DEF Conserved
  <1>5. CASE Cancels
    <2>1. buf'.q = <<>> /\ buf'.canceled = TRUE /\ buf'.served = buf.served /\ served' = served
      BY <1>1, <1>5, CancelFacts DEF Cancels
    <2> QED BY <2>1 DEF Conserved
  <1>6. CASE UNCHANGED <<buf, accepted, served>>
    BY <1>6 DEF Conserved
  <1> QED BY <1>2, <1>3, <1>4, <1>5, <1>6, BufferSteps

(* The buffer conserves rows and their order until it is cancelled. *)
THEOREM RowsConserved == Spec => []Conserved
  BY TypeCorrect, InitConserved, NextConserved, PTL DEF Spec

(* A cancelled request hands out no further row. *)
THEOREM CancelIsFinal == Spec => NothingServedAfterCancel
  <1>1. TypeOK /\ Conserved /\ [Next]_vars => [buf.canceled => served' = served]_vars
    <2> SUFFICES ASSUME TypeOK, Conserved, [Next]_vars, buf.canceled PROVE served' = served
      OBVIOUS
    <2>1. buf \in BufferRecord(Row, Producer) /\ served \in Seq(Row) /\ buf.q = <<>>
      BY DEF TypeOK, Conserved
    <2>2. CASE Pops
      BY <2>1, <2>2, PopFacts, ConcatEmptySeq DEF Pops
    <2> QED BY <2>2, BufferSteps DEF Pushes, Marks, Cancels
  <1> QED BY <1>1, TypeCorrect, RowsConserved, PTL DEF Spec, NothingServedAfterCancel

-----------------------------------------------------------------------------

(* A buffer a thread waits on stays not ready when nothing is enqueued.     *)
LEMMA StillNotReady ==
  ASSUME NEW b, NEW c, ~Ready(b), c.q = <<>>, c.done = b.done,
         c.expected = b.expected, c.canceled = b.canceled
  PROVE  ~Ready(c)
  BY DEF Ready, AllDone

(* A consumer that takes rows readies the buffer for no other consumer. *)
LEMMA TakeNoLostWakeup ==
  ASSUME TypeOK, NoLostWakeup, NEW c \in Consumer, NEW max \in Nat, Take(c, max)
  PROVE  NoLostWakeup'
  <1> SUFFICES ASSUME NEW d \in Consumer, pc'[d] = "waiting" PROVE ~Ready(buf')
    BY DEF NoLostWakeup, Ready, AllDone
  <1>1. pc[d] = "waiting" /\ buf' = PopUpTo(buf, max) /\ buf \in BufferRecord(Row, Producer)
    BY DEF Take, TypeOK
  <1>2. ~Ready(buf)
    BY <1>1 DEF NoLostWakeup
  <1>3. buf.q = <<>>
    BY <1>2 DEF Ready
  <1>4. PopUpTo(buf, max).q = <<>> /\ SameBut(buf, PopUpTo(buf, max))
    BY <1>1, <1>3, PopFacts
  <1> QED BY <1>1, <1>2, <1>4, StillNotReady DEF SameBut

(* A push that readies the buffer notifies; one that does not changes nothing. *)
LEMMA PushNoLostWakeup ==
  ASSUME TypeOK, NoLostWakeup, NEW p \in Producer, NEW n \in 1..MaxChunk, Push(p, n)
  PROVE  NoLostWakeup'
  <1> DEFINE rows == Chunk(p, n)
  <1> SUFFICES ASSUME NEW d \in Consumer, pc'[d] = "waiting" PROVE ~Ready(buf')
    BY DEF NoLostWakeup, Ready, AllDone
  <1>1. rows \in Seq(Row) /\ buf \in BufferRecord(Row, Producer) /\ buf.q \in Seq(Row)
    <2>1. n \in Nat
      OBVIOUS
    <2>2. rows \in Seq(Row)
      BY <2>1, ChunkType
    <2>3. buf \in BufferRecord(Row, Producer)
      BY DEF TypeOK
    <2> QED BY <2>2, <2>3 DEF BufferRecord
  <1>2. buf' = PushRows(buf, rows) /\ pc' = IF Enqueued(buf, rows) > 0 THEN Notified ELSE pc
    BY DEF Push
  <1> HIDE DEF rows
  <1>3. Enqueued(buf, rows) = 0 /\ pc[d] = "waiting"
    <2>1. Notified[d] # "waiting"
      BY NotifiedType
    <2>2. Enqueued(buf, rows) \in Nat
      BY <1>1, EnqueuedFacts
    <2> QED BY <1>2, <2>1, <2>2
  <1>4. ~Ready(buf) /\ buf.q = <<>>
    BY <1>3 DEF NoLostWakeup, Ready
  <1>5. SameBut(buf, buf') /\ Len(buf'.q) = 0 /\ buf'.q \in Seq(Row)
    <2>1. /\ SameBut(buf, PushRows(buf, rows))
          /\ Len(PushRows(buf, rows).q) = Len(buf.q) + Enqueued(buf, rows)
          /\ PushRows(buf, rows) \in BufferRecord(Row, Producer)
      BY <1>1, PushFacts
    <2> QED BY <1>2, <1>3, <1>4, <2>1, EmptySeq DEF BufferRecord
  <1>6. buf'.q = <<>>
    BY <1>5, EmptySeq
  <1> QED BY <1>4, <1>5, <1>6, StillNotReady DEF SameBut

(* No step leaves a consumer waiting on a buffer that is ready. *)
LEMMA NextNoLostWakeup == TypeOK /\ NoLostWakeup /\ [Next]_vars => NoLostWakeup'
  <1> SUFFICES ASSUME TypeOK, NoLostWakeup, [Next]_vars PROVE NoLostWakeup'
    OBVIOUS
  <1>1. CASE UNCHANGED vars
    BY <1>1 DEF vars, NoLostWakeup, Ready, AllDone
  <1>2. ASSUME NEW p \in Producer, Started(p) PROVE NoLostWakeup'
    <2>1. /\ pc' = pc /\ buf'.q = buf.q /\ buf'.done = buf.done
          /\ buf'.expected = buf.expected /\ buf'.canceled = buf.canceled
      BY <1>2, MarkFacts DEF Started, TypeOK
    <2> QED BY <2>1 DEF NoLostWakeup, Ready, AllDone
  <1>3. ASSUME NEW p \in Producer, Done(p) PROVE NoLostWakeup'
    BY <1>3, NotifiedType DEF Done, NoLostWakeup
  <1>4. ASSUME Cancel PROVE NoLostWakeup'
    BY <1>4, NotifiedType DEF Cancel, NoLostWakeup
  <1>5. ASSUME NEW c \in Consumer, ~Ready(buf), pc' = [pc EXCEPT ![c] = "waiting"],
               UNCHANGED <<buf, offered, accepted, served>>
        PROVE  NoLostWakeup'
    BY <1>5 DEF NoLostWakeup, Ready, AllDone
  <1>6. ASSUME NEW c \in Consumer, NEW max \in 1..MaxFetch, NEW block \in BOOLEAN,
               EnterPop(c, max, block)
        PROVE  NoLostWakeup'
    <2>1. max \in Nat
      OBVIOUS
    <2> QED BY <1>5, <1>6, <2>1, TakeNoLostWakeup DEF EnterPop
  <1>7. ASSUME NEW c \in Consumer, Wake(c) \/ TimeOut(c) PROVE NoLostWakeup'
    <2>1. want[c] \in Nat
      BY DEF TypeOK
    <2> QED BY <1>5, <1>7, <2>1, TakeNoLostWakeup DEF Wake, TimeOut
  <1> QED BY <1>1, <1>2, <1>3, <1>4, <1>6, <1>7, PushNoLostWakeup DEF Next

(* No FetchChunk thread sleeps on a buffer that has something for it. *)
THEOREM WakeupsKept == Spec => []NoLostWakeup
  <1>1. Init => NoLostWakeup
    BY DEF Init, NoLostWakeup
  <1> QED BY <1>1, NextNoLostWakeup, TypeCorrect, PTL DEF Spec
=============================================================================
