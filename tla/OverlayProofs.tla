---------------------------- MODULE OverlayProofs ----------------------------
(***************************************************************************)
(* Proofs about whole queries (Overlay) for every overlay, every partition  *)
(* of the rows, every chunk size and buffer, with or without failing pushes *)
(* and expiring deadlines.                                                  *)
(*                                                                          *)
(* A worker's chunk counter says which of its rows the portal has taken, or *)
(* written off: a chunk is answered only after its rows were pushed, since  *)
(* every node on its way has a route (FanoutProofs) and passes it on.  The  *)
(* mark of the last chunk therefore finds all earlier rows in the buffer,   *)
(* and a buffer that is empty with every producer marked has handed out     *)
(* every row but those written off.                                         *)
(***************************************************************************)
EXTENDS Overlay, OpsProofs

FP == INSTANCE FanoutProofs

-----------------------------------------------------------------------------
(* The rows the portal has taken, or that have been written off on the way. *)
Landed == Range(received) \cup Range(buf.q) \cup dropped

(* The rows of n that its first seq chunks carry. *)
FirstRows(n, seq) == {<<n, i>> : i \in {k \in 1..Rows[n] : k <= seq * ChunkRows}}

(* A worker counts up to one past its last chunk. *)
WorkersWithin ==
  \A h \in executed :
    /\ work[h].seq \in 1..(Chunks(F!Self(h)) + 1)
    /\ work[h].waiting => work[h].seq <= Chunks(F!Self(h))

(* A chunk on its way is one that its worker has come to, at a node that    *)
(* can pass it on.                                                          *)
OnTheWay ==
  \A m \in transit :
    /\ m.exec \in executed /\ m.seq \in 1..Chunks(F!Self(m.exec))
    /\ m.seq <= work[m.exec].seq
    /\ F!Routed(m.at)

(* Nobody cancels, and the request is forgotten with the final answer. *)
PortalState == buf.canceled = FALSE /\ (registered <=> client # "finished")

(* A worker goes on only when the rows of its chunk have landed ... *)
SentHasLanded ==
  registered => \A h \in executed : FirstRows(F!Self(h), work[h].seq - 1) \subseteq Landed

(* ... which they have when the portal's handler has pushed them ... *)
PushedHasLanded ==
  \A m \in transit :
    m.stage = "pushed" => Range(ChunkOf(F!Self(m.exec), m.seq)) \subseteq Landed

(* ... so a done mark, but for those of refused peers, covers all rows.     *)
DoneHasLanded ==
  registered => \A n \in buf.done : n \in doneEarly \/ RowsOf(n) \subseteq Landed

(* Nothing lands that does not belong to the answer. *)
LandedBelongs == Landed \subseteq Result

OverlayInv ==
  /\ FP!RouteInv /\ TypeOK
  /\ WorkersWithin /\ OnTheWay /\ PortalState
  /\ SentHasLanded /\ PushedHasLanded /\ DoneHasLanded /\ LandedBelongs

-----------------------------------------------------------------------------
(* The fan-out inside the overlay.                                          *)

(* The constants are those of a fan-out. *)
LEMMA FanoutParameters == FP!FanoutConstants
  BY OverlayConstants DEF FP!FanoutConstants

(* A step of the fan-out, by either of its names. *)
LEMMA SameFanout ==
  /\ F!Init <=> FP!Init
  /\ F!Next <=> FP!Next
  BY DEF F!Init, FP!Init, F!Next, FP!Next, F!Call, FP!Call, F!CallFails, FP!CallFails,
         F!Check, FP!Check, F!Insert, FP!Insert, F!Answered, FP!Answered,
         F!DeadlineExpires, FP!DeadlineExpires, F!Accept, FP!Accept,
         F!MarkRefused, FP!MarkRefused, F!Self, FP!Self, F!From, FP!From,
         F!Root, FP!Root, F!Running, FP!Running, F!Finished, FP!Finished,
         F!Routed, FP!Routed, F!FanoutSet, FP!FanoutSet, F!Visited, FP!Visited

(* What the replies rely on: a worker's caller has a route, and so does the *)
(* upstream of every node that has one.                                     *)
LEMMA RoutingFacts ==
  ASSUME FP!RouteInv
  PROVE  /\ F!TypeOK
         /\ executed \subseteq Seq(Node)
         /\ F!Routed(Portal)
         /\ \A h \in executed : F!Self(h) \in Node
         /\ \A h \in executed : h # F!Root => F!From(h) \in Node /\ F!Routed(F!From(h))
         /\ \A n \in Node \ {Portal} :
              F!Routed(n) => F!Upstream(n) \in Node /\ F!Routed(F!Upstream(n))
<1> USE FanoutParameters DEF FP!RouteInv
<1>1. F!TypeOK
  BY DEF FP!TypeOK, F!TypeOK, FP!Path, F!Path, FP!Running, F!Running, FP!Finished, F!Finished
<1>2. /\ executed \subseteq calls /\ calls \subseteq Seq(Node)
      /\ \A n \in Node : route[n] \in Seq(Node)
  BY DEF FP!TypeOK, FP!Path
<1>3. /\ \A h \in calls : Len(h) >= 1
      /\ \A h \in calls \ {F!Root} : Len(h) >= 2 /\ F!Routed(F!From(h))
  BY DEF FP!CallShape, FP!Root, F!Root, FP!Routed, F!Routed, FP!From, F!From
<1>4. \A h \in Seq(Node) : Len(h) >= 1 => F!Self(h) \in Node
  BY DEF F!Self
<1>5. \A h \in Seq(Node) : Len(h) >= 2 => F!From(h) \in Node
  BY DEF F!From
<1>6. \A n \in Node \ {Portal} :
        F!Routed(n) => Len(route[n]) >= 2 /\ F!Routed(F!Upstream(n))
  BY DEF FP!UpstreamFirst, FP!Routed, F!Routed, FP!Upstream, F!Upstream, FP!From, F!From
<1>7. F!Routed(Portal)
  BY DEF FP!JoinOrder, FP!Routed, F!Routed
<1>8. \A n \in Node \ {Portal} : F!Routed(n) => F!Upstream(n) \in Node
  BY <1>2, <1>5, <1>6 DEF F!Upstream
<1> QED
  BY <1>1, <1>2, <1>3, <1>4, <1>5, <1>6, <1>7, <1>8

(* The fan-out only adds: routes, done marks and workers. *)
LEMMA FanoutAdds ==
  ASSUME FP!RouteInv, F!Next
  PROVE  /\ FP!RouteInv'
         /\ executed \subseteq executed'
         /\ doneEarly \subseteq doneEarly'
         /\ \A n \in Node : F!Routed(n) => F!Routed(n)'
<1>1. FP!RouteInv'
  BY SameFanout, FanoutParameters, FP!NextRouteInv
<1>2. PICK h \in calls :
        \/ \E nb \in todo[h] : F!Call(h, nb) \/ F!CallFails(h, nb)
        \/ F!Check(h) \/ F!Insert(h) \/ F!Answered(h) \/ F!DeadlineExpires(h) \/ F!Accept(h)
  BY DEF F!Next
<1>3. executed \subseteq executed' /\ doneEarly \subseteq doneEarly'
  BY <1>2 DEF F!Call, F!CallFails, F!Check, F!Insert, F!Answered, F!DeadlineExpires,
              F!Accept, F!MarkRefused
<1>4. ASSUME NEW n \in Node, F!Routed(n)
      PROVE  F!Routed(n)'
  <2>1. h # <<>> /\ route \in [Node -> Seq(Node)]
    <3>1. FP!RouteInv => route \in [Node -> Seq(Node)] /\ calls \subseteq Seq(Node)
      BY DEF FP!RouteInv, FP!TypeOK, FP!Path
    <3>2. Len(h) >= 1
      BY DEF FP!RouteInv, FP!CallShape
    <3> QED
      BY <3>1, <3>2
  <2>2. route' = route \/ route' = [route EXCEPT ![F!Self(h)] = h]
    BY <1>2 DEF F!Call, F!CallFails, F!Check, F!Insert, F!Answered, F!DeadlineExpires, F!Accept
  <2> QED
    BY <1>4, <2>1, <2>2 DEF F!Routed
<1> QED
  BY <1>1, <1>3, <1>4

(* Steps that are not the fan-out's leave its invariant alone. *)
LEMMA FanoutStays ==
  ASSUME FP!RouteInv, UNCHANGED fanoutVars
  PROVE  FP!RouteInv'
<1>1. UNCHANGED FP!vars
  BY DEF fanoutVars, FP!vars
<1> QED
  BY <1>1, FanoutParameters, FP!NextRouteInv

-----------------------------------------------------------------------------
(* Chunks.                                                                  *)

(* The numbers of chunks and rows are naturals, and the last chunk ends a   *)
(* partition.                                                               *)
LEMMA ChunkNumbers ==
  ASSUME NEW n \in Node
  PROVE  /\ Rows[n] \in Nat /\ ChunkRows \in Nat \ {0}
         /\ Chunks(n) \in Nat \ {0}
         /\ Rows[n] < Chunks(n) * ChunkRows
         /\ (Chunks(n) - 1) * ChunkRows <= Rows[n]
<1>1. Rows[n] \in Nat /\ ChunkRows \in Nat \ {0}
  BY OverlayConstants
<1> DEFINE d == Rows[n] \div ChunkRows
<1>2. d \in Nat /\ d * ChunkRows <= Rows[n] /\ Rows[n] < (d + 1) * ChunkRows
  BY <1>1
<1>3. Chunks(n) = d + 1
  BY DEF Chunks
<1> HIDE DEF d
<1> QED
  BY <1>1, <1>2, <1>3

(* Products with a chunk number, for the provers.                           *)
LEMMA Products ==
  ASSUME NEW c \in Nat \ {0}, NEW s \in Nat, NEW t \in Nat
  PROVE  /\ s * c \in Nat
         /\ (s + 1) * c = s * c + c
         /\ s <= t => s * c <= t * c
  OBVIOUS

(* A chunk is a sequence of its producer's rows, those that follow the rows   *)
(* of the chunks before it.                                                 *)
LEMMA ChunkFacts ==
  ASSUME NEW n \in Node, NEW seq \in 1..Chunks(n)
  PROVE  /\ ChunkOf(n, seq) \in Seq(Row)
         /\ Range(ChunkOf(n, seq)) \subseteq RowsOf(n)
         /\ FirstRows(n, seq) \subseteq FirstRows(n, seq - 1) \cup Range(ChunkOf(n, seq))
<1> DEFINE before == (seq - 1) * ChunkRows
           len == Lesser(ChunkRows, Rows[n] - before)
<1>1. /\ Rows[n] \in Nat /\ ChunkRows \in Nat \ {0} /\ Chunks(n) \in Nat
      /\ (Chunks(n) - 1) * ChunkRows <= Rows[n]
  BY ChunkNumbers
<1>2. /\ seq - 1 \in Nat /\ Chunks(n) - 1 \in Nat /\ seq - 1 <= Chunks(n) - 1
      /\ (seq - 1) + 1 = seq
  BY <1>1
<1>3. /\ before \in Nat /\ seq * ChunkRows = before + ChunkRows
      /\ before <= (Chunks(n) - 1) * ChunkRows
  BY <1>1, <1>2, Products
<1>4. ChunkOf(n, seq) = [i \in 1..len |-> <<n, before + i>>]
  BY DEF ChunkOf
<1> HIDE DEF before
<1>5. before <= Rows[n] /\ Rows[n] - before \in Nat
  BY <1>1, <1>2, <1>3, Products
<1>6. /\ len \in Nat /\ len <= ChunkRows /\ len <= Rows[n] - before
      /\ len = ChunkRows \/ len = Rows[n] - before
  BY <1>1, <1>5 DEF Lesser
<1> HIDE DEF len
<1>7. \A i \in 1..len : before + i \in 1..Rows[n]
  BY <1>1, <1>3, <1>5, <1>6
<1>8. ChunkOf(n, seq) \in Seq(Row)
  BY <1>1, <1>4, <1>6, <1>7 DEF Row
<1>9. Range(ChunkOf(n, seq)) = {<<n, before + i>> : i \in 1..len}
  BY <1>4 DEF Range
<1>10. Range(ChunkOf(n, seq)) \subseteq RowsOf(n)
  BY <1>7, <1>9 DEF RowsOf
<1>11. ASSUME NEW k \in 1..Rows[n], k <= seq * ChunkRows, ~(k <= before)
       PROVE  <<n, k>> \in Range(ChunkOf(n, seq))
  <2>1. k - before \in 1..len /\ before + (k - before) = k
    BY <1>1, <1>3, <1>5, <1>6, <1>11
  <2> QED
    BY <1>9, <2>1
<1>12. FirstRows(n, seq) \subseteq FirstRows(n, seq - 1) \cup Range(ChunkOf(n, seq))
  BY <1>11 DEF FirstRows, before
<1> QED
  BY <1>8, <1>10, <1>12

(* The first chunks carry more and more rows, from none to all. *)
LEMMA FirstRowsFacts ==
  ASSUME NEW n \in Node
  PROVE  /\ FirstRows(n, 0) = {}
         /\ FirstRows(n, Chunks(n)) = RowsOf(n)
         /\ \A s, t \in Nat : s <= t => FirstRows(n, s) \subseteq FirstRows(n, t)
<1>1. /\ Rows[n] \in Nat /\ ChunkRows \in Nat \ {0} /\ Chunks(n) \in Nat
      /\ Rows[n] < Chunks(n) * ChunkRows
  BY ChunkNumbers
<1>2. FirstRows(n, 0) = {}
  BY <1>1 DEF FirstRows
<1>3. Chunks(n) * ChunkRows \in Nat
  BY <1>1, Products
<1>4. \A k \in 1..Rows[n] : k <= Chunks(n) * ChunkRows
  BY <1>1, <1>3
<1>5. FirstRows(n, Chunks(n)) = RowsOf(n)
  BY <1>4 DEF FirstRows, RowsOf
<1>6. ASSUME NEW s \in Nat, NEW t \in Nat, s <= t
      PROVE  FirstRows(n, s) \subseteq FirstRows(n, t)
  <2>1. s * ChunkRows \in Nat /\ t * ChunkRows \in Nat /\ s * ChunkRows <= t * ChunkRows
    BY <1>1, <1>6, Products
  <2>2. \A k \in 1..Rows[n] : k <= s * ChunkRows => k <= t * ChunkRows
    BY <1>1, <2>1
  <2> QED
    BY <2>2 DEF FirstRows
<1> QED
  BY <1>2, <1>5, <1>6

-----------------------------------------------------------------------------
(* What the steps do to the rows that have landed.                          *)

(* A sequence is a prefix and the elements after it. *)
LEMMA PrefixAndRest ==
  ASSUME NEW S, NEW s \in Seq(S), NEW k \in Nat, k <= Len(s)
  PROVE  Range(s) = Range(SubSeq(s, 1, k)) \cup {s[i] : i \in (k + 1)..Len(s)}
<1>1. Len(s) \in Nat /\ Range(s) = {s[i] : i \in 1..Len(s)}
  BY LenProperties, RangeEquality
<1>2. \A i \in 1..k : s[i] \in S
  BY <1>1, ElementOfSeq
<1>3. /\ SubSeq(s, 1, k) \in Seq(S) /\ Len(SubSeq(s, 1, k)) = k
      /\ \A i \in 1..k : SubSeq(s, 1, k)[i] = s[i]
  BY <1>2, SubSeqProperties
<1>4. Range(SubSeq(s, 1, k)) = {SubSeq(s, 1, k)[i] : i \in 1..k}
  BY <1>3, RangeEquality
<1>5. Range(SubSeq(s, 1, k)) = {s[i] : i \in 1..k}
  BY <1>3, <1>4
<1>6. \A i : i \in 1..Len(s) <=> i \in 1..k \/ i \in (k + 1)..Len(s)
  BY <1>1
<1> QED
  BY <1>1, <1>5, <1>6

(* Workers and chunks belong to nodes and their rows. *)
LEMMA WorkFacts ==
  ASSUME OverlayInv
  PROVE  /\ executed \subseteq Seq(Node)
         /\ \A h \in executed : F!Self(h) \in Node /\ work[h] \in Work
         /\ \A m \in transit : m \in Transit /\ m.exec \in executed /\ F!Self(m.exec) \in Node
         /\ received \in Seq(Row) /\ buf \in BufferRecord(Row, Node) /\ buf.q \in Seq(Row)
<1>1. executed \subseteq Seq(Node) /\ \A h \in executed : F!Self(h) \in Node
  BY RoutingFacts DEF OverlayInv
<1>2. \A h \in executed : work[h] \in Work
  BY DEF OverlayInv, TypeOK
<1>3. \A m \in transit : m \in Transit /\ m.exec \in executed
  BY DEF OverlayInv, TypeOK, OnTheWay
<1>4. received \in Seq(Row) /\ buf \in BufferRecord(Row, Node) /\ buf.q \in Seq(Row)
  BY DEF OverlayInv, TypeOK, BufferRecord
<1> QED
  BY <1>1, <1>2, <1>3, <1>4

(* A push lands the rows of its chunk, whether the buffer has room or not. *)
LEMMA DepositLands ==
  ASSUME OverlayInv, NEW m \in transit, Deposit(m)
  PROVE  /\ Landed' = Landed \cup Range(ChunkOf(F!Self(m.exec), m.seq))
         /\ dropped' \subseteq Row
         /\ buf' \in BufferRecord(Row, Node) /\ SameBut(buf, buf')
<1> DEFINE rows == ChunkOf(F!Self(m.exec), m.seq)
           k == Enqueued(buf, rows)
<1>1. rows \in Seq(Row)
  BY WorkFacts, ChunkFacts DEF OverlayInv, OnTheWay
<1>2. /\ buf' = PushRows(buf, rows) /\ received' = received
      /\ dropped' = dropped \cup {rows[i] : i \in (k + 1)..Len(rows)}
  BY DEF Deposit, portalVars
<1> HIDE DEF rows
<1>3. k \in Nat /\ k <= Len(rows)
  BY <1>1, WorkFacts, EnqueuedFacts
<1>4. /\ PushRows(buf, rows) \in BufferRecord(Row, Node)
      /\ PushRows(buf, rows).q = buf.q \o SubSeq(rows, 1, k)
      /\ SubSeq(rows, 1, k) \in Seq(Row)
      /\ SameBut(buf, PushRows(buf, rows))
  BY <1>1, WorkFacts, PushFacts
<1> HIDE DEF k
<1>5. Range(buf'.q) = Range(buf.q) \cup Range(SubSeq(rows, 1, k))
  <2> DEFINE taken == SubSeq(rows, 1, k)
  <2>1. buf.q \in Seq(Row) /\ taken \in Seq(Row) /\ buf'.q = buf.q \o taken
    BY <1>2, <1>4, WorkFacts
  <2> HIDE DEF taken
  <2>2. Range(buf.q \o taken) = Range(buf.q) \cup Range(taken)
    BY <2>1, RangeConcatenation
  <2> QED
    BY <2>1, <2>2, Zenon DEF taken
<1>6. Range(rows) = Range(SubSeq(rows, 1, k)) \cup {rows[i] : i \in (k + 1)..Len(rows)}
  BY <1>1, <1>3, PrefixAndRest
<1>7. Landed' = Landed \cup Range(rows)
  BY <1>2, <1>5, <1>6 DEF Landed
<1>8. Range(rows) \subseteq Row
  BY <1>1, RangeOfSeq
<1>9. dropped' \subseteq Row
  BY <1>2, <1>6, <1>8 DEF OverlayInv, TypeOK
<1> QED
  BY <1>2, <1>4, <1>7, <1>9 DEF rows

(* A pop moves rows from the buffer to the client. *)
LEMMA PopLands ==
  ASSUME OverlayInv, Pop
  PROVE  /\ Landed' = Landed
         /\ Range(received') = Range(received) \cup Range(Popped(buf, MaxFetch))
         /\ received' \in Seq(Row)
         /\ buf' \in BufferRecord(Row, Node) /\ SameBut(buf, buf')
<1> DEFINE out == Popped(buf, MaxFetch)
<1>1. /\ buf' = PopUpTo(buf, MaxFetch) /\ received' = received \o out /\ dropped' = dropped
  BY DEF Pop
<1>2. MaxFetch \in Nat
  BY OverlayConstants
<1>3. /\ out \in Seq(Row) /\ PopUpTo(buf, MaxFetch) \in BufferRecord(Row, Node)
      /\ buf.q = out \o PopUpTo(buf, MaxFetch).q /\ SameBut(buf, PopUpTo(buf, MaxFetch))
  BY <1>2, WorkFacts, PopFacts
<1>4. buf'.q \in Seq(Row) /\ buf.q = out \o buf'.q
  BY <1>1, <1>3 DEF BufferRecord
<1> HIDE DEF out
<1>5. Range(buf.q) = Range(out) \cup Range(buf'.q)
  BY <1>3, <1>4, RangeConcatenation
<1>6. Range(received') = Range(received) \cup Range(out) /\ received' \in Seq(Row)
  BY <1>1, <1>3, WorkFacts, RangeConcatenation, ConcatProperties
<1>7. Landed' = Landed
  BY <1>1, <1>5, <1>6 DEF Landed
<1> QED
  BY <1>1, <1>3, <1>6, <1>7 DEF out

(* Giving a chunk up writes its rows off. *)
LEMMA PushFailsLands ==
  ASSUME OverlayInv, NEW h \in executed, PushFails(h)
  PROVE  /\ dropped' \subseteq Row
         /\ \/ Landed' = Landed /\ work'[h].seq = work[h].seq
            \/ /\ Landed' = Landed \cup Range(ChunkOf(F!Self(h), work[h].seq))
               /\ work'[h].seq = work[h].seq + 1
         /\ work'[h] \in Work /\ ~work'[h].waiting
         /\ \A g \in executed \ {h} : work'[g] = work[g]
         /\ work' \in [executed -> Work]
<1> DEFINE w == work[h]
           rows == ChunkOf(F!Self(h), w.seq)
<1>1. work \in [executed -> Work] /\ w \in Work /\ dropped \subseteq Row
  BY DEF OverlayInv, TypeOK
<1>2. buf' = buf /\ received' = received /\ w.waiting
  BY DEF PushFails
<1>3. rows \in Seq(Row)
  BY <1>2, WorkFacts, ChunkFacts DEF OverlayInv, WorkersWithin, Work
<1>4. Range(rows) = {rows[i] : i \in 1..Len(rows)} /\ Range(rows) \subseteq Row
  BY <1>3, RangeEquality, RangeOfSeq
<1>5. CASE w.try < Tries
  <2>1. work' = [work EXCEPT ![h] = [w EXCEPT !.try = @ + 1, !.waiting = FALSE]] /\ dropped' = dropped
    BY <1>5 DEF PushFails
  <2>2. [w EXCEPT !.try = @ + 1, !.waiting = FALSE] \in Work
    <3> HIDE DEF w
    <3>1. w \in [seq : Nat, try : Nat, waiting : BOOLEAN] /\ w.try + 1 \in Nat
      BY <1>1 DEF Work
    <3> QED
      BY <3>1 DEF Work
  <2>3. Landed' = Landed
    BY <1>2, <2>1 DEF Landed
  <2>4. work'[h].seq = work[h].seq /\ ~work'[h].waiting
    BY <1>1, <2>1 DEF Work
  <2> QED
    BY <1>1, <2>1, <2>2, <2>3, <2>4
<1>6. CASE ~(w.try < Tries)
  <2>1. /\ work' = [work EXCEPT ![h] = [seq |-> w.seq + 1, try |-> 1, waiting |-> FALSE]]
        /\ dropped' = dropped \cup {rows[i] : i \in 1..Len(rows)}
    BY <1>6 DEF PushFails
  <2>2. [seq |-> w.seq + 1, try |-> 1, waiting |-> FALSE] \in Work
    BY <1>1 DEF Work
  <2> HIDE DEF rows
  <2>3. Landed' = Landed \cup Range(rows) /\ dropped' \subseteq Row
    BY <1>1, <1>2, <1>4, <2>1 DEF Landed
  <2>4. work'[h].seq = work[h].seq + 1 /\ ~work'[h].waiting
    BY <1>1, <2>1 DEF Work
  <2> QED
    BY <1>1, <2>1, <2>2, <2>3, <2>4 DEF rows
<1> QED
  BY <1>5, <1>6

(* The answer to a call moves its worker on from that chunk, or is nobody's. *)
LEMMA AnswerFacts ==
  ASSUME OverlayInv, NEW m \in transit, Answer(m)
  PROVE  /\ work' \in [executed -> Work]
         /\ \A h \in executed \ {m.exec} : work'[h] = work[h]
         /\ \/ work'[m.exec] = work[m.exec]
            \/ /\ work[m.exec].seq = m.seq
               /\ work'[m.exec].seq = m.seq + 1
               /\ ~work'[m.exec].waiting
<1> DEFINE w == work[m.exec]
<1>1. work \in [executed -> Work] /\ m.exec \in executed /\ w \in Work
  BY WorkFacts DEF OverlayInv, TypeOK
<1>2. CASE w.waiting /\ w.seq = m.seq /\ w.try = m.try
  <2>1. work' = [work EXCEPT ![m.exec] = [seq |-> w.seq + 1, try |-> 1, waiting |-> FALSE]]
    BY <1>2 DEF Answer
  <2>2. [seq |-> w.seq + 1, try |-> 1, waiting |-> FALSE] \in Work
    BY <1>1 DEF Work
  <2> QED
    BY <1>1, <1>2, <2>1, <2>2
<1>3. CASE ~(w.waiting /\ w.seq = m.seq /\ w.try = m.try)
  BY <1>1, <1>3 DEF Answer
<1> QED
  BY <1>2, <1>3

-----------------------------------------------------------------------------
(* The invariant, step by step.                                             *)

(* The types of the fan-out, by either of their names. *)
LEMMA SameTypes == (FP!TypeOK => F!TypeOK) /\ (FP!TypeOK' => F!TypeOK')
  BY DEF FP!TypeOK, F!TypeOK, FP!Path, F!Path, FP!Running, F!Running, FP!Finished, F!Finished

(* Nothing is on its way at the start. *)
LEMMA InitOverlay == Init => OverlayInv
<1> SUFFICES ASSUME Init PROVE OverlayInv
  OBVIOUS
<1>1. FP!RouteInv
  BY SameFanout, FanoutParameters, FP!InitRouteInv DEF Init
<1>2. /\ transit = {} /\ dropped = {} /\ received = <<>> /\ registered = TRUE
      /\ client = "polling" /\ work = [h \in {} |-> 0]
      /\ buf = [NewBuffer(Capacity, Cardinality(Node)) EXCEPT !.started = Node]
  BY DEF Init
<1>3. executed = {}
  BY DEF Init, F!Init
<1>4. Cardinality(Node) \in Nat /\ Capacity \in Nat
  BY OverlayConstants, FS_CardinalityType
<1>5. <<>> \in Seq(Row) /\ Range(<<>>) = {}
  <2>1. <<>> \in Seq(Row) /\ Len(<<>>) = 0
    BY EmptySeq
  <2> QED
    BY <2>1 DEF Range
<1>6. /\ buf \in BufferRecord(Row, Node) /\ buf.q = <<>> /\ buf.done = {}
      /\ buf.capacity = Capacity /\ buf.expected = Cardinality(Node) /\ buf.canceled = FALSE
  BY <1>2, <1>4, <1>5 DEF NewBuffer, BufferRecord
<1>7. TypeOK
  <2>1. F!TypeOK
    BY <1>1, SameTypes DEF FP!RouteInv
  <2>2. work \in [executed -> Work]
    BY <1>2, <1>3
  <2> QED
    BY <1>2, <1>5, <1>6, <2>1, <2>2 DEF TypeOK
<1>8. Landed = {}
  BY <1>2, <1>5, <1>6 DEF Landed
<1>9. WorkersWithin /\ OnTheWay /\ SentHasLanded /\ PushedHasLanded
  BY <1>2, <1>3 DEF WorkersWithin, OnTheWay, SentHasLanded, PushedHasLanded
<1>10. PortalState /\ DoneHasLanded /\ LandedBelongs
  BY <1>2, <1>6, <1>8 DEF PortalState, DoneHasLanded, LandedBelongs
<1> QED
  BY <1>1, <1>7, <1>9, <1>10 DEF OverlayInv

(* A step of the fan-out starts workers at their first chunk. *)
LEMMA FanoutStepOverlay == OverlayInv /\ FanoutStep => OverlayInv'
<1> SUFFICES ASSUME OverlayInv, FanoutStep PROVE OverlayInv'
  OBVIOUS
<1>1. /\ FP!RouteInv' /\ executed \subseteq executed' /\ doneEarly \subseteq doneEarly'
      /\ \A n \in Node : F!Routed(n) => F!Routed(n)'
  BY FanoutAdds DEF OverlayInv, FanoutStep
<1>2. UNCHANGED <<registered, transit, client, received, dropped>>
  BY DEF FanoutStep
<1>3. F!TypeOK' /\ doneEarly' \subseteq Node
  BY <1>1, SameTypes DEF FP!RouteInv, FP!TypeOK
<1>4. /\ buf' \in BufferRecord(Row, Node) /\ buf'.q = buf.q
      /\ buf'.done = buf.done \cup (doneEarly' \ doneEarly)
      /\ buf'.capacity = buf.capacity /\ buf'.expected = buf.expected
      /\ buf'.canceled = buf.canceled
  <2>1. buf' = [buf EXCEPT !.done = @ \cup (doneEarly' \ doneEarly)]
    BY DEF FanoutStep
  <2> QED
    BY <1>3, <2>1, WorkFacts DEF BufferRecord
<1>5. \A h \in executed' : work'[h] = IF h \in executed THEN work[h]
                                      ELSE [seq |-> 1, try |-> 1, waiting |-> FALSE]
  BY DEF FanoutStep
<1>6. work' \in [executed' -> Work]
  <2>1. \A h \in executed' : (IF h \in executed THEN work[h]
                              ELSE [seq |-> 1, try |-> 1, waiting |-> FALSE]) \in Work
    BY WorkFacts DEF Work
  <2>2. work' = [h \in executed' |-> IF h \in executed THEN work[h]
                                     ELSE [seq |-> 1, try |-> 1, waiting |-> FALSE]]
    BY DEF FanoutStep
  <2> QED
    BY <2>1, <2>2
<1>7. \A h \in executed' : F!Self(h) \in Node
  <2>1. executed' \subseteq calls' /\ calls' \subseteq Seq(Node)
    BY <1>1 DEF FP!RouteInv, FP!TypeOK, FP!Path
  <2>2. \A h \in calls' : Len(h) >= 1
    BY <1>1 DEF FP!RouteInv, FP!CallShape
  <2> QED
    BY <2>1, <2>2 DEF F!Self
<1>8. Landed' = Landed
  BY <1>2, <1>4 DEF Landed
<1>9. TypeOK'
  BY <1>2, <1>3, <1>4, <1>6 DEF OverlayInv, TypeOK
<1>10. WorkersWithin'
  <2>1. ASSUME NEW h \in executed'
        PROVE  /\ work'[h].seq \in 1..(Chunks(F!Self(h)) + 1)
               /\ work'[h].waiting => work'[h].seq <= Chunks(F!Self(h))
    <3>1. Chunks(F!Self(h)) \in Nat \ {0}
      BY <1>7, ChunkNumbers
    <3> QED
      BY <1>5, <3>1 DEF OverlayInv, WorkersWithin
  <2> QED
    BY <2>1 DEF WorkersWithin
<1>11. OnTheWay'
  <2>1. \A m \in transit : m.at \in Node
    BY WorkFacts DEF Transit
  <2> QED
    BY <1>1, <1>2, <1>5, <2>1 DEF OverlayInv, OnTheWay
<1>12. PortalState'
  BY <1>2, <1>4 DEF OverlayInv, PortalState
<1>13. SentHasLanded'
  <2> SUFFICES ASSUME registered, NEW h \in executed'
               PROVE  FirstRows(F!Self(h), work'[h].seq - 1) \subseteq Landed
    BY <1>2, <1>8 DEF SentHasLanded
  <2>1. CASE h \in executed
    BY <1>5, <2>1 DEF OverlayInv, SentHasLanded
  <2>2. CASE h \notin executed
    <3>1. work'[h].seq - 1 = 0
      BY <1>5, <2>2
    <3> QED
      BY <1>7, <3>1, FirstRowsFacts
  <2> QED
    BY <2>1, <2>2
<1>14. PushedHasLanded'
  BY <1>2, <1>8 DEF OverlayInv, PushedHasLanded
<1>15. DoneHasLanded'
  BY <1>1, <1>2, <1>4, <1>8 DEF OverlayInv, DoneHasLanded
<1>16. LandedBelongs'
  BY <1>8 DEF OverlayInv, LandedBelongs
<1> QED
  BY <1>1, <1>9, <1>10, <1>11, <1>12, <1>13, <1>14, <1>15, <1>16 DEF OverlayInv

(* The other steps leave the fan-out alone. *)
LEMMA StillFanout ==
  ASSUME OverlayInv, UNCHANGED fanoutVars
  PROVE  /\ FP!RouteInv' /\ F!TypeOK'
         /\ executed' = executed /\ route' = route /\ doneEarly' = doneEarly
<1>1. FP!RouteInv'
  BY FanoutStays DEF OverlayInv
<1>2. F!TypeOK'
  BY <1>1, SameTypes DEF FP!RouteInv
<1> QED
  BY <1>1, <1>2 DEF fanoutVars

(* A worker sends the chunk it is at. *)
LEMMA SendOverlay == \A h \in executed : OverlayInv /\ Send(h) => OverlayInv'
<1> SUFFICES ASSUME NEW h \in executed, OverlayInv, Send(h) PROVE OverlayInv'
  OBVIOUS
<1> DEFINE w == work[h]
           m == [exec |-> h, seq |-> w.seq, try |-> w.try, stage |-> "relay",
                 at |-> IF h = F!Root THEN Portal ELSE F!From(h)]
<1>1. /\ FP!RouteInv' /\ F!TypeOK'
      /\ executed' = executed /\ route' = route /\ doneEarly' = doneEarly
  BY StillFanout DEF Send
<1>2. /\ UNCHANGED <<buf, registered, client, received, dropped>>
      /\ transit' = transit \cup {m} /\ work' = [work EXCEPT ![h].waiting = TRUE]
      /\ w.seq <= Chunks(F!Self(h))
  BY DEF Send, portalVars
<1>3. work \in [executed -> Work] /\ w \in Work
  BY DEF OverlayInv, TypeOK
<1>4. /\ work' \in [executed -> Work]
      /\ \A g \in executed : work'[g].seq = work[g].seq
      /\ \A g \in executed \ {h} : work'[g] = work[g]
  BY <1>2, <1>3 DEF Work
<1>5. /\ m.exec = h /\ m.seq = w.seq /\ m.stage = "relay"
      /\ m.at \in Node /\ F!Routed(m.at)
  BY RoutingFacts, OverlayConstants DEF OverlayInv
<1>6. m \in Transit
  BY <1>3, <1>5, WorkFacts DEF Transit, Work
<1> HIDE DEF m
<1>7. TypeOK'
  BY <1>1, <1>2, <1>4, <1>6 DEF OverlayInv, TypeOK
<1>8. WorkersWithin'
  BY <1>1, <1>2, <1>4 DEF OverlayInv, WorkersWithin
<1>9. OnTheWay'
  <2>1. w.seq \in 1..Chunks(F!Self(h))
    <3>1. Chunks(F!Self(h)) \in Nat
      BY WorkFacts, ChunkNumbers
    <3> QED
      BY <1>2, <3>1 DEF OverlayInv, WorkersWithin
  <2>2. \A l \in transit \cup {m} : F!Routed(l.at)'
    BY <1>1, <1>5 DEF OverlayInv, OnTheWay, F!Routed
  <2>3. \A l \in transit : /\ l.exec \in executed' /\ l.seq \in 1..Chunks(F!Self(l.exec))
                           /\ l.seq <= work'[l.exec].seq
    BY <1>1, <1>4 DEF OverlayInv, OnTheWay
  <2>4. m.exec \in executed' /\ m.seq \in 1..Chunks(F!Self(m.exec)) /\ m.seq <= work'[m.exec].seq
    BY <1>1, <1>4, <1>5, <2>1
  <2> QED
    BY <1>2, <2>2, <2>3, <2>4 DEF OnTheWay
<1>10. PortalState' /\ Landed' = Landed
  BY <1>2 DEF OverlayInv, PortalState, Landed
<1>11. SentHasLanded'
  BY <1>1, <1>2, <1>4, <1>10 DEF OverlayInv, SentHasLanded
<1>12. PushedHasLanded'
  BY <1>2, <1>5, <1>10 DEF OverlayInv, PushedHasLanded
<1>13. DoneHasLanded' /\ LandedBelongs'
  BY <1>1, <1>2, <1>10 DEF OverlayInv, DoneHasLanded, LandedBelongs
<1> QED
  BY <1>1, <1>7, <1>8, <1>9, <1>10, <1>11, <1>12, <1>13 DEF OverlayInv

(* Chunks that stay, or move on within the same call, keep their worker and *)
(* its count.                                                               *)
LEMMA KeptOnTheWay ==
  ASSUME OverlayInv, executed' = executed, route' = route,
         \A h \in executed : work'[h].seq \in Nat /\ work'[h].seq >= work[h].seq,
         \A m \in transit' : /\ F!Routed(m.at)
                             /\ \E l \in transit : m.exec = l.exec /\ m.seq = l.seq
  PROVE  OnTheWay'
<1> SUFFICES ASSUME NEW m \in transit'
             PROVE  /\ m.exec \in executed' /\ m.seq \in 1..Chunks(F!Self(m.exec))
                    /\ m.seq <= work'[m.exec].seq
                    /\ F!Routed(m.at)'
  BY DEF OnTheWay
<1>1. PICK l \in transit : m.exec = l.exec /\ m.seq = l.seq
  OBVIOUS
<1>2. /\ l.exec \in executed /\ l.seq \in 1..Chunks(F!Self(l.exec))
      /\ l.seq <= work[l.exec].seq
  BY DEF OverlayInv, OnTheWay
<1>3. Chunks(F!Self(l.exec)) \in Nat /\ work[l.exec].seq \in Nat
  BY <1>2, WorkFacts, ChunkNumbers DEF Work
<1>4. m.seq <= work'[m.exec].seq
  BY <1>1, <1>2, <1>3
<1>5. F!Routed(m.at)'
  BY DEF F!Routed
<1> QED
  BY <1>1, <1>2, <1>4, <1>5

(* A worker that is answered stays within its chunks, and so do the calls   *)
(* that are left.                                                           *)
LEMMA AnswerKeeps ==
  ASSUME OverlayInv, NEW m \in transit, Answer(m),
         executed' = executed, route' = route, transit' \subseteq transit
  PROVE  WorkersWithin' /\ OnTheWay'
<1>1. /\ \A h \in executed \ {m.exec} : work'[h] = work[h]
      /\ \/ work'[m.exec] = work[m.exec]
         \/ /\ work[m.exec].seq = m.seq
            /\ work'[m.exec].seq = m.seq + 1
            /\ ~work'[m.exec].waiting
  BY AnswerFacts
<1>2. m.exec \in executed /\ m.seq \in 1..Chunks(F!Self(m.exec))
  BY DEF OverlayInv, OnTheWay
<1>3. \A h \in executed : work[h].seq \in Nat /\ Chunks(F!Self(h)) \in Nat
  BY WorkFacts, ChunkNumbers DEF Work
<1>4. WorkersWithin'
  <2> SUFFICES ASSUME NEW h \in executed
               PROVE  /\ work'[h].seq \in 1..(Chunks(F!Self(h)) + 1)
                      /\ work'[h].waiting => work'[h].seq <= Chunks(F!Self(h))
    BY DEF WorkersWithin
  <2>1. CASE work'[h] = work[h]
    BY <2>1 DEF OverlayInv, WorkersWithin
  <2>2. CASE work'[h] # work[h]
    <3>1. h = m.exec /\ work'[h].seq = m.seq + 1 /\ ~work'[h].waiting
      BY <1>1, <2>2
    <3> QED
      BY <1>2, <1>3, <3>1
  <2> QED
    BY <2>1, <2>2
<1>5. \A h \in executed : work'[h].seq \in Nat /\ work'[h].seq >= work[h].seq
  BY <1>1, <1>2, <1>3
<1>6. \A l \in transit' : F!Routed(l.at) /\ l \in transit
  BY DEF OverlayInv, OnTheWay
<1>7. OnTheWay'
  BY <1>5, <1>6, KeptOnTheWay
<1> QED
  BY <1>4, <1>7

(* A call that moves to another node ... *)
LEMMA CallMoves ==
  ASSUME NEW m \in Transit, NEW n \in Node
  PROVE  \E l \in Transit : /\ l = [m EXCEPT !.at = n]
                            /\ l.exec = m.exec /\ l.seq = m.seq /\ l.try = m.try
                            /\ l.at = n /\ l.stage = m.stage
<1> DEFINE l == [m EXCEPT !.at = n]
<1>1. /\ l \in Transit /\ l.exec = m.exec /\ l.seq = m.seq /\ l.try = m.try
      /\ l.at = n /\ l.stage = m.stage
  BY DEF Transit
<1> QED
  BY <1>1

(* ... or to another stage of the portal's handler. *)
LEMMA StageMoves ==
  ASSUME NEW m \in Transit, NEW st \in {"relay", "found", "pushed"}
  PROVE  \E l \in Transit : /\ l = [m EXCEPT !.stage = st]
                            /\ l.exec = m.exec /\ l.seq = m.seq /\ l.try = m.try
                            /\ l.at = m.at /\ l.stage = st
<1> DEFINE l == [m EXCEPT !.stage = st]
<1>1. /\ l \in Transit /\ l.exec = m.exec /\ l.seq = m.seq /\ l.try = m.try
      /\ l.at = m.at /\ l.stage = st
  BY DEF Transit
<1> QED
  BY <1>1

(* A chunk that moves on, to another node or stage. *)
LEMMA MovedOn ==
  ASSUME OverlayInv, NEW m \in transit, NEW l \in Transit,
         UNCHANGED <<fanoutVars, work>>, transit' = (transit \ {m}) \cup {l},
         l.exec = m.exec, l.seq = m.seq, F!Routed(l.at)
  PROVE  /\ FP!RouteInv' /\ F!TypeOK'
         /\ WorkersWithin' /\ OnTheWay'
         /\ transit' \subseteq Transit /\ work' \in [executed' -> Work]
<1>1. /\ FP!RouteInv' /\ F!TypeOK'
      /\ executed' = executed /\ route' = route
  BY StillFanout
<1>2. WorkersWithin'
  BY <1>1 DEF OverlayInv, WorkersWithin
<1>3. \A h \in executed : work'[h].seq \in Nat /\ work'[h].seq >= work[h].seq
  BY WorkFacts DEF Work
<1>4. \A x \in transit' : F!Routed(x.at) /\ \E y \in transit : x.exec = y.exec /\ x.seq = y.seq
  BY DEF OverlayInv, OnTheWay
<1>5. OnTheWay'
  BY <1>1, <1>3, <1>4, KeptOnTheWay
<1>6. transit' \subseteq Transit /\ work' \in [executed' -> Work]
  BY <1>1 DEF OverlayInv, TypeOK
<1> QED
  BY <1>1, <1>2, <1>5, <1>6

(* The portal's part of the invariant, for steps that do not touch it: what *)
(* was pushed before is all there is.                                       *)
LEMMA StillPortal ==
  ASSUME OverlayInv, executed' = executed, doneEarly' = doneEarly, UNCHANGED portalVars,
         \A h \in executed : work'[h].seq = work[h].seq,
         \A m \in transit' : m.stage = "pushed" => m \in transit
  PROVE  /\ Landed' = Landed
         /\ PortalState' /\ SentHasLanded' /\ PushedHasLanded' /\ DoneHasLanded' /\ LandedBelongs'
<1>1. /\ UNCHANGED <<buf, registered, client, received, dropped>> /\ Landed' = Landed
  BY DEF portalVars, Landed
<1>2. PortalState' /\ LandedBelongs'
  BY <1>1 DEF OverlayInv, PortalState, LandedBelongs
<1>3. SentHasLanded' /\ PushedHasLanded' /\ DoneHasLanded'
  BY <1>1 DEF OverlayInv, SentHasLanded, PushedHasLanded, DoneHasLanded
<1> QED
  BY <1>1, <1>2, <1>3

(* A chunk is relayed: every node on its way has a route. *)
LEMMA RelayOverlay == \A m \in transit : OverlayInv /\ Relay(m) => OverlayInv'
<1> SUFFICES ASSUME NEW m \in transit, OverlayInv, Relay(m) PROVE OverlayInv'
  OBVIOUS
<1>1. m \in Transit /\ m.at \in Node \ {Portal} /\ F!Routed(m.at)
  BY WorkFacts DEF Relay, Transit, OverlayInv, OnTheWay
<1>2. F!Upstream(m.at) \in Node /\ F!Routed(F!Upstream(m.at))
  BY <1>1, RoutingFacts DEF OverlayInv
<1>3. /\ UNCHANGED <<fanoutVars, portalVars, work>>
      /\ transit' = (transit \ {m}) \cup {[m EXCEPT !.at = F!Upstream(m.at)]}
  BY <1>1 DEF Relay
<1>4. PICK l \in Transit : /\ l = [m EXCEPT !.at = F!Upstream(m.at)]
                           /\ l.exec = m.exec /\ l.seq = m.seq /\ l.at = F!Upstream(m.at)
                           /\ l.stage = "relay"
  BY <1>1, <1>2, CallMoves DEF Relay
<1>5. /\ FP!RouteInv' /\ F!TypeOK' /\ WorkersWithin' /\ OnTheWay'
      /\ transit' \subseteq Transit /\ work' \in [executed' -> Work]
  BY <1>2, <1>3, <1>4, MovedOn
<1>6. PortalState' /\ SentHasLanded' /\ PushedHasLanded' /\ DoneHasLanded' /\ LandedBelongs'
  BY <1>3, <1>4, StillPortal DEF fanoutVars
<1>7. TypeOK'
  BY <1>3, <1>5 DEF OverlayInv, TypeOK, portalVars
<1> QED
  BY <1>5, <1>6, <1>7 DEF OverlayInv

(* The portal finds the request; when it is gone, the rows are nobody's. *)
LEMMA FindOverlay == \A m \in transit : OverlayInv /\ Find(m) => OverlayInv'
<1> SUFFICES ASSUME NEW m \in transit, OverlayInv, Find(m) PROVE OverlayInv'
  OBVIOUS
<1>1. UNCHANGED <<fanoutVars, portalVars>> /\ m \in Transit /\ F!Routed(m.at)
  BY WorkFacts DEF Find, OverlayInv, OnTheWay
<1>2. CASE registered
  <2>1. UNCHANGED work /\ transit' = (transit \ {m}) \cup {[m EXCEPT !.stage = "found"]}
    BY <1>2 DEF Find
  <2>2. PICK l \in Transit : /\ l = [m EXCEPT !.stage = "found"]
                             /\ l.exec = m.exec /\ l.seq = m.seq /\ l.at = m.at
                             /\ l.stage = "found"
    BY <1>1, StageMoves
  <2>3. /\ FP!RouteInv' /\ F!TypeOK' /\ WorkersWithin' /\ OnTheWay'
        /\ transit' \subseteq Transit /\ work' \in [executed' -> Work]
    BY <1>1, <2>1, <2>2, MovedOn
  <2>4. PortalState' /\ SentHasLanded' /\ PushedHasLanded' /\ DoneHasLanded' /\ LandedBelongs'
    BY <1>1, <2>1, <2>2, StillPortal DEF fanoutVars
  <2>5. TypeOK'
    BY <1>1, <2>3 DEF OverlayInv, TypeOK, portalVars
  <2> QED
    BY <2>3, <2>4, <2>5 DEF OverlayInv
<1>3. CASE ~registered
  <2>1. transit' = transit \ {m} /\ Answer(m)
    BY <1>3 DEF Find
  <2>2. /\ FP!RouteInv' /\ F!TypeOK'
        /\ executed' = executed /\ route' = route /\ doneEarly' = doneEarly
    BY <1>1, StillFanout
  <2>3. WorkersWithin' /\ OnTheWay'
    BY <2>1, <2>2, AnswerKeeps
  <2>4. Landed' = Landed /\ registered' = registered /\ buf' = buf /\ client' = client
    BY <1>1 DEF portalVars, Landed
  <2>5. PortalState' /\ SentHasLanded' /\ DoneHasLanded' /\ LandedBelongs'
    BY <1>3, <2>4 DEF OverlayInv, PortalState, SentHasLanded, DoneHasLanded, LandedBelongs
  <2>6. PushedHasLanded'
    BY <2>1, <2>4 DEF OverlayInv, PushedHasLanded
  <2>7. TypeOK'
    <3>1. work' \in [executed' -> Work]
      BY <2>1, <2>2, AnswerFacts
    <3> QED
      BY <1>1, <2>1, <2>2, <3>1 DEF OverlayInv, TypeOK, portalVars
  <2> QED
    BY <2>2, <2>3, <2>5, <2>6, <2>7 DEF OverlayInv
<1> QED
  BY <1>2, <1>3

(* The portal pushes the rows of a chunk. *)
LEMMA DepositOverlay == \A m \in transit : OverlayInv /\ Deposit(m) => OverlayInv'
<1> SUFFICES ASSUME NEW m \in transit, OverlayInv, Deposit(m) PROVE OverlayInv'
  OBVIOUS
<1> DEFINE rows == ChunkOf(F!Self(m.exec), m.seq)
<1>1. /\ UNCHANGED <<fanoutVars, registered, work, client, received>>
      /\ transit' = (transit \ {m}) \cup {[m EXCEPT !.stage = "pushed"]}
  BY DEF Deposit
<1>2. m \in Transit /\ F!Routed(m.at) /\ F!Self(m.exec) \in Node /\ m.seq \in 1..Chunks(F!Self(m.exec))
  BY WorkFacts DEF OverlayInv, OnTheWay
<1>3. PICK l \in Transit : /\ l = [m EXCEPT !.stage = "pushed"]
                           /\ l.exec = m.exec /\ l.seq = m.seq /\ l.at = m.at
  BY <1>2, StageMoves
<1>4. /\ FP!RouteInv' /\ F!TypeOK' /\ WorkersWithin' /\ OnTheWay'
      /\ transit' \subseteq Transit /\ work' \in [executed' -> Work]
  BY <1>1, <1>2, <1>3, MovedOn
<1>5. /\ Landed' = Landed \cup Range(rows) /\ dropped' \subseteq Row
      /\ buf' \in BufferRecord(Row, Node) /\ SameBut(buf, buf')
  BY DepositLands
<1>6. Range(rows) \subseteq Result
  BY <1>2, ChunkFacts DEF Result
<1> HIDE DEF rows
<1>7. TypeOK'
  BY <1>1, <1>4, <1>5 DEF OverlayInv, TypeOK, SameBut
<1>8. PortalState'
  BY <1>1, <1>5 DEF OverlayInv, PortalState, SameBut
<1>9. executed' = executed /\ doneEarly' = doneEarly
  BY <1>1 DEF fanoutVars
<1>10. SentHasLanded'
  BY <1>1, <1>5, <1>9 DEF OverlayInv, SentHasLanded
<1>11. PushedHasLanded'
  <2> SUFFICES ASSUME NEW x \in transit', x.stage = "pushed"
               PROVE  Range(ChunkOf(F!Self(x.exec), x.seq)) \subseteq Landed'
    BY DEF PushedHasLanded
  <2>1. CASE x = l
    BY <1>3, <1>5, <2>1 DEF rows
  <2>2. CASE x \in transit
    BY <1>5, <2>2 DEF OverlayInv, PushedHasLanded
  <2> QED
    BY <1>1, <1>3, <2>1, <2>2
<1>12. DoneHasLanded'
  BY <1>1, <1>5, <1>9 DEF OverlayInv, DoneHasLanded, SameBut
<1>13. LandedBelongs'
  BY <1>5, <1>6 DEF OverlayInv, LandedBelongs
<1> QED
  BY <1>4, <1>7, <1>8, <1>10, <1>11, <1>12, <1>13 DEF OverlayInv

(* The portal answers, and marks the producer after its last chunk: the     *)
(* rows of the chunks before have landed by then.                           *)
LEMMA MarkOverlay == \A m \in transit : OverlayInv /\ Mark(m) => OverlayInv'
<1> SUFFICES ASSUME NEW m \in transit, OverlayInv, Mark(m) PROVE OverlayInv'
  OBVIOUS
<1> DEFINE n == F!Self(m.exec)
           rows == Range(ChunkOf(n, m.seq))
<1>1. /\ UNCHANGED <<fanoutVars, registered, client, received, dropped>>
      /\ transit' = transit \ {m} /\ Answer(m) /\ m.stage = "pushed"
      /\ buf' = IF IsLast(n, m.seq) THEN MarkProducerDone(buf, n) ELSE buf
  BY DEF Mark
<1>2. /\ FP!RouteInv' /\ F!TypeOK'
      /\ executed' = executed /\ route' = route /\ doneEarly' = doneEarly
  BY <1>1, StillFanout
<1>3. WorkersWithin' /\ OnTheWay'
  BY <1>1, <1>2, AnswerKeeps
<1>4. /\ n \in Node /\ m.exec \in executed /\ m.seq \in 1..Chunks(n)
      /\ m.seq <= work[m.exec].seq /\ work[m.exec].seq \in Nat
      /\ rows \subseteq Landed
  BY <1>1, WorkFacts DEF OverlayInv, OnTheWay, PushedHasLanded, Work
<1>5. /\ buf' \in BufferRecord(Row, Node) /\ buf'.q = buf.q
      /\ buf'.done \subseteq buf.done \cup {n}
      /\ n \in buf'.done \ buf.done => IsLast(n, m.seq)
      /\ buf'.capacity = buf.capacity /\ buf'.expected = buf.expected
      /\ buf'.canceled = buf.canceled
  <2>1. CASE IsLast(n, m.seq)
    <3>1. buf' = MarkProducerDone(buf, n) /\ buf \in BufferRecord(Row, Node)
      BY <1>1, <2>1, WorkFacts
    <3>2. /\ buf' \in BufferRecord(Row, Node) /\ buf'.done = buf.done \cup {n}
          /\ buf'.q = buf.q /\ buf'.canceled = buf.canceled
          /\ buf'.capacity = buf.capacity /\ buf'.expected = buf.expected
      BY <1>4, <3>1 DEF MarkProducerDone, BufferRecord
    <3> QED
      BY <2>1, <3>2
  <2>2. CASE ~IsLast(n, m.seq)
    BY <1>1, <2>2, WorkFacts
  <2> QED
    BY <2>1, <2>2
<1>6. Landed' = Landed
  BY <1>1, <1>5 DEF Landed
<1>7. FirstRows(n, m.seq) \subseteq FirstRows(n, m.seq - 1) \cup rows
  BY <1>4, ChunkFacts
<1> HIDE DEF rows
<1>8. TypeOK'
  <2>1. work' \in [executed' -> Work]
    BY <1>1, <1>2, AnswerFacts
  <2> QED
    BY <1>1, <1>2, <1>5, <2>1 DEF OverlayInv, TypeOK
<1>9. PortalState' /\ LandedBelongs'
  BY <1>1, <1>5, <1>6 DEF OverlayInv, PortalState, LandedBelongs
<1>10. ASSUME registered  PROVE FirstRows(n, m.seq) \subseteq Landed
  <2>1. FirstRows(n, work[m.exec].seq - 1) \subseteq Landed
    BY <1>4, <1>10 DEF OverlayInv, SentHasLanded
  <2>2. /\ m.seq - 1 \in Nat /\ work[m.exec].seq - 1 \in Nat
        /\ m.seq - 1 <= work[m.exec].seq - 1
    <3>1. Chunks(n) \in Nat
      BY <1>4, ChunkNumbers
    <3> QED
      BY <1>4, <3>1
  <2>3. FirstRows(n, m.seq - 1) \subseteq FirstRows(n, work[m.exec].seq - 1)
    BY <1>4, <2>2, FirstRowsFacts
  <2> QED
    BY <1>4, <1>7, <2>1, <2>3
<1>11. SentHasLanded'
  <2> SUFFICES ASSUME registered, NEW h \in executed
               PROVE  FirstRows(F!Self(h), work'[h].seq - 1) \subseteq Landed
    BY <1>1, <1>2, <1>6 DEF SentHasLanded
  <2>1. CASE work'[h] = work[h]
    BY <2>1 DEF OverlayInv, SentHasLanded
  <2>2. CASE work'[h] # work[h]
    <3>1. h = m.exec /\ work'[h].seq = m.seq + 1
      BY <1>1, <2>2, AnswerFacts
    <3>2. work'[h].seq - 1 = m.seq
      <4>1. Chunks(n) \in Nat
        BY <1>4, ChunkNumbers
      <4> QED
        BY <1>4, <3>1, <4>1
    <3> QED
      BY <1>10, <3>1, <3>2
  <2> QED
    BY <2>1, <2>2
<1>12. PushedHasLanded'
  BY <1>1, <1>6 DEF OverlayInv, PushedHasLanded
<1>13. DoneHasLanded'
  <2> SUFFICES ASSUME registered, NEW d \in buf'.done
               PROVE  d \in doneEarly \/ RowsOf(d) \subseteq Landed
    BY <1>1, <1>2, <1>6 DEF DoneHasLanded
  <2>1. CASE d \in buf.done
    BY <2>1 DEF OverlayInv, DoneHasLanded
  <2>2. CASE d \notin buf.done
    <3>1. d = n /\ m.seq = Chunks(n)
      BY <1>5, <2>2 DEF IsLast
    <3> QED
      BY <1>4, <1>10, <3>1, FirstRowsFacts
  <2> QED
    BY <2>1, <2>2
<1> QED
  BY <1>2, <1>3, <1>8, <1>9, <1>11, <1>12, <1>13 DEF OverlayInv

(* A call is lost on its way. *)
LEMMA LoseOverlay == \A m \in transit : OverlayInv /\ Lose(m) => OverlayInv'
<1> SUFFICES ASSUME NEW m \in transit, OverlayInv, Lose(m) PROVE OverlayInv'
  OBVIOUS
<1>1. UNCHANGED <<fanoutVars, portalVars, work>> /\ transit' = transit \ {m}
  BY DEF Lose
<1>2. /\ FP!RouteInv' /\ F!TypeOK'
      /\ executed' = executed /\ route' = route /\ doneEarly' = doneEarly
  BY <1>1, StillFanout
<1>3. TypeOK'
  BY <1>1, <1>2 DEF OverlayInv, TypeOK, portalVars
<1>4. WorkersWithin' /\ OnTheWay'
  BY <1>1, <1>2 DEF OverlayInv, WorkersWithin, OnTheWay, F!Routed
<1>5. PortalState' /\ SentHasLanded' /\ PushedHasLanded' /\ DoneHasLanded' /\ LandedBelongs'
  BY <1>1, <1>2, StillPortal
<1> QED
  BY <1>2, <1>3, <1>4, <1>5 DEF OverlayInv

(* A worker tries again, or gives its chunk up and goes on to the next. *)
LEMMA PushFailsOverlay == \A h \in executed : OverlayInv /\ PushFails(h) => OverlayInv'
<1> SUFFICES ASSUME NEW h \in executed, OverlayInv, PushFails(h) PROVE OverlayInv'
  OBVIOUS
<1> DEFINE n == F!Self(h)
           seq == work[h].seq
           rows == Range(ChunkOf(n, seq))
<1>1. UNCHANGED <<fanoutVars, buf, registered, client, received, transit>> /\ work[h].waiting
  BY DEF PushFails
<1>2. /\ FP!RouteInv' /\ F!TypeOK'
      /\ executed' = executed /\ route' = route /\ doneEarly' = doneEarly
  BY <1>1, StillFanout
<1>3. /\ dropped' \subseteq Row /\ work' \in [executed -> Work]
      /\ \/ Landed' = Landed /\ work'[h].seq = seq
         \/ Landed' = Landed \cup rows /\ work'[h].seq = seq + 1
      /\ ~work'[h].waiting
      /\ \A g \in executed \ {h} : work'[g] = work[g]
  BY PushFailsLands
<1>4. n \in Node /\ Chunks(n) \in Nat /\ seq \in 1..Chunks(n)
  <2>1. n \in Node /\ Chunks(n) \in Nat
    BY WorkFacts, ChunkNumbers
  <2> QED
    BY <1>1, <2>1 DEF OverlayInv, WorkersWithin
<1>5. /\ rows \subseteq Result
      /\ FirstRows(n, seq) \subseteq FirstRows(n, seq - 1) \cup rows
  BY <1>4, ChunkFacts DEF Result
<1> HIDE DEF rows
<1>6. TypeOK'
  BY <1>1, <1>2, <1>3 DEF OverlayInv, TypeOK
<1>7. WorkersWithin'
  <2>1. work'[h].seq \in 1..(Chunks(n) + 1)
    BY <1>3, <1>4
  <2> QED
    BY <1>2, <1>3, <2>1 DEF OverlayInv, WorkersWithin
<1>8. OnTheWay'
  <2>1. \A g \in executed : work'[g].seq \in Nat /\ work'[g].seq >= work[g].seq
    <3>1. work'[h].seq \in Nat /\ work'[h].seq >= work[h].seq
      BY <1>3, <1>4
    <3>2. \A g \in executed : work[g].seq \in Nat
      BY WorkFacts DEF Work
    <3> QED
      BY <1>3, <3>1, <3>2
  <2>2. \A m \in transit' : F!Routed(m.at) /\ m \in transit
    BY <1>1 DEF OverlayInv, OnTheWay
  <2> QED
    BY <1>2, <2>1, <2>2, KeptOnTheWay
<1>9. PortalState' /\ PushedHasLanded' /\ DoneHasLanded' /\ LandedBelongs'
  <2>1. PortalState'
    BY <1>1 DEF OverlayInv, PortalState
  <2>2. PushedHasLanded'
    BY <1>1, <1>3 DEF OverlayInv, PushedHasLanded
  <2>3. DoneHasLanded'
    BY <1>1, <1>2, <1>3 DEF OverlayInv, DoneHasLanded
  <2>4. LandedBelongs'
    BY <1>3, <1>5 DEF OverlayInv, LandedBelongs
  <2> QED
    BY <2>1, <2>2, <2>3, <2>4
<1>10. SentHasLanded'
  <2> SUFFICES ASSUME registered, NEW g \in executed
               PROVE  FirstRows(F!Self(g), work'[g].seq - 1) \subseteq Landed'
    BY <1>1, <1>2 DEF SentHasLanded
  <2>1. /\ FirstRows(F!Self(g), work[g].seq - 1) \subseteq Landed
        /\ Landed \subseteq Landed'
    BY <1>3 DEF OverlayInv, SentHasLanded
  <2>2. CASE work'[g].seq = work[g].seq
    BY <2>1, <2>2
  <2>3. CASE work'[g].seq # work[g].seq
    <3>1. g = h /\ work'[g].seq = seq + 1 /\ Landed' = Landed \cup rows
      BY <1>3, <2>3
    <3>2. work'[g].seq - 1 = seq
      BY <1>4, <3>1
    <3> QED
      BY <1>5, <2>1, <3>1, <3>2
  <2> QED
    BY <2>2, <2>3
<1> QED
  BY <1>2, <1>6, <1>7, <1>8, <1>9, <1>10 DEF OverlayInv

(* The client's two steps: it takes rows ... *)
LEMMA PopOverlay == OverlayInv /\ Pop => OverlayInv'
<1> SUFFICES ASSUME OverlayInv, Pop PROVE OverlayInv'
  OBVIOUS
<1>1. /\ UNCHANGED <<fanoutVars, work, transit, registered, dropped>>
      /\ client = "polling" /\ client' = "popped"
  BY DEF Pop
<1>2. /\ FP!RouteInv' /\ F!TypeOK'
      /\ executed' = executed /\ route' = route /\ doneEarly' = doneEarly
  BY <1>1, StillFanout
<1>3. /\ Landed' = Landed /\ received' \in Seq(Row)
      /\ buf' \in BufferRecord(Row, Node) /\ SameBut(buf, buf')
  BY PopLands
<1>4. TypeOK'
  BY <1>1, <1>2, <1>3 DEF OverlayInv, TypeOK, SameBut
<1>5. WorkersWithin' /\ OnTheWay'
  BY <1>1, <1>2 DEF OverlayInv, WorkersWithin, OnTheWay, F!Routed
<1>6. PortalState' /\ LandedBelongs'
  BY <1>1, <1>3 DEF OverlayInv, PortalState, LandedBelongs, SameBut
<1>7. SentHasLanded' /\ PushedHasLanded' /\ DoneHasLanded'
  BY <1>1, <1>2, <1>3 DEF OverlayInv, SentHasLanded, PushedHasLanded, DoneHasLanded, SameBut
<1> QED
  BY <1>2, <1>4, <1>5, <1>6, <1>7 DEF OverlayInv

(* ... and learns whether these were the last. *)
LEMMA RespondOverlay == OverlayInv /\ Respond => OverlayInv'
<1> SUFFICES ASSUME OverlayInv, Respond PROVE OverlayInv'
  OBVIOUS
<1>1. /\ UNCHANGED <<fanoutVars, work, transit, buf, received, dropped>>
      /\ client = "popped" /\ registered' = ~IsFinal(buf)
      /\ client' = IF IsFinal(buf) THEN "finished" ELSE "polling"
  BY DEF Respond
<1>2. /\ FP!RouteInv' /\ F!TypeOK'
      /\ executed' = executed /\ route' = route /\ doneEarly' = doneEarly
  BY <1>1, StillFanout
<1>3. /\ registered /\ Landed' = Landed
      /\ registered' \in BOOLEAN /\ client' \in {"polling", "popped", "finished"}
      /\ registered' <=> client' # "finished"
  BY <1>1 DEF OverlayInv, PortalState, Landed
<1>4. TypeOK'
  BY <1>1, <1>2, <1>3 DEF OverlayInv, TypeOK
<1>5. WorkersWithin' /\ OnTheWay'
  BY <1>1, <1>2 DEF OverlayInv, WorkersWithin, OnTheWay, F!Routed
<1>6. PortalState' /\ LandedBelongs'
  BY <1>1, <1>3 DEF OverlayInv, PortalState, LandedBelongs
<1>7. SentHasLanded' /\ PushedHasLanded' /\ DoneHasLanded'
  BY <1>1, <1>2, <1>3 DEF OverlayInv, SentHasLanded, PushedHasLanded, DoneHasLanded
<1> QED
  BY <1>2, <1>4, <1>5, <1>6, <1>7 DEF OverlayInv

(* The invariant is inductive. *)
LEMMA NextOverlay == OverlayInv /\ [Next]_vars => OverlayInv'
<1> SUFFICES ASSUME OverlayInv, [Next]_vars PROVE OverlayInv'
  OBVIOUS
<1>1. CASE FanoutStep
  BY <1>1, FanoutStepOverlay
<1>2. CASE ExecuteStep
  BY <1>2, SendOverlay, PushFailsOverlay DEF ExecuteStep
<1>3. CASE PushStep
  BY <1>3, RelayOverlay, FindOverlay, DepositOverlay, MarkOverlay DEF PushStep
<1>4. CASE \E m \in transit : Lose(m)
  BY <1>4, LoseOverlay
<1>5. CASE ClientStep
  BY <1>5, PopOverlay, RespondOverlay DEF ClientStep
<1>6. CASE UNCHANGED vars
  <2>1. UNCHANGED <<fanoutVars, portalVars, work, transit>>
    BY <1>6 DEF vars
  <2>2. /\ FP!RouteInv' /\ F!TypeOK'
        /\ executed' = executed /\ route' = route /\ doneEarly' = doneEarly
    BY <2>1, StillFanout
  <2>3. TypeOK' /\ WorkersWithin' /\ OnTheWay'
    BY <2>1, <2>2 DEF OverlayInv, TypeOK, WorkersWithin, OnTheWay, F!Routed, portalVars
  <2>4. PortalState' /\ SentHasLanded' /\ PushedHasLanded' /\ DoneHasLanded' /\ LandedBelongs'
    BY <2>1, <2>2, StillPortal
  <2> QED
    BY <2>2, <2>3, <2>4 DEF OverlayInv
<1> QED
  BY <1>1, <1>2, <1>3, <1>4, <1>5, <1>6 DEF Next

(* It holds in every overlay, whatever fails and expires. *)
LEMMA OverlayInvariant == Spec => []OverlayInv
  BY InitOverlay, NextOverlay, PTL DEF Spec

(* The workers' counters, the calls between nodes, the portal's buffer and  *)
(* the client have their types.                                             *)
THEOREM TypeCorrect == Spec => []TypeOK
<1>1. OverlayInv => TypeOK
  BY DEF OverlayInv
<1> QED
  BY <1>1, OverlayInvariant, PTL

-----------------------------------------------------------------------------
(* The promise to the client.                                               *)

(* When the client is told final, every row has been handed to it, or was   *)
(* written off: with every producer marked and the queue empty, what has    *)
(* landed and was not dropped is with the client.                           *)
LEMMA FinalIsFull ==
  ASSUME OverlayInv, registered, IsFinal(buf)
  PROVE  Result \subseteq Range(received) \cup WrittenOff
<1>1. buf.q = <<>> /\ AllDone(buf)
  BY DEF OverlayInv, PortalState, IsFinal
<1>2. buf.done = Node
  <2>1. buf.done \subseteq Node /\ Cardinality(buf.done) >= Cardinality(Node)
    BY <1>1 DEF OverlayInv, TypeOK, BufferRecord, AllDone
  <2>2. /\ Cardinality(buf.done) <= Cardinality(Node)
        /\ Cardinality(Node) = Cardinality(buf.done) => Node = buf.done
    BY <2>1, OverlayConstants, FS_Subset
  <2>3. Cardinality(buf.done) \in Nat /\ Cardinality(Node) \in Nat
    BY <2>1, OverlayConstants, FS_Subset, FS_CardinalityType
  <2> QED
    BY <2>1, <2>2, <2>3
<1>3. Range(buf.q) = {}
  <2>1. <<>> \in Seq(Row) /\ Len(<<>>) = 0
    BY EmptySeq
  <2> QED
    BY <1>1, <2>1 DEF Range
<1>4. Landed = Range(received) \cup dropped
  BY <1>3 DEF Landed
<1>5. \A n \in Node : n \in doneEarly \/ RowsOf(n) \subseteq Range(received) \cup dropped
  BY <1>2, <1>4 DEF OverlayInv, DoneHasLanded
<1> QED
  BY <1>5 DEF Result, WrittenOff

(* At the start nothing is delivered or written off. *)
LEMMA InitService == Init => Service!ServiceInit
<1> SUFFICES ASSUME Init PROVE Service!ServiceInit
  OBVIOUS
<1>1. received = <<>> /\ dropped = {} /\ client = "polling"
  BY DEF Init
<1>2. doneEarly = {}
  BY DEF Init, F!Init
<1>3. {received[i] : i \in 1..Len(received)} = {}
  BY <1>1, EmptySeq
<1>4. WrittenOff = {}
  BY <1>1, <1>2 DEF WrittenOff
<1> QED
  BY <1>1, <1>3, <1>4 DEF Service!ServiceInit

(* Every step is the service's, or nothing to it. *)
LEMMA NextService ==
  OverlayInv /\ OverlayInv' /\ [Next]_vars
    => [Service!WriteOff \/ Service!Deliver \/ Service!Finish]_Service!serviceVars
<1> DEFINE Delivered == {received[i] : i \in 1..Len(received)}
<1> SUFFICES ASSUME OverlayInv, OverlayInv', [Next]_vars
             PROVE  \/ Service!WriteOff \/ Service!Deliver \/ Service!Finish
                    \/ /\ Delivered' = Delivered
                       /\ WrittenOff' = WrittenOff
                       /\ (client = "finished")' = (client = "finished")
  BY DEF Service!serviceVars
<1>1. Delivered = Range(received) /\ Delivered' = Range(received')
  <2>1. received \in Seq(Row) /\ received' \in Seq(Row)
    BY DEF OverlayInv, TypeOK
  <2> QED
    BY <2>1, RangeEquality
<1>2. WrittenOff' \subseteq Result
  <2>1. dropped' \subseteq Result /\ doneEarly' \subseteq Node
    BY DEF OverlayInv, LandedBelongs, Landed, FP!RouteInv, FP!TypeOK
  <2> QED
    BY <2>1 DEF WrittenOff, Result
<1>3. ASSUME dropped \subseteq dropped', doneEarly \subseteq doneEarly',
             received' = received, client' = client
      PROVE  Service!WriteOff
  <2>1. WrittenOff \subseteq WrittenOff'
    BY <1>3 DEF WrittenOff
  <2> QED
    BY <1>2, <1>3, <2>1 DEF Service!WriteOff
<1>4. CASE FanoutStep
  BY <1>3, <1>4, FanoutAdds DEF FanoutStep, OverlayInv
<1>5. CASE ExecuteStep
  <2>1. ASSUME NEW h \in executed, Send(h)  PROVE Service!WriteOff
    BY <1>3, <2>1 DEF Send, fanoutVars, portalVars
  <2>2. ASSUME NEW h \in executed, PushFails(h)  PROVE Service!WriteOff
    BY <1>3, <2>2 DEF PushFails, fanoutVars
  <2> QED
    BY <1>5, <2>1, <2>2 DEF ExecuteStep
<1>6. CASE PushStep
  <2>1. ASSUME NEW m \in transit, Relay(m) \/ Find(m)  PROVE Service!WriteOff
    BY <1>3, <2>1 DEF Relay, Find, fanoutVars, portalVars
  <2>2. ASSUME NEW m \in transit, Deposit(m) \/ Mark(m)  PROVE Service!WriteOff
    BY <1>3, <2>2 DEF Deposit, Mark, fanoutVars
  <2> QED
    BY <1>6, <2>1, <2>2 DEF PushStep
<1>7. CASE \E m \in transit : Lose(m)
  BY <1>3, <1>7 DEF Lose, fanoutVars, portalVars
<1>8. CASE Pop
  <2>1. /\ dropped' = dropped /\ doneEarly' = doneEarly
        /\ client = "polling" /\ client' = "popped"
    BY <1>8 DEF Pop, fanoutVars
  <2>2. Delivered \subseteq Delivered' /\ Delivered' \subseteq Result
    <3>1. Delivered \subseteq Delivered'
      BY <1>1, <1>8, PopLands
    <3>2. Delivered' \subseteq Result
      BY <1>1 DEF OverlayInv, LandedBelongs, Landed
    <3> QED
      BY <3>1, <3>2
  <2>3. WrittenOff' = WrittenOff
    BY <2>1 DEF WrittenOff
  <2> HIDE DEF Delivered
  <2>4. \E rows \in SUBSET (Result \ Delivered) : Delivered' = Delivered \cup rows
    <3>1. PICK new : new = Delivered' \ Delivered
      OBVIOUS
    <3>2. new \in SUBSET (Result \ Delivered) /\ Delivered' = Delivered \cup new
      BY <2>2, <3>1
    <3> QED
      BY <3>2
  <2> QED
    BY <2>1, <2>3, <2>4 DEF Service!Deliver, Delivered
<1>9. CASE Respond
  <2>1. /\ received' = received /\ dropped' = dropped /\ doneEarly' = doneEarly
        /\ client = "popped"
        /\ client' = IF IsFinal(buf) THEN "finished" ELSE "polling"
    BY <1>9 DEF Respond, fanoutVars
  <2>2. WrittenOff' = WrittenOff
    BY <2>1 DEF WrittenOff
  <2>3. CASE IsFinal(buf)
    <3>1. Result \subseteq Delivered \cup WrittenOff
      BY <1>1, <2>1, <2>3, FinalIsFull DEF OverlayInv, PortalState
    <3> QED
      BY <2>1, <2>2, <2>3, <3>1 DEF Service!Finish
  <2>4. CASE ~IsFinal(buf)
    BY <2>1, <2>2, <2>4
  <2> QED
    BY <2>3, <2>4
<1>10. CASE UNCHANGED vars
  BY <1>3, <1>10 DEF vars, fanoutVars, portalVars
<1> QED
  BY <1>4, <1>5, <1>6, <1>7, <1>8, <1>9, <1>10 DEF Next, ClientStep

(* A client that is told final has every matching row of every node but     *)
(* those a full buffer dropped, a worker gave up on, or a refused peer was  *)
(* forgiven: the overlay implements the query service.                      *)
THEOREM OverlayImplementsService == Spec => ImplementsService
<1>1. Init => Service!ServiceInit
  BY InitService
<1>2. OverlayInv /\ OverlayInv' /\ [Next]_vars
        => [Service!WriteOff \/ Service!Deliver \/ Service!Finish]_Service!serviceVars
  BY NextService
<1> QED
  BY <1>1, <1>2, OverlayInvariant, PTL DEF Spec, ImplementsService, Service!ServiceSpec

-----------------------------------------------------------------------------
(***************************************************************************)
(* Without failing pushes and expiring deadlines a worker has one call on   *)
(* its way at a time, so what has arrived of its rows are those of the      *)
(* chunks it has been answered, and of the one in the portal's hands.       *)
(***************************************************************************)
NothingFails == PushFailures = FALSE /\ DeadlinesExpire = FALSE

OneCallEach == \A l, m \in transit : l.exec = m.exec => l = m

CallIsAwaited ==
  \A m \in transit : /\ work[m.exec].waiting
                     /\ m.seq = work[m.exec].seq /\ m.try = work[m.exec].try

(* How many chunks of a worker the portal has had. *)
Taken(h) == IF \E m \in transit : m.exec = h /\ m.stage = "pushed"
              THEN work[h].seq ELSE work[h].seq - 1

ArrivedWasTaken ==
  \A r \in Range(Arrived) :
    \E h \in executed : F!Self(h) = r[1] /\ r[2] <= Taken(h) * ChunkRows

OrderInv ==
  /\ OverlayInv /\ FP!SyncInv
  /\ OneCallEach /\ CallIsAwaited /\ ArrivedWasTaken
  /\ RowsOnceInOrder

(* Two workers of one node are one. *)
LEMMA OneWorkerEach ==
  ASSUME FP!SyncInv, NEW g \in executed, NEW h \in executed, F!Self(g) = F!Self(h)
  PROVE  g = h
<1>1. executed \subseteq calls
  BY DEF FP!SyncInv, FP!RouteInv, FP!TypeOK
<1>2. pc[g] = "accepted" /\ pc[h] = "accepted"
  BY DEF FP!SyncInv, FP!OwnRoute
<1>3. route[F!Self(g)] = g /\ route[F!Self(h)] = h
  BY <1>1, <1>2 DEF FP!SyncInv, FP!OwnRoute, FP!Holding, FP!Self, F!Self
<1> QED
  BY <1>3

(* The numbers in this. *)
LEMMA TakenFacts ==
  ASSUME OverlayInv
  PROVE  \A h \in executed : /\ work[h].seq \in Nat \ {0} /\ Taken(h) \in Nat
                             /\ Chunks(F!Self(h)) \in Nat
<1> SUFFICES ASSUME NEW h \in executed
             PROVE  /\ work[h].seq \in Nat \ {0} /\ Taken(h) \in Nat
                    /\ Chunks(F!Self(h)) \in Nat
  OBVIOUS
<1>1. Chunks(F!Self(h)) \in Nat
  BY WorkFacts, ChunkNumbers
<1>2. work[h].seq \in Nat \ {0}
  BY <1>1 DEF OverlayInv, WorkersWithin
<1> QED
  BY <1>1, <1>2 DEF Taken

(* What has arrived is a sequence of rows. *)
LEMMA ArrivedFacts ==
  ASSUME OverlayInv
  PROVE  /\ Arrived \in Seq(Row)
         /\ Range(Arrived) = Range(received) \cup Range(buf.q)
         /\ Range(Arrived) = {Arrived[i] : i \in 1..Len(Arrived)}
<1>1. received \in Seq(Row) /\ buf.q \in Seq(Row)
  BY WorkFacts
<1>2. Arrived \in Seq(Row)
  BY <1>1, ConcatProperties DEF Arrived
<1>3. Range(Arrived) = Range(received) \cup Range(buf.q)
  BY <1>1, RangeConcatenation DEF Arrived
<1> QED
  BY <1>2, <1>3, RangeEquality

(* What was taken stays taken while the counts only grow. *)
LEMMA StillTaken ==
  ASSUME OrderInv, executed \subseteq executed',
         \A h \in executed : Taken(h)' \in Nat /\ Taken(h)' >= Taken(h),
         NEW r \in Range(Arrived)
  PROVE  \E h \in executed' : F!Self(h) = r[1] /\ r[2] <= Taken(h)' * ChunkRows
<1>1. PICK h \in executed : F!Self(h) = r[1] /\ r[2] <= Taken(h) * ChunkRows
  BY DEF OrderInv, ArrivedWasTaken
<1>2. r[2] \in Nat
  <2>1. Range(Arrived) \subseteq Row
    BY ArrivedFacts, RangeOfSeq DEF OrderInv
  <2> QED
    BY <2>1 DEF Row
<1>3. Taken(h) \in Nat
  BY TakenFacts DEF OrderInv
<1> DEFINE t == Taken(h)
           u == Taken(h)'
<1>4. t \in Nat /\ u \in Nat /\ t <= u
  BY <1>3
<1> HIDE DEF t, u
<1>5. t * ChunkRows \in Nat /\ u * ChunkRows \in Nat /\ t * ChunkRows <= u * ChunkRows
  BY <1>4, OverlayConstants, Products
<1>6. r[2] <= u * ChunkRows
  BY <1>1, <1>2, <1>5 DEF t
<1> QED
  BY <1>1, <1>6 DEF u

(* Steps that bring no rows keep the order. *)
LEMMA NothingArrives ==
  ASSUME OrderInv, Arrived' = Arrived, executed \subseteq executed',
         \A h \in executed : Taken(h)' \in Nat /\ Taken(h)' >= Taken(h)
  PROVE  ArrivedWasTaken' /\ RowsOnceInOrder'
<1>1. RowsOnceInOrder'
  BY DEF OrderInv, RowsOnceInOrder
<1>2. ArrivedWasTaken'
  BY StillTaken DEF ArrivedWasTaken
<1> QED
  BY <1>1, <1>2

(* The fan-out stays one thread. *)
LEMMA SyncStays ==
  ASSUME DeadlinesExpire = FALSE, FP!SyncInv, [Next]_vars
  PROVE  FP!SyncInv'
<1>1. F!Next \/ UNCHANGED fanoutVars
  BY DEF Next, vars, FanoutStep, ExecuteStep, Send, PushFails, PushStep, Relay, Find, Deposit,
         Mark, Lose, ClientStep, Pop, Respond
<1>2. [FP!Next]_FP!vars
  BY <1>1, SameFanout DEF fanoutVars, FP!vars
<1> QED
  BY <1>2, FanoutParameters, FP!NextSyncInv

(* A call that moves on is still the only one of its worker. *)
LEMMA MovedCall ==
  ASSUME OrderInv, NEW m \in transit, NEW l,
         l.exec = m.exec, l.seq = m.seq, l.try = m.try,
         work' = work, transit' = (transit \ {m}) \cup {l}
  PROVE  /\ OneCallEach' /\ CallIsAwaited'
         /\ \A h \in executed \ {m.exec} : Taken(h)' = Taken(h)
<1>1. OneCallEach'
  BY DEF OrderInv, OneCallEach
<1>2. CallIsAwaited'
  BY DEF OrderInv, CallIsAwaited
<1>3. \A h \in executed \ {m.exec} : Taken(h)' = Taken(h)
  BY DEF Taken
<1> QED
  BY <1>1, <1>2, <1>3

(* A call that is answered has been waited for. *)
LEMMA AnsweredCall ==
  ASSUME OrderInv, NEW m \in transit, Answer(m), transit' = transit \ {m}
  PROVE  /\ OneCallEach' /\ CallIsAwaited'
         /\ \A h \in executed : Taken(h)' \in Nat /\ Taken(h)' >= Taken(h)
<1>1. /\ m.exec \in executed /\ work[m.exec].waiting
      /\ m.seq = work[m.exec].seq /\ m.try = work[m.exec].try
  BY DEF OrderInv, OverlayInv, OnTheWay, CallIsAwaited
<1>2. \A l \in transit' : l \in transit /\ l.exec # m.exec
  BY DEF OrderInv, OneCallEach
<1>3. /\ work' = [work EXCEPT ![m.exec] = [seq |-> m.seq + 1, try |-> 1, waiting |-> FALSE]]
      /\ work \in [executed -> Work]
  BY <1>1 DEF Answer, OrderInv, OverlayInv, TypeOK
<1>4. /\ \A h \in executed \ {m.exec} : work'[h] = work[h]
      /\ work'[m.exec].seq = m.seq + 1
  BY <1>1, <1>3
<1>5. OneCallEach'
  BY <1>2 DEF OrderInv, OneCallEach
<1>6. CallIsAwaited'
  <2> SUFFICES ASSUME NEW l \in transit'
               PROVE  /\ work'[l.exec].waiting
                      /\ l.seq = work'[l.exec].seq /\ l.try = work'[l.exec].try
    BY DEF CallIsAwaited
  <2>1. l.exec \in executed /\ work'[l.exec] = work[l.exec]
    BY <1>2, <1>4 DEF OrderInv, OverlayInv, OnTheWay
  <2> QED
    BY <1>2, <2>1 DEF OrderInv, CallIsAwaited
<1>7. \A h \in executed \ {m.exec} : Taken(h)' = Taken(h)
  BY <1>2, <1>4 DEF Taken
<1>8. /\ work[m.exec].seq \in Nat \ {0}
      /\ \A h \in executed : Taken(h) \in Nat
  BY <1>1, TakenFacts DEF OrderInv
<1>9. Taken(m.exec)' = work[m.exec].seq /\ Taken(m.exec) <= work[m.exec].seq
  <2>1. Taken(m.exec)' = work'[m.exec].seq - 1
    <3>1. ~ \E l \in transit' : l.exec = m.exec /\ l.stage = "pushed"
      BY <1>2
    <3> QED
      BY <3>1 DEF Taken
  <2>2. Taken(m.exec) <= work[m.exec].seq
    BY <1>8 DEF Taken
  <2> QED
    BY <1>1, <1>4, <1>8, <2>1, <2>2
<1>10. ASSUME NEW h \in executed  PROVE Taken(h)' \in Nat /\ Taken(h)' >= Taken(h)
  <2>1. CASE h = m.exec
    BY <1>8, <1>9, <2>1
  <2>2. CASE h # m.exec
    BY <1>7, <1>8, <2>2
  <2> QED
    BY <2>1, <2>2
<1> QED
  BY <1>5, <1>6, <1>10

(* The fan-out and the workers bring no rows to the portal. *)
LEMMA FanoutStepOrder ==
  ASSUME OrderInv, FanoutStep
  PROVE  OneCallEach' /\ CallIsAwaited' /\ ArrivedWasTaken' /\ RowsOnceInOrder'
<1>1. executed \subseteq executed'
  BY FanoutAdds DEF OrderInv, OverlayInv, FanoutStep
<1>2. /\ transit' = transit /\ received' = received /\ buf'.q = buf.q
      /\ \A h \in executed : work'[h] = work[h]
  <2>1. buf' = [buf EXCEPT !.done = @ \cup (doneEarly' \ doneEarly)] /\ buf \in BufferRecord(Row, Node)
    BY WorkFacts DEF FanoutStep, OrderInv
  <2>2. buf'.q = buf.q
    BY <2>1 DEF BufferRecord
  <2>3. \A h \in executed : work'[h] = work[h]
    BY <1>1 DEF FanoutStep
  <2> QED
    BY <2>2, <2>3 DEF FanoutStep
<1>3. OneCallEach' /\ CallIsAwaited'
  BY <1>2 DEF OrderInv, OverlayInv, OnTheWay, OneCallEach, CallIsAwaited
<1>4. \A h \in executed : Taken(h)' = Taken(h) /\ Taken(h) \in Nat
  BY <1>2, TakenFacts DEF Taken, OrderInv
<1>5. Arrived' = Arrived
  BY <1>2 DEF Arrived
<1>6. ArrivedWasTaken' /\ RowsOnceInOrder'
  BY <1>1, <1>4, <1>5, NothingArrives
<1> QED
  BY <1>3, <1>6

(* A worker sends only when it awaits no answer. *)
LEMMA SendOrder ==
  ASSUME OrderInv, NEW h \in executed, Send(h)
  PROVE  OneCallEach' /\ CallIsAwaited' /\ ArrivedWasTaken' /\ RowsOnceInOrder'
<1>1. PICK m : /\ m.exec = h /\ m.seq = work[h].seq /\ m.try = work[h].try /\ m.stage = "relay"
               /\ transit' = transit \cup {m}
  <2>1. PICK m : m = [exec |-> h, seq |-> work[h].seq, try |-> work[h].try, stage |-> "relay",
                      at |-> IF h = F!Root THEN Portal ELSE F!From(h)]
    OBVIOUS
  <2>2. transit' = transit \cup {m}
    BY <2>1 DEF Send
  <2> QED
    BY <2>1, <2>2
<1>2. /\ UNCHANGED <<fanoutVars, portalVars>> /\ ~work[h].waiting
      /\ work' = [work EXCEPT ![h].waiting = TRUE]
  BY DEF Send
<1>3. work \in [executed -> Work]
  BY DEF OrderInv, OverlayInv, TypeOK
<1>4. /\ \A g \in executed : work'[g].seq = work[g].seq /\ work'[g].try = work[g].try
      /\ work'[h].waiting /\ \A g \in executed \ {h} : work'[g] = work[g]
  BY <1>2, <1>3 DEF Work
<1>5. \A l \in transit : l.exec # h /\ l.exec \in executed
  BY <1>2 DEF OrderInv, OverlayInv, OnTheWay, CallIsAwaited
<1>6. OneCallEach'
  BY <1>1, <1>5 DEF OrderInv, OneCallEach
<1>7. CallIsAwaited'
  BY <1>1, <1>4, <1>5 DEF OrderInv, CallIsAwaited
<1>8. \A g \in executed : Taken(g)' = Taken(g) /\ Taken(g) \in Nat
  BY <1>1, <1>4, TakenFacts DEF Taken, OrderInv
<1>9. Arrived' = Arrived /\ executed' = executed
  BY <1>2 DEF Arrived, portalVars, fanoutVars
<1>10. ArrivedWasTaken' /\ RowsOnceInOrder'
  BY <1>8, <1>9, NothingArrives
<1> QED
  BY <1>6, <1>7, <1>10

(* On its way to the portal's buffer a chunk brings nothing yet. *)
LEMMA UnderwayOrder ==
  ASSUME OrderInv, NEW m \in transit, Relay(m) \/ Find(m)
  PROVE  OneCallEach' /\ CallIsAwaited' /\ ArrivedWasTaken' /\ RowsOnceInOrder'
<1>1. /\ UNCHANGED <<fanoutVars, portalVars>> /\ m.stage = "relay"
      /\ m \in Transit /\ F!Routed(m.at)
  BY WorkFacts DEF Relay, Find, OrderInv, OverlayInv, OnTheWay
<1>2. Arrived' = Arrived /\ executed' = executed
  BY <1>1 DEF Arrived, portalVars, fanoutVars
<1>3. ASSUME NEW l, l.exec = m.exec, l.seq = m.seq, l.try = m.try, l.stage # "pushed",
             work' = work, transit' = (transit \ {m}) \cup {l}
      PROVE  OneCallEach' /\ CallIsAwaited' /\ ArrivedWasTaken' /\ RowsOnceInOrder'
  <2>1. OneCallEach' /\ CallIsAwaited'
    BY <1>3, MovedCall
  <2>2. \A h \in executed : Taken(h)' = Taken(h) /\ Taken(h) \in Nat
    BY <1>1, <1>3, TakenFacts DEF Taken, OrderInv
  <2>3. ArrivedWasTaken' /\ RowsOnceInOrder'
    BY <1>2, <2>2, NothingArrives
  <2> QED
    BY <2>1, <2>3
<1>4. CASE Relay(m)
  <2>1. m.at \in Node \ {Portal}
    BY <1>1, <1>4 DEF Relay, Transit
  <2>2. F!Upstream(m.at) \in Node
    BY <1>1, <2>1, RoutingFacts DEF OrderInv, OverlayInv
  <2>3. work' = work /\ transit' = (transit \ {m}) \cup {[m EXCEPT !.at = F!Upstream(m.at)]}
    BY <1>1, <1>4 DEF Relay
  <2>4. PICK l \in Transit : /\ l = [m EXCEPT !.at = F!Upstream(m.at)]
                             /\ l.exec = m.exec /\ l.seq = m.seq /\ l.try = m.try
                             /\ l.stage = m.stage
    BY <1>1, <2>2, CallMoves
  <2> QED
    BY <1>1, <1>3, <2>3, <2>4
<1>5. CASE Find(m) /\ registered
  <2>1. work' = work /\ transit' = (transit \ {m}) \cup {[m EXCEPT !.stage = "found"]}
    BY <1>5 DEF Find
  <2>2. PICK l \in Transit : /\ l = [m EXCEPT !.stage = "found"]
                             /\ l.exec = m.exec /\ l.seq = m.seq /\ l.try = m.try
                             /\ l.stage = "found"
    BY <1>1, StageMoves
  <2> QED
    BY <1>3, <2>1, <2>2
<1>6. CASE Find(m) /\ ~registered
  <2>1. transit' = transit \ {m} /\ Answer(m)
    BY <1>6 DEF Find
  <2> QED
    BY <1>2, <2>1, AnsweredCall, NothingArrives
<1> QED
  BY <1>4, <1>5, <1>6

(* The rows of a chunk, one by one. *)
LEMMA ChunkRowsFacts ==
  ASSUME NEW n \in Node, NEW seq \in 1..Chunks(n)
  PROVE  LET rows == ChunkOf(n, seq)
             before == (seq - 1) * ChunkRows
         IN  /\ before \in Nat /\ seq * ChunkRows = before + ChunkRows
             /\ Len(rows) <= ChunkRows
             /\ \A i \in 1..Len(rows) : rows[i] = <<n, before + i>>
<1> DEFINE rows == ChunkOf(n, seq)
           before == (seq - 1) * ChunkRows
           len == Lesser(ChunkRows, Rows[n] - before)
<1>1. /\ Rows[n] \in Nat /\ ChunkRows \in Nat \ {0} /\ Chunks(n) \in Nat
      /\ (Chunks(n) - 1) * ChunkRows <= Rows[n]
  BY ChunkNumbers
<1>2. /\ seq - 1 \in Nat /\ Chunks(n) - 1 \in Nat /\ seq - 1 <= Chunks(n) - 1
      /\ (seq - 1) + 1 = seq
  BY <1>1
<1>3. /\ before \in Nat /\ seq * ChunkRows = before + ChunkRows
      /\ before <= (Chunks(n) - 1) * ChunkRows
  BY <1>1, <1>2, Products
<1>4. rows = [i \in 1..len |-> <<n, before + i>>] /\ rows \in Seq(Row)
  BY ChunkFacts DEF ChunkOf
<1> HIDE DEF before, rows
<1>5. Rows[n] - before \in Nat
  BY <1>1, <1>2, <1>3, Products
<1>6. len \in Nat /\ len <= ChunkRows
  BY <1>1, <1>5 DEF Lesser
<1> HIDE DEF len
<1>7. Len(rows) = len
  BY <1>4, <1>6
<1>8. \A i \in 1..len : rows[i] = <<n, before + i>>
  BY <1>4
<1>9. Len(rows) <= ChunkRows /\ \A i \in 1..Len(rows) : rows[i] = <<n, before + i>>
  BY <1>6, <1>7, <1>8
<1> QED
  BY <1>3, <1>9 DEF rows, before

(* A push appends the first rows of its chunk to what has arrived. *)
LEMMA PushArrives ==
  ASSUME OverlayInv, NEW m \in transit, Deposit(m)
  PROVE  LET L == Len(Arrived)
             k == Enqueued(buf, ChunkOf(F!Self(m.exec), m.seq))
             before == (m.seq - 1) * ChunkRows
         IN  /\ L \in Nat /\ k \in Nat /\ before \in Nat
             /\ m.seq * ChunkRows = before + ChunkRows
             /\ Len(Arrived') = L + k /\ k <= ChunkRows
             /\ \A i \in 1..L : Arrived'[i] = Arrived[i]
             /\ \A i \in (L + 1)..(L + k) :
                  /\ Arrived'[i] = <<F!Self(m.exec), before + (i - L)>>
                  /\ Arrived'[i] \in Range(ChunkOf(F!Self(m.exec), m.seq))
<1> DEFINE n == F!Self(m.exec)
           rows == ChunkOf(n, m.seq)
           before == (m.seq - 1) * ChunkRows
           k == Enqueued(buf, rows)
           new == SubSeq(rows, 1, k)
           L == Len(Arrived)
<1>1. received' = received /\ buf' = PushRows(buf, rows)
  BY DEF Deposit
<1>2. n \in Node /\ m.seq \in 1..Chunks(n)
  BY WorkFacts DEF OverlayInv, OnTheWay
<1>3. /\ before \in Nat /\ m.seq * ChunkRows = before + ChunkRows
      /\ Len(rows) <= ChunkRows /\ Len(rows) \in Nat /\ ChunkRows \in Nat
      /\ \A i \in 1..Len(rows) : rows[i] = <<n, before + i>>
      /\ rows \in Seq(Row)
  BY <1>2, ChunkRowsFacts, ChunkFacts, LenProperties, OverlayConstants
<1>4. /\ k \in Nat /\ k <= Len(rows)
      /\ new \in Seq(Row) /\ buf'.q = buf.q \o new
  BY <1>1, <1>3, WorkFacts, EnqueuedFacts, PushFacts
<1>5. k <= ChunkRows /\ \A i \in 1..k : rows[i] \in Range(rows)
  <2>1. Range(rows) = {rows[i] : i \in 1..Len(rows)}
    BY <1>3, RangeEquality
  <2>2. k <= ChunkRows /\ \A i \in 1..k : i \in 1..Len(rows)
    BY <1>3, <1>4
  <2> HIDE DEF rows, k
  <2> QED
    BY <2>1, <2>2
<1> HIDE DEF rows, k, before
<1>6. Len(new) = k /\ \A i \in 1..k : new[i] = <<n, before + i>> /\ new[i] \in Range(rows)
  <2>1. \A i \in 1..k : rows[i] \in Row
    BY <1>3, <1>4, ElementOfSeq
  <2>2. Len(new) = k /\ \A i \in 1..k : new[i] = rows[i]
    BY <1>4, <2>1, SubSeqProperties
  <2>3. \A i \in 1..k : rows[i] = <<n, before + i>>
    BY <1>3, <1>4
  <2> HIDE DEF new, n
  <2> QED
    BY <1>5, <2>2, <2>3
<1> HIDE DEF new, n
<1>7. Arrived \in Seq(Row) /\ L \in Nat
  BY ArrivedFacts, LenProperties
<1>8. Arrived' = Arrived \o new
  <2> DEFINE q == buf.q
  <2>1. received \in Seq(Row) /\ q \in Seq(Row) /\ new \in Seq(Row)
    BY <1>4, WorkFacts
  <2>2. buf'.q = q \o new /\ received' = received /\ Arrived = received \o q
    BY <1>1, <1>4 DEF Arrived
  <2> HIDE DEF q
  <2>3. (received \o q) \o new = received \o (q \o new)
    BY <2>1, ConcatAssociative
  <2> QED
    BY <2>2, <2>3 DEF Arrived
<1>9. /\ Len(Arrived') = L + k
      /\ \A i \in 1..L : Arrived'[i] = Arrived[i]
      /\ \A i \in (L + 1)..(L + k) :
           Arrived'[i] = <<n, before + (i - L)>> /\ Arrived'[i] \in Range(rows)
  <2>1. /\ Len(Arrived \o new) = L + k
        /\ \A i \in 1..(L + k) : (Arrived \o new)[i] = IF i <= L THEN Arrived[i] ELSE new[i - L]
    BY <1>4, <1>6, <1>7, ConcatProperties
  <2>2. \A i \in (L + 1)..(L + k) : i - L \in 1..k /\ i \in 1..(L + k) /\ ~(i <= L)
    BY <1>4, <1>7
  <2>3. \A i \in 1..L : i \in 1..(L + k) /\ i <= L
    BY <1>4, <1>7
  <2> QED
    BY <1>6, <1>8, <2>1, <2>2, <2>3
<1> QED
  BY <1>3, <1>4, <1>5, <1>7, <1>9 DEF n, rows, k, before

(* A push brings rows that come after all those of their producer.          *)
LEMMA DepositOrder ==
  ASSUME OrderInv, NEW m \in transit, Deposit(m)
  PROVE  OneCallEach' /\ CallIsAwaited' /\ ArrivedWasTaken' /\ RowsOnceInOrder'
<1> DEFINE n == F!Self(m.exec)
<1>1. /\ work' = work /\ executed' = executed
      /\ transit' = (transit \ {m}) \cup {[m EXCEPT !.stage = "pushed"]}
      /\ m.stage = "found"
  BY DEF Deposit, fanoutVars
<1>2. /\ m \in Transit /\ n \in Node /\ m.exec \in executed
      /\ m.seq = work[m.exec].seq /\ m.seq \in Nat \ {0} /\ ChunkRows \in Nat
  BY WorkFacts, TakenFacts, OverlayConstants DEF OrderInv, OverlayInv, OnTheWay, CallIsAwaited
<1>3. PICK l \in Transit : /\ l = [m EXCEPT !.stage = "pushed"]
                           /\ l.exec = m.exec /\ l.seq = m.seq /\ l.try = m.try
                           /\ l.stage = "pushed"
  BY <1>2, StageMoves
<1>4. /\ OneCallEach' /\ CallIsAwaited'
      /\ \A h \in executed \ {m.exec} : Taken(h)' = Taken(h)
  BY <1>1, <1>3, MovedCall
<1>5. Taken(m.exec) = m.seq - 1 /\ Taken(m.exec)' = m.seq
  <2>1. ~ \E x \in transit : x.exec = m.exec /\ x.stage = "pushed"
    BY <1>1 DEF OrderInv, OneCallEach
  <2>2. \E x \in transit' : x.exec = m.exec /\ x.stage = "pushed"
    BY <1>1, <1>3
  <2> QED
    BY <1>1, <1>2, <2>1, <2>2 DEF Taken
<1>6. \A h \in executed : Taken(h)' \in Nat /\ Taken(h)' >= Taken(h)
  <2>1. \A h \in executed : Taken(h) \in Nat
    BY TakenFacts DEF OrderInv
  <2>2. Taken(m.exec)' \in Nat /\ Taken(m.exec)' >= Taken(m.exec)
    BY <1>2, <1>5
  <2> QED
    BY <1>4, <2>1, <2>2
<1>a. PICK L \in Nat : L = Len(Arrived)
  BY PushArrives DEF OrderInv
<1>b. PICK k \in Nat : k = Enqueued(buf, ChunkOf(n, m.seq))
  BY PushArrives DEF OrderInv
<1>c. PICK before \in Nat : before = (m.seq - 1) * ChunkRows
  BY PushArrives DEF OrderInv
<1>7. /\ before = (m.seq - 1) * ChunkRows /\ m.seq * ChunkRows = before + ChunkRows
      /\ L = Len(Arrived) /\ Len(Arrived') = L + k /\ k <= ChunkRows
      /\ \A i \in 1..L : Arrived'[i] = Arrived[i]
      /\ \A i \in (L + 1)..(L + k) : Arrived'[i] = <<n, before + (i - L)>>
  BY <1>a, <1>b, <1>c, PushArrives DEF OrderInv
<1>8. \A i \in 1..L : Arrived[i] \in Range(Arrived) /\ Arrived[i][2] \in Nat
  <2>1. Arrived \in Seq(Row) /\ Range(Arrived) = {Arrived[i] : i \in 1..Len(Arrived)}
    BY ArrivedFacts DEF OrderInv
  <2>2. \A i \in 1..L : Arrived[i] \in Row
    BY <1>7, <2>1, ElementOfSeq
  <2> QED
    BY <1>7, <2>1, <2>2 DEF Row
<1>9. \A r \in Range(Arrived) : r[1] = n => r[2] <= before
  <2> SUFFICES ASSUME NEW r \in Range(Arrived), r[1] = n  PROVE r[2] <= before
    OBVIOUS
  <2>1. PICK h \in executed : F!Self(h) = n /\ r[2] <= Taken(h) * ChunkRows
    BY DEF OrderInv, ArrivedWasTaken
  <2>2. h = m.exec
    BY <1>2, <2>1, OneWorkerEach DEF OrderInv
  <2> QED
    BY <1>5, <1>7, <2>1, <2>2
<1> HIDE DEF n
<1>10. RowsOnceInOrder'
  <2> SUFFICES ASSUME NEW i \in 1..(L + k), NEW j \in 1..(L + k),
                      i < j, Arrived'[i][1] = Arrived'[j][1]
               PROVE  Arrived'[i][2] < Arrived'[j][2]
    BY <1>7 DEF RowsOnceInOrder
  <2>1. CASE j <= L
    <3>1. i \in 1..L /\ j \in 1..L
      BY <2>1
    <3> QED
      BY <1>7, <3>1 DEF OrderInv, RowsOnceInOrder
  <2>2. CASE i <= L /\ L < j
    <3>1. i \in 1..L /\ j \in (L + 1)..(L + k)
      BY <2>2
    <3>2. Arrived'[i] = Arrived[i] /\ Arrived'[j] = <<n, before + (j - L)>>
      BY <1>7, <3>1
    <3>3. Arrived[i][2] \in Nat /\ Arrived[i][2] <= before
      BY <1>8, <1>9, <3>1, <3>2
    <3> QED
      BY <2>2, <3>2, <3>3
  <2>3. CASE L < i
    <3>1. i \in (L + 1)..(L + k) /\ j \in (L + 1)..(L + k)
      BY <2>3
    <3>2. Arrived'[i] = <<n, before + (i - L)>> /\ Arrived'[j] = <<n, before + (j - L)>>
      BY <1>7, <3>1
    <3> QED
      BY <3>2
  <2> QED
    BY <2>1, <2>2, <2>3
<1>11. ArrivedWasTaken'
  <2>1. Range(Arrived') = {Arrived'[i] : i \in 1..(L + k)}
    <3>1. OverlayInv' => Arrived' \in Seq(Row)
      BY ConcatProperties DEF OverlayInv, TypeOK, BufferRecord, Arrived
    <3>2. OverlayInv'
      BY DepositOverlay DEF OrderInv
    <3> QED
      BY <1>7, <3>1, <3>2, RangeEquality
  <2>2. ASSUME NEW i \in 1..(L + k)
        PROVE  \E h \in executed' : /\ F!Self(h) = Arrived'[i][1]
                                    /\ Arrived'[i][2] <= Taken(h)' * ChunkRows
    <3>1. CASE i <= L
      <4>1. i \in 1..L
        BY <3>1
      <4>2. Arrived'[i] = Arrived[i] /\ Arrived[i] \in Range(Arrived)
        BY <1>7, <1>8, <4>1
      <4>3. \E h \in executed' : /\ F!Self(h) = Arrived[i][1]
                                 /\ Arrived[i][2] <= Taken(h)' * ChunkRows
        BY <1>1, <1>6, <4>2, StillTaken
      <4> QED
        BY <4>2, <4>3
    <3>2. CASE L < i
      <4>1. i \in (L + 1)..(L + k) /\ before + (i - L) <= before + ChunkRows
        BY <1>2, <1>7, <3>2
      <4>2. Arrived'[i] = <<n, before + (i - L)>>
        BY <1>7, <4>1
      <4>3. Arrived'[i][1] = F!Self(m.exec) /\ Arrived'[i][2] <= Taken(m.exec)' * ChunkRows
        BY <1>5, <1>7, <4>1, <4>2 DEF n
      <4> QED
        BY <1>1, <1>2, <4>3
    <3> QED
      BY <3>1, <3>2
  <2> QED
    BY <2>1, <2>2 DEF ArrivedWasTaken
<1> QED
  BY <1>4, <1>10, <1>11

(* The answer counts the chunk that was pushed. *)
LEMMA MarkOrder ==
  ASSUME OrderInv, NEW m \in transit, Mark(m)
  PROVE  OneCallEach' /\ CallIsAwaited' /\ ArrivedWasTaken' /\ RowsOnceInOrder'
<1>1. /\ UNCHANGED <<fanoutVars, received>> /\ Answer(m) /\ transit' = transit \ {m}
      /\ buf' = buf \/ buf' = MarkProducerDone(buf, F!Self(m.exec))
  BY DEF Mark
<1>2. buf'.q = buf.q
  BY <1>1, WorkFacts DEF OrderInv, MarkProducerDone, BufferRecord
<1>3. Arrived' = Arrived /\ executed' = executed
  BY <1>1, <1>2 DEF Arrived, fanoutVars
<1> QED
  BY <1>1, <1>3, AnsweredCall, NothingArrives

(* The client takes what has arrived in the order it has. *)
LEMMA ClientArrived ==
  ASSUME OverlayInv, ClientStep
  PROVE  Arrived' = Arrived
<1>1. CASE Pop
  <2>1. MaxFetch \in Nat /\ buf \in BufferRecord(Row, Node) /\ received \in Seq(Row)
    BY OverlayConstants, WorkFacts
  <2>2. /\ Popped(buf, MaxFetch) \in Seq(Row)
        /\ PopUpTo(buf, MaxFetch) \in BufferRecord(Row, Node)
        /\ buf.q = Popped(buf, MaxFetch) \o PopUpTo(buf, MaxFetch).q
    BY <2>1, PopFacts
  <2>3. PopUpTo(buf, MaxFetch).q \in Seq(Row)
    BY <2>2 DEF BufferRecord
  <2>4. received' = received \o Popped(buf, MaxFetch) /\ buf'.q = PopUpTo(buf, MaxFetch).q
    BY <1>1 DEF Pop
  <2> DEFINE out == Popped(buf, MaxFetch)
             rest == PopUpTo(buf, MaxFetch).q
  <2>5. /\ out \in Seq(Row) /\ rest \in Seq(Row) /\ buf.q = out \o rest
        /\ received' = received \o out /\ buf'.q = rest
    BY <2>2, <2>3, <2>4
  <2> HIDE DEF out, rest
  <2>6. (received \o out) \o rest = received \o (out \o rest)
    BY <2>1, <2>5, ConcatAssociative
  <2> QED
    BY <2>5, <2>6 DEF Arrived
<1>2. CASE Respond
  BY <1>2 DEF Respond, Arrived
<1> QED
  BY <1>1, <1>2 DEF ClientStep

(* The client disturbs nothing of the calls. *)
LEMMA ClientOrder ==
  ASSUME OrderInv, ClientStep
  PROVE  OneCallEach' /\ CallIsAwaited' /\ ArrivedWasTaken' /\ RowsOnceInOrder'
<1>1. UNCHANGED <<fanoutVars, work, transit>>
  BY DEF ClientStep, Pop, Respond
<1>2. OneCallEach' /\ CallIsAwaited'
  BY <1>1 DEF OrderInv, OneCallEach, CallIsAwaited
<1>3. executed' = executed /\ \A h \in executed : Taken(h)' = Taken(h) /\ Taken(h) \in Nat
  BY <1>1, TakenFacts DEF Taken, OrderInv, fanoutVars
<1>4. Arrived' = Arrived
  BY ClientArrived DEF OrderInv
<1>5. ArrivedWasTaken' /\ RowsOnceInOrder'
  BY <1>3, <1>4, NothingArrives
<1> QED
  BY <1>2, <1>5

(* Nothing has arrived and nobody has been called at the start. *)
LEMMA InitOrder == Init => OrderInv
<1> SUFFICES ASSUME Init PROVE OrderInv
  OBVIOUS
<1>1. OverlayInv
  BY InitOverlay
<1>2. FP!SyncInv
  BY SameFanout, FanoutParameters, FP!InitSyncInv DEF Init
<1>3. transit = {} /\ received = <<>> /\ buf.q = <<>>
  BY DEF Init, NewBuffer
<1>4. Arrived = <<>> /\ Len(Arrived) = 0 /\ Range(Arrived) = {}
  <2>1. Len(<<>>) = 0 /\ <<>> \in Seq(Row) /\ <<>> \o <<>> = <<>>
    BY EmptySeq, ConcatEmptySeq
  <2> QED
    BY <1>3, <2>1 DEF Arrived, Range
<1> QED
  BY <1>1, <1>2, <1>3, <1>4
     DEF OrderInv, OneCallEach, CallIsAwaited, ArrivedWasTaken, RowsOnceInOrder

(* The stronger invariant is inductive while nothing fails. *)
LEMMA NextOrder == NothingFails /\ OrderInv /\ [Next]_vars => OrderInv'
<1> SUFFICES ASSUME NothingFails, OrderInv, [Next]_vars PROVE OrderInv'
  OBVIOUS
<1>1. OverlayInv' /\ FP!SyncInv'
  BY NextOverlay, SyncStays DEF OrderInv, NothingFails
<1>2. OneCallEach' /\ CallIsAwaited' /\ ArrivedWasTaken' /\ RowsOnceInOrder'
  <2>1. CASE FanoutStep
    BY <2>1, FanoutStepOrder
  <2>2. CASE ExecuteStep
    <3>1. PICK h \in executed : Send(h)
      BY <2>2 DEF ExecuteStep, PushFails, NothingFails
    <3> QED
      BY <3>1, SendOrder
  <2>3. CASE PushStep
    BY <2>3, UnderwayOrder, DepositOrder, MarkOrder DEF PushStep
  <2>4. CASE \E m \in transit : Lose(m)
    BY <2>4 DEF Lose, NothingFails
  <2>5. CASE ClientStep
    BY <2>5, ClientOrder
  <2>6. CASE UNCHANGED vars
    <3>1. UNCHANGED <<fanoutVars, portalVars, work, transit>>
      BY <2>6 DEF vars
    <3>2. /\ Arrived' = Arrived /\ executed' = executed
          /\ \A h \in executed : Taken(h)' = Taken(h) /\ Taken(h) \in Nat
      BY <3>1, TakenFacts DEF Arrived, Taken, OrderInv, portalVars, fanoutVars
    <3>3. ArrivedWasTaken' /\ RowsOnceInOrder'
      BY <3>2, NothingArrives
    <3> QED
      BY <3>1, <3>3 DEF OrderInv, OneCallEach, CallIsAwaited
  <2> QED
    BY <2>1, <2>2, <2>3, <2>4, <2>5, <2>6 DEF Next
<1> QED
  BY <1>1, <1>2 DEF OrderInv

(* While no push fails and no deadline expires every row reaches the portal *)
(* at most once, the rows of a producer in the order it emitted them, in    *)
(* every overlay, cyclic or not, and for every chunk size and buffer.       *)
THEOREM RowsArriveOnceInOrder == ASSUME NothingFails PROVE Spec => []RowsOnceInOrder
<1>1. OrderInv => RowsOnceInOrder
  BY DEF OrderInv
<1> QED
  BY <1>1, InitOrder, NextOrder, PTL DEF Spec

-----------------------------------------------------------------------------
(***************************************************************************)
(* With failing pushes a chunk may be sent several times, and nothing       *)
(* compares seq.  Each call of PushChunk brings its rows at most once, so   *)
(* the copies of a row that have arrived and the calls that may still bring *)
(* one are no more than the tries the worker has made.                      *)
(***************************************************************************)
Copies(r) == {i \in DOMAIN Arrived : Arrived[i] = r}

(* The calls for chunk s of worker h that the portal has not pushed yet. *)
Incoming(h, s) == {m \in transit : m.exec = h /\ m.seq = s /\ m.stage # "pushed"}

(* How often h has sent chunk s, at most. *)
Tried(h, s) ==
  IF s < work[h].seq THEN Tries
  ELSE IF s > work[h].seq THEN 0
  ELSE IF work[h].waiting THEN work[h].try ELSE work[h].try - 1

TriesWithin == \A h \in executed : work[h].try \in 1..Tries

ArrivedWasSent ==
  \A i \in DOMAIN Arrived :
    \E h \in executed : \E s \in 1..Chunks(F!Self(h)) :
      Arrived[i] \in Range(ChunkOf(F!Self(h), s))

CopiesCounted ==
  \A h \in executed : \A s \in 1..Chunks(F!Self(h)) :
    \A r \in Range(ChunkOf(F!Self(h), s)) :
      Cardinality(Copies(r)) + Cardinality(Incoming(h, s)) <= Tried(h, s)

CopyInv ==
  /\ OverlayInv /\ FP!SyncInv
  /\ IsFiniteSet(transit) /\ TriesWithin
  /\ ArrivedWasSent /\ CopiesCounted

(* The numbers in this. *)
LEMMA CountFacts ==
  ASSUME OverlayInv, IsFiniteSet(transit), TriesWithin
  PROVE  /\ \A r : IsFiniteSet(Copies(r)) /\ Cardinality(Copies(r)) \in Nat
         /\ \A h, s : IsFiniteSet(Incoming(h, s)) /\ Cardinality(Incoming(h, s)) \in Nat
         /\ \A h \in executed : \A s \in Nat : Tried(h, s) \in 0..Tries
<1>1. Arrived \in Seq(Row)
  BY ArrivedFacts
<1>2. DOMAIN Arrived = 1..Len(Arrived) /\ Len(Arrived) \in Nat
  BY <1>1, LenProperties
<1>3. IsFiniteSet(DOMAIN Arrived)
  BY <1>2, FS_Interval
<1>4. ASSUME NEW r  PROVE IsFiniteSet(Copies(r)) /\ Cardinality(Copies(r)) \in Nat
  <2>1. Copies(r) \subseteq DOMAIN Arrived
    BY DEF Copies
  <2>2. IsFiniteSet(Copies(r))
    BY <1>3, <2>1, FS_Subset
  <2> QED
    BY <2>2, FS_CardinalityType
<1>5. ASSUME NEW h, NEW s
      PROVE  IsFiniteSet(Incoming(h, s)) /\ Cardinality(Incoming(h, s)) \in Nat
  <2>1. Incoming(h, s) \subseteq transit
    BY DEF Incoming
  <2>2. IsFiniteSet(Incoming(h, s))
    BY <2>1, FS_Subset
  <2> QED
    BY <2>2, FS_CardinalityType
<1>6. ASSUME NEW h \in executed, NEW s \in Nat  PROVE Tried(h, s) \in 0..Tries
  <2>1. work[h].seq \in Nat /\ work[h].try \in 1..Tries /\ Tries \in Nat
    BY WorkFacts, OverlayConstants DEF TriesWithin, Work
  <2> QED
    BY <2>1 DEF Tried
<1> QED
  BY <1>4, <1>5, <1>6

(* Adding one element to part of a finite set. *)
LEMMA AtMostOneMore ==
  ASSUME NEW S, IsFiniteSet(S), NEW T, NEW x, T \subseteq S \cup {x}
  PROVE  /\ IsFiniteSet(T) /\ Cardinality(T) <= Cardinality(S) + 1
         /\ T \subseteq S => Cardinality(T) <= Cardinality(S)
<1>1. /\ IsFiniteSet(S \cup {x}) /\ Cardinality(S) \in Nat
      /\ Cardinality(S \cup {x}) <= Cardinality(S) + 1
  <2>1. /\ IsFiniteSet(S \cup {x})
        /\ Cardinality(S \cup {x}) = IF x \in S THEN Cardinality(S) ELSE Cardinality(S) + 1
    BY FS_AddElement
  <2>2. Cardinality(S) \in Nat
    BY FS_CardinalityType
  <2> QED
    BY <2>1, <2>2
<1>2. IsFiniteSet(T) /\ Cardinality(T) <= Cardinality(S \cup {x})
  BY <1>1, FS_Subset
<1>3. T \subseteq S => Cardinality(T) <= Cardinality(S)
  BY FS_Subset
<1>4. Cardinality(T) \in Nat /\ Cardinality(S \cup {x}) \in Nat
  BY <1>1, <1>2, FS_CardinalityType
<1> QED
  BY <1>1, <1>2, <1>3, <1>4

(* Exchanging one element for another. *)
LEMMA Exchanged ==
  ASSUME NEW S, IsFiniteSet(S), NEW y \in S, NEW x, NEW T, T \subseteq (S \ {y}) \cup {x}
  PROVE  Cardinality(T) <= Cardinality(S)
<1>1. /\ IsFiniteSet(S \ {y}) /\ Cardinality(S \ {y}) = Cardinality(S) - 1
      /\ Cardinality(S) \in Nat
  BY FS_RemoveElement, FS_CardinalityType
<1>2. Cardinality(T) <= Cardinality(S \ {y}) + 1 /\ IsFiniteSet(T)
  BY <1>1, AtMostOneMore
<1>3. Cardinality(T) \in Nat
  BY <1>2, FS_CardinalityType
<1> QED
  BY <1>1, <1>2, <1>3

(* Steps after which the same rows have arrived, and no call is new but for *)
(* a try that is counted.                                                   *)
LEMMA SameCopies ==
  ASSUME CopyInv, OverlayInv', Arrived' = Arrived, executed' = executed,
         IsFiniteSet(transit'), TriesWithin',
         \A h \in executed : \A s \in 1..Chunks(F!Self(h)) :
           Cardinality(Incoming(h, s)') + Tried(h, s) <= Cardinality(Incoming(h, s)) + Tried(h, s)'
  PROVE  ArrivedWasSent' /\ CopiesCounted'
<1>1. ArrivedWasSent'
  BY DEF CopyInv, ArrivedWasSent
<1>2. CopiesCounted'
  <2> SUFFICES ASSUME NEW h \in executed, NEW s \in 1..Chunks(F!Self(h)),
                      NEW r \in Range(ChunkOf(F!Self(h), s))
               PROVE  Cardinality(Copies(r)') + Cardinality(Incoming(h, s)') <= Tried(h, s)'
    BY DEF CopiesCounted
  <2>1. Copies(r)' = Copies(r)
    BY DEF Copies
  <2>2. Cardinality(Copies(r)) + Cardinality(Incoming(h, s)) <= Tried(h, s)
    BY DEF CopyInv, CopiesCounted
  <2>3. Cardinality(Incoming(h, s)') + Tried(h, s) <= Cardinality(Incoming(h, s)) + Tried(h, s)'
    OBVIOUS
  <2>4. s \in Nat
    <3>1. Chunks(F!Self(h)) \in Nat
      BY WorkFacts, ChunkNumbers DEF CopyInv
    <3> QED
      BY <3>1
  <2>5. /\ Cardinality(Copies(r)) \in Nat /\ Cardinality(Incoming(h, s)) \in Nat
        /\ Tried(h, s) \in Int
    <3>1. Tried(h, s) \in 0..Tries
      BY <2>4, CountFacts DEF CopyInv
    <3> QED
      BY <3>1, CountFacts, OverlayConstants DEF CopyInv
  <2>6. Cardinality(Incoming(h, s)') \in Nat
    <3>1. Incoming(h, s)' \subseteq transit'
      BY DEF Incoming
    <3> QED
      BY <3>1, FS_Subset, FS_CardinalityType
  <2>7. Tried(h, s)' \in Int
    <3>1. work'[h].seq \in Nat /\ work'[h].try \in 1..Tries /\ Tries \in Nat
      BY OverlayConstants DEF OverlayInv, TypeOK, Work, TriesWithin
    <3> QED
      BY <2>4, <3>1 DEF Tried
  <2> DEFINE c == Cardinality(Copies(r))
             a == Cardinality(Incoming(h, s))
             b == Cardinality(Incoming(h, s)')
             t == Tried(h, s)
             u == Tried(h, s)'
  <2>8. /\ c \in Nat /\ a \in Nat /\ b \in Nat /\ t \in Int /\ u \in Int
        /\ c + a <= t /\ b + t <= a + u
    BY <2>2, <2>3, <2>5, <2>6, <2>7
  <2> HIDE DEF c, a, b, t, u
  <2>9. c + b <= u
    BY <2>8
  <2> QED
    BY <2>1, <2>9 DEF c, b, u
<1> QED
  BY <1>1, <1>2

(* A worker that goes on to its next chunk has used up no more tries than   *)
(* it may.                                                                  *)
LEMMA GoesOn ==
  ASSUME CopyInv, NEW h \in executed, work'[h].seq = work[h].seq + 1, work'[h].try = 1,
         ~work'[h].waiting, NEW s \in Nat
  PROVE  Tried(h, s)' >= Tried(h, s)
<1>1. /\ work[h].seq \in Nat /\ work[h].try \in 1..Tries /\ Tries \in Nat
  BY WorkFacts, OverlayConstants DEF CopyInv, TriesWithin, Work
<1>2. Tried(h, s)' = IF s < work[h].seq + 1 THEN Tries ELSE 0
  <2>1. 1 - 1 = 0
    OBVIOUS
  <2> QED
    BY <1>1 DEF Tried
<1>3. Tried(h, s) <= IF s < work[h].seq + 1 THEN Tries ELSE 0
  BY <1>1 DEF Tried
<1>4. Tried(h, s) \in 0..Tries
  BY CountFacts DEF CopyInv
<1> QED
  BY <1>1, <1>2, <1>3, <1>4

(* An answer leaves the tries within their bound, and uses none up.         *)
LEMMA AnswerTries ==
  ASSUME CopyInv, NEW m \in transit, Answer(m), executed' = executed
  PROVE  /\ TriesWithin'
         /\ \A h \in executed : \A s \in Nat : Tried(h, s)' >= Tried(h, s)
<1> DEFINE w == work[m.exec]
<1>1. /\ work \in [executed -> Work] /\ m.exec \in executed /\ Tries \in Nat \ {0}
      /\ \A h \in executed : work[h].seq \in Nat /\ work[h].try \in 1..Tries
  BY WorkFacts, OverlayConstants DEF CopyInv, OverlayInv, TypeOK, TriesWithin, Work
<1>2. \A h \in executed : \A s \in Nat : Tried(h, s) \in 0..Tries
  BY CountFacts DEF CopyInv
<1>3. CASE work' = work
  <2>1. \A h \in executed : \A s \in Nat : Tried(h, s)' = Tried(h, s)
    BY <1>3 DEF Tried
  <2>2. TriesWithin'
    BY <1>1, <1>3 DEF TriesWithin
  <2> QED
    BY <1>1, <1>2, <2>1, <2>2
<1>4. CASE work' = [work EXCEPT ![m.exec] = [seq |-> w.seq + 1, try |-> 1, waiting |-> FALSE]]
  <2>1. /\ work'[m.exec].seq = w.seq + 1 /\ work'[m.exec].try = 1 /\ ~work'[m.exec].waiting
        /\ \A h \in executed \ {m.exec} : work'[h] = work[h]
    BY <1>1, <1>4
  <2>2. \A s \in Nat : Tried(m.exec, s)' >= Tried(m.exec, s)
    BY <1>1, <2>1, GoesOn
  <2>3. \A h \in executed \ {m.exec} : \A s \in Nat : Tried(h, s)' = Tried(h, s)
    BY <2>1 DEF Tried
  <2>4. ASSUME NEW h \in executed, NEW s \in Nat  PROVE Tried(h, s)' >= Tried(h, s)
    <3>1. CASE h = m.exec
      BY <2>2, <3>1
    <3>2. CASE h # m.exec
      <4>1. Tried(h, s)' = Tried(h, s) /\ Tried(h, s) \in 0..Tries
        BY <1>2, <2>3, <3>2
      <4> QED
        BY <1>1, <4>1
    <3> QED
      BY <3>1, <3>2
  <2>5. TriesWithin'
    BY <1>1, <2>1 DEF TriesWithin
  <2> QED
    BY <2>4, <2>5
<1> QED
  BY <1>3, <1>4 DEF Answer

(* A call that moves on is as many calls as before. *)
LEMMA MovedIncoming ==
  ASSUME CopyInv, NEW m \in transit, m.stage # "pushed",
         NEW l, l.exec = m.exec, l.seq = m.seq, transit' = (transit \ {m}) \cup {l}
  PROVE  /\ IsFiniteSet(transit')
         /\ \A h, s : Cardinality(Incoming(h, s)') <= Cardinality(Incoming(h, s))
<1>1. IsFiniteSet(transit')
  BY AtMostOneMore DEF CopyInv
<1>2. ASSUME NEW h, NEW s
      PROVE  Cardinality(Incoming(h, s)') <= Cardinality(Incoming(h, s))
  <2>1. IsFiniteSet(Incoming(h, s))
    BY CountFacts DEF CopyInv
  <2>2. CASE h = m.exec /\ s = m.seq
    <3>1. m \in Incoming(h, s) /\ Incoming(h, s)' \subseteq (Incoming(h, s) \ {m}) \cup {l}
      BY <2>2 DEF Incoming
    <3> QED
      BY <2>1, <3>1, Exchanged
  <2>3. CASE ~(h = m.exec /\ s = m.seq)
    <3>1. Incoming(h, s)' \subseteq Incoming(h, s)
      BY <2>3 DEF Incoming
    <3> QED
      BY <2>1, <3>1, FS_Subset
  <2> QED
    BY <2>2, <2>3
<1> QED
  BY <1>1, <1>2

(* A call that ends is one less, if it still counted. *)
LEMMA FewerIncoming ==
  ASSUME CopyInv, transit' \subseteq transit
  PROVE  /\ IsFiniteSet(transit')
         /\ \A h, s : Cardinality(Incoming(h, s)') <= Cardinality(Incoming(h, s))
<1>1. IsFiniteSet(transit')
  BY FS_Subset DEF CopyInv
<1>2. ASSUME NEW h, NEW s
      PROVE  Cardinality(Incoming(h, s)') <= Cardinality(Incoming(h, s))
  <2>1. IsFiniteSet(Incoming(h, s))
    BY CountFacts DEF CopyInv
  <2>2. Incoming(h, s)' \subseteq Incoming(h, s)
    BY DEF Incoming
  <2> QED
    BY <2>1, <2>2, FS_Subset
<1> QED
  BY <1>1, <1>2

(* Both together: neither more calls nor fewer tries. *)
LEMMA NoMoreCalls ==
  ASSUME CopyInv, OverlayInv', Arrived' = Arrived, executed' = executed,
         IsFiniteSet(transit'), TriesWithin',
         \A h, s : Cardinality(Incoming(h, s)') <= Cardinality(Incoming(h, s)),
         \A h \in executed : \A s \in Nat : Tried(h, s)' >= Tried(h, s)
  PROVE  ArrivedWasSent' /\ CopiesCounted'
<1>1. ASSUME NEW h \in executed, NEW s \in 1..Chunks(F!Self(h))
      PROVE  Cardinality(Incoming(h, s)') + Tried(h, s) <= Cardinality(Incoming(h, s)) + Tried(h, s)'
  <2>1. s \in Nat
    <3>1. Chunks(F!Self(h)) \in Nat
      BY WorkFacts, ChunkNumbers DEF CopyInv
    <3> QED
      BY <3>1
  <2>2. /\ Cardinality(Incoming(h, s)) \in Nat /\ Cardinality(Incoming(h, s)') \in Nat
    <3>1. Incoming(h, s)' \subseteq transit'
      BY DEF Incoming
    <3>2. IsFiniteSet(Incoming(h, s)')
      BY <3>1, FS_Subset
    <3> QED
      BY <3>2, CountFacts, FS_CardinalityType DEF CopyInv
  <2>3. Tried(h, s) \in Int /\ Tried(h, s)' \in Int
    <3>1. Tried(h, s) \in 0..Tries /\ Tries \in Nat
      BY <2>1, CountFacts, OverlayConstants DEF CopyInv
    <3>2. work'[h].seq \in Nat /\ work'[h].try \in 1..Tries
      BY DEF OverlayInv, TypeOK, Work, TriesWithin
    <3>3. Tried(h, s)' \in Int
      BY <2>1, <3>1, <3>2 DEF Tried
    <3> QED
      BY <3>1, <3>3
  <2>4. Tried(h, s)' >= Tried(h, s) /\ Cardinality(Incoming(h, s)') <= Cardinality(Incoming(h, s))
    BY <2>1
  <2> QED
    BY <2>2, <2>3, <2>4
<1> QED
  BY <1>1, SameCopies

(* A worker that starts has sent nothing, and its node had no other. *)
LEMMA FanoutStepCopies ==
  ASSUME CopyInv, FP!SyncInv', FanoutStep
  PROVE  IsFiniteSet(transit') /\ TriesWithin' /\ ArrivedWasSent' /\ CopiesCounted'
<1>1. executed \subseteq executed'
  BY FanoutAdds DEF CopyInv, OverlayInv, FanoutStep
<1>2. transit' = transit /\ received' = received
  BY DEF FanoutStep
<1>3. \A h \in executed' : work'[h] = IF h \in executed THEN work[h]
                                      ELSE [seq |-> 1, try |-> 1, waiting |-> FALSE]
  BY DEF FanoutStep
<1>4. Arrived' = Arrived
  <2>1. buf' = [buf EXCEPT !.done = @ \cup (doneEarly' \ doneEarly)] /\ buf \in BufferRecord(Row, Node)
    BY WorkFacts DEF FanoutStep, CopyInv
  <2>2. buf'.q = buf.q
    BY <2>1 DEF BufferRecord
  <2> QED
    BY <1>2, <2>2 DEF Arrived
<1>5. IsFiniteSet(transit')
  BY <1>2 DEF CopyInv
<1>6. TriesWithin'
  BY <1>3, OverlayConstants DEF CopyInv, TriesWithin
<1>7. ArrivedWasSent'
  BY <1>1, <1>4 DEF CopyInv, ArrivedWasSent
<1>8. CopiesCounted'
  <2> SUFFICES ASSUME NEW h \in executed', NEW s \in 1..Chunks(F!Self(h)),
                      NEW r \in Range(ChunkOf(F!Self(h), s))
               PROVE  Cardinality(Copies(r)') + Cardinality(Incoming(h, s)') <= Tried(h, s)'
    BY DEF CopiesCounted
  <2>1. Copies(r)' = Copies(r) /\ Incoming(h, s)' = Incoming(h, s)
    BY <1>2, <1>4 DEF Copies, Incoming
  <2>2. CASE h \in executed
    <3>1. Tried(h, s)' = Tried(h, s)
      BY <1>3, <2>2 DEF Tried
    <3> QED
      BY <2>1, <2>2, <3>1 DEF CopyInv, CopiesCounted
  <2>3. CASE h \notin executed
    <3>1. Incoming(h, s) = {}
      BY <2>3, WorkFacts DEF CopyInv, Incoming
    <3>2. F!Self(h) \in Node
      <4>1. executed' \subseteq calls' /\ calls' \subseteq Seq(Node)
        BY DEF FP!SyncInv, FP!RouteInv, FP!TypeOK, FP!Path
      <4>2. \A g \in calls' : Len(g) >= 1
        BY DEF FP!SyncInv, FP!RouteInv, FP!CallShape
      <4> QED
        BY <4>1, <4>2 DEF F!Self
    <3>3. r[1] = F!Self(h)
      BY <3>2, ChunkFacts DEF RowsOf
    <3>4. ASSUME NEW i \in Copies(r)  PROVE FALSE
      <4>1. PICK g \in executed : \E t \in 1..Chunks(F!Self(g)) : r \in Range(ChunkOf(F!Self(g), t))
        BY <3>4 DEF CopyInv, ArrivedWasSent, Copies
      <4>2. F!Self(g) \in Node
        BY WorkFacts DEF CopyInv
      <4>3. r[1] = F!Self(g)
        BY <4>1, <4>2, ChunkFacts DEF RowsOf
      <4>4. route'[F!Self(g)] = g /\ route'[F!Self(h)] = h
        <5>1. /\ g \in calls' /\ h \in calls'
              /\ pc'[g] = "accepted" /\ pc'[h] = "accepted"
          BY <1>1 DEF FP!SyncInv, FP!OwnRoute, FP!RouteInv, FP!TypeOK
        <5> QED
          BY <5>1 DEF FP!SyncInv, FP!OwnRoute, FP!Holding, FP!Self, F!Self
      <4> QED
        BY <2>3, <3>3, <4>3, <4>4
    <3>5. Cardinality(Copies(r)) = 0 /\ Cardinality(Incoming(h, s)) = 0
      BY <3>1, <3>4, FS_EmptySet
    <3>6. Tried(h, s)' = 0
      <4>1. s \in Nat \ {0}
        <5>1. Chunks(F!Self(h)) \in Nat
          BY <3>2, ChunkNumbers
        <5> QED
          BY <5>1
      <4>2. work'[h].seq = 1 /\ work'[h].try = 1 /\ work'[h].waiting = FALSE
        BY <1>3, <2>3
      <4> QED
        BY <4>1, <4>2 DEF Tried
    <3> QED
      BY <2>1, <3>5, <3>6
  <2> QED
    BY <2>2, <2>3
<1> QED
  BY <1>5, <1>6, <1>7, <1>8

(* Each try is one call. *)
LEMMA SendCopies ==
  ASSUME CopyInv, OverlayInv', NEW h \in executed, Send(h)
  PROVE  IsFiniteSet(transit') /\ TriesWithin' /\ ArrivedWasSent' /\ CopiesCounted'
<1>1. PICK m : /\ m.exec = h /\ m.seq = work[h].seq /\ m.stage = "relay"
               /\ transit' = transit \cup {m}
  <2>1. PICK m : m = [exec |-> h, seq |-> work[h].seq, try |-> work[h].try, stage |-> "relay",
                      at |-> IF h = F!Root THEN Portal ELSE F!From(h)]
    OBVIOUS
  <2>2. transit' = transit \cup {m}
    BY <2>1 DEF Send
  <2> QED
    BY <2>1, <2>2
<1>2. /\ UNCHANGED <<fanoutVars, portalVars>> /\ ~work[h].waiting
      /\ work' = [work EXCEPT ![h].waiting = TRUE]
  BY DEF Send
<1>3. /\ work \in [executed -> Work]
      /\ \A g \in executed : work[g].seq \in Nat /\ work[g].try \in 1..Tries
      /\ Tries \in Nat
  BY WorkFacts, OverlayConstants DEF CopyInv, OverlayInv, TypeOK, TriesWithin, Work
<1>4. /\ work'[h].seq = work[h].seq /\ work'[h].try = work[h].try /\ work'[h].waiting
      /\ \A g \in executed \ {h} : work'[g] = work[g]
  BY <1>2, <1>3 DEF Work
<1>5. IsFiniteSet(transit')
  BY <1>1, AtMostOneMore DEF CopyInv
<1>6. executed' = executed /\ Arrived' = Arrived
  BY <1>2 DEF Arrived, fanoutVars, portalVars
<1>7. TriesWithin'
  BY <1>3, <1>4, <1>6 DEF TriesWithin
<1>8. ASSUME NEW g \in executed, NEW s \in 1..Chunks(F!Self(g))
      PROVE  Cardinality(Incoming(g, s)') + Tried(g, s) <= Cardinality(Incoming(g, s)) + Tried(g, s)'
  <2>1. s \in Nat
    <3>1. Chunks(F!Self(g)) \in Nat
      BY WorkFacts, ChunkNumbers DEF CopyInv
    <3> QED
      BY <3>1
  <2>2. /\ IsFiniteSet(Incoming(g, s)) /\ Cardinality(Incoming(g, s)) \in Nat
        /\ Tried(g, s) \in 0..Tries
    BY <2>1, CountFacts DEF CopyInv
  <2>3. Incoming(g, s)' \subseteq Incoming(g, s) \cup {m}
    BY <1>1 DEF Incoming
  <2>4. /\ Cardinality(Incoming(g, s)') <= Cardinality(Incoming(g, s)) + 1
        /\ IsFiniteSet(Incoming(g, s)')
    BY <2>2, <2>3, AtMostOneMore
  <2>5. Cardinality(Incoming(g, s)') \in Nat
    BY <2>4, FS_CardinalityType
  <2>6. CASE g = h /\ s = work[h].seq
    <3>1. Tried(g, s)' = Tried(g, s) + 1
      BY <1>2, <1>3, <1>4, <2>1, <2>6 DEF Tried
    <3> QED
      BY <1>3, <2>2, <2>4, <2>5, <3>1
  <2>7. CASE ~(g = h /\ s = work[h].seq)
    <3>1. Incoming(g, s)' = Incoming(g, s)
      BY <1>1, <2>7 DEF Incoming
    <3>2. Tried(g, s)' = Tried(g, s)
      <4>1. CASE g = h
        BY <1>3, <1>4, <2>1, <2>7, <4>1 DEF Tried
      <4>2. CASE g # h
        BY <1>4, <4>2 DEF Tried
      <4> QED
        BY <4>1, <4>2
    <3> QED
      BY <1>3, <2>2, <3>1, <3>2
  <2> QED
    BY <2>6, <2>7
<1>9. ArrivedWasSent' /\ CopiesCounted'
  BY <1>5, <1>6, <1>7, <1>8, SameCopies
<1> QED
  BY <1>5, <1>7, <1>9

(* A failed try has been counted when it was sent. *)
LEMMA PushFailsCopies ==
  ASSUME CopyInv, OverlayInv', NEW h \in executed, PushFails(h)
  PROVE  IsFiniteSet(transit') /\ TriesWithin' /\ ArrivedWasSent' /\ CopiesCounted'
<1> DEFINE w == work[h]
<1>1. UNCHANGED <<fanoutVars, buf, registered, client, received, transit>> /\ w.waiting
  BY DEF PushFails
<1>2. /\ work \in [executed -> Work] /\ w \in Work /\ Tries \in Nat \ {0}
      /\ \A g \in executed : work[g].seq \in Nat /\ work[g].try \in 1..Tries
  BY WorkFacts, OverlayConstants DEF CopyInv, OverlayInv, TypeOK, TriesWithin, Work
<1>3. executed' = executed /\ Arrived' = Arrived
  BY <1>1 DEF Arrived, fanoutVars
<1>4. /\ IsFiniteSet(transit')
      /\ \A g, s : Cardinality(Incoming(g, s)') <= Cardinality(Incoming(g, s))
  BY <1>1, FewerIncoming
<1>5. \A g \in executed : \A s \in Nat : Tried(g, s) \in 0..Tries
  BY CountFacts DEF CopyInv
<1>6. /\ work'[h].try \in 1..Tries /\ \A g \in executed \ {h} : work'[g] = work[g]
      /\ \A s \in Nat : Tried(h, s)' >= Tried(h, s)
  <2>1. CASE w.try < Tries
    <3>1. work' = [work EXCEPT ![h] = [w EXCEPT !.try = @ + 1, !.waiting = FALSE]]
      BY <2>1 DEF PushFails
    <3>2. /\ work'[h].try = w.try + 1 /\ work'[h].seq = w.seq /\ ~work'[h].waiting
          /\ \A g \in executed \ {h} : work'[g] = work[g]
      <4> HIDE DEF w
      <4> QED
        BY <1>2, <3>1 DEF Work
    <3>3. w.seq \in Nat /\ w.try \in 1..Tries
      BY <1>2
    <3>4. ASSUME NEW s \in Nat  PROVE Tried(h, s)' = Tried(h, s)
      <4>1. w.try + 1 - 1 = w.try
        BY <3>3
      <4> QED
        BY <1>1, <3>2, <3>3, <4>1 DEF Tried
    <3>5. work'[h].try \in 1..Tries
      BY <1>2, <2>1, <3>2, <3>3
    <3> QED
      BY <1>2, <1>5, <3>2, <3>4, <3>5
  <2>2. CASE ~(w.try < Tries)
    <3>1. work' = [work EXCEPT ![h] = [seq |-> w.seq + 1, try |-> 1, waiting |-> FALSE]]
      BY <2>2 DEF PushFails
    <3>2. /\ work'[h].try = 1 /\ work'[h].seq = work[h].seq + 1 /\ ~work'[h].waiting
          /\ \A g \in executed \ {h} : work'[g] = work[g]
      BY <1>2, <3>1
    <3>3. \A s \in Nat : Tried(h, s)' >= Tried(h, s)
      BY <3>2, GoesOn
    <3> QED
      BY <1>2, <3>2, <3>3
  <2> QED
    BY <2>1, <2>2
<1>7. ASSUME NEW g \in executed, NEW s \in Nat  PROVE Tried(g, s)' >= Tried(g, s)
  <2>1. CASE g = h
    BY <1>6, <2>1
  <2>2. CASE g # h
    <3>1. Tried(g, s)' = Tried(g, s)
      BY <1>6, <2>2 DEF Tried
    <3> QED
      BY <1>2, <1>5, <3>1
  <2> QED
    BY <2>1, <2>2
<1>8. TriesWithin'
  BY <1>2, <1>3, <1>6 DEF TriesWithin
<1>9. ArrivedWasSent' /\ CopiesCounted'
  BY <1>3, <1>4, <1>7, <1>8, NoMoreCalls
<1> QED
  BY <1>4, <1>8, <1>9

(* A call on its way is moved, or answered when the query is over. *)
LEMMA UnderwayCopies ==
  ASSUME CopyInv, OverlayInv', NEW m \in transit, Relay(m) \/ Find(m)
  PROVE  IsFiniteSet(transit') /\ TriesWithin' /\ ArrivedWasSent' /\ CopiesCounted'
<1>1. /\ UNCHANGED <<fanoutVars, portalVars>> /\ m.stage = "relay"
      /\ m \in Transit /\ F!Routed(m.at)
  BY WorkFacts DEF Relay, Find, CopyInv, OverlayInv, OnTheWay
<1>2. Arrived' = Arrived /\ executed' = executed
  BY <1>1 DEF Arrived, portalVars, fanoutVars
<1>3. ASSUME NEW l, l.exec = m.exec, l.seq = m.seq,
             work' = work, transit' = (transit \ {m}) \cup {l}
      PROVE  IsFiniteSet(transit') /\ TriesWithin' /\ ArrivedWasSent' /\ CopiesCounted'
  <2>1. /\ IsFiniteSet(transit')
        /\ \A h, s : Cardinality(Incoming(h, s)') <= Cardinality(Incoming(h, s))
    BY <1>1, <1>3, MovedIncoming
  <2>2. TriesWithin'
    BY <1>2, <1>3 DEF CopyInv, TriesWithin
  <2>3. \A h \in executed : \A s \in Nat : Tried(h, s)' >= Tried(h, s)
    <3>1. \A h \in executed : \A s \in Nat : Tried(h, s) \in 0..Tries /\ Tried(h, s)' = Tried(h, s)
      BY <1>3, CountFacts DEF CopyInv, Tried
    <3> QED
      BY <3>1, OverlayConstants
  <2> QED
    BY <1>2, <2>1, <2>2, <2>3, NoMoreCalls
<1>4. CASE Relay(m)
  <2>1. m.at \in Node \ {Portal}
    BY <1>1, <1>4 DEF Relay, Transit
  <2>2. F!Upstream(m.at) \in Node
    BY <1>1, <2>1, RoutingFacts DEF CopyInv, OverlayInv
  <2>3. work' = work /\ transit' = (transit \ {m}) \cup {[m EXCEPT !.at = F!Upstream(m.at)]}
    BY <1>1, <1>4 DEF Relay
  <2>4. PICK l \in Transit : /\ l = [m EXCEPT !.at = F!Upstream(m.at)]
                             /\ l.exec = m.exec /\ l.seq = m.seq
    BY <1>1, <2>2, CallMoves
  <2> QED
    BY <1>3, <2>3, <2>4
<1>5. CASE Find(m) /\ registered
  <2>1. work' = work /\ transit' = (transit \ {m}) \cup {[m EXCEPT !.stage = "found"]}
    BY <1>5 DEF Find
  <2>2. PICK l \in Transit : /\ l = [m EXCEPT !.stage = "found"]
                             /\ l.exec = m.exec /\ l.seq = m.seq
    BY <1>1, StageMoves
  <2> QED
    BY <1>3, <2>1, <2>2
<1>6. CASE Find(m) /\ ~registered
  <2>1. transit' \subseteq transit /\ Answer(m)
    BY <1>6 DEF Find
  <2> QED
    BY <1>2, <2>1, FewerIncoming, AnswerTries, NoMoreCalls
<1> QED
  BY <1>4, <1>5, <1>6

(* The last step of the portal's handler answers the call. *)
LEMMA MarkCopies ==
  ASSUME CopyInv, OverlayInv', NEW m \in transit, Mark(m)
  PROVE  IsFiniteSet(transit') /\ TriesWithin' /\ ArrivedWasSent' /\ CopiesCounted'
<1>1. /\ UNCHANGED <<fanoutVars, received>> /\ Answer(m) /\ transit' \subseteq transit
      /\ buf' = buf \/ buf' = MarkProducerDone(buf, F!Self(m.exec))
  BY DEF Mark
<1>2. buf'.q = buf.q
  BY <1>1, WorkFacts DEF CopyInv, MarkProducerDone, BufferRecord
<1>3. Arrived' = Arrived /\ executed' = executed
  BY <1>1, <1>2 DEF Arrived, fanoutVars
<1> QED
  BY <1>1, <1>3, FewerIncoming, AnswerTries, NoMoreCalls

(* Steps of neither the workers nor the portal's handler. *)
LEMMA IdleCopies ==
  ASSUME CopyInv, OverlayInv', work' = work, executed' = executed,
         Arrived' = Arrived, transit' \subseteq transit
  PROVE  IsFiniteSet(transit') /\ TriesWithin' /\ ArrivedWasSent' /\ CopiesCounted'
<1>1. /\ IsFiniteSet(transit')
      /\ \A h, s : Cardinality(Incoming(h, s)') <= Cardinality(Incoming(h, s))
  BY FewerIncoming
<1>2. TriesWithin'
  BY DEF CopyInv, TriesWithin
<1>3. \A h \in executed : \A s \in Nat : Tried(h, s)' >= Tried(h, s)
  <2>1. \A h \in executed : \A s \in Nat : Tried(h, s) \in 0..Tries /\ Tried(h, s)' = Tried(h, s)
    BY CountFacts DEF CopyInv, Tried
  <2> QED
    BY <2>1, OverlayConstants
<1> QED
  BY <1>1, <1>2, <1>3, NoMoreCalls

(* Where the rows of a chunk lie among those of their producer. *)
LEMMA ChunkBounds ==
  ASSUME NEW n \in Node, NEW s \in 1..Chunks(n), NEW r \in Range(ChunkOf(n, s))
  PROVE  /\ r[1] = n /\ r[2] \in Nat
         /\ (s - 1) * ChunkRows < r[2] /\ r[2] <= s * ChunkRows
<1> DEFINE rows == ChunkOf(n, s)
           before == (s - 1) * ChunkRows
<1>1. /\ rows \in Seq(Row) /\ ChunkRows \in Nat /\ before \in Nat
      /\ s * ChunkRows = before + ChunkRows /\ Len(rows) <= ChunkRows
      /\ \A i \in 1..Len(rows) : rows[i] = <<n, before + i>>
  BY ChunkFacts, ChunkRowsFacts, OverlayConstants
<1> HIDE DEF rows, before
<1>2. Range(rows) = {rows[i] : i \in 1..Len(rows)} /\ Len(rows) \in Nat
  BY <1>1, RangeEquality, LenProperties
<1>3. PICK i \in 1..Len(rows) : r = rows[i]
  BY <1>2 DEF rows
<1>4. r[1] = n /\ r[2] = before + i
  BY <1>1, <1>3
<1>5. r[2] \in Nat /\ before < r[2] /\ r[2] <= before + ChunkRows
  BY <1>1, <1>2, <1>4
<1> QED
  BY <1>1, <1>4, <1>5 DEF before

(* No row is in two chunks. *)
LEMMA ChunksDisjoint ==
  ASSUME NEW n \in Node, NEW s \in 1..Chunks(n), NEW t \in 1..Chunks(n),
         NEW r \in Range(ChunkOf(n, s)), r \in Range(ChunkOf(n, t))
  PROVE  s = t
<1>1. Chunks(n) \in Nat /\ ChunkRows \in Nat \ {0}
  BY ChunkNumbers
<1>2. ASSUME NEW a \in 1..Chunks(n), NEW b \in 1..Chunks(n), a < b,
             r \in Range(ChunkOf(n, a)), r \in Range(ChunkOf(n, b))
      PROVE  FALSE
  <2>1. a \in Nat /\ b - 1 \in Nat /\ a <= b - 1
    BY <1>1, <1>2
  <2> DEFINE x == a * ChunkRows
             y == (b - 1) * ChunkRows
  <2>2. x \in Nat /\ y \in Nat /\ x <= y
    BY <1>1, <2>1, Products
  <2>3. r[2] \in Nat /\ r[2] <= x
    BY <1>2, ChunkBounds
  <2>4. y < r[2]
    BY <1>2, ChunkBounds
  <2> HIDE DEF x, y
  <2> QED
    BY <2>2, <2>3, <2>4
<1>3. ~(s < t) /\ ~(t < s)
  BY <1>2
<1> QED
  BY <1>1, <1>3

(* What a push adds to the copies of a row: one, if it is of the chunk.     *)
LEMMA DepositedCopies ==
  ASSUME CopyInv, OverlayInv', NEW m \in transit, Deposit(m),
         NEW h \in executed, NEW s \in 1..Chunks(F!Self(h)),
         NEW r \in Range(ChunkOf(F!Self(h), s))
  PROVE  /\ \E x : Copies(r)' \subseteq Copies(r) \cup {x}
         /\ ~(h = m.exec /\ s = m.seq) => Copies(r)' \subseteq Copies(r)
<1> DEFINE n == F!Self(m.exec)
<1>a. PICK L \in Nat : L = Len(Arrived)
  BY PushArrives DEF CopyInv
<1>b. PICK k \in Nat : k = Enqueued(buf, ChunkOf(n, m.seq))
  BY PushArrives DEF CopyInv
<1>c. PICK before \in Nat : before = (m.seq - 1) * ChunkRows
  BY PushArrives DEF CopyInv
<1>1. /\ Len(Arrived') = L + k
      /\ \A i \in 1..L : Arrived'[i] = Arrived[i]
      /\ \A i \in (L + 1)..(L + k) :
           Arrived'[i] = <<n, before + (i - L)>> /\ Arrived'[i] \in Range(ChunkOf(n, m.seq))
  BY <1>a, <1>b, <1>c, PushArrives DEF CopyInv
<1>2. DOMAIN Arrived = 1..L /\ DOMAIN Arrived' = 1..(L + k)
  <2>1. Arrived \in Seq(Row)
    BY ArrivedFacts DEF CopyInv
  <2>2. Arrived' \in Seq(Row)
    BY ConcatProperties DEF OverlayInv, TypeOK, BufferRecord, Arrived
  <2> QED
    BY <1>a, <1>1, <2>1, <2>2, LenProperties
<1>3. ASSUME NEW i \in Copies(r)', i \notin Copies(r)
      PROVE  i \in (L + 1)..(L + k) /\ Arrived'[i] = r
  <2>1. i \in 1..(L + k) /\ Arrived'[i] = r
    BY <1>2, <1>3 DEF Copies
  <2>2. i \notin 1..L
    BY <1>1, <1>2, <1>3, <2>1 DEF Copies
  <2> QED
    BY <2>1, <2>2
<1>4. \A i \in Copies(r)' : i \in Copies(r) \/ i = (r[2] - before) + L
  <2> SUFFICES ASSUME NEW i \in Copies(r)', i \notin Copies(r)
               PROVE  i = (r[2] - before) + L
    OBVIOUS
  <2>1. i \in (L + 1)..(L + k) /\ r = <<n, before + (i - L)>>
    BY <1>1, <1>3
  <2>2. r[2] = before + (i - L)
    BY <2>1
  <2> QED
    BY <2>1, <2>2
<1>5. ASSUME ~(h = m.exec /\ s = m.seq), NEW i \in Copies(r)', i \notin Copies(r)
      PROVE  FALSE
  <2>1. r \in Range(ChunkOf(n, m.seq))
    BY <1>1, <1>3, <1>5
  <2>2. /\ n \in Node /\ F!Self(h) \in Node /\ m.exec \in executed
        /\ m.seq \in 1..Chunks(n)
    BY WorkFacts DEF CopyInv, OverlayInv, OnTheWay
  <2> HIDE DEF n
  <2>3. r[1] = n
    BY <2>1, <2>2, ChunkBounds
  <2>4. r[1] = F!Self(h)
    BY <2>2, ChunkBounds
  <2>5. h = m.exec
    BY <2>2, <2>3, <2>4, OneWorkerEach DEF n, CopyInv
  <2>6. s \in 1..Chunks(n) /\ r \in Range(ChunkOf(n, s))
    BY <2>5 DEF n
  <2>7. s = m.seq
    BY <2>1, <2>2, <2>6, ChunksDisjoint
  <2> QED
    BY <1>5, <2>5, <2>7
<1> QED
  BY <1>4, <1>5

(* A push turns a call into copies of its rows. *)
LEMMA DepositCopies ==
  ASSUME CopyInv, OverlayInv', NEW m \in transit, Deposit(m)
  PROVE  IsFiniteSet(transit') /\ TriesWithin' /\ ArrivedWasSent' /\ CopiesCounted'
<1>1. /\ work' = work /\ executed' = executed
      /\ transit' = (transit \ {m}) \cup {[m EXCEPT !.stage = "pushed"]}
      /\ m.stage = "found"
  BY DEF Deposit, fanoutVars
<1>2. /\ m \in Transit /\ m.exec \in executed /\ F!Self(m.exec) \in Node
      /\ m.seq \in 1..Chunks(F!Self(m.exec))
  BY WorkFacts DEF CopyInv, OverlayInv, OnTheWay
<1>3. PICK l \in Transit : /\ l = [m EXCEPT !.stage = "pushed"]
                           /\ l.exec = m.exec /\ l.seq = m.seq /\ l.stage = "pushed"
  BY <1>2, StageMoves
<1>4. IsFiniteSet(transit')
  BY <1>1, AtMostOneMore DEF CopyInv
<1>5. TriesWithin'
  BY <1>1 DEF CopyInv, TriesWithin
<1>6. ArrivedWasSent'
  <2>a. PICK L \in Nat : L = Len(Arrived)
    BY PushArrives DEF CopyInv
  <2>b. PICK k \in Nat : k = Enqueued(buf, ChunkOf(F!Self(m.exec), m.seq))
    BY PushArrives DEF CopyInv
  <2>1. /\ Len(Arrived') = L + k
        /\ \A i \in 1..L : Arrived'[i] = Arrived[i]
        /\ \A i \in (L + 1)..(L + k) : Arrived'[i] \in Range(ChunkOf(F!Self(m.exec), m.seq))
    BY <2>a, <2>b, PushArrives DEF CopyInv
  <2>2. DOMAIN Arrived = 1..L /\ DOMAIN Arrived' = 1..(L + k)
    <3>1. Arrived \in Seq(Row)
      BY ArrivedFacts DEF CopyInv
    <3>2. Arrived' \in Seq(Row)
      BY ConcatProperties DEF OverlayInv, TypeOK, BufferRecord, Arrived
    <3> QED
      BY <2>a, <2>1, <3>1, <3>2, LenProperties
  <2> SUFFICES ASSUME NEW i \in 1..(L + k)
               PROVE  \E h \in executed : \E s \in 1..Chunks(F!Self(h)) :
                        Arrived'[i] \in Range(ChunkOf(F!Self(h), s))
    BY <1>1, <2>2 DEF ArrivedWasSent
  <2>3. CASE i \in 1..L
    BY <2>1, <2>2, <2>3 DEF CopyInv, ArrivedWasSent
  <2>4. CASE i \notin 1..L
    <3>1. i \in (L + 1)..(L + k)
      BY <2>4
    <3> QED
      BY <1>2, <2>1, <3>1
  <2> QED
    BY <2>3, <2>4
<1>7. CopiesCounted'
  <2> SUFFICES ASSUME NEW h \in executed, NEW s \in 1..Chunks(F!Self(h)),
                      NEW r \in Range(ChunkOf(F!Self(h), s))
               PROVE  Cardinality(Copies(r)') + Cardinality(Incoming(h, s)') <= Tried(h, s)'
    BY <1>1 DEF CopiesCounted
  <2>1. Cardinality(Copies(r)) + Cardinality(Incoming(h, s)) <= Tried(h, s)
    BY DEF CopyInv, CopiesCounted
  <2>2. Tried(h, s)' = Tried(h, s) /\ Tried(h, s) \in Int
    <3>1. Chunks(F!Self(h)) \in Nat
      BY WorkFacts, ChunkNumbers DEF CopyInv
    <3>2. s \in Nat
      BY <3>1
    <3>3. Tried(h, s) \in 0..Tries
      BY <3>2, CountFacts DEF CopyInv
    <3> QED
      BY <1>1, <3>3, OverlayConstants DEF Tried
  <2>3. /\ IsFiniteSet(Copies(r)) /\ Cardinality(Copies(r)) \in Nat
        /\ IsFiniteSet(Incoming(h, s)) /\ Cardinality(Incoming(h, s)) \in Nat
    BY CountFacts DEF CopyInv
  <2>4. Incoming(h, s)' \subseteq Incoming(h, s) \ {m}
    BY <1>1, <1>3 DEF Incoming
  <2>5. IsFiniteSet(Incoming(h, s)') /\ Cardinality(Incoming(h, s)') \in Nat
    BY <2>3, <2>4, FS_Subset, FS_CardinalityType
  <2>6. CASE h = m.exec /\ s = m.seq
    <3>1. m \in Incoming(h, s)
      BY <1>1, <2>6 DEF Incoming
    <3>2. Cardinality(Incoming(h, s)') <= Cardinality(Incoming(h, s)) - 1
      <4>1. /\ IsFiniteSet(Incoming(h, s) \ {m})
            /\ Cardinality(Incoming(h, s) \ {m}) = Cardinality(Incoming(h, s)) - 1
        BY <2>3, <3>1, FS_RemoveElement
      <4>2. Cardinality(Incoming(h, s)') <= Cardinality(Incoming(h, s) \ {m})
        BY <2>4, <4>1, FS_Subset
      <4> QED
        BY <4>1, <4>2
    <3>3. PICK x : Copies(r)' \subseteq Copies(r) \cup {x}
      BY DepositedCopies
    <3>4. /\ IsFiniteSet(Copies(r)')
          /\ Cardinality(Copies(r)') <= Cardinality(Copies(r)) + 1
      BY <2>3, <3>3, AtMostOneMore
    <3>5. Cardinality(Copies(r)') \in Nat
      BY <3>4, FS_CardinalityType
    <3> QED
      BY <2>1, <2>2, <2>3, <2>5, <3>2, <3>4, <3>5
  <2>7. CASE ~(h = m.exec /\ s = m.seq)
    <3>1. Copies(r)' \subseteq Copies(r)
      BY <2>7, DepositedCopies
    <3>2. /\ IsFiniteSet(Copies(r)')
          /\ Cardinality(Copies(r)') <= Cardinality(Copies(r))
      BY <2>3, <3>1, FS_Subset
    <3>3. Cardinality(Copies(r)') \in Nat
      BY <3>2, FS_CardinalityType
    <3>4. Cardinality(Incoming(h, s)') <= Cardinality(Incoming(h, s))
      BY <2>3, <2>4, FS_Subset
    <3> QED
      BY <2>1, <2>2, <2>3, <2>5, <3>2, <3>3, <3>4
  <2> QED
    BY <2>6, <2>7
<1> QED
  BY <1>4, <1>5, <1>6, <1>7

(* Nobody has sent anything at the start. *)
LEMMA InitCopies == Init => CopyInv
<1> SUFFICES ASSUME Init PROVE CopyInv
  OBVIOUS
<1>1. OverlayInv
  BY InitOverlay
<1>2. FP!SyncInv
  BY SameFanout, FanoutParameters, FP!InitSyncInv DEF Init
<1>3. transit = {} /\ executed = {} /\ received = <<>> /\ buf.q = <<>>
  BY DEF Init, NewBuffer, F!Init
<1>4. IsFiniteSet(transit)
  BY <1>3, FS_EmptySet
<1>5. DOMAIN Arrived = {}
  <2>1. Len(<<>>) = 0 /\ <<>> \in Seq(Row) /\ <<>> \o <<>> = <<>>
    BY EmptySeq, ConcatEmptySeq
  <2>2. Arrived = <<>>
    BY <1>3, <2>1 DEF Arrived
  <2> QED
    BY <2>1, <2>2
<1> QED
  BY <1>1, <1>2, <1>3, <1>4, <1>5 DEF CopyInv, TriesWithin, ArrivedWasSent, CopiesCounted

(* Calls and copies stay within the tries while no deadline expires in the  *)
(* fan-out, so that every node has one worker.                              *)
LEMMA NextCopies == DeadlinesExpire = FALSE /\ CopyInv /\ [Next]_vars => CopyInv'
<1> SUFFICES ASSUME DeadlinesExpire = FALSE, CopyInv, [Next]_vars PROVE CopyInv'
  OBVIOUS
<1>1. OverlayInv'
  BY NextOverlay DEF CopyInv
<1>2. FP!SyncInv'
  BY SyncStays DEF CopyInv
<1>3. IsFiniteSet(transit') /\ TriesWithin' /\ ArrivedWasSent' /\ CopiesCounted'
  <2>1. CASE FanoutStep
    BY <1>2, <2>1, FanoutStepCopies
  <2>2. CASE ExecuteStep
    BY <1>1, <2>2, SendCopies, PushFailsCopies DEF ExecuteStep
  <2>3. CASE PushStep
    BY <1>1, <2>3, UnderwayCopies, DepositCopies, MarkCopies DEF PushStep
  <2>4. CASE \E m \in transit : Lose(m)
    <3>1. /\ UNCHANGED <<fanoutVars, portalVars, work>>
          /\ transit' \subseteq transit
      BY <2>4 DEF Lose
    <3>2. Arrived' = Arrived /\ executed' = executed
      BY <3>1 DEF Arrived, portalVars, fanoutVars
    <3> QED
      BY <1>1, <3>1, <3>2, IdleCopies
  <2>5. CASE ClientStep
    <3>1. UNCHANGED <<fanoutVars, work, transit>>
      BY <2>5 DEF ClientStep, Pop, Respond
    <3>2. Arrived' = Arrived /\ executed' = executed
      BY <2>5, <3>1, ClientArrived DEF CopyInv, fanoutVars
    <3> QED
      BY <1>1, <3>1, <3>2, IdleCopies
  <2>6. CASE UNCHANGED vars
    <3>1. UNCHANGED <<fanoutVars, portalVars, work, transit>>
      BY <2>6 DEF vars
    <3>2. Arrived' = Arrived /\ executed' = executed
      BY <3>1 DEF Arrived, portalVars, fanoutVars
    <3> QED
      BY <1>1, <3>1, <3>2, IdleCopies
  <2> QED
    BY <2>1, <2>2, <2>3, <2>4, <2>5, <2>6 DEF Next
<1> QED
  BY <1>1, <1>2, <1>3 DEF CopyInv

(* However pushes fail, overtake each other or arrive after their caller    *)
(* gave up, no row reaches the portal more often than executeLocal may send *)
(* it.  (A deadline in the fan-out can give a node two workers, and each of *)
(* them its own tries.)                                                     *)
THEOREM CopiesAreBounded == ASSUME DeadlinesExpire = FALSE PROVE Spec => []CopiesBounded
<1>1. CopyInv => CopiesBounded
  <2> SUFFICES ASSUME CopyInv, NEW k \in DOMAIN Arrived
               PROVE  Cardinality({i \in DOMAIN Arrived : Arrived[i] = Arrived[k]}) <= Tries
    BY DEF CopiesBounded
  <2> DEFINE r == Arrived[k]
  <2>1. PICK h \in executed :
          \E s \in 1..Chunks(F!Self(h)) : r \in Range(ChunkOf(F!Self(h), s))
    BY DEF CopyInv, ArrivedWasSent
  <2>2. PICK s \in 1..Chunks(F!Self(h)) : r \in Range(ChunkOf(F!Self(h), s))
    BY <2>1
  <2>3. Cardinality(Copies(r)) + Cardinality(Incoming(h, s)) <= Tried(h, s)
    BY <2>2 DEF CopyInv, CopiesCounted
  <2>4. s \in Nat
    <3>1. Chunks(F!Self(h)) \in Nat
      BY WorkFacts, ChunkNumbers DEF CopyInv
    <3> QED
      BY <3>1
  <2>5. /\ Cardinality(Copies(r)) \in Nat /\ Cardinality(Incoming(h, s)) \in Nat
        /\ Tried(h, s) \in 0..Tries /\ Tries \in Nat
    BY <2>4, CountFacts, OverlayConstants DEF CopyInv
  <2>6. Cardinality(Copies(r)) <= Tries
    BY <2>3, <2>5
  <2> QED
    BY <2>6 DEF Copies
<1> QED
  BY <1>1, InitCopies, NextCopies, PTL DEF Spec
=============================================================================
