---------------------------- MODULE PortalProofs ----------------------------
(***************************************************************************)
(* Proofs about the portal's sessions (Portal) for any number of requests,  *)
(* nodes and queries, every buffer and cache, and every choice of chunk     *)
(* sizes.  A step of a handler, of a client or of the janitor touches one   *)
(* request, so what is invariant is said request by request.                *)
(***************************************************************************)
EXTENDS Portal, OpsProofs

-----------------------------------------------------------------------------
(* The size of a fetch, for every configuration and every pace.             *)

(* Min and Max of FiniteSetsExt choose; of two numbers Min is the lesser. *)
LEMMA MinOfTwo ==
  ASSUME NEW a \in Int, NEW b \in Int
  PROVE  Min({a, b}) = IF a <= b THEN a ELSE b
<1> DEFINE m == IF a <= b THEN a ELSE b
<1>1. m \in {a, b} /\ \A y \in {a, b} : m <= y
  OBVIOUS
<1>2. ASSUME NEW x \in {a, b}, \A y \in {a, b} : x <= y  PROVE x = m
  BY <1>2
<1>3. (CHOOSE x \in {a, b} : \A y \in {a, b} : x =< y) = m
  BY <1>1, <1>2
<1> QED
  BY <1>3 DEF Min

(* ... and Max the greater. *)
LEMMA MaxOfTwo ==
  ASSUME NEW a \in Int, NEW b \in Int
  PROVE  Max({a, b}) = IF a >= b THEN a ELSE b
<1> DEFINE m == IF a >= b THEN a ELSE b
<1>1. m \in {a, b} /\ \A y \in {a, b} : m >= y
  OBVIOUS
<1>2. ASSUME NEW x \in {a, b}, \A y \in {a, b} : x >= y  PROVE x = m
  BY <1>2
<1>3. (CHOOSE x \in {a, b} : \A y \in {a, b} : x >= y) = m
  BY <1>1, <1>2
<1> QED
  BY <1>3 DEF Max

(* What the pace makes of a suggestion is a number, also when it wraps. *)
LEMMA MovedIsNat ==
  ASSUME NEW s \in Nat, NEW pace
  PROVE  Moved(s, pace) \in Nat
<1> USE ChunkConstants
<1>1. Grown(s) \in Nat
  BY MinOfTwo DEF Grown
<1>2. (Word + s - s \div 4 - 1) % Word \in Nat
  OBVIOUS
<1>3. Shrunk(s) \in Nat
  BY <1>2, MaxOfTwo DEF Shrunk
<1> QED
  BY <1>1, <1>3 DEF Moved

(* The suggestion a fetch leaves keeps to min_chunk_rows .. max_chunk_rows, *)
(* wherever it stood before.                                                *)
LEMMA SuggestionKeepsBounds ==
  ASSUME NEW s \in Nat, NEW pace, MinChunk <= MaxChunk
  PROVE  Suggestion(s, pace) \in MinChunk..MaxChunk
<1> USE ChunkConstants
<1>1. Moved(s, pace) \in Nat
  BY MovedIsNat
<1> DEFINE floored == Max({MinChunk, Moved(s, pace)})
<1>2. floored \in Nat /\ floored >= MinChunk
  BY <1>1, MaxOfTwo
<1>3. Suggestion(s, pace) = Min({MaxChunk, floored})
  BY DEF Suggestion
<1> HIDE DEF floored
<1>4. Min({MaxChunk, floored}) = IF MaxChunk <= floored THEN MaxChunk ELSE floored
  BY <1>2, MinOfTwo
<1> QED
  BY <1>2, <1>3, <1>4

(* A fetch after recordFetch asks popUpTo for at least one row and at most  *)
(* max_chunk_rows, whatever its client wants (FetchChunk, NodeServer.cpp).  *)
THEOREM AskedIsPositive ==
  ASSUME NEW s \in Nat, NEW pace, NEW want \in Nat,
         MinChunk > 0, MinChunk <= MaxChunk
  PROVE  Asked(want, Suggestion(s, pace)) \in 1..MaxChunk
<1> USE ChunkConstants
<1>1. Suggestion(s, pace) \in MinChunk..MaxChunk
  BY SuggestionKeepsBounds
<1> DEFINE wish == IF want = 0 THEN Suggestion(s, pace) ELSE want
<1>2. wish \in Nat /\ wish > 0
  BY <1>1
<1>3. Asked(want, Suggestion(s, pace)) = Min({MaxChunk, wish})
  BY DEF Asked
<1> HIDE DEF wish
<1>4. Min({MaxChunk, wish}) = IF MaxChunk <= wish THEN MaxChunk ELSE wish
  BY <1>2, MinOfTwo
<1> QED
  BY <1>2, <1>3, <1>4

-----------------------------------------------------------------------------

Buffers == BufferRecord(Row, Node \cup {CacheProducer})

-----------------------------------------------------------------------------
(* The values of the state.                                                 *)

(* What the types say of one request. *)
LEMMA TypeFacts ==
  ASSUME TypeOK, NEW r \in Rid
  PROVE  /\ req[r] \in Request /\ req[r].buf \in Buffers /\ req[r].query \in Query
         /\ Len(req[r].accum) <= CacheMaxRows
         /\ fetch[r] \in Fetch /\ told[r] \in Seq(Row)
         /\ work[r] \in Work /\ hist[r] \in History
  BY DEF TypeOK, Request, Buffers

(* A request that was issued is one of the bounded model's. *)
LEMMA IssuedAreRids ==
  ASSUME TypeOK
  PROVE  Issued \subseteq Rid /\ issued \in Nat /\ NoRid \notin Rid
  BY PortalConstants DEF TypeOK, Issued, Rid, NoRid

(* Whatever the pace, a suggestion fits its word. *)
LEMMA SuggestionType ==
  ASSUME NEW s \in Nat, NEW pace
  PROVE  Suggestion(s, pace) \in 0..(Word - 1)
<1>0. MinChunk \in Nat /\ MaxChunk \in Nat /\ Word \in Nat /\ MaxChunk < Word
  <2>1. MaxChunk \in Nat /\ MaxChunk + MaxChunk \div 4 + 1 < Word /\ Word \in Nat
    BY ChunkConstants
  <2>2. MaxChunk \div 4 \in Nat
    BY <2>1
  <2>3. MinChunk \in Nat
    BY ChunkConstants
  <2> QED
    BY <2>1, <2>2, <2>3
<1>1. /\ Moved(s, pace) \in Nat /\ MinChunk \in Nat /\ MaxChunk \in Nat /\ Word \in Nat
      /\ MaxChunk < Word
  BY <1>0, MovedIsNat
<1> DEFINE floored == Max({MinChunk, Moved(s, pace)})
<1>2. floored \in Nat
  BY <1>1, MaxOfTwo
<1>3. Suggestion(s, pace) = Min({MaxChunk, floored})
  BY DEF Suggestion
<1> HIDE DEF floored
<1>4. Min({MaxChunk, floored}) = IF MaxChunk <= floored THEN MaxChunk ELSE floored
  BY <1>1, <1>2, MinOfTwo
<1> QED
  BY <1>1, <1>2, <1>3, <1>4

(* FetchChunk asks the buffer for a number of rows. *)
LEMMA AskedType ==
  ASSUME NEW want \in Nat, NEW s \in Nat
  PROVE  Asked(want, s) \in Nat
<1> DEFINE n == IF want = 0 THEN s ELSE want
<1>1. n \in Nat /\ MaxChunk \in Nat
  BY ChunkConstants
<1>2. Asked(want, s) = Min({MaxChunk, n})
  BY DEF Asked
<1> HIDE DEF n
<1> QED
  BY <1>1, <1>2, MinOfTwo

(* A new buffer, empty, for so many producers. *)
LEMMA NewBufferType ==
  ASSUME NEW n \in Nat
  PROVE  /\ NewBuffer(Capacity, n) \in Buffers
         /\ NewBuffer(Capacity, n).q = <<>> /\ ~NewBuffer(Capacity, n).canceled
         /\ NewBuffer(Capacity, n).capacity = Capacity
         /\ NewBuffer(Capacity, n).expected = n
         /\ NewBuffer(Capacity, n).done = {} /\ NewBuffer(Capacity, n).started = {}
  BY PortalConstants, EmptySeq DEF NewBuffer, Buffers, BufferRecord

(* A request that is no request any more. *)
LEMMA BlankType ==
  ASSUME NEW q \in Query, NEW b \in Buffers, NEW c \in BOOLEAN
  PROVE  /\ [Blank EXCEPT !.query = q, !.collect = c, !.buf = b] \in Request
         /\ [Blank EXCEPT !.query = q, !.buf = b] \in Request
         /\ [Blank EXCEPT !.query = q] \in Request /\ Blank \in Request
         /\ Blank.accum = <<>> /\ Len(Blank.accum) <= CacheMaxRows
<1>1. NewBuffer(Capacity, 0) \in Buffers
  BY NewBufferType
<1>2. <<>> \in Seq(Row) /\ Len(<<>>) = 0 /\ CacheMaxRows \in Nat
  BY EmptySeq, PortalConstants
<1>3. InitialChunk \in 0..(Word - 1)
  BY ChunkConstants
<1>4. (CHOOSE x \in Query : TRUE) \in Query
  BY PortalConstants
<1>5. Blank \in Request /\ Blank.accum = <<>>
  BY <1>1, <1>2, <1>3, <1>4 DEF Blank, Request, Buffers
<1>6. [Blank EXCEPT !.query = q, !.collect = c, !.buf = b] \in Request
  BY <1>5 DEF Request, Buffers
<1>7. [Blank EXCEPT !.query = q, !.buf = b] \in Request
  BY <1>5 DEF Request, Buffers
<1>8. [Blank EXCEPT !.query = q] \in Request
  BY <1>5 DEF Request, Buffers
<1> QED
  BY <1>2, <1>5, <1>6, <1>7, <1>8

(* What is stored in one request is stored there only. *)
LEMMA ReqUpdate ==
  ASSUME TypeOK, NEW r \in Rid, NEW st \in Request, Len(st.accum) <= CacheMaxRows,
         req' = [req EXCEPT ![r] = st]
  PROVE  /\ req' \in [Rid -> Request] /\ \A x \in Rid : Len(req'[x].accum) <= CacheMaxRows
         /\ req'[r] = st /\ \A x \in Rid \ {r} : req'[x] = req[x]
  BY DEF TypeOK

(* Another buffer in a request. *)
LEMMA BufUpdate ==
  ASSUME NEW st \in Request, NEW b \in Buffers
  PROVE  /\ [st EXCEPT !.buf = b] \in Request
         /\ [st EXCEPT !.buf = b].buf = b
         /\ [st EXCEPT !.buf = b].query = st.query
         /\ [st EXCEPT !.buf = b].collect = st.collect
         /\ [st EXCEPT !.buf = b].accum = st.accum
         /\ [st EXCEPT !.buf = b].idle = st.idle
         /\ [st EXCEPT !.buf = b].chunk = st.chunk
  BY DEF Request, Buffers

(* A step that changes the buffer of one request. *)
LEMMA BufStep ==
  ASSUME TypeOK, NEW r \in Rid, NEW b \in Buffers, req' = [req EXCEPT ![r].buf = b]
  PROVE  /\ req' \in [Rid -> Request] /\ \A x \in Rid : Len(req'[x].accum) <= CacheMaxRows
         /\ req'[r].buf = b /\ req'[r].query = req[r].query
         /\ req'[r].collect = req[r].collect /\ req'[r].accum = req[r].accum
         /\ req'[r].chunk = req[r].chunk
         /\ \A x \in Rid \ {r} : req'[x] = req[x]
<1> DEFINE st == [req[r] EXCEPT !.buf = b]
<1>1. req[r] \in Request /\ Len(req[r].accum) <= CacheMaxRows
  BY TypeFacts
<1>2. /\ st \in Request /\ st.buf = b /\ st.query = req[r].query
      /\ st.collect = req[r].collect /\ st.accum = req[r].accum /\ st.chunk = req[r].chunk
  BY <1>1, BufUpdate
<1>3. req' = [req EXCEPT ![r] = st]
  OBVIOUS
<1> HIDE DEF st
<1>4. /\ req' \in [Rid -> Request] /\ \A x \in Rid : Len(req'[x].accum) <= CacheMaxRows
      /\ req'[r] = st /\ \A x \in Rid \ {r} : req'[x] = req[x]
  BY <1>1, <1>2, <1>3, ReqUpdate
<1> QED
  BY <1>2, <1>4

(* A step of the client or of its handler. *)
LEMMA FetchUpdate ==
  ASSUME TypeOK, NEW r \in Rid, NEW f \in Fetch, fetch' = [fetch EXCEPT ![r] = f]
  PROVE  /\ fetch' \in [Rid -> Fetch]
         /\ fetch'[r] = f /\ \A x \in Rid \ {r} : fetch'[x] = fetch[x]
  BY DEF TypeOK

(* What forgetting a request leaves of it. *)
LEMMA ForgetFacts ==
  ASSUME TypeOK, NEW r \in Rid, Forget(r)
  PROVE  /\ req' \in [Rid -> Request] /\ \A x \in Rid : Len(req'[x].accum) <= CacheMaxRows
         /\ work' \in [Rid -> Work]
         /\ req'[r] = [Blank EXCEPT !.query = req[r].query] /\ work'[r] = NoWork
         /\ req'[r].query = req[r].query /\ req'[r].buf = NewBuffer(Capacity, 0)
         /\ \A x \in Rid \ {r} : req'[x] = req[x] /\ work'[x] = work[x]
<1> DEFINE st == [Blank EXCEPT !.query = req[r].query]
<1>1. req[r].query \in Query
  BY TypeFacts
<1>2. st \in Request /\ st.accum = Blank.accum
  BY <1>1, BlankType, NewBufferType DEF Blank
<1>3. Len(st.accum) <= CacheMaxRows
  BY <1>1, <1>2, BlankType, NewBufferType
<1>4. st.query = req[r].query /\ st.buf = NewBuffer(Capacity, 0)
  BY DEF Blank
<1>5. req' = [req EXCEPT ![r] = st] /\ work' = [work EXCEPT ![r] = NoWork]
  BY DEF Forget
<1>6. NoWork \in Work
  BY DEF NoWork, WorkAt, Work
<1>7. /\ work' \in [Rid -> Work]
      /\ work'[r] = NoWork /\ \A x \in Rid \ {r} : work'[x] = work[x]
  BY <1>5, <1>6 DEF TypeOK
<1> HIDE DEF st
<1>8. /\ req' \in [Rid -> Request] /\ \A x \in Rid : Len(req'[x].accum) <= CacheMaxRows
      /\ req'[r] = st /\ \A x \in Rid \ {r} : req'[x] = req[x]
  BY <1>2, <1>3, <1>5, ReqUpdate
<1> QED
  BY <1>4, <1>7, <1>8 DEF st

-----------------------------------------------------------------------------
(* What each step does to its request, and that it keeps the types.         *)

(* The step is about r. *)
Others(r) ==
  \A x \in Rid \ {r} : /\ req'[x] = req[x] /\ fetch'[x] = fetch[x]
                        /\ work'[x] = work[x] /\ told'[x] = told[x]
                        /\ hist'[x] = hist[x]

(* A step that leaves the list of requests and the cache alone keeps the    *)
(* types if what it stores is typed.                                        *)
LEMMA TypesStay ==
  ASSUME TypeOK, issued' = issued, cache' = cache,
         req' \in [Rid -> Request], \A x \in Rid : Len(req'[x].accum) <= CacheMaxRows,
         registered' \subseteq registered, raced' \subseteq Issued,
         work' \in [Rid -> Work], fetch' \in [Rid -> Fetch], told' \in [Rid -> Seq(Row)],
         hist' \in [Rid -> History],
         janitor' \in [todo : SUBSET Issued, at : Issued \cup {NoRid}]
  PROVE  TypeOK'
  BY DEF TypeOK, Issued

(* A step of the fan-out or of a node: the rows new come to the queue, and  *)
(* what is written down about r's execution only grows.                     *)
Brings(r, new) ==
  /\ TypeOK' /\ Others(r)
  /\ UNCHANGED <<issued, registered, cache, janitor, raced, told>>
  /\ new \in Seq(Row)
  /\ fetch'[r].pc = fetch[r].pc /\ fetch'[r].rows = fetch[r].rows
  /\ fetch'[r].canceled = fetch[r].canceled /\ fetch'[r].late = fetch[r].late
  /\ req'[r].query = req[r].query /\ req'[r].chunk = req[r].chunk
  /\ req'[r].collect = req[r].collect /\ req'[r].accum = req[r].accum
  /\ req'[r].buf.q = req[r].buf.q \o new
  /\ req'[r].buf.canceled = req[r].buf.canceled
  /\ req'[r].buf.expected = req[r].buf.expected
  /\ hist'[r].source = hist[r].source /\ hist[r].early \subseteq hist'[r].early
  /\ hist[r].missed \subseteq hist'[r].missed /\ hist[r].again \subseteq hist'[r].again

(* The rows that pushRows enqueues. *)
Enters(b, rows) == SubSeq(rows, 1, Enqueued(b, rows))

(* A chunk of n rows, the first of them after so many. *)
LEMMA ChunkFacts ==
  ASSUME TypeOK, NEW r \in Issued, NEW p \in Node, NEW from \in Nat, NEW n \in Nat
  PROVE  /\ Chunk(r, p, from, n) \in Seq(Row) /\ Len(Chunk(r, p, from, n)) = n
         /\ \A i \in 1..n : Chunk(r, p, from, n)[i] = <<req[r].query, p, from + i>>
<1>1. r \in Rid /\ req[r].query \in Query
  BY IssuedAreRids, TypeFacts
<1> QED
  BY <1>1 DEF Chunk, Row

(* The state of a request's node. *)
LEMMA NodeFacts ==
  ASSUME TypeOK, NEW r \in Issued, NEW p \in Node
  PROVE  /\ r \in Rid /\ req[r].buf \in Buffers /\ req[r].query \in Query
         /\ fetch[r] \in Fetch /\ hist[r] \in History /\ work[r] \in Work
         /\ work[r][p] \in [sent : Nat, at : {"none", "scan", "mark", "done"}, again : Nat]
         /\ work[r][p].sent \in Nat /\ work[r][p].again \in Nat
         /\ work[r][p].at \in {"none", "scan", "mark", "done"}
         /\ Rows[req[r].query][p] \in Nat
<1>1. r \in Rid
  BY IssuedAreRids
<1>2. /\ req[r].buf \in Buffers /\ req[r].query \in Query
      /\ fetch[r] \in Fetch /\ hist[r] \in History /\ work[r] \in Work
  BY <1>1, TypeFacts
<1>3. work[r][p] \in [sent : Nat, at : {"none", "scan", "mark", "done"}, again : Nat]
  BY <1>2 DEF Work
<1>4. Rows[req[r].query][p] \in Nat
  BY <1>2, PortalConstants
<1> QED
  BY <1>1, <1>2, <1>3, <1>4

(* A node of a request goes on. *)
LEMMA NodeGoesOn ==
  ASSUME NEW v \in Work, NEW p \in Node, NEW w,
         NEW e \in [sent : Nat, at : {"none", "scan", "mark", "done"}, again : Nat],
         w = [v EXCEPT ![p] = e]
  PROVE  w \in Work /\ w[p] = e /\ \A o \in Node \ {p} : w[o] = v[o]
  BY DEF Work

(* Nothing more to write into the row buffer of r. *)
LEMMA SameBuffer ==
  ASSUME TypeOK, NEW r \in Rid, UNCHANGED req
  PROVE  req' = [req EXCEPT ![r].buf = req[r].buf]
  BY DEF TypeOK, Request

(* The empty sequence adds nothing. *)
LEMMA NothingAdded ==
  ASSUME NEW b \in Buffers
  PROVE  b.q = b.q \o <<>> /\ <<>> \in Seq(Row)
  BY ConcatEmptySeq, EmptySeq DEF Buffers, BufferRecord

(* Rows that miss the buffer, or come again, are rows. *)
LEMMA DroppedFacts ==
  ASSUME NEW b \in Buffers, NEW rows \in Seq(Row)
  PROVE  /\ Dropped(b, rows) \subseteq Row /\ Range(rows) \subseteq Row
         /\ Enters(b, rows) \in Seq(Row) /\ PushRows(b, rows) \in Buffers
         /\ PushRows(b, rows).q = b.q \o Enters(b, rows)
         /\ PushRows(b, rows).canceled = b.canceled
         /\ PushRows(b, rows).expected = b.expected /\ PushRows(b, rows).done = b.done
<1>1. /\ PushRows(b, rows) \in Buffers
      /\ PushRows(b, rows).q = b.q \o Enters(b, rows)
      /\ Enters(b, rows) \in Seq(Row) /\ SameBut(b, PushRows(b, rows))
  BY PushFacts DEF Buffers, Enters
<1>2. \A i \in 1..Len(rows) : rows[i] \in Row
  BY ElementOfSeq
<1>3. Took(b, rows) \in Nat
  BY EnqueuedFacts, LenProperties DEF Took, Buffers
<1>4. Dropped(b, rows) \subseteq Row
  BY <1>2, <1>3, LenProperties DEF Dropped
<1>5. Range(rows) \subseteq Row
  BY <1>2, LenProperties DEF Range
<1> QED
  BY <1>1, <1>4, <1>5 DEF SameBut

(* A chunk reaches the buffer. *)
LEMMA DepositFacts ==
  ASSUME TypeOK, NEW r \in Issued, NEW p \in Node,
         NEW n \in 0..Rows[req[r].query][p], NEW last \in BOOLEAN, Deposit(r, p, n, last)
  PROVE  LET rows == Chunk(r, p, work[r][p].sent, n)
         IN  /\ Brings(r, Enters(req[r].buf, rows))
             /\ n \in Nat /\ req'[r].buf.done = req[r].buf.done
             /\ work'[r][p].sent = work[r][p].sent + n
             /\ work'[r][p].at = IF last THEN "mark" ELSE "scan"
             /\ \A o \in Node \ {p} : work'[r][o] = work[r][o]
             /\ hist'[r].missed = hist[r].missed \cup Dropped(req[r].buf, rows)
<1> DEFINE rows == Chunk(r, p, work[r][p].sent, n)
           b == PushRows(req[r].buf, rows)
           k == work[r][p].sent + n
           a == IF last THEN "mark" ELSE "scan"
           e == [work[r][p] EXCEPT !.sent = k, !.at = a]
           w == [work[r] EXCEPT ![p] = e]
           h == [hist[r] EXCEPT !.missed = @ \cup Dropped(req[r].buf, rows)]
<1>1. /\ r \in Rid /\ req[r].buf \in Buffers /\ fetch[r] \in Fetch
      /\ hist[r] \in History /\ work[r] \in Work
      /\ work[r][p] \in [sent : Nat, at : {"none", "scan", "mark", "done"}, again : Nat]
      /\ work[r][p].sent \in Nat /\ work[r][p].again \in Nat /\ n \in Nat
      /\ work[r][p].at \in {"none", "scan", "mark", "done"}
  BY NodeFacts
<1>2. /\ work' = [work EXCEPT ![r] = w]
      /\ req' = [req EXCEPT ![r].buf = b]
      /\ hist' = [hist EXCEPT ![r] = h]
      /\ UNCHANGED <<issued, registered, cache, fetch, janitor, told, raced>>
  BY DEF Deposit
<1>a. k \in Nat /\ a \in {"none", "scan", "mark", "done"}
  BY <1>1
<1> HIDE DEF k, a
<1>3. /\ e \in [sent : Nat, at : {"none", "scan", "mark", "done"}, again : Nat]
      /\ e.sent = k
      /\ e.at = a
  BY <1>1, <1>a
<1> HIDE DEF e
<1>4. w \in Work /\ w[p] = e /\ \A o \in Node \ {p} : w[o] = work[r][o]
  BY <1>1, <1>3, NodeGoesOn
<1> HIDE DEF w
<1>5. rows \in Seq(Row)
  BY <1>1, ChunkFacts
<1> HIDE DEF rows
<1>6. /\ Dropped(req[r].buf, rows) \subseteq Row /\ Range(rows) \subseteq Row
      /\ b \in Buffers /\ Enters(req[r].buf, rows) \in Seq(Row)
      /\ b.q = req[r].buf.q \o Enters(req[r].buf, rows)
      /\ b.canceled = req[r].buf.canceled /\ b.expected = req[r].buf.expected
      /\ b.done = req[r].buf.done
  BY <1>1, <1>5, DroppedFacts
<1> HIDE DEF b
<1>7. /\ h \in History /\ h.source = hist[r].source
      /\ h.missed = hist[r].missed \cup Dropped(req[r].buf, rows)
      /\ hist[r].early \subseteq h.early /\ hist[r].missed \subseteq h.missed
      /\ hist[r].again \subseteq h.again
  BY <1>1, <1>6 DEF History
<1> HIDE DEF h
<1>8. fetch' \in [Rid -> Fetch] /\ \A x \in Rid : fetch'[x] = fetch[x]
  BY <1>2 DEF TypeOK
<1>9. /\ req' \in [Rid -> Request] /\ \A x \in Rid : Len(req'[x].accum) <= CacheMaxRows
      /\ req'[r].buf = b /\ req'[r].query = req[r].query /\ req'[r].chunk = req[r].chunk
      /\ req'[r].collect = req[r].collect /\ req'[r].accum = req[r].accum
      /\ \A x \in Rid \ {r} : req'[x] = req[x]
  BY <1>1, <1>2, <1>6, BufStep
<1>10. /\ work' \in [Rid -> Work] /\ work'[r] = w
       /\ \A x \in Rid \ {r} : work'[x] = work[x]
  BY <1>1, <1>2, <1>4 DEF TypeOK
<1>11. /\ hist' \in [Rid -> History] /\ hist'[r] = h
       /\ \A x \in Rid \ {r} : hist'[x] = hist[x]
  BY <1>1, <1>2, <1>7 DEF TypeOK
<1>12. TypeOK'
  BY <1>2, <1>8, <1>9, <1>10, <1>11, TypesStay DEF TypeOK
<1>13. Others(r)
  BY <1>2, <1>8, <1>9, <1>10, <1>11 DEF Others
<1>14. Brings(r, Enters(req[r].buf, rows))
  BY <1>1, <1>2, <1>6, <1>7, <1>8, <1>9, <1>11, <1>12, <1>13 DEF Brings
<1> QED
  BY <1>1, <1>3, <1>4, <1>6, <1>7, <1>9, <1>10, <1>11, <1>14 DEF rows, k, a

(* A chunk is given up. *)
LEMMA GiveUpFacts ==
  ASSUME TypeOK, NEW r \in Issued, NEW p \in Node,
         NEW n \in 0..Rows[req[r].query][p], NEW last \in BOOLEAN, GiveUp(r, p, n, last)
  PROVE  LET rows == Chunk(r, p, work[r][p].sent, n)
         IN  /\ Brings(r, <<>>)
             /\ n \in Nat /\ req'[r].buf.done = req[r].buf.done
             /\ work'[r][p].sent = work[r][p].sent + n
             /\ work'[r][p].at = IF last THEN "done" ELSE "scan"
             /\ \A o \in Node \ {p} : work'[r][o] = work[r][o]
             /\ hist'[r].missed = hist[r].missed \cup Range(rows)
<1> DEFINE rows == Chunk(r, p, work[r][p].sent, n)
           k == work[r][p].sent + n
           a == IF last THEN "done" ELSE "scan"
           e == [work[r][p] EXCEPT !.sent = k, !.at = a]
           w == [work[r] EXCEPT ![p] = e]
           h == [hist[r] EXCEPT !.missed = @ \cup Range(rows)]
<1>1. /\ r \in Rid /\ req[r].buf \in Buffers /\ fetch[r] \in Fetch
      /\ hist[r] \in History /\ work[r] \in Work
      /\ work[r][p] \in [sent : Nat, at : {"none", "scan", "mark", "done"}, again : Nat]
      /\ work[r][p].sent \in Nat /\ work[r][p].again \in Nat /\ n \in Nat
      /\ work[r][p].at \in {"none", "scan", "mark", "done"}
  BY NodeFacts
<1>2. /\ work' = [work EXCEPT ![r] = w]
      /\ hist' = [hist EXCEPT ![r] = h]
      /\ UNCHANGED <<issued, req, registered, cache, fetch, janitor, told, raced>>
  BY DEF GiveUp
<1>a. k \in Nat /\ a \in {"none", "scan", "mark", "done"}
  BY <1>1
<1> HIDE DEF k, a
<1>3. /\ e \in [sent : Nat, at : {"none", "scan", "mark", "done"}, again : Nat]
      /\ e.sent = k
      /\ e.at = a
  BY <1>1, <1>a
<1> HIDE DEF e
<1>4. w \in Work /\ w[p] = e /\ \A o \in Node \ {p} : w[o] = work[r][o]
  BY <1>1, <1>3, NodeGoesOn
<1> HIDE DEF w
<1>5. rows \in Seq(Row)
  BY <1>1, ChunkFacts
<1> HIDE DEF rows
<1>6. /\ req' = [req EXCEPT ![r].buf = req[r].buf]
      /\ req[r].buf.q = req[r].buf.q \o <<>> /\ <<>> \in Seq(Row)
      /\ Range(rows) \subseteq Row
  BY <1>1, <1>2, <1>5, SameBuffer, NothingAdded, DroppedFacts
<1>7. /\ h \in History /\ h.source = hist[r].source
      /\ h.missed = hist[r].missed \cup Range(rows)
      /\ hist[r].early \subseteq h.early /\ hist[r].missed \subseteq h.missed
      /\ hist[r].again \subseteq h.again
  BY <1>1, <1>6 DEF History
<1> HIDE DEF h
<1>8. fetch' \in [Rid -> Fetch] /\ \A x \in Rid : fetch'[x] = fetch[x]
  BY <1>2 DEF TypeOK
<1>9. /\ req' \in [Rid -> Request] /\ \A x \in Rid : Len(req'[x].accum) <= CacheMaxRows
      /\ req'[r].buf = req[r].buf /\ req'[r].query = req[r].query /\ req'[r].chunk = req[r].chunk
      /\ req'[r].collect = req[r].collect /\ req'[r].accum = req[r].accum
      /\ \A x \in Rid \ {r} : req'[x] = req[x]
  BY <1>1, <1>2, <1>6, BufStep
<1>10. /\ work' \in [Rid -> Work] /\ work'[r] = w
       /\ \A x \in Rid \ {r} : work'[x] = work[x]
  BY <1>1, <1>2, <1>4 DEF TypeOK
<1>11. /\ hist' \in [Rid -> History] /\ hist'[r] = h
       /\ \A x \in Rid \ {r} : hist'[x] = hist[x]
  BY <1>1, <1>2, <1>7 DEF TypeOK
<1>12. TypeOK'
  BY <1>2, <1>8, <1>9, <1>10, <1>11, TypesStay DEF TypeOK
<1>13. Others(r)
  BY <1>2, <1>8, <1>9, <1>10, <1>11 DEF Others
<1>14. Brings(r, <<>>)
  BY <1>1, <1>2, <1>6, <1>7, <1>8, <1>9, <1>11, <1>12, <1>13 DEF Brings
<1> QED
  BY <1>1, <1>3, <1>4, <1>6, <1>7, <1>9, <1>10, <1>11, <1>14 DEF rows, k, a

(* A producer is marked done. *)
LEMMA MarkFactsOf ==
  ASSUME TypeOK, NEW r \in Issued, NEW p \in Node, Mark(r, p)
  PROVE  /\ Brings(r, <<>>)
         /\ req'[r].buf.done = req[r].buf.done \cup {p}
         /\ work'[r][p].sent = work[r][p].sent
         /\ work'[r][p].at = "done"
         /\ \A o \in Node \ {p} : work'[r][o] = work[r][o]
         /\ hist'[r] = hist[r]
<1> DEFINE b == MarkProducerDone(req[r].buf, p)
           e == [work[r][p] EXCEPT !.at = "done"]
           w == [work[r] EXCEPT ![p] = e]
<1>1. /\ r \in Rid /\ req[r].buf \in Buffers /\ fetch[r] \in Fetch
      /\ hist[r] \in History /\ work[r] \in Work
      /\ work[r][p] \in [sent : Nat, at : {"none", "scan", "mark", "done"}, again : Nat]
      /\ work[r][p].sent \in Nat /\ work[r][p].again \in Nat
      /\ work[r][p].at \in {"none", "scan", "mark", "done"}
  BY NodeFacts
<1>2. /\ work' = [work EXCEPT ![r] = w]
      /\ req' = [req EXCEPT ![r].buf = b]
      /\ UNCHANGED <<issued, registered, cache, fetch, janitor, told, raced, hist>>
  BY DEF Mark
<1>3. /\ e \in [sent : Nat, at : {"none", "scan", "mark", "done"}, again : Nat]
      /\ e.sent = work[r][p].sent
      /\ e.at = "done"
  BY <1>1
<1> HIDE DEF e
<1>4. w \in Work /\ w[p] = e /\ \A o \in Node \ {p} : w[o] = work[r][o]
  BY <1>1, <1>3, NodeGoesOn
<1> HIDE DEF w
<1>6. /\ b \in Buffers /\ b.q = req[r].buf.q /\ b.canceled = req[r].buf.canceled
      /\ b.expected = req[r].buf.expected /\ b.done = req[r].buf.done \cup {p}
      /\ req[r].buf.q = req[r].buf.q \o <<>> /\ <<>> \in Seq(Row)
  BY <1>1, MarkFacts, NothingAdded DEF Buffers
<1> HIDE DEF b
<1>7. hist' = [hist EXCEPT ![r] = hist[r]]
  BY <1>1, <1>2 DEF TypeOK
<1>8. fetch' \in [Rid -> Fetch] /\ \A x \in Rid : fetch'[x] = fetch[x]
  BY <1>2 DEF TypeOK
<1>9. /\ req' \in [Rid -> Request] /\ \A x \in Rid : Len(req'[x].accum) <= CacheMaxRows
      /\ req'[r].buf = b /\ req'[r].query = req[r].query /\ req'[r].chunk = req[r].chunk
      /\ req'[r].collect = req[r].collect /\ req'[r].accum = req[r].accum
      /\ \A x \in Rid \ {r} : req'[x] = req[x]
  BY <1>1, <1>2, <1>6, BufStep
<1>10. /\ work' \in [Rid -> Work] /\ work'[r] = w
       /\ \A x \in Rid \ {r} : work'[x] = work[x]
  BY <1>1, <1>2, <1>4 DEF TypeOK
<1>11. /\ hist' \in [Rid -> History] /\ hist'[r] = hist[r]
       /\ \A x \in Rid \ {r} : hist'[x] = hist[x]
  BY <1>1, <1>2, <1>7 DEF TypeOK
<1>12. TypeOK'
  BY <1>2, <1>8, <1>9, <1>10, <1>11, TypesStay DEF TypeOK
<1>13. Others(r)
  BY <1>2, <1>8, <1>9, <1>10, <1>11 DEF Others
<1>14. Brings(r, <<>>)
  BY <1>1, <1>2, <1>6, <1>7, <1>8, <1>9, <1>11, <1>12, <1>13 DEF Brings
<1> QED
  BY <1>1, <1>3, <1>4, <1>6, <1>7, <1>9, <1>10, <1>11, <1>14

(* Rows come again. *)
LEMMA AgainFacts ==
  ASSUME TypeOK, NEW r \in Issued, NEW p \in Node,
         NEW from \in Nat, NEW n \in Nat, NEW done \in BOOLEAN, Again(r, p, from, n, done)
  PROVE  LET rows == Chunk(r, p, from, n)
         IN  /\ Brings(r, Enters(req[r].buf, rows))
             /\ req'[r].buf.done = req[r].buf.done
             /\ work'[r][p].sent = work[r][p].sent
             /\ work'[r][p].at = IF done THEN "mark" ELSE work[r][p].at
             /\ \A o \in Node \ {p} : work'[r][o] = work[r][o]
             /\ hist'[r].again = hist[r].again \cup Range(rows)
<1> DEFINE rows == Chunk(r, p, from, n)
           b == PushRows(req[r].buf, rows)
           k == work[r][p].again + 1
           a == IF done THEN "mark" ELSE work[r][p].at
           e == [work[r][p] EXCEPT !.again = k, !.at = a]
           w == [work[r] EXCEPT ![p] = e]
           h == [hist[r] EXCEPT !.again = @ \cup Range(rows)]
<1>1. /\ r \in Rid /\ req[r].buf \in Buffers /\ fetch[r] \in Fetch
      /\ hist[r] \in History /\ work[r] \in Work
      /\ work[r][p] \in [sent : Nat, at : {"none", "scan", "mark", "done"}, again : Nat]
      /\ work[r][p].sent \in Nat /\ work[r][p].again \in Nat
      /\ work[r][p].at \in {"none", "scan", "mark", "done"}
  BY NodeFacts
<1>2. /\ work' = [work EXCEPT ![r] = w]
      /\ req' = [req EXCEPT ![r].buf = b]
      /\ hist' = [hist EXCEPT ![r] = h]
      /\ UNCHANGED <<issued, registered, cache, fetch, janitor, told, raced>>
  BY DEF Again
<1>a. k \in Nat /\ a \in {"none", "scan", "mark", "done"}
  BY <1>1
<1> HIDE DEF k, a
<1>3. /\ e \in [sent : Nat, at : {"none", "scan", "mark", "done"}, again : Nat]
      /\ e.sent = work[r][p].sent
      /\ e.at = a
  BY <1>1, <1>a
<1> HIDE DEF e
<1>4. w \in Work /\ w[p] = e /\ \A o \in Node \ {p} : w[o] = work[r][o]
  BY <1>1, <1>3, NodeGoesOn
<1> HIDE DEF w
<1>5. rows \in Seq(Row)
  BY <1>1, ChunkFacts
<1> HIDE DEF rows
<1>6. /\ Dropped(req[r].buf, rows) \subseteq Row /\ Range(rows) \subseteq Row
      /\ b \in Buffers /\ Enters(req[r].buf, rows) \in Seq(Row)
      /\ b.q = req[r].buf.q \o Enters(req[r].buf, rows)
      /\ b.canceled = req[r].buf.canceled /\ b.expected = req[r].buf.expected
      /\ b.done = req[r].buf.done
  BY <1>1, <1>5, DroppedFacts
<1> HIDE DEF b
<1>7. /\ h \in History /\ h.source = hist[r].source
      /\ h.again = hist[r].again \cup Range(rows)
      /\ hist[r].early \subseteq h.early /\ hist[r].missed \subseteq h.missed
      /\ hist[r].again \subseteq h.again
  BY <1>1, <1>6 DEF History
<1> HIDE DEF h
<1>8. fetch' \in [Rid -> Fetch] /\ \A x \in Rid : fetch'[x] = fetch[x]
  BY <1>2 DEF TypeOK
<1>9. /\ req' \in [Rid -> Request] /\ \A x \in Rid : Len(req'[x].accum) <= CacheMaxRows
      /\ req'[r].buf = b /\ req'[r].query = req[r].query /\ req'[r].chunk = req[r].chunk
      /\ req'[r].collect = req[r].collect /\ req'[r].accum = req[r].accum
      /\ \A x \in Rid \ {r} : req'[x] = req[x]
  BY <1>1, <1>2, <1>6, BufStep
<1>10. /\ work' \in [Rid -> Work] /\ work'[r] = w
       /\ \A x \in Rid \ {r} : work'[x] = work[x]
  BY <1>1, <1>2, <1>4 DEF TypeOK
<1>11. /\ hist' \in [Rid -> History] /\ hist'[r] = h
       /\ \A x \in Rid \ {r} : hist'[x] = hist[x]
  BY <1>1, <1>2, <1>7 DEF TypeOK
<1>12. TypeOK'
  BY <1>2, <1>8, <1>9, <1>10, <1>11, TypesStay DEF TypeOK
<1>13. Others(r)
  BY <1>2, <1>8, <1>9, <1>10, <1>11 DEF Others
<1>14. Brings(r, Enters(req[r].buf, rows))
  BY <1>1, <1>2, <1>6, <1>7, <1>8, <1>9, <1>11, <1>12, <1>13 DEF Brings
<1> QED
  BY <1>1, <1>3, <1>4, <1>6, <1>7, <1>9, <1>10, <1>11, <1>14 DEF rows, k, a

(* A peer is asked in the fan-out, and perhaps marked done early. *)
LEMMA ForwardFacts ==
  ASSUME TypeOK, NEW r \in Issued, NEW p \in Peers, Forward(r, p)
  PROVE  /\ p \in Node /\ Brings(r, <<>>) /\ work'[r] = work[r]
         /\ \/ req'[r].buf.done = req[r].buf.done
            \/ req'[r].buf.done = req[r].buf.done \cup {p} /\ p \in hist'[r].early
<1> DEFINE f == [fetch[r] EXCEPT !.ask = @ \ {p}]
           b == MarkProducerDone(req[r].buf, p)
           h == [hist[r] EXCEPT !.early = @ \cup {p}]
<1>0. p \in Node
  BY PortalConstants
<1>1. /\ r \in Rid /\ req[r].buf \in Buffers /\ fetch[r] \in Fetch /\ hist[r] \in History
      /\ work[r] \in Work
  BY <1>0, NodeFacts
<1>2. /\ fetch' = [fetch EXCEPT ![r] = f]
      /\ UNCHANGED <<issued, registered, work, cache, janitor, told, raced>>
  BY DEF Forward
<1>3. /\ f \in Fetch /\ f.pc = fetch[r].pc /\ f.rows = fetch[r].rows
      /\ f.canceled = fetch[r].canceled /\ f.late = fetch[r].late
  BY <1>1 DEF Fetch
<1> HIDE DEF f
<1>4. /\ fetch' \in [Rid -> Fetch]
      /\ fetch'[r] = f /\ \A x \in Rid \ {r} : fetch'[x] = fetch[x]
  BY <1>1, <1>2, <1>3, FetchUpdate
<1>5. work' \in [Rid -> Work] /\ \A x \in Rid : work'[x] = work[x]
  BY <1>2 DEF TypeOK
<1>6. req[r].buf.q = req[r].buf.q \o <<>> /\ <<>> \in Seq(Row)
  BY <1>1, NothingAdded
<1>7. CASE UNCHANGED <<req, hist>>
  <2>1. TypeOK'
    BY <1>2, <1>4, <1>5, <1>7, TypesStay DEF TypeOK
  <2>2. Others(r)
    BY <1>2, <1>4, <1>5, <1>7 DEF Others
  <2>3. Brings(r, <<>>)
    BY <1>2, <1>3, <1>4, <1>6, <1>7, <2>1, <2>2 DEF Brings
  <2> QED
    BY <1>0, <1>1, <1>5, <1>7, <2>3
<1>8. CASE /\ req' = [req EXCEPT ![r].buf = MarkProducerDone(@, p)]
           /\ hist' = [hist EXCEPT ![r].early = @ \cup {p}]
  <2>1. req' = [req EXCEPT ![r].buf = b] /\ hist' = [hist EXCEPT ![r] = h]
    BY <1>8
  <2>2. /\ b \in Buffers /\ b.q = req[r].buf.q /\ b.canceled = req[r].buf.canceled
        /\ b.expected = req[r].buf.expected /\ b.done = req[r].buf.done \cup {p}
    BY <1>0, <1>1, MarkFacts DEF Buffers
  <2>3. /\ h \in History /\ h.source = hist[r].source /\ p \in h.early
        /\ hist[r].early \subseteq h.early /\ hist[r].missed \subseteq h.missed
        /\ hist[r].again \subseteq h.again
    BY <1>1 DEF History
  <2> HIDE DEF b, h
  <2>4. /\ req' \in [Rid -> Request] /\ \A x \in Rid : Len(req'[x].accum) <= CacheMaxRows
        /\ req'[r].buf = b /\ req'[r].query = req[r].query /\ req'[r].chunk = req[r].chunk
        /\ req'[r].collect = req[r].collect /\ req'[r].accum = req[r].accum
        /\ \A x \in Rid \ {r} : req'[x] = req[x]
    BY <1>1, <2>1, <2>2, BufStep
  <2>5. /\ hist' \in [Rid -> History] /\ hist'[r] = h
        /\ \A x \in Rid \ {r} : hist'[x] = hist[x]
    BY <1>1, <2>1, <2>3 DEF TypeOK
  <2>6. TypeOK'
    BY <1>2, <1>4, <1>5, <2>4, <2>5, TypesStay DEF TypeOK
  <2>7. Others(r)
    BY <1>2, <1>4, <1>5, <2>4, <2>5 DEF Others
  <2>8. Brings(r, <<>>)
    BY <1>2, <1>3, <1>4, <1>6, <2>2, <2>3, <2>4, <2>5, <2>6, <2>7 DEF Brings
  <2> QED
    BY <1>0, <1>1, <1>5, <2>2, <2>3, <2>4, <2>5, <2>8
<1> QED
  BY <1>7, <1>8 DEF Forward

(* No fetch is under way. *)
LEMMA NoFetchType == NoFetch \in Fetch /\ NoFetch.rows = <<>> /\ ~NoFetch.late
<1>1. <<>> \in Seq(Row) /\ 0 \in 0..(Word - 1)
  BY EmptySeq, ChunkConstants
<1> QED
  BY <1>1 DEF NoFetch, Fetch

(* Nothing but the fetch changes. *)
LEMMA FetchOnly ==
  ASSUME TypeOK, NEW r \in Rid, NEW f \in Fetch, fetch' = [fetch EXCEPT ![r] = f],
         UNCHANGED <<portalVars, registered, req, work>>,
         told' \in [Rid -> Seq(Row)], \A x \in Rid \ {r} : told'[x] = told[x]
  PROVE  /\ TypeOK' /\ Others(r) /\ hist' = hist /\ fetch'[r] = f
         /\ req'[r] = req[r] /\ work'[r] = work[r]
<1>1. /\ fetch' \in [Rid -> Fetch]
      /\ fetch'[r] = f /\ \A x \in Rid \ {r} : fetch'[x] = fetch[x]
  BY FetchUpdate
<1>2. UNCHANGED <<issued, registered, cache, janitor, hist, raced, req, work>>
  BY DEF portalVars
<1>3. TypeOK'
  BY <1>1, <1>2, TypesStay DEF TypeOK
<1> QED
  BY <1>1, <1>2, <1>3 DEF Others

(* A fetch of a request there is begins; *)
LEMMA AskFacts ==
  ASSUME TypeOK, NEW r \in Issued, Ask(r), r \in registered
  PROVE  /\ TypeOK' /\ Others(r) /\ hist' = hist
         /\ fetch'[r] = [NoFetch EXCEPT !.pc = "popping", !.late = req[r].buf.canceled,
                                        !.want = fetch[r].want]
         /\ req'[r].buf = req[r].buf /\ req'[r].query = req[r].query
         /\ req'[r].collect = req[r].collect /\ req'[r].accum = req[r].accum
         /\ \E pace \in Pace : req'[r].chunk = Suggestion(req[r].chunk, pace)
         /\ work'[r] = work[r] /\ told'[r] = told[r]
<1> DEFINE f == [NoFetch EXCEPT !.pc = "popping", !.late = req[r].buf.canceled,
                                !.want = fetch[r].want]
<1>1. /\ r \in Rid /\ req[r] \in Request /\ req[r].buf \in Buffers /\ fetch[r] \in Fetch
      /\ Len(req[r].accum) <= CacheMaxRows
  BY IssuedAreRids, TypeFacts
<1>2. f \in Fetch
  <2>1. req[r].buf.canceled \in BOOLEAN /\ fetch[r].want \in 0..(Word - 1)
    BY <1>1 DEF Buffers, BufferRecord, Fetch
  <2> QED
    BY <2>1, NoFetchType DEF Fetch
<1>3. /\ fetch' = [fetch EXCEPT ![r] = f]
      /\ UNCHANGED <<portalVars, registered, work, told>>
  BY DEF Ask
<1>4. PICK pace \in Pace :
        req' = [req EXCEPT ![r].idle = FALSE, ![r].chunk = Suggestion(@, pace)]
  BY DEF Ask
<1> DEFINE st == [req[r] EXCEPT !.idle = FALSE, !.chunk = Suggestion(@, pace)]
<1>5. /\ st \in Request /\ st.buf = req[r].buf /\ st.query = req[r].query
      /\ st.collect = req[r].collect /\ st.accum = req[r].accum
      /\ st.chunk = Suggestion(req[r].chunk, pace)
  <2>1. Word \in Nat /\ req[r].chunk \in Nat
    BY <1>1, ChunkConstants DEF Request
  <2>2. Suggestion(req[r].chunk, pace) \in 0..(Word - 1)
    BY <2>1, SuggestionType
  <2> QED
    BY <1>1, <2>2 DEF Request
<1>6. req' = [req EXCEPT ![r] = st]
  BY <1>4
<1> HIDE DEF st, f
<1>7. /\ req' \in [Rid -> Request] /\ \A x \in Rid : Len(req'[x].accum) <= CacheMaxRows
      /\ req'[r] = st /\ \A x \in Rid \ {r} : req'[x] = req[x]
  BY <1>1, <1>5, <1>6, ReqUpdate
<1>8. /\ fetch' \in [Rid -> Fetch]
      /\ fetch'[r] = f /\ \A x \in Rid \ {r} : fetch'[x] = fetch[x]
  BY <1>1, <1>2, <1>3, FetchUpdate
<1>9. UNCHANGED <<issued, registered, cache, janitor, hist, raced, work, told>>
  BY <1>3 DEF portalVars
<1>10. TypeOK'
  BY <1>7, <1>8, <1>9, TypesStay DEF TypeOK
<1>11. Others(r)
  BY <1>7, <1>8, <1>9 DEF Others
<1> QED
  BY <1>5, <1>7, <1>8, <1>9, <1>10, <1>11 DEF f

(* and one of a request that is gone is over. *)
LEMMA AskGoneFacts ==
  ASSUME TypeOK, NEW r \in Issued, Ask(r), r \notin registered
  PROVE  /\ TypeOK' /\ Others(r) /\ hist' = hist
         /\ fetch'[r] = [NoFetch EXCEPT !.pc = "over", !.canceled = TRUE]
         /\ req'[r].query = req[r].query /\ req'[r].buf = NewBuffer(Capacity, 0)
         /\ work'[r] = NoWork /\ told'[r] = <<>>
<1> DEFINE f == [NoFetch EXCEPT !.pc = "over", !.canceled = TRUE]
<1>1. r \in Rid
  BY IssuedAreRids
<1>2. f \in Fetch
  BY NoFetchType DEF Fetch
<1>3. /\ fetch' = [fetch EXCEPT ![r] = f] /\ Forget(r)
      /\ told' = [told EXCEPT ![r] = <<>>]
      /\ UNCHANGED <<portalVars, registered>>
  BY DEF Ask
<1>4. told' \in [Rid -> Seq(Row)] /\ told'[r] = <<>> /\ \A x \in Rid \ {r} : told'[x] = told[x]
  BY <1>1, <1>3, EmptySeq DEF TypeOK
<1> HIDE DEF f
<1>5. /\ fetch' \in [Rid -> Fetch]
      /\ fetch'[r] = f /\ \A x \in Rid \ {r} : fetch'[x] = fetch[x]
  BY <1>1, <1>2, <1>3, FetchUpdate
<1>6. /\ req' \in [Rid -> Request] /\ \A x \in Rid : Len(req'[x].accum) <= CacheMaxRows
      /\ work' \in [Rid -> Work] /\ work'[r] = NoWork
      /\ req'[r].query = req[r].query /\ req'[r].buf = NewBuffer(Capacity, 0)
      /\ \A x \in Rid \ {r} : req'[x] = req[x] /\ work'[x] = work[x]
  BY <1>1, <1>3, ForgetFacts
<1>7. UNCHANGED <<issued, registered, cache, janitor, hist, raced>>
  BY <1>3 DEF portalVars
<1>8. TypeOK'
  BY <1>4, <1>5, <1>6, <1>7, TypesStay DEF TypeOK
<1>9. Others(r)
  BY <1>4, <1>5, <1>6, <1>7 DEF Others
<1> QED
  BY <1>4, <1>5, <1>6, <1>7, <1>8, <1>9 DEF f

(* What a pop collects for the cache keeps to cache_max_rows. *)
LEMMA CollectedFacts ==
  ASSUME NEW st \in Request, Len(st.accum) <= CacheMaxRows, NEW rows \in Seq(Row)
  PROVE  /\ Collected(st, rows) \in Request
         /\ Len(Collected(st, rows).accum) <= CacheMaxRows
         /\ Collected(st, rows).buf = st.buf /\ Collected(st, rows).query = st.query
         /\ Collected(st, rows).chunk = st.chunk
         /\ Collected(st, rows).collect => st.collect /\ Collected(st, rows).accum = st.accum \o rows
<1>1. st.accum \in Seq(Row) /\ CacheMaxRows \in Nat
  BY PortalConstants DEF Request
<1>2. /\ st.accum \o rows \in Seq(Row)
      /\ Len(st.accum \o rows) = Len(st.accum) + Len(rows)
      /\ <<>> \in Seq(Row) /\ Len(<<>>) = 0
  BY <1>1, ConcatProperties, EmptySeq
<1> DEFINE more == st.accum \o rows
<1> HIDE DEF more
<1>3. CASE ~st.collect
  BY <1>3 DEF Collected
<1>4. CASE st.collect /\ Len(st.accum) + Len(rows) <= CacheMaxRows
  <2>1. Collected(st, rows) = [st EXCEPT !.accum = more]
    BY <1>4 DEF Collected, more
  <2>2. more \in Seq(Row) /\ Len(more) <= CacheMaxRows
    BY <1>2, <1>4 DEF more
  <2>3. /\ [st EXCEPT !.accum = more] \in Request
        /\ [st EXCEPT !.accum = more].accum = more
        /\ [st EXCEPT !.accum = more].buf = st.buf
        /\ [st EXCEPT !.accum = more].query = st.query
        /\ [st EXCEPT !.accum = more].chunk = st.chunk
        /\ [st EXCEPT !.accum = more].collect = st.collect
    BY <2>2 DEF Request
  <2> QED
    BY <1>4, <2>1, <2>2, <2>3 DEF more
<1>5. CASE st.collect /\ ~(Len(st.accum) + Len(rows) <= CacheMaxRows)
  <2>1. Collected(st, rows) = [st EXCEPT !.collect = FALSE, !.accum = <<>>]
    BY <1>5 DEF Collected
  <2>2. /\ [st EXCEPT !.collect = FALSE, !.accum = <<>>] \in Request
        /\ [st EXCEPT !.collect = FALSE, !.accum = <<>>].accum = <<>>
        /\ [st EXCEPT !.collect = FALSE, !.accum = <<>>].buf = st.buf
        /\ [st EXCEPT !.collect = FALSE, !.accum = <<>>].query = st.query
        /\ [st EXCEPT !.collect = FALSE, !.accum = <<>>].chunk = st.chunk
        /\ [st EXCEPT !.collect = FALSE, !.accum = <<>>].collect = FALSE
    BY <1>2 DEF Request
  <2> QED
    BY <1>1, <1>2, <2>1, <2>2
<1> QED
  BY <1>3, <1>4, <1>5

(* popUpTo. *)
LEMMA PopFactsOf ==
  ASSUME TypeOK, NEW r \in Issued, Pop(r)
  PROVE  LET max == Asked(fetch[r].want, req[r].chunk)
             rows == Popped(req[r].buf, max)
         IN  /\ TypeOK' /\ Others(r) /\ hist' = hist /\ max \in Nat /\ rows \in Seq(Row)
             /\ fetch'[r] = [fetch[r] EXCEPT !.pc = "popped", !.rows = rows, !.want = 0]
             /\ req'[r].buf = PopUpTo(req[r].buf, max)
             /\ req'[r].query = req[r].query /\ req'[r].chunk = req[r].chunk
             /\ req'[r].collect => req[r].collect /\ req'[r].accum = req[r].accum \o rows
             /\ work'[r] = work[r] /\ told'[r] = told[r]
<1> DEFINE max == Asked(fetch[r].want, req[r].chunk)
           rows == Popped(req[r].buf, max)
           b == PopUpTo(req[r].buf, max)
           f == [fetch[r] EXCEPT !.pc = "popped", !.rows = rows, !.want = 0]
           c == Collected(req[r], rows)
           st == [c EXCEPT !.buf = b]
<1>1. /\ r \in Rid /\ req[r] \in Request /\ req[r].buf \in Buffers /\ fetch[r] \in Fetch
      /\ Len(req[r].accum) <= CacheMaxRows
  BY IssuedAreRids, TypeFacts
<1>2. max \in Nat
  <2>1. fetch[r].want \in 0..(Word - 1)
    BY <1>1 DEF Fetch
  <2>2. req[r].chunk \in 0..(Word - 1)
    BY <1>1 DEF Request
  <2>3. fetch[r].want \in Nat /\ req[r].chunk \in Nat
    BY <2>1, <2>2, ChunkConstants
  <2> QED
    BY <2>3, AskedType
<1> HIDE DEF max
<1>3. rows \in Seq(Row) /\ b \in Buffers
  BY <1>1, <1>2, PopFacts DEF Buffers
<1>4. fetch' = [fetch EXCEPT ![r] = f]
  <2>1. fetch' = [fetch EXCEPT ![r].pc = "popped", ![r].rows = rows, ![r].want = 0]
    BY DEF Pop, max
  <2> QED
    BY <2>1
<1>5. req' = [req EXCEPT ![r] = st]
  <2>1. c.buf = req[r].buf
    BY <1>1, <1>3, CollectedFacts
  <2>2. req' = [req EXCEPT ![r] = [c EXCEPT !.buf = PopUpTo(c.buf, max)]]
    BY DEF Pop, max
  <2> QED
    BY <2>1, <2>2
<1>6. UNCHANGED <<portalVars, work, registered, told>>
  BY DEF Pop
<1> HIDE DEF rows, b
<1>7. /\ c \in Request /\ Len(c.accum) <= CacheMaxRows
      /\ c.query = req[r].query /\ c.chunk = req[r].chunk
      /\ c.collect => req[r].collect /\ c.accum = req[r].accum \o rows
  BY <1>1, <1>3, CollectedFacts
<1> HIDE DEF c
<1>8. /\ st \in Request /\ st.buf = b /\ st.query = c.query /\ st.chunk = c.chunk
      /\ st.collect = c.collect /\ st.accum = c.accum
  BY <1>3, <1>7, BufUpdate
<1>9. f \in Fetch
  <2>1. 0 \in 0..(Word - 1)
    BY ChunkConstants
  <2> QED
    BY <1>1, <1>3, <2>1 DEF Fetch
<1> HIDE DEF st, f
<1>10. /\ req' \in [Rid -> Request] /\ \A x \in Rid : Len(req'[x].accum) <= CacheMaxRows
       /\ req'[r] = st /\ \A x \in Rid \ {r} : req'[x] = req[x]
  BY <1>1, <1>5, <1>7, <1>8, ReqUpdate
<1>11. /\ fetch' \in [Rid -> Fetch]
       /\ fetch'[r] = f /\ \A x \in Rid \ {r} : fetch'[x] = fetch[x]
  BY <1>1, <1>4, <1>9, FetchUpdate
<1>12. UNCHANGED <<issued, registered, cache, janitor, hist, raced, work, told>>
  BY <1>6 DEF portalVars
<1>13. TypeOK'
  BY <1>10, <1>11, <1>12, TypesStay DEF TypeOK
<1>14. Others(r)
  BY <1>10, <1>11, <1>12 DEF Others
<1> QED
  BY <1>2, <1>3, <1>7, <1>8, <1>10, <1>11, <1>12, <1>13, <1>14 DEF max, rows, b, f

(* The canceled flag of an answer is read; *)
LEMMA ReadCanceledFacts ==
  ASSUME TypeOK, NEW r \in Issued, ReadCanceled(r)
  PROVE  /\ TypeOK' /\ Others(r) /\ hist' = hist
         /\ fetch'[r] = [fetch[r] EXCEPT !.pc = "flagged", !.canceled = req[r].buf.canceled]
         /\ req'[r] = req[r] /\ work'[r] = work[r] /\ told'[r] = told[r]
<1> DEFINE f == [fetch[r] EXCEPT !.pc = "flagged", !.canceled = req[r].buf.canceled]
<1>1. r \in Rid /\ req[r].buf \in Buffers /\ fetch[r] \in Fetch
  BY IssuedAreRids, TypeFacts
<1>2. f \in Fetch
  <2>1. req[r].buf.canceled \in BOOLEAN
    BY <1>1 DEF Buffers, BufferRecord
  <2> QED
    BY <1>1, <2>1 DEF Fetch
<1>3. fetch' = [fetch EXCEPT ![r] = f] /\ UNCHANGED <<portalVars, work, req, registered, told>>
  <2>1. fetch' = [fetch EXCEPT ![r].pc = "flagged", ![r].canceled = req[r].buf.canceled]
    BY DEF ReadCanceled
  <2> QED
    BY <2>1 DEF ReadCanceled
<1> HIDE DEF f
<1>4. told' \in [Rid -> Seq(Row)] /\ \A x \in Rid \ {r} : told'[x] = told[x]
  BY <1>3 DEF TypeOK
<1>5. TypeOK' /\ Others(r) /\ hist' = hist /\ fetch'[r] = f /\ req'[r] = req[r] /\ work'[r] = work[r]
  BY <1>1, <1>2, <1>3, <1>4, FetchOnly
<1> QED
  BY <1>3, <1>5 DEF f

(* An answer appends its rows to what the client has. *)
LEMMA AnswerFacts ==
  ASSUME TypeOK, NEW r \in Issued, Answer(r)
  PROVE  /\ told' \in [Rid -> Seq(Row)] /\ told'[r] = told[r] \o fetch[r].rows
         /\ \A x \in Rid \ {r} : told'[x] = told[x]
<1>1. r \in Rid /\ told[r] \in Seq(Row) /\ fetch[r].rows \in Seq(Row)
  BY IssuedAreRids, TypeFacts DEF Fetch
<1>2. told[r] \o fetch[r].rows \in Seq(Row)
  BY <1>1, ConcatProperties
<1> QED
  BY <1>1, <1>2 DEF Answer, TypeOK

(* and then whether it is the last: when it is not, it goes out.            *)
LEMMA ReadFinalFacts ==
  ASSUME TypeOK, NEW r \in Issued, ReadFinal(r)
  PROVE  /\ TypeOK' /\ Others(r) /\ hist' = hist /\ req'[r] = req[r] /\ work'[r] = work[r]
         /\ \/ /\ IsFinal(req[r].buf) /\ told'[r] = told[r]
               /\ fetch'[r] = [fetch[r] EXCEPT !.pc = "final"]
            \/ /\ ~IsFinal(req[r].buf) /\ told'[r] = told[r] \o fetch[r].rows
               /\ fetch'[r] = [NoFetch EXCEPT !.pc = "idle", !.want = req[r].chunk,
                                                 !.late = fetch[r].late]
<1>1. /\ r \in Rid /\ fetch[r] \in Fetch
      /\ UNCHANGED <<portalVars, work, req, registered>>
  BY IssuedAreRids, TypeFacts DEF ReadFinal
<1>2. CASE IsFinal(req[r].buf)
  <2> DEFINE f == [fetch[r] EXCEPT !.pc = "final"]
  <2>1. f \in Fetch
    BY <1>1 DEF Fetch
  <2>2. fetch' = [fetch EXCEPT ![r] = f] /\ told' = told
    BY <1>2 DEF ReadFinal
  <2> HIDE DEF f
  <2>3. told' \in [Rid -> Seq(Row)] /\ \A x \in Rid \ {r} : told'[x] = told[x]
    BY <2>2 DEF TypeOK
  <2>4. TypeOK' /\ Others(r) /\ hist' = hist /\ fetch'[r] = f /\ req'[r] = req[r] /\ work'[r] = work[r]
    BY <1>1, <2>1, <2>2, <2>3, FetchOnly
  <2> QED
    BY <1>2, <2>2, <2>4 DEF f
<1>3. CASE ~IsFinal(req[r].buf)
  <2> DEFINE f == [NoFetch EXCEPT !.pc = "idle", !.want = req[r].chunk,
                                                 !.late = fetch[r].late]
  <2>1. f \in Fetch
    <3>1. req[r] \in Request
      BY <1>1, TypeFacts
    <3>2. req[r].chunk \in 0..(Word - 1)
      BY <3>1 DEF Request
    <3> QED
      BY <1>1, <3>2, NoFetchType DEF Fetch
  <2>2. fetch' = [fetch EXCEPT ![r] = f] /\ Answer(r)
    BY <1>3 DEF ReadFinal
  <2> HIDE DEF f
  <2>3. /\ told' \in [Rid -> Seq(Row)] /\ told'[r] = told[r] \o fetch[r].rows
        /\ \A x \in Rid \ {r} : told'[x] = told[x]
    BY <2>2, AnswerFacts
  <2>4. TypeOK' /\ Others(r) /\ hist' = hist /\ fetch'[r] = f /\ req'[r] = req[r] /\ work'[r] = work[r]
    BY <1>1, <2>1, <2>2, <2>3, FetchOnly
  <2> QED
    BY <1>3, <2>3, <2>4 DEF f
<1> QED
  BY <1>2, <1>3

(* The client leaves. *)
LEMMA LeaveFacts ==
  ASSUME TypeOK, NEW r \in Issued, Leave(r)
  PROVE  /\ TypeOK' /\ Others(r) /\ hist' = hist
         /\ fetch'[r] = [fetch[r] EXCEPT !.pc = "left"] /\ told'[r] = <<>>
         /\ req'[r].query = req[r].query
         /\ \/ r \in registered /\ req'[r] = req[r] /\ work'[r] = work[r]
            \/ /\ r \notin registered /\ req'[r].buf = NewBuffer(Capacity, 0)
               /\ work'[r] = NoWork
<1> DEFINE f == [fetch[r] EXCEPT !.pc = "left"]
<1>1. r \in Rid /\ fetch[r] \in Fetch
  BY IssuedAreRids, TypeFacts
<1>2. f \in Fetch
  BY <1>1 DEF Fetch
<1>3. /\ fetch' = [fetch EXCEPT ![r] = f] /\ told' = [told EXCEPT ![r] = <<>>]
      /\ UNCHANGED <<portalVars, registered>>
  BY DEF Leave
<1> HIDE DEF f
<1>4. told' \in [Rid -> Seq(Row)] /\ told'[r] = <<>> /\ \A x \in Rid \ {r} : told'[x] = told[x]
  BY <1>1, <1>3, EmptySeq DEF TypeOK
<1>5. CASE r \in registered
  <2>1. UNCHANGED <<req, work>>
    BY <1>5 DEF Leave
  <2>2. TypeOK' /\ Others(r) /\ hist' = hist /\ fetch'[r] = f /\ req'[r] = req[r] /\ work'[r] = work[r]
    BY <1>1, <1>2, <1>3, <1>4, <2>1, FetchOnly
  <2> QED
    BY <1>4, <1>5, <2>2 DEF f
<1>6. CASE r \notin registered
  <2>1. Forget(r)
    BY <1>6 DEF Leave
  <2>2. /\ req' \in [Rid -> Request] /\ \A x \in Rid : Len(req'[x].accum) <= CacheMaxRows
        /\ work' \in [Rid -> Work] /\ work'[r] = NoWork
        /\ req'[r].query = req[r].query /\ req'[r].buf = NewBuffer(Capacity, 0)
        /\ \A x \in Rid \ {r} : req'[x] = req[x] /\ work'[x] = work[x]
    BY <1>1, <2>1, ForgetFacts
  <2>3. /\ fetch' \in [Rid -> Fetch]
        /\ fetch'[r] = f /\ \A x \in Rid \ {r} : fetch'[x] = fetch[x]
    BY <1>1, <1>2, <1>3, FetchUpdate
  <2>4. UNCHANGED <<issued, registered, cache, janitor, hist, raced>>
    BY <1>3 DEF portalVars
  <2>5. TypeOK'
    BY <1>4, <2>2, <2>3, <2>4, TypesStay DEF TypeOK
  <2>6. Others(r)
    BY <1>4, <2>2, <2>3, <2>4 DEF Others
  <2> QED
    BY <1>4, <1>6, <2>2, <2>3, <2>4, <2>5, <2>6 DEF f
<1> QED
  BY <1>5, <1>6

(* A request is cancelled, by CancelQuery or by the janitor. *)
LEMMA CancelRequestFacts ==
  ASSUME TypeOK, NEW r \in Issued, CancelRequest(r),
         UNCHANGED <<issued, registered, work, cache, fetch, told, hist>>,
         janitor' \in [todo : SUBSET Issued, at : Issued \cup {NoRid}]
  PROVE  /\ TypeOK' /\ Others(r) /\ hist' = hist
         /\ req'[r].buf = CancelBuffer(req[r].buf) /\ req'[r].query = req[r].query
         /\ req'[r].collect = req[r].collect /\ req'[r].accum = req[r].accum
         /\ raced \subseteq raced'
         /\ fetch[r].pc = "flagged" /\ ~fetch[r].canceled => r \in raced'
<1> DEFINE b == CancelBuffer(req[r].buf)
<1>1. r \in Rid /\ req[r].buf \in Buffers
  BY IssuedAreRids, TypeFacts
<1>2. req' = [req EXCEPT ![r].buf = b]
  BY DEF CancelRequest
<1>3. b \in Buffers
  BY <1>1, CancelFacts DEF Buffers
<1> HIDE DEF b
<1>4. /\ req' \in [Rid -> Request] /\ \A x \in Rid : Len(req'[x].accum) <= CacheMaxRows
      /\ req'[r].buf = b /\ req'[r].query = req[r].query
      /\ req'[r].collect = req[r].collect /\ req'[r].accum = req[r].accum
      /\ \A x \in Rid \ {r} : req'[x] = req[x]
  BY <1>1, <1>2, <1>3, BufStep
<1>5. /\ raced \subseteq raced' /\ raced' \subseteq Issued
      /\ fetch[r].pc = "flagged" /\ ~fetch[r].canceled => r \in raced'
  BY DEF CancelRequest, TypeOK
<1>6. TypeOK'
  BY <1>4, <1>5, TypesStay DEF TypeOK
<1>7. Others(r)
  BY <1>4 DEF Others
<1> QED
  BY <1>4, <1>5, <1>6, <1>7 DEF b

(* Time passes over a request. *)
LEMMA AgeFacts ==
  ASSUME TypeOK, NEW r \in Issued, Age(r)
  PROVE  /\ TypeOK' /\ Others(r) /\ hist' = hist
         /\ req'[r].buf = req[r].buf /\ req'[r].query = req[r].query
         /\ req'[r].collect = req[r].collect /\ req'[r].accum = req[r].accum
         /\ fetch'[r] = fetch[r] /\ work'[r] = work[r] /\ told'[r] = told[r]
<1> DEFINE st == [req[r] EXCEPT !.idle = TRUE]
<1>1. r \in Rid /\ req[r] \in Request /\ Len(req[r].accum) <= CacheMaxRows
  BY IssuedAreRids, TypeFacts
<1>2. /\ st \in Request /\ st.buf = req[r].buf /\ st.query = req[r].query
      /\ st.collect = req[r].collect /\ st.accum = req[r].accum
  BY <1>1 DEF Request
<1>3. /\ req' = [req EXCEPT ![r] = st]
      /\ UNCHANGED <<portalVars, work, registered, fetch, told>>
  BY DEF Age
<1> HIDE DEF st
<1>4. /\ req' \in [Rid -> Request] /\ \A x \in Rid : Len(req'[x].accum) <= CacheMaxRows
      /\ req'[r] = st /\ \A x \in Rid \ {r} : req'[x] = req[x]
  BY <1>1, <1>2, <1>3, ReqUpdate
<1>5. UNCHANGED <<issued, registered, cache, janitor, hist, raced, work, fetch, told>>
  BY <1>3 DEF portalVars
<1>6. TypeOK'
  BY <1>4, <1>5, TypesStay DEF TypeOK
<1>7. Others(r)
  BY <1>4, <1>5 DEF Others
<1> QED
  BY <1>2, <1>4, <1>5, <1>6, <1>7

(* The cache's list has one entry per query. *)
OneEach(list) == \A i, j \in DOMAIN list : list[i].spec = list[j].spec => i = j

(* An entry that is found moves to the front, with the rows it is given ... *)
LEMMA CacheMoved ==
  ASSUME TypeOK, NEW i \in DOMAIN cache, NEW e \in CacheEntry, e.spec = cache[i].spec,
         NEW new, new = MovedToFront(cache, i, e)
  PROVE  /\ new \in Seq(CacheEntry) /\ Len(new) <= CacheCapacity /\ OneEach(new)
         /\ \A k \in DOMAIN new : new[k] = e \/ \E j \in DOMAIN cache : new[k] = cache[j]
<1>1. /\ cache \in Seq(CacheEntry) /\ Len(cache) <= CacheCapacity
      /\ \A x, y \in DOMAIN cache : cache[x].spec = cache[y].spec => x = y
  BY DEF TypeOK
<1>2. Len(cache) \in Nat /\ DOMAIN cache = 1..Len(cache)
  BY <1>1, LenProperties
<1>3. /\ new \in Seq(CacheEntry) /\ Len(new) = Len(cache) /\ new[1] = e
      /\ \A k \in 2..i : new[k] = cache[k - 1]
      /\ \A k \in (i + 1)..Len(cache) : new[k] = cache[k]
  <2>1. MovedToFront(cache, i, e) \in Seq(CacheEntry)
    BY <1>1, MovedToFrontIs
  <2>2. Len(MovedToFront(cache, i, e)) = Len(cache)
    BY <1>1, MovedToFrontIs
  <2>3. MovedToFront(cache, i, e)[1] = e
    BY <1>1, MovedFirst
  <2>4. ASSUME NEW k \in 2..i
        PROVE  MovedToFront(cache, i, e)[k] = cache[k - 1]
    BY <1>1, MovedDown
  <2>5. ASSUME NEW k \in (i + 1)..Len(cache)
        PROVE  MovedToFront(cache, i, e)[k] = cache[k]
    BY <1>1, MovedNot
  <2> QED
    BY <2>1, <2>2, <2>3, <2>4, <2>5
<1>4. DOMAIN new = 1..Len(cache)
  BY <1>3, LenProperties
<1> DEFINE from(k) == IF k = 1 THEN i ELSE IF k <= i THEN k - 1 ELSE k
<1>5. ASSUME NEW k \in 1..Len(cache)
      PROVE  /\ from(k) \in 1..Len(cache) /\ new[k].spec = cache[from(k)].spec
             /\ new[k] = e \/ new[k] = cache[from(k)]
  <2>1. CASE k = 1
    BY <1>2, <1>3, <2>1
  <2>2. CASE k # 1 /\ k <= i
    <3>1. k \in 2..i /\ k - 1 \in 1..Len(cache)
      BY <1>2, <2>2
    <3> QED
      BY <1>3, <2>2, <3>1
  <2>3. CASE k # 1 /\ ~(k <= i)
    <3>1. k \in (i + 1)..Len(cache)
      BY <1>2, <2>3
    <3> QED
      BY <1>3, <2>3, <3>1
  <2> QED
    BY <2>1, <2>2, <2>3
<1>6. ASSUME NEW k \in 1..Len(cache), NEW l \in 1..Len(cache), from(k) = from(l)
      PROVE  k = l
  BY <1>2, <1>6
<1> HIDE DEF from
<1>7. OneEach(new)
  <2> SUFFICES ASSUME NEW k \in 1..Len(cache), NEW l \in 1..Len(cache),
                      new[k].spec = new[l].spec
               PROVE  k = l
    BY <1>4 DEF OneEach
  <2>1. /\ from(k) \in DOMAIN cache /\ from(l) \in DOMAIN cache
        /\ cache[from(k)].spec = cache[from(l)].spec
    BY <1>2, <1>5
  <2>2. from(k) = from(l)
    BY <1>1, <2>1
  <2> QED
    BY <1>6, <2>2
<1> QED
  BY <1>1, <1>2, <1>3, <1>4, <1>5, <1>7

(* ... and a new one comes first, and the last one may go. *)
LEMMA CachePushed ==
  ASSUME TypeOK, NEW e \in CacheEntry, Hits(e.spec) = {}, CacheCapacity > 0,
         NEW new, new = PushedFront(cache, e, CacheCapacity)
  PROVE  /\ new \in Seq(CacheEntry) /\ Len(new) <= CacheCapacity /\ OneEach(new)
         /\ \A k \in DOMAIN new : new[k] = e \/ \E j \in DOMAIN cache : new[k] = cache[j]
<1>1. /\ cache \in Seq(CacheEntry) /\ Len(cache) <= CacheCapacity
      /\ \A x, y \in DOMAIN cache : cache[x].spec = cache[y].spec => x = y
      /\ CacheCapacity \in Nat \ {0}
  BY PortalConstants DEF TypeOK
<1>2. Len(cache) \in Nat /\ DOMAIN cache = 1..Len(cache)
  BY <1>1, LenProperties
<1>3. /\ new \in Seq(CacheEntry)
      /\ Len(new) = IF Len(cache) >= CacheCapacity THEN Len(cache) ELSE Len(cache) + 1
      /\ \A k \in DOMAIN new : new[k] = IF k = 1 THEN e ELSE cache[k - 1]
  BY <1>1, PushedFrontIs
<1>4. DOMAIN new = 1..Len(new) /\ Len(new) \in Nat /\ Len(new) <= CacheCapacity
      /\ Len(new) <= Len(cache) + 1
  BY <1>1, <1>2, <1>3, LenProperties
<1>5. \A x \in DOMAIN cache : cache[x].spec # e.spec
  BY DEF Hits
<1>6. ASSUME NEW k \in DOMAIN new, k # 1
      PROVE  k - 1 \in DOMAIN cache /\ new[k] = cache[k - 1]
  BY <1>2, <1>3, <1>4, <1>6
<1>7. OneEach(new)
  <2> SUFFICES ASSUME NEW k \in DOMAIN new, NEW l \in DOMAIN new, new[k].spec = new[l].spec
               PROVE  k = l
    BY DEF OneEach
  <2>1. CASE k = 1 \/ l = 1
    BY <1>3, <1>5, <1>6, <2>1
  <2>2. CASE k # 1 /\ l # 1
    <3>1. k - 1 = l - 1
      BY <1>1, <1>6, <2>2
    <3> QED
      BY <1>4, <3>1
  <2> QED
    BY <2>1, <2>2
<1> QED
  BY <1>3, <1>4, <1>6, <1>7

(* Storing a result, if it is stored. *)
LEMMA CachePutFacts ==
  ASSUME TypeOK, NEW r \in Issued, CachePut(r)
  PROVE  LET e == [spec |-> req[r].query, rows |-> req[r].accum, source |-> r]
         IN  /\ cache' \in Seq(CacheEntry) /\ Len(cache') <= CacheCapacity /\ OneEach(cache')
             /\ \A k \in DOMAIN cache' :
                  \/ cache'[k] = e /\ req[r].collect /\ ~fetch[r].canceled
                  \/ \E j \in DOMAIN cache : cache'[k] = cache[j]
<1> DEFINE e == [spec |-> req[r].query, rows |-> req[r].accum, source |-> r]
           stored == req[r].collect /\ ~fetch[r].canceled /\ CacheCapacity > 0
                     /\ Len(req[r].accum) <= CacheMaxRows
<1>1. r \in Rid /\ req[r] \in Request
  BY IssuedAreRids, TypeFacts
<1>2. e \in CacheEntry /\ e.spec = req[r].query
  BY <1>1 DEF CacheEntry, Request
<1>3. \A i \in Hits(req[r].query) : i \in DOMAIN cache /\ cache[i].spec = req[r].query
  BY DEF Hits
<1>4. /\ stored /\ Hits(req[r].query) = {} => cache' = PushedFront(cache, e, CacheCapacity)
      /\ stored /\ Hits(req[r].query) # {} =>
           \E i \in Hits(req[r].query) : cache' = MovedToFront(cache, i, e)
      /\ ~stored => cache' = cache
  BY DEF CachePut
<1> HIDE DEF e
<1>5. CASE stored /\ Hits(req[r].query) = {}
  BY <1>2, <1>4, <1>5, CachePushed DEF e
<1>6. CASE stored /\ Hits(req[r].query) # {}
  <2>1. PICK i \in Hits(req[r].query) : cache' = MovedToFront(cache, i, e)
    BY <1>4, <1>6
  <2>2. /\ cache' \in Seq(CacheEntry) /\ Len(cache') <= CacheCapacity /\ OneEach(cache')
        /\ \A k \in DOMAIN cache' :
             cache'[k] = e \/ \E j \in DOMAIN cache : cache'[k] = cache[j]
    BY <1>2, <1>3, <2>1, CacheMoved
  <2> QED
    BY <1>6, <2>2 DEF e
<1>7. CASE ~stored
  BY <1>4, <1>7 DEF TypeOK, OneEach
<1> QED
  BY <1>5, <1>6, <1>7

(* The final answer: the result is stored, the request forgotten.           *)
LEMMA FinishFacts ==
  ASSUME TypeOK, NEW r \in Issued, Finish(r)
  PROVE  /\ TypeOK' /\ Others(r) /\ hist' = hist /\ CachePut(r)
         /\ registered' = registered \ {r}
         /\ fetch'[r] = [fetch[r] EXCEPT !.pc = "over", !.rows = <<>>]
         /\ told'[r] = IF fetch[r].canceled THEN <<>> ELSE told[r] \o fetch[r].rows
         /\ req'[r].query = req[r].query /\ req'[r].buf = NewBuffer(Capacity, 0)
         /\ work'[r] = NoWork
<1> DEFINE f == [fetch[r] EXCEPT !.pc = "over", !.rows = <<>>]
<1>1. r \in Rid /\ fetch[r] \in Fetch
  BY IssuedAreRids, TypeFacts
<1>2. f \in Fetch
  BY <1>1, EmptySeq DEF Fetch
<1>3. /\ CachePut(r) /\ registered' = registered \ {r} /\ Forget(r)
      /\ UNCHANGED <<issued, janitor, hist, raced>>
      /\ fetch' = [fetch EXCEPT ![r] = f]
  <2>1. fetch' = [fetch EXCEPT ![r].pc = "over", ![r].rows = <<>>]
    BY DEF Finish
  <2> QED
    BY <2>1 DEF Finish
<1> HIDE DEF f
<1>4. /\ told' \in [Rid -> Seq(Row)] /\ \A x \in Rid \ {r} : told'[x] = told[x]
      /\ told'[r] = IF fetch[r].canceled THEN <<>> ELSE told[r] \o fetch[r].rows
  <2>1. CASE fetch[r].canceled
    <3>1. told' = [told EXCEPT ![r] = <<>>]
      BY <2>1 DEF Finish
    <3>2. told \in [Rid -> Seq(Row)] /\ <<>> \in Seq(Row)
      BY EmptySeq DEF TypeOK
    <3> QED
      BY <1>1, <2>1, <3>1, <3>2
  <2>2. CASE ~fetch[r].canceled
    <3>1. Answer(r)
      BY <2>2 DEF Finish
    <3>2. /\ told' \in [Rid -> Seq(Row)] /\ told'[r] = told[r] \o fetch[r].rows
          /\ \A x \in Rid \ {r} : told'[x] = told[x]
      BY <3>1, AnswerFacts
    <3> QED
      BY <2>2, <3>2
  <2> QED
    BY <2>1, <2>2
<1>5. /\ fetch' \in [Rid -> Fetch]
      /\ fetch'[r] = f /\ \A x \in Rid \ {r} : fetch'[x] = fetch[x]
  BY <1>1, <1>2, <1>3, FetchUpdate
<1>6. /\ req' \in [Rid -> Request] /\ \A x \in Rid : Len(req'[x].accum) <= CacheMaxRows
      /\ work' \in [Rid -> Work] /\ work'[r] = NoWork
      /\ req'[r].query = req[r].query /\ req'[r].buf = NewBuffer(Capacity, 0)
      /\ \A x \in Rid \ {r} : req'[x] = req[x] /\ work'[x] = work[x]
  BY <1>1, <1>3, ForgetFacts
<1>7. cache' \in Seq(CacheEntry) /\ Len(cache') <= CacheCapacity /\ OneEach(cache')
  BY <1>3, CachePutFacts
<1>8. TypeOK'
  BY <1>3, <1>4, <1>5, <1>6, <1>7 DEF TypeOK, OneEach, Issued
<1>9. Others(r)
  BY <1>3, <1>4, <1>5, <1>6 DEF Others
<1> QED
  BY <1>3, <1>4, <1>5, <1>6, <1>8, <1>9 DEF f

(* The janitor erases the request it is at, and nothing is left of one that *)
(* no client asks for.                                                      *)
LEMMA EraseFacts ==
  ASSUME TypeOK, JanitorErase
  PROVE  /\ TypeOK' /\ janitor.at \in Issued /\ Others(janitor.at) /\ hist' = hist
         /\ registered' = registered \ {janitor.at} /\ janitor'.at = NoRid
         /\ fetch'[janitor.at] = fetch[janitor.at] /\ told'[janitor.at] = told[janitor.at]
         /\ req'[janitor.at].query = req[janitor.at].query
         /\ \/ /\ fetch[janitor.at].pc \notin {"left", "over"}
               /\ req'[janitor.at] = req[janitor.at] /\ work'[janitor.at] = work[janitor.at]
            \/ /\ fetch[janitor.at].pc \in {"left", "over"}
               /\ req'[janitor.at].buf = NewBuffer(Capacity, 0) /\ work'[janitor.at] = NoWork
<1> DEFINE r == janitor.at
<1>1. /\ r \in Issued /\ registered' = registered \ {r}
      /\ janitor' = [todo |-> janitor.todo \ {r}, at |-> NoRid]
      /\ UNCHANGED <<issued, cache, fetch, told, raced, hist>>
  BY DEF JanitorErase, TypeOK
<1>2. /\ r \in Rid /\ janitor' \in [todo : SUBSET Issued, at : Issued \cup {NoRid}]
      /\ janitor'.at = NoRid
  BY <1>1, IssuedAreRids DEF TypeOK
<1>3. CASE fetch[r].pc \in {"left", "over"}
  <2>1. Forget(r)
    BY <1>3 DEF JanitorErase
  <2> HIDE DEF r
  <2>2. /\ req' \in [Rid -> Request] /\ \A x \in Rid : Len(req'[x].accum) <= CacheMaxRows
        /\ work' \in [Rid -> Work] /\ work'[r] = NoWork
        /\ req'[r].query = req[r].query /\ req'[r].buf = NewBuffer(Capacity, 0)
        /\ \A x \in Rid \ {r} : req'[x] = req[x] /\ work'[x] = work[x]
    BY <1>2, <2>1, ForgetFacts
  <2>3. TypeOK'
    BY <1>1, <1>2, <2>2, TypesStay DEF TypeOK
  <2>4. Others(r)
    BY <1>1, <2>2 DEF Others
  <2> QED
    BY <1>1, <1>2, <1>3, <2>2, <2>3, <2>4 DEF r
<1>4. CASE fetch[r].pc \notin {"left", "over"}
  <2>1. UNCHANGED <<req, work>>
    BY <1>4 DEF JanitorErase
  <2> HIDE DEF r
  <2>2. TypeOK'
    BY <1>1, <1>2, <2>1, TypesStay DEF TypeOK
  <2>3. Others(r)
    BY <1>1, <2>1 DEF Others
  <2> QED
    BY <1>1, <1>2, <1>4, <2>1, <2>2, <2>3 DEF r
<1> QED
  BY <1>3, <1>4

(* The janitor takes a snapshot of the requests to expire, *)
LEMMA CollectFacts ==
  ASSUME TypeOK, CollectExpired
  PROVE  /\ TypeOK' /\ janitor'.at = NoRid
         /\ UNCHANGED <<issued, req, registered, work, cache, fetch, told, raced, hist>>
<1>1. /\ janitor' = [janitor EXCEPT !.todo = {r \in registered : req[r].idle}]
      /\ janitor.at = NoRid
      /\ UNCHANGED <<issued, req, registered, work, cache, fetch, told, raced, hist>>
  BY DEF CollectExpired
<1>2. /\ janitor' \in [todo : SUBSET Issued, at : Issued \cup {NoRid}]
      /\ janitor'.at = NoRid
  BY <1>1 DEF TypeOK
<1>3. TypeOK'
  BY <1>1, <1>2, TypesStay DEF TypeOK
<1> QED
  BY <1>1, <1>2, <1>3

(* and cancels one of them, if it is still registered. *)
LEMMA JanitorCancelFacts ==
  ASSUME TypeOK, NEW r \in Rid, JanitorCancel(r)
  PROVE  /\ TypeOK' /\ r \in Issued /\ Others(r) /\ hist' = hist /\ janitor'.at = r
         /\ registered' = registered /\ issued' = issued /\ cache' = cache
         /\ fetch' = fetch /\ told' = told /\ work' = work
         /\ \/ r \notin registered /\ req' = req /\ raced' = raced
            \/ /\ r \in registered
               /\ req'[r].buf = CancelBuffer(req[r].buf) /\ req'[r].query = req[r].query
               /\ req'[r].collect = req[r].collect /\ req'[r].accum = req[r].accum
               /\ raced \subseteq raced'
               /\ fetch[r].pc = "flagged" /\ ~fetch[r].canceled => r \in raced'
<1>1. /\ r \in janitor.todo /\ janitor' = [janitor EXCEPT !.at = r]
      /\ UNCHANGED <<issued, registered, work, cache, fetch, told, hist>>
  BY DEF JanitorCancel
<1>2. /\ r \in Issued /\ janitor'.at = r
      /\ janitor' \in [todo : SUBSET Issued, at : Issued \cup {NoRid}]
  BY <1>1 DEF TypeOK
<1>3. CASE r \in registered
  <2>1. CancelRequest(r)
    BY <1>3 DEF JanitorCancel
  <2>2. /\ TypeOK' /\ Others(r)
        /\ req'[r].buf = CancelBuffer(req[r].buf) /\ req'[r].query = req[r].query
        /\ req'[r].collect = req[r].collect /\ req'[r].accum = req[r].accum
        /\ raced \subseteq raced'
        /\ fetch[r].pc = "flagged" /\ ~fetch[r].canceled => r \in raced'
    BY <1>1, <1>2, <2>1, CancelRequestFacts
  <2> QED
    BY <1>1, <1>2, <1>3, <2>2
<1>4. CASE r \notin registered
  <2>1. req' = req /\ raced' = raced
    BY <1>4 DEF JanitorCancel
  <2>2. TypeOK'
    BY <1>1, <1>2, <2>1, TypesStay DEF TypeOK
  <2>3. Others(r)
    BY <1>1, <2>1 DEF Others
  <2> QED
    BY <1>1, <1>2, <1>4, <2>1, <2>2, <2>3
<1> QED
  BY <1>3, <1>4

(* A cached result, replayed: the buffer holds what it has room for, and    *)
(* its only producer is done.                                               *)
LEMMA ReplayFacts ==
  ASSUME NEW rows \in Seq(Row)
  PROVE  /\ CacheBuffer \in Buffers /\ ~CacheBuffer.canceled
         /\ Replay(rows) \in Buffers /\ Replay(rows).q = Enters(CacheBuffer, rows)
         /\ Dropped(CacheBuffer, rows) \subseteq Row
         /\ ~Replay(rows).canceled
         /\ Replay(rows).done = {CacheProducer} /\ Replay(rows).expected = 1
<1> DEFINE b == CacheBuffer
           c == PushRows(b, rows)
<1>1. NewBuffer(Capacity, 1) \in Buffers
  BY NewBufferType
<1>2. b \in Buffers
  BY <1>1, MarkFacts DEF Buffers, CacheBuffer
<1>3. b.q = <<>> /\ ~b.canceled /\ b.expected = 1 /\ b.done = {}
  BY DEF CacheBuffer, MarkProducerStarted, NewBuffer
<1>4. Replay(rows) = MarkProducerDone(c, CacheProducer)
  BY DEF Replay
<1> HIDE DEF b
<1>5. /\ c \in Buffers /\ c.q = b.q \o Enters(b, rows) /\ Enters(b, rows) \in Seq(Row)
      /\ c.canceled = b.canceled /\ c.expected = b.expected /\ c.done = b.done
      /\ Dropped(b, rows) \subseteq Row
  BY <1>2, DroppedFacts
<1>6. c.q = Enters(b, rows)
  <2> DEFINE front == Enters(b, rows)
  <2>1. front \in Seq(Row) /\ c.q = <<>> \o front
    BY <1>3, <1>5
  <2> HIDE DEF front
  <2>2. <<>> \o front = front
    BY <2>1, ConcatEmptySeq
  <2> QED
    BY <2>1, <2>2 DEF front
<1> HIDE DEF c
<1>7. MarkProducerDone(c, CacheProducer) \in Buffers
  BY <1>5, MarkFacts DEF Buffers
<1>8. /\ MarkProducerDone(c, CacheProducer).q = c.q
      /\ MarkProducerDone(c, CacheProducer).canceled = c.canceled
      /\ MarkProducerDone(c, CacheProducer).expected = c.expected
      /\ MarkProducerDone(c, CacheProducer).done = c.done \cup {CacheProducer}
  BY <1>5 DEF MarkProducerDone, Buffers, BufferRecord
<1> QED
  BY <1>2, <1>3, <1>4, <1>5, <1>6, <1>7, <1>8 DEF b

(* The buffer of a query that is executed. *)
LEMMA FreshBuffer ==
  LET b == [NewBuffer(Capacity, Cardinality(Node)) EXCEPT !.started = Node]
  IN  /\ b \in Buffers /\ b.q = <<>> /\ ~b.canceled
      /\ b.done = {} /\ b.expected = Cardinality(Node)
<1> DEFINE n == Cardinality(Node)
<1>1. n \in Nat
  BY PortalConstants, FS_CardinalityType
<1> HIDE DEF n
<1>2. [NewBuffer(Capacity, n) EXCEPT !.started = Node] \in Buffers
  BY <1>1, PortalConstants, EmptySeq DEF NewBuffer, Buffers, BufferRecord
<1>3. /\ [NewBuffer(Capacity, n) EXCEPT !.started = Node].q = <<>>
      /\ ~[NewBuffer(Capacity, n) EXCEPT !.started = Node].canceled
      /\ [NewBuffer(Capacity, n) EXCEPT !.started = Node].done = {}
      /\ [NewBuffer(Capacity, n) EXCEPT !.started = Node].expected = n
  BY DEF NewBuffer
<1> QED
  BY <1>2, <1>3 DEF n

(* A request is numbered and, whatever it starts with, typed. *)
LEMMA SubmitTypes ==
  ASSUME TypeOK, NEW r \in Rid, r = issued + 1, issued' = r,
         registered' = registered \cup {r},
         req' \in [Rid -> Request], \A x \in Rid : Len(req'[x].accum) <= CacheMaxRows,
         work' \in [Rid -> Work], hist' \in [Rid -> History], fetch' \in [Rid -> Fetch],
         cache' \in Seq(CacheEntry), Len(cache') <= CacheCapacity, OneEach(cache'),
         UNCHANGED <<janitor, told, raced>>
  PROVE  TypeOK'
<1>1. /\ issued' \in 0..MaxRequests /\ Issued \subseteq Issued' /\ r \in Issued'
  BY PortalConstants DEF TypeOK, Rid, Issued
<1>2. /\ registered' \subseteq Issued' /\ raced' \subseteq Issued'
      /\ janitor' \in [todo : SUBSET Issued', at : Issued' \cup {NoRid}]
  BY <1>1 DEF TypeOK
<1> QED
  BY <1>1, <1>2 DEF TypeOK, OneEach

(* SubmitQuery finds its query in the cache ... *)
CachedSubmit(q, r) ==
  \E i \in Hits(q) :
    /\ cache' = MovedToFront(cache, i, cache[i])
    /\ req' = [req EXCEPT ![r] = [Blank EXCEPT !.query = q, !.buf = Replay(cache[i].rows)]]
    /\ fetch' = [fetch EXCEPT ![r].pc = "idle"]
    /\ hist' = [hist EXCEPT ![r].source = cache[i].source,
                            ![r].missed = Dropped(CacheBuffer, cache[i].rows)]
    /\ UNCHANGED work

(* ... or has it executed. *)
FreshSubmit(q, r) ==
  /\ Hits(q) = {}
  /\ req' = [req EXCEPT ![r] =
       [Blank EXCEPT !.query = q, !.collect = TRUE,
          !.buf = [NewBuffer(Capacity, Cardinality(Node)) EXCEPT !.started = Node]]]
  /\ work' = [work EXCEPT ![r] = WorkAt("scan")]
  /\ fetch' = [fetch EXCEPT ![r].pc = "submit", ![r].ask = Peers]
  /\ hist' = [hist EXCEPT ![r].source = r]
  /\ UNCHANGED cache

(* It is one or the other. *)
LEMMA SubmitEither ==
  ASSUME TypeOK, NEW q \in Query, NEW r, r = issued + 1, Submit(q)
  PROVE  /\ r \in Rid /\ r \notin Issued /\ issued' = r /\ registered' = registered \cup {r}
         /\ UNCHANGED <<janitor, told, raced>>
         /\ CachedSubmit(q, r) \/ FreshSubmit(q, r)
<1>1. r \notin Issued
  BY DEF TypeOK, Issued
<1> QED
  BY <1>1 DEF Submit, CachedSubmit, FreshSubmit

(* A new request that replays a cached result. *)
LEMMA CachedFacts ==
  ASSUME TypeOK, NEW q \in Query, NEW r \in Rid, r = issued + 1, issued' = r,
         registered' = registered \cup {r}, UNCHANGED <<janitor, told, raced>>,
         CachedSubmit(q, r)
  PROVE  /\ TypeOK' /\ Others(r) /\ req'[r].query = q /\ ~req'[r].collect
         /\ fetch'[r] = [fetch[r] EXCEPT !.pc = "idle"] /\ work'[r] = work[r]
         /\ \E i \in DOMAIN cache :
              /\ cache[i] \in CacheEntry /\ cache[i].spec = q
              /\ req'[r].buf = Replay(cache[i].rows)
              /\ hist'[r].source = cache[i].source
              /\ hist'[r].missed = Dropped(CacheBuffer, cache[i].rows)
              /\ hist'[r].early = hist[r].early
         /\ \A k \in DOMAIN cache' : \E j \in DOMAIN cache : cache'[k] = cache[j]
<1>1. PICK i \in Hits(q) :
        /\ cache' = MovedToFront(cache, i, cache[i])
        /\ req' = [req EXCEPT ![r] = [Blank EXCEPT !.query = q, !.buf = Replay(cache[i].rows)]]
        /\ fetch' = [fetch EXCEPT ![r].pc = "idle"]
        /\ hist' = [hist EXCEPT ![r].source = cache[i].source,
                                ![r].missed = Dropped(CacheBuffer, cache[i].rows)]
        /\ UNCHANGED work
  BY DEF CachedSubmit
<1>2. i \in DOMAIN cache /\ cache[i].spec = q
  BY DEF Hits
<1>3. cache[i] \in CacheEntry
  BY <1>2, ElementOfSeq, LenProperties DEF TypeOK
<1>4. cache[i].rows \in Seq(Row) /\ cache[i].source \in Rid
  BY <1>3 DEF CacheEntry
<1>5. /\ cache' \in Seq(CacheEntry) /\ Len(cache') <= CacheCapacity /\ OneEach(cache')
      /\ \A k \in DOMAIN cache' :
           cache'[k] = cache[i] \/ \E j \in DOMAIN cache : cache'[k] = cache[j]
  BY <1>1, <1>2, <1>3, CacheMoved
<1> DEFINE b == Replay(cache[i].rows)
           st == [Blank EXCEPT !.query = q, !.buf = b]
           src == cache[i].source
           miss == Dropped(CacheBuffer, cache[i].rows)
           f == [fetch[r] EXCEPT !.pc = "idle"]
           h == [hist[r] EXCEPT !.source = src, !.missed = miss]
<1>6. b \in Buffers /\ miss \subseteq Row
  BY <1>4, ReplayFacts
<1>7. req' = [req EXCEPT ![r] = st]
  BY <1>1
<1> HIDE DEF b
<1>8. st \in Request /\ st.accum = Blank.accum
  BY <1>6, BlankType DEF Blank
<1>9. Len(st.accum) <= CacheMaxRows
  BY <1>6, <1>8, BlankType
<1>10. st.query = q /\ st.buf = b /\ ~st.collect
  BY DEF Blank
<1> HIDE DEF st
<1>11. /\ req' \in [Rid -> Request] /\ \A x \in Rid : Len(req'[x].accum) <= CacheMaxRows
       /\ req'[r] = st /\ \A x \in Rid \ {r} : req'[x] = req[x]
  BY <1>7, <1>8, <1>9, ReqUpdate
<1>12. hist[r] \in History /\ fetch[r] \in Fetch
  BY TypeFacts
<1>13. hist' = [hist EXCEPT ![r] = h] /\ fetch' = [fetch EXCEPT ![r] = f]
  BY <1>1
<1>14. src \in Rid
  BY <1>4
<1> HIDE DEF src, miss
<1>15. /\ h \in History /\ h.source = src /\ h.missed = miss /\ h.early = hist[r].early
  BY <1>6, <1>12, <1>14 DEF History
<1>16. f \in Fetch
  BY <1>12 DEF Fetch
<1> HIDE DEF f, h
<1>17. hist' \in [Rid -> History] /\ hist'[r] = h /\ \A x \in Rid \ {r} : hist'[x] = hist[x]
  BY <1>13, <1>15 DEF TypeOK
<1>18. fetch' \in [Rid -> Fetch] /\ fetch'[r] = f /\ \A x \in Rid \ {r} : fetch'[x] = fetch[x]
  BY <1>13, <1>16, FetchUpdate
<1>19. work' = work /\ work' \in [Rid -> Work]
  BY <1>1 DEF TypeOK
<1>20. TypeOK'
  BY <1>5, <1>11, <1>17, <1>18, <1>19, SubmitTypes
<1>21. Others(r)
  BY <1>11, <1>17, <1>18, <1>19 DEF Others
<1> QED
  BY <1>2, <1>3, <1>5, <1>10, <1>11, <1>15, <1>17, <1>18, <1>19, <1>20, <1>21
     DEF b, f, src, miss

(* A new request that is executed. *)
LEMMA FreshFacts ==
  ASSUME TypeOK, NEW q \in Query, NEW r \in Rid, r = issued + 1, issued' = r,
         registered' = registered \cup {r}, UNCHANGED <<janitor, told, raced>>,
         FreshSubmit(q, r)
  PROVE  /\ TypeOK' /\ Others(r) /\ req'[r].query = q /\ req'[r].accum = <<>>
         /\ req'[r].buf = [NewBuffer(Capacity, Cardinality(Node)) EXCEPT !.started = Node]
         /\ fetch'[r] = [fetch[r] EXCEPT !.pc = "submit", !.ask = Peers]
         /\ work'[r] = WorkAt("scan") /\ hist'[r].source = r /\ cache' = cache
<1> DEFINE b == [NewBuffer(Capacity, Cardinality(Node)) EXCEPT !.started = Node]
           st == [Blank EXCEPT !.query = q, !.collect = TRUE, !.buf = b]
           f == [fetch[r] EXCEPT !.pc = "submit", !.ask = Peers]
           h == [hist[r] EXCEPT !.source = r]
<1>1. /\ req' = [req EXCEPT ![r] = st] /\ work' = [work EXCEPT ![r] = WorkAt("scan")]
      /\ fetch' = [fetch EXCEPT ![r] = f] /\ hist' = [hist EXCEPT ![r] = h]
      /\ cache' = cache
  BY DEF FreshSubmit
<1>2. b \in Buffers
  BY FreshBuffer
<1> HIDE DEF b
<1>3. st \in Request /\ st.accum = Blank.accum
  BY <1>2, BlankType DEF Blank
<1>4. st.accum = <<>> /\ Len(st.accum) <= CacheMaxRows
  BY <1>2, <1>3, BlankType
<1>5. st.query = q /\ st.buf = b
  BY DEF Blank
<1> HIDE DEF st
<1>6. /\ req' \in [Rid -> Request] /\ \A x \in Rid : Len(req'[x].accum) <= CacheMaxRows
      /\ req'[r] = st /\ \A x \in Rid \ {r} : req'[x] = req[x]
  BY <1>1, <1>3, <1>4, ReqUpdate
<1>7. hist[r] \in History /\ fetch[r] \in Fetch /\ WorkAt("scan") \in Work
  BY TypeFacts DEF WorkAt, Work
<1>8. h \in History /\ h.source = r
  BY <1>7 DEF History
<1>9. f \in Fetch
  BY <1>7 DEF Fetch
<1> HIDE DEF f, h
<1>10. hist' \in [Rid -> History] /\ hist'[r] = h /\ \A x \in Rid \ {r} : hist'[x] = hist[x]
  BY <1>1, <1>8 DEF TypeOK
<1>11. fetch' \in [Rid -> Fetch] /\ fetch'[r] = f /\ \A x \in Rid \ {r} : fetch'[x] = fetch[x]
  BY <1>1, <1>9, FetchUpdate
<1>12. /\ work' \in [Rid -> Work] /\ work'[r] = WorkAt("scan")
       /\ \A x \in Rid \ {r} : work'[x] = work[x]
  BY <1>1, <1>7 DEF TypeOK
<1>13. cache' \in Seq(CacheEntry) /\ Len(cache') <= CacheCapacity /\ OneEach(cache')
  BY <1>1 DEF TypeOK, OneEach
<1>14. TypeOK'
  BY <1>6, <1>10, <1>11, <1>12, <1>13, SubmitTypes
<1>15. Others(r)
  BY <1>6, <1>10, <1>11, <1>12 DEF Others
<1> QED
  BY <1>1, <1>4, <1>5, <1>6, <1>8, <1>10, <1>11, <1>12, <1>14, <1>15 DEF b, f

(* The peers are asked, and the client is answered. *)
LEMMA AcceptFacts ==
  ASSUME TypeOK, NEW r \in Issued, Accept(r)
  PROVE  /\ TypeOK' /\ Others(r) /\ hist' = hist
         /\ fetch[r].pc = "submit" /\ fetch'[r] = [fetch[r] EXCEPT !.pc = "idle"]
         /\ req'[r] = req[r] /\ work'[r] = work[r] /\ told'[r] = told[r]
<1> DEFINE f == [fetch[r] EXCEPT !.pc = "idle"]
<1>1. r \in Rid /\ fetch[r] \in Fetch
  BY IssuedAreRids, TypeFacts
<1>2. f \in Fetch
  BY <1>1 DEF Fetch
<1>3. fetch' = [fetch EXCEPT ![r] = f] /\ UNCHANGED <<portalVars, req, registered, work, told>>
  BY DEF Accept
<1> HIDE DEF f
<1>4. told' \in [Rid -> Seq(Row)] /\ \A x \in Rid \ {r} : told'[x] = told[x]
  BY <1>3 DEF TypeOK
<1>5. TypeOK' /\ Others(r) /\ hist' = hist /\ fetch'[r] = f /\ req'[r] = req[r] /\ work'[r] = work[r]
  BY <1>1, <1>2, <1>3, <1>4, FetchOnly
<1> QED
  BY <1>3, <1>5 DEF f, Accept

(* CancelQuery, and a buffer that is no longer asked for. *)
LEMMA CancelQueryFacts ==
  ASSUME TypeOK, NEW r \in Issued, CancelQuery(r)
  PROVE  /\ TypeOK' /\ Others(r) /\ hist' = hist /\ janitor' = janitor
         /\ registered' = registered /\ issued' = issued /\ cache' = cache
         /\ fetch' = fetch /\ told' = told /\ work' = work
         /\ req'[r].buf = CancelBuffer(req[r].buf) /\ req'[r].query = req[r].query
         /\ req'[r].collect = req[r].collect /\ req'[r].accum = req[r].accum
         /\ raced \subseteq raced'
         /\ fetch[r].pc = "flagged" /\ ~fetch[r].canceled => r \in raced'
<1>1. CancelRequest(r) /\ UNCHANGED <<issued, registered, work, cache, fetch, janitor, told, hist>>
  BY DEF CancelQuery
<1>2. janitor' \in [todo : SUBSET Issued, at : Issued \cup {NoRid}]
  BY <1>1 DEF TypeOK
<1> QED
  BY <1>1, <1>2, CancelRequestFacts

-----------------------------------------------------------------------------
(* Types, for every run.                                                    *)

(* The first state is of the types, ... *)
LEMMA InitType == Init => TypeOK
<1> SUFFICES ASSUME Init  PROVE TypeOK
  OBVIOUS
<1>1. issued \in 0..MaxRequests /\ Issued = {}
  BY PortalConstants DEF Init, Issued
<1>2. Blank \in Request /\ Len(Blank.accum) <= CacheMaxRows
  <2>1. PICK q \in Query : TRUE
    BY PortalConstants
  <2> QED
    BY NewBufferType, BlankType
<1>3. req \in [Rid -> Request] /\ \A r \in Rid : Len(req[r].accum) <= CacheMaxRows
  BY <1>2 DEF Init
<1>4. work \in [Rid -> Work] /\ hist \in [Rid -> History]
  BY DEF Init, NoWork, WorkAt, Work, NoHist, History
<1>5. cache \in Seq(CacheEntry) /\ Len(cache) <= CacheCapacity /\ DOMAIN cache = {}
  BY EmptySeq, PortalConstants DEF Init
<1>6. fetch \in [Rid -> Fetch] /\ told \in [Rid -> Seq(Row)]
  BY NoFetchType, EmptySeq DEF Init
<1>7. /\ registered \subseteq Issued /\ raced \subseteq Issued
      /\ janitor \in [todo : SUBSET Issued, at : Issued \cup {NoRid}]
  BY DEF Init
<1> QED
  BY <1>1, <1>3, <1>4, <1>5, <1>6, <1>7 DEF TypeOK

(* What a node does is one of four things. *)
LEMMA NodeDoes ==
  ASSUME TypeOK, NEW r \in Issued, NEW p \in Node, Produce(r, p) \/ Repeat(r, p)
  PROVE  \/ \E n \in 0..Rows[req[r].query][p], last \in BOOLEAN : Deposit(r, p, n, last)
         \/ \E n \in 0..Rows[req[r].query][p], last \in BOOLEAN : GiveUp(r, p, n, last)
         \/ Mark(r, p)
         \/ \E from, n \in Nat, done \in BOOLEAN : Again(r, p, from, n, done)
<1>1. Rows[req[r].query][p] \in Nat
  BY NodeFacts
<1>2. CASE Produce(r, p)
  BY <1>2 DEF Produce
<1>3. CASE Repeat(r, p)
  BY <1>1, <1>3 DEF Repeat
<1> QED
  BY <1>2, <1>3

(* ... and every step leads to one that is. *)
LEMMA NextType == TypeOK /\ [Next]_vars => TypeOK'
<1> SUFFICES ASSUME TypeOK, [Next]_vars  PROVE TypeOK'
  OBVIOUS
<1>1. ASSUME NEW q \in Query, Submit(q)  PROVE TypeOK'
  <2>1. CachedSubmit(q, issued + 1) => TypeOK'
    BY <1>1, SubmitEither, CachedFacts
  <2>2. FreshSubmit(q, issued + 1) => TypeOK'
    BY <1>1, SubmitEither, FreshFacts
  <2> QED
    BY <1>1, <2>1, <2>2, SubmitEither
<1>2. ASSUME NEW r \in Issued, SubmitStep(r)  PROVE TypeOK'
  BY <1>2, ForwardFacts, AcceptFacts DEF SubmitStep, Brings
<1>3. ASSUME NEW r \in Issued, NEW p \in Node, Produce(r, p) \/ Repeat(r, p)  PROVE TypeOK'
  BY <1>3, NodeDoes, DepositFacts, GiveUpFacts, MarkFactsOf, AgainFacts DEF Brings
<1>4. ASSUME NEW r \in Issued, FetchStep(r)  PROVE TypeOK'
  BY <1>4, AskFacts, AskGoneFacts, PopFactsOf, ReadCanceledFacts, ReadFinalFacts, FinishFacts
     DEF FetchStep
<1>5. ASSUME NEW r \in Issued, Leave(r) \/ CancelQuery(r) \/ Age(r)  PROVE TypeOK'
  BY <1>5, LeaveFacts, CancelQueryFacts, AgeFacts
<1>6. CASE JanitorStep
  BY <1>6, CollectFacts, JanitorCancelFacts, EraseFacts DEF JanitorStep
<1>7. CASE UNCHANGED vars
  BY <1>7 DEF vars, TypeOK, Issued
<1> QED
  BY <1>1, <1>2, <1>3, <1>4, <1>5, <1>6, <1>7 DEF Next

(* Every value of the portal's state stays of its type: no request is       *)
(* numbered beyond the last one issued, the cache has one entry per query   *)
(* and no more entries than its capacity, and nothing collected for it      *)
(* exceeds cache_max_rows.                                                  *)
THEOREM TypeCorrect == Spec => []TypeOK
<1>1. Init => TypeOK
  BY InitType
<1>2. TypeOK /\ [Next]_vars => TypeOK'
  BY NextType
<1> QED
  BY <1>1, <1>2, PTL DEF Spec


-----------------------------------------------------------------------------
(* What holds of a session.                                                 *)

(* A fetch that came after the cancel: it finds the buffer cancelled and    *)
(* empty, and goes on to say so.                                            *)
LateIsCanceled(r) ==
  fetch[r].late =>
    /\ fetch[r].rows = <<>>
    /\ fetch[r].pc \in {"popping", "popped", "flagged", "final", "over"}
    /\ fetch[r].pc \in {"popping", "popped", "flagged"} => req[r].buf.canceled
    /\ fetch[r].pc \in {"flagged", "final", "over"} => fetch[r].canceled

(* A node that is still scanning is one that the buffer waits for, unless   *)
(* SubmitQuery marked it done early.                                        *)
Awaited(r) ==
  \A p \in Node :
    work[r][p].at = "scan" =>
      /\ req[r].buf.done \subseteq Node
      /\ req[r].buf.expected = Cardinality(Node)
      /\ p \in req[r].buf.done => p \in hist[r].early

(* A row that may come when every producer is marked done. *)
Allowed(r, x) == x[2] \in hist[r].early \/ x \in hist[r].again

(* Final, but for such rows. *)
Drained(r) ==
  \/ req[r].buf.canceled
  \/ AllDone(req[r].buf) /\ \A x \in Range(req[r].buf.q) : Allowed(r, x)

(* While a fetch waits for rows, the size it may have to use is one that    *)
(* the chunk controller has just suggested.                                 *)
Paced(r) ==
  fetch[r].pc = "popping" =>
    \E s \in Nat, pace \in Pace : req[r].chunk = Suggestion(s, pace)

(* What holds of a request whatever the others do: it has no life before    *)
(* SubmitQuery, cancelling empties its buffer for good, and once isFinal    *)
(* was read true nothing comes that it could have waited for.               *)
Session(r) ==
  /\ r \notin Issued => /\ fetch[r] = NoFetch /\ work[r] = NoWork
                        /\ told[r] = <<>> /\ hist[r] = NoHist
  /\ req[r].buf.canceled => req[r].buf.q = <<>>
  /\ LateIsCanceled(r)
  /\ fetch[r].pc = "final" => Drained(r)
  /\ Awaited(r)
  /\ Paced(r)

(* The janitor has cancelled the request it is about to erase. *)
JanitorCanceled == janitor.at \in registered => req[janitor.at].buf.canceled

(* All sessions of the portal. *)
SessionInv == TypeOK /\ (\A r \in Rid : Session(r)) /\ JanitorCanceled

(* What a session needs of the rows that a step brings. *)
Steady(r, new) ==
  /\ req[r].buf.canceled => new = <<>>
  /\ AllDone(req[r].buf) /\ ~req[r].buf.canceled =>
       /\ AllDone(req'[r].buf)
       /\ \A x \in Range(new) : x[2] \in hist'[r].early \/ x \in hist'[r].again
  /\ Awaited(r)'

(* A cancelled buffer takes nothing. *)
LEMMA CanceledTakesNone ==
  ASSUME NEW b \in Buffers, NEW rows \in Seq(Row), b.canceled
  PROVE  Enters(b, rows) = <<>>
<1>1. Enqueued(b, rows) = 0
  BY DEF Enqueued
<1>2. SubSeq(rows, 1, 0) = <<>>
  BY SubSeqEmpty
<1> QED
  BY <1>1, <1>2 DEF Enters

(* The rows that enter are some of those that are pushed. *)
LEMMA EntersSome ==
  ASSUME NEW b \in Buffers, NEW rows \in Seq(Row)
  PROVE  Range(Enters(b, rows)) \subseteq Range(rows)
<1> DEFINE k == Enqueued(b, rows)
<1>1. k \in Nat /\ k <= Len(rows) /\ Len(rows) \in Nat /\ DOMAIN rows = 1..Len(rows)
  BY EnqueuedFacts, LenProperties DEF Buffers
<1>2. Enters(b, rows) = SubSeq(rows, 1, k)
  BY DEF Enters
<1> HIDE DEF k
<1>3. DOMAIN SubSeq(rows, 1, k) = 1..k /\ \A i \in 1..k : SubSeq(rows, 1, k)[i] = rows[i]
  BY <1>1, SubSeqProperties, LenProperties
<1> QED
  BY <1>1, <1>2, <1>3 DEF Range

(* The rows of a chunk are the node's. *)
LEMMA ChunkIsOfNode ==
  ASSUME TypeOK, NEW r \in Issued, NEW p \in Node, NEW from \in Nat, NEW n \in Nat,
         NEW x \in Range(Chunk(r, p, from, n))
  PROVE  x[2] = p
<1>1. DOMAIN Chunk(r, p, from, n) = 1..n
  BY DEF Chunk
<1>2. PICK i \in 1..n : x = Chunk(r, p, from, n)[i]
  BY <1>1 DEF Range
<1>3. x = <<req[r].query, p, from + i>>
  BY <1>2, ChunkFacts
<1> QED
  BY <1>3

(* The marks of a buffer are finitely many, and one more makes them no less. *)
LEMMA DoneGrows ==
  ASSUME NEW b \in Buffers, NEW c \in Buffers, NEW p, c.done = b.done \cup {p},
         c.expected = b.expected, AllDone(b)
  PROVE  AllDone(c)
<1> DEFINE d == b.done
           e == c.done
<1>1. IsFiniteSet(Node \cup {CacheProducer})
  BY PortalConstants, FS_AddElement
<1>2. d \subseteq e /\ e \subseteq Node \cup {CacheProducer}
  BY DEF Buffers, BufferRecord
<1>3. b.expected \in Nat /\ c.expected = b.expected /\ Cardinality(d) >= b.expected
  BY DEF Buffers, BufferRecord, AllDone
<1> HIDE DEF d, e
<1>4. IsFiniteSet(e)
  BY <1>1, <1>2, FS_Subset
<1>5. IsFiniteSet(d) /\ Cardinality(d) <= Cardinality(e)
  BY <1>2, <1>4, FS_Subset
<1>6. Cardinality(d) \in Nat /\ Cardinality(e) \in Nat
  BY <1>4, <1>5, FS_CardinalityType
<1>7. Cardinality(e) >= c.expected
  BY <1>3, <1>5, <1>6
<1> QED
  BY <1>7 DEF AllDone, e

(* When all are marked done, so is every node that is still scanning, and   *)
(* that was early.                                                          *)
LEMMA AllDoneScans ==
  ASSUME TypeOK, NEW r \in Rid, Awaited(r), AllDone(req[r].buf),
         NEW p \in Node, work[r][p].at = "scan"
  PROVE  p \in hist[r].early
<1> DEFINE d == req[r].buf.done
<1>1. /\ d \subseteq Node /\ req[r].buf.expected = Cardinality(Node)
      /\ p \in d => p \in hist[r].early
  BY DEF Awaited
<1>2. Cardinality(d) >= Cardinality(Node)
  BY <1>1 DEF AllDone
<1> HIDE DEF d
<1>3. IsFiniteSet(Node) /\ IsFiniteSet(d)
  BY <1>1, PortalConstants, FS_Subset
<1>4. Cardinality(d) \in Nat /\ Cardinality(Node) \in Nat
  BY <1>3, FS_CardinalityType
<1>5. Cardinality(d) <= Cardinality(Node)
  BY <1>1, <1>3, FS_Subset
<1>6. Cardinality(d) = Cardinality(Node)
  BY <1>2, <1>4, <1>5
<1>7. d = Node
  BY <1>1, <1>3, <1>6, FS_Subset
<1> QED
  BY <1>1, <1>7

(* The steps of the nodes and of the fan-out bring nothing that disturbs a  *)
(* session: a chunk, ... *)
LEMMA DepositSteady ==
  ASSUME TypeOK, NEW r \in Issued, NEW p \in Node,
         NEW n \in 0..Rows[req[r].query][p], NEW last \in BOOLEAN, Deposit(r, p, n, last),
         Session(r)
  PROVE  Steady(r, Enters(req[r].buf, Chunk(r, p, work[r][p].sent, n)))
<1> DEFINE rows == Chunk(r, p, work[r][p].sent, n)
<1>1. /\ Brings(r, Enters(req[r].buf, rows)) /\ n \in Nat
      /\ req'[r].buf.done = req[r].buf.done
      /\ work'[r][p].at = IF last THEN "mark" ELSE "scan"
      /\ \A o \in Node \ {p} : work'[r][o] = work[r][o]
  BY DepositFacts
<1>2. /\ hist[r].early \subseteq hist'[r].early
      /\ req'[r].buf.expected = req[r].buf.expected
  BY <1>1 DEF Brings
<1>3. r \in Rid /\ req[r].buf \in Buffers /\ work[r][p].sent \in Nat
  BY NodeFacts
<1>4. rows \in Seq(Row) /\ \A x \in Range(rows) : x[2] = p
  BY <1>1, <1>3, ChunkFacts, ChunkIsOfNode
<1>5. work[r][p].at = "scan" /\ Awaited(r)
  BY DEF Deposit, HasChunk, Session
<1> HIDE DEF rows
<1>6. req[r].buf.canceled => Enters(req[r].buf, rows) = <<>>
  BY <1>3, <1>4, CanceledTakesNone
<1>7. ASSUME AllDone(req[r].buf)
      PROVE  /\ AllDone(req'[r].buf)
             /\ \A x \in Range(Enters(req[r].buf, rows)) : x[2] \in hist'[r].early
  <2>1. p \in hist'[r].early
    BY <1>2, <1>3, <1>5, <1>7, AllDoneScans
  <2>2. \A x \in Range(Enters(req[r].buf, rows)) : x[2] = p
    BY <1>3, <1>4, EntersSome
  <2>3. AllDone(req'[r].buf)
    BY <1>1, <1>2, <1>7 DEF AllDone
  <2> QED
    BY <2>1, <2>2, <2>3
<1>8. Awaited(r)'
  BY <1>1, <1>2, <1>5 DEF Awaited
<1> QED
  BY <1>6, <1>7, <1>8 DEF Steady, rows

(* ... one that is given up, ... *)
LEMMA GiveUpSteady ==
  ASSUME TypeOK, NEW r \in Issued, NEW p \in Node,
         NEW n \in 0..Rows[req[r].query][p], NEW last \in BOOLEAN, GiveUp(r, p, n, last),
         Session(r)
  PROVE  Steady(r, <<>>)
<1>1. /\ Brings(r, <<>>)
      /\ req'[r].buf.done = req[r].buf.done
      /\ work'[r][p].at = IF last THEN "done" ELSE "scan"
      /\ \A o \in Node \ {p} : work'[r][o] = work[r][o]
  BY GiveUpFacts
<1>2. /\ hist[r].early \subseteq hist'[r].early
      /\ req'[r].buf.expected = req[r].buf.expected
  BY <1>1 DEF Brings
<1>3. work[r][p].at = "scan" /\ Awaited(r)
  BY DEF GiveUp, HasChunk, Session
<1>4. Awaited(r)'
  BY <1>1, <1>2, <1>3 DEF Awaited
<1>5. Range(<<>>) = {} /\ (AllDone(req[r].buf) => AllDone(req'[r].buf))
  BY <1>1, <1>2 DEF AllDone, Range
<1> QED
  BY <1>4, <1>5 DEF Steady

(* ... a done mark, ... *)
LEMMA MarkSteady ==
  ASSUME TypeOK, NEW r \in Issued, NEW p \in Node, Mark(r, p), Session(r)
  PROVE  Steady(r, <<>>)
<1>1. /\ Brings(r, <<>>)
      /\ req'[r].buf.done = req[r].buf.done \cup {p}
      /\ work'[r][p].at = "done"
      /\ \A o \in Node \ {p} : work'[r][o] = work[r][o]
  BY MarkFactsOf
<1>2. /\ hist[r].early \subseteq hist'[r].early
      /\ req'[r].buf.expected = req[r].buf.expected /\ TypeOK'
  BY <1>1 DEF Brings
<1>3. Awaited(r) /\ r \in Rid /\ req[r].buf \in Buffers
  BY NodeFacts DEF Session
<1>4. Awaited(r)'
  BY <1>1, <1>2, <1>3 DEF Awaited
<1>5. req'[r].buf \in Buffers
  BY <1>2, <1>3 DEF TypeOK, Request, Buffers
<1>6. AllDone(req[r].buf) => AllDone(req'[r].buf)
  BY <1>1, <1>2, <1>3, <1>5, DoneGrows
<1>7. Range(<<>>) = {}
  BY DEF Range
<1> QED
  BY <1>4, <1>6, <1>7 DEF Steady

(* ... rows that come again, ... *)
LEMMA AgainSteady ==
  ASSUME TypeOK, NEW r \in Issued, NEW p \in Node,
         NEW from \in Nat, NEW n \in Nat, NEW done \in BOOLEAN, Again(r, p, from, n, done),
         Session(r)
  PROVE  Steady(r, Enters(req[r].buf, Chunk(r, p, from, n)))
<1> DEFINE rows == Chunk(r, p, from, n)
<1>1. /\ Brings(r, Enters(req[r].buf, rows))
      /\ req'[r].buf.done = req[r].buf.done
      /\ work'[r][p].at = IF done THEN "mark" ELSE work[r][p].at
      /\ \A o \in Node \ {p} : work'[r][o] = work[r][o]
      /\ hist'[r].again = hist[r].again \cup Range(rows)
  BY AgainFacts
<1>2. /\ hist[r].early \subseteq hist'[r].early
      /\ req'[r].buf.expected = req[r].buf.expected
  BY <1>1 DEF Brings
<1>3. r \in Rid /\ req[r].buf \in Buffers
  BY NodeFacts
<1>4. rows \in Seq(Row)
  BY ChunkFacts
<1> HIDE DEF rows
<1>5. ~req[r].buf.canceled /\ Awaited(r)
  BY DEF Again, Session
<1>6. Range(Enters(req[r].buf, rows)) \subseteq hist'[r].again
  BY <1>1, <1>3, <1>4, EntersSome
<1>7. AllDone(req[r].buf) => AllDone(req'[r].buf)
  BY <1>1, <1>2 DEF AllDone
<1>8. Awaited(r)'
  BY <1>1, <1>2, <1>5 DEF Awaited
<1> QED
  BY <1>5, <1>6, <1>7, <1>8 DEF Steady, rows

(* ... and an early mark. *)
LEMMA ForwardSteady ==
  ASSUME TypeOK, NEW r \in Issued, NEW p \in Peers, Forward(r, p), Session(r)
  PROVE  Steady(r, <<>>)
<1>1. /\ p \in Node /\ Brings(r, <<>>) /\ work'[r] = work[r]
      /\ \/ req'[r].buf.done = req[r].buf.done
         \/ req'[r].buf.done = req[r].buf.done \cup {p} /\ p \in hist'[r].early
  BY ForwardFacts
<1>2. /\ hist[r].early \subseteq hist'[r].early
      /\ req'[r].buf.expected = req[r].buf.expected /\ TypeOK'
  BY <1>1 DEF Brings
<1>3. Awaited(r) /\ r \in Rid /\ req[r].buf \in Buffers
  BY <1>1, NodeFacts DEF Session
<1>4. Awaited(r)'
  BY <1>1, <1>2, <1>3 DEF Awaited
<1>5. req'[r].buf \in Buffers
  BY <1>2, <1>3 DEF TypeOK, Request, Buffers
<1>6. AllDone(req[r].buf) => AllDone(req'[r].buf)
  <2>1. CASE req'[r].buf.done = req[r].buf.done
    BY <1>2, <2>1 DEF AllDone
  <2>2. CASE req'[r].buf.done = req[r].buf.done \cup {p}
    BY <1>2, <1>3, <1>5, <2>2, DoneGrows
  <2> QED
    BY <1>1, <2>1, <2>2
<1>7. Range(<<>>) = {}
  BY DEF Range
<1> QED
  BY <1>4, <1>6, <1>7 DEF Steady

(* The rows of two lists. *)
LEMMA RangeConcat ==
  ASSUME NEW S, NEW s \in Seq(S), NEW t \in Seq(S)
  PROVE  Range(s \o t) = Range(s) \cup Range(t)
<1> DEFINE m == Len(s)
           n == Len(t)
           u == s \o t
<1>1. m \in Nat /\ n \in Nat /\ DOMAIN s = 1..m /\ DOMAIN t = 1..n
  BY LenProperties
<1>2. /\ u \in Seq(S) /\ Len(u) = m + n
      /\ \A i \in 1..(m + n) : u[i] = IF i <= m THEN s[i] ELSE t[i - m]
  BY ConcatProperties
<1> HIDE DEF m, n, u
<1>3. DOMAIN u = 1..(m + n)
  BY <1>1, <1>2, LenProperties
<1>4. \A i \in 1..m : i \in DOMAIN u /\ u[i] = s[i]
  BY <1>1, <1>2, <1>3
<1>5. ASSUME NEW j \in 1..n  PROVE m + j \in DOMAIN u /\ u[m + j] = t[j]
  <2>1. m + j \in 1..(m + n) /\ ~(m + j <= m) /\ (m + j) - m = j
    BY <1>1
  <2> QED
    BY <1>2, <1>3, <2>1
<1>6. ASSUME NEW i \in DOMAIN u
      PROVE  u[i] \in Range(s) \cup Range(t)
  <2>1. i \in 1..m \/ (i \in Nat /\ ~(i <= m) /\ i - m \in 1..n)
    BY <1>1, <1>3
  <2> QED
    BY <1>1, <1>2, <1>3, <2>1 DEF Range
<1>7. Range(s) \subseteq Range(u) /\ Range(t) \subseteq Range(u)
  BY <1>1, <1>4, <1>5 DEF Range
<1> QED
  BY <1>6, <1>7 DEF Range, u

(* A step that brings such rows leaves the session in order. *)
LEMMA BringsSession ==
  ASSUME TypeOK, NEW r \in Issued, NEW new, Brings(r, new), Steady(r, new), Session(r)
  PROVE  Session(r)'
<1>1. /\ TypeOK' /\ issued' = issued /\ told' = told /\ new \in Seq(Row)
      /\ fetch'[r].pc = fetch[r].pc /\ fetch'[r].rows = fetch[r].rows
      /\ fetch'[r].canceled = fetch[r].canceled /\ fetch'[r].late = fetch[r].late
      /\ req'[r].chunk = req[r].chunk
      /\ req'[r].buf.q = req[r].buf.q \o new
      /\ req'[r].buf.canceled = req[r].buf.canceled
      /\ hist[r].early \subseteq hist'[r].early /\ hist[r].again \subseteq hist'[r].again
  BY DEF Brings
<1>2. r \in Rid /\ r \in Issued' /\ req[r].buf \in Buffers
  BY <1>1, IssuedAreRids, TypeFacts DEF Issued
<1>3. req[r].buf.q \in Seq(Row)
  BY <1>2 DEF Buffers, BufferRecord
<1>4. req'[r].buf.canceled => req'[r].buf.q = <<>>
  BY <1>1, <1>3, EmptySeq, ConcatEmptySeq DEF Session, Steady
<1>5. LateIsCanceled(r)'
  BY <1>1 DEF Session, LateIsCanceled
<1>6. ASSUME fetch'[r].pc = "final"  PROVE Drained(r)'
  <2>1. Drained(r)
    BY <1>1, <1>6 DEF Session
  <2>2. CASE req[r].buf.canceled
    BY <1>1, <2>2 DEF Drained
  <2>3. CASE ~req[r].buf.canceled
    <3>1. /\ AllDone(req'[r].buf)
          /\ \A x \in Range(new) : x[2] \in hist'[r].early \/ x \in hist'[r].again
      BY <2>1, <2>3 DEF Drained, Steady
    <3>2. \A x \in Range(req[r].buf.q) : x[2] \in hist[r].early \/ x \in hist[r].again
      BY <2>1, <2>3 DEF Drained, Allowed
    <3>3. Range(req'[r].buf.q) = Range(req[r].buf.q) \cup Range(new)
      BY <1>1, <1>3, RangeConcat
    <3>4. \A x \in Range(req'[r].buf.q) : x[2] \in hist'[r].early \/ x \in hist'[r].again
      BY <1>1, <3>1, <3>2, <3>3
    <3> QED
      BY <3>1, <3>4 DEF Drained, Allowed
  <2> QED
    BY <2>2, <2>3
<1>7. Awaited(r)' /\ Paced(r)'
  BY <1>1 DEF Steady, Session, Paced
<1> QED
  BY <1>2, <1>4, <1>5, <1>6, <1>7 DEF Session

(* A step about r leaves what holds of the other requests. *)
LEMMA OthersKeep ==
  ASSUME NEW r, Others(r), Issued \subseteq Issued', NEW x \in Rid, x # r, Session(x)
  PROVE  Session(x)'
<1>1. /\ req'[x] = req[x] /\ fetch'[x] = fetch[x] /\ work'[x] = work[x]
      /\ told'[x] = told[x] /\ hist'[x] = hist[x]
  BY DEF Others
<1> QED
  BY <1>1 DEF Session, LateIsCanceled, Awaited, Drained, Allowed, Paced

(* Everything that keeps the list of requests, the registry and the         *)
(* janitor.                                                                 *)
Quiet(r) ==
  \/ SubmitStep(r)
  \/ \E p \in Node : Produce(r, p) \/ Repeat(r, p)
  \/ Ask(r) \/ Pop(r) \/ ReadCanceled(r) \/ ReadFinal(r)
  \/ Leave(r) \/ CancelQuery(r) \/ Age(r)

LEMMA QuietSteps ==
  ASSUME NEW r, Quiet(r)
  PROVE  issued' = issued /\ registered' = registered /\ janitor' = janitor
<1>1. ASSUME NEW p \in Node, Produce(r, p) \/ Repeat(r, p)
      PROVE  issued' = issued /\ registered' = registered /\ janitor' = janitor
  BY <1>1 DEF Produce, Deposit, GiveUp, Mark, Repeat, Again
<1>2. Ask(r) \/ Pop(r) \/ ReadCanceled(r) =>
        issued' = issued /\ registered' = registered /\ janitor' = janitor
  BY DEF Ask, Pop, ReadCanceled, portalVars
<1>3. ReadFinal(r) \/ Leave(r) =>
        issued' = issued /\ registered' = registered /\ janitor' = janitor
  BY DEF ReadFinal, Leave, portalVars
<1>4. CancelQuery(r) \/ Age(r) =>
        issued' = issued /\ registered' = registered /\ janitor' = janitor
  BY DEF CancelQuery, Age, portalVars
<1>5. SubmitStep(r) =>
        issued' = issued /\ registered' = registered /\ janitor' = janitor
  BY DEF SubmitStep, Forward, Accept, portalVars
<1> QED
  BY <1>1, <1>2, <1>3, <1>4, <1>5 DEF Quiet

(* In short: a new request is registered. *)
LEMMA SubmitIssues ==
  ASSUME TypeOK, NEW q \in Query, Submit(q), NEW r, r = issued + 1
  PROVE  /\ r \in Rid /\ r \notin Issued /\ issued' = r /\ Others(r)
         /\ registered' = registered \cup {r} /\ janitor' = janitor
<1>1. /\ r \in Rid /\ r \notin Issued /\ issued' = r /\ registered' = registered \cup {r}
      /\ UNCHANGED <<janitor, told, raced>>
      /\ CachedSubmit(q, r) \/ FreshSubmit(q, r)
  BY SubmitEither
<1>2. CASE CachedSubmit(q, r)
  BY <1>1, <1>2, CachedFacts
<1>3. CASE FreshSubmit(q, r)
  BY <1>1, <1>3, FreshFacts
<1> QED
  BY <1>1, <1>2, <1>3

(* A new request has the session of one that nothing happened to yet. *)
LEMMA SubmitSession ==
  ASSUME TypeOK, NEW q \in Query, NEW r, r = issued + 1, Submit(q), Session(r)
  PROVE  Session(r)'
<1>1. /\ r \in Rid /\ r \notin Issued /\ issued' = r /\ registered' = registered \cup {r}
      /\ UNCHANGED <<janitor, told, raced>>
      /\ CachedSubmit(q, r) \/ FreshSubmit(q, r)
  BY SubmitEither
<1>2. r \in Issued' /\ fetch[r] = NoFetch /\ work[r] = NoWork
  BY <1>1 DEF Session, Issued, Rid
<1>3. CASE CachedSubmit(q, r)
  <2>1. /\ fetch'[r] = [fetch[r] EXCEPT !.pc = "idle"] /\ work'[r] = work[r]
        /\ \E i \in DOMAIN cache :
             /\ cache[i] \in CacheEntry /\ cache[i].spec = q
             /\ req'[r].buf = Replay(cache[i].rows)
             /\ hist'[r].source = cache[i].source
             /\ hist'[r].missed = Dropped(CacheBuffer, cache[i].rows)
             /\ hist'[r].early = hist[r].early
    BY <1>1, <1>3, CachedFacts
  <2>2. PICK i \in DOMAIN cache :
          cache[i] \in CacheEntry /\ req'[r].buf = Replay(cache[i].rows)
    BY <2>1
  <2>3. cache[i].rows \in Seq(Row)
    BY <2>2 DEF CacheEntry
  <2>4. ~req'[r].buf.canceled
    BY <2>2, <2>3, ReplayFacts
  <2>5. fetch'[r].pc = "idle" /\ ~fetch'[r].late
    BY <1>2, <2>1 DEF NoFetch
  <2>6. Awaited(r)'
    BY <1>2, <2>1 DEF Awaited, NoWork, WorkAt
  <2> QED
    BY <1>2, <2>4, <2>5, <2>6 DEF Session, LateIsCanceled, Paced
<1>4. CASE FreshSubmit(q, r)
  <2>1. /\ req'[r].buf = [NewBuffer(Capacity, Cardinality(Node)) EXCEPT !.started = Node]
        /\ fetch'[r] = [fetch[r] EXCEPT !.pc = "submit", !.ask = Peers]
    BY <1>1, <1>4, FreshFacts
  <2>2. /\ ~req'[r].buf.canceled /\ req'[r].buf.done = {}
        /\ req'[r].buf.expected = Cardinality(Node)
    BY <2>1, FreshBuffer
  <2>3. fetch'[r].pc = "submit" /\ ~fetch'[r].late
    BY <1>2, <2>1 DEF NoFetch
  <2>4. Awaited(r)'
    BY <2>2 DEF Awaited
  <2> QED
    BY <1>2, <2>2, <2>3, <2>4 DEF Session, LateIsCanceled, Paced
<1> QED
  BY <1>1, <1>3, <1>4

(* The client is answered. *)
LEMMA AcceptSession ==
  ASSUME TypeOK, NEW r \in Issued, Accept(r), Session(r)
  PROVE  Session(r)'
<1>0. issued' = issued
  BY DEF Accept, portalVars
<1>1. r \in Rid /\ r \in Issued' /\ fetch[r] \in Fetch
  BY <1>0, IssuedAreRids, TypeFacts DEF Issued
<1>2. /\ fetch[r].pc = "submit" /\ fetch'[r] = [fetch[r] EXCEPT !.pc = "idle"]
      /\ req'[r] = req[r] /\ work'[r] = work[r] /\ hist' = hist
  BY AcceptFacts
<1>3. fetch'[r].pc = "idle" /\ fetch'[r].late = fetch[r].late
  BY <1>1, <1>2 DEF Fetch
<1>4. ~fetch[r].late
  BY <1>2 DEF Session, LateIsCanceled
<1>5. Awaited(r)'
  BY <1>2 DEF Session, Awaited
<1> QED
  BY <1>1, <1>2, <1>3, <1>4, <1>5 DEF Session, LateIsCanceled, Paced

(* A request that was forgotten by all but its client, who has no fetch     *)
(* under way. *)
LEMMA GoneSession ==
  ASSUME NEW r \in Issued', req'[r].buf = NewBuffer(Capacity, 0), work'[r] = NoWork,
         fetch'[r].pc \in {"over", "left"}, LateIsCanceled(r)'
  PROVE  Session(r)'
<1>1. ~req'[r].buf.canceled
  BY DEF NewBuffer
<1>2. Awaited(r)'
  BY DEF Awaited, NoWork, WorkAt
<1> QED
  BY <1>1, <1>2 DEF Session, Paced

(* The fetch, step by step. *)
LEMMA AskSession ==
  ASSUME TypeOK, NEW r \in Issued, Ask(r), Session(r)
  PROVE  Session(r)'
<1>1. r \in Rid /\ r \in Issued'
  BY IssuedAreRids, QuietSteps DEF Issued, Quiet
<1>2. CASE r \in registered
  <2>1. /\ fetch'[r] = [NoFetch EXCEPT !.pc = "popping", !.late = req[r].buf.canceled,
                                       !.want = fetch[r].want]
        /\ req'[r].buf = req[r].buf /\ work'[r] = work[r] /\ hist' = hist
    BY <1>2, AskFacts
  <2>2. PICK pace \in Pace : req'[r].chunk = Suggestion(req[r].chunk, pace)
    BY <1>2, AskFacts
  <2>3. /\ fetch'[r].pc = "popping" /\ fetch'[r].rows = <<>>
        /\ fetch'[r].late = req[r].buf.canceled
    BY <2>1 DEF NoFetch
  <2>4. req[r].chunk \in Nat
    BY <1>1, TypeFacts, ChunkConstants DEF Request
  <2>5. Paced(r)'
    BY <2>2, <2>4 DEF Paced
  <2>6. LateIsCanceled(r)'
    BY <2>1, <2>3 DEF LateIsCanceled
  <2>7. Awaited(r)'
    BY <2>1 DEF Session, Awaited
  <2> QED
    BY <1>1, <2>1, <2>3, <2>5, <2>6, <2>7 DEF Session
<1>3. CASE r \notin registered
  <2>1. /\ fetch'[r] = [NoFetch EXCEPT !.pc = "over", !.canceled = TRUE]
        /\ req'[r].buf = NewBuffer(Capacity, 0) /\ work'[r] = NoWork
    BY <1>3, AskGoneFacts
  <2>2. fetch'[r].pc = "over" /\ LateIsCanceled(r)'
    BY <2>1 DEF NoFetch, LateIsCanceled
  <2> QED
    BY <1>1, <2>1, <2>2, GoneSession
<1> QED
  BY <1>2, <1>3

(* So do the steps of a fetch: the pop, ... *)
LEMMA PopSession ==
  ASSUME TypeOK, NEW r \in Issued, Pop(r), Session(r)
  PROVE  Session(r)'
<1> DEFINE max == Asked(fetch[r].want, req[r].chunk)
           rows == Popped(req[r].buf, max)
<1>0. issued' = issued
  BY DEF Pop, portalVars
<1>1. r \in Rid /\ r \in Issued' /\ req[r].buf \in Buffers /\ fetch[r] \in Fetch
  BY <1>0, IssuedAreRids, TypeFacts DEF Issued
<1>2. /\ max \in Nat /\ hist' = hist
      /\ fetch'[r] = [fetch[r] EXCEPT !.pc = "popped", !.rows = rows, !.want = 0]
      /\ req'[r].buf = PopUpTo(req[r].buf, max) /\ work'[r] = work[r]
  BY PopFactsOf
<1> HIDE DEF max
<1>3. /\ SameBut(req[r].buf, req'[r].buf)
      /\ req[r].buf.q = <<>> => req'[r].buf.q = <<>> /\ rows = <<>>
  BY <1>1, <1>2, PopFacts DEF Buffers
<1> HIDE DEF rows
<1>4. /\ fetch'[r].pc = "popped" /\ fetch'[r].rows = rows
      /\ fetch'[r].late = fetch[r].late
  BY <1>1, <1>2 DEF Fetch
<1>5. fetch[r].pc = "popping"
  BY DEF Pop
<1>6. LateIsCanceled(r)'
  BY <1>3, <1>4, <1>5 DEF Session, LateIsCanceled, SameBut
<1>7. Awaited(r)'
  BY <1>2, <1>3 DEF Session, Awaited, SameBut
<1> QED
  BY <1>1, <1>3, <1>4, <1>6, <1>7 DEF Session, Paced, SameBut

(* ... the look at the cancel flag, ... *)
LEMMA ReadCanceledSession ==
  ASSUME TypeOK, NEW r \in Issued, ReadCanceled(r), Session(r)
  PROVE  Session(r)'
<1>0. issued' = issued
  BY DEF ReadCanceled, portalVars
<1>1. r \in Rid /\ r \in Issued' /\ fetch[r] \in Fetch
  BY <1>0, IssuedAreRids, TypeFacts DEF Issued
<1>2. /\ fetch'[r] = [fetch[r] EXCEPT !.pc = "flagged", !.canceled = req[r].buf.canceled]
      /\ req'[r] = req[r] /\ work'[r] = work[r] /\ hist' = hist
  BY ReadCanceledFacts
<1>3. /\ fetch'[r].pc = "flagged" /\ fetch'[r].canceled = req[r].buf.canceled
      /\ fetch'[r].late = fetch[r].late /\ fetch'[r].rows = fetch[r].rows
  BY <1>1, <1>2 DEF Fetch
<1>4. fetch[r].pc = "popped"
  BY DEF ReadCanceled
<1>5. LateIsCanceled(r)'
  BY <1>2, <1>3, <1>4 DEF Session, LateIsCanceled
<1>6. Awaited(r)'
  BY <1>2 DEF Session, Awaited
<1> QED
  BY <1>1, <1>2, <1>3, <1>5, <1>6 DEF Session, Paced

(* What is final is drained. *)
LEMMA FinalIsDrained ==
  ASSUME NEW r, IsFinal(req[r].buf)  PROVE Drained(r)
<1>1. Range(<<>>) = {}
  BY DEF Range
<1> QED
  BY <1>1 DEF IsFinal, Drained

(* ... the look at the rest of the buffer: an answer that is not final goes *)
(* to a client whose request was not cancelled when it began, ... *)
LEMMA ReadFinalSession ==
  ASSUME TypeOK, NEW r \in Issued, ReadFinal(r), Session(r)
  PROVE  Session(r)'
<1>0. issued' = issued /\ fetch[r].pc = "flagged"
  BY DEF ReadFinal, portalVars
<1>1. r \in Rid /\ r \in Issued' /\ fetch[r] \in Fetch /\ fetch[r].pc = "flagged"
  BY <1>0, IssuedAreRids, TypeFacts DEF Issued
<1>2. /\ req'[r] = req[r] /\ work'[r] = work[r] /\ hist' = hist
      /\ \/ /\ IsFinal(req[r].buf)
            /\ fetch'[r] = [fetch[r] EXCEPT !.pc = "final"]
         \/ /\ ~IsFinal(req[r].buf)
            /\ fetch'[r] = [NoFetch EXCEPT !.pc = "idle", !.want = req[r].chunk,
                                           !.late = fetch[r].late]
  BY ReadFinalFacts
<1>3. Awaited(r)'
  BY <1>2 DEF Session, Awaited
<1>4. CASE IsFinal(req[r].buf)
  <2>1. /\ fetch'[r].pc = "final" /\ fetch'[r].canceled = fetch[r].canceled
        /\ fetch'[r].late = fetch[r].late /\ fetch'[r].rows = fetch[r].rows
    BY <1>1, <1>2, <1>4 DEF Fetch
  <2>2. LateIsCanceled(r)'
    BY <1>1, <1>2, <2>1 DEF Session, LateIsCanceled
  <2>3. Drained(r)'
    BY <1>2, <1>4, FinalIsDrained DEF Drained, Allowed
  <2> QED
    BY <1>1, <1>2, <1>3, <2>1, <2>2, <2>3 DEF Session, Paced
<1>5. CASE ~IsFinal(req[r].buf)
  <2>1. fetch'[r].pc = "idle" /\ fetch'[r].late = fetch[r].late
    BY <1>2, <1>5 DEF NoFetch
  <2>2. ~fetch[r].late
    BY <1>1, <1>5 DEF Session, LateIsCanceled, IsFinal
  <2> QED
    BY <1>1, <1>2, <1>3, <2>1, <2>2 DEF Session, Paced, LateIsCanceled
<1> QED
  BY <1>4, <1>5

(* ... and the reply. *)
LEMMA FinishSession ==
  ASSUME TypeOK, NEW r \in Issued, Finish(r), Session(r)
  PROVE  Session(r)'
<1>1. r \in Rid /\ r \in Issued' /\ fetch[r] \in Fetch /\ fetch[r].pc = "final"
  BY IssuedAreRids, TypeFacts DEF Issued, Finish
<1>2. /\ fetch'[r] = [fetch[r] EXCEPT !.pc = "over", !.rows = <<>>]
      /\ req'[r].buf = NewBuffer(Capacity, 0) /\ work'[r] = NoWork
  BY FinishFacts
<1>3. /\ fetch'[r].pc = "over" /\ fetch'[r].rows = <<>>
      /\ fetch'[r].late = fetch[r].late /\ fetch'[r].canceled = fetch[r].canceled
  BY <1>1, <1>2 DEF Fetch
<1>4. LateIsCanceled(r)'
  BY <1>1, <1>3 DEF Session, LateIsCanceled
<1> QED
  BY <1>1, <1>2, <1>3, <1>4, GoneSession

(* A client that leaves keeps it in order, ... *)
LEMMA LeaveSession ==
  ASSUME TypeOK, NEW r \in Issued, Leave(r), Session(r)
  PROVE  Session(r)'
<1>0. issued' = issued /\ fetch[r].pc = "idle"
  BY DEF Leave, portalVars
<1>1. r \in Rid /\ r \in Issued' /\ fetch[r] \in Fetch /\ fetch[r].pc = "idle"
  BY <1>0, IssuedAreRids, TypeFacts DEF Issued
<1>2. /\ fetch'[r] = [fetch[r] EXCEPT !.pc = "left"] /\ hist' = hist
      /\ \/ r \in registered /\ req'[r] = req[r] /\ work'[r] = work[r]
         \/ req'[r].buf = NewBuffer(Capacity, 0) /\ work'[r] = NoWork
  BY LeaveFacts
<1>3. fetch'[r].pc = "left" /\ LateIsCanceled(r)'
  BY <1>1, <1>2 DEF Fetch, Session, LateIsCanceled
<1>4. CASE req'[r] = req[r] /\ work'[r] = work[r]
  BY <1>1, <1>2, <1>3, <1>4 DEF Session, Awaited, Paced
<1>5. CASE req'[r].buf = NewBuffer(Capacity, 0) /\ work'[r] = NoWork
  BY <1>1, <1>3, <1>5, GoneSession
<1> QED
  BY <1>2, <1>4, <1>5

(* Cancelling, by whom and when it may be. *)
LEMMA CancelSession ==
  ASSUME TypeOK, NEW r \in Issued, CancelRequest(r), Session(r), issued' = issued,
         req'[r].buf = CancelBuffer(req[r].buf), UNCHANGED <<fetch, work, told, hist>>
  PROVE  Session(r)' /\ req'[r].buf.canceled
<1>1. r \in Rid /\ r \in Issued' /\ req[r].buf \in Buffers
  BY IssuedAreRids, TypeFacts DEF Issued
<1>2. /\ req'[r].buf.canceled /\ req'[r].buf.q = <<>>
      /\ req'[r].buf.expected = req[r].buf.expected
      /\ req'[r].buf.done = req[r].buf.done
  BY <1>1 DEF CancelBuffer, Buffers, BufferRecord
<1>3. Awaited(r)'
  BY <1>2 DEF Session, Awaited
<1>4. Paced(r)'
  <2>1. req' = [req EXCEPT ![r].buf = CancelBuffer(req[r].buf)]
    BY DEF CancelRequest
  <2>2. CancelBuffer(req[r].buf) \in Buffers
    BY <1>1, EmptySeq DEF CancelBuffer, Buffers, BufferRecord
  <2>3. req'[r].chunk = req[r].chunk
    BY <1>1, <2>1, <2>2, BufStep
  <2> QED
    BY <2>3 DEF Session, Paced
<1>5. LateIsCanceled(r)'
  BY <1>2 DEF Session, LateIsCanceled
<1>6. Drained(r)'
  BY <1>2 DEF Drained
<1> QED
  BY <1>1, <1>2, <1>3, <1>4, <1>5, <1>6 DEF Session

(* ... as do time, ... *)
LEMMA AgeSession ==
  ASSUME TypeOK, NEW r \in Issued, Age(r), Session(r)
  PROVE  Session(r)'
<1>1. r \in Rid /\ r \in Issued' /\ fetch[r].pc \in {"submit", "idle", "left"}
  BY IssuedAreRids, QuietSteps DEF Issued, Age, Quiet
<1>2. /\ req'[r].buf = req[r].buf /\ fetch'[r] = fetch[r] /\ work'[r] = work[r]
      /\ hist' = hist
  BY AgeFacts
<1> QED
  BY <1>1, <1>2 DEF Session, LateIsCanceled, Awaited, Paced

(* ... and the janitor that erases it. *)
LEMMA EraseSession ==
  ASSUME TypeOK, JanitorErase, NEW r, r = janitor.at, Session(r)
  PROVE  Session(r)'
<1>1. /\ r \in Issued /\ fetch'[r] = fetch[r] /\ issued' = issued /\ hist' = hist
      /\ \/ req'[r] = req[r] /\ work'[r] = work[r]
         \/ /\ fetch[r].pc \in {"left", "over"}
            /\ req'[r].buf = NewBuffer(Capacity, 0) /\ work'[r] = NoWork
  BY EraseFacts DEF JanitorErase
<1>2. r \in Issued'
  BY <1>1 DEF Issued
<1>3. CASE req'[r] = req[r] /\ work'[r] = work[r]
  BY <1>1, <1>2, <1>3 DEF Session, LateIsCanceled, Awaited, Drained, Allowed, Paced
<1>4. CASE /\ fetch[r].pc \in {"left", "over"}
           /\ req'[r].buf = NewBuffer(Capacity, 0) /\ work'[r] = NoWork
  <2>1. LateIsCanceled(r)'
    BY <1>1, <1>4 DEF Session, LateIsCanceled
  <2> QED
    BY <1>1, <1>2, <1>4, <2>1, GoneSession
<1> QED
  BY <1>1, <1>3, <1>4

(* Whatever a node does, ... *)
LEMMA NodeBrings ==
  ASSUME TypeOK, NEW r \in Issued, NEW p \in Node, Produce(r, p) \/ Repeat(r, p),
         Session(r)
  PROVE  \E new : Brings(r, new) /\ Steady(r, new)
<1>1. ASSUME NEW n \in 0..Rows[req[r].query][p], NEW last \in BOOLEAN, Deposit(r, p, n, last)
      PROVE  \E new : Brings(r, new) /\ Steady(r, new)
  BY <1>1, DepositFacts, DepositSteady
<1>2. ASSUME NEW n \in 0..Rows[req[r].query][p], NEW last \in BOOLEAN, GiveUp(r, p, n, last)
      PROVE  \E new : Brings(r, new) /\ Steady(r, new)
  BY <1>2, GiveUpFacts, GiveUpSteady
<1>3. CASE Mark(r, p)
  BY <1>3, MarkFactsOf, MarkSteady
<1>4. ASSUME NEW from \in Nat, NEW n \in Nat, NEW done \in BOOLEAN, Again(r, p, from, n, done)
      PROVE  \E new : Brings(r, new) /\ Steady(r, new)
  BY <1>4, AgainFacts, AgainSteady
<1> QED
  BY <1>1, <1>2, <1>3, <1>4, NodeDoes

(* ... and whatever the fan-out does, ... *)
LEMMA ForwardBrings ==
  ASSUME TypeOK, NEW r \in Issued, SubmitStep(r), ~Accept(r), Session(r)
  PROVE  \E new : Brings(r, new) /\ Steady(r, new)
<1>1. PICK p \in Peers : Forward(r, p)
  BY DEF SubmitStep
<1> QED
  BY <1>1, ForwardFacts, ForwardSteady

(* ... no step makes a registered request's buffer other than cancelled     *)
(* again.                                                                   *)
LEMMA CanceledStays ==
  ASSUME TypeOK, NEW r \in registered, req[r].buf.canceled, Quiet(r), Session(r)
  PROVE  req'[r].buf.canceled
<1>1. r \in Issued /\ r \in Rid /\ req[r].buf \in Buffers
  BY IssuedAreRids, TypeFacts DEF TypeOK
<1>2. ASSUME NEW p \in Node, Produce(r, p) \/ Repeat(r, p)
      PROVE  req'[r].buf.canceled
  <2>1. PICK new : Brings(r, new)
    BY <1>1, <1>2, NodeBrings
  <2> QED
    BY <2>1 DEF Brings
<1>3. CASE SubmitStep(r)
  <2>1. CASE Accept(r)
    <3>1. req'[r] = req[r]
      BY <1>1, <2>1, AcceptFacts
    <3> QED
      BY <3>1
  <2>2. CASE ~Accept(r)
    <3>1. PICK new : Brings(r, new)
      BY <1>1, <1>3, <2>2, ForwardBrings
    <3> QED
      BY <3>1 DEF Brings
  <2> QED
    BY <2>1, <2>2
<1>4. CASE Ask(r)
  BY <1>1, <1>4, AskFacts
<1>5. CASE Pop(r)
  <2> DEFINE max == Asked(fetch[r].want, req[r].chunk)
  <2>1. max \in Nat /\ req'[r].buf = PopUpTo(req[r].buf, max)
    BY <1>1, <1>5, PopFactsOf
  <2> HIDE DEF max
  <2>2. PopUpTo(req[r].buf, max).canceled = req[r].buf.canceled
    BY <1>1 DEF PopUpTo, Buffers, BufferRecord
  <2> QED
    BY <2>1, <2>2
<1>6. CASE ReadCanceled(r)
  <2>1. req'[r] = req[r]
    BY <1>1, <1>6, ReadCanceledFacts
  <2> QED
    BY <2>1
<1>7. CASE ReadFinal(r)
  <2>1. req'[r] = req[r]
    BY <1>1, <1>7, ReadFinalFacts
  <2> QED
    BY <2>1
<1>8. CASE Leave(r)
  BY <1>1, <1>8, LeaveFacts
<1>9. CASE CancelQuery(r)
  <2>1. req'[r].buf = CancelBuffer(req[r].buf)
    BY <1>1, <1>9, CancelQueryFacts
  <2> QED
    BY <1>1, <2>1 DEF CancelBuffer, Buffers, BufferRecord
<1>10. CASE Age(r)
  BY <1>1, <1>10, AgeFacts
<1> QED
  BY <1>2, <1>3, <1>4, <1>5, <1>6, <1>7, <1>8, <1>9, <1>10 DEF Quiet

(* A step of a handler, a client or a producer keeps the invariant. *)
LEMMA QuietKeeps ==
  ASSUME SessionInv, NEW r \in Issued, Quiet(r)
  PROVE  (\A x \in Rid : Session(x)') /\ JanitorCanceled'
<1>1. TypeOK /\ r \in Rid /\ Session(r)
  BY IssuedAreRids DEF SessionInv
<1>2. issued' = issued /\ registered' = registered /\ janitor' = janitor
  BY QuietSteps
<1>3. Session(r)' /\ Others(r)
  <2>1. ASSUME NEW p \in Node, Produce(r, p) \/ Repeat(r, p)  PROVE Session(r)' /\ Others(r)
    <3>1. PICK new : Brings(r, new) /\ Steady(r, new)
      BY <1>1, <2>1, NodeBrings
    <3> QED
      BY <1>1, <3>1, BringsSession DEF Brings
  <2>2. CASE Ask(r)
    BY <1>1, <2>2, AskSession, AskFacts, AskGoneFacts
  <2>3. CASE Pop(r)
    <3>1. Session(r)'
      BY <1>1, <2>3, PopSession
    <3>2. Others(r)
      BY <1>1, <2>3, PopFactsOf
    <3> QED
      BY <3>1, <3>2
  <2>4. CASE ReadCanceled(r)
    <3>1. Session(r)'
      BY <1>1, <2>4, ReadCanceledSession
    <3>2. Others(r)
      BY <1>1, <2>4, ReadCanceledFacts
    <3> QED
      BY <3>1, <3>2
  <2>5. CASE ReadFinal(r)
    <3>1. Session(r)'
      BY <1>1, <2>5, ReadFinalSession
    <3>2. Others(r)
      BY <1>1, <2>5, ReadFinalFacts
    <3> QED
      BY <3>1, <3>2
  <2>6. CASE Leave(r)
    BY <1>1, <2>6, LeaveSession, LeaveFacts
  <2>7. CASE CancelQuery(r)
    <3>1. CancelRequest(r)
      BY <2>7 DEF CancelQuery
    <3> QED
      BY <1>1, <2>7, <3>1, CancelSession, CancelQueryFacts
  <2>8. CASE Age(r)
    BY <1>1, <2>8, AgeSession, AgeFacts
  <2>9. CASE SubmitStep(r)
    <3>1. CASE Accept(r)
      BY <1>1, <3>1, AcceptSession, AcceptFacts
    <3>2. CASE ~Accept(r)
      <4>1. PICK new : Brings(r, new) /\ Steady(r, new)
        BY <1>1, <2>9, <3>2, ForwardBrings
      <4> QED
        BY <1>1, <4>1, BringsSession DEF Brings
    <3> QED
      BY <3>1, <3>2
  <2> QED
    BY <2>1, <2>2, <2>3, <2>4, <2>5, <2>6, <2>7, <2>8, <2>9 DEF Quiet
<1>4. ASSUME NEW x \in Rid  PROVE Session(x)'
  <2>1. CASE x = r
    BY <1>3, <2>1
  <2>2. CASE x # r
    BY <1>2, <1>3, <2>2, OthersKeep DEF SessionInv, Issued
  <2> QED
    BY <2>1, <2>2
<1>5. JanitorCanceled'
  <2> SUFFICES ASSUME janitor.at \in registered
               PROVE  req'[janitor.at].buf.canceled
    BY <1>2 DEF JanitorCanceled
  <2>1. req[janitor.at].buf.canceled /\ janitor.at \in Rid
    BY <1>1, IssuedAreRids DEF SessionInv, JanitorCanceled, TypeOK
  <2>2. CASE janitor.at = r
    BY <1>1, <2>1, <2>2, CanceledStays
  <2>3. CASE janitor.at # r
    BY <1>3, <2>1, <2>3 DEF Others
  <2> QED
    BY <2>2, <2>3
<1> QED
  BY <1>4, <1>5

(* In short: a new request is registered. *)(* A new request is nobody's yet, ... *)
LEMMA SubmitKeeps ==
  ASSUME SessionInv, NEW q \in Query, Submit(q)
  PROVE  (\A x \in Rid : Session(x)') /\ JanitorCanceled'
<1>0. PICK r \in {issued + 1} : r = issued + 1
  OBVIOUS
<1>1. TypeOK
  BY DEF SessionInv
<1>2. /\ r \in Rid /\ r \notin Issued /\ issued' = r /\ Others(r)
      /\ registered' = registered \cup {r} /\ janitor' = janitor
  BY <1>0, <1>1, SubmitIssues
<1>3. Session(r)
  BY <1>2 DEF SessionInv
<1>5. Issued \subseteq Issued'
  BY <1>0, <1>1, <1>2, IssuedAreRids DEF Issued
<1>6. Session(r)'
  BY <1>0, <1>1, <1>3, SubmitSession
<1>7. ASSUME NEW x \in Rid  PROVE Session(x)'
  <2>1. CASE x = r
    BY <1>6, <2>1
  <2>2. CASE x # r
    BY <1>2, <1>5, <2>2, OthersKeep DEF SessionInv
  <2> QED
    BY <2>1, <2>2
<1>8. JanitorCanceled'
  <2> SUFFICES ASSUME janitor.at \in registered'
               PROVE  req'[janitor.at].buf.canceled
    BY <1>2 DEF JanitorCanceled
  <2>1. janitor.at # r
    BY <1>1, <1>2, IssuedAreRids DEF TypeOK
  <2>2. janitor.at \in registered /\ janitor.at \in Rid
    BY <1>1, <1>2, <2>1, IssuedAreRids DEF TypeOK
  <2> QED
    BY <1>2, <2>1, <2>2 DEF SessionInv, JanitorCanceled, Others
<1> QED
  BY <1>7, <1>8

(* the final answer takes its request out of the registry, ... *)
LEMMA FinishKeeps ==
  ASSUME SessionInv, NEW r \in Issued, Finish(r)
  PROVE  (\A x \in Rid : Session(x)') /\ JanitorCanceled'
<1>1. TypeOK /\ r \in Rid /\ Session(r)
  BY IssuedAreRids DEF SessionInv
<1>2. Others(r) /\ registered' = registered \ {r} /\ issued' = issued /\ janitor' = janitor
  BY <1>1, FinishFacts DEF Finish
<1>3. Session(r)'
  BY <1>1, FinishSession
<1>4. ASSUME NEW x \in Rid  PROVE Session(x)'
  <2>1. CASE x = r
    BY <1>3, <2>1
  <2>2. CASE x # r
    BY <1>2, <2>2, OthersKeep DEF SessionInv, Issued
  <2> QED
    BY <2>1, <2>2
<1>5. JanitorCanceled'
  <2> SUFFICES ASSUME janitor.at \in registered'
               PROVE  req'[janitor.at].buf.canceled
    BY <1>2 DEF JanitorCanceled
  <2>1. janitor.at \in registered /\ janitor.at # r /\ janitor.at \in Rid
    BY <1>1, <1>2, IssuedAreRids DEF TypeOK
  <2> QED
    BY <1>2, <2>1 DEF SessionInv, JanitorCanceled, Others
<1> QED
  BY <1>4, <1>5

(* and so does the janitor, with one it has cancelled. *)
LEMMA JanitorKeeps ==
  ASSUME SessionInv, JanitorStep
  PROVE  (\A x \in Rid : Session(x)') /\ JanitorCanceled'
<1>1. TypeOK /\ NoRid \notin registered
  BY IssuedAreRids DEF SessionInv, TypeOK
<1>2. CASE CollectExpired
  <2>1. /\ janitor'.at = NoRid
        /\ UNCHANGED <<issued, req, registered, work, cache, fetch, told, raced, hist>>
    BY <1>1, <1>2, CollectFacts
  <2>2. ASSUME NEW x \in Rid  PROVE Session(x)'
    BY <2>1 DEF SessionInv, Session, LateIsCanceled, Awaited, Drained, Allowed,
       Paced, Issued
  <2> QED
    BY <1>1, <2>1, <2>2 DEF JanitorCanceled
<1>3. ASSUME NEW r \in Rid, JanitorCancel(r)
      PROVE  (\A x \in Rid : Session(x)') /\ JanitorCanceled'
  <2>1. /\ r \in Issued /\ Others(r) /\ janitor'.at = r
        /\ registered' = registered /\ issued' = issued
        /\ fetch' = fetch /\ told' = told /\ work' = work /\ hist' = hist
        /\ \/ r \notin registered /\ req' = req
           \/ r \in registered /\ req'[r].buf = CancelBuffer(req[r].buf)
    BY <1>1, <1>3, JanitorCancelFacts
  <2>2. Session(r)' /\ (r \in registered => req'[r].buf.canceled)
    <3>1. CASE r \in registered
      <4>1. CancelRequest(r)
        BY <1>3, <3>1 DEF JanitorCancel
      <4> QED
        BY <1>1, <2>1, <3>1, <4>1, CancelSession DEF SessionInv
    <3>2. CASE r \notin registered
      BY <2>1, <3>2 DEF SessionInv, Session, LateIsCanceled, Awaited, Drained, Allowed,
       Paced, Issued
    <3> QED
      BY <3>1, <3>2
  <2>3. ASSUME NEW x \in Rid  PROVE Session(x)'
    <3>1. CASE x = r
      BY <2>2, <3>1
    <3>2. CASE x # r
      BY <2>1, <3>2, OthersKeep DEF SessionInv, Issued
    <3> QED
      BY <3>1, <3>2
  <2> QED
    BY <2>1, <2>2, <2>3 DEF JanitorCanceled
<1>4. CASE JanitorErase
  <2>1. PICK r \in Issued : r = janitor.at
    BY <1>1, <1>4, EraseFacts
  <2>2. Others(r) /\ janitor'.at = NoRid /\ registered' \subseteq registered /\ issued' = issued
    BY <1>1, <1>4, <2>1, EraseFacts DEF JanitorErase
  <2>3. Session(r)'
    BY <1>1, <1>4, <2>1, EraseSession, IssuedAreRids DEF SessionInv
  <2>4. ASSUME NEW x \in Rid  PROVE Session(x)'
    <3>1. CASE x = r
      BY <2>3, <3>1
    <3>2. CASE x # r
      BY <2>2, <3>2, OthersKeep DEF SessionInv, Issued
    <3> QED
      BY <3>1, <3>2
  <2> QED
    BY <1>1, <2>2, <2>4 DEF JanitorCanceled
<1> QED
  BY <1>2, <1>3, <1>4 DEF JanitorStep

(* At first no session is out of order, ... *)
LEMMA InitSession == Init => SessionInv
<1> SUFFICES ASSUME Init  PROVE SessionInv
  OBVIOUS
<1>1. TypeOK /\ JanitorCanceled
  BY InitType DEF Init, JanitorCanceled
<1>2. ASSUME NEW r \in Rid  PROVE Session(r)
  <2>1. /\ fetch[r] = NoFetch /\ work[r] = NoWork /\ told[r] = <<>>
        /\ hist[r] = NoHist /\ req[r].buf = NewBuffer(Capacity, 0)
    BY DEF Init, Blank
  <2>2. ~req[r].buf.canceled /\ ~fetch[r].late /\ fetch[r].pc = "none"
    BY <2>1 DEF NewBuffer, NoFetch
  <2>3. Awaited(r)
    BY <2>1 DEF Awaited, NoWork, WorkAt
  <2> QED
    BY <2>1, <2>2, <2>3 DEF Session, LateIsCanceled, Paced
<1> QED
  BY <1>1, <1>2 DEF SessionInv

(* ... no step puts one out of order, ... *)
LEMMA NextSession == SessionInv /\ [Next]_vars => SessionInv'
<1> SUFFICES ASSUME SessionInv, [Next]_vars  PROVE SessionInv'
  OBVIOUS
<1>1. TypeOK'
  BY NextType DEF SessionInv
<1>2. (\A x \in Rid : Session(x)') /\ JanitorCanceled'
  <2>1. ASSUME NEW q \in Query, Submit(q)
        PROVE  (\A x \in Rid : Session(x)') /\ JanitorCanceled'
    BY <2>1, SubmitKeeps
  <2>2. ASSUME NEW r \in Issued, Quiet(r)
        PROVE  (\A x \in Rid : Session(x)') /\ JanitorCanceled'
    BY <2>2, QuietKeeps
  <2>3. ASSUME NEW r \in Issued, Finish(r)
        PROVE  (\A x \in Rid : Session(x)') /\ JanitorCanceled'
    BY <2>3, FinishKeeps
  <2>4. CASE JanitorStep
    BY <2>4, JanitorKeeps
  <2>5. CASE UNCHANGED vars
    BY <2>5 DEF vars, SessionInv, Session, JanitorCanceled, LateIsCanceled, Awaited, Drained, Allowed,
       Paced, Issued
  <2> QED
    BY <2>1, <2>2, <2>3, <2>4, <2>5 DEF Next, FetchStep, Quiet
<1> QED
  BY <1>1, <1>2 DEF SessionInv

(* ... so none ever is. *)
LEMMA SessionInvariant == Spec => []SessionInv
<1>1. Init => SessionInv
  BY InitSession
<1>2. SessionInv /\ [Next]_vars => SessionInv'
  BY NextSession
<1> QED
  BY <1>1, <1>2, PTL DEF Spec

(* Cancelled stays cancelled: whoever cancels, and however rows, done marks *)
(* and the janitor race with it, a FetchChunk that comes after the cancel   *)
(* carries no row, says canceled, and is the client's last.                 *)
THEOREM CancelIsForGood == Spec => []CancelSticks
<1>1. SessionInv => CancelSticks
  BY IssuedAreRids DEF SessionInv, Session, LateIsCanceled, CancelSticks
<1> QED
  BY <1>1, SessionInvariant, PTL

(* Only FetchChunk's last step and the janitor's take a request out of the  *)
(* registry, and only one that is final or was cancelled: whatever comes    *)
(* between isFinal and erase is of a peer marked done early, or came before. *)
(* What the janitor's snapshot said, and what it cancelled, still holds     *)
(* when it erases.                                                          *)
THEOREM OnlyFinalIsErased == Spec => ErasedOnlyWhenFinal
<1>1. ASSUME SessionInv, [Next]_vars, NEW r \in registered \ registered'
      PROVE  Drained(r)
  <2>1. TypeOK /\ r \in registered /\ r \notin registered' /\ r \in Rid /\ Session(r)
    BY <1>1, IssuedAreRids DEF SessionInv, TypeOK
  <2>2. ASSUME NEW q \in Query, Submit(q)  PROVE FALSE
    BY <2>1, <2>2 DEF Submit
  <2>3. ASSUME NEW x \in Issued, Quiet(x)  PROVE FALSE
    <3>1. registered' = registered
      BY <2>3, QuietSteps
    <3> QED
      BY <2>1, <3>1
  <2>4. ASSUME NEW x \in Issued, Finish(x)  PROVE Drained(r)
    <3>1. x = r /\ fetch[r].pc = "final"
      BY <2>1, <2>4 DEF Finish
    <3> QED
      BY <2>1, <3>1 DEF Session
  <2>5. CASE JanitorStep
    <3>1. JanitorErase
      BY <2>1, <2>5 DEF JanitorStep, CollectExpired, JanitorCancel
    <3>2. r = janitor.at
      BY <2>1, <3>1 DEF JanitorErase
    <3>3. req[r].buf.canceled
      BY <1>1, <2>1, <3>2 DEF SessionInv, JanitorCanceled
    <3> QED
      BY <3>3 DEF Drained
  <2>6. CASE UNCHANGED vars
    BY <2>1, <2>6 DEF vars
  <2> QED
    BY <1>1, <2>2, <2>3, <2>4, <2>5, <2>6 DEF Next, FetchStep, Quiet
<1>2. ASSUME SessionInv, [Next]_vars, NEW r \in registered \ registered'
      PROVE  LET b == req[r].buf
             IN  \/ IsFinal(b)
                 \/ AllDone(b) /\ \A i \in DOMAIN b.q :
                                    b.q[i][2] \in hist[r].early \/ b.q[i] \in hist[r].again
  <2>1. Drained(r)
    BY <1>1, <1>2
  <2>2. \A i \in DOMAIN req[r].buf.q : req[r].buf.q[i] \in Range(req[r].buf.q)
    BY DEF Range
  <2> QED
    BY <2>1, <2>2 DEF Drained, Allowed, IsFinal
<1>3. SessionInv /\ [Next]_vars =>
        [\A r \in registered \ registered' :
           LET b == req[r].buf
           IN  \/ IsFinal(b)
               \/ AllDone(b) /\ \A i \in DOMAIN b.q :
                                  b.q[i][2] \in hist[r].early \/ b.q[i] \in hist[r].again]_vars
  BY <1>2
<1> QED
  BY <1>3, SessionInvariant, PTL DEF Spec, ErasedOnlyWhenFinal

(* Nobody but its own FetchChunk pops a request's buffer. *)
LEMMA OnlyPopPops ==
  ASSUME TypeOK, [Next]_vars, NEW r \in Issued,
         fetch[r].pc = "popping", fetch'[r].pc = "popped"
  PROVE  Pop(r)
<1>1. r \in Rid /\ fetch'[r] # fetch[r]
  BY IssuedAreRids
<1>2. ASSUME NEW q \in Query, Submit(q)  PROVE FALSE
  <2>1. PICK x \in Rid : x = issued + 1
    BY <1>2 DEF Submit
  <2>2. Others(x) /\ x \notin Issued
    BY <1>2, <2>1, SubmitIssues
  <2> QED
    BY <1>1, <2>2 DEF Others
<1>3. ASSUME NEW x \in Issued, NEW p \in Node, Produce(x, p) \/ Repeat(x, p)  PROVE FALSE
  BY <1>1, <1>3 DEF Produce, Deposit, GiveUp, Mark, Repeat, Again
<1>4. ASSUME NEW x \in Issued, x # r, FetchStep(x) \/ Leave(x)  PROVE FALSE
  <2>1. Others(x)
    BY <1>4, AskFacts, AskGoneFacts, PopFactsOf, ReadCanceledFacts, ReadFinalFacts,
       FinishFacts, LeaveFacts DEF FetchStep
  <2> QED
    BY <1>1, <1>4, <2>1 DEF Others
<1>5. ASSUME NEW x \in Issued, CancelQuery(x) \/ Age(x)  PROVE FALSE
  BY <1>1, <1>5 DEF CancelQuery, Age
<1>6. Ask(r) \/ ReadCanceled(r) \/ ReadFinal(r) \/ Finish(r) \/ Leave(r) => FALSE
  BY DEF Ask, ReadCanceled, ReadFinal, Finish, Leave
<1>7. JanitorStep => FALSE
  BY <1>1 DEF JanitorStep, CollectExpired, JanitorCancel, JanitorErase
<1>8. UNCHANGED vars => FALSE
  BY <1>1 DEF vars
<1>9. ASSUME NEW x \in Issued, SubmitStep(x)  PROVE FALSE
  <2>1. x \in Rid /\ fetch[x] \in Fetch
    BY IssuedAreRids, TypeFacts
  <2>2. CASE Accept(x)
    <3>1. Others(x) /\ fetch[x].pc = "submit"
      BY <2>2, AcceptFacts
    <3> QED
      BY <1>1, <3>1 DEF Others
  <2>3. ASSUME NEW p \in Peers, Forward(x, p)  PROVE FALSE
    <3>1. Others(x) /\ fetch[x].pc = "submit"
      BY <2>3, ForwardFacts DEF Brings, Forward
    <3> QED
      BY <1>1, <3>1 DEF Others
  <2> QED
    BY <1>9, <2>2, <2>3 DEF SubmitStep
<1> QED
  BY <1>2, <1>3, <1>4, <1>5, <1>6, <1>7, <1>8, <1>9 DEF Next, FetchStep

(* A fetch that finds rows takes at least one and at most max_chunk_rows,   *)
(* whatever the client asks for and however the controller has moved the    *)
(* suggestion up and down before, for every word size and every pair of     *)
(* limits that is in order.                                                 *)
THEOREM FetchesTake ==
  ASSUME MinChunk > 0, MinChunk <= MaxChunk
  PROVE  Spec => FetchTakesSomething
<1>1. ASSUME SessionInv, [Next]_vars, NEW r \in Issued,
             fetch[r].pc = "popping", fetch'[r].pc = "popped", req[r].buf.q # <<>>
      PROVE  Len(fetch'[r].rows) \in 1..MaxChunk
  <2>0. TypeOK /\ r \in Rid /\ Session(r)
    BY <1>1, IssuedAreRids DEF SessionInv
  <2>1. TypeOK /\ r \in Rid /\ Session(r) /\ req[r].buf \in Buffers /\ fetch[r] \in Fetch
    BY <2>0, TypeFacts
  <2>2. Pop(r)
    BY <1>1, <2>1, OnlyPopPops
  <2> DEFINE max == Asked(fetch[r].want, req[r].chunk)
             q == req[r].buf.q
  <2>3. fetch'[r] = [fetch[r] EXCEPT !.pc = "popped", !.rows = Popped(req[r].buf, max),
                                     !.want = 0]
    BY <2>1, <2>2, PopFactsOf
  <2>4. PICK s \in Nat, pace \in Pace : req[r].chunk = Suggestion(s, pace)
    BY <1>1, <2>1 DEF Session, Paced
  <2>5. fetch[r].want \in Nat
    BY <2>1, ChunkConstants DEF Fetch
  <2>6. max \in 1..MaxChunk
    BY <2>4, <2>5, AskedIsPositive
  <2>7. q \in Seq(Row) /\ q # <<>>
    BY <1>1, <2>1 DEF Buffers, BufferRecord
  <2>8. fetch'[r].rows = SubSeq(q, 1, Lesser(max, Len(q)))
    BY <2>1, <2>3 DEF Fetch, Popped
  <2> HIDE DEF max, q
  <2>9. Len(q) \in Nat /\ Len(q) > 0 /\ MaxChunk \in Nat
    BY <2>7, LenProperties, EmptySeq, ChunkConstants
  <2>10. Lesser(max, Len(q)) \in 1..Len(q) /\ Lesser(max, Len(q)) <= max
    BY <2>6, <2>9 DEF Lesser
  <2>11. Len(SubSeq(q, 1, Lesser(max, Len(q)))) = Lesser(max, Len(q))
    BY <2>7, <2>9, <2>10, SubSeqProperties
  <2> QED
    BY <2>6, <2>8, <2>9, <2>10, <2>11
<1>2. SessionInv /\ [Next]_vars =>
        [\A r \in Issued :
           fetch[r].pc = "popping" /\ fetch'[r].pc = "popped" /\ req[r].buf.q # <<>> =>
             Len(fetch'[r].rows) \in 1..MaxChunk]_vars
  BY <1>1
<1> QED
  BY <1>2, SessionInvariant, PTL DEF Spec, FetchTakesSomething

-----------------------------------------------------------------------------
(* Lists in which only certain rows come more than once.                    *)

TwiceOnly(s, A) == \A i, j \in DOMAIN s : s[i] = s[j] => i = j \/ s[i] \in A

(* A list goes on with rows that are new to it, or may come again. *)
LEMMA TwiceConcat ==
  ASSUME NEW S, NEW A, NEW s \in Seq(S), NEW t \in Seq(S), TwiceOnly(s, A), TwiceOnly(t, A),
         Range(s) \cap Range(t) \subseteq A
  PROVE  TwiceOnly(s \o t, A)
<1> DEFINE m == Len(s)
           n == Len(t)
           u == s \o t
<1>1. m \in Nat /\ n \in Nat /\ DOMAIN s = 1..m /\ DOMAIN t = 1..n
  BY LenProperties
<1>2. /\ u \in Seq(S) /\ Len(u) = m + n
      /\ \A i \in 1..(m + n) : u[i] = IF i <= m THEN s[i] ELSE t[i - m]
  BY ConcatProperties
<1> HIDE DEF m, n, u
<1>3. DOMAIN u = 1..(m + n)
  BY <1>1, <1>2, LenProperties
<1>4. ASSUME NEW i \in DOMAIN u
      PROVE  \/ i \in 1..m /\ u[i] = s[i] /\ u[i] \in Range(s)
             \/ i \in Nat /\ i > m /\ i - m \in 1..n /\ u[i] = t[i - m] /\ u[i] \in Range(t)
  <2>1. i \in 1..m \/ (i \in Nat /\ ~(i <= m) /\ i > m /\ i - m \in 1..n)
    BY <1>1, <1>3
  <2> QED
    BY <1>1, <1>2, <1>3, <2>1 DEF Range
<1>5. ASSUME NEW i \in DOMAIN u, NEW j \in DOMAIN u, u[i] = u[j], u[i] \notin A
      PROVE  i = j
  <2>1. CASE i \in 1..m /\ u[i] = s[i] /\ u[i] \in Range(s)
    <3>1. j \in 1..m /\ u[j] = s[j]
      BY <1>4, <1>5, <2>1
    <3> QED
      BY <1>1, <1>5, <2>1, <3>1 DEF TwiceOnly
  <2>2. CASE i \in Nat /\ i > m /\ i - m \in 1..n /\ u[i] = t[i - m] /\ u[i] \in Range(t)
    <3>1. j \in Nat /\ j - m \in 1..n /\ u[j] = t[j - m]
      BY <1>4, <1>5, <2>2
    <3>2. i - m = j - m
      BY <1>1, <1>5, <2>2, <3>1 DEF TwiceOnly
    <3> QED
      BY <1>1, <2>2, <3>1, <3>2
  <2> QED
    BY <1>4, <2>1, <2>2
<1> QED
  BY <1>5 DEF TwiceOnly, u

(* The front of such a list is one. *)
LEMMA TwiceFront ==
  ASSUME NEW S, NEW A, NEW s \in Seq(S), NEW t \in Seq(S), TwiceOnly(s \o t, A)
  PROVE  TwiceOnly(s, A)
<1> DEFINE m == Len(s)
           n == Len(t)
           u == s \o t
<1>1. m \in Nat /\ n \in Nat /\ DOMAIN s = 1..m
  BY LenProperties
<1>2. /\ u \in Seq(S) /\ Len(u) = m + n
      /\ \A i \in 1..(m + n) : u[i] = IF i <= m THEN s[i] ELSE t[i - m]
  BY ConcatProperties
<1>3. TwiceOnly(u, A)
  OBVIOUS
<1> HIDE DEF m, n, u
<1>4. DOMAIN u = 1..(m + n)
  BY <1>1, <1>2, LenProperties
<1>5. \A i \in 1..m : i \in DOMAIN u /\ u[i] = s[i]
  BY <1>1, <1>2, <1>4
<1> QED
  BY <1>1, <1>3, <1>5 DEF TwiceOnly

(* Nothing comes twice in an empty list, and more may in a larger set. *)
LEMMA TwiceMore ==
  ASSUME NEW s, NEW A, NEW B, A \subseteq B
  PROVE  TwiceOnly(<<>>, A) /\ (TwiceOnly(s, A) => TwiceOnly(s, B))
  BY DEF TwiceOnly

(* What enters the buffer is the front of what is pushed. *)
LEMMA EntersOnce ==
  ASSUME NEW b \in Buffers, NEW rows \in Seq(Row), NEW A, TwiceOnly(rows, A)
  PROVE  TwiceOnly(Enters(b, rows), A)
<1> DEFINE k == Enqueued(b, rows)
<1>1. k \in Nat /\ k <= Len(rows) /\ Len(rows) \in Nat /\ DOMAIN rows = 1..Len(rows)
  BY EnqueuedFacts, LenProperties DEF Buffers
<1>2. Enters(b, rows) = SubSeq(rows, 1, k)
  BY DEF Enters
<1> HIDE DEF k
<1>3. DOMAIN SubSeq(rows, 1, k) = 1..k /\ \A i \in 1..k : SubSeq(rows, 1, k)[i] = rows[i]
  BY <1>1, SubSeqProperties, LenProperties
<1>4. 1..k \subseteq DOMAIN rows
  BY <1>1
<1> QED
  BY <1>2, <1>3, <1>4 DEF TwiceOnly

(* The rest is dropped, unless the buffer was cancelled. *)
LEMMA PushSplit ==
  ASSUME NEW b \in Buffers, NEW rows \in Seq(Row), ~b.canceled
  PROVE  Range(rows) \subseteq Range(Enters(b, rows)) \cup Dropped(b, rows)
<1> DEFINE k == Enqueued(b, rows)
<1>1. k \in Nat /\ k <= Len(rows) /\ Len(rows) \in Nat /\ DOMAIN rows = 1..Len(rows)
  BY EnqueuedFacts, LenProperties DEF Buffers
<1>2. Enters(b, rows) = SubSeq(rows, 1, k) /\ Took(b, rows) = k
  BY DEF Enters, Took
<1> HIDE DEF k
<1>3. DOMAIN SubSeq(rows, 1, k) = 1..k /\ \A i \in 1..k : SubSeq(rows, 1, k)[i] = rows[i]
  BY <1>1, SubSeqProperties, LenProperties
<1>4. \A i \in DOMAIN rows : i \in 1..k \/ i \in (k + 1)..Len(rows)
  BY <1>1
<1> QED
  BY <1>2, <1>3, <1>4 DEF Range, Dropped

-----------------------------------------------------------------------------
(* The rows of a query, and those that are still to come.                   *)

(* What the nodes that are still scanning have not yet sent. *)
Unsent(q, w) == {row \in Result(q) : w[row[2]].at = "scan" /\ row[3] > w[row[2]].sent}

(* A row of a result is one of some node. *)
LEMMA RowOfResult ==
  ASSUME NEW q, NEW x
  PROVE  x \in Result(q) <=> \E p \in Node : \E i \in 1..Rows[q][p] : x = <<q, p, i>>
  BY DEF Result, RowsOf

(* Before the first chunk all rows are to come, and none of those of a      *)
(* request that is replayed or gone.                                        *)
LEMMA UnsentEnds ==
  ASSUME NEW q \in Query
  PROVE  Unsent(q, WorkAt("scan")) = Result(q) /\ Unsent(q, NoWork) = {}
<1>1. ASSUME NEW x \in Result(q)
      PROVE  x \in Unsent(q, WorkAt("scan")) /\ x \notin Unsent(q, NoWork)
  <2>1. PICK p \in Node, i \in Nat : i \in 1..Rows[q][p] /\ x = <<q, p, i>>
    BY RowOfResult
  <2>2. Rows[q][p] \in Nat
    BY PortalConstants
  <2> QED
    BY <2>1, <2>2 DEF Unsent, WorkAt, NoWork
<1>2. Unsent(q, WorkAt("scan")) \subseteq Result(q) /\ Unsent(q, NoWork) \subseteq Result(q)
  BY DEF Unsent
<1> QED
  BY <1>1, <1>2

(* n rows of p, after the first `from`. *)
Span(q, p, from, n) == {<<q, p, k>> : k \in (from + 1)..(from + n)}

LEMMA SpanRows ==
  ASSUME NEW q, NEW p, NEW from \in Nat, NEW n \in Nat, NEW x
  PROVE  x \in Span(q, p, from, n) <=>
           \E k \in Nat : x = <<q, p, k>> /\ k > from /\ k <= from + n
<1>1. \A k : k \in (from + 1)..(from + n) <=> k \in Nat /\ k > from /\ k <= from + n
  OBVIOUS
<1> QED
  BY <1>1 DEF Span

(* The rows of a chunk are such rows. *)
LEMMA ChunkRange ==
  ASSUME TypeOK, NEW r \in Issued, NEW p \in Node, NEW from \in Nat, NEW n \in Nat
  PROVE  /\ Range(Chunk(r, p, from, n)) = Span(req[r].query, p, from, n)
         /\ \A A : TwiceOnly(Chunk(r, p, from, n), A)
<1> DEFINE q == req[r].query
<1>1. /\ DOMAIN Chunk(r, p, from, n) = 1..n
      /\ \A i \in 1..n : Chunk(r, p, from, n)[i] = <<q, p, from + i>>
  BY DEF Chunk
<1> HIDE DEF q
<1>2. ASSUME NEW x \in Range(Chunk(r, p, from, n))
      PROVE  \E k \in Nat : x = <<q, p, k>> /\ k > from /\ k <= from + n
  <2>1. PICK i \in 1..n : x = <<q, p, from + i>>
    BY <1>1 DEF Range
  <2>2. from + i \in Nat /\ from + i > from /\ from + i <= from + n
    OBVIOUS
  <2> QED
    BY <2>1, <2>2
<1>3. ASSUME NEW x, NEW k \in Nat, x = <<q, p, k>>, k > from, k <= from + n
      PROVE  x \in Range(Chunk(r, p, from, n))
  <2>1. k - from \in 1..n /\ from + (k - from) = k
    BY <1>3
  <2>2. Chunk(r, p, from, n)[k - from] = x
    BY <1>1, <1>3, <2>1
  <2> QED
    BY <1>1, <2>1, <2>2 DEF Range
<1>4. ASSUME NEW A  PROVE TwiceOnly(Chunk(r, p, from, n), A)
  <2>1. ASSUME NEW i \in 1..n, NEW j \in 1..n, <<q, p, from + i>> = <<q, p, from + j>>
        PROVE  i = j
    <3>1. from + i = from + j
      BY <2>1
    <3> QED
      BY <3>1
  <2> QED
    BY <1>1, <2>1 DEF TwiceOnly
<1>5. Range(Chunk(r, p, from, n)) = Span(q, p, from, n)
  <2>1. ASSUME NEW x
        PROVE  x \in Range(Chunk(r, p, from, n)) <=> x \in Span(q, p, from, n)
    BY <1>2, <1>3, SpanRows
  <2> QED
    BY <2>1
<1> QED
  BY <1>4, <1>5 DEF q

(* A node goes on from w to v. *)
LEMMA UnsentMoves ==
  ASSUME NEW q \in Query, NEW w \in Work, NEW v \in Work, NEW p \in Node,
         \A o \in Node \ {p} : v[o] = w[o]
  PROVE  /\ \A o \in Node \ {p} : \A k \in 1..Rows[q][o] :
              <<q, o, k>> \in Unsent(q, v) <=> <<q, o, k>> \in Unsent(q, w)
         /\ \A k \in 1..Rows[q][p] :
              /\ <<q, p, k>> \in Unsent(q, w) <=> w[p].at = "scan" /\ k > w[p].sent
              /\ <<q, p, k>> \in Unsent(q, v) <=> v[p].at = "scan" /\ k > v[p].sent
<1>1. ASSUME NEW o \in Node, NEW k \in 1..Rows[q][o], NEW u \in {v, w}
      PROVE  <<q, o, k>> \in Unsent(q, u) <=> u[o].at = "scan" /\ k > u[o].sent
  <2>1. <<q, o, k>> \in Result(q)
    BY RowOfResult
  <2>2. <<q, o, k>>[2] = o /\ <<q, o, k>>[3] = k
    OBVIOUS
  <2> QED
    BY <2>1, <2>2 DEF Unsent
<1> QED
  BY <1>1

(* When it has sent some rows, they are not to come any more. *)
LEMMA SentRows ==
  ASSUME NEW q \in Query, NEW w \in Work, NEW v \in Work, NEW p \in Node,
         \A o \in Node \ {p} : v[o] = w[o], NEW n \in Nat,
         w[p].at = "scan", w[p].sent + n <= Rows[q][p], v[p].sent = w[p].sent + n
  PROVE  LET rows == Span(q, p, w[p].sent, n)
         IN  /\ rows \subseteq Unsent(q, w) /\ rows \cap Unsent(q, v) = {}
             /\ rows \subseteq Result(q) /\ Unsent(q, v) \subseteq Unsent(q, w)
             /\ (v[p].at = "scan" \/ w[p].sent + n = Rows[q][p]) =>
                  Unsent(q, w) \subseteq Unsent(q, v) \cup rows
<1> DEFINE rows == Span(q, p, w[p].sent, n)
<1>0. \A x : x \in rows <=>
        \E k \in Nat : x = <<q, p, k>> /\ k > w[p].sent /\ k <= w[p].sent + n
  <2>1. w[p].sent \in Nat
    BY DEF Work
  <2> QED
    BY <2>1, SpanRows
<1> HIDE DEF rows
<1>1. w[p].sent \in Nat /\ Rows[q][p] \in Nat
  BY PortalConstants DEF Work
<1>2. ASSUME NEW x \in rows
      PROVE  \E k \in 1..Rows[q][p] : /\ x = <<q, p, k>>
                                      /\ k > w[p].sent /\ k <= w[p].sent + n
  <2>1. PICK k \in Nat : x = <<q, p, k>> /\ k > w[p].sent /\ k <= w[p].sent + n
    BY <1>0
  <2>2. k \in 1..Rows[q][p]
    BY <1>1, <2>1
  <2> QED
    BY <2>1, <2>2
<1>3. rows \subseteq Unsent(q, w) /\ rows \cap Unsent(q, v) = {}
  <2> SUFFICES ASSUME NEW x \in rows  PROVE x \in Unsent(q, w) /\ x \notin Unsent(q, v)
    OBVIOUS
  <2>1. PICK k \in 1..Rows[q][p] : /\ x = <<q, p, k>>
                                   /\ k > w[p].sent /\ k <= w[p].sent + n
    BY <1>2
  <2>2. /\ <<q, p, k>> \in Unsent(q, w) <=> w[p].at = "scan" /\ k > w[p].sent
        /\ <<q, p, k>> \in Unsent(q, v) <=> v[p].at = "scan" /\ k > v[p].sent
    BY UnsentMoves
  <2>3. ~(k > v[p].sent)
    BY <1>1, <2>1
  <2> QED
    BY <2>1, <2>2, <2>3
<1>4. ASSUME NEW x \in Result(q)
      PROVE  /\ x \in Unsent(q, v) => x \in Unsent(q, w)
             /\ (v[p].at = "scan" \/ w[p].sent + n = Rows[q][p]) /\ x \in Unsent(q, w) =>
                  x \in Unsent(q, v) \/ x \in rows
  <2>1. PICK o \in Node, k \in Nat : k \in 1..Rows[q][o] /\ x = <<q, o, k>>
    BY RowOfResult
  <2>2. CASE o # p
    BY <2>1, <2>2, UnsentMoves
  <2>3. CASE o = p
    <3>1. /\ x \in Unsent(q, w) <=> w[p].at = "scan" /\ k > w[p].sent
          /\ x \in Unsent(q, v) <=> v[p].at = "scan" /\ k > v[p].sent
      BY <2>1, <2>3, UnsentMoves
    <3>2. k > v[p].sent => k > w[p].sent
      BY <1>1
    <3>3. k > w[p].sent /\ k <= w[p].sent + n => x \in rows
      BY <1>0, <2>1, <2>3
    <3>4. k > w[p].sent + n \/ k <= w[p].sent + n
      BY <1>1
    <3>5. w[p].sent + n = Rows[q][p] => k <= w[p].sent + n
      BY <1>1, <2>1, <2>3
    <3> QED
      BY <3>1, <3>2, <3>3, <3>4, <3>5
  <2> QED
    BY <2>2, <2>3
<1>5. Unsent(q, w) \subseteq Result(q) /\ Unsent(q, v) \subseteq Result(q)
  BY DEF Unsent
<1> QED
  BY <1>3, <1>4, <1>5 DEF rows

(* When it sends none, and does not begin to scan, nothing changes. *)
LEMMA SentNothing ==
  ASSUME NEW q \in Query, NEW w \in Work, NEW v \in Work, NEW p \in Node,
         \A o \in Node \ {p} : v[o] = w[o], v[p].sent = w[p].sent,
         v[p].at = "scan" <=> w[p].at = "scan"
  PROVE  Unsent(q, v) = Unsent(q, w)
<1>1. ASSUME NEW x \in Result(q)
      PROVE  x \in Unsent(q, v) <=> x \in Unsent(q, w)
  <2>1. PICK o \in Node, k \in Nat : k \in 1..Rows[q][o] /\ x = <<q, o, k>>
    BY RowOfResult
  <2>2. CASE o # p
    BY <2>1, <2>2, UnsentMoves
  <2>3. CASE o = p
    BY <2>1, <2>3, UnsentMoves
  <2> QED
    BY <2>2, <2>3
<1>2. Unsent(q, w) \subseteq Result(q) /\ Unsent(q, v) \subseteq Result(q)
  BY DEF Unsent
<1> QED
  BY <1>1, <1>2

-----------------------------------------------------------------------------
(* What becomes of the rows of a request.                                   *)

(* The history of a request only grows, and its query and its source are    *)
(* for good.                                                                *)
Grows ==
  /\ Issued \subseteq Issued' /\ raced \subseteq raced'
  /\ \A s \in Issued : /\ req'[s].query = req[s].query
                       /\ hist'[s].source = hist[s].source
                       /\ hist[s].early \subseteq hist'[s].early
                       /\ hist[s].missed \subseteq hist'[s].missed
                       /\ hist[s].again \subseteq hist'[s].again

(* It is enough to look at the request a step is about. *)
LEMMA StepGrows ==
  ASSUME NEW r \in Rid, Others(r), TypeOK, Issued \subseteq Issued', raced \subseteq raced',
         r \in Issued => /\ req'[r].query = req[r].query
                         /\ hist'[r].source = hist[r].source
                         /\ hist[r].early \subseteq hist'[r].early
                         /\ hist[r].missed \subseteq hist'[r].missed
                         /\ hist[r].again \subseteq hist'[r].again
  PROVE  Grows
<1> SUFFICES ASSUME NEW s \in Issued
             PROVE  /\ req'[s].query = req[s].query
                    /\ hist'[s].source = hist[s].source
                    /\ hist[s].early \subseteq hist'[s].early
                    /\ hist[s].missed \subseteq hist'[s].missed
                    /\ hist[s].again \subseteq hist'[s].again
  BY DEF Grows
<1>1. CASE s = r
  BY <1>1
<1>2. CASE s # r
  <2>1. req'[s] = req[s] /\ hist'[s] = hist[s]
    BY <1>2, IssuedAreRids DEF Others
  <2> QED
    BY <2>1
<1> QED
  BY <1>1, <1>2

(* What a request may leave out it always may. *)
LEMMA LostGrows ==
  ASSUME Grows, NEW s \in Issued
  PROVE  Lost(s) \subseteq Lost(s)'
<1>1. /\ req'[s].query = req[s].query /\ hist[s].early \subseteq hist'[s].early
      /\ hist[s].missed \subseteq hist'[s].missed
  BY DEF Grows
<1> QED
  BY <1>1 DEF Lost

(* Where a fetch is of a session whose client is still there. *)
Live == {"submit", "idle", "popping", "popped", "flagged", "final"}

(* What the client was told, what its fetch holds, and what is queued, in   *)
(* this order.                                                              *)
Stream(r) == (told[r] \o fetch[r].rows) \o req[r].buf.q

(* The rows of S are all, but for what may be left out. *)
Covered(r, S) ==
  \/ raced \cap {r, hist[r].source} # {}
  \/ Result(req[r].query) \subseteq S \cup Lost(r) \cup Lost(hist[r].source)

(* The source of a request is one for the same query; one that is replayed  *)
(* has no nodes of its own.                                                 *)
Sourced(r) ==
  /\ hist[r].source \in Issued /\ req[hist[r].source].query = req[r].query
  /\ hist[r].source # r => work[r] = NoWork

(* No node sends more rows than match. *)
Within(r) == \A p \in Node : work[r][p].sent <= Rows[req[r].query][p]

(* A stream has rows of the query that have been sent, each once but for    *)
(* what was pushed again.                                                   *)
Streamed(r) ==
  fetch[r].pc # "left" =>
    /\ Range(Stream(r)) \subseteq Result(req[r].query) \ Unsent(req[r].query, work[r])
    /\ TwiceOnly(Stream(r), hist[hist[r].source].again)

(* As long as it is not cancelled it has all that have been sent. *)
Kept(r) ==
  fetch[r].pc \in Live /\ ~req[r].buf.canceled =>
    Covered(r, Range(Stream(r)) \cup Unsent(req[r].query, work[r]))

(* A request cancelled after its canceled flag was read is noticed. *)
Noticed(r) ==
  fetch[r].pc = "flagged" /\ ~fetch[r].canceled /\ req[r].buf.canceled => r \in raced

(* The last answer completes what the client was told ... *)
Completes(r) ==
  fetch[r].pc = "final" /\ ~fetch[r].canceled => Covered(r, Range(told[r] \o fetch[r].rows))

(* ... and then it has everything. *)
Completed(r) ==
  fetch[r].pc = "over" /\ ~fetch[r].canceled => Covered(r, Range(told[r]))

(* What is kept for the cache is what the client was told. *)
Shadowed(r) ==
  fetch[r].pc \in Live /\ req[r].collect =>
    req[r].accum = told[r] \o fetch[r].rows /\ hist[r].source = r

(* Between an answer and the next pop a fetch holds no rows. *)
Holding(r) == fetch[r].pc \in {"submit", "idle", "popping", "over"} => fetch[r].rows = <<>>

Whole(r) ==
  /\ Holding(r) /\ Sourced(r) /\ Within(r) /\ Streamed(r) /\ Kept(r)
  /\ Noticed(r) /\ Completes(r) /\ Completed(r) /\ Shadowed(r)

(* An entry of the cache has the rows its source was told. *)
EntryWhole(e) ==
  /\ e.source \in Issued /\ req[e.source].query = e.spec
  /\ Range(e.rows) \subseteq Result(e.spec) /\ TwiceOnly(e.rows, hist[e.source].again)
  /\ e.source \in raced \/ Result(e.spec) \subseteq Range(e.rows) \cup Lost(e.source)

CacheWhole == \A i \in DOMAIN cache : EntryWhole(cache[i])

(* All streams of the portal, and the results in its cache. *)
WholeInv == SessionInv /\ (\A r \in Issued : Whole(r)) /\ CacheWhole

(* What covers the result goes on to. *)
LEMMA CoveredGrows ==
  ASSUME Grows, NEW r \in Issued, hist[r].source \in Issued,
         NEW S, NEW T, Covered(r, S), S \subseteq T \cup Lost(r)'
  PROVE  \/ raced' \cap {r, hist'[r].source} # {}
         \/ Result(req'[r].query) \subseteq T \cup Lost(r)' \cup Lost(hist[r].source)'
<1>1. PICK s \in Issued : s = hist[r].source
  OBVIOUS
<1>2. hist'[r].source = s /\ req'[r].query = req[r].query /\ raced \subseteq raced'
  BY <1>1 DEF Grows
<1>3. Lost(r) \subseteq Lost(r)' /\ Lost(s) \subseteq Lost(s)'
  BY LostGrows
<1>4. raced \cap {r, s} # {} \/ Result(req[r].query) \subseteq S \cup Lost(r) \cup Lost(s)
  BY <1>1 DEF Covered
<1>5. Lost(hist[r].source)' = Lost(s)'
  BY <1>2 DEF Lost
<1> QED
  BY <1>2, <1>3, <1>4, <1>5

(* All of a stream are rows. *)
LEMMA StreamTypes ==
  ASSUME TypeOK, NEW r \in Rid
  PROVE  /\ told[r] \in Seq(Row) /\ fetch[r].rows \in Seq(Row)
         /\ req[r].buf.q \in Seq(Row) /\ req[r].accum \in Seq(Row)
         /\ told[r] \o fetch[r].rows \in Seq(Row) /\ Stream(r) \in Seq(Row)
<1>1. /\ told[r] \in Seq(Row) /\ fetch[r].rows \in Seq(Row)
      /\ req[r].buf.q \in Seq(Row) /\ req[r].accum \in Seq(Row)
  BY TypeFacts DEF Fetch, Request, Buffers, BufferRecord
<1>2. told[r] \o fetch[r].rows \in Seq(Row)
  BY <1>1, ConcatProperties
<1>3. Stream(r) \in Seq(Row)
  BY <1>1, <1>2, ConcatProperties DEF Stream
<1> QED
  BY <1>1, <1>2, <1>3

(* The parts of a stream may be put together in any order of grouping. *)
LEMMA Regroup ==
  ASSUME NEW a \in Seq(Row), NEW b \in Seq(Row), NEW c \in Seq(Row)
  PROVE  (a \o b) \o c = a \o (b \o c)
  BY ConcatAssociative

LEMMA NothingAfter ==
  ASSUME NEW a \in Seq(Row)
  PROVE  a \o <<>> = a /\ <<>> \o a = a /\ Range(<<>>) = {}
<1>1. a \o <<>> = a /\ <<>> \o a = a
  BY ConcatEmptySeq
<1> QED
  BY <1>1 DEF Range

(* What was told and fetched is sound. *)
LEMMA FrontIsSound ==
  ASSUME TypeOK, NEW r \in Rid, Streamed(r), fetch[r].pc # "left"
  PROVE  /\ Range(told[r] \o fetch[r].rows) \subseteq Result(req[r].query)
         /\ TwiceOnly(told[r] \o fetch[r].rows, hist[hist[r].source].again)
<1> DEFINE u == told[r] \o fetch[r].rows
           q == req[r].buf.q
           A == hist[hist[r].source].again
<1>1. u \in Seq(Row) /\ q \in Seq(Row)
  BY StreamTypes
<1>2. Range(u \o q) \subseteq Result(req[r].query) /\ TwiceOnly(u \o q, A)
  BY DEF Streamed, Stream
<1> HIDE DEF u, q, A
<1>3. Range(u \o q) = Range(u) \cup Range(q) /\ TwiceOnly(u, A)
  BY <1>1, <1>2, RangeConcat, TwiceFront
<1>4. Range(u) \subseteq Result(req[r].query) /\ TwiceOnly(u, A)
  BY <1>2, <1>3
<1> QED
  BY <1>4 DEF u, A

(* A step that keeps the stream of a request, and lets no client come back, *)
(* keeps what is invariant about it.                                        *)
LEMMA SameStream ==
  ASSUME Grows, NEW r \in Issued, Whole(r), work'[r] = work[r], Stream(r)' = Stream(r),
         fetch'[r].pc # "left" => fetch[r].pc # "left",
         fetch'[r].pc \in Live => fetch[r].pc \in Live,
         req[r].buf.canceled => req'[r].buf.canceled,
         Holding(r)', Noticed(r)', Completes(r)', Completed(r)', Shadowed(r)'
  PROVE  Whole(r)'
<1>1. PICK s \in Issued : s = hist[r].source
  BY DEF Whole, Sourced
<1>2. /\ hist'[r].source = s /\ req'[r].query = req[r].query /\ req'[s].query = req[s].query
      /\ hist[s].again \subseteq hist'[s].again /\ s \in Issued'
  BY <1>1 DEF Grows
<1>3. Sourced(r)' /\ Within(r)'
  BY <1>1, <1>2 DEF Whole, Sourced, Within
<1>4. Streamed(r)'
  <2> SUFFICES ASSUME fetch[r].pc # "left"
               PROVE  /\ Range(Stream(r)) \subseteq
                           Result(req[r].query) \ Unsent(req[r].query, work[r])
                      /\ TwiceOnly(Stream(r), hist'[s].again)
    BY <1>2 DEF Streamed
  <2>1. TwiceOnly(Stream(r), hist[s].again)
    BY <1>1 DEF Whole, Streamed
  <2> QED
    BY <1>2, <2>1, TwiceMore DEF Whole, Streamed
<1>5. Kept(r)'
  <2> DEFINE S == Range(Stream(r)) \cup Unsent(req[r].query, work[r])
  <2>1. (Range(Stream(r)) \cup Unsent(req[r].query, work[r]))' = S
    BY <1>2
  <2> SUFFICES ASSUME fetch[r].pc \in Live, ~req[r].buf.canceled
               PROVE  \/ raced' \cap {r, hist'[r].source} # {}
                      \/ Result(req'[r].query) \subseteq
                           S \cup Lost(r)' \cup Lost(hist[r].source)'
    BY <2>1 DEF Kept, Covered
  <2>2. Covered(r, S)
    BY DEF Whole, Kept
  <2> HIDE DEF S
  <2> QED
    BY <1>1, <2>2, CoveredGrows
<1> QED
  BY <1>3, <1>4, <1>5 DEF Whole

(* What a client was told goes on to cover its result. *)
LEMMA ToldStays ==
  ASSUME Grows, NEW r \in Issued, Whole(r), told'[r] = told[r],
         fetch'[r].pc = fetch[r].pc, fetch'[r].rows = fetch[r].rows,
         fetch'[r].canceled = fetch[r].canceled
  PROVE  Completes(r)' /\ Completed(r)'
<1>1. hist[r].source \in Issued
  BY DEF Whole, Sourced
<1>2. Completes(r)'
  <2> DEFINE S == Range(told[r] \o fetch[r].rows)
  <2> SUFFICES ASSUME fetch[r].pc = "final", ~fetch[r].canceled
               PROVE  \/ raced' \cap {r, hist'[r].source} # {}
                      \/ Result(req'[r].query) \subseteq
                           S \cup Lost(r)' \cup Lost(hist[r].source)'
    BY DEF Completes, Covered
  <2>1. Covered(r, S)
    BY DEF Whole, Completes
  <2> HIDE DEF S
  <2> QED
    BY <1>1, <2>1, CoveredGrows
<1>3. Completed(r)'
  <2> DEFINE S == Range(told[r])
  <2> SUFFICES ASSUME fetch[r].pc = "over", ~fetch[r].canceled
               PROVE  \/ raced' \cap {r, hist'[r].source} # {}
                      \/ Result(req'[r].query) \subseteq
                           S \cup Lost(r)' \cup Lost(hist[r].source)'
    BY DEF Completed, Covered
  <2>1. Covered(r, S)
    BY DEF Whole, Completed
  <2> HIDE DEF S
  <2> QED
    BY <1>1, <2>1, CoveredGrows
<1> QED
  BY <1>2, <1>3

(* A step that changes nothing a stream is about keeps it whole, ... *)
LEMMA SameWhole ==
  ASSUME Grows, NEW r \in Issued, Whole(r),
         req'[r].buf = req[r].buf, req'[r].query = req[r].query,
         req'[r].collect = req[r].collect, req'[r].accum = req[r].accum,
         fetch'[r] = fetch[r], work'[r] = work[r], told'[r] = told[r],
         hist'[r] = hist[r]
  PROVE  Whole(r)'
<1>1. Stream(r)' = Stream(r)
  BY DEF Stream
<1>2. Completes(r)' /\ Completed(r)'
  BY ToldStays
<1>3. Holding(r)' /\ Noticed(r)' /\ Shadowed(r)'
  BY DEF Whole, Holding, Noticed, Shadowed, Grows
<1> QED
  BY <1>1, <1>2, <1>3, SameStream

(* ... as does one about another request. *)
LEMMA OthersWhole ==
  ASSUME Grows, NEW r, Others(r), NEW x \in Issued, x \in Rid, x # r, Whole(x)
  PROVE  Whole(x)'
<1>1. /\ req'[x] = req[x] /\ fetch'[x] = fetch[x] /\ work'[x] = work[x]
      /\ told'[x] = told[x] /\ hist'[x] = hist[x]
  BY DEF Others
<1> QED
  BY <1>1, SameWhole

-----------------------------------------------------------------------------
(* What the nodes push.                                                     *)

(* Rows that are sent now, or come again, and what has not entered the      *)
(* buffer is written down.                                                  *)
Fits(r, new) ==
  LET q == req[r].query
      A == hist'[r].again
  IN  /\ Range(new) \subseteq Result(q) \ Unsent(q, work'[r])
      /\ Unsent(q, work'[r]) \subseteq Unsent(q, work[r])
      /\ TwiceOnly(new, A) /\ Range(new) \subseteq Unsent(q, work[r]) \cup A
      /\ ~req[r].buf.canceled =>
           Unsent(q, work[r]) \subseteq Unsent(q, work'[r]) \cup Range(new) \cup hist'[r].missed
      /\ Within(r)'
      /\ hist[r].source = r \/ (new = <<>> /\ work'[r] = work[r])

(* Nodes push to a request that is executed. *)
LEMMA NodesOfSource ==
  ASSUME NEW r, Sourced(r), NEW p \in Node, work[r][p].at # "none"
  PROVE  hist[r].source = r
  BY DEF Sourced, NoWork, WorkAt

LEMMA DepositFits ==
  ASSUME TypeOK, NEW r \in Issued, NEW p \in Node,
         NEW n \in 0..Rows[req[r].query][p], NEW last \in BOOLEAN, Deposit(r, p, n, last),
         Whole(r)
  PROVE  Fits(r, Enters(req[r].buf, Chunk(r, p, work[r][p].sent, n)))
<1> DEFINE rows == Chunk(r, p, work[r][p].sent, n)
           new == Enters(req[r].buf, rows)
           q == req[r].query
<1>1. /\ Brings(r, new) /\ n \in Nat
      /\ work'[r][p].sent = work[r][p].sent + n
      /\ work'[r][p].at = IF last THEN "mark" ELSE "scan"
      /\ \A o \in Node \ {p} : work'[r][o] = work[r][o]
      /\ hist'[r].missed = hist[r].missed \cup Dropped(req[r].buf, rows)
  BY DepositFacts
<1>2. /\ r \in Rid /\ req[r].buf \in Buffers /\ q \in Query /\ work[r] \in Work
      /\ work[r][p].sent \in Nat /\ Rows[q][p] \in Nat
  BY NodeFacts
<1>3. TypeOK' /\ work'[r] \in Work /\ req'[r].query = q
  BY <1>1, <1>2 DEF Brings, TypeOK
<1>4. /\ work[r][p].at = "scan" /\ n <= Rows[q][p] - work[r][p].sent
      /\ last => n = Rows[q][p] - work[r][p].sent \/ req[r].buf.canceled
  BY DEF Deposit, HasChunk
<1>5. /\ rows \in Seq(Row) /\ \A A : TwiceOnly(rows, A)
      /\ Range(rows) = Span(q, p, work[r][p].sent, n)
  BY <1>1, <1>2, ChunkFacts, ChunkRange
<1>6. PICK w \in Work, v \in Work : w = work[r] /\ v = work'[r]
  BY <1>2, <1>3
<1>7. hist[r].source = r
  BY <1>4, NodesOfSource DEF Whole
<1>8. Range(new) \subseteq Range(rows) /\ TwiceOnly(new, hist'[r].again)
  BY <1>2, <1>5, EntersSome, EntersOnce
<1>9. ~req[r].buf.canceled => Range(rows) \subseteq Range(new) \cup Dropped(req[r].buf, rows)
  BY <1>2, <1>5, PushSplit
<1> HIDE DEF rows, new, q
<1>10. /\ w[p].sent + n <= Rows[q][p]
       /\ last /\ ~req[r].buf.canceled => w[p].sent + n = Rows[q][p]
  BY <1>1, <1>2, <1>4, <1>6
<1>11. /\ Range(rows) \subseteq Unsent(q, w) /\ Range(rows) \cap Unsent(q, v) = {}
       /\ Range(rows) \subseteq Result(q) /\ Unsent(q, v) \subseteq Unsent(q, w)
       /\ (v[p].at = "scan" \/ w[p].sent + n = Rows[q][p]) =>
            Unsent(q, w) \subseteq Unsent(q, v) \cup Range(rows)
  <2>1. /\ \A o \in Node \ {p} : v[o] = w[o]
        /\ w[p].at = "scan" /\ v[p].sent = w[p].sent + n /\ n \in Nat /\ q \in Query
        /\ w[p].sent + n <= Rows[q][p]
    BY <1>1, <1>2, <1>4, <1>6, <1>10
  <2>2. Range(rows) = Span(q, p, w[p].sent, n)
    BY <1>5, <1>6
  <2> QED
    BY <2>1, <2>2, SentRows
<1>12. ~req[r].buf.canceled =>
         Unsent(q, w) \subseteq Unsent(q, v) \cup Range(new) \cup hist'[r].missed
  <2>1. v[p].at = IF last THEN "mark" ELSE "scan"
    BY <1>1, <1>6
  <2>2. ~req[r].buf.canceled => Unsent(q, w) \subseteq Unsent(q, v) \cup Range(rows)
    BY <1>10, <1>11, <2>1
  <2> QED
    BY <1>1, <1>9, <2>2
<1>13. Within(r)'
  <2>1. work'[r][p].sent <= Rows[q][p]
    BY <1>1, <1>6, <1>10
  <2>2. \A o \in Node \ {p} : work'[r][o].sent <= Rows[q][o]
    BY <1>1 DEF Whole, Within, q
  <2> QED
    BY <1>3, <2>1, <2>2 DEF Within
<1>14. /\ Range(new) \subseteq Result(q) \ Unsent(q, work'[r])
       /\ Range(new) \subseteq Unsent(q, work[r])
       /\ Unsent(q, work'[r]) \subseteq Unsent(q, work[r])
  BY <1>6, <1>8, <1>11
<1> QED
  BY <1>6, <1>7, <1>8, <1>12, <1>13, <1>14 DEF Fits, q, new, rows

LEMMA GiveUpFits ==
  ASSUME TypeOK, NEW r \in Issued, NEW p \in Node,
         NEW n \in 0..Rows[req[r].query][p], NEW last \in BOOLEAN, GiveUp(r, p, n, last),
         Whole(r)
  PROVE  Fits(r, <<>>)
<1> DEFINE rows == Chunk(r, p, work[r][p].sent, n)
           q == req[r].query
<1>1. /\ Brings(r, <<>>) /\ n \in Nat
      /\ work'[r][p].sent = work[r][p].sent + n
      /\ work'[r][p].at = IF last THEN "done" ELSE "scan"
      /\ \A o \in Node \ {p} : work'[r][o] = work[r][o]
      /\ hist'[r].missed = hist[r].missed \cup Range(rows)
  BY GiveUpFacts
<1>2. /\ r \in Rid /\ q \in Query /\ work[r] \in Work
      /\ work[r][p].sent \in Nat /\ Rows[q][p] \in Nat
  BY NodeFacts
<1>3. TypeOK' /\ work'[r] \in Work /\ req'[r].query = q
  BY <1>1, <1>2 DEF Brings, TypeOK
<1>4. /\ work[r][p].at = "scan" /\ n <= Rows[q][p] - work[r][p].sent
      /\ last => n = Rows[q][p] - work[r][p].sent \/ req[r].buf.canceled
  BY DEF GiveUp, HasChunk
<1>5. Range(rows) = Span(q, p, work[r][p].sent, n)
  BY <1>1, <1>2, ChunkRange
<1>6. PICK w \in Work, v \in Work : w = work[r] /\ v = work'[r]
  BY <1>2, <1>3
<1>7. hist[r].source = r
  BY <1>4, NodesOfSource DEF Whole
<1>8. Range(<<>>) = {} /\ TwiceOnly(<<>>, hist'[r].again)
  BY DEF Range, TwiceOnly
<1> HIDE DEF rows, q
<1>10. /\ w[p].sent + n <= Rows[q][p]
       /\ last /\ ~req[r].buf.canceled => w[p].sent + n = Rows[q][p]
  BY <1>1, <1>2, <1>4, <1>6
<1>11. /\ Unsent(q, v) \subseteq Unsent(q, w)
       /\ (v[p].at = "scan" \/ w[p].sent + n = Rows[q][p]) =>
            Unsent(q, w) \subseteq Unsent(q, v) \cup Range(rows)
  <2>1. /\ \A o \in Node \ {p} : v[o] = w[o]
        /\ w[p].at = "scan" /\ v[p].sent = w[p].sent + n /\ n \in Nat /\ q \in Query
        /\ w[p].sent + n <= Rows[q][p]
    BY <1>1, <1>2, <1>4, <1>6, <1>10
  <2>2. Range(rows) = Span(q, p, w[p].sent, n)
    BY <1>5, <1>6
  <2> QED
    BY <2>1, <2>2, SentRows
<1>12. ~req[r].buf.canceled => Unsent(q, w) \subseteq Unsent(q, v) \cup hist'[r].missed
  <2>1. v[p].at = IF last THEN "done" ELSE "scan"
    BY <1>1, <1>6
  <2>2. ~req[r].buf.canceled => Unsent(q, w) \subseteq Unsent(q, v) \cup Range(rows)
    BY <1>10, <1>11, <2>1
  <2> QED
    BY <1>1, <2>2
<1>13. Within(r)'
  <2>1. work'[r][p].sent <= Rows[q][p]
    BY <1>1, <1>6, <1>10
  <2>2. \A o \in Node \ {p} : work'[r][o].sent <= Rows[q][o]
    BY <1>1 DEF Whole, Within, q
  <2> QED
    BY <1>3, <2>1, <2>2 DEF Within
<1> QED
  BY <1>6, <1>7, <1>8, <1>11, <1>12, <1>13 DEF Fits, q

LEMMA MarkFits ==
  ASSUME TypeOK, NEW r \in Issued, NEW p \in Node, Mark(r, p), Whole(r)
  PROVE  Fits(r, <<>>)
<1> DEFINE q == req[r].query
<1>1. /\ Brings(r, <<>>) /\ work'[r][p].sent = work[r][p].sent /\ work'[r][p].at = "done"
      /\ \A o \in Node \ {p} : work'[r][o] = work[r][o]
  BY MarkFactsOf
<1>2. r \in Rid /\ q \in Query /\ work[r] \in Work
  BY NodeFacts
<1>3. TypeOK' /\ work'[r] \in Work /\ req'[r].query = q
  BY <1>1, <1>2 DEF Brings, TypeOK
<1>4. work[r][p].at = "mark"
  BY DEF Mark
<1>5. hist[r].source = r
  BY <1>4, NodesOfSource DEF Whole
<1>6. PICK w \in Work, v \in Work : w = work[r] /\ v = work'[r]
  BY <1>2, <1>3
<1>7. Unsent(q, v) = Unsent(q, w)
  BY <1>1, <1>2, <1>4, <1>6, SentNothing
<1>8. Range(<<>>) = {} /\ TwiceOnly(<<>>, hist'[r].again)
  BY DEF Range, TwiceOnly
<1>9. Within(r)'
  BY <1>1, <1>3 DEF Whole, Within
<1> QED
  BY <1>5, <1>6, <1>7, <1>8, <1>9 DEF Fits

LEMMA AgainFits ==
  ASSUME TypeOK, NEW r \in Issued, NEW p \in Node,
         NEW from \in Nat, NEW n \in Nat, NEW done \in BOOLEAN, Again(r, p, from, n, done),
         Whole(r)
  PROVE  Fits(r, Enters(req[r].buf, Chunk(r, p, from, n)))
<1> DEFINE rows == Chunk(r, p, from, n)
           new == Enters(req[r].buf, rows)
           q == req[r].query
<1>1. /\ Brings(r, new) /\ work'[r][p].sent = work[r][p].sent
      /\ work'[r][p].at = IF done THEN "mark" ELSE work[r][p].at
      /\ \A o \in Node \ {p} : work'[r][o] = work[r][o]
      /\ hist'[r].again = hist[r].again \cup Range(rows)
  BY AgainFacts
<1>2. /\ r \in Rid /\ req[r].buf \in Buffers /\ q \in Query /\ work[r] \in Work
      /\ work[r][p].sent \in Nat /\ Rows[q][p] \in Nat
  BY NodeFacts
<1>3. TypeOK' /\ work'[r] \in Work /\ req'[r].query = q
  BY <1>1, <1>2 DEF Brings, TypeOK
<1>4. /\ from + n <= work[r][p].sent /\ (n > 0 \/ done)
      /\ done => work[r][p].at \in {"mark", "done"}
  BY DEF Again
<1>5. /\ rows \in Seq(Row) /\ \A A : TwiceOnly(rows, A)
      /\ Range(rows) = Span(q, p, from, n)
  BY <1>2, ChunkFacts, ChunkRange
<1>6. PICK w \in Work, v \in Work : w = work[r] /\ v = work'[r]
  BY <1>2, <1>3
<1>7. Range(new) \subseteq Range(rows) /\ TwiceOnly(new, hist'[r].again)
  BY <1>2, <1>5, EntersSome, EntersOnce
<1>8. hist[r].source = r
  <2> SUFFICES ASSUME work[r] = NoWork  PROVE FALSE
    BY DEF Whole, Sourced
  <2>1. work[r][p].sent = 0 /\ work[r][p].at = "none"
    BY DEF NoWork, WorkAt
  <2> QED
    BY <1>4, <2>1
<1> HIDE DEF rows, new, q
<1>9. Unsent(q, v) = Unsent(q, w)
  BY <1>1, <1>2, <1>4, <1>6, SentNothing
<1>10. ASSUME NEW x \in Range(rows)
       PROVE  x \in Result(q) /\ x \notin Unsent(q, v)
  <2>1. PICK k \in Nat : x = <<q, p, k>> /\ k > from /\ k <= from + n
    BY <1>5, SpanRows
  <2>2. work[r][p].sent <= Rows[q][p]
    BY DEF Whole, Within, q
  <2>3. k \in 1..Rows[q][p] /\ ~(k > v[p].sent)
    BY <1>1, <1>2, <1>4, <1>6, <2>1, <2>2
  <2>4. x \in Result(q)
    BY <2>1, <2>3, RowOfResult
  <2>5. x[2] = p /\ x[3] = k
    BY <2>1
  <2> QED
    BY <2>3, <2>4, <2>5 DEF Unsent
<1>11. Within(r)'
  BY <1>1, <1>3 DEF Whole, Within, q
<1>12. Range(new) \subseteq Result(q) \ Unsent(q, v) /\ Range(new) \subseteq hist'[r].again
  BY <1>1, <1>7, <1>10
<1> QED
  BY <1>6, <1>7, <1>8, <1>9, <1>11, <1>12 DEF Fits, q, new, rows

LEMMA ForwardFits ==
  ASSUME TypeOK, NEW r \in Issued, NEW p \in Peers, Forward(r, p), Whole(r)
  PROVE  Fits(r, <<>>)
<1>1. Brings(r, <<>>) /\ work'[r] = work[r]
  BY ForwardFacts
<1>2. req'[r].query = req[r].query
  BY <1>1 DEF Brings
<1>3. Range(<<>>) = {} /\ TwiceOnly(<<>>, hist'[r].again)
  BY DEF Range, TwiceOnly
<1>4. Within(r)'
  BY <1>1, <1>2 DEF Whole, Within
<1> QED
  BY <1>1, <1>3, <1>4 DEF Fits

(* The stream goes on with what fits. *)
LEMMA BringsWhole ==
  ASSUME TypeOK, NEW r \in Issued, NEW new, Brings(r, new), Fits(r, new), Whole(r)
  PROVE  Whole(r)' /\ Others(r) /\ Grows /\ cache' = cache
<1> DEFINE q == req[r].query
           U == Unsent(q, work[r])
           V == Unsent(q, work'[r])
           s == hist[r].source
           t == told[r] \o fetch[r].rows
           b == req[r].buf.q
           u == Stream(r)
           A == hist'[s].again
<1>1. /\ TypeOK' /\ Others(r) /\ told' = told /\ new \in Seq(Row)
      /\ issued' = issued /\ cache' = cache /\ raced' = raced
      /\ fetch'[r].pc = fetch[r].pc /\ fetch'[r].rows = fetch[r].rows
      /\ fetch'[r].canceled = fetch[r].canceled
      /\ req'[r].query = q /\ req'[r].collect = req[r].collect
      /\ req'[r].accum = req[r].accum
      /\ req'[r].buf.q = b \o new /\ req'[r].buf.canceled = req[r].buf.canceled
      /\ hist'[r].source = s
  BY DEF Brings
<1>2. r \in Rid
  BY IssuedAreRids
<1>3. Grows
  <2>1. /\ hist[r].early \subseteq hist'[r].early /\ hist[r].missed \subseteq hist'[r].missed
        /\ hist[r].again \subseteq hist'[r].again
    BY DEF Brings
  <2>2. Issued \subseteq Issued'
    BY <1>1 DEF Issued
  <2> QED
    BY <1>1, <1>2, <2>1, <2>2, StepGrows
<1>4. t \in Seq(Row) /\ b \in Seq(Row) /\ u \in Seq(Row)
  BY <1>2, StreamTypes
<1>5. s \in Issued /\ hist[s].again \subseteq A
  BY <1>3 DEF Whole, Sourced, Grows
<1>6. Stream(r)' = u \o new
  <2>1. u = t \o b /\ Stream(r)' = t \o (b \o new)
    BY <1>1 DEF Stream
  <2> HIDE DEF t, b, u
  <2> QED
    BY <1>1, <1>4, <2>1, Regroup
<1>7. /\ Range(new) \subseteq Result(q) \ V /\ V \subseteq U
      /\ TwiceOnly(new, hist'[r].again) /\ Range(new) \subseteq U \cup hist'[r].again
      /\ ~req[r].buf.canceled => U \subseteq V \cup Range(new) \cup hist'[r].missed
      /\ Within(r)' /\ (s = r \/ (new = <<>> /\ work'[r] = work[r]))
  BY DEF Fits
<1>8. hist'[r].missed \subseteq Lost(r)'
  BY DEF Lost
<1>9. Range(u \o new) = Range(u) \cup Range(new)
  <2> HIDE DEF u
  <2> QED
    BY <1>1, <1>4, RangeConcat
<1>10. Sourced(r)'
  BY <1>1, <1>3, <1>5, <1>7 DEF Whole, Sourced, Grows
<1>11. Streamed(r)'
  <2> SUFFICES ASSUME fetch[r].pc # "left"
               PROVE  Range(u \o new) \subseteq Result(q) \ V /\ TwiceOnly(u \o new, A)
    BY <1>1, <1>6 DEF Streamed
  <2>1. Range(u) \subseteq Result(q) \ U /\ TwiceOnly(u, hist[s].again)
    BY DEF Whole, Streamed
  <2>2. TwiceOnly(u, A)
    BY <1>5, <2>1, TwiceMore
  <2>3. CASE s = r
    <3>1. TwiceOnly(new, A) /\ Range(u) \cap Range(new) \subseteq A
      BY <1>7, <2>1, <2>3
    <3>2. TwiceOnly(u \o new, A)
      <4> HIDE DEF u, A
      <4> QED
        BY <1>1, <1>4, <2>2, <3>1, TwiceConcat
    <3> QED
      BY <1>7, <1>9, <2>1, <3>2
  <2>4. CASE new = <<>> /\ work'[r] = work[r]
    <3>1. u \o new = u
      <4> HIDE DEF u
      <4> QED
        BY <1>4, <2>4, NothingAfter
    <3> QED
      BY <2>1, <2>2, <2>4, <3>1
  <2> QED
    BY <1>7, <2>3, <2>4
<1>12. Kept(r)'
  <2> DEFINE S == Range(u) \cup U
             T == Range(u \o new) \cup V
  <2>1. (Range(Stream(r)) \cup Unsent(req[r].query, work[r]))' = T
    BY <1>1, <1>6
  <2> SUFFICES ASSUME fetch[r].pc \in Live, ~req[r].buf.canceled
               PROVE  \/ raced' \cap {r, hist'[r].source} # {}
                      \/ Result(req'[r].query) \subseteq
                           T \cup Lost(r)' \cup Lost(hist[r].source)'
    BY <1>1, <2>1 DEF Kept, Covered
  <2>2. Covered(r, S)
    BY DEF Whole, Kept
  <2>3. S \subseteq T \cup Lost(r)'
    BY <1>7, <1>8, <1>9
  <2> HIDE DEF S, T
  <2> QED
    BY <1>3, <1>5, <2>2, <2>3, CoveredGrows
<1>13. Holding(r)' /\ Noticed(r)' /\ Shadowed(r)'
  BY <1>1 DEF Whole, Holding, Noticed, Shadowed
<1>14. Completes(r)' /\ Completed(r)'
  BY <1>1, <1>3, ToldStays
<1> QED
  BY <1>1, <1>3, <1>7, <1>10, <1>11, <1>12, <1>13, <1>14 DEF Whole

(* Whatever the nodes do, and whatever becomes of a forwarded call. *)
LEMMA NodeWhole ==
  ASSUME TypeOK, NEW r \in Issued, NEW p \in Node, Produce(r, p) \/ Repeat(r, p), Whole(r)
  PROVE  Whole(r)' /\ Others(r) /\ Grows /\ cache' = cache
<1>1. \E new : Brings(r, new) /\ Fits(r, new)
  <2>1. ASSUME NEW n \in 0..Rows[req[r].query][p], NEW last \in BOOLEAN, Deposit(r, p, n, last)
        PROVE  \E new : Brings(r, new) /\ Fits(r, new)
    BY <2>1, DepositFacts, DepositFits
  <2>2. ASSUME NEW n \in 0..Rows[req[r].query][p], NEW last \in BOOLEAN, GiveUp(r, p, n, last)
        PROVE  \E new : Brings(r, new) /\ Fits(r, new)
    BY <2>2, GiveUpFacts, GiveUpFits
  <2>3. CASE Mark(r, p)
    BY <2>3, MarkFactsOf, MarkFits
  <2>4. ASSUME NEW from \in Nat, NEW n \in Nat, NEW done \in BOOLEAN, Again(r, p, from, n, done)
        PROVE  \E new : Brings(r, new) /\ Fits(r, new)
    BY <2>4, AgainFacts, AgainFits
  <2> QED
    BY <2>1, <2>2, <2>3, <2>4, NodeDoes
<1> QED
  BY <1>1, BringsWhole

LEMMA ForwardWhole ==
  ASSUME TypeOK, NEW r \in Issued, NEW p \in Peers, Forward(r, p), Whole(r)
  PROVE  Whole(r)' /\ Others(r) /\ Grows /\ cache' = cache
  BY ForwardFacts, ForwardFits, BringsWhole

-----------------------------------------------------------------------------
(* What the client's handlers and the others do.                            *)

(* A step that leaves the history alone. *)
LEMMA SameHist ==
  ASSUME NEW r \in Issued, Others(r), TypeOK, issued' = issued, raced \subseteq raced',
         req'[r].query = req[r].query, hist' = hist
  PROVE  Grows
<1>1. r \in Rid /\ Issued \subseteq Issued'
  BY IssuedAreRids DEF Issued
<1> QED
  BY <1>1, StepGrows

(* What is left when a request was forgotten. *)
LEMMA GoneWhole ==
  ASSUME Grows, NEW r \in Issued, Whole(r), told'[r] \in Seq(Row),
         req'[r].buf = NewBuffer(Capacity, 0), work'[r] = NoWork,
         fetch'[r].pc \in {"over", "left"},
         fetch'[r].pc = "over" =>
           /\ fetch'[r].rows = <<>> /\ Range(told'[r]) \subseteq Result(req[r].query)
           /\ TwiceOnly(told'[r], hist[hist[r].source].again),
         Completed(r)', TypeOK
  PROVE  Whole(r)'
<1>1. PICK s \in Issued : s = hist[r].source
  BY DEF Whole, Sourced
<1>2. /\ hist'[r].source = s /\ req'[r].query = req[r].query /\ req'[s].query = req[s].query
      /\ hist[s].again \subseteq hist'[s].again /\ s \in Issued'
  BY <1>1 DEF Grows
<1>3. r \in Rid /\ req[r].query \in Query
  BY IssuedAreRids, TypeFacts
<1>4. Sourced(r)'
  BY <1>1, <1>2 DEF Whole, Sourced
<1>5. Within(r)'
  BY <1>2, <1>3, PortalConstants DEF Within, NoWork, WorkAt
<1>6. Streamed(r)'
  <2> DEFINE t == told'[r]
  <2> SUFFICES ASSUME fetch'[r].pc = "over"
               PROVE  /\ Range(Stream(r)') \subseteq
                           Result(req[r].query) \ Unsent(req[r].query, work'[r])
                      /\ TwiceOnly(Stream(r)', hist'[s].again)
    BY <1>2 DEF Streamed
  <2>1. Stream(r)' = t
    <3>1. req'[r].buf.q = <<>> /\ fetch'[r].rows = <<>>
      BY DEF NewBuffer
    <3>2. Stream(r)' = (t \o <<>>) \o <<>>
      BY <3>1 DEF Stream
    <3> HIDE DEF t
    <3> QED
      BY <3>2, NothingAfter DEF t
  <2>2. Unsent(req[r].query, work'[r]) = {}
    BY <1>3, UnsentEnds
  <2>3. TwiceOnly(t, hist[s].again)
    BY <1>1
  <2> HIDE DEF t
  <2>4. TwiceOnly(t, hist'[s].again)
    BY <1>2, <2>3, TwiceMore
  <2> QED
    BY <2>1, <2>2, <2>4 DEF t
<1> QED
  BY <1>4, <1>5, <1>6 DEF Whole, Holding, Kept, Noticed, Completes, Shadowed, Live

(* When SubmitQuery has asked the last peer nothing has been told yet. *)
LEMMA AcceptWhole ==
  ASSUME TypeOK, NEW r \in Issued, Accept(r), Whole(r), Grows
  PROVE  Whole(r)'
<1>1. /\ fetch[r].pc = "submit" /\ fetch'[r] = [fetch[r] EXCEPT !.pc = "idle"]
      /\ req'[r] = req[r] /\ work'[r] = work[r] /\ told'[r] = told[r] /\ hist' = hist
  BY AcceptFacts
<1>2. fetch[r] \in Fetch
  BY IssuedAreRids, TypeFacts
<1>3. fetch'[r].pc = "idle" /\ fetch'[r].rows = fetch[r].rows
  BY <1>1, <1>2 DEF Fetch
<1>4. Stream(r)' = Stream(r)
  BY <1>1, <1>3 DEF Stream
<1>5. Holding(r)' /\ Noticed(r)' /\ Completes(r)' /\ Completed(r)' /\ Shadowed(r)'
  BY <1>1, <1>3
     DEF Whole, Holding, Noticed, Completes, Completed, Shadowed, Live
<1> QED
  BY <1>1, <1>3, <1>4, <1>5, SameStream DEF Live

(* A fetch that finds its request has taken nothing yet, and one that does  *)
(* not is the last, and says canceled.                                      *)
LEMMA AskWhole ==
  ASSUME TypeOK, NEW r \in Issued, Ask(r), Whole(r), Grows
  PROVE  Whole(r)'
<1>1. CASE r \in registered
  <2>1. /\ fetch'[r] = [NoFetch EXCEPT !.pc = "popping", !.late = req[r].buf.canceled,
                                       !.want = fetch[r].want]
        /\ req'[r].buf = req[r].buf /\ req'[r].query = req[r].query
        /\ req'[r].collect = req[r].collect /\ req'[r].accum = req[r].accum
        /\ work'[r] = work[r] /\ told'[r] = told[r] /\ hist' = hist
    BY <1>1, AskFacts
  <2>2. fetch'[r].pc = "popping" /\ fetch'[r].rows = <<>>
    BY <2>1 DEF NoFetch
  <2>3. fetch[r].pc = "idle" /\ fetch[r].rows = <<>>
    BY DEF Ask, Whole, Holding
  <2>4. Stream(r)' = Stream(r)
    BY <2>1, <2>2, <2>3 DEF Stream
  <2>5. Holding(r)' /\ Noticed(r)' /\ Completes(r)' /\ Completed(r)' /\ Shadowed(r)'
    BY <2>1, <2>2, <2>3
       DEF Whole, Holding, Noticed, Completes, Completed, Shadowed, Live
  <2> QED
    BY <2>1, <2>2, <2>3, <2>4, <2>5, SameStream DEF Live
<1>2. CASE r \notin registered
  <2>1. /\ fetch'[r] = [NoFetch EXCEPT !.pc = "over", !.canceled = TRUE]
        /\ req'[r].buf = NewBuffer(Capacity, 0) /\ work'[r] = NoWork /\ told'[r] = <<>>
    BY <1>2, AskGoneFacts
  <2>2. fetch'[r].pc = "over" /\ fetch'[r].canceled /\ fetch'[r].rows = <<>>
    BY <2>1 DEF NoFetch
  <2>3. /\ <<>> \in Seq(Row) /\ Range(<<>>) \subseteq Result(req[r].query)
        /\ TwiceOnly(<<>>, hist[hist[r].source].again)
    BY TwiceMore DEF Range
  <2>4. Completed(r)'
    BY <2>2 DEF Completed
  <2> QED
    BY <2>1, <2>2, <2>3, <2>4, GoneWhole
<1> QED
  BY <1>1, <1>2

(* A pop splits the queue, ... *)
LEMMA PopSplits ==
  ASSUME NEW b \in Buffers, NEW max \in Nat
  PROVE  b.q = Popped(b, max) \o PopUpTo(b, max).q
<1>1. b \in BufferRecord(Row, Node \cup {CacheProducer})
  BY DEF Buffers
<1> QED
  BY <1>1, PopKeepsAll

(* ... and moves rows from the buffer to the answer. *)
LEMMA PopWhole ==
  ASSUME TypeOK, NEW r \in Issued, Pop(r), Whole(r), Grows
  PROVE  Whole(r)'
<1> DEFINE max == Asked(fetch[r].want, req[r].chunk)
           rows == Popped(req[r].buf, max)
<1>1. /\ max \in Nat /\ rows \in Seq(Row)
      /\ fetch'[r] = [fetch[r] EXCEPT !.pc = "popped", !.rows = rows, !.want = 0]
      /\ req'[r].buf = PopUpTo(req[r].buf, max) /\ req'[r].query = req[r].query
      /\ req'[r].collect => req[r].collect /\ req'[r].accum = req[r].accum \o rows
      /\ work'[r] = work[r] /\ told'[r] = told[r] /\ hist' = hist
  BY PopFactsOf
<1>2. r \in Rid /\ req[r].buf \in Buffers /\ fetch[r] \in Fetch
  BY IssuedAreRids, TypeFacts
<1> HIDE DEF max
<1>3. /\ req'[r].buf.canceled = req[r].buf.canceled
      /\ req[r].buf.q = rows \o req'[r].buf.q /\ req'[r].buf \in Buffers
  <2>1. SameBut(req[r].buf, PopUpTo(req[r].buf, max))
    BY <1>1, <1>2, PopFacts DEF Buffers
  <2>2. req[r].buf.q = Popped(req[r].buf, max) \o PopUpTo(req[r].buf, max).q
    BY <1>1, <1>2, PopSplits
  <2>3. PopUpTo(req[r].buf, max) \in Buffers
    BY <1>1, <1>2, PopFacts DEF Buffers
  <2> QED
    BY <1>1, <2>1, <2>2, <2>3 DEF SameBut
<1> HIDE DEF rows
<1>4. fetch'[r].pc = "popped" /\ fetch'[r].rows = rows
  BY <1>1, <1>2 DEF Fetch
<1>5. fetch[r].pc = "popping" /\ fetch[r].rows = <<>>
  BY DEF Pop, Whole, Holding
<1> DEFINE t == told[r]
           q == req'[r].buf.q
<1>6. t \in Seq(Row) /\ q \in Seq(Row)
  BY <1>2, <1>3, TypeFacts DEF Buffers, BufferRecord
<1>7. Stream(r) = (t \o <<>>) \o (rows \o q) /\ Stream(r)' = (t \o rows) \o q
  BY <1>1, <1>3, <1>4, <1>5 DEF Stream
<1>8. Shadowed(r)'
  <2> SUFFICES ASSUME req'[r].collect
               PROVE  req'[r].accum = t \o rows /\ hist[r].source = r
    BY <1>1, <1>4 DEF Shadowed
  <2>1. req[r].accum = t \o <<>> /\ req'[r].accum = req[r].accum \o rows /\ hist[r].source = r
    BY <1>1, <1>5 DEF Whole, Shadowed, Live
  <2>2. t \o <<>> = t
    BY <1>6, ConcatEmptySeq
  <2> QED
    BY <2>1, <2>2
<1> HIDE DEF t, q
<1>9. Stream(r)' = Stream(r)
  <2>1. t \o <<>> = t
    BY <1>6, ConcatEmptySeq
  <2>2. (t \o rows) \o q = t \o (rows \o q)
    BY <1>1, <1>6, Regroup
  <2> QED
    BY <1>7, <2>1, <2>2
<1>10. Holding(r)' /\ Noticed(r)' /\ Completes(r)' /\ Completed(r)'
  BY <1>4 DEF Holding, Noticed, Completes, Completed
<1> QED
  BY <1>1, <1>3, <1>4, <1>5, <1>8, <1>9, <1>10, SameStream DEF Live

(* A fetch that looks at the cancel flag does. *)
LEMMA ReadCanceledWhole ==
  ASSUME TypeOK, NEW r \in Issued, ReadCanceled(r), Whole(r), Grows
  PROVE  Whole(r)'
<1>1. r \in Rid /\ fetch[r] \in Fetch
  BY IssuedAreRids, TypeFacts
<1>2. /\ fetch'[r] = [fetch[r] EXCEPT !.pc = "flagged", !.canceled = req[r].buf.canceled]
      /\ req'[r] = req[r] /\ work'[r] = work[r] /\ told'[r] = told[r] /\ hist' = hist
  BY ReadCanceledFacts
<1>3. /\ fetch'[r].pc = "flagged" /\ fetch'[r].canceled = req[r].buf.canceled
      /\ fetch'[r].rows = fetch[r].rows
  BY <1>1, <1>2 DEF Fetch
<1>4. fetch[r].pc = "popped"
  BY DEF ReadCanceled
<1>5. Stream(r)' = Stream(r)
  BY <1>2, <1>3 DEF Stream
<1>6. Shadowed(r)'
  BY <1>2, <1>3, <1>4 DEF Whole, Shadowed, Live
<1>7. Noticed(r)'
  BY <1>2, <1>3 DEF Noticed
<1>8. Holding(r)' /\ Completes(r)' /\ Completed(r)'
  BY <1>3 DEF Holding, Completes, Completed
<1> QED
  BY <1>2, <1>3, <1>4, <1>5, <1>6, <1>7, <1>8, SameStream DEF Live

(* When all are done, what has not been sent is of peers that were marked   *)
(* done early.                                                              *)
LEMMA UnsentIsLost ==
  ASSUME TypeOK, NEW r \in Rid, Session(r), AllDone(req[r].buf)
  PROVE  Unsent(req[r].query, work[r]) \subseteq Lost(r)
<1> SUFFICES ASSUME NEW x \in Unsent(req[r].query, work[r])
             PROVE  x \in Lost(r)
  OBVIOUS
<1>1. x \in Result(req[r].query) /\ work[r][x[2]].at = "scan"
  BY DEF Unsent
<1>2. PICK p \in Node : x \in RowsOf(req[r].query, p) /\ x[2] = p
  BY <1>1 DEF Result, RowsOf
<1>3. p \in hist[r].early
  BY <1>1, <1>2, AllDoneScans DEF Session
<1> QED
  BY <1>2, <1>3 DEF Lost

(* When isFinal is read true of a buffer that was not cancelled, it is      *)
(* empty and every node is done: what the client gets now is the rest.      *)
LEMMA ReadFinalWhole ==
  ASSUME TypeOK, NEW r \in Issued, ReadFinal(r), Session(r), Whole(r), Grows
  PROVE  Whole(r)'
<1>1. r \in Rid /\ fetch[r] \in Fetch
  BY IssuedAreRids, TypeFacts
<1>2. fetch[r].pc = "flagged"
  BY DEF ReadFinal
<1>3. req'[r] = req[r] /\ work'[r] = work[r] /\ hist' = hist
  BY ReadFinalFacts
<1> DEFINE u == told[r] \o fetch[r].rows
<1>4. u \in Seq(Row)
  BY <1>1, StreamTypes
<1>5. CASE IsFinal(req[r].buf) /\ told'[r] = told[r]
           /\ fetch'[r] = [fetch[r] EXCEPT !.pc = "final"]
  <2>1. /\ fetch'[r].pc = "final" /\ fetch'[r].rows = fetch[r].rows
        /\ fetch'[r].canceled = fetch[r].canceled
    BY <1>1, <1>5 DEF Fetch
  <2>2. Stream(r)' = Stream(r)
    BY <1>3, <1>5, <2>1 DEF Stream
  <2>3. Shadowed(r)'
    BY <1>2, <1>3, <1>5, <2>1 DEF Whole, Shadowed, Live
  <2>4. Completes(r)'
    <3> DEFINE S == Range(Stream(r)) \cup Unsent(req[r].query, work[r])
               T == Range(u)
    <3> SUFFICES ASSUME ~fetch[r].canceled
                 PROVE  \/ raced' \cap {r, hist'[r].source} # {}
                        \/ Result(req'[r].query) \subseteq
                             T \cup Lost(r)' \cup Lost(hist[r].source)'
      BY <1>5, <2>1 DEF Completes, Covered
    <3>1. CASE req[r].buf.canceled
      <4>1. r \in raced /\ raced \subseteq raced'
        BY <1>2, <3>1 DEF Whole, Noticed, Grows
      <4> QED
        BY <4>1
    <3>2. CASE ~req[r].buf.canceled
      <4>1. req[r].buf.q = <<>> /\ AllDone(req[r].buf)
        BY <1>5, <3>2 DEF IsFinal
      <4>2. Covered(r, S) /\ hist[r].source \in Issued
        BY <1>2, <3>2 DEF Whole, Kept, Live, Sourced
      <4>3. Unsent(req[r].query, work[r]) \subseteq Lost(r)'
        BY <1>1, <4>1, UnsentIsLost, LostGrows
      <4>4. Stream(r) = u
        <5>1. Stream(r) = u \o <<>>
          BY <4>1 DEF Stream
        <5> HIDE DEF u
        <5> QED
          BY <1>4, <5>1, NothingAfter
      <4>5. S \subseteq T \cup Lost(r)'
        BY <4>3, <4>4
      <4> HIDE DEF S, T
      <4> QED
        BY <4>2, <4>5, CoveredGrows
    <3> QED
      BY <3>1, <3>2
  <2>5. Holding(r)' /\ Noticed(r)' /\ Completed(r)'
    BY <2>1 DEF Holding, Noticed, Completed
  <2> QED
    BY <1>2, <1>3, <2>1, <2>2, <2>3, <2>4, <2>5, SameStream DEF Live
<1>6. CASE /\ ~IsFinal(req[r].buf) /\ told'[r] = told[r] \o fetch[r].rows
           /\ fetch'[r] = [NoFetch EXCEPT !.pc = "idle", !.want = req[r].chunk,
                                             !.late = fetch[r].late]
  <2>1. fetch'[r].pc = "idle" /\ fetch'[r].rows = <<>>
    BY <1>6 DEF NoFetch
  <2>2. told'[r] \o fetch'[r].rows = told[r] \o fetch[r].rows
    <3>1. told'[r] \o fetch'[r].rows = u \o <<>>
      BY <1>6, <2>1
    <3> HIDE DEF u
    <3>2. told'[r] \o fetch'[r].rows = u
      BY <1>4, <3>1, NothingAfter
    <3> QED
      BY <3>2 DEF u
  <2>3. Stream(r)' = Stream(r)
    BY <1>3, <2>2 DEF Stream
  <2>4. Shadowed(r)'
    BY <1>2, <1>3, <2>2 DEF Whole, Shadowed, Live
  <2>5. Holding(r)' /\ Noticed(r)' /\ Completes(r)' /\ Completed(r)'
    BY <2>1 DEF Holding, Noticed, Completes, Completed
  <2> QED
    BY <1>2, <1>3, <2>1, <2>3, <2>4, <2>5, SameStream DEF Live
<1> QED
  BY <1>5, <1>6, ReadFinalFacts

(* A client that leaves is told nothing more. *)
LEMMA LeaveWhole ==
  ASSUME TypeOK, NEW r \in Issued, Leave(r), Whole(r), Grows
  PROVE  Whole(r)'
<1>1. r \in Rid /\ fetch[r] \in Fetch
  BY IssuedAreRids, TypeFacts
<1>2. /\ fetch'[r] = [fetch[r] EXCEPT !.pc = "left"] /\ told'[r] = <<>> /\ hist' = hist
      /\ \/ req'[r] = req[r] /\ work'[r] = work[r]
         \/ req'[r].buf = NewBuffer(Capacity, 0) /\ work'[r] = NoWork
  BY LeaveFacts
<1>3. fetch'[r].pc = "left"
  BY <1>1, <1>2 DEF Fetch
<1>4. CASE req'[r] = req[r] /\ work'[r] = work[r]
  <2>1. Sourced(r)' /\ Within(r)'
    BY <1>2, <1>4 DEF Whole, Sourced, Within, Grows
  <2> QED
    BY <1>3, <2>1
       DEF Whole, Holding, Streamed, Kept, Noticed, Completes, Completed, Shadowed, Live
<1>5. CASE req'[r].buf = NewBuffer(Capacity, 0) /\ work'[r] = NoWork
  <2>1. <<>> \in Seq(Row) /\ Completed(r)'
    BY <1>3 DEF Completed
  <2> QED
    BY <1>2, <1>3, <1>5, <2>1, GoneWhole
<1> QED
  BY <1>2, <1>4, <1>5

(* After a cancel what is still to come does not matter any more; if the    *)
(* answer was already going to say otherwise, this is written down.         *)
LEMMA CancelWhole ==
  ASSUME TypeOK, NEW r \in Issued, Whole(r), Grows,
         req'[r].buf = CancelBuffer(req[r].buf), req'[r].query = req[r].query,
         req'[r].collect = req[r].collect, req'[r].accum = req[r].accum,
         UNCHANGED <<fetch, work, told, hist>>,
         fetch[r].pc = "flagged" /\ ~fetch[r].canceled => r \in raced'
  PROVE  Whole(r)'
<1>1. r \in Rid /\ req[r].buf \in Buffers
  BY IssuedAreRids, TypeFacts
<1>2. req'[r].buf.canceled /\ req'[r].buf.q = <<>>
  BY <1>1 DEF CancelBuffer, Buffers, BufferRecord
<1>3. PICK s \in Issued : s = hist[r].source
  BY DEF Whole, Sourced
<1>4. Sourced(r)' /\ Within(r)'
  BY <1>3 DEF Whole, Sourced, Within, Grows
<1>5. Streamed(r)'
  <2> SUFFICES ASSUME fetch[r].pc # "left"
               PROVE  /\ Range(Stream(r)') \subseteq
                           Result(req[r].query) \ Unsent(req[r].query, work[r])
                      /\ TwiceOnly(Stream(r)', hist[s].again)
    BY <1>3 DEF Streamed
  <2> DEFINE u == told[r] \o fetch[r].rows
             q == req[r].buf.q
             A == hist[s].again
             B == Result(req[r].query) \ Unsent(req[r].query, work[r])
  <2>1. u \in Seq(Row) /\ q \in Seq(Row) /\ Stream(r) = u \o q /\ Stream(r)' = u \o <<>>
    BY <1>1, <1>2, StreamTypes DEF Stream
  <2>2. Range(u \o q) \subseteq B /\ TwiceOnly(u \o q, A)
    BY <1>3, <2>1 DEF Whole, Streamed
  <2> HIDE DEF u, q, A, B
  <2>3. Range(u \o q) = Range(u) \cup Range(q) /\ TwiceOnly(u, A) /\ u \o <<>> = u
    BY <2>1, <2>2, RangeConcat, TwiceFront, NothingAfter
  <2>4. Range(Stream(r)') \subseteq B /\ TwiceOnly(Stream(r)', A)
    BY <2>1, <2>2, <2>3
  <2> QED
    BY <2>4 DEF A, B
<1>6. Kept(r)' /\ Noticed(r)'
  BY <1>2 DEF Kept, Noticed
<1>7. Completes(r)' /\ Completed(r)'
  BY ToldStays
<1>8. Holding(r)' /\ Shadowed(r)'
  BY DEF Whole, Holding, Shadowed
<1> QED
  BY <1>4, <1>5, <1>6, <1>7, <1>8 DEF Whole

(* So does the janitor that erases a request. *)
LEMMA EraseWhole ==
  ASSUME TypeOK, JanitorErase, NEW r \in Issued, r = janitor.at, Whole(r), Grows
  PROVE  Whole(r)'
<1>1. /\ TypeOK' /\ fetch'[r] = fetch[r] /\ told'[r] = told[r] /\ hist' = hist
      /\ req'[r].query = req[r].query
      /\ \/ req'[r] = req[r] /\ work'[r] = work[r]
         \/ /\ fetch[r].pc \in {"left", "over"}
            /\ req'[r].buf = NewBuffer(Capacity, 0) /\ work'[r] = NoWork
  BY EraseFacts
<1>2. CASE req'[r] = req[r] /\ work'[r] = work[r]
  BY <1>1, <1>2, SameWhole
<1>3. CASE /\ fetch[r].pc \in {"left", "over"}
           /\ req'[r].buf = NewBuffer(Capacity, 0) /\ work'[r] = NoWork
  <2>1. r \in Rid /\ told[r] \in Seq(Row) /\ hist[r].source \in Issued
    BY IssuedAreRids, StreamTypes DEF Whole, Sourced
  <2>2. Completed(r)'
    BY <1>1, ToldStays
  <2>3. ASSUME fetch[r].pc = "over"
        PROVE  /\ fetch[r].rows = <<>> /\ Range(told[r]) \subseteq Result(req[r].query)
               /\ TwiceOnly(told[r], hist[hist[r].source].again)
    <3> DEFINE t == told[r]
    <3>1. fetch[r].rows = <<>>
      BY <2>3 DEF Whole, Holding
    <3>2. /\ Range(t \o <<>>) \subseteq Result(req[r].query)
          /\ TwiceOnly(t \o <<>>, hist[hist[r].source].again)
      BY <2>1, <2>3, <3>1, FrontIsSound DEF Whole
    <3>3. t \o <<>> = t
      BY <2>1, NothingAfter
    <3> QED
      BY <3>1, <3>2, <3>3
  <2> QED
    BY <1>1, <1>3, <2>1, <2>2, <2>3, GoneWhole
<1> QED
  BY <1>1, <1>2, <1>3

-----------------------------------------------------------------------------
(* New requests, the cache, and all of them together.                       *)

(* An entry of the cache stays whole, ... *)
LEMMA EntryStays ==
  ASSUME Grows, NEW e, EntryWhole(e)
  PROVE  EntryWhole(e)'
<1>1. PICK s \in Issued : s = e.source
  BY DEF EntryWhole
<1>2. /\ req'[s].query = req[s].query /\ hist[s].again \subseteq hist'[s].again
      /\ s \in Issued' /\ raced \subseteq raced'
  BY DEF Grows
<1>3. Lost(s) \subseteq Lost(s)'
  BY LostGrows
<1>4. TwiceOnly(e.rows, hist'[s].again)
  <2>1. TwiceOnly(e.rows, hist[s].again)
    BY <1>1 DEF EntryWhole
  <2> QED
    BY <1>2, <2>1, TwiceMore
<1>5. s \in raced' \/ Result(e.spec) \subseteq Range(e.rows) \cup Lost(s)'
  BY <1>1, <1>2, <1>3 DEF EntryWhole
<1>6. Lost(e.source)' = Lost(s)'
  BY <1>1
<1> QED
  BY <1>1, <1>2, <1>4, <1>5, <1>6 DEF EntryWhole

(* ... and so does a cache that gets no others. *)
LEMMA CacheStays ==
  ASSUME CacheWhole, Grows,
         \A k \in DOMAIN cache' : \E j \in DOMAIN cache : cache'[k] = cache[j]
  PROVE  CacheWhole'
<1> SUFFICES ASSUME NEW k \in DOMAIN cache'  PROVE EntryWhole(cache[k])'
  BY DEF CacheWhole
<1>1. PICK j \in DOMAIN cache : cache'[k] = cache[j]
  OBVIOUS
<1>2. PICK e : e = cache[j]
  OBVIOUS
<1>3. EntryWhole(e)
  BY <1>2 DEF CacheWhole
<1>4. EntryWhole(e)'
  BY <1>3, EntryStays
<1> QED
  BY <1>1, <1>2, <1>4 DEF EntryWhole

(* A request that is replayed comes from an entry of the cache, ... *)
LEMMA CachedEntry ==
  ASSUME TypeOK, NEW q \in Query, NEW r \in Rid, r = issued + 1, issued' = r,
         registered' = registered \cup {r}, UNCHANGED <<janitor, told, raced>>,
         CachedSubmit(q, r), CacheWhole
  PROVE  \E e : /\ e \in CacheEntry /\ EntryWhole(e) /\ e.spec = q
               /\ req'[r].buf = Replay(e.rows) /\ hist'[r].source = e.source
               /\ hist'[r].missed = Dropped(CacheBuffer, e.rows)
<1>0. /\ fetch'[r] = [fetch[r] EXCEPT !.pc = "idle"] /\ work'[r] = work[r]
      /\ \E i \in DOMAIN cache :
           /\ cache[i] \in CacheEntry /\ cache[i].spec = q
           /\ req'[r].buf = Replay(cache[i].rows)
           /\ hist'[r].source = cache[i].source
           /\ hist'[r].missed = Dropped(CacheBuffer, cache[i].rows)
           /\ hist'[r].early = hist[r].early
  BY CachedFacts
<1>1. PICK i \in DOMAIN cache :
        /\ cache[i] \in CacheEntry /\ cache[i].spec = q
        /\ req'[r].buf = Replay(cache[i].rows)
        /\ hist'[r].source = cache[i].source
        /\ hist'[r].missed = Dropped(CacheBuffer, cache[i].rows)
  BY <1>0
<1>2. EntryWhole(cache[i])
  BY DEF CacheWhole
<1>3. PICK e : e = cache[i]
  OBVIOUS
<1> QED
  BY <1>1, <1>2, <1>3

(* ... and gets what its entry has, as far as there is room for it.         *)
LEMMA CachedWhole ==
  ASSUME TypeOK, NEW q \in Query, NEW r \in Rid, r = issued + 1, issued' = r, r \notin Issued,
         registered' = registered \cup {r}, UNCHANGED <<janitor, told, raced>>,
         CachedSubmit(q, r), Session(r), CacheWhole, Grows
  PROVE  Whole(r)'
<1>1. /\ TypeOK' /\ req'[r].query = q /\ ~req'[r].collect
      /\ fetch'[r] = [fetch[r] EXCEPT !.pc = "idle"] /\ work'[r] = work[r]
  BY CachedFacts
<1>2. PICK e : /\ e \in CacheEntry /\ EntryWhole(e) /\ e.spec = q
               /\ req'[r].buf = Replay(e.rows) /\ hist'[r].source = e.source
               /\ hist'[r].missed = Dropped(CacheBuffer, e.rows)
  BY CachedEntry
<1>3. fetch[r] = NoFetch /\ work[r] = NoWork /\ told'[r] = <<>>
  BY DEF Session
<1>4. fetch'[r].pc = "idle" /\ fetch'[r].rows = <<>>
  BY <1>1, <1>3 DEF NoFetch
<1>5. PICK s \in Issued : s = e.source
  BY <1>2 DEF EntryWhole
<1>6. EntryWhole(e)'
  BY <1>2, EntryStays
<1> DEFINE rows == e.rows
           new == Enters(CacheBuffer, rows)
           A == hist'[s].again
<1>7. rows \in Seq(Row)
  BY <1>2 DEF CacheEntry
<1>8. /\ s \in Issued' /\ req'[s].query = q /\ Range(rows) \subseteq Result(q)
      /\ TwiceOnly(rows, A)
      /\ s \in raced' \/ Result(q) \subseteq Range(rows) \cup Lost(s)'
  <2>1. Lost(e.source)' = Lost(s)'
    BY <1>5
  <2> QED
    BY <1>2, <1>5, <1>6, <2>1 DEF EntryWhole
<1>9. /\ CacheBuffer \in Buffers /\ ~CacheBuffer.canceled /\ req'[r].buf.q = new
      /\ ~req'[r].buf.canceled
  BY <1>2, <1>7, ReplayFacts
<1> HIDE DEF rows
<1>10. /\ Range(new) \subseteq Range(rows) /\ new \in Seq(Row)
       /\ Range(rows) \subseteq Range(new) \cup Dropped(CacheBuffer, rows)
  BY <1>7, <1>9, EntersSome, PushSplit, DroppedFacts
<1>11. TwiceOnly(new, A)
  <2> HIDE DEF A
  <2> QED
    BY <1>7, <1>8, <1>9, EntersOnce
<1> HIDE DEF new
<1>12. Stream(r)' = new
  <2>1. Stream(r)' = (<<>> \o <<>>) \o new
    BY <1>3, <1>4, <1>9 DEF Stream
  <2>2. <<>> \o <<>> = <<>> /\ <<>> \o new = new
    BY <1>10, NothingAfter
  <2> QED
    BY <2>1, <2>2
<1>13. Unsent(q, work'[r]) = {}
  BY <1>1, <1>3, UnsentEnds
<1>14. Sourced(r)'
  BY <1>1, <1>2, <1>3, <1>5, <1>8 DEF Sourced
<1>15. Within(r)'
  BY <1>1, <1>3, PortalConstants DEF Within, NoWork, WorkAt
<1>16. Streamed(r)'
  BY <1>1, <1>2, <1>5, <1>8, <1>10, <1>11, <1>12, <1>13 DEF Streamed
<1>17. Kept(r)'
  <2>1. Dropped(CacheBuffer, rows) \subseteq Lost(r)'
    BY <1>2 DEF Lost, rows
  <2>2. s \in raced' \/ Result(q) \subseteq Range(new) \cup Lost(r)' \cup Lost(s)'
    BY <1>8, <1>10, <2>1
  <2>3. Lost(hist[r].source)' = Lost(s)'
    BY <1>2, <1>5 DEF Lost
  <2> QED
    BY <1>1, <1>2, <1>5, <1>12, <2>2, <2>3 DEF Kept, Covered
<1>18. /\ Holding(r)' /\ Noticed(r)' /\ Completes(r)' /\ Completed(r)' /\ Shadowed(r)'
  BY <1>1, <1>4 DEF Holding, Noticed, Completes, Completed, Shadowed
<1> QED
  BY <1>14, <1>15, <1>16, <1>17, <1>18 DEF Whole

(* One that is executed has everything still to come. *)
LEMMA FreshWhole ==
  ASSUME TypeOK, NEW q \in Query, NEW r \in Rid, r = issued + 1, issued' = r, r \notin Issued,
         registered' = registered \cup {r}, UNCHANGED <<janitor, told, raced>>,
         FreshSubmit(q, r), Session(r)
  PROVE  Whole(r)'
<1>1. /\ TypeOK' /\ req'[r].query = q /\ req'[r].accum = <<>>
      /\ req'[r].buf = [NewBuffer(Capacity, Cardinality(Node)) EXCEPT !.started = Node]
      /\ fetch'[r] = [fetch[r] EXCEPT !.pc = "submit", !.ask = Peers]
      /\ work'[r] = WorkAt("scan") /\ hist'[r].source = r
  BY FreshFacts
<1>2. fetch[r] = NoFetch /\ told'[r] = <<>>
  BY DEF Session
<1>3. fetch'[r].pc = "submit" /\ fetch'[r].rows = <<>>
  BY <1>1, <1>2 DEF NoFetch
<1>4. req'[r].buf.q = <<>> /\ r \in Issued'
  BY <1>1, FreshBuffer, IssuedAreRids DEF Issued, Rid
<1>5. <<>> \o <<>> = <<>> /\ Range(<<>>) = {}
  BY NothingAfter, EmptySeq
<1>6. Stream(r)' = <<>>
  BY <1>2, <1>3, <1>4, <1>5 DEF Stream
<1>7. Unsent(q, work'[r]) = Result(q)
  BY <1>1, UnsentEnds
<1>8. Sourced(r)'
  BY <1>1, <1>4 DEF Sourced
<1>9. Within(r)'
  BY <1>1, PortalConstants DEF Within, WorkAt
<1>10. Streamed(r)'
  BY <1>5, <1>6, TwiceMore DEF Streamed
<1>11. Kept(r)'
  BY <1>1, <1>7 DEF Kept, Covered
<1>12. Holding(r)' /\ Noticed(r)' /\ Completes(r)' /\ Completed(r)' /\ Shadowed(r)'
  BY <1>1, <1>2, <1>3, <1>5 DEF Holding, Noticed, Completes, Completed, Shadowed
<1> QED
  BY <1>8, <1>9, <1>10, <1>11, <1>12 DEF Whole

(* The last answer completes what the client has, and what it adds to the   *)
(* cache is whole.                                                          *)
LEMMA FinishWhole ==
  ASSUME TypeOK, NEW r \in Issued, Finish(r), Whole(r), CacheWhole, Grows
  PROVE  Whole(r)' /\ CacheWhole'
<1>1. r \in Rid /\ fetch[r] \in Fetch
  BY IssuedAreRids, TypeFacts
<1>2. fetch[r].pc = "final"
  BY DEF Finish
<1>3. /\ TypeOK' /\ fetch'[r] = [fetch[r] EXCEPT !.pc = "over", !.rows = <<>>] /\ CachePut(r)
      /\ told'[r] = IF fetch[r].canceled THEN <<>> ELSE told[r] \o fetch[r].rows
      /\ req'[r].query = req[r].query /\ req'[r].buf = NewBuffer(Capacity, 0)
      /\ work'[r] = NoWork /\ hist' = hist
  BY FinishFacts
<1>4. /\ fetch'[r].pc = "over" /\ fetch'[r].canceled = fetch[r].canceled
      /\ fetch'[r].rows = <<>>
  BY <1>1, <1>3 DEF Fetch
<1>5. hist[r].source \in Issued
  BY DEF Whole, Sourced
<1> DEFINE u == told[r] \o fetch[r].rows
<1>6. /\ u \in Seq(Row) /\ Range(u) \subseteq Result(req[r].query)
      /\ TwiceOnly(u, hist[hist[r].source].again)
  BY <1>1, <1>2, StreamTypes, FrontIsSound DEF Whole
<1>7. ~fetch[r].canceled => Covered(r, Range(u))
  BY <1>2 DEF Whole, Completes
<1>8. Completed(r)'
  <2> DEFINE S == Range(u)
  <2> SUFFICES ASSUME ~fetch[r].canceled
               PROVE  \/ raced' \cap {r, hist'[r].source} # {}
                      \/ Result(req'[r].query) \subseteq
                           S \cup Lost(r)' \cup Lost(hist[r].source)'
    BY <1>3, <1>4 DEF Completed, Covered
  <2>1. Covered(r, S)
    BY <1>7
  <2> HIDE DEF S
  <2> QED
    BY <1>5, <2>1, CoveredGrows
<1>9. Whole(r)'
  <2>1. /\ <<>> \in Seq(Row) /\ Range(<<>>) \subseteq Result(req[r].query)
        /\ TwiceOnly(<<>>, hist[hist[r].source].again)
    BY TwiceMore DEF Range
  <2>2. told'[r] = <<>> \/ told'[r] = u
    BY <1>3
  <2> HIDE DEF u
  <2>3. /\ told'[r] \in Seq(Row) /\ Range(told'[r]) \subseteq Result(req[r].query)
        /\ TwiceOnly(told'[r], hist[hist[r].source].again)
    BY <1>6, <2>1, <2>2
  <2> QED
    BY <1>3, <1>4, <1>8, <2>3, GoneWhole
<1>10. CacheWhole'
  <2> SUFFICES ASSUME NEW k \in DOMAIN cache'  PROVE EntryWhole(cache[k])'
    BY DEF CacheWhole
  <2> DEFINE e == [spec |-> req[r].query, rows |-> req[r].accum, source |-> r]
  <2>1. \/ cache'[k] = e /\ req[r].collect /\ ~fetch[r].canceled
        \/ \E j \in DOMAIN cache : cache'[k] = cache[j]
    BY <1>3, CachePutFacts
  <2>2. e.spec = req[r].query /\ e.rows = req[r].accum /\ e.source = r
    OBVIOUS
  <2> HIDE DEF e
  <2>3. CASE cache'[k] = e /\ req[r].collect /\ ~fetch[r].canceled
    <3>1. req[r].accum = u /\ hist[r].source = r
      BY <1>2, <2>3 DEF Whole, Shadowed, Live
    <3>2. r \in raced \/ Result(req[r].query) \subseteq Range(u) \cup Lost(r)
      BY <1>7, <2>3, <3>1 DEF Covered
    <3> HIDE DEF u
    <3>3. PICK d : d = e
      OBVIOUS
    <3>4. EntryWhole(d)
      BY <1>6, <2>2, <3>1, <3>2, <3>3 DEF EntryWhole
    <3>5. EntryWhole(d)'
      BY <3>4, EntryStays
    <3> QED
      BY <2>3, <3>3, <3>5 DEF EntryWhole
  <2>4. CASE \E j \in DOMAIN cache : cache'[k] = cache[j]
    <3>1. PICK d : d = cache'[k]
      OBVIOUS
    <3>2. EntryWhole(d)
      BY <2>4, <3>1 DEF CacheWhole
    <3>3. EntryWhole(d)'
      BY <3>2, EntryStays
    <3> QED
      BY <3>1, <3>3 DEF EntryWhole
  <2> QED
    BY <2>1, <2>3, <2>4
<1> QED
  BY <1>9, <1>10

(* All requests are whole after a step about one that leaves it whole. *)
LEMMA AllWhole ==
  ASSUME NEW r, Others(r), Grows, TypeOK, Issued' \subseteq Issued \cup {r},
         \A x \in Issued : Whole(x), Whole(r)'
  PROVE  \A x \in Issued' : Whole(x)'
<1> SUFFICES ASSUME NEW x \in Issued'  PROVE Whole(x)'
  OBVIOUS
<1>1. CASE x = r
  BY <1>1
<1>2. CASE x # r
  <2>1. x \in Issued /\ x \in Rid
    BY <1>2, IssuedAreRids
  <2> QED
    BY <1>2, <2>1, OthersWhole
<1> QED
  BY <1>1, <1>2

(* The steps that neither submit nor finish have nothing to do with the     *)
(* cache.                                                                   *)
LEMMA QuietWhole ==
  ASSUME WholeInv, NEW r \in Issued, Quiet(r)
  PROVE  (\A x \in Issued' : Whole(x)') /\ CacheWhole'
<1>1. TypeOK /\ CacheWhole /\ (\A x \in Issued : Whole(x)) /\ Session(r) /\ Whole(r)
  BY IssuedAreRids DEF WholeInv, SessionInv
<1>2. issued' = issued
  BY QuietSteps
<1>3. Whole(r)' /\ Others(r) /\ Grows /\ cache' = cache
  <2>1. ASSUME Others(r), raced' = raced, hist' = hist, req'[r].query = req[r].query
        PROVE  Grows
    BY <1>1, <1>2, <2>1, SameHist
  <2>2. CASE Ask(r)
    <3>1. Others(r) /\ hist' = hist /\ req'[r].query = req[r].query
      BY <1>1, <2>2, AskFacts, AskGoneFacts
    <3>2. raced' = raced /\ cache' = cache
      BY <2>2 DEF Ask, portalVars
    <3> QED
      BY <1>1, <2>1, <2>2, <3>1, <3>2, AskWhole
  <2>3. CASE Pop(r)
    <3>1. Others(r) /\ hist' = hist /\ req'[r].query = req[r].query
      BY <1>1, <2>3, PopFactsOf
    <3>2. raced' = raced /\ cache' = cache
      BY <2>3 DEF Pop, portalVars
    <3> QED
      BY <1>1, <2>1, <2>3, <3>1, <3>2, PopWhole
  <2>4. CASE ReadCanceled(r)
    <3>1. Others(r) /\ hist' = hist /\ req'[r].query = req[r].query
      BY <1>1, <2>4, ReadCanceledFacts
    <3>2. raced' = raced /\ cache' = cache
      BY <2>4 DEF ReadCanceled, portalVars
    <3> QED
      BY <1>1, <2>1, <2>4, <3>1, <3>2, ReadCanceledWhole
  <2>5. CASE ReadFinal(r)
    <3>1. Others(r) /\ hist' = hist /\ req'[r].query = req[r].query
      BY <1>1, <2>5, ReadFinalFacts
    <3>2. raced' = raced /\ cache' = cache
      BY <2>5 DEF ReadFinal, portalVars
    <3> QED
      BY <1>1, <2>1, <2>5, <3>1, <3>2, ReadFinalWhole
  <2>6. CASE Leave(r)
    <3>1. Others(r) /\ hist' = hist /\ req'[r].query = req[r].query
      BY <1>1, <2>6, LeaveFacts
    <3>2. raced' = raced /\ cache' = cache
      BY <2>6 DEF Leave, portalVars
    <3> QED
      BY <1>1, <2>1, <2>6, <3>1, <3>2, LeaveWhole
  <2>7. CASE CancelQuery(r)
    <3>1. /\ Others(r) /\ hist' = hist /\ cache' = cache /\ raced \subseteq raced'
          /\ fetch' = fetch /\ told' = told /\ work' = work
          /\ req'[r].buf = CancelBuffer(req[r].buf) /\ req'[r].query = req[r].query
          /\ req'[r].collect = req[r].collect /\ req'[r].accum = req[r].accum
          /\ fetch[r].pc = "flagged" /\ ~fetch[r].canceled => r \in raced'
      BY <1>1, <2>7, CancelQueryFacts
    <3>2. Grows
      BY <1>1, <1>2, <3>1, SameHist
    <3> QED
      BY <1>1, <3>1, <3>2, CancelWhole
  <2>8. CASE Age(r)
    <3>1. /\ Others(r) /\ hist' = hist
          /\ req'[r].buf = req[r].buf /\ req'[r].query = req[r].query
          /\ req'[r].collect = req[r].collect /\ req'[r].accum = req[r].accum
          /\ fetch'[r] = fetch[r] /\ work'[r] = work[r] /\ told'[r] = told[r]
      BY <1>1, <2>8, AgeFacts
    <3>2. raced' = raced /\ cache' = cache
      BY <2>8 DEF Age, portalVars
    <3> QED
      BY <1>1, <2>1, <3>1, <3>2, SameWhole
  <2>9. CASE SubmitStep(r)
    <3>1. CASE Accept(r)
      <4>1. Others(r) /\ hist' = hist /\ req'[r].query = req[r].query
        BY <1>1, <3>1, AcceptFacts
      <4>2. raced' = raced /\ cache' = cache
        BY <3>1 DEF Accept, portalVars
      <4> QED
        BY <1>1, <2>1, <3>1, <4>1, <4>2, AcceptWhole
    <3>2. ASSUME NEW p \in Peers, Forward(r, p)
          PROVE  Whole(r)' /\ Others(r) /\ Grows /\ cache' = cache
      BY <1>1, <3>2, ForwardWhole
    <3> QED
      BY <2>9, <3>1, <3>2 DEF SubmitStep
  <2>10. ASSUME NEW p \in Node, Produce(r, p) \/ Repeat(r, p)
         PROVE  Whole(r)' /\ Others(r) /\ Grows /\ cache' = cache
    BY <1>1, <2>10, NodeWhole
  <2> QED
    BY <2>2, <2>3, <2>4, <2>5, <2>6, <2>7, <2>8, <2>9, <2>10 DEF Quiet
<1>4. \A x \in Issued' : Whole(x)'
  <2>1. Issued' \subseteq Issued \cup {r}
    BY <1>2 DEF Issued
  <2> QED
    BY <1>1, <1>3, <2>1, AllWhole
<1>5. CacheWhole'
  BY <1>1, <1>3, CacheStays
<1> QED
  BY <1>4, <1>5

(* What is replayed is whole if the cache is. *)
LEMMA SubmitAllWhole ==
  ASSUME WholeInv, NEW q \in Query, Submit(q)
  PROVE  (\A x \in Issued' : Whole(x)') /\ CacheWhole'
<1>0. PICK r \in {issued + 1} : r = issued + 1
  OBVIOUS
<1>1. TypeOK /\ CacheWhole /\ \A x \in Issued : Whole(x)
  BY DEF WholeInv, SessionInv
<1>2. /\ r \in Rid /\ r \notin Issued /\ issued' = r /\ registered' = registered \cup {r}
      /\ UNCHANGED <<janitor, told, raced>>
      /\ CachedSubmit(q, r) \/ FreshSubmit(q, r)
  BY <1>0, <1>1, SubmitEither
<1>3. Others(r)
  BY <1>0, <1>1, SubmitIssues
<1>4. \A k \in DOMAIN cache' : \E j \in DOMAIN cache : cache'[k] = cache[j]
  <2>1. CASE CachedSubmit(q, r)
    BY <1>0, <1>1, <1>2, <2>1, CachedFacts
  <2>2. CASE FreshSubmit(q, r)
    BY <2>2 DEF FreshSubmit
  <2> QED
    BY <1>2, <2>1, <2>2
<1>5. Issued \subseteq Issued' /\ Issued' \subseteq Issued \cup {r}
  <2>1. issued \in Nat
    BY <1>1, IssuedAreRids
  <2> QED
    BY <1>0, <1>2, <2>1 DEF Issued
<1>6. Grows
  BY <1>1, <1>2, <1>3, <1>5, StepGrows
<1>7. Session(r)
  BY <1>2 DEF WholeInv, SessionInv
<1>8. Whole(r)'
  BY <1>0, <1>1, <1>2, <1>6, <1>7, CachedWhole, FreshWhole
<1>9. \A x \in Issued' : Whole(x)'
  BY <1>1, <1>3, <1>5, <1>6, <1>8, AllWhole
<1>10. CacheWhole'
  BY <1>1, <1>4, <1>6, CacheStays
<1> QED
  BY <1>9, <1>10

(* What is stored is whole if what the client was told is. *)
LEMMA FinishAllWhole ==
  ASSUME WholeInv, NEW r \in Issued, Finish(r)
  PROVE  (\A x \in Issued' : Whole(x)') /\ CacheWhole'
<1>1. TypeOK /\ CacheWhole /\ (\A x \in Issued : Whole(x)) /\ Whole(r)
  BY DEF WholeInv, SessionInv
<1>2. Others(r) /\ req'[r].query = req[r].query /\ hist' = hist
  BY <1>1, FinishFacts
<1>3. raced' = raced /\ issued' = issued
  BY DEF Finish
<1>4. Grows
  BY <1>1, <1>2, <1>3, SameHist
<1>5. Whole(r)' /\ CacheWhole'
  BY <1>1, <1>4, FinishWhole
<1>6. Issued' \subseteq Issued \cup {r}
  BY <1>3 DEF Issued
<1>7. \A x \in Issued' : Whole(x)'
  BY <1>1, <1>2, <1>4, <1>5, <1>6, AllWhole
<1> QED
  BY <1>5, <1>7

(* The variables what is whole is about. *)
wholeVars == <<issued, req, fetch, work, told, raced, cache, hist>>

(* A step that changes no stream changes no session. *)
LEMMA NothingSpoils ==
  ASSUME UNCHANGED wholeVars, CacheWhole, \A x \in Issued : Whole(x)
  PROVE  (\A x \in Issued' : Whole(x)') /\ CacheWhole'
<1>1. Issued' = Issued /\ cache' = cache /\ raced' = raced
  BY DEF wholeVars, Issued
<1>2. Grows
  BY <1>1 DEF wholeVars, Grows
<1>3. ASSUME NEW x \in Issued  PROVE Whole(x)'
  BY <1>2, <1>3, SameWhole DEF wholeVars
<1>4. CacheWhole'
  BY <1>1, <1>2, CacheStays
<1> QED
  BY <1>1, <1>3, <1>4

(* The janitor keeps all of them whole. *)
LEMMA JanitorWhole ==
  ASSUME WholeInv, JanitorStep
  PROVE  (\A x \in Issued' : Whole(x)') /\ CacheWhole'
<1>1. TypeOK /\ CacheWhole /\ \A x \in Issued : Whole(x)
  BY DEF WholeInv, SessionInv
<1>2. CASE CollectExpired
  <2>1. UNCHANGED wholeVars
    BY <1>1, <1>2, CollectFacts DEF wholeVars
  <2> QED
    BY <1>1, <2>1, NothingSpoils
<1>3. ASSUME NEW r \in Rid, JanitorCancel(r)
      PROVE  (\A x \in Issued' : Whole(x)') /\ CacheWhole'
  <2>1. /\ r \in Issued /\ Others(r) /\ cache' = cache /\ issued' = issued /\ hist' = hist
        /\ UNCHANGED <<fetch, work, told>>
        /\ \/ req' = req /\ raced' = raced
           \/ /\ req'[r].buf = CancelBuffer(req[r].buf) /\ req'[r].query = req[r].query
              /\ req'[r].collect = req[r].collect /\ req'[r].accum = req[r].accum
              /\ raced \subseteq raced'
              /\ fetch[r].pc = "flagged" /\ ~fetch[r].canceled => r \in raced'
    BY <1>1, <1>3, JanitorCancelFacts
  <2>2. CASE req' = req /\ raced' = raced
    BY <1>1, <2>1, <2>2, NothingSpoils DEF wholeVars
  <2>3. CASE /\ req'[r].buf = CancelBuffer(req[r].buf) /\ req'[r].query = req[r].query
             /\ req'[r].collect = req[r].collect /\ req'[r].accum = req[r].accum
             /\ raced \subseteq raced'
             /\ fetch[r].pc = "flagged" /\ ~fetch[r].canceled => r \in raced'
    <3>1. Grows
      BY <1>1, <2>1, <2>3, SameHist
    <3>2. Whole(r)'
      BY <1>1, <2>1, <2>3, <3>1, CancelWhole
    <3>3. Issued' \subseteq Issued \cup {r}
      BY <2>1 DEF Issued
    <3>4. \A x \in Issued' : Whole(x)'
      BY <1>1, <2>1, <3>1, <3>2, <3>3, AllWhole
    <3>5. CacheWhole'
      BY <1>1, <2>1, <3>1, CacheStays
    <3> QED
      BY <3>4, <3>5
  <2> QED
    BY <2>1, <2>2, <2>3
<1>4. CASE JanitorErase
  <2>1. PICK r \in Issued : r = janitor.at
    BY <1>1, <1>4, EraseFacts
  <2>2. Others(r) /\ req'[r].query = req[r].query /\ hist' = hist
    BY <1>1, <1>4, <2>1, EraseFacts
  <2>3. raced' = raced /\ cache' = cache /\ issued' = issued
    BY <1>4 DEF JanitorErase
  <2>4. Grows
    BY <1>1, <2>2, <2>3, SameHist
  <2>5. Whole(r)'
    BY <1>1, <1>4, <2>1, <2>4, EraseWhole
  <2>6. Issued' \subseteq Issued \cup {r}
    BY <2>3 DEF Issued
  <2>7. \A x \in Issued' : Whole(x)'
    BY <1>1, <2>2, <2>4, <2>5, <2>6, AllWhole
  <2>8. CacheWhole'
    BY <1>1, <2>3, <2>4, CacheStays
  <2> QED
    BY <2>7, <2>8
<1> QED
  BY <1>2, <1>3, <1>4 DEF JanitorStep

(* At first there is nothing that is not whole, ... *)
LEMMA InitWhole == Init => WholeInv
<1> SUFFICES ASSUME Init  PROVE WholeInv
  OBVIOUS
<1>1. SessionInv
  BY InitSession
<1>2. DOMAIN cache = {} /\ Issued = {}
  BY DEF Init, Issued
<1> QED
  BY <1>1, <1>2 DEF WholeInv, CacheWhole

(* ... and every step keeps all whole. *)
LEMMA NextWhole ==
  ASSUME WholeInv, [Next]_vars
  PROVE  WholeInv'
<1>1. SessionInv'
  BY NextSession DEF WholeInv
<1>2. (\A x \in Issued' : Whole(x)') /\ CacheWhole'
  <2>1. ASSUME NEW q \in Query, Submit(q)
        PROVE  (\A x \in Issued' : Whole(x)') /\ CacheWhole'
    BY <2>1, SubmitAllWhole
  <2>2. ASSUME NEW r \in Issued, Quiet(r)
        PROVE  (\A x \in Issued' : Whole(x)') /\ CacheWhole'
    BY <2>2, QuietWhole
  <2>3. ASSUME NEW r \in Issued, Finish(r)
        PROVE  (\A x \in Issued' : Whole(x)') /\ CacheWhole'
    BY <2>3, FinishAllWhole
  <2>4. CASE JanitorStep
    BY <2>4, JanitorWhole
  <2>5. CASE UNCHANGED vars
    <3>1. UNCHANGED wholeVars
      BY <2>5 DEF vars, wholeVars
    <3> QED
      BY <3>1, NothingSpoils DEF WholeInv
  <2> QED
    BY <2>1, <2>2, <2>3, <2>4, <2>5 DEF Next, FetchStep, Quiet
<1> QED
  BY <1>1, <1>2 DEF WholeInv

(* A client that is told final and not canceled was given rows of its query *)
(* and no others, each once unless it was pushed again, and all but those   *)
(* that are written down as lost: executed or replayed, at whatever paces   *)
(* and however the fan-out, cancels, the janitor and other requests         *)
(* interleave.                                                              *)
THEOREM FinalAnswersAreComplete == Spec => []FinalIsComplete
<1>1. WholeInv => FinalIsComplete
  <2> SUFFICES ASSUME WholeInv, NEW r \in Issued,
                      fetch[r].pc = "over", ~fetch[r].canceled
               PROVE  /\ Given(r) \subseteq Result(req[r].query)
                      /\ TwiceOnly(told[r], hist[hist[r].source].again)
                      /\ \/ raced \cap {r, hist[r].source} # {}
                         \/ Result(req[r].query) \subseteq
                              Given(r) \cup Lost(hist[r].source) \cup Lost(r)
    BY DEF FinalIsComplete, TwiceOnly
  <2>1. r \in Rid /\ TypeOK /\ Whole(r)
    BY IssuedAreRids DEF WholeInv, SessionInv
  <2> DEFINE t == told[r]
  <2>2. t \in Seq(Row) /\ fetch[r].rows = <<>> /\ Given(r) = Range(t)
    BY <2>1, StreamTypes DEF Whole, Holding, Given, Range
  <2>3. /\ Range(t \o <<>>) \subseteq Result(req[r].query)
        /\ TwiceOnly(t \o <<>>, hist[hist[r].source].again)
    BY <2>1, <2>2, FrontIsSound DEF Whole
  <2>4. Covered(r, Range(t))
    BY <2>1 DEF Whole, Completed
  <2>5. t \o <<>> = t
    BY <2>2, NothingAfter
  <2> QED
    BY <2>2, <2>3, <2>4, <2>5 DEF Covered
<1>2. WholeInv /\ [Next]_vars => WholeInv'
  BY NextWhole
<1> QED
  BY <1>1, <1>2, InitWhole, PTL DEF Spec
=============================================================================
