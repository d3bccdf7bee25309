------------------------- MODULE QueryEngineProofs -------------------------
(***************************************************************************)
(* What QueryEngine states, for every partition file, every query, any     *)
(* size of chunk and any interval between two polls of the cancel.         *)
(*                                                                         *)
(* The loop comes first: the cancel, the chunks sent to the sink, and the  *)
(* rows taken of the plan's list, whatever the list is.  Then the list:    *)
(* the indices answer with the rows of their predicates in ascending       *)
(* order, the merge of two such lists lists the rows in both, and so the   *)
(* plan comes to the rows left after all its predicates.  The loop over    *)
(* that list sends the answer of the linear scan, and the rows of that     *)
(* answer are the lines of the file.                                       *)
(***************************************************************************)
EXTENDS QueryEngine, SequenceTheorems, FiniteSetTheorems, TLAPS

-----------------------------------------------------------------------------
(* A list of whatever elements. *)
IsList(s) == s \in Seq({s[i] : i \in DOMAIN s})

(* A sequence over any set is one over its own elements. *)
LEMMA SeqIsList ==
  ASSUME NEW S, NEW s \in Seq(S)
  PROVE  IsList(s) /\ Len(s) \in Nat
  <1> DEFINE T == {s[i] : i \in DOMAIN s}
  <1>1. Len(s) \in Nat /\ s \in [1..Len(s) -> S] /\ DOMAIN s = 1..Len(s)
    BY LenProperties
  <1>2. s \in [1..Len(s) -> T]
    BY <1>1
  <1>3. s \in Seq(T)
    BY <1>1, <1>2, SeqDef
  <1> QED BY <1>1, <1>3 DEF IsList

(* One more element at the end of a list. *)
LEMMA ListAppend ==
  ASSUME NEW s, IsList(s), NEW e
  PROVE  /\ Len(s) \in Nat /\ IsList(Append(s, e)) /\ Len(Append(s, e)) = Len(s) + 1
         /\ Append(s, e)[Len(s) + 1] = e
         /\ \A i \in 1..Len(s) : Append(s, e)[i] = s[i]
  <1> DEFINE S == {s[i] : i \in DOMAIN s} \cup {e}
  <1>1. s \in Seq(S) /\ e \in S
    BY SeqMonotonic DEF IsList
  <1> HIDE DEF S
  <1>2. /\ Append(s, e) \in Seq(S) /\ Len(Append(s, e)) = Len(s) + 1
        /\ Append(s, e)[Len(s) + 1] = e
        /\ \A i \in 1..Len(s) : Append(s, e)[i] = s[i]
    BY <1>1, AppendProperties
  <1>3. IsList(Append(s, e)) /\ Len(s) \in Nat
    BY <1>1, <1>2, SeqIsList
  <1> QED BY <1>2, <1>3

(* One list after another. *)
LEMMA ListConcat ==
  ASSUME NEW s, IsList(s), NEW t, IsList(t)
  PROVE  /\ Len(s) \in Nat /\ Len(t) \in Nat
         /\ IsList(s \o t) /\ Len(s \o t) = Len(s) + Len(t)
         /\ \A i \in 1..(Len(s) + Len(t)) :
              (s \o t)[i] = IF i <= Len(s) THEN s[i] ELSE t[i - Len(s)]
  <1> DEFINE S == {s[i] : i \in DOMAIN s} \cup {t[i] : i \in DOMAIN t}
  <1>1. s \in Seq(S) /\ t \in Seq(S)
    BY SeqMonotonic DEF IsList
  <1> HIDE DEF S
  <1>2. /\ s \o t \in Seq(S) /\ Len(s \o t) = Len(s) + Len(t)
        /\ \A i \in 1..(Len(s) + Len(t)) :
             (s \o t)[i] = IF i <= Len(s) THEN s[i] ELSE t[i - Len(s)]
    BY <1>1, ConcatProperties
  <1>3. IsList(s \o t) /\ Len(s) \in Nat /\ Len(t) \in Nat
    BY <1>1, <1>2, SeqIsList
  <1> QED BY <1>2, <1>3

(* The empty list. *)
LEMMA ListEmpty == IsList(<<>>) /\ Len(<<>>) = 0
  BY EmptySeq DEF IsList

-----------------------------------------------------------------------------
(***************************************************************************)
(* The cancel.  Between two polls the position counts the rows gone        *)
(* through since the first of them, and those emitted after the cancel are *)
(* among them: at a position other than a poll's there is still one to     *)
(* spare.                                                                  *)
(***************************************************************************)

(* Rows gone through since the last position at which the cancel was polled. *)
SincePoll == (at - 1) % PollEvery

(* A row emitted after the cancel is one of those since the last poll. *)
PollInv ==
  /\ at \in Nat \ {0} /\ late \in Nat
  /\ ~canceled => late = 0
  /\ late < IF SincePoll = 0 THEN PollEvery ELSE SincePoll

(* Multiples of n keep a distance of n. *)
LEMMA MultiplesApart ==
  ASSUME NEW n \in Nat \ {0}, NEW p \in Nat, NEW q \in Nat, p < q
  PROVE  n * p + n <= n * q
  <1>1. q - p - 1 \in Nat
    OBVIOUS
  <1>2. n * (q - p - 1) \in Nat
    BY <1>1
  <1>3. n * (q - p - 1) = n * q - n * p - n
    OBVIOUS
  <1> QED BY <1>2, <1>3

(* The next multiple of n. *)
LEMMA NextMultiple ==
  ASSUME NEW n \in Nat \ {0}, NEW q \in Nat
  PROVE  n * (q + 1) = n * q + n /\ q + 1 \in Nat
  OBVIOUS

(* The remainder of a division is the only one that is small enough. *)
LEMMA RemainderUnique ==
  ASSUME NEW n \in Nat \ {0}, NEW p \in Nat, NEW q \in Nat,
         NEW r \in 0..(n - 1), NEW s \in 0..(n - 1), n * p + r = n * q + s
  PROVE  r = s
  <1> DEFINE x == n * p
             y == n * q
  <1>1. x \in Int /\ y \in Int /\ x + r = y + s
    OBVIOUS
  <1>2. p < q => x + n <= y
    BY MultiplesApart
  <1>3. q < p => y + n <= x
    BY MultiplesApart
  <1>4. p = q => x = y
    OBVIOUS
  <1> HIDE DEF x, y
  <1> QED BY <1>1, <1>2, <1>3, <1>4

(* Quotient and remainder. *)
LEMMA Division ==
  ASSUME NEW a \in Nat, NEW n \in Nat \ {0}
  PROVE  /\ a % n \in 0..(n - 1) /\ a \div n \in Nat
         /\ a = n * (a \div n) + (a % n)
  <1>1. a % n \in 0..(n - 1)
    OBVIOUS
  <1>2. a \div n \in Nat
    OBVIOUS
  <1>3. a = n * (a \div n) + (a % n)
    OBVIOUS
  <1> QED BY <1>1, <1>2, <1>3

(* The next position is one further from the last poll, or at a poll. *)
LEMMA NextPosition ==
  ASSUME NEW a \in Nat, NEW n \in Nat \ {0}
  PROVE  /\ a % n \in 0..(n - 1)
         /\ (a + 1) % n = IF a % n = n - 1 THEN 0 ELSE (a % n) + 1
  <1> DEFINE q == a \div n
             r == a % n
             p == (a + 1) \div n
             s == (a + 1) % n
  <1>1. q \in Nat /\ r \in 0..(n - 1) /\ a = n * q + r
    BY Division
  <1>2. p \in Nat /\ s \in 0..(n - 1) /\ a + 1 = n * p + s
    <2> DEFINE b == a + 1
    <2>1. b \in Nat
      OBVIOUS
    <2> HIDE DEF b
    <2>2. b % n \in 0..(n - 1) /\ b \div n \in Nat /\ b = n * (b \div n) + (b % n)
      BY <2>1, Division
    <2> QED BY <2>2 DEF b
  <1> HIDE DEF q, r, p, s
  <1>3. CASE r = n - 1
    <2>1. n * (q + 1) = n * q + n /\ q + 1 \in Nat
      BY <1>1, NextMultiple
    <2>2. n * (q + 1) + 0 = n * p + s
      <3> DEFINE x == n * q
                 y == n * p
                 z == n * (q + 1)
      <3>1. x \in Int /\ y \in Int /\ z = x + n /\ a = x + r /\ a + 1 = y + s
        BY <1>1, <1>2, <2>1
      <3> HIDE DEF x, y, z
      <3>2. z + 0 = y + s
        BY <1>1, <1>2, <1>3, <3>1
      <3> QED BY <3>2 DEF y, z
    <2>3. s = 0
      BY <1>2, <2>1, <2>2, RemainderUnique
    <2> QED BY <1>1, <1>3, <2>3 DEF r, s
  <1>4. CASE r # n - 1
    <2>1. r + 1 \in 0..(n - 1)
      BY <1>1, <1>4
    <2>2. n * q + (r + 1) = n * p + s
      <3> DEFINE x == n * q
                 y == n * p
      <3>1. x \in Int /\ y \in Int /\ a = x + r /\ a + 1 = y + s
        BY <1>1, <1>2
      <3> HIDE DEF x, y
      <3>2. x + (r + 1) = y + s
        BY <1>1, <1>2, <3>1
      <3> QED BY <3>2 DEF x, y
    <2>3. s = r + 1
      BY <1>1, <1>2, <2>1, <2>2, RemainderUnique
    <2> QED BY <1>1, <1>4, <2>3 DEF r, s
  <1> QED BY <1>3, <1>4

(* A row emitted after the cancel lies between two polls. *)
LEMMA EmitPollInv == PollInv /\ Emit => PollInv'
  <1> SUFFICES ASSUME PollInv, Emit PROVE PollInv'
    OBVIOUS
  <1>1. at \in Nat \ {0} /\ at - 1 \in Nat /\ late \in Nat /\ PollEvery \in Nat \ {0}
    BY EngineConstants DEF PollInv
  <1>2. /\ SincePoll \in 0..(PollEvery - 1)
        /\ at' = at + 1 => SincePoll' = IF SincePoll = PollEvery - 1 THEN 0 ELSE SincePoll + 1
    <2>1. at' = at + 1 => at' - 1 = (at - 1) + 1
      BY <1>1
    <2> QED BY <1>1, <2>1, NextPosition DEF SincePoll
  <1>3. \/ at' = at /\ late' = late
        \/ at' = at + 1 /\ late' = late /\ (canceled => SincePoll # 0)
        \/ at' = at + 1 /\ late' = (IF canceled THEN late + 1 ELSE late) /\ (canceled => SincePoll # 0)
    BY DEF Emit, Skip, Take, HearsCancel, SincePoll
  <1>4. canceled' = canceled
    BY DEF Emit
  <1>5. CASE at' = at /\ late' = late
    BY <1>4, <1>5 DEF PollInv, SincePoll
  <1>6. CASE at' = at + 1 /\ (late' = late \/ late' = (IF canceled THEN late + 1 ELSE late)) /\ (canceled => SincePoll # 0)
    <2>1. CASE canceled
      BY <1>1, <1>2, <1>4, <1>6, <2>1 DEF PollInv
    <2>2. CASE ~canceled
      BY <1>1, <1>2, <1>4, <1>6, <2>2 DEF PollInv
    <2> QED BY <2>1, <2>2
  <1> QED BY <1>3, <1>5, <1>6

(* The other steps emit nothing. *)
LEMMA NextPollInv == PollInv /\ [Next]_vars => PollInv'
  <1> SUFFICES ASSUME PollInv, [Next]_vars PROVE PollInv'
    OBVIOUS
  <1>1. CASE Emit
    BY <1>1, EmitPollInv
  <1>2. CASE ~Emit
    <2>1. at' = at /\ late' = late /\ (canceled' = canceled \/ canceled' = TRUE)
      BY <1>2 DEF Next, vars, Plan, Seed, Intersect, Flush, Cancel
    <2> QED BY <2>1 DEF PollInv, SincePoll
  <1> QED BY <1>1, <1>2

(* Whenever a query is cancelled, the scan emits fewer rows after it than   *)
(* lie between two polls, in both engines, whatever their plan.             *)
THEOREM CancelHeardInTime == Spec => []CancelIsHeard
  <1>1. Init => PollInv
    <2> SUFFICES ASSUME Init PROVE PollInv
      OBVIOUS
    <2>1. at = 1 /\ late = 0
      BY DEF Init
    <2>2. SincePoll \in 0..(PollEvery - 1)
      BY <2>1, EngineConstants, NextPosition DEF SincePoll
    <2> QED BY <2>1, <2>2, EngineConstants DEF PollInv
  <1>2. PollInv => CancelIsHeard
    <2> SUFFICES ASSUME PollInv PROVE CancelIsHeard
      OBVIOUS
    <2>1. at - 1 \in Nat
      BY DEF PollInv
    <2>2. SincePoll \in 0..(PollEvery - 1)
      BY <2>1, EngineConstants, NextPosition DEF SincePoll
    <2> QED BY <2>2, EngineConstants DEF PollInv, CancelIsHeard
  <1> QED BY <1>1, <1>2, NextPollInv, PTL DEF Spec

-----------------------------------------------------------------------------
(***************************************************************************)
(* The chunks.                                                             *)
(***************************************************************************)

(* What the sink has got, and a chunk that is not full until it must be. *)
ChunkInv ==
  /\ IsList(sent.rows) /\ (pc # "done" => ~sent.done)
  /\ IsList(chunk) /\ Len(chunk) <= ChunkRows
  /\ pc \in {"seed", "intersect", "emit"} => Len(chunk) < ChunkRows
  /\ pc \in {"plan", "seed", "intersect"} => chunk = <<>> /\ sent.rows = <<>>

(* What a call of the sink leaves. *)
LEMMA SinkFacts ==
  ASSUME NEW rows, NEW done, Sink(rows, done)
  PROVE  /\ sent'.rows = sent.rows \o rows /\ sent'.calls = sent.calls + 1
         /\ sent'.done = done
  BY DEF Sink

(* A row is added to a chunk that has room for it. *)
LEMMA TakeFacts ==
  ASSUME ChunkInv, pc = "emit", Take
  PROVE  LET rows == Append(chunk, work[at])
         IN  /\ IsList(rows) /\ Len(rows) = Len(chunk) + 1 /\ Len(rows) \in 1..ChunkRows
             /\ at' = at + 1 /\ produced' = produced + 1
             /\ \/ /\ Sink(rows, FALSE) /\ chunk' = <<>>
                   /\ pc' \in {"emit", "flush"}
                \/ /\ UNCHANGED sent /\ chunk' = rows
                   /\ pc' = "flush" \/ (pc' = "emit" /\ Len(rows) < ChunkRows)
             /\ IF spec.maxRows # 0 /\ produced + 1 >= spec.maxRows
                  THEN pc' = "flush" ELSE pc' = "emit"
  <1> DEFINE rows == Append(chunk, work[at])
             last == spec.maxRows # 0 /\ produced + 1 >= spec.maxRows
             full == Len(rows) >= ChunkRows /\ (code = "cpp" \/ ~last)
  <1>1. Len(chunk) \in Nat /\ IsList(rows) /\ Len(rows) = Len(chunk) + 1
    BY ListAppend DEF ChunkInv
  <1>2. Len(rows) \in 1..ChunkRows
    BY <1>1, EngineConstants DEF ChunkInv
  <1>3. /\ at' = at + 1 /\ produced' = produced + 1
        /\ chunk' = IF full THEN <<>> ELSE rows
        /\ IF full THEN Sink(rows, FALSE) ELSE UNCHANGED sent
        /\ pc' = IF last THEN "flush" ELSE "emit"
    BY DEF Take
  <1>4. ~full => last \/ Len(rows) < ChunkRows
    BY <1>2, EngineConstants
  <1> HIDE DEF rows, full
  <1>5. \/ /\ Sink(rows, FALSE) /\ chunk' = <<>> /\ pc' \in {"emit", "flush"}
        \/ /\ UNCHANGED sent /\ chunk' = rows
           /\ pc' = "flush" \/ (pc' = "emit" /\ Len(rows) < ChunkRows)
    BY <1>3, <1>4
  <1>6. IF last THEN pc' = "flush" ELSE pc' = "emit"
    BY <1>3
  <1>7. at' = at + 1 /\ produced' = produced + 1
    BY <1>3
  <1> QED BY <1>1, <1>2, <1>5, <1>6, <1>7 DEF rows

(* The loop keeps the chunk short ... *)
LEMMA EmitChunkInv == ChunkInv /\ Emit => ChunkInv'
  <1> SUFFICES ASSUME ChunkInv, Emit PROVE ChunkInv'
    OBVIOUS
  <1>1. CASE Take
    <2> DEFINE rows == Append(chunk, work[at])
    <2>1. pc = "emit"
      BY DEF Emit
    <2>2. /\ IsList(rows) /\ Len(rows) \in 1..ChunkRows
          /\ \/ /\ Sink(rows, FALSE) /\ chunk' = <<>>
                /\ pc' \in {"emit", "flush"}
             \/ /\ UNCHANGED sent /\ chunk' = rows
                /\ pc' = "flush" \/ (pc' = "emit" /\ Len(rows) < ChunkRows)
      BY <1>1, <2>1, TakeFacts
    <2> HIDE DEF rows
    <2>3. CASE Sink(rows, FALSE) /\ chunk' = <<>> /\ pc' \in {"emit", "flush"}
      <3>1. sent'.rows = sent.rows \o rows /\ sent'.done = FALSE
        BY <2>3, SinkFacts
      <3>2. IsList(sent'.rows)
        BY <2>2, <3>1, ListConcat DEF ChunkInv
      <3>3. IsList(chunk') /\ Len(chunk') = 0
        BY <2>3, ListEmpty
      <3> QED BY <2>3, <3>1, <3>2, <3>3, EngineConstants DEF ChunkInv
    <2>4. CASE /\ UNCHANGED sent /\ chunk' = rows
               /\ pc' = "flush" \/ (pc' = "emit" /\ Len(rows) < ChunkRows)
      BY <2>1, <2>2, <2>4, EngineConstants DEF ChunkInv
    <2> QED BY <2>2, <2>3, <2>4
  <1>2. CASE ~Take
    <2>1. pc = "emit" /\ UNCHANGED <<chunk, sent>> /\ pc' \in {"emit", "flush"}
      BY <1>2 DEF Emit, Skip
    <2> QED BY <2>1 DEF ChunkInv
  <1> QED BY <1>1, <1>2

(* ... and so does every step. *)
LEMMA NextChunkInv == ChunkInv /\ [Next]_vars => ChunkInv'
  <1> SUFFICES ASSUME ChunkInv, [Next]_vars PROVE ChunkInv'
    OBVIOUS
  <1>1. CASE UNCHANGED vars \/ Cancel
    BY <1>1 DEF vars, Cancel, ChunkInv
  <1>2. CASE Plan
    <2>1. chunk' = chunk /\ chunk = <<>> /\ sent.rows = <<>> /\ ~sent.done
      BY <1>2 DEF Plan, ChunkInv
    <2>2. \/ Sink(<<>>, TRUE) /\ pc' = "done"
          \/ sent' = sent /\ pc' \in {"emit", "seed"}
      BY <1>2 DEF Plan
    <2>3. CASE Sink(<<>>, TRUE) /\ pc' = "done"
      <3>1. sent'.rows = sent.rows \o <<>>
        BY <2>3, SinkFacts
      <3>2. IsList(sent'.rows)
        BY <2>1, <3>1, ListEmpty, ListConcat
      <3> QED BY <2>1, <2>3, <3>2, ListEmpty, EngineConstants DEF ChunkInv
    <2>4. CASE sent' = sent /\ pc' \in {"emit", "seed"}
      BY <2>1, <2>4, ListEmpty, EngineConstants DEF ChunkInv
    <2> QED BY <2>2, <2>3, <2>4
  <1>3. CASE Seed
    BY <1>3 DEF Seed, ChunkInv
  <1>4. CASE Intersect
    BY <1>4 DEF Intersect, ChunkInv
  <1>5. CASE Emit
    BY <1>5, EmitChunkInv
  <1>6. CASE Flush
    <2>1. Sink(chunk, TRUE) /\ chunk' = <<>> /\ pc' = "done"
      BY <1>6 DEF Flush
    <2>2. sent'.rows = sent.rows \o chunk
      BY <2>1, SinkFacts
    <2>3. IsList(sent'.rows)
      BY <2>2, ListConcat DEF ChunkInv
    <2> QED BY <2>1, <2>3, ListEmpty, EngineConstants DEF ChunkInv
  <1> QED BY <1>1, <1>2, <1>3, <1>4, <1>5, <1>6 DEF Next

(* Nothing has been sent at first. *)
LEMMA InitChunkInv == Init => ChunkInv
  <1> SUFFICES ASSUME Init PROVE ChunkInv
    OBVIOUS
  <1>1. chunk = <<>> /\ sent.rows = <<>> /\ sent.done = FALSE /\ pc = "plan"
    BY DEF Init
  <1> QED BY <1>1, ListEmpty, EngineConstants DEF ChunkInv

(* So they hold throughout. *)
LEMMA ChunkInvariant == Spec => []ChunkInv
  BY InitChunkInv, NextChunkInv, PTL DEF Spec

(* A call of the sink carries one list more, at the end of what it has. *)
LEMMA SinkGrows ==
  ASSUME ChunkInv, NEW rows, NEW done, Sink(rows, done), IsList(rows), Len(rows) <= ChunkRows
  PROVE  /\ sent'.calls = sent.calls + 1 /\ sent'.done = done
         /\ Len(sent'.rows) - Len(sent.rows) = Len(rows) /\ Len(rows) \in Nat
  <1>1. /\ sent'.rows = sent.rows \o rows /\ sent'.calls = sent.calls + 1
        /\ sent'.done = done
    BY SinkFacts
  <1>2. IsList(sent.rows)
    BY DEF ChunkInv
  <1>3. Len(sent.rows) \in Nat /\ Len(rows) \in Nat /\ Len(sent'.rows) = Len(sent.rows) + Len(rows)
    BY <1>1, <1>2, ListConcat
  <1> QED BY <1>1, <1>3

(* The sink is never called after done, and gets chunks of at most          *)
(* initial_chunk_rows, none of them empty but the last, from either engine, *)
(* whatever the row limit and whenever a cancel comes.                      *)
THEOREM ChunksAreWellFormed == Spec => ChunksWellFormed
  <1> DEFINE n == Len(sent'.rows) - Len(sent.rows)
             Good == /\ ~sent.done /\ sent'.calls = sent.calls + 1
                     /\ n <= ChunkRows
                     /\ n > 0 \/ sent'.done
  <1>1. ASSUME ChunkInv, Next, sent' # sent PROVE Good
    <2>1. CASE Plan
      <3>1. Sink(<<>>, TRUE) /\ ~sent.done
        BY <1>1, <2>1 DEF Plan, ChunkInv
      <3>2. IsList(<<>>) /\ Len(<<>>) = 0 /\ Len(<<>>) <= ChunkRows
        BY ListEmpty, EngineConstants
      <3>3. sent'.calls = sent.calls + 1 /\ sent'.done = TRUE /\ n = Len(<<>>)
        BY <1>1, <3>1, <3>2, SinkGrows
      <3> HIDE DEF n
      <3> QED BY <3>1, <3>2, <3>3
    <2>2. CASE Emit
      <3> DEFINE rows == Append(chunk, work[at])
      <3>1. pc = "emit" /\ Take
        BY <1>1, <2>2 DEF Emit, Skip
      <3>2. Sink(rows, FALSE) /\ IsList(rows) /\ Len(rows) \in 1..ChunkRows /\ ~sent.done
        BY <1>1, <3>1, TakeFacts DEF ChunkInv
      <3> HIDE DEF rows
      <3>3. Len(rows) <= ChunkRows /\ Len(rows) > 0
        BY <3>2, EngineConstants
      <3>4. sent'.calls = sent.calls + 1 /\ n = Len(rows)
        BY <1>1, <3>2, <3>3, SinkGrows
      <3> HIDE DEF n
      <3> QED BY <3>2, <3>3, <3>4
    <2>3. CASE Flush
      <3>1. Sink(chunk, TRUE) /\ IsList(chunk) /\ Len(chunk) <= ChunkRows /\ ~sent.done
        BY <1>1, <2>3 DEF Flush, ChunkInv
      <3> QED BY <1>1, <3>1, SinkGrows
    <2> QED BY <1>1, <2>1, <2>2, <2>3 DEF Next, Seed, Intersect, Cancel
  <1>2. ChunkInv /\ [Next]_vars => [sent' # sent => Good]_vars
    BY <1>1
  <1> QED BY <1>2, ChunkInvariant, PTL DEF Spec, ChunksWellFormed

-----------------------------------------------------------------------------
(***************************************************************************)
(* The rows.  pos, the positions of the rows taken, grows by the position  *)
(* the loop is at, which lies behind all of them.                          *)
(***************************************************************************)

(* The rows taken so far, and the positions of work they are at. *)
Collected == sent.rows \o chunk
InBox(p) == spec.geo => Inside(table[work[p]], spec.box)
Taken == {p \in 1..at - 1 : InBox(p)}

(* Why the loop may have ended without a cancel. *)
Ended ==
  \/ at > Len(work) \/ (code = "cpp" /\ spec.geo)
  \/ spec.maxRows # 0 /\ produced = spec.maxRows

(* The rows are those at the positions taken, and the counters say so. *)
PlanInv ==
  /\ ChunkInv
  /\ at \in Nat \ {0} /\ spec \in Specs
  /\ produced = Len(sent.rows) + Len(chunk)
  /\ pc = "plan" => work = <<>>
  /\ pc \in {"plan", "seed", "intersect"} => at = 1
  /\ spec.maxRows # 0 => /\ produced <= spec.maxRows
                         /\ pc \notin {"flush", "done"} => produced < spec.maxRows
  /\ pc \in {"flush", "done"} /\ ~canceled => Ended
  /\ Enumerates(Collected, work, Taken)

(* No rows at no positions. *)
LEMMA EnumeratesNone ==
  ASSUME NEW rows, NEW list, NEW S, S = {}, Len(rows) = 0
  PROVE  Enumerates(rows, list, S)
  <1> DEFINE pos == [k \in 1..Len(rows) |-> 0]
  <1>1. 1..Len(rows) = {}
    OBVIOUS
  <1>2. pos \in [1..Len(rows) -> S]
    BY <1>1
  <1> QED BY <1>1, <1>2 DEF Enumerates

(* One row more, from behind the positions so far. *)
LEMMA EnumeratesNext ==
  ASSUME NEW rows, IsList(rows), NEW list, NEW S, NEW a \in Nat \ {0}, S \subseteq 1..(a - 1),
         Enumerates(rows, list, S)
  PROVE  Enumerates(Append(rows, list[a]), list, S \cup {a})
  <1> DEFINE n == Len(rows)
             more == Append(rows, list[a])
  <1>1. n \in Nat /\ Len(more) = n + 1 /\ more[n + 1] = list[a]
        /\ \A i \in 1..n : more[i] = rows[i]
    BY ListAppend
  <1>2. PICK pos \in [1..n -> S] :
          /\ \A j, k \in 1..n : j < k => pos[j] < pos[k]
          /\ \A p \in S : \E k \in 1..n : pos[k] = p
          /\ \A k \in 1..n : rows[k] = list[pos[k]]
    BY DEF Enumerates
  <1> HIDE DEF n, more
  <1> DEFINE new == [k \in 1..(n + 1) |-> IF k = n + 1 THEN a ELSE pos[k]]
  <1>3. new[n + 1] = a /\ \A k \in 1..n : new[k] = pos[k] /\ pos[k] \in S
    BY <1>1, <1>2
  <1>4. \A k \in 1..(n + 1) : k = n + 1 \/ k \in 1..n
    BY <1>1
  <1>5. new \in [1..(n + 1) -> S \cup {a}]
    BY <1>2, <1>4
  <1> HIDE DEF new
  <1>6. \A j, k \in 1..(n + 1) : j < k => new[j] < new[k]
    <2> SUFFICES ASSUME NEW j \in 1..(n + 1), NEW k \in 1..(n + 1), j < k PROVE new[j] < new[k]
      OBVIOUS
    <2>1. j \in 1..n
      BY <1>1
    <2>2. CASE k = n + 1
      <3>1. new[j] \in S /\ new[k] = a
        BY <1>3, <2>1, <2>2
      <3>2. new[j] \in 1..(a - 1)
        BY <3>1
      <3> QED BY <3>1, <3>2
    <2>3. CASE k \in 1..n
      BY <1>2, <1>3, <2>1, <2>3
    <2> QED BY <1>4, <2>2, <2>3
  <1>7. \A p \in S \cup {a} : \E k \in 1..(n + 1) : new[k] = p
    <2> SUFFICES ASSUME NEW p \in S \cup {a} PROVE \E k \in 1..(n + 1) : new[k] = p
      OBVIOUS
    <2>1. CASE p = a
      BY <1>1, <1>3, <2>1
    <2>2. CASE p \in S
      <3>1. PICK k \in 1..n : pos[k] = p
        BY <1>2, <2>2
      <3> QED BY <1>1, <1>3, <3>1
    <2> QED BY <2>1, <2>2
  <1>8. \A k \in 1..(n + 1) : more[k] = list[new[k]]
    BY <1>1, <1>2, <1>3, <1>4
  <1>9. \E q \in [1..Len(more) -> S \cup {a}] :
          /\ \A j, k \in 1..Len(more) : j < k => q[j] < q[k]
          /\ \A p \in S \cup {a} : \E k \in 1..Len(more) : q[k] = p
          /\ \A k \in 1..Len(more) : more[k] = list[q[k]]
    BY <1>1, <1>5, <1>6, <1>7, <1>8
  <1> QED BY <1>9 DEF Enumerates, more

(* Sending a chunk moves nothing in the list of all rows. *)
LEMMA ListRegroup ==
  ASSUME NEW s, IsList(s), NEW t, IsList(t), NEW e
  PROVE  s \o Append(t, e) = Append(s \o t, e) /\ (s \o t) \o <<>> = s \o t
  <1> DEFINE S == {s[i] : i \in DOMAIN s} \cup {t[i] : i \in DOMAIN t} \cup {e}
  <1>1. s \in Seq(S) /\ t \in Seq(S) /\ e \in S
    BY SeqMonotonic DEF IsList
  <1> HIDE DEF S
  <1>2. Append(t, e) = t \o <<e>> /\ Append(s \o t, e) = (s \o t) \o <<e>>
    BY <1>1, AppendIsConcat, ConcatProperties
  <1>3. <<e>> \in Seq(S) /\ s \o t \in Seq(S)
    BY <1>1, ConcatProperties
  <1>4. (s \o t) \o <<e>> = s \o (t \o <<e>>)
    BY <1>1, <1>3, ConcatAssociative
  <1>5. (s \o t) \o <<>> = s \o t
    BY <1>3, ConcatEmptySeq
  <1> QED BY <1>2, <1>4, <1>5

(* One position further: it is taken when its row is in the box. *)
LEMMA TakenNext ==
  ASSUME at \in Nat \ {0}, at' = at + 1, UNCHANGED <<table, spec, work>>
  PROVE  /\ Taken \subseteq 1..(at - 1)
         /\ Taken' = IF InBox(at) THEN Taken \cup {at} ELSE Taken
  <1>1. 1..(at' - 1) = 1..(at - 1) \cup {at}
    OBVIOUS
  <1>2. \A p : InBox(p)' <=> InBox(p)
    BY DEF InBox
  <1> QED BY <1>1, <1>2 DEF Taken

(* One row more in the chunk is one more in all. *)
LEMMA OneMore ==
  ASSUME NEW a \in Nat, NEW b \in Nat
  PROVE  (a + b) + 1 = a + (b + 1)
  OBVIOUS

(* ... and none is none. *)
LEMMA NoneMore ==
  ASSUME NEW a \in Nat
  PROVE  a + 0 = a
  OBVIOUS

(* The loop takes the row it is at, or passes over one outside the box. *)
LEMMA EmitPlanInv == PlanInv /\ Emit => PlanInv'
  <1> SUFFICES ASSUME PlanInv, Emit PROVE PlanInv'
    OBVIOUS
  <1>1. ChunkInv'
    BY EmitChunkInv DEF PlanInv
  <1>2. /\ pc = "emit" /\ at \in Nat \ {0} /\ spec \in Specs /\ spec.maxRows \in Nat
        /\ produced = Len(sent.rows) + Len(chunk) /\ produced \in Nat
        /\ spec.maxRows # 0 => produced < spec.maxRows
        /\ IsList(sent.rows) /\ IsList(chunk) /\ Enumerates(Collected, work, Taken)
        /\ UNCHANGED <<code, table, spec, work, canceled>>
    <2>1. /\ pc = "emit" /\ UNCHANGED <<code, table, spec, work, canceled>>
      BY DEF Emit, query
    <2>2. IsList(sent.rows) /\ IsList(chunk)
      BY DEF PlanInv, ChunkInv
    <2>3. Len(sent.rows) \in Nat /\ Len(chunk) \in Nat
      BY <2>2, ListConcat
    <2>4. spec.maxRows \in Nat
      BY EngineConstants DEF PlanInv, QuerySpec
    <2>5. /\ at \in Nat \ {0} /\ spec \in Specs /\ Enumerates(Collected, work, Taken)
          /\ produced = Len(sent.rows) + Len(chunk)
          /\ spec.maxRows # 0 => produced < spec.maxRows
      BY <2>1 DEF PlanInv
    <2> QED BY <2>1, <2>2, <2>3, <2>4, <2>5
  <1>3. CASE at > Len(work) \/ HearsCancel
    <2>1. pc' = "flush" /\ UNCHANGED <<at, chunk, produced, sent>>
      BY <1>3 DEF Emit
    <2>2. Collected' = Collected /\ Taken' = Taken
      BY <1>2, <2>1 DEF Collected, Taken, InBox
    <2>3. canceled \/ Ended'
      BY <1>2, <1>3, <2>1 DEF HearsCancel, Ended
    <2> QED BY <1>1, <1>2, <2>1, <2>2, <2>3 DEF PlanInv
  <1>4. CASE ~(at > Len(work) \/ HearsCancel) /\ Outside
    <2>1. Skip /\ UNCHANGED <<chunk, produced, sent>>
      BY <1>4 DEF Emit
    <2>2. Collected' = Collected
      BY <2>1 DEF Collected
    <2>3. CASE code = "cpp"
      <3>1. pc' = "flush" /\ at' = at
        BY <2>1, <2>3 DEF Skip
      <3>2. Taken' = Taken
        BY <1>2, <3>1 DEF Taken, InBox
      <3>3. Ended'
        BY <1>2, <1>4, <2>3 DEF Ended, Outside
      <3> QED BY <1>1, <1>2, <2>1, <2>2, <3>1, <3>2, <3>3 DEF PlanInv
    <2>4. CASE code # "cpp"
      <3>1. at' = at + 1 /\ pc' = "emit"
        BY <1>2, <2>1, <2>4 DEF Skip
      <3>2. ~InBox(at)
        BY <1>4 DEF Outside, InBox
      <3>3. Taken' = Taken
        BY <1>2, <3>1, <3>2, TakenNext
      <3> QED BY <1>1, <1>2, <2>1, <2>2, <3>1, <3>3 DEF PlanInv
    <2> QED BY <2>3, <2>4
  <1>5. CASE ~(at > Len(work) \/ HearsCancel) /\ ~Outside
    <2> DEFINE rows == Append(chunk, work[at])
    <2>1. Take
      BY <1>5 DEF Emit
    <2>2. ChunkInv
      BY DEF PlanInv
    <2>3. /\ IsList(rows) /\ Len(rows) = Len(chunk) + 1 /\ at' = at + 1 /\ produced' = produced + 1
          /\ (Sink(rows, FALSE) /\ chunk' = <<>>) \/ (UNCHANGED sent /\ chunk' = rows)
          /\ IF spec.maxRows # 0 /\ produced + 1 >= spec.maxRows
               THEN pc' = "flush" ELSE pc' = "emit"
      BY <1>2, <2>1, <2>2, TakeFacts
    <2>4. Collected' = Append(Collected, work[at])
      <3>1. /\ sent.rows \o rows = Append(Collected, work[at])
            /\ IsList(sent.rows \o rows)
        BY <1>2, <2>3, ListRegroup, ListConcat DEF Collected
      <3>2. CASE Sink(rows, FALSE) /\ chunk' = <<>>
        <4>1. sent'.rows = sent.rows \o rows
          BY <3>2, SinkFacts
        <4>2. (sent.rows \o rows) \o <<>> = sent.rows \o rows
          BY <1>2, <2>3, ListRegroup
        <4> QED BY <3>1, <3>2, <4>1, <4>2 DEF Collected
      <3>3. CASE UNCHANGED sent /\ chunk' = rows
        BY <3>1, <3>3 DEF Collected
      <3> QED BY <2>3, <3>2, <3>3
    <2>5. produced' = Len(sent'.rows) + Len(chunk')
      <3>1. /\ Len(sent.rows) \in Nat /\ Len(rows) \in Nat
            /\ Len(sent.rows \o rows) = Len(sent.rows) + Len(rows)
        BY <1>2, <2>3, ListConcat
      <3>2. produced' = Len(sent.rows) + Len(rows)
        <4>1. Len(chunk) \in Nat
          BY <1>2, ListConcat
        <4>2. /\ produced = Len(sent.rows) + Len(chunk) /\ produced' = produced + 1
              /\ Len(rows) = Len(chunk) + 1
          BY <1>2, <2>3
        <4>3. (Len(sent.rows) + Len(chunk)) + 1 = Len(sent.rows) + (Len(chunk) + 1)
          BY <3>1, <4>1, OneMore
        <4> QED BY <4>2, <4>3
      <3> HIDE DEF rows
      <3>3. CASE Sink(rows, FALSE) /\ chunk' = <<>>
        <4>1. sent'.rows = sent.rows \o rows
          BY <3>3, SinkFacts
        <4>2. Len(chunk') = 0
          BY <3>3, ListEmpty
        <4>3. Len(sent'.rows) = produced' /\ produced' \in Nat
          BY <3>1, <3>2, <4>1
        <4>4. produced' + 0 = produced'
          BY <4>3, NoneMore
        <4> QED BY <4>2, <4>3, <4>4
      <3>4. CASE UNCHANGED sent /\ chunk' = rows
        BY <3>2, <3>4
      <3> QED BY <2>3, <3>3, <3>4
    <2> HIDE DEF rows
    <2>6. Enumerates(Collected', work', Taken')
      <3>1. InBox(at)
        BY <1>5 DEF Outside, InBox
      <3>2. Taken \subseteq 1..(at - 1) /\ Taken' = Taken \cup {at}
        BY <1>2, <2>3, <3>1, TakenNext
      <3>3. IsList(Collected)
        BY <1>2, ListConcat DEF Collected
      <3>4. Enumerates(Append(Collected, work[at]), work, Taken \cup {at})
        BY <1>2, <3>2, <3>3, EnumeratesNext
      <3> QED BY <1>2, <2>4, <3>2, <3>4
    <2>7. pc' = "flush" => Ended'
      BY <1>2, <2>3 DEF Ended
    <2>8. spec'.maxRows # 0 => /\ produced' <= spec'.maxRows
                               /\ pc' \notin {"flush", "done"} => produced' < spec'.maxRows
      BY <1>2, <2>3
    <2>9. pc' \in {"emit", "flush"} /\ at' \in Nat \ {0} /\ spec' \in Specs
      BY <1>2, <2>3
    <2> QED BY <1>1, <2>5, <2>6, <2>7, <2>8, <2>9 DEF PlanInv
  <1> QED BY <1>3, <1>4, <1>5

(* Nothing is taken before the loop. *)
LEMMA NoneTaken ==
  ASSUME ChunkInv, pc \in {"plan", "seed", "intersect"}, at = 1
  PROVE  /\ Collected = <<>> /\ Len(sent.rows) = 0 /\ Len(chunk) = 0 /\ Taken = {}
  <1>1. chunk = <<>> /\ sent.rows = <<>>
    BY DEF ChunkInv
  <1>2. Collected = <<>>
    BY <1>1, EmptySeq, ConcatEmptySeq DEF Collected
  <1>3. Taken = {}
    BY DEF Taken
  <1> QED BY <1>1, <1>2, <1>3, ListEmpty

(* The plan starts with nothing taken and no list. *)
LEMMA InitPlanInv == Init => PlanInv
  <1> SUFFICES ASSUME Init PROVE PlanInv
    OBVIOUS
  <1>1. ChunkInv
    BY InitChunkInv
  <1>2. pc = "plan" /\ at = 1 /\ work = <<>> /\ produced = 0 /\ spec \in Specs
    BY DEF Init
  <1>3. Collected = <<>> /\ Len(sent.rows) = 0 /\ Len(chunk) = 0 /\ Taken = {}
    BY <1>1, <1>2, NoneTaken
  <1>4. Enumerates(Collected, work, Taken)
    BY <1>3, ListEmpty, EnumeratesNone
  <1>5. spec.maxRows # 0 => produced <= spec.maxRows /\ produced < spec.maxRows
    BY <1>2, EngineConstants DEF QuerySpec
  <1>6. produced = Len(sent.rows) + Len(chunk)
    BY <1>2, <1>3
  <1> QED BY <1>1, <1>2, <1>4, <1>5, <1>6 DEF PlanInv

(* Planning and intersecting change the list before any row of it is taken. *)
LEMMA PlanningPlanInv == PlanInv /\ (Plan \/ Seed \/ Intersect) => PlanInv'
  <1> SUFFICES ASSUME PlanInv, Plan \/ Seed \/ Intersect PROVE PlanInv'
    OBVIOUS
  <1>1. ChunkInv'
    BY NextChunkInv DEF PlanInv, Next
  <1>2. /\ pc \in {"plan", "seed", "intersect"} /\ at = 1 /\ ChunkInv /\ spec \in Specs
        /\ produced = Len(sent.rows) + Len(chunk)
        /\ spec.maxRows # 0 => produced < spec.maxRows /\ produced <= spec.maxRows
        /\ UNCHANGED <<code, spec, table, at, chunk, produced, canceled>>
    BY DEF PlanInv, Plan, Seed, Intersect, query
  <1>3. Collected = <<>> /\ Len(sent.rows) = 0 /\ Len(chunk) = 0 /\ Taken = {}
    BY <1>2, NoneTaken
  <1>4. Taken' = {}
    BY <1>2 DEF Taken
  <1>5. CASE sent' = sent /\ pc' \in {"seed", "intersect", "emit"}
    <2>1. Collected' = Collected
      BY <1>2, <1>5 DEF Collected
    <2>2. Enumerates(Collected', work', Taken')
      BY <1>3, <1>4, <2>1, ListEmpty, EnumeratesNone
    <2> QED BY <1>1, <1>2, <1>5, <2>2 DEF PlanInv
  <1>6. CASE Sink(<<>>, TRUE) /\ pc' = "done" /\ pc = "plan" /\ work' = work
    <2>1. sent'.rows = sent.rows \o <<>>
      BY <1>6, SinkFacts
    <2>2. sent.rows = <<>> /\ work = <<>> /\ chunk = <<>>
      BY <1>6 DEF PlanInv, ChunkInv
    <2>3. sent'.rows = sent.rows
      BY <2>1, <2>2, EmptySeq, ConcatEmptySeq
    <2>4. Collected' = Collected
      BY <1>2, <2>3 DEF Collected
    <2>5. Enumerates(Collected', work', Taken')
      BY <1>3, <1>4, <2>4, ListEmpty, EnumeratesNone
    <2>6. Ended'
      BY <1>2, <1>6, <2>2, ListEmpty DEF Ended
    <2> QED BY <1>1, <1>2, <1>6, <2>3, <2>5, <2>6 DEF PlanInv
  <1>7. \/ sent' = sent /\ pc' \in {"seed", "intersect", "emit"}
        \/ Sink(<<>>, TRUE) /\ pc' = "done" /\ pc = "plan" /\ work' = work
    BY DEF Plan, Seed, Intersect
  <1> QED BY <1>5, <1>6, <1>7

(* The last call of the sink moves the chunk behind what was sent. *)
LEMMA FlushPlanInv == PlanInv /\ Flush => PlanInv'
  <1> SUFFICES ASSUME PlanInv, Flush PROVE PlanInv'
    OBVIOUS
  <1>1. ChunkInv'
    BY NextChunkInv DEF PlanInv, Next
  <1>2. /\ pc = "flush" /\ pc' = "done" /\ chunk' = <<>> /\ Sink(chunk, TRUE)
        /\ UNCHANGED <<code, spec, table, work, at, produced, canceled>>
    BY DEF Flush, query
  <1>3. IsList(sent.rows) /\ IsList(chunk) /\ sent'.rows = sent.rows \o chunk
    BY <1>2, SinkFacts DEF PlanInv, ChunkInv
  <1>4. Collected' = Collected
    BY <1>2, <1>3, ListRegroup DEF Collected
  <1>5. Taken' = Taken /\ (Ended' <=> Ended)
    BY <1>2 DEF Taken, InBox, Ended
  <1>6. produced' = Len(sent'.rows) + Len(chunk')
    <2>1. /\ Len(sent.rows) \in Nat /\ Len(chunk) \in Nat
          /\ Len(sent'.rows) = Len(sent.rows) + Len(chunk)
      BY <1>3, ListConcat
    <2>2. produced' = Len(sent.rows) + Len(chunk)
      BY <1>2 DEF PlanInv
    <2>3. Len(sent'.rows) = produced' /\ produced' \in Nat
      BY <2>1, <2>2
    <2>4. produced' + 0 = produced'
      BY <2>3, NoneMore
    <2>5. Len(chunk') = 0
      BY <1>2, ListEmpty
    <2> QED BY <2>3, <2>4, <2>5
  <1> QED BY <1>1, <1>2, <1>4, <1>5, <1>6 DEF PlanInv

(* Every step is true to the plan ... *)
LEMMA NextPlanInv == PlanInv /\ [Next]_vars => PlanInv'
  <1> SUFFICES ASSUME PlanInv, [Next]_vars PROVE PlanInv'
    OBVIOUS
  <1>1. CASE UNCHANGED vars \/ Cancel
    <2>1. ChunkInv'
      BY NextChunkInv DEF PlanInv
    <2>2. /\ UNCHANGED <<code, spec, table, work, at, chunk, produced, sent, pc>>
          /\ canceled' = canceled \/ canceled' = TRUE
      BY <1>1 DEF vars, Cancel, query
    <2>3. Collected' = Collected /\ Taken' = Taken /\ (Ended' <=> Ended)
      BY <2>2 DEF Collected, Taken, InBox, Ended
    <2> QED BY <2>1, <2>2, <2>3 DEF PlanInv
  <1>2. CASE Plan \/ Seed \/ Intersect
    BY <1>2, PlanningPlanInv
  <1>3. CASE Emit
    BY <1>3, EmitPlanInv
  <1>4. CASE Flush
    BY <1>4, FlushPlanInv
  <1> QED BY <1>1, <1>2, <1>3, <1>4 DEF Next

(* ... so in both engines, whatever the indices answered, the sink gets the *)
(* rows of the plan's list that are in the box, each once and in order, as  *)
(* far as the loop went, which only a cancel, the row limit or the break of *)
(* C++ at a row outside the box keeps from going to the end.                *)
THEOREM PlanIsFollowed == Spec => []PlanFollowed
  <1>1. PlanInv => PlanFollowed
    <2> SUFFICES ASSUME PlanInv PROVE PlanFollowed
      OBVIOUS
    <2>1. Len(Collected) = produced
      BY ListConcat DEF PlanInv, ChunkInv, Collected
    <2>2. sent.done => pc = "done"
      BY DEF PlanInv, ChunkInv
    <2>3. Taken = {p \in 1..at - 1 : spec.geo => Inside(table[work[p]], spec.box)}
      BY DEF Taken, InBox
    <2>4. /\ Enumerates(Collected, work, Taken)
          /\ spec.maxRows # 0 => Len(Collected) <= spec.maxRows
          /\ sent.done /\ ~canceled =>
               \/ at > Len(work) \/ (code = "cpp" /\ spec.geo)
               \/ spec.maxRows # 0 /\ Len(Collected) = spec.maxRows
      BY <2>1, <2>2 DEF PlanInv, Ended
    <2> QED BY <2>3, <2>4 DEF PlanFollowed, Collected
  <1> QED BY <1>1, InitPlanInv, NextPlanInv, PTL DEF Spec

(* Counting up from 0 one comes to every number. *)
LEMMA CountUp ==
  ASSUME NEW P \in SUBSET Nat, 0 \in P, \A n \in P : n + 1 \in P
  PROVE  P = Nat
  <1> SUFFICES ASSUME Nat \ P # {} PROVE FALSE
    OBVIOUS
  <1>1. PICK first \in Nat \ P : \A n \in Nat \ P : ~(<<n, first>> \in OpToRel(<, Nat))
    BY NatLessThanWellFounded, WFMin
  <1>2. first - 1 \in Nat /\ first - 1 < first
    OBVIOUS
  <1>3. <<first - 1, first>> \in OpToRel(<, Nat)
    BY <1>2 DEF OpToRel
  <1>4. first - 1 \in P
    BY <1>1, <1>2, <1>3
  <1>5. (first - 1) + 1 = first
    OBVIOUS
  <1> QED BY <1>4, <1>5

-----------------------------------------------------------------------------
(***************************************************************************)
(* Lists of row ids.  A finite set of rows in a total order has one list   *)
(* in that order: the rank of a row is the number of rows before it, and   *)
(* no two have the same.                                                   *)
(***************************************************************************)

(* R puts the elements of S in a row. *)
Orders(R, S) ==
  /\ \A i \in S : <<i, i>> \notin R
  /\ \A i, j, k \in S : <<i, j>> \in R /\ <<j, k>> \in R => <<i, k>> \in R
  /\ \A i, j \in S : i # j => <<i, j>> \in R \/ <<j, i>> \in R

(* How many elements of S come before i. *)
Rank(S, R, i) == Cardinality({j \in S : <<j, i>> \in R})

(* Every rank is that of one element. *)
LEMMA RanksAreTaken ==
  ASSUME NEW S, IsFiniteSet(S), NEW R, Orders(R, S)
  PROVE  /\ Cardinality(S) \in Nat
         /\ \A i \in S : Rank(S, R, i) \in 0..(Cardinality(S) - 1)
         /\ \A i, j \in S : <<i, j>> \in R => Rank(S, R, i) < Rank(S, R, j)
         /\ \A m \in 0..(Cardinality(S) - 1) : \E i \in S : Rank(S, R, i) = m
  <1> DEFINE n == Cardinality(S)
             before(i) == {j \in S : <<j, i>> \in R}
             rank(i) == Cardinality(before(i))
  <1>1. n \in Nat
    BY FS_CardinalityType
  <1>2. ASSUME NEW i \in S
        PROVE  rank(i) \in 0..(n - 1) /\ IsFiniteSet(before(i))
    <2>1. before(i) \in SUBSET S /\ i \in S /\ i \notin before(i)
      BY DEF Orders
    <2> HIDE DEF before
    <2>2. IsFiniteSet(before(i)) /\ rank(i) <= n /\ (n = rank(i) => S = before(i))
      BY <2>1, FS_Subset
    <2>3. rank(i) \in Nat
      BY <2>2, FS_CardinalityType
    <2>4. n # rank(i)
      BY <2>1, <2>2
    <2> HIDE DEF rank, n
    <2> QED BY <1>1, <2>2, <2>3, <2>4
  <1>3. ASSUME NEW i \in S, NEW j \in S, <<i, j>> \in R
        PROVE  rank(i) < rank(j)
    <2>1. before(i) \in SUBSET before(j) /\ i \in before(j) /\ i \notin before(i)
      BY <1>3 DEF Orders
    <2>2. IsFiniteSet(before(j)) /\ rank(i) \in Nat /\ rank(j) \in Nat
      BY <1>2
    <2> HIDE DEF before
    <2>3. rank(i) <= rank(j) /\ (rank(j) = rank(i) => before(j) = before(i))
      BY <2>1, <2>2, FS_Subset
    <2>4. rank(j) # rank(i)
      BY <2>1, <2>3
    <2> HIDE DEF rank
    <2> QED BY <2>2, <2>3, <2>4
  <1>4. ASSUME NEW m \in 0..(n - 1)
        PROVE  \E i \in S : rank(i) = m
    <2> SUFFICES ASSUME \A i \in S : rank(i) # m PROVE FALSE
      OBVIOUS
    <2> DEFINE ranks == 0..(n - 1)
               f == [i \in S |-> rank(i)]
    <2> HIDE DEF rank
    <2>1. f \in [S -> ranks \ {m}]
      BY <1>2
    <2>2. n # 0
      BY <1>1
    <2>3. IsFiniteSet(ranks) /\ Cardinality(ranks) = n
      BY <1>1, <2>2, FS_Interval
    <2>4. IsFiniteSet(ranks \ {m}) /\ Cardinality(ranks \ {m}) = n - 1
      BY <2>3, FS_RemoveElement
    <2>5. Cardinality(ranks \ {m}) < Cardinality(S)
      BY <1>1, <2>4
    <2> HIDE DEF f, ranks
    <2>6. \E i, j \in S : i # j /\ f[i] = f[j]
      BY <2>1, <2>4, <2>5, FS_PigeonHole
    <2>7. PICK i \in S, j \in S : i # j /\ f[i] = f[j]
      BY <2>6
    <2>8. rank(i) = rank(j)
      BY <2>7 DEF f
    <2>9. <<i, j>> \in R \/ <<j, i>> \in R
      BY <2>7 DEF Orders
    <2>10. rank(i) < rank(j) \/ rank(j) < rank(i)
      BY <1>3, <2>9
    <2>11. rank(i) \in 0..(n - 1)
      BY <1>2
    <2> QED BY <1>1, <2>8, <2>10, <2>11
  <1> HIDE DEF n, before, rank
  <1>5. /\ n \in Nat
        /\ \A i \in S : rank(i) \in 0..(n - 1)
        /\ \A i, j \in S : <<i, j>> \in R => rank(i) < rank(j)
        /\ \A m \in 0..(n - 1) : \E i \in S : rank(i) = m
    BY <1>1, <1>2, <1>3, <1>4
  <1> QED BY <1>5 DEF n, before, rank, Rank

(* Sorting gives each element once, and in order. *)
LEMMA SortedFacts ==
  ASSUME NEW S, IsFiniteSet(S), NEW R, Orders(R, S)
  PROVE  /\ Sorted(S, R) \in Seq(S) /\ Len(Sorted(S, R)) = Cardinality(S)
         /\ \A j, k \in 1..Len(Sorted(S, R)) : j < k => <<Sorted(S, R)[j], Sorted(S, R)[k]>> \in R
         /\ \A i \in S : \E k \in 1..Len(Sorted(S, R)) : Sorted(S, R)[k] = i
  <1> DEFINE n == Cardinality(S)
             rank(i) == Rank(S, R, i)
             s == Sorted(S, R)
  <1>1. /\ n \in Nat
        /\ \A i \in S : rank(i) \in 0..(n - 1)
        /\ \A i, j \in S : <<i, j>> \in R => rank(i) < rank(j)
        /\ \A m \in 0..(n - 1) : \E i \in S : rank(i) = m
    BY RanksAreTaken
  <1>2. s = [k \in 1..n |-> CHOOSE i \in S : rank(i) = k - 1]
    BY DEF Sorted, Rank
  <1> HIDE DEF n, rank, s
  <1>3. \A k \in 1..n : s[k] \in S /\ rank(s[k]) = k - 1
    <2> TAKE k \in 1..n
    <2>1. \E i \in S : rank(i) = k - 1
      BY <1>1
    <2> QED BY <1>2, <2>1
  <1>4. s \in [1..n -> S]
    BY <1>2, <1>3
  <1>5. s \in Seq(S) /\ Len(s) = n
    <2>1. s \in Seq(S)
      BY <1>1, <1>4, SeqDef
    <2>2. DOMAIN s = 1..Len(s) /\ Len(s) \in Nat
      BY <2>1, LenProperties
    <2> QED BY <1>1, <1>4, <2>1, <2>2
  <1>6. \A j, k \in 1..n : j < k => <<s[j], s[k]>> \in R
    <2> SUFFICES ASSUME NEW j \in 1..n, NEW k \in 1..n, j < k PROVE <<s[j], s[k]>> \in R
      OBVIOUS
    <2>1. s[j] # s[k] /\ ~(rank(s[k]) < rank(s[j]))
      BY <1>1, <1>3
    <2>2. <<s[j], s[k]>> \in R \/ <<s[k], s[j]>> \in R
      BY <1>3, <2>1 DEF Orders
    <2> QED BY <1>1, <1>3, <2>1, <2>2
  <1>7. \A i \in S : \E k \in 1..n : s[k] = i
    <2> TAKE i \in S
    <2> DEFINE k == rank(i) + 1
    <2>1. k \in 1..n /\ k - 1 = rank(i)
      BY <1>1
    <2> HIDE DEF k
    <2>2. s[k] \in S /\ rank(s[k]) = rank(i)
      BY <1>3, <2>1
    <2>3. s[k] = i
      <3> SUFFICES ASSUME s[k] # i PROVE FALSE
        OBVIOUS
      <3>1. <<s[k], i>> \in R \/ <<i, s[k]>> \in R
        BY <2>2 DEF Orders
      <3>2. rank(i) \in Nat
        BY <1>1
      <3> QED BY <1>1, <2>2, <3>1, <3>2
    <2> QED BY <2>1, <2>3
  <1> QED BY <1>5, <1>6, <1>7 DEF s, n

(* list gives the elements of S in ascending order. *)
Lists(list, S) ==
  /\ list \in Seq(S)
  /\ \A j, k \in 1..Len(list) : j < k => list[j] < list[k]
  /\ \A i \in S : \E k \in 1..Len(list) : list[k] = i

(* Every finite set of numbers has such a list. *)
LEMMA AscendingLists ==
  ASSUME NEW S \in SUBSET Int, IsFiniteSet(S)
  PROVE  Lists(Ascending(S), S) /\ Len(Ascending(S)) = Cardinality(S)
  <1> DEFINE R == {p \in S \X S : p[1] < p[2]}
             list == Ascending(S)
  <1>1. \A i, j \in S : <<i, j>> \in R <=> i < j
    OBVIOUS
  <1>2. Orders(R, S)
    BY <1>1 DEF Orders
  <1>3. list = Sorted(S, R)
    BY DEF Ascending
  <1> HIDE DEF R, list
  <1>4. /\ list \in Seq(S) /\ Len(list) = Cardinality(S)
        /\ \A j, k \in 1..Len(list) : j < k => <<list[j], list[k]>> \in R
        /\ \A i \in S : \E k \in 1..Len(list) : list[k] = i
    BY <1>2, <1>3, SortedFacts
  <1>5. \A k \in 1..Len(list) : list[k] \in S
    BY <1>4, ElementOfSeq
  <1>6. \A j, k \in 1..Len(list) : j < k => list[j] < list[k]
    BY <1>1, <1>4, <1>5
  <1> QED BY <1>4, <1>6 DEF Lists, list

(* A set is counted by naming each of its elements once. *)
LEMMA CountedOnce ==
  ASSUME NEW n \in Nat, NEW T, NEW f \in [1..n -> T],
         \A i \in T : \E k \in 1..n : f[k] = i,
         \A j, k \in 1..n : f[j] = f[k] => j = k
  PROVE  IsFiniteSet(T) /\ Cardinality(T) = n
  <1>1. f \in Bijection(1..n, T)
    BY DEF Bijection, Injection, Surjection, IsInjective
  <1>2. IsFiniteSet(1..n) /\ Cardinality(1..n) = n
    BY FS_Interval
  <1>3. ExistsBijection(1..n, T)
    BY <1>1 DEF ExistsBijection
  <1> QED BY <1>2, <1>3, FS_Bijection

(* The row ids of a table are finitely many. *)
LEMMA RowIds ==
  ASSUME NEW A, NEW t \in Seq(A), NEW S \in SUBSET DOMAIN t
  PROVE  /\ DOMAIN t = 1..Len(t) /\ Len(t) \in Nat /\ S \in SUBSET Int
         /\ IsFiniteSet(S) /\ Cardinality(S) \in Nat /\ Cardinality(S) <= Len(t)
  <1> DEFINE n == Len(t)
  <1>1. DOMAIN t = 1..n /\ n \in Nat
    BY LenProperties
  <1> HIDE DEF n
  <1>2. IsFiniteSet(1..n) /\ Cardinality(1..n) = n
    BY <1>1, FS_Interval
  <1>3. IsFiniteSet(S) /\ Cardinality(S) <= n
    BY <1>1, <1>2, FS_Subset
  <1>4. Cardinality(S) \in Nat
    BY <1>3, FS_CardinalityType
  <1> QED BY <1>1, <1>3, <1>4 DEF n

(* A set of positions with no gap before its last is the first so many. *)
LEMMA FirstSoMany ==
  ASSUME NEW n \in Nat, NEW D \in SUBSET (1..n),
         \A k \in D : \A j \in 1..n : j < k => j \in D
  PROVE  Cardinality(D) \in 0..n /\ D = 1..Cardinality(D)
  <1> DEFINE c == Cardinality(D)
  <1>1. IsFiniteSet(1..n) /\ Cardinality(1..n) = n
    BY FS_Interval
  <1>2. IsFiniteSet(D) /\ c <= n
    BY <1>1, FS_Subset
  <1>3. c \in Nat
    BY <1>2, FS_CardinalityType
  <1>4. ASSUME NEW k \in D PROVE k <= c
    <2>1. (1..k) \in SUBSET D
      OBVIOUS
    <2>2. k \in Nat \ {0} /\ Cardinality(1..k) = k
      BY FS_Interval
    <2>3. Cardinality(1..k) <= c
      BY <1>2, <2>1, FS_Subset
    <2> QED BY <2>2, <2>3
  <1>5. D \in SUBSET (1..c)
    BY <1>3, <1>4
  <1>6. IsFiniteSet(1..c) /\ Cardinality(1..c) = c
    BY <1>3, FS_Interval
  <1>7. D = 1..c
    BY <1>5, <1>6, FS_Subset
  <1> QED BY <1>2, <1>3, <1>7

(* In a list of S, as many elements of S are smaller than the one at k as   *)
(* stand before it.                                                         *)
LEMMA PlaceInList ==
  ASSUME NEW S \in SUBSET Int, NEW list, Lists(list, S), NEW k \in 1..Len(list)
  PROVE  Cardinality({i \in S : i < list[k]}) = k - 1
  <1> DEFINE n == Len(list)
             T == {i \in S : i < list[k]}
             pos == [m \in 1..(k - 1) |-> list[m]]
  <1>1. /\ n \in Nat /\ k \in 1..n /\ \A m \in 1..n : list[m] \in S /\ list[m] \in Int
        /\ \A j, m \in 1..n : j < m => list[j] < list[m]
        /\ \A i \in S : \E m \in 1..n : list[m] = i
    BY LenProperties, ElementOfSeq DEF Lists
  <1>2. k - 1 \in Nat /\ \A m \in 1..(k - 1) : m \in 1..n /\ m < k
    BY <1>1
  <1> HIDE DEF n
  <1>3. \A m \in 1..(k - 1) : list[m] \in T
    BY <1>1, <1>2
  <1>4. \A i \in T : \E m \in 1..(k - 1) : list[m] = i
    <2> TAKE i \in T
    <2>1. PICK m \in 1..n : list[m] = i
      BY <1>1
    <2>2. ~(k < m) /\ m # k
      <3>1. list[m] < list[k] /\ list[m] \in Int /\ list[k] \in Int
        BY <1>1, <2>1
      <3> QED BY <1>1, <3>1
    <2>3. m \in 1..(k - 1)
      BY <1>2, <2>2
    <2> QED BY <2>1, <2>3
  <1>5. \A j, m \in 1..(k - 1) : list[j] = list[m] => j = m
    <2> SUFFICES ASSUME NEW j \in 1..(k - 1), NEW m \in 1..(k - 1), list[j] = list[m], j # m
                 PROVE  FALSE
      OBVIOUS
    <2>1. j < m \/ m < j
      BY <1>2
    <2>2. j \in 1..n /\ m \in 1..n
      BY <1>2
    <2>3. list[j] < list[m] \/ list[m] < list[j]
      BY <1>1, <2>1, <2>2
    <2>4. list[j] \in Int /\ list[m] \in Int
      BY <1>1, <2>2
    <2> QED BY <2>3, <2>4
  <1> HIDE DEF T
  <1>6. pos \in [1..(k - 1) -> T]
    BY <1>3
  <1>7. \A i \in T : \E m \in 1..(k - 1) : pos[m] = i
    BY <1>4
  <1>8. \A j, m \in 1..(k - 1) : pos[j] = pos[m] => j = m
    BY <1>5
  <1> HIDE DEF pos
  <1>9. Cardinality(T) = k - 1
    BY <1>2, <1>6, <1>7, <1>8, CountedOnce
  <1> QED BY <1>9 DEF T

(* A list has as many elements as its set. *)
LEMMA LengthOfList ==
  ASSUME NEW S \in SUBSET Int, IsFiniteSet(S), NEW list, Lists(list, S)
  PROVE  Len(list) = Cardinality(S)
  <1> DEFINE n == Len(list)
  <1>1. /\ n \in Nat /\ list \in [1..n -> S] /\ \A m \in 1..n : list[m] \in Int
        /\ \A j, m \in 1..n : j < m => list[j] < list[m]
        /\ \A i \in S : \E m \in 1..n : list[m] = i
    BY LenProperties, ElementOfSeq DEF Lists
  <1> HIDE DEF n
  <1>2. \A j, m \in 1..n : list[j] = list[m] => j = m
    <2> SUFFICES ASSUME NEW j \in 1..n, NEW m \in 1..n, list[j] = list[m], j # m
                 PROVE  FALSE
      OBVIOUS
    <2>1. j < m \/ m < j
      BY <1>1
    <2>2. list[j] < list[m] \/ list[m] < list[j]
      BY <1>1, <2>1
    <2>3. list[j] \in Int /\ list[m] \in Int
      BY <1>1
    <2> QED BY <2>2, <2>3
  <1>3. Cardinality(S) = n
    BY <1>1, <1>2, CountedOnce
  <1> QED BY <1>3 DEF n

(* A set that reaches up to some element of another without a gap is listed *)
(* first.                                                                   *)
LEMMA PrefixOfList ==
  ASSUME NEW S \in SUBSET Int, NEW M \in SUBSET Int, S \subseteq M,
         \A i \in S : \A j \in M : j < i => j \in S,
         NEW list, Lists(list, S), NEW all, Lists(all, M)
  PROVE  Len(list) <= Len(all) /\ list = SubSeq(all, 1, Len(list))
  <1> DEFINE n == Len(list)
             m == Len(all)
  <1>1. /\ n \in Nat /\ list \in Seq(M) /\ \A k \in 1..n : list[k] \in S
        /\ m \in Nat /\ all \in Seq(M) /\ \A k \in 1..m : all[k] \in M
        /\ \A i \in M : \E k \in 1..m : all[k] = i
    BY LenProperties, ElementOfSeq, SeqMonotonic DEF Lists
  <1>2. ASSUME NEW k \in 1..n PROVE k \in 1..m /\ all[k] = list[k]
    <2>1. PICK p \in 1..m : all[p] = list[k]
      BY <1>1
    <2>2. {i \in S : i < list[k]} = {i \in M : i < list[k]}
      BY <1>1
    <2>3. Cardinality({i \in S : i < list[k]}) = k - 1
      BY PlaceInList
    <2>4. Cardinality({i \in M : i < list[k]}) = p - 1
      BY <2>1, PlaceInList
    <2>5. p - 1 = k - 1
      BY <2>2, <2>3, <2>4
    <2>6. p \in Nat /\ k \in Nat
      BY <1>1
    <2>7. p = k
      BY <2>5, <2>6
    <2> QED BY <2>1, <2>7
  <1> HIDE DEF n, m
  <1>3. n <= m
    <2>1. CASE n = 0
      BY <1>1, <2>1
    <2>2. CASE n # 0
      <3>1. n \in 1..n
        BY <1>1, <2>2
      <3>2. n \in 1..m
        BY <1>2, <3>1
      <3> QED BY <1>1, <3>2
    <2> QED BY <2>1, <2>2
  <1>4. /\ SubSeq(all, 1, n) \in Seq(M) /\ Len(SubSeq(all, 1, n)) = n
        /\ \A k \in 1..n : SubSeq(all, 1, n)[k] = all[k]
    <2>1. \A k \in 1..n : all[k] \in M
      BY <1>1, <1>2
    <2>2. /\ SubSeq(all, 1, n) \in Seq(M)
          /\ Len(SubSeq(all, 1, n)) = IF 1 <= n THEN n - 1 + 1 ELSE 0
          /\ \A k \in 1..(n - 1 + 1) : SubSeq(all, 1, n)[k] = all[1 + k - 1]
      BY <1>1, <2>1, SubSeqProperties
    <2>3. n - 1 + 1 = n /\ (\A k \in 1..n : 1 + k - 1 = k) /\ (~(1 <= n) => n = 0)
      BY <1>1
    <2> QED BY <2>2, <2>3
  <1>5. list = SubSeq(all, 1, n)
    BY <1>1, <1>2, <1>4, SeqEqual DEF n
  <1> QED BY <1>3, <1>5 DEF n, m

-----------------------------------------------------------------------------
(***************************************************************************)
(* The indices.  The borough and complaint lists and the cells of the grid *)
(* are ascending lists of row ids; the window of the date index is cut out *)
(* of all rows in the order of their dates, by two binary searches, and    *)
(* sorted again.                                                           *)
(***************************************************************************)

(* What the columns hold. *)
LEMMA Columns ==
  ASSUME NEW t \in Seq(Row)
  PROVE  /\ Len(t) \in Nat /\ DOMAIN t = 1..Len(t)
         /\ \A i \in DOMAIN t : /\ t[i].date \in Int /\ 0 <= t[i].date /\ t[i].date <= MaxDate
                               /\ t[i].lat \in Int /\ t[i].lon \in Int
  <1>1. Len(t) \in Nat /\ DOMAIN t = 1..Len(t)
    BY LenProperties
  <1>2. \A i \in DOMAIN t : t[i] \in Row
    BY <1>1, ElementOfSeq
  <1> QED BY <1>1, <1>2, IndexConstants DEF Row

(* The borough index lists the rows of the borough ... *)
LEMMA BoroughListed ==
  ASSUME NEW t \in Seq(Row), NEW b
  PROVE  Lists(BoroughRows(t, b), {i \in DOMAIN t : t[i].borough = b})
  <1> DEFINE S == {i \in DOMAIN t : t[i].borough = b}
  <1>1. S \in SUBSET DOMAIN t
    OBVIOUS
  <1> HIDE DEF S
  <1>2. S \in SUBSET Int /\ IsFiniteSet(S)
    BY <1>1, RowIds
  <1>3. Lists(Ascending(S), S)
    BY <1>2, AscendingLists
  <1> QED BY <1>3 DEF S, BoroughRows

(* ... and the complaint index those of the complaint type. *)
LEMMA ComplaintListed ==
  ASSUME NEW t \in Seq(Row), NEW c
  PROVE  Lists(ComplaintRows(t, c), {i \in DOMAIN t : t[i].complaint = c})
  <1> DEFINE S == {i \in DOMAIN t : t[i].complaint = c}
  <1>1. S \in SUBSET DOMAIN t
    OBVIOUS
  <1> HIDE DEF S
  <1>2. S \in SUBSET Int /\ IsFiniteSet(S)
    BY <1>1, RowIds
  <1>3. Lists(Ascending(S), S)
    BY <1>2, AscendingLists
  <1> QED BY <1>3 DEF S, ComplaintRows

(* The date index has an entry for every row, and no date before an earlier *)
(* one.                                                                     *)
LEMMA DateIndex ==
  ASSUME NEW t \in Seq(Row)
  PROVE  LET list == ByDate(t)
             n    == Len(t)
         IN  /\ n \in Nat /\ DOMAIN list = 1..n
             /\ \A k \in 1..n : /\ list[k][2] \in DOMAIN t
                                /\ list[k][1] = t[list[k][2]].date
                                /\ list[k][1] \in 0..MaxDate
             /\ \A j, k \in 1..n : j < k => list[j][1] <= list[k][1]
             /\ \A i \in DOMAIN t : \E k \in 1..n : list[k][2] = i
  <1> DEFINE S == DOMAIN t
             R == Earlier(t)
             ids == Sorted(S, R)
             list == ByDate(t)
             n == Len(t)
  <1>1. /\ n \in Nat /\ S = 1..n
        /\ \A i \in S : t[i].date \in 0..MaxDate /\ t[i].date \in Nat
    BY Columns, IndexConstants
  <1>2. IsFiniteSet(S) /\ Cardinality(S) = n
    BY <1>1, FS_Interval
  <1>3. \A i, j \in S : <<i, j>> \in R <=> (t[i].date < t[j].date \/ (t[i].date = t[j].date /\ i < j))
    BY DEF Earlier
  <1>4. Orders(R, S)
    <2> HIDE DEF R, S
    <2>1. \A i \in S : i \in Nat
      BY <1>1
    <2>2. \A i \in S : <<i, i>> \notin R
      BY <1>1, <1>3, <2>1
    <2>3. \A i, j, k \in S : <<i, j>> \in R /\ <<j, k>> \in R => <<i, k>> \in R
      BY <1>1, <1>3, <2>1
    <2>4. \A i, j \in S : i # j => <<i, j>> \in R \/ <<j, i>> \in R
      BY <1>1, <1>3, <2>1
    <2> QED BY <2>2, <2>3, <2>4 DEF Orders
  <1>5. list = [k \in DOMAIN ids |-> <<t[ids[k]].date, ids[k]>>]
    BY DEF ByDate
  <1> HIDE DEF S, R, ids, list
  <1>6. /\ ids \in Seq(S) /\ Len(ids) = n
        /\ \A j, k \in 1..Len(ids) : j < k => <<ids[j], ids[k]>> \in R
        /\ \A i \in S : \E k \in 1..Len(ids) : ids[k] = i
    BY <1>2, <1>4, SortedFacts DEF ids
  <1>7. DOMAIN ids = 1..n /\ \A k \in 1..n : ids[k] \in S
    BY <1>6, LenProperties, ElementOfSeq
  <1> HIDE DEF n
  <1>8. DOMAIN list = 1..n /\ \A k \in 1..n : list[k][2] = ids[k] /\ list[k][1] = t[ids[k]].date
    BY <1>5, <1>7
  <1>9. \A j, k \in 1..n : j < k => list[j][1] <= list[k][1]
    <2> SUFFICES ASSUME NEW j \in 1..n, NEW k \in 1..n, j < k PROVE list[j][1] <= list[k][1]
      OBVIOUS
    <2>1. <<ids[j], ids[k]>> \in R /\ ids[j] \in S /\ ids[k] \in S
      BY <1>6, <1>7
    <2>2. t[ids[j]].date \in Nat /\ t[ids[k]].date \in Nat
      BY <1>1, <2>1
    <2>3. t[ids[j]].date < t[ids[k]].date \/ t[ids[j]].date = t[ids[k]].date
      BY <1>3, <2>1
    <2>4. t[ids[j]].date <= t[ids[k]].date
      BY <2>2, <2>3
    <2> QED BY <1>8, <2>4
  <1>10. \A k \in 1..n : list[k][2] \in S /\ list[k][1] = t[list[k][2]].date /\ list[k][1] \in 0..MaxDate
    BY <1>1, <1>7, <1>8
  <1>11. \A i \in S : \E k \in 1..n : list[k][2] = i
    BY <1>6, <1>8
  <1> QED BY <1>1, <1>8, <1>9, <1>10, <1>11 DEF S, list, n

(* The entries of a sorted index up to a date are the first so many. *)
LEMMA Bounds ==
  ASSUME NEW list, NEW n \in Nat, DOMAIN list = 1..n,
         \A k \in 1..n : list[k][1] \in Int,
         \A j, k \in 1..n : j < k => list[j][1] <= list[k][1],
         NEW d \in Int
  PROVE  /\ LowerBound(list, d) \in 1..(n + 1) /\ UpperBound(list, d) \in 1..(n + 1)
         /\ \A k \in 1..n : /\ k < LowerBound(list, d) <=> list[k][1] < d
                            /\ k < UpperBound(list, d) <=> list[k][1] <= d
  <1> DEFINE L == {k \in 1..n : list[k][1] < d}
             U == {k \in 1..n : list[k][1] <= d}
  <1>1. \A k \in L : \A j \in 1..n : j < k => j \in L
    OBVIOUS
  <1>2. \A k \in U : \A j \in 1..n : j < k => j \in U
    OBVIOUS
  <1>3. /\ \A k \in 1..n : k \in L <=> list[k][1] < d
        /\ \A k \in 1..n : k \in U <=> list[k][1] <= d
    OBVIOUS
  <1>4. L \in SUBSET (1..n) /\ U \in SUBSET (1..n)
    OBVIOUS
  <1>5. LowerBound(list, d) = 1 + Cardinality(L) /\ UpperBound(list, d) = 1 + Cardinality(U)
    BY DEF LowerBound, UpperBound
  <1> HIDE DEF L, U
  <1>6. Cardinality(L) \in 0..n /\ L = 1..Cardinality(L)
    BY <1>1, <1>4, FirstSoMany
  <1>7. Cardinality(U) \in 0..n /\ U = 1..Cardinality(U)
    BY <1>2, <1>4, FirstSoMany
  <1>8. LowerBound(list, d) \in 1..(n + 1) /\ UpperBound(list, d) \in 1..(n + 1)
    BY <1>5, <1>6, <1>7
  <1>9. ASSUME NEW k \in 1..n
        PROVE  /\ k < LowerBound(list, d) <=> k \in L
               /\ k < UpperBound(list, d) <=> k \in U
    <2>1. k \in L <=> k <= Cardinality(L)
      BY <1>6
    <2>2. k \in U <=> k <= Cardinality(U)
      BY <1>7
    <2> QED BY <1>5, <1>6, <1>7, <2>1, <2>2
  <1> QED BY <1>3, <1>8, <1>9

(* The rows of a range of dates, which is open at the end when to is 0. *)
DatedRows(t, from, to) ==
  {i \in DOMAIN t : from <= t[i].date /\ t[i].date <= IF to = 0 THEN MaxDate ELSE to}

(* The window of the date index holds the rows of its dates, and no other. *)
LEMMA DateRangeListed ==
  ASSUME NEW t \in Seq(Row), NEW from \in 0..MaxDate, NEW to \in 0..MaxDate
  PROVE  Lists(DateRange(t, from, to), DatedRows(t, from, to))
  <1> DEFINE hi == IF to = 0 THEN MaxDate ELSE to
             list == ByDate(t)
             n == Len(t)
             lower == LowerBound(list, from)
             upper == UpperBound(list, hi)
             window == SubSeq(list, lower, upper - 1)
             ids == {window[k][2] : k \in DOMAIN window}
             S == DatedRows(t, from, to)
  <1>1. from \in Int /\ hi \in Int /\ MaxDate \in Nat
    BY IndexConstants
  <1>2. /\ n \in Nat /\ DOMAIN list = 1..n
        /\ \A k \in 1..n : /\ list[k][2] \in DOMAIN t
                           /\ list[k][1] = t[list[k][2]].date
                           /\ list[k][1] \in 0..MaxDate
        /\ \A j, k \in 1..n : j < k => list[j][1] <= list[k][1]
        /\ \A i \in DOMAIN t : \E k \in 1..n : list[k][2] = i
    BY DateIndex
  <1>3. S = {i \in DOMAIN t : from <= t[i].date /\ t[i].date <= hi}
    BY DEF DatedRows
  <1>4. DateRange(t, from, to) = IF from > hi THEN <<>> ELSE Ascending(ids)
    BY DEF DateRange
  <1> HIDE DEF hi, list, n, lower, upper, window, ids, S
  <1>5. S \in SUBSET Int /\ IsFiniteSet(S)
    <2>1. S \in SUBSET DOMAIN t
      BY <1>3
    <2> QED BY <2>1, RowIds
  <1>6. CASE from > hi
    <2>1. \A i \in DOMAIN t : t[i].date \in Int
      BY Columns
    <2>2. S = {}
      BY <1>1, <1>3, <1>6, <2>1
    <2>3. <<>> \in Seq(S) /\ Len(<<>>) = 0
      BY EmptySeq
    <2> QED BY <1>4, <1>6, <2>2, <2>3 DEF Lists, S
  <1>7. CASE ~(from > hi)
    <2>0. \A k \in 1..n : list[k][1] \in Int
      BY <1>1, <1>2
    <2>1. /\ lower \in 1..(n + 1) /\ \A k \in 1..n : k < lower <=> list[k][1] < from
      BY <1>1, <1>2, <2>0, Bounds DEF lower
    <2>2. /\ upper \in 1..(n + 1) /\ \A k \in 1..n : k < upper <=> list[k][1] <= hi
      BY <1>1, <1>2, <2>0, Bounds DEF upper
    <2>3. \A k \in 1..n : k \in lower..(upper - 1) <=> from <= list[k][1] /\ list[k][1] <= hi
      BY <1>1, <2>0, <2>1, <2>2
    <2>4. /\ DOMAIN window = 1..(upper - lower)
          /\ \A k \in 1..(upper - lower) : window[k] = list[lower + k - 1]
      BY <2>1, <2>2 DEF window
    <2>5. ASSUME NEW i \in ids PROVE i \in S
      <3>1. PICK k \in 1..(upper - lower) : window[k][2] = i
        BY <2>4 DEF ids
      <3> DEFINE p == lower + k - 1
      <3>2. p \in lower..(upper - 1) /\ p \in 1..n
        BY <1>2, <2>1, <2>2
      <3>3. i = list[p][2]
        BY <2>4, <3>1
      <3> HIDE DEF p
      <3> QED BY <1>2, <1>3, <2>3, <3>2, <3>3
    <2>6. ASSUME NEW i \in S PROVE i \in ids
      <3>1. PICK p \in 1..n : list[p][2] = i
        BY <1>2, <1>3
      <3>2. from <= list[p][1] /\ list[p][1] <= hi
        BY <1>2, <1>3, <3>1
      <3>3. p \in lower..(upper - 1)
        BY <2>3, <3>2
      <3> DEFINE k == p - lower + 1
      <3>4. k \in 1..(upper - lower) /\ lower + k - 1 = p
        BY <2>1, <2>2, <3>3
      <3> HIDE DEF k
      <3>5. window[k][2] = i
        BY <2>4, <3>1, <3>4
      <3> QED BY <2>4, <3>4, <3>5 DEF ids
    <2>8. ids = S
      BY <2>5, <2>6
    <2>7. Lists(Ascending(S), S)
      BY <1>5, AscendingLists
    <2> QED BY <1>4, <1>7, <2>7, <2>8 DEF S
  <1> QED BY <1>6, <1>7

(* Rows of the cells that the box touches. *)
CellsRows(t, box) ==
  {i \in DOMAIN t :
     /\ box.minLat <= box.maxLat /\ box.minLon <= box.maxLon
     /\ Located(t[i])
     /\ Cell(t[i].lat) \in Cell(box.minLat)..Cell(box.maxLat)
     /\ Cell(t[i].lon) \in Cell(box.minLon)..Cell(box.maxLon)}

(* A greater number is in no lower cell. *)
LEMMA CellsAscend ==
  ASSUME NEW x \in Int, NEW y \in Int, x <= y
  PROVE  Cell(x) \in Int /\ Cell(y) \in Int /\ Cell(x) <= Cell(y)
  <1> DEFINE a == x \div Grid
             b == y \div Grid
             p == Grid * a
             q == Grid * b
  <1>1. Grid \in Nat \ {0}
    BY IndexConstants
  <1>2. a \in Int /\ x = p + (x % Grid) /\ x % Grid \in 0..(Grid - 1)
    BY <1>1
  <1>3. b \in Int /\ y = q + (y % Grid) /\ y % Grid \in 0..(Grid - 1)
    BY <1>1
  <1>4. p \in Int /\ q \in Int
    BY <1>1, <1>2, <1>3
  <1>5. b < a => q + Grid <= p
    <2> SUFFICES ASSUME b < a PROVE q + Grid <= p
      OBVIOUS
    <2>1. a - b - 1 \in Nat
      BY <1>2, <1>3
    <2>2. Grid * (a - b - 1) \in Nat
      BY <1>1, <2>1
    <2>3. Grid * (a - b - 1) = Grid * a - Grid * b - Grid
      BY <1>1, <1>2, <1>3
    <2>4. p - q - Grid >= 0
      BY <2>2, <2>3
    <2> HIDE DEF p, q
    <2> QED BY <1>1, <1>4, <2>4
  <1> HIDE DEF a, b, p, q
  <1>6. a <= b
    BY <1>1, <1>2, <1>3, <1>4, <1>5
  <1> QED BY <1>2, <1>3, <1>6 DEF Cell, a, b

(* The box finds the rows of its cells. *)
LEMMA GeoBoxListed ==
  ASSUME NEW t \in Seq(Row), NEW box \in GeoBoxes
  PROVE  Lists(GeoBox(t, box), CellsRows(t, box))
  <1> DEFINE S == CellsRows(t, box)
             las == Cell(box.minLat)..Cell(box.maxLat)
             los == Cell(box.minLon)..Cell(box.maxLon)
             found == UNION {CellRows(t, la, lo) : la \in las, lo \in los}
             empty == box.minLat > box.maxLat \/ box.minLon > box.maxLon
  <1>1. GeoBox(t, box) = IF empty THEN <<>> ELSE Ascending(found)
    BY DEF GeoBox
  <1>2. empty <=> ~(box.minLat <= box.maxLat /\ box.minLon <= box.maxLon)
    BY DEF GeoBoxes
  <1>3. S = {i \in DOMAIN t : ~empty /\ Located(t[i]) /\ Cell(t[i].lat) \in las /\ Cell(t[i].lon) \in los}
    BY <1>2 DEF CellsRows
  <1>4. ASSUME NEW i
        PROVE  i \in found <=> /\ i \in DOMAIN t /\ Located(t[i])
                               /\ Cell(t[i].lat) \in las /\ Cell(t[i].lon) \in los
    <2> HIDE DEF las, los
    <2>1. i \in found <=> \E la \in las, lo \in los : i \in CellRows(t, la, lo)
      OBVIOUS
    <2> HIDE DEF found
    <2>2. \A la, lo : i \in CellRows(t, la, lo) <=>
                        /\ i \in DOMAIN t /\ Located(t[i])
                        /\ Cell(t[i].lat) = la /\ Cell(t[i].lon) = lo
      BY DEF CellRows
    <2> QED BY <2>1, <2>2
  <1> HIDE DEF S, las, los, found, empty
  <1>5. S \in SUBSET Int /\ IsFiniteSet(S)
    <2>1. S \in SUBSET DOMAIN t
      BY <1>3
    <2> QED BY <2>1, RowIds
  <1>6. CASE empty
    <2>1. S = {} /\ GeoBox(t, box) = <<>>
      BY <1>1, <1>3, <1>6
    <2>2. <<>> \in Seq(S) /\ Len(<<>>) = 0
      BY EmptySeq
    <2> QED BY <2>1, <2>2 DEF Lists, S
  <1>7. CASE ~empty
    <2>1. found = S
      BY <1>3, <1>4, <1>7
    <2>2. Lists(Ascending(S), S)
      BY <1>5, AscendingLists
    <2> QED BY <1>1, <1>7, <2>1, <2>2 DEF S
  <1> QED BY <1>6, <1>7

-----------------------------------------------------------------------------
(***************************************************************************)
(* The merge of two ascending lists.  Intersection is the last value of a  *)
(* recursive function over the steps of its two cursors.  The steps that   *)
(* keep what was found right form a set with 0 and with each number the    *)
(* next, so it has every step (CountUp), and after the last one everything *)
(* in both lists is out.                                                   *)
(***************************************************************************)

(* f goes from first on by the step. *)
Iterates(f, A, first, step, m) ==
  /\ f \in [0..m -> A]
  /\ f[0] = first
  /\ \A n \in 0..m : n # 0 => f[n] = step[f[n - 1]]

(* There is such a function for every first value and step. *)
LEMMA Iterated ==
  ASSUME NEW A, NEW first \in A, NEW step \in [A -> A], NEW m \in Nat
  PROVE  \E f : Iterates(f, A, first, step, m)
  <1> DEFINE Good(n, f) == /\ f \in [0..n -> A]
                           /\ f[0] = first
                           /\ \A k \in 0..n : k # 0 => f[k] = step[f[k - 1]]
             P == {n \in Nat : \E f : Good(n, f)}
  <1>1. 0 \in P
    <2>1. Good(0, [k \in 0..0 |-> first])
      OBVIOUS
    <2> QED BY <2>1
  <1>2. ASSUME NEW n \in P PROVE n + 1 \in P
    <2>1. PICK f : Good(n, f)
      OBVIOUS
    <2> DEFINE g == [k \in 0..(n + 1) |-> IF k = n + 1 THEN step[f[n]] ELSE f[k]]
    <2>2. n \in Nat /\ n + 1 \in Nat /\ \A k \in 0..(n + 1) : k = n + 1 \/ k \in 0..n
      OBVIOUS
    <2>3. f[n] \in A /\ step[f[n]] \in A /\ \A k \in 0..n : f[k] \in A
      BY <2>1, <2>2
    <2>4. g \in [0..(n + 1) -> A]
      BY <2>2, <2>3
    <2>5. /\ g[n + 1] = step[f[n]]
          /\ \A k \in 0..n : g[k] = f[k]
      BY <2>2
    <2> HIDE DEF g
    <2>6. g[0] = first
      BY <2>1, <2>2, <2>5
    <2>7. ASSUME NEW k \in 0..(n + 1), k # 0 PROVE g[k] = step[g[k - 1]]
      <3>1. k - 1 \in 0..n
        BY <2>2, <2>7
      <3>2. CASE k = n + 1
        <4>1. k - 1 = n
          BY <2>2, <3>2
        <4> QED BY <2>2, <2>5, <3>1, <3>2, <4>1
      <3>3. CASE k \in 0..n
        BY <2>1, <2>5, <2>7, <3>1, <3>3
      <3> QED BY <2>2, <3>2, <3>3
    <2>8. Good(n + 1, g)
      BY <2>4, <2>6, <2>7
    <2> HIDE DEF Good
    <2> QED BY <2>2, <2>8
  <1>3. P = Nat
    <2> HIDE DEF Good
    <2>1. P \in SUBSET Nat
      OBVIOUS
    <2> HIDE DEF P
    <2> QED BY <1>1, <1>2, <2>1, CountUp
  <1>4. PICK f : Good(m, f)
    BY <1>3
  <1> QED BY <1>4 DEF Iterates

(* The places the merge of two lists with these common elements can be at.  *)
Places(C) == [i : Nat \ {0}, j : Nat \ {0}, out : Seq(C)]

(* Behind it all common elements have been found, and in order.             *)
Merging(a, b, r) ==
  /\ r.i <= Len(a) + 1 /\ r.j <= Len(b) + 1
  /\ \A k, l \in 1..Len(r.out) : k < l => r.out[k] < r.out[l]
  /\ \A k \in 1..Len(r.out) : \E p \in 1..Len(a) : p < r.i /\ a[p] = r.out[k]
  /\ \A p \in 1..Len(a), q \in 1..Len(b) : a[p] = b[q] =>
       \/ p < r.i /\ q < r.j /\ \E k \in 1..Len(r.out) : r.out[k] = a[p]
       \/ p >= r.i /\ q >= r.j

(* What a list of numbers is. *)
LEMMA ListFacts ==
  ASSUME NEW S \in SUBSET Int, NEW a, Lists(a, S)
  PROVE  /\ Len(a) \in Nat
         /\ \A p \in 1..Len(a) : a[p] \in S /\ a[p] \in Int
         /\ \A p, q \in 1..Len(a) : p < q => a[p] < a[q]
         /\ \A p, q \in 1..Len(a) : a[p] = a[q] => p = q
  <1>1. /\ Len(a) \in Nat
        /\ \A p \in 1..Len(a) : a[p] \in S /\ a[p] \in Int
        /\ \A p, q \in 1..Len(a) : p < q => a[p] < a[q]
    BY LenProperties, ElementOfSeq DEF Lists
  <1>2. ASSUME NEW p \in 1..Len(a), NEW q \in 1..Len(a), a[p] = a[q] PROVE p = q
    <2> SUFFICES ASSUME p # q PROVE FALSE
      OBVIOUS
    <2>1. p < q \/ q < p
      BY <1>1
    <2>2. a[p] < a[q] \/ a[q] < a[p]
      BY <1>1, <2>1
    <2>3. a[p] \in Int /\ a[q] \in Int
      BY <1>1
    <2> QED BY <1>2, <2>2, <2>3
  <1> QED BY <1>1, <1>2

(* A step of the merge stays among the places, keeps what it promises, and  *)
(* comes further until one list is at its end.                              *)
LEMMA ComparedFacts ==
  ASSUME NEW A \in SUBSET Int, NEW B \in SUBSET Int, NEW a, Lists(a, A), NEW b, Lists(b, B),
         NEW r \in Places(A \cap B)
  PROVE  LET s == Compared(a, b, r)
         IN  /\ s \in Places(A \cap B)
             /\ Merging(a, b, r) => Merging(a, b, s)
             /\ s.i + s.j >= r.i + r.j + 1 \/ (s = r /\ (r.i > Len(a) \/ r.j > Len(b)))
  <1> DEFINE C == A \cap B
             m == Len(a)
             n == Len(b)
             i == r.i
             j == r.j
             out == r.out
             s == Compared(a, b, r)
             more == Append(out, a[i])
  <1>1. /\ i \in Nat \ {0} /\ j \in Nat \ {0} /\ out \in Seq(C)
        /\ r = [i |-> i, j |-> j, out |-> out]
    BY DEF Places
  <1>2. /\ m \in Nat /\ \A p \in 1..m : a[p] \in A /\ a[p] \in Int
        /\ \A p, q \in 1..m : p < q => a[p] < a[q]
        /\ \A p, q \in 1..m : a[p] = a[q] => p = q
    BY ListFacts
  <1>3. /\ n \in Nat /\ \A p \in 1..n : b[p] \in B /\ b[p] \in Int
        /\ \A p, q \in 1..n : p < q => b[p] < b[q]
        /\ \A p, q \in 1..n : b[p] = b[q] => p = q
    BY ListFacts
  <1>4. s = IF i > m \/ j > n THEN r
            ELSE IF a[i] = b[j] THEN [i |-> i + 1, j |-> j + 1, out |-> more]
            ELSE IF a[i] < b[j] THEN [i |-> i + 1, j |-> j, out |-> out]
            ELSE [i |-> i, j |-> j + 1, out |-> out]
    <2>1. /\ [r EXCEPT !.i = @ + 1] = [i |-> i + 1, j |-> j, out |-> out]
          /\ [r EXCEPT !.j = @ + 1] = [i |-> i, j |-> j + 1, out |-> out]
      BY <1>1
    <2> QED BY <2>1 DEF Compared
  <1>5. Merging(a, b, r) <=>
          /\ i <= m + 1 /\ j <= n + 1
          /\ \A k, l \in 1..Len(out) : k < l => out[k] < out[l]
          /\ \A k \in 1..Len(out) : \E p \in 1..m : p < i /\ a[p] = out[k]
          /\ \A p \in 1..m, q \in 1..n : a[p] = b[q] =>
               \/ p < i /\ q < j /\ \E k \in 1..Len(out) : out[k] = a[p]
               \/ p >= i /\ q >= j
    BY DEF Merging
  <1> HIDE DEF m, n, i, j, out, s, more
  <1>6. CASE i > m \/ j > n
    BY <1>4, <1>6 DEF s, i, j, m, n
  <1>7. CASE ~(i > m \/ j > n) /\ a[i] = b[j]
    <2>1. i \in 1..m /\ j \in 1..n /\ s = [i |-> i + 1, j |-> j + 1, out |-> more]
      BY <1>1, <1>2, <1>3, <1>4, <1>7
    <2>2. a[i] \in C /\ a[i] \in Int
      BY <1>2, <1>3, <1>7, <2>1
    <2>3. /\ more \in Seq(C) /\ Len(out) \in Nat /\ Len(more) = Len(out) + 1
          /\ more[Len(out) + 1] = a[i]
          /\ \A k \in 1..Len(out) : more[k] = out[k]
      BY <1>1, <2>2, AppendProperties, LenProperties DEF more
    <2>4. s \in Places(C)
      BY <1>1, <2>1, <2>3 DEF Places
    <2>5. s.i + s.j >= i + j + 1
      BY <1>1, <2>1
    <2>6. ASSUME Merging(a, b, r) PROVE Merging(a, b, s)
      <3> DEFINE c == Len(out)
      <3>1. c \in Nat /\ \A k \in 1..(c + 1) : k = c + 1 \/ k \in 1..c
        BY <2>3
      <3>2. ASSUME NEW k \in 1..(c + 1), NEW l \in 1..(c + 1), k < l PROVE more[k] < more[l]
        <4>1. k \in 1..c /\ more[k] = out[k]
          BY <2>3, <3>1, <3>2
        <4>2. CASE l = c + 1
          <5>1. PICK p \in 1..m : p < i /\ a[p] = out[k]
            BY <1>5, <2>6, <4>1
          <5>2. a[p] < a[i]
            BY <1>2, <2>1, <5>1
          <5> QED BY <2>3, <4>1, <4>2, <5>1, <5>2
        <4>3. CASE l \in 1..c
          BY <1>5, <2>3, <2>6, <3>2, <4>1, <4>3
        <4> QED BY <3>1, <4>2, <4>3
      <3>3. ASSUME NEW k \in 1..(c + 1) PROVE \E p \in 1..m : p < i + 1 /\ a[p] = more[k]
        <4>1. CASE k = c + 1
          BY <1>1, <2>1, <2>3, <4>1
        <4>2. CASE k \in 1..c
          <5>1. PICK p \in 1..m : p < i /\ a[p] = out[k]
            BY <1>5, <2>6, <4>2
          <5>2. p < i + 1 /\ a[p] = more[k]
            BY <1>1, <2>3, <4>2, <5>1
          <5> QED BY <5>2
        <4> QED BY <3>1, <4>1, <4>2
      <3>4. ASSUME NEW p \in 1..m, NEW q \in 1..n, a[p] = b[q]
            PROVE  \/ p < i + 1 /\ q < j + 1 /\ \E k \in 1..(c + 1) : more[k] = a[p]
                   \/ p >= i + 1 /\ q >= j + 1
        <4>1. CASE p < i /\ q < j /\ \E k \in 1..c : out[k] = a[p]
          <5>1. PICK k \in 1..c : out[k] = a[p]
            BY <4>1
          <5>2. k \in 1..(c + 1) /\ more[k] = a[p]
            BY <2>3, <3>1, <5>1
          <5>3. p < i + 1 /\ q < j + 1
            BY <1>1, <4>1
          <5> QED BY <5>2, <5>3
        <4>2. CASE p >= i /\ q >= j
          <5>1. CASE p = i
            <6>1. q = j
              BY <1>3, <1>7, <2>1, <3>4, <5>1
            <6> QED BY <1>1, <2>3, <3>1, <5>1, <6>1
          <5>2. CASE q = j
            <6>1. p = i
              BY <1>2, <1>7, <2>1, <3>4, <5>2
            <6> QED BY <1>1, <2>3, <3>1, <5>2, <6>1
          <5>3. CASE p # i /\ q # j
            <6>1. p >= i + 1 /\ q >= j + 1
              BY <1>1, <4>2, <5>3
            <6> QED BY <6>1
          <5> QED BY <5>1, <5>2, <5>3
        <4> QED BY <1>5, <2>6, <3>4, <4>1, <4>2
      <3>5. s.i = i + 1 /\ s.j = j + 1 /\ s.out = more /\ Len(s.out) = c + 1
        BY <2>1, <2>3
      <3>6. s.i <= m + 1 /\ s.j <= n + 1
        BY <1>2, <1>3, <2>1, <3>5
      <3> QED BY <3>2, <3>3, <3>4, <3>5, <3>6 DEF Merging, m, n
    <2> QED BY <2>4, <2>5, <2>6 DEF s, i, j
  <1>8. CASE ~(i > m \/ j > n) /\ a[i] # b[j] /\ a[i] < b[j]
    <2>1. i \in 1..m /\ j \in 1..n /\ s = [i |-> i + 1, j |-> j, out |-> out]
      BY <1>1, <1>2, <1>3, <1>4, <1>8
    <2>2. s \in Places(C) /\ s.i + s.j >= i + j + 1
      BY <1>1, <2>1 DEF Places
    <2>3. ASSUME Merging(a, b, r) PROVE Merging(a, b, s)
      <3>1. s.i = i + 1 /\ s.j = j /\ s.out = out
        BY <2>1
      <3>2. s.i <= m + 1 /\ s.j <= n + 1
        BY <1>1, <1>2, <1>3, <2>1, <3>1
      <3>3. \A k \in 1..Len(out) : \E p \in 1..m : p < i + 1 /\ a[p] = out[k]
        <4> TAKE k \in 1..Len(out)
        <4>1. PICK p \in 1..m : p < i /\ a[p] = out[k]
          BY <1>5, <2>3
        <4>2. p < i + 1
          BY <1>1, <4>1
        <4> QED BY <4>1, <4>2
      <3>4. ASSUME NEW p \in 1..m, NEW q \in 1..n, a[p] = b[q]
            PROVE  \/ p < i + 1 /\ q < j /\ \E k \in 1..Len(out) : out[k] = a[p]
                   \/ p >= i + 1 /\ q >= j
        <4>1. CASE p < i /\ q < j /\ \E k \in 1..Len(out) : out[k] = a[p]
          <5>1. p < i + 1
            BY <1>1, <4>1
          <5> QED BY <4>1, <5>1
        <4>2. CASE p >= i /\ q >= j
          <5>1. b[j] <= b[q]
            <6>1. q = j \/ j < q
              BY <1>1, <4>2
            <6> QED BY <1>3, <2>1, <6>1
          <5>2. p # i
            <6> SUFFICES ASSUME p = i PROVE FALSE
              OBVIOUS
            <6>1. b[j] \in Int /\ b[q] \in Int /\ b[q] < b[j]
              BY <1>3, <1>8, <2>1, <3>4
            <6> QED BY <5>1, <6>1
          <5>3. p >= i + 1
            BY <1>1, <4>2, <5>2
          <5> QED BY <4>2, <5>3
        <4> QED BY <1>5, <2>3, <3>4, <4>1, <4>2
      <3>5. \A k, l \in 1..Len(out) : k < l => out[k] < out[l]
        BY <1>5, <2>3
      <3> QED BY <3>1, <3>2, <3>3, <3>4, <3>5 DEF Merging, m, n
    <2> QED BY <2>2, <2>3 DEF s, i, j
  <1>9. CASE ~(i > m \/ j > n) /\ a[i] # b[j] /\ ~(a[i] < b[j])
    <2>1. i \in 1..m /\ j \in 1..n /\ s = [i |-> i, j |-> j + 1, out |-> out]
      BY <1>1, <1>2, <1>3, <1>4, <1>9
    <2>2. s \in Places(C) /\ s.i + s.j >= i + j + 1
      BY <1>1, <2>1 DEF Places
    <2>3. ASSUME Merging(a, b, r) PROVE Merging(a, b, s)
      <3>1. s.i = i /\ s.j = j + 1 /\ s.out = out
        BY <2>1
      <3>2. s.i <= m + 1 /\ s.j <= n + 1
        BY <1>1, <1>2, <1>3, <2>1, <3>1
      <3>4. ASSUME NEW p \in 1..m, NEW q \in 1..n, a[p] = b[q]
            PROVE  \/ p < i /\ q < j + 1 /\ \E k \in 1..Len(out) : out[k] = a[p]
                   \/ p >= i /\ q >= j + 1
        <4>1. CASE p < i /\ q < j /\ \E k \in 1..Len(out) : out[k] = a[p]
          <5>1. q < j + 1
            BY <1>1, <4>1
          <5> QED BY <4>1, <5>1
        <4>2. CASE p >= i /\ q >= j
          <5>1. a[i] <= a[p]
            <6>1. p = i \/ i < p
              BY <1>1, <4>2
            <6> QED BY <1>2, <2>1, <6>1
          <5>2. q # j
            <6> SUFFICES ASSUME q = j PROVE FALSE
              OBVIOUS
            <6>1. a[i] \in Int /\ a[p] \in Int /\ ~(a[i] < a[p]) /\ a[i] # a[p]
              BY <1>2, <1>9, <2>1, <3>4
            <6> QED BY <5>1, <6>1
          <5>3. q >= j + 1
            BY <1>1, <4>2, <5>2
          <5> QED BY <4>2, <5>3
        <4> QED BY <1>5, <2>3, <3>4, <4>1, <4>2
      <3>5. /\ \A k, l \in 1..Len(out) : k < l => out[k] < out[l]
            /\ \A k \in 1..Len(out) : \E p \in 1..m : p < i /\ a[p] = out[k]
        BY <1>5, <2>3
      <3> QED BY <3>1, <3>2, <3>4, <3>5 DEF Merging, m, n
    <2> QED BY <2>2, <2>3 DEF s, i, j
  <1> QED BY <1>6, <1>7, <1>8, <1>9

(* The merge of two lists gives what is in both, in order. *)
LEMMA IntersectionListed ==
  ASSUME NEW A \in SUBSET Int, NEW B \in SUBSET Int, NEW a, Lists(a, A), NEW b, Lists(b, B)
  PROVE  Lists(Intersection(a, b), A \cap B)
  <1> DEFINE C == A \cap B
             N == Len(a) + Len(b)
             start == [i |-> 1, j |-> 1, out |-> <<>>]
             step == [r \in Places(C) |-> Compared(a, b, r)]
             Merge(f) == f = [n \in 0..N |-> IF n = 0 THEN start ELSE Compared(a, b, f[n - 1])]
             merge == CHOOSE f : Merge(f)
             r == merge[N]
  <1>1. /\ Len(a) \in Nat /\ Len(b) \in Nat /\ N \in Nat
        /\ \A p \in 1..Len(a) : a[p] \in A
        /\ \A q \in 1..Len(b) : b[q] \in B
    <2>1. Len(a) \in Nat /\ \A p \in 1..Len(a) : a[p] \in A
      BY ListFacts
    <2>2. Len(b) \in Nat /\ \A q \in 1..Len(b) : b[q] \in B
      BY ListFacts
    <2> QED BY <2>1, <2>2
  <1>2. start \in Places(C)
    BY EmptySeq DEF Places
  <1>3. step \in [Places(C) -> Places(C)]
    BY ComparedFacts
  <1>4. \E f : Merge(f)
    <2> DEFINE Q == Places(C)
    <2>0. N \in Nat /\ start \in Q /\ step \in [Q -> Q]
      BY <1>1, <1>2, <1>3
    <2> HIDE DEF N, step, start, Q
    <2>1. PICK f : Iterates(f, Q, start, step, N)
      BY <2>0, Iterated
    <2>2. ASSUME NEW n \in 0..N, n # 0 PROVE f[n] = Compared(a, b, f[n - 1])
      <3>1. n - 1 \in 0..N
        BY <1>1, <2>2
      <3>2. f[n - 1] \in Places(C)
        BY <2>1, <3>1 DEF Q, Iterates
      <3> QED BY <2>1, <2>2, <3>2 DEF step, Iterates
    <2>3. Merge(f)
      BY <2>1, <2>2 DEF Iterates
    <2> QED BY <2>3
  <1>5. Merge(merge)
    BY <1>4
  <1>6. Intersection(a, b) = r.out
    BY DEF Intersection
  <1> HIDE DEF merge
  <1>7. /\ merge[0] = start
        /\ \A n \in 0..N : n # 0 => merge[n] = Compared(a, b, merge[n - 1])
    <2> HIDE DEF N, start
    <2>1. 0 \in 0..N
      BY <1>1
    <2> QED BY <1>5, <2>1
  <1> HIDE DEF N
  <1> DEFINE Far(s, n) == s.i + s.j >= n + 2 \/ s.i > Len(a) \/ s.j > Len(b)
             P == {n \in Nat : n <= N => /\ merge[n] \in Places(C) /\ Merging(a, b, merge[n])
                                         /\ Far(merge[n], n)}
  <1>8. 0 \in P
    <2>1. start.i = 1 /\ start.j = 1 /\ start.out = <<>> /\ Len(start.out) = 0
      BY EmptySeq
    <2> HIDE DEF start
    <2>2. Merging(a, b, start)
      BY <1>1, <2>1 DEF Merging
    <2> QED BY <1>2, <1>7, <2>1, <2>2
  <1>9. ASSUME NEW n \in P PROVE n + 1 \in P
    <2> SUFFICES ASSUME n + 1 <= N
                 PROVE  /\ merge[n + 1] \in Places(C) /\ Merging(a, b, merge[n + 1])
                        /\ Far(merge[n + 1], n + 1)
      OBVIOUS
    <2> DEFINE s == merge[n]
               t == merge[n + 1]
    <2>1. n \in Nat /\ n + 1 \in 0..N /\ n + 1 # 0 /\ (n + 1) - 1 = n
      BY <1>1
    <2>2. s \in Places(C) /\ Merging(a, b, s) /\ Far(s, n)
      BY <1>1
    <2>3. t = Compared(a, b, s)
      BY <1>7, <2>1
    <2> HIDE DEF s, t, P
    <2>4. /\ t \in Places(C) /\ Merging(a, b, t)
          /\ t.i + t.j >= s.i + s.j + 1 \/ (t = s /\ (s.i > Len(a) \/ s.j > Len(b)))
      BY <2>2, <2>3, ComparedFacts
    <2>5. /\ s.i \in Nat /\ s.j \in Nat /\ t.i \in Nat /\ t.j \in Nat
          /\ t.i <= Len(a) + 1 /\ t.j <= Len(b) + 1
      BY <2>2, <2>4 DEF Places, Merging
    <2>6. Far(t, n + 1)
      <3> DEFINE far == s.i > Len(a) \/ s.j > Len(b)
      <3>1. CASE t = s /\ far
        BY <3>1
      <3>2. CASE t.i + t.j >= s.i + s.j + 1 /\ ~far
        <4>1. s.i + s.j >= n + 2
          BY <2>2, <3>2
        <4>2. s.i \in Nat /\ s.j \in Nat /\ t.i \in Nat /\ t.j \in Nat /\ n \in Nat
          BY <2>1, <2>5
        <4> HIDE DEF far
        <4>3. t.i + t.j >= (n + 1) + 2
          BY <3>2, <4>1, <4>2
        <4> QED BY <4>3
      <3>3. CASE t.i + t.j >= s.i + s.j + 1 /\ far
        <4>1. t = s
          BY <2>3, <3>3 DEF Compared
        <4> QED BY <3>3, <4>1
      <3> QED BY <2>4, <3>1, <3>2, <3>3
    <2> QED BY <2>4, <2>6 DEF t
  <1>10. r \in Places(C) /\ Merging(a, b, r) /\ Far(r, N)
    <2>1. P = Nat
      <3>1. P \in SUBSET Nat
        OBVIOUS
      <3> HIDE DEF P
      <3> QED BY <1>8, <1>9, <3>1, CountUp
    <2>2. N \in P
      <3> HIDE DEF P
      <3> QED BY <1>1, <2>1
    <2>3. N <= N
      BY <1>1
    <2> HIDE DEF Far
    <2> QED BY <2>2, <2>3
  <1> HIDE DEF r, P
  <1>11. r.i \in Nat /\ r.j \in Nat /\ r.i <= Len(a) + 1 /\ r.j <= Len(b) + 1 /\ r.out \in Seq(C)
    BY <1>10 DEF Places, Merging
  <1>12. r.i > Len(a) \/ r.j > Len(b)
    BY <1>1, <1>10, <1>11 DEF N
  <1>13. \A c \in C : \E k \in 1..Len(r.out) : r.out[k] = c
    <2> TAKE c \in C
    <2>1. PICK p \in 1..Len(a) : a[p] = c
      BY DEF Lists
    <2>2. PICK q \in 1..Len(b) : b[q] = c
      BY DEF Lists
    <2>3. ~(p >= r.i /\ q >= r.j)
      BY <1>1, <1>11, <1>12
    <2> QED BY <1>10, <2>1, <2>2, <2>3 DEF Merging
  <1>14. \A k, l \in 1..Len(r.out) : k < l => r.out[k] < r.out[l]
    BY <1>10 DEF Merging
  <1> QED BY <1>6, <1>11, <1>13, <1>14 DEF Lists

-----------------------------------------------------------------------------

(***************************************************************************)
(* The answer.  Every index answers with the rows of its predicate, so the *)
(* plan comes to the rows that are left after all of them, in whatever     *)
(* order they are intersected, and the exact test of the box makes of      *)
(* these the rows that match.                                              *)
(***************************************************************************)

(* The rows of a table that the index of a predicate stands for. *)
Posted(t, s, p) ==
  {i \in DOMAIN t :
     /\ p = "borough" => t[i].borough = s.borough
     /\ p = "complaint" => t[i].complaint = s.complaint
     /\ p = "date" => i \in DatedRows(t, s.from, s.to)
     /\ p = "geo" => i \in CellsRows(t, s.box)}

(* The rows left after the predicates P. *)
Survivors(t, s, P) == {i \in DOMAIN t : \A p \in P : i \in Posted(t, s, p)}

(* The rows of the answer, before the row limit. *)
Matching(t, s) == {i \in DOMAIN t : Matches(t[i], s) /\ (s.geo => Located(t[i]))}

(* Rows of a table that are left are numbers, finitely many. *)
LEMMA SurvivorsAreRows ==
  ASSUME NEW t \in Seq(Row), NEW s, NEW P
  PROVE  /\ Survivors(t, s, P) \in SUBSET DOMAIN t
         /\ Survivors(t, s, P) \in SUBSET Int /\ IsFiniteSet(Survivors(t, s, P))
         /\ Cardinality(Survivors(t, s, P)) <= Len(t)
  <1>1. Survivors(t, s, P) \in SUBSET DOMAIN t
    BY DEF Survivors
  <1> QED BY <1>1, RowIds

(* The predicates that have an index. *)
LEMMA KindsOfIndex ==
  ASSUME NEW p \in Indexed
  PROVE  p \in {"borough", "complaint", "date", "geo"}
  BY DEF Indexed

(* What each index answers. *)
LEMMA PostingsListed ==
  ASSUME table \in Seq(Row), spec \in QuerySpec, NEW p \in Indexed
  PROVE  Lists(Postings(p), Posted(table, spec, p))
  <1>1. p \in {"borough", "complaint", "date", "geo"}
    BY KindsOfIndex
  <1>2. CASE p = "borough"
    <2>1. Posted(table, spec, p) = {i \in DOMAIN table : table[i].borough = spec.borough}
      BY <1>2 DEF Posted
    <2>2. Postings(p) = BoroughRows(table, spec.borough)
      BY <1>2 DEF Postings
    <2> QED BY <2>1, <2>2, BoroughListed
  <1>3. CASE p = "complaint"
    <2>1. Posted(table, spec, p) = {i \in DOMAIN table : table[i].complaint = spec.complaint}
      BY <1>3 DEF Posted
    <2>2. Postings(p) = ComplaintRows(table, spec.complaint)
      BY <1>3 DEF Postings
    <2> QED BY <2>1, <2>2, ComplaintListed
  <1>4. CASE p = "date"
    <2>1. Posted(table, spec, p) = DatedRows(table, spec.from, spec.to)
      BY <1>4 DEF Posted, DatedRows
    <2>2. Postings(p) = DateRange(table, spec.from, spec.to)
      BY <1>4 DEF Postings
    <2>3. spec.from \in 0..MaxDate /\ spec.to \in 0..MaxDate
      BY DEF QuerySpec
    <2> QED BY <2>1, <2>2, <2>3, DateRangeListed
  <1>5. CASE p = "geo"
    <2>1. Posted(table, spec, p) = CellsRows(table, spec.box)
      BY <1>5 DEF Posted, CellsRows
    <2>2. Postings(p) = GeoBox(table, spec.box)
      BY <1>5 DEF Postings
    <2>3. spec.box \in GeoBoxes
      BY DEF QuerySpec
    <2> QED BY <2>1, <2>2, <2>3, GeoBoxListed
  <1> QED BY <1>1, <1>2, <1>3, <1>4, <1>5

(* What is left after all indices, and is in the box, matches. *)
LEMMA SurvivorsMatch ==
  ASSUME table \in Seq(Row), spec \in QuerySpec, NEW i \in DOMAIN table
  PROVE  i \in Matching(table, spec) <=>
           i \in Survivors(table, spec, Indexed) /\ (spec.geo => Inside(table[i], spec.box))
  <1> DEFINE row == table[i]
             P(p) == i \in Posted(table, spec, p)
  <1>1. /\ row.date \in Int /\ 0 <= row.date /\ row.date <= MaxDate
        /\ row.lat \in Int /\ row.lon \in Int
    BY Columns
  <1>2. /\ spec.from \in Nat /\ spec.to \in Nat
        /\ spec.box.minLat \in Int /\ spec.box.maxLat \in Int
        /\ spec.box.minLon \in Int /\ spec.box.maxLon \in Int
    BY IndexConstants DEF QuerySpec, GeoBoxes
  <1>3. /\ i \in Survivors(table, spec, Indexed) <=> \A p \in Indexed : P(p)
        /\ i \in Matching(table, spec) <=> Matches(row, spec) /\ (spec.geo => Located(row))
    BY DEF Survivors, Matching
  <1>4. P("borough") <=> row.borough = spec.borough
    BY DEF Posted
  <1>5. P("complaint") <=> row.complaint = spec.complaint
    BY DEF Posted
  <1>6. P("date") <=> spec.from <= row.date /\ row.date <= IF spec.to = 0 THEN MaxDate ELSE spec.to
    BY DEF Posted, DatedRows
  <1>7. P("date") <=> (spec.from # 0 => row.date >= spec.from) /\ (spec.to # 0 => row.date <= spec.to)
    BY <1>1, <1>2, <1>6
  <1>8. P("geo") <=> /\ spec.box.minLat <= spec.box.maxLat /\ spec.box.minLon <= spec.box.maxLon
                     /\ Located(row)
                     /\ Cell(row.lat) \in Cell(spec.box.minLat)..Cell(spec.box.maxLat)
                     /\ Cell(row.lon) \in Cell(spec.box.minLon)..Cell(spec.box.maxLon)
    BY DEF Posted, CellsRows
  <1>9. P("geo") => Located(row)
    BY <1>8
  <1>10. ASSUME Inside(row, spec.box), Located(row) PROVE P("geo")
    <2>1. /\ spec.box.minLat <= row.lat /\ row.lat <= spec.box.maxLat
          /\ spec.box.minLon <= row.lon /\ row.lon <= spec.box.maxLon
      BY <1>10 DEF Inside
    <2>2. spec.box.minLat <= spec.box.maxLat /\ spec.box.minLon <= spec.box.maxLon
      <3>1. /\ row.lat \in Int /\ spec.box.minLat \in Int /\ spec.box.maxLat \in Int
            /\ row.lon \in Int /\ spec.box.minLon \in Int /\ spec.box.maxLon \in Int
        BY <1>1, <1>2
      <3> HIDE DEF row
      <3> QED BY <2>1, <3>1
    <2>3. /\ Cell(spec.box.minLat) <= Cell(row.lat) /\ Cell(row.lat) <= Cell(spec.box.maxLat)
          /\ Cell(spec.box.minLat) \in Int /\ Cell(row.lat) \in Int /\ Cell(spec.box.maxLat) \in Int
      BY <1>1, <1>2, <2>1, CellsAscend
    <2>4. /\ Cell(spec.box.minLon) <= Cell(row.lon) /\ Cell(row.lon) <= Cell(spec.box.maxLon)
          /\ Cell(spec.box.minLon) \in Int /\ Cell(row.lon) \in Int /\ Cell(spec.box.maxLon) \in Int
      BY <1>1, <1>2, <2>1, CellsAscend
    <2> QED BY <1>8, <1>10, <2>2, <2>3, <2>4
  <1>11. /\ "borough" \in Indexed <=> spec.borough # 0
         /\ "complaint" \in Indexed <=> spec.complaint # ""
         /\ "date" \in Indexed <=> spec.from # 0 \/ spec.to # 0
         /\ "geo" \in Indexed <=> spec.geo
         /\ \A p \in Indexed : p \in {"borough", "complaint", "date", "geo"}
    BY KindsOfIndex DEF Indexed
  <1> HIDE DEF P, row
  <1>12. (\A p \in Indexed : P(p)) <=> /\ spec.borough # 0 => P("borough")
                                       /\ spec.complaint # "" => P("complaint")
                                       /\ (spec.from # 0 \/ spec.to # 0) => P("date")
                                       /\ spec.geo => P("geo")
    BY <1>11
  <1>13. Matches(row, spec) <=> /\ spec.borough # 0 => P("borough")
                                /\ spec.complaint # "" => P("complaint")
                                /\ (spec.from # 0 \/ spec.to # 0) => P("date")
                                /\ spec.geo => Inside(row, spec.box)
    BY <1>4, <1>5, <1>7 DEF Matches, row
  <1> QED BY <1>3, <1>9, <1>10, <1>12, <1>13 DEF row

-----------------------------------------------------------------------------

(* What the node started with. *)
Loaded ==
  /\ code \in {"cpp", "python"} /\ file \in Files /\ Loads(code, file)
  /\ table = Load(code, file) /\ spec \in Specs

(* work is always what the indices intersected so far have left. *)
WorkInv ==
  /\ Loaded
  /\ pc \in {"plan", "seed", "intersect", "emit", "flush", "done"}
  /\ left \subseteq Indexed
  /\ pc \in {"plan", "seed"} => work = <<>>
  /\ pc = "seed" => left = Indexed
  /\ pc = "intersect" => Lists(work, Survivors(table, spec, Indexed \ left))
  /\ pc \in {"emit", "flush", "done"} => Lists(work, Survivors(table, spec, Indexed))

(* What a node has loaded is of the types its columns have. *)
LEMMA LoadedTypes ==
  ASSUME Loaded
  PROVE  table \in Seq(Row) /\ spec \in QuerySpec
  BY EngineConstants DEF Loaded

(* The partition and the query stay as they are. *)
LEMMA LoadedStays ==
  ASSUME Loaded, UNCHANGED query
  PROVE  /\ Loaded' /\ table' = table /\ spec' = spec /\ Indexed' = Indexed
  <1>1. table' = table /\ spec' = spec /\ code' = code /\ file' = file
    BY DEF query
  <1>2. Loaded'
    BY <1>1 DEF Loaded
  <1> QED BY <1>1, <1>2 DEF Indexed

(* No rows are listed by the empty list. *)
LEMMA NothingListed ==
  ASSUME NEW S
  PROVE  Lists(<<>>, S) <=> S = {}
  <1>1. <<>> \in Seq(S) /\ Len(<<>>) = 0
    BY EmptySeq
  <1> QED BY <1>1 DEF Lists

(* All row ids, for a query without an index. *)
LEMMA IdsListed ==
  ASSUME NEW t \in Seq(Row)
  PROVE  Lists(Ids(t), DOMAIN t)
  <1> DEFINE n == Len(t)
             s == Ids(t)
  <1>1. n \in Nat /\ DOMAIN t = 1..n
    BY LenProperties
  <1> HIDE DEF n
  <1>2. s = [i \in 1..n |-> i]
    BY <1>1 DEF Ids
  <1> HIDE DEF s
  <1>3. s \in [1..n -> 1..n] /\ \A i \in 1..n : s[i] = i
    BY <1>2
  <1>4. s \in Seq(1..n)
    BY <1>1, <1>3, SeqDef
  <1>5. DOMAIN s = 1..Len(s) /\ Len(s) \in Nat
    BY <1>4, LenProperties
  <1>6. Len(s) = n
    BY <1>1, <1>3, <1>5
  <1> QED BY <1>1, <1>3, <1>4, <1>6 DEF Lists, s

(* Before the plan there is no list. *)
LEMMA InitWorkInv == Init => WorkInv
  BY DEF Init, WorkInv, Loaded

(* The plan. *)
LEMMA PlanWorkInv == WorkInv /\ Plan => WorkInv'
  <1> SUFFICES ASSUME WorkInv, Plan PROVE WorkInv'
    OBVIOUS
  <1>1. /\ Loaded /\ pc = "plan" /\ work = <<>> /\ left \subseteq Indexed /\ UNCHANGED query
    BY DEF WorkInv, Plan
  <1>2. Loaded' /\ table' = table /\ spec' = spec /\ Indexed' = Indexed
    BY <1>1, LoadedStays
  <1>3. table \in Seq(Row) /\ spec \in QuerySpec
    BY <1>1, LoadedTypes
  <1>4. CASE \E p \in Indexed : Postings(p) = <<>>
    <2>1. pc' = "done" /\ left' = left /\ work' = <<>>
      BY <1>1, <1>4 DEF Plan
    <2>2. PICK p \in Indexed : Postings(p) = <<>>
      BY <1>4
    <2>3. Lists(<<>>, Posted(table, spec, p))
      BY <1>3, <2>2, PostingsListed
    <2>4. Posted(table, spec, p) = {}
      BY <2>3, NothingListed
    <2>5. Survivors(table, spec, Indexed) = {}
      BY <2>2, <2>4 DEF Survivors
    <2>6. Lists(work', Survivors(table', spec', Indexed'))
      BY <1>2, <2>1, <2>5, NothingListed
    <2> QED BY <1>1, <1>2, <2>1, <2>6 DEF WorkInv
  <1>5. CASE ~(\E p \in Indexed : Postings(p) = <<>>) /\ Indexed = {}
    <2>1. pc' = "emit" /\ left' = left /\ work' = Ids(table)
      BY <1>5 DEF Plan
    <2>2. Survivors(table, spec, Indexed) = DOMAIN table
      BY <1>5 DEF Survivors
    <2>3. Lists(work', Survivors(table', spec', Indexed'))
      BY <1>2, <1>3, <2>1, <2>2, IdsListed
    <2> QED BY <1>1, <1>2, <2>1, <2>3 DEF WorkInv
  <1>6. CASE ~(\E p \in Indexed : Postings(p) = <<>>) /\ Indexed # {}
    <2>1. pc' = "seed" /\ left' = Indexed /\ work' = work
      BY <1>6 DEF Plan
    <2> QED BY <1>1, <1>2, <2>1 DEF WorkInv
  <1> QED BY <1>4, <1>5, <1>6

(* The first list, and one after the other of the rest. *)
LEMMA IntersectWorkInv == WorkInv /\ (Seed \/ Intersect) => WorkInv'
  <1> SUFFICES ASSUME WorkInv, Seed \/ Intersect PROVE WorkInv'
    OBVIOUS
  <1>1. Loaded /\ left \subseteq Indexed /\ UNCHANGED query
    BY DEF WorkInv, Seed, Intersect
  <1>2. Loaded' /\ table' = table /\ spec' = spec /\ Indexed' = Indexed
    BY <1>1, LoadedStays
  <1>3. table \in Seq(Row) /\ spec \in QuerySpec
    BY <1>1, LoadedTypes
  <1>4. CASE Seed
    <2>1. PICK p \in left : work' = Postings(p) /\ left' = left \ {p}
      BY <1>4 DEF Seed, Smallest
    <2>2. pc' = "intersect" /\ left = Indexed
      BY <1>4 DEF Seed, WorkInv
    <2>3. Lists(work', Posted(table, spec, p))
      BY <1>3, <2>1, <2>2, PostingsListed
    <2>4. Survivors(table, spec, Indexed \ left') = Posted(table, spec, p)
      <3>1. Indexed \ left' = {p}
        BY <2>1, <2>2
      <3>2. Posted(table, spec, p) \subseteq DOMAIN table
        BY DEF Posted
      <3> QED BY <3>1, <3>2 DEF Survivors
    <2> QED BY <1>1, <1>2, <2>1, <2>2, <2>3, <2>4 DEF WorkInv
  <1>5. CASE Intersect
    <2> DEFINE S == Survivors(table, spec, Indexed \ left)
    <2>1. pc = "intersect" /\ Lists(work, S)
      BY <1>5 DEF Intersect, WorkInv
    <2>2. S \in SUBSET Int
      BY <1>3, SurvivorsAreRows
    <2>3. CASE left = {} \/ work = <<>>
      <3>1. pc' = "emit" /\ left' = left /\ work' = work
        BY <1>5, <2>3 DEF Intersect
      <3>2. Survivors(table, spec, Indexed) = S
        <4>1. CASE left = {}
          <5>1. Indexed \ left = Indexed
            BY <4>1
          <5> QED BY <5>1
        <4>2. CASE work = <<>>
          <5>1. S = {}
            BY <2>1, <4>2, NothingListed
          <5> QED BY <5>1 DEF Survivors
        <4> QED BY <2>3, <4>1, <4>2
      <3> QED BY <1>1, <1>2, <2>1, <3>1, <3>2 DEF WorkInv
    <2>4. CASE ~(left = {} \/ work = <<>>)
      <3>1. pc' = pc
        BY <1>5, <2>4 DEF Intersect
      <3>2. PICK p \in left : work' = Intersection(work, Postings(p)) /\ left' = left \ {p}
        BY <1>5, <2>4 DEF Intersect, Smallest
      <3>3. p \in Indexed /\ left' \subseteq Indexed
        BY <1>1, <3>2
      <3>4. Lists(Postings(p), Posted(table, spec, p))
        BY <1>3, <3>3, PostingsListed
      <3>5. Posted(table, spec, p) \in SUBSET Int
        <4>1. Posted(table, spec, p) \in SUBSET DOMAIN table
          BY DEF Posted
        <4> QED BY <1>3, <4>1, RowIds
      <3>6. S \cap Posted(table, spec, p) = Survivors(table, spec, Indexed \ left')
        <4>1. Indexed \ left' = (Indexed \ left) \cup {p}
          BY <1>1, <3>2, <3>3
        <4> QED BY <4>1 DEF Survivors
      <3> HIDE DEF S
      <3>7. Lists(work', Survivors(table, spec, Indexed \ left'))
        BY <2>1, <2>2, <3>2, <3>4, <3>5, <3>6, IntersectionListed
      <3> QED BY <1>2, <2>1, <3>1, <3>3, <3>7 DEF WorkInv
    <2> QED BY <2>3, <2>4
  <1> QED BY <1>4, <1>5

(* The loop leaves the list alone, so every step keeps it. *)
LEMMA NextWorkInv == WorkInv /\ [Next]_vars => WorkInv'
  <1> SUFFICES ASSUME WorkInv, [Next]_vars PROVE WorkInv'
    OBVIOUS
  <1>1. CASE Plan
    BY <1>1, PlanWorkInv
  <1>2. CASE Seed \/ Intersect
    BY <1>2, IntersectWorkInv
  <1>3. CASE Emit \/ Flush \/ Cancel \/ UNCHANGED vars
    <2>1. UNCHANGED query /\ work' = work /\ left' = left
      BY <1>3 DEF Emit, Flush, Cancel, vars, query
    <2>2. \/ pc' = pc
          \/ pc \in {"emit", "flush", "done"} /\ pc' \in {"emit", "flush", "done"}
      BY <1>3 DEF Emit, Skip, Take, Flush, Cancel, vars
    <2>3. Loaded' /\ table' = table /\ spec' = spec /\ Indexed' = Indexed
      BY <2>1, LoadedStays DEF WorkInv
    <2> QED BY <2>1, <2>2, <2>3 DEF WorkInv
  <1> QED BY <1>1, <1>2, <1>3 DEF Next

-----------------------------------------------------------------------------
(***************************************************************************)
(* The loop takes the rows of work in their order, so what it has taken is *)
(* always the beginning of the list of the rows that match.                *)
(***************************************************************************)

(* The rest of the types, and where the loop is against the list. *)
ScanTypes ==
  /\ chunk \in Seq(DOMAIN table)
  /\ sent \in [rows : Seq(DOMAIN table), calls : Nat, done : BOOLEAN]
  /\ canceled \in BOOLEAN
  /\ at <= Len(work) + 1
  /\ late \in Nat /\ late <= produced /\ produced <= at - 1
  /\ pc = "done" => chunk = <<>>

(* The inductive invariant of the scan. *)
EngineInv == PlanInv /\ WorkInv /\ ScanTypes

(* A list of rows is no longer than the table. *)
LEMMA ListedRows ==
  ASSUME NEW t \in Seq(Row), NEW s, NEW P, NEW list, Lists(list, Survivors(t, s, P))
  PROVE  list \in Seq(DOMAIN t) /\ Len(list) \in Nat /\ Len(list) <= Len(t)
  <1> DEFINE S == Survivors(t, s, P)
  <1>1. S \in SUBSET DOMAIN t /\ S \in SUBSET Int /\ IsFiniteSet(S) /\ Cardinality(S) <= Len(t)
    BY SurvivorsAreRows
  <1>2. Lists(list, S)
    OBVIOUS
  <1> HIDE DEF S
  <1>3. Len(list) = Cardinality(S)
    BY <1>1, <1>2, LengthOfList
  <1>4. list \in Seq(S)
    BY <1>2 DEF Lists
  <1>5. list \in Seq(DOMAIN t) /\ Len(list) \in Nat
    BY <1>1, <1>4, SeqMonotonic, LenProperties
  <1> QED BY <1>1, <1>3, <1>5

(* work is such a list. *)
LEMMA WorkIsRows ==
  ASSUME WorkInv
  PROVE  work \in Seq(DOMAIN table) /\ Len(work) \in Nat /\ Len(work) <= Len(table)
  <1>1. table \in Seq(Row) /\ Len(table) \in Nat
    <2>1. table \in Seq(Row)
      BY LoadedTypes DEF WorkInv
    <2> QED BY <2>1, LenProperties
  <1>2. CASE work = <<>>
    <2>1. work \in Seq(DOMAIN table) /\ Len(work) = 0
      BY <1>2, EmptySeq
    <2> QED BY <1>1, <2>1
  <1>3. CASE Lists(work, Survivors(table, spec, Indexed \ left))
    BY <1>1, <1>3, ListedRows
  <1>4. CASE Lists(work, Survivors(table, spec, Indexed))
    BY <1>1, <1>4, ListedRows
  <1> QED BY <1>2, <1>3, <1>4 DEF WorkInv

(* Every list has a length. *)
LEMMA ListLength ==
  ASSUME NEW list, NEW S, list = <<>> \/ Lists(list, S)
  PROVE  Len(list) \in Nat
  <1>1. <<>> \in Seq(S)
    BY EmptySeq
  <1>2. list \in Seq(S)
    BY <1>1 DEF Lists
  <1> QED BY <1>2, LenProperties

(* Nothing is taken at first. *)
LEMMA InitScanTypes == Init => ScanTypes
  <1> SUFFICES ASSUME Init PROVE ScanTypes
    OBVIOUS
  <1>1. /\ chunk = <<>> /\ sent = [rows |-> <<>>, calls |-> 0, done |-> FALSE]
        /\ canceled = FALSE /\ work = <<>> /\ at = 1 /\ late = 0 /\ produced = 0 /\ pc = "plan"
    BY DEF Init
  <1>2. <<>> \in Seq(DOMAIN table) /\ Len(<<>>) = 0
    BY EmptySeq
  <1>3. sent \in [rows : Seq(DOMAIN table), calls : Nat, done : BOOLEAN]
    BY <1>1, <1>2
  <1>4. at <= Len(work) + 1 /\ late \in Nat /\ late <= produced /\ produced <= at - 1
    <2>1. Len(work) = 0
      BY <1>1, <1>2
    <2> QED BY <1>1, <2>1
  <1>5. chunk \in Seq(DOMAIN table) /\ canceled \in BOOLEAN /\ pc # "done"
    BY <1>1, <1>2
  <1> QED BY <1>3, <1>4, <1>5 DEF ScanTypes

(* Rows that are sent are behind those sent before. *)
LEMMA SinkTypes ==
  ASSUME NEW D, sent \in [rows : Seq(D), calls : Nat, done : BOOLEAN],
         NEW rows \in Seq(D), NEW done \in BOOLEAN, Sink(rows, done)
  PROVE  sent' \in [rows : Seq(D), calls : Nat, done : BOOLEAN]
  <1>1. sent.rows \in Seq(D) /\ sent.calls + 1 \in Nat
    OBVIOUS
  <1>2. sent.rows \o rows \in Seq(D)
    BY <1>1, ConcatProperties
  <1> QED BY <1>1, <1>2 DEF Sink

(* The loop takes a row of the table, or none. *)
LEMMA EmitScanTypes == EngineInv /\ Emit => ScanTypes'
  <1> SUFFICES ASSUME EngineInv, Emit PROVE ScanTypes'
    OBVIOUS
  <1>1. /\ chunk \in Seq(DOMAIN table) /\ late \in Nat /\ late <= produced /\ produced <= at - 1
        /\ sent \in [rows : Seq(DOMAIN table), calls : Nat, done : BOOLEAN]
        /\ canceled \in BOOLEAN /\ at <= Len(work) + 1
    BY DEF EngineInv, ScanTypes
  <1>2. at \in Nat \ {0} /\ ChunkInv
    BY DEF EngineInv, PlanInv
  <1>3. work \in Seq(DOMAIN table) /\ Len(work) \in Nat
    BY WorkIsRows DEF EngineInv
  <1>4. produced \in Nat
    <2>1. Len(sent.rows) \in Nat /\ Len(chunk) \in Nat
      BY <1>2, ListConcat DEF ChunkInv
    <2>2. produced = Len(sent.rows) + Len(chunk)
      BY DEF EngineInv, PlanInv
    <2> QED BY <2>1, <2>2
  <1>5. pc = "emit" /\ table' = table /\ work' = work /\ canceled' = canceled
    BY DEF Emit, query
  <1>6. CASE at > Len(work) \/ HearsCancel
    <2>1. pc' = "flush" /\ UNCHANGED <<at, chunk, produced, sent, late>>
      BY <1>6 DEF Emit
    <2> QED BY <1>1, <1>5, <2>1 DEF ScanTypes
  <1>7. CASE ~(at > Len(work) \/ HearsCancel) /\ Outside
    <2>1. Skip /\ UNCHANGED <<chunk, produced, sent, late>>
      BY <1>7 DEF Emit
    <2>2. (pc' = "flush" /\ at' = at) \/ (pc' = "emit" /\ at' = at + 1)
      BY <1>5, <2>1 DEF Skip
    <2>3. pc' # "done"
      BY <2>2
    <2>4. at' <= Len(work) + 1 /\ produced <= at' - 1
      BY <1>1, <1>2, <1>3, <1>4, <1>7, <2>2
    <2> QED BY <1>1, <1>5, <2>1, <2>3, <2>4 DEF ScanTypes
  <1>8. CASE ~(at > Len(work) \/ HearsCancel) /\ ~Outside
    <2> DEFINE rows == Append(chunk, work[at])
    <2>1. Take /\ late' = IF canceled THEN late + 1 ELSE late
      BY <1>8 DEF Emit
    <2>2. /\ at' = at + 1 /\ produced' = produced + 1
          /\ (Sink(rows, FALSE) /\ chunk' = <<>>) \/ (UNCHANGED sent /\ chunk' = rows)
          /\ pc' # "done"
      BY <1>2, <1>5, <2>1, TakeFacts
    <2>3. at \in 1..Len(work)
      BY <1>2, <1>3, <1>8
    <2>4. work[at] \in DOMAIN table
      BY <1>3, <2>3, ElementOfSeq
    <2>5. rows \in Seq(DOMAIN table) /\ <<>> \in Seq(DOMAIN table)
      BY <1>1, <2>4, AppendProperties, EmptySeq
    <2> HIDE DEF rows
    <2>6. sent' \in [rows : Seq(DOMAIN table), calls : Nat, done : BOOLEAN]
      BY <1>1, <2>2, <2>5, SinkTypes
    <2>7. late' \in Nat /\ late' <= produced' /\ produced' <= at' - 1 /\ at' <= Len(work) + 1
      BY <1>1, <1>2, <1>3, <1>4, <2>1, <2>2, <2>3
    <2> QED BY <1>1, <1>5, <2>2, <2>5, <2>6, <2>7 DEF ScanTypes
  <1> QED BY <1>6, <1>7, <1>8

(* So does every step. *)
LEMMA NextScanTypes == EngineInv /\ [Next]_vars => ScanTypes'
  <1> SUFFICES ASSUME EngineInv, [Next]_vars PROVE ScanTypes'
    OBVIOUS
  <1>1. /\ chunk \in Seq(DOMAIN table) /\ late \in Nat /\ late <= produced /\ produced <= at - 1
        /\ sent \in [rows : Seq(DOMAIN table), calls : Nat, done : BOOLEAN]
        /\ canceled \in BOOLEAN /\ at <= Len(work) + 1 /\ (pc = "done" => chunk = <<>>)
    BY DEF EngineInv, ScanTypes
  <1>2. Len(work') \in Nat
    <2>1. WorkInv'
      BY NextWorkInv DEF EngineInv
    <2>2. \/ work' = <<>>
          \/ Lists(work', Survivors(table', spec', Indexed' \ left'))
          \/ Lists(work', Survivors(table', spec', Indexed'))
      BY <2>1 DEF WorkInv
    <2> QED BY <2>2, ListLength
  <1>3. CASE Emit
    BY <1>3, EmitScanTypes
  <1>4. CASE Plan \/ Seed \/ Intersect
    <2>1. /\ UNCHANGED <<table, at, chunk, produced, canceled, late>> /\ at = 1
          /\ sent' = sent \/ Sink(<<>>, TRUE)
      BY <1>4 DEF EngineInv, PlanInv, Plan, Seed, Intersect, query
    <2>2. <<>> \in Seq(DOMAIN table)
      BY EmptySeq
    <2>3. sent' \in [rows : Seq(DOMAIN table), calls : Nat, done : BOOLEAN]
      BY <1>1, <2>1, <2>2, SinkTypes
    <2>4. pc' = "done" => chunk = <<>>
      BY <1>4 DEF EngineInv, PlanInv, ChunkInv, Plan, Seed, Intersect
    <2>5. at' <= Len(work') + 1
      BY <1>2, <2>1
    <2> QED BY <1>1, <2>1, <2>3, <2>4, <2>5 DEF ScanTypes
  <1>5. CASE Flush
    <2>1. /\ Sink(chunk, TRUE) /\ chunk' = <<>>
          /\ UNCHANGED <<table, work, at, produced, canceled, late>>
      BY <1>5 DEF Flush, query
    <2>2. sent' \in [rows : Seq(DOMAIN table), calls : Nat, done : BOOLEAN]
      BY <1>1, <2>1, SinkTypes
    <2>3. <<>> \in Seq(DOMAIN table)
      BY EmptySeq
    <2> QED BY <1>1, <2>1, <2>2, <2>3 DEF ScanTypes
  <1>6. CASE Cancel \/ UNCHANGED vars
    <2>1. /\ UNCHANGED <<table, work, at, chunk, produced, sent, late, pc>>
          /\ canceled' = canceled \/ canceled' = TRUE
      BY <1>6 DEF Cancel, vars, query
    <2> QED BY <1>1, <2>1 DEF ScanTypes
  <1> QED BY <1>3, <1>4, <1>5, <1>6 DEF Next

(* All of it together. *)
LEMMA EngineInvariant == Spec => []EngineInv
  <1>1. Init => EngineInv
    BY InitPlanInv, InitWorkInv, InitScanTypes DEF EngineInv
  <1>2. EngineInv /\ [Next]_vars => EngineInv'
    BY NextPlanInv, NextWorkInv, NextScanTypes DEF EngineInv
  <1> QED BY <1>1, <1>2, PTL DEF Spec

(* Whatever file a node starts with and whatever it is asked, the plan      *)
(* leaves row ids of its table, no more of them than it has rows; the loop  *)
(* does not run past them, sends rows of the table and counts no more than  *)
(* it has gone through.                                                     *)
THEOREM EngineTypes == Spec => []TypeOK
  <1>1. EngineInv => TypeOK
    <2> SUFFICES ASSUME EngineInv PROVE TypeOK
      OBVIOUS
    <2>1. /\ work \in Seq(DOMAIN table) /\ Len(work) \in Nat /\ Len(work) <= Len(table)
          /\ Len(table) \in Nat
      <3>1. table \in Seq(Row)
        BY LoadedTypes DEF EngineInv, WorkInv
      <3> QED BY <3>1, WorkIsRows, LenProperties DEF EngineInv
    <2>2. /\ at \in Nat \ {0} /\ ChunkInv /\ produced \in Nat
      <3>1. ChunkInv /\ at \in Nat \ {0} /\ produced = Len(sent.rows) + Len(chunk)
        BY DEF EngineInv, PlanInv
      <3>2. Len(sent.rows) \in Nat /\ Len(chunk) \in Nat
        BY <3>1, ListConcat DEF ChunkInv
      <3> QED BY <3>1, <3>2
    <2>3. /\ chunk \in Seq(DOMAIN table) /\ canceled \in BOOLEAN
          /\ sent \in [rows : Seq(DOMAIN table), calls : Nat, done : BOOLEAN]
          /\ at <= Len(work) + 1 /\ late \in Nat /\ late <= produced /\ produced <= at - 1
      BY DEF EngineInv, ScanTypes
    <2>4. at \in 1..Len(work) + 1 /\ produced \in 0..Len(table) /\ late \in 0..Len(table)
      <3> DEFINE m == Len(work)
                 n == Len(table)
      <3>1. m \in Nat /\ n \in Nat /\ m <= n /\ at <= m + 1
        BY <2>1, <2>3
      <3> HIDE DEF m, n
      <3>2. at \in 1..(m + 1) /\ produced \in 0..n /\ late \in 0..n
        BY <2>2, <2>3, <3>1
      <3> QED BY <3>2 DEF m, n
    <2>5. Len(chunk) <= ChunkRows
      BY <2>2 DEF ChunkInv
    <2>6. left \subseteq {"borough", "complaint", "date", "geo"}
      <3>1. left \subseteq Indexed
        BY DEF EngineInv, WorkInv
      <3>2. \A p \in Indexed : p \in {"borough", "complaint", "date", "geo"}
        BY KindsOfIndex
      <3> QED BY <3>1, <3>2
    <2>7. /\ code \in {"cpp", "python"} /\ file \in Files /\ table = Load(code, file)
          /\ spec \in Specs /\ pc \in {"plan", "seed", "intersect", "emit", "flush", "done"}
      BY DEF EngineInv, WorkInv, Loaded
    <2> QED BY <2>1, <2>3, <2>4, <2>5, <2>6, <2>7 DEF TypeOK
  <1> QED BY <1>1, EngineInvariant, PTL

(* Rows taken from a list at some positions, in their order, are a list     *)
(* again.                                                                   *)
LEMMA EnumeratedList ==
  ASSUME NEW S \in SUBSET Int, NEW list, Lists(list, S),
         NEW T \in SUBSET (1..Len(list)), NEW rows, IsList(rows), Enumerates(rows, list, T)
  PROVE  Lists(rows, {list[p] : p \in T})
  <1> DEFINE n == Len(rows)
             m == Len(list)
             U == {list[p] : p \in T}
  <1>1. n \in Nat /\ DOMAIN rows = 1..n /\ rows \in [1..n -> {rows[i] : i \in DOMAIN rows}]
    BY LenProperties DEF IsList
  <1>2. PICK pos \in [1..n -> T] :
          /\ \A j, k \in 1..n : j < k => pos[j] < pos[k]
          /\ \A p \in T : \E k \in 1..n : pos[k] = p
          /\ \A k \in 1..n : rows[k] = list[pos[k]]
    BY DEF Enumerates
  <1>3. \A j, k \in 1..m : j < k => list[j] < list[k]
    BY DEF Lists
  <1> HIDE DEF n, m
  <1>4. ASSUME NEW k \in 1..n
        PROVE  pos[k] \in T /\ pos[k] \in 1..m /\ rows[k] = list[pos[k]] /\ rows[k] \in U
    <2>1. pos[k] \in T /\ rows[k] = list[pos[k]]
      BY <1>2
    <2>2. T \subseteq 1..m
      BY DEF m
    <2> QED BY <2>1, <2>2
  <1> HIDE DEF U
  <1>5. rows \in Seq(U)
    <2>1. rows \in [1..n -> U]
      BY <1>1, <1>4
    <2> QED BY <1>1, <2>1, SeqDef
  <1>6. ASSUME NEW j \in 1..n, NEW k \in 1..n, j < k PROVE rows[j] < rows[k]
    <2>1. pos[j] < pos[k]
      BY <1>2, <1>6
    <2>2. list[pos[j]] < list[pos[k]]
      BY <1>3, <1>4, <2>1
    <2> QED BY <1>4, <2>2
  <1>7. ASSUME NEW i \in U PROVE \E k \in 1..n : rows[k] = i
    <2>1. PICK p \in T : i = list[p]
      BY DEF U
    <2>2. PICK k \in 1..n : pos[k] = p
      BY <1>2
    <2> QED BY <1>4, <2>1, <2>2
  <1> QED BY <1>5, <1>6, <1>7 DEF Lists, n, U

(* The row limit cuts the answer, and what has been sent, at the same row.  *)
LEMMA CappedPrefix ==
  ASSUME NEW all \in Seq(Int), NEW rows, Len(rows) \in Nat, spec.maxRows \in Nat,
         Len(rows) <= Len(all), rows = SubSeq(all, 1, Len(rows)),
         spec.maxRows # 0 => Len(rows) <= spec.maxRows
  PROVE  /\ Len(rows) <= Len(Capped(all)) /\ rows = SubSeq(Capped(all), 1, Len(rows))
         /\ (rows = all \/ (spec.maxRows # 0 /\ Len(rows) = spec.maxRows)) => rows = Capped(all)
  <1> DEFINE n == Len(rows)
             m == Len(all)
             x == spec.maxRows
             cut == SubSeq(all, 1, x)
  <1>1. n \in Nat /\ m \in Nat /\ x \in Nat /\ n <= m /\ (x # 0 => n <= x)
    BY LenProperties
  <1>2. Capped(all) = IF x = 0 \/ m < x THEN all ELSE cut
    BY DEF Capped
  <1>3. CASE x = 0 \/ m < x
    <2>1. ~(x # 0 /\ n = x)
      BY <1>1, <1>3
    <2>2. Capped(all) = all
      BY <1>2, <1>3
    <2> HIDE DEF x
    <2>3. n <= m /\ rows = SubSeq(all, 1, n) /\ (rows = all \/ (x # 0 /\ n = x) => rows = all)
      BY <2>1
    <2> QED BY <2>2, <2>3 DEF x
  <1>4. CASE ~(x = 0 \/ m < x)
    <2>1. x \in 1..m /\ n <= x
      BY <1>1, <1>4
    <2>2. Capped(all) = cut
      BY <1>2, <1>4
    <2>3. rows = SubSeq(all, 1, n)
      OBVIOUS
    <2> HIDE DEF n, m, x
    <2>4. \A i \in 1..x : all[i] \in Int
      <3>1. \A i \in 1..m : all[i] \in Int
        BY ElementOfSeq DEF m
      <3> QED BY <1>1, <2>1, <3>1
    <2>5. cut \in Seq(Int) /\ Len(cut) = x
      <3>1. 1 \in Int /\ x \in Int /\ 1 <= x /\ x - 1 + 1 = x
        BY <2>1
      <3> QED BY <2>4, <3>1, SubSeqProperties
    <2>6. SubSeq(cut, 1, n) = SubSeq(all, 1, n)
      <3>1. CASE n = 0
        BY <3>1, SubSeqEmpty
      <3>2. CASE n # 0
        <4>1. /\ 1 \in 1..m /\ x \in 1..m /\ 1 \in 1..(x - 1 + 1) /\ n \in 1..(x - 1 + 1)
              /\ 1 + 1 - 1 = 1 /\ 1 + n - 1 = n
          BY <1>1, <2>1, <3>2
        <4>2. SubSeq(SubSeq(all, 1, x), 1, n) = SubSeq(all, 1 + 1 - 1, 1 + n - 1)
          BY <2>5, <4>1, SubSeqOfSubSeq DEF m
        <4> QED BY <4>1, <4>2
      <3> QED BY <3>1, <3>2
    <2>7. rows = all => x = n /\ n = m
      <3>1. rows = all => n = m
        BY DEF n, m
      <3> QED BY <1>1, <2>1, <3>1
    <2>8. n = x => rows = cut
      BY <2>3
    <2>9. /\ n <= Len(cut) /\ rows = SubSeq(cut, 1, n)
          /\ (rows = all \/ (x # 0 /\ n = x)) => rows = cut
      BY <2>1, <2>3, <2>5, <2>6, <2>7, <2>8
    <2> QED BY <2>2, <2>9 DEF n, x
  <1> QED BY <1>3, <1>4

(* What the loop has taken are the first of the rows that match, and all of *)
(* them when it has come to the end of the list.                            *)
LEMMA CollectedFirst ==
  ASSUME EngineInv
  PROVE  LET all == Ascending(Matching(table, spec))
         IN  /\ all \in Seq(Int) /\ Len(Collected) \in Nat /\ Len(Collected) <= Len(all)
             /\ Collected = SubSeq(all, 1, Len(Collected))
             /\ pc \in {"emit", "flush", "done"} /\ at > Len(work) => Collected = all
  <1> DEFINE M == Matching(table, spec)
             all == Ascending(M)
             S == {work[p] : p \in Taken}
  <1>1. table \in Seq(Row) /\ spec \in QuerySpec
    BY LoadedTypes DEF EngineInv, WorkInv
  <1>2. M \in SUBSET Int /\ IsFiniteSet(M)
    <2>1. M \in SUBSET DOMAIN table
      BY DEF Matching
    <2> HIDE DEF M
    <2> QED BY <1>1, <2>1, RowIds
  <1>3. Lists(all, M) /\ all \in Seq(Int) /\ Len(all) \in Nat
    <2>1. Lists(all, M)
      BY <1>2, AscendingLists
    <2>2. all \in Seq(M)
      BY <2>1 DEF Lists
    <2> HIDE DEF M, all
    <2>3. all \in Seq(Int) /\ Len(all) \in Nat
      BY <1>2, <2>2, SeqMonotonic, LenProperties
    <2> QED BY <2>1, <2>3 DEF M, all
  <1>4. /\ IsList(Collected) /\ Len(Collected) \in Nat /\ Enumerates(Collected, work, Taken)
        /\ at \in Nat \ {0} /\ at <= Len(work) + 1 /\ Len(work) \in Nat
    <2>1. IsList(sent.rows) /\ IsList(chunk) /\ Enumerates(Collected, work, Taken) /\ at \in Nat \ {0}
      BY DEF EngineInv, PlanInv, ChunkInv
    <2>2. IsList(Collected) /\ Len(Collected) \in Nat
      BY <2>1, ListConcat DEF Collected
    <2>3. at <= Len(work) + 1 /\ Len(work) \in Nat
      BY WorkIsRows DEF EngineInv, ScanTypes
    <2> QED BY <2>1, <2>2, <2>3
  <1>5. CASE pc \in {"plan", "seed", "intersect"}
    <2>1. ChunkInv /\ at = 1
      BY <1>5 DEF EngineInv, PlanInv
    <2>2. Collected = <<>>
      BY <1>5, <2>1, NoneTaken
    <2>3. Len(<<>>) = 0 /\ SubSeq(all, 1, 0) = <<>>
      BY EmptySeq, SubSeqEmpty
    <2> HIDE DEF all
    <2>4. /\ Len(Collected) <= Len(all) /\ Collected = SubSeq(all, 1, Len(Collected))
          /\ pc \notin {"emit", "flush", "done"}
      BY <1>3, <1>5, <2>2, <2>3
    <2> QED BY <1>3, <1>4, <2>4 DEF all
  <1>6. CASE pc \in {"emit", "flush", "done"}
    <2> DEFINE L == Survivors(table, spec, Indexed)
               n == Len(work)
    <2>1. Lists(work, L)
      BY <1>6 DEF EngineInv, WorkInv
    <2>2. L \in SUBSET DOMAIN table /\ L \in SUBSET Int
      BY <1>1, SurvivorsAreRows
    <2>3. \A i \in DOMAIN table :
            i \in M <=> i \in L /\ (spec.geo => Inside(table[i], spec.box))
      BY <1>1, SurvivorsMatch
    <2>4. M \in SUBSET DOMAIN table
      BY DEF Matching
    <2> HIDE DEF L, M, all
    <2>5. \A p \in 1..n : work[p] \in L /\ work[p] \in DOMAIN table /\ work[p] \in Int
      BY <2>1, <2>2, ElementOfSeq DEF Lists
    <2>6. /\ \A j, k \in 1..n : j < k => work[j] < work[k]
          /\ \A i \in L : \E k \in 1..n : work[k] = i
      BY <2>1 DEF Lists
    <2>7. n \in Nat /\ at \in Nat \ {0} /\ at <= n + 1
      BY <1>4
    <2> HIDE DEF n
    <2>8. \A p \in 1..n : InBox(p) <=> work[p] \in M
      BY <2>3, <2>5 DEF InBox
    <2>9. \A p : p \in Taken <=> p \in 1..(at - 1) /\ InBox(p)
      BY DEF Taken
    <2>10. 1..(at - 1) \subseteq 1..n
      BY <2>7
    <2>11. Taken \in SUBSET (1..n)
      BY <2>9, <2>10
    <2>12. S \subseteq M
      BY <2>8, <2>9, <2>11
    <2>13. ASSUME NEW i \in S, NEW j \in M, j < i PROVE j \in S
      <3>1. PICK p \in Taken : i = work[p]
        OBVIOUS
      <3>2. PICK q \in 1..n : work[q] = j
        BY <2>3, <2>4, <2>6
      <3>3. p \in 1..n /\ p \in 1..(at - 1)
        BY <2>9, <2>11
      <3>4. ~(p < q)
        <4>1. ASSUME p < q PROVE FALSE
          <5>1. work[p] < work[q] /\ work[p] \in Int /\ work[q] \in Int
            BY <2>5, <2>6, <3>2, <3>3, <4>1
          <5> QED BY <2>13, <3>1, <3>2, <5>1
        <4> QED BY <4>1
      <3>5. q \in 1..(at - 1)
        BY <2>7, <3>2, <3>3, <3>4
      <3>6. q \in Taken
        BY <2>8, <2>9, <3>2, <3>5
      <3> QED BY <3>2, <3>6
    <2>14. Lists(Collected, S)
      BY <1>4, <2>1, <2>2, <2>11, EnumeratedList DEF n
    <2> HIDE DEF S
    <2>15. Len(Collected) <= Len(all) /\ Collected = SubSeq(all, 1, Len(Collected))
      <3>1. S \in SUBSET Int /\ \A i \in S : \A j \in M : j < i => j \in S
        BY <1>2, <2>12, <2>13
      <3> QED BY <1>2, <1>3, <2>12, <2>14, <3>1, PrefixOfList
    <2>16. ASSUME at > n PROVE Collected = all
      <3>1. 1..(at - 1) = 1..n
        BY <2>7, <2>16
      <3>2. ASSUME NEW i \in M PROVE i \in S
        <4>1. PICK q \in 1..n : work[q] = i
          BY <2>3, <2>4, <2>6
        <4>2. q \in Taken
          BY <2>8, <2>9, <3>1, <4>1
        <4> QED BY <4>1, <4>2 DEF S
      <3>3. S = M
        BY <2>12, <3>2
      <3>4. Len(Collected) = Cardinality(M) /\ Len(all) = Cardinality(M)
        BY <1>2, <1>3, <2>14, <3>3, LengthOfList
      <3>5. SubSeq(all, 1, Len(all)) = all
        BY <1>3, SubSeqFull
      <3> QED BY <2>15, <3>4, <3>5
    <2> QED BY <1>3, <1>4, <2>15, <2>16 DEF all, n, M
  <1>7. pc \in {"plan", "seed", "intersect"} \/ pc \in {"emit", "flush", "done"}
    BY DEF EngineInv, WorkInv
  <1> QED BY <1>5, <1>6, <1>7

(* The answer is the list of the rows that match, as far as the row limit   *)
(* goes.                                                                    *)
LEMMA CollectedAnswer ==
  ASSUME EngineInv
  PROVE  /\ Len(Collected) <= Len(AnswerRows)
         /\ Collected = SubSeq(AnswerRows, 1, Len(Collected))
         /\ \/ pc \in {"emit", "flush", "done"} /\ at > Len(work)
            \/ spec.maxRows # 0 /\ Len(Collected) = spec.maxRows
            => Collected = AnswerRows
  <1> DEFINE all == Ascending(Matching(table, spec))
  <1>1. /\ all \in Seq(Int) /\ Len(Collected) \in Nat /\ Len(Collected) <= Len(all)
        /\ Collected = SubSeq(all, 1, Len(Collected))
        /\ pc \in {"emit", "flush", "done"} /\ at > Len(work) => Collected = all
    BY CollectedFirst
  <1>2. AnswerRows = Capped(all)
    BY DEF AnswerRows, Matching
  <1>3. spec.maxRows \in Nat
    BY LoadedTypes DEF EngineInv, WorkInv, QuerySpec
  <1>4. spec.maxRows # 0 => Len(Collected) <= spec.maxRows
    <2>1. Len(Collected) = produced
      BY ListConcat DEF EngineInv, PlanInv, ChunkInv, Collected
    <2> QED BY <2>1 DEF EngineInv, PlanInv
  <1> HIDE DEF all
  <1>5. /\ Len(Collected) <= Len(Capped(all)) /\ Collected = SubSeq(Capped(all), 1, Len(Collected))
        /\ (Collected = all \/ (spec.maxRows # 0 /\ Len(Collected) = spec.maxRows))
             => Collected = Capped(all)
    BY <1>1, <1>3, <1>4, CappedPrefix
  <1> QED BY <1>1, <1>2, <1>5

(* At every moment, in both engines, for every partition and every query,   *)
(* what has been sent and what is in the chunk is the beginning of the      *)
(* answer of the linear scan, in whatever order the indices are intersected.*)
THEOREM SentPrefix == Spec => []SentIsPrefix
  <1>1. EngineInv => SentIsPrefix
    BY CollectedAnswer DEF SentIsPrefix, Collected
  <1> QED BY <1>1, EngineInvariant, PTL

(* A query that is not cancelled gets all of it, but for a geo box in C++.  *)
LEMMA DoneIsAnswer ==
  ASSUME EngineInv, sent.done, ~canceled, ~(code = "cpp" /\ spec.geo)
  PROVE  sent.rows = AnswerRows
  <1>1. pc = "done"
    BY DEF EngineInv, PlanInv, ChunkInv
  <1>2. chunk = <<>> /\ Ended /\ IsList(sent.rows)
    BY <1>1 DEF EngineInv, ScanTypes, PlanInv, ChunkInv
  <1>3. Collected = sent.rows
    BY <1>2, ConcatEmptySeq DEF Collected, IsList
  <1>4. Len(Collected) = produced
    BY ListConcat DEF EngineInv, PlanInv, ChunkInv, Collected
  <1>5. at > Len(work) \/ (spec.maxRows # 0 /\ Len(Collected) = spec.maxRows)
    BY <1>2, <1>4 DEF Ended
  <1>6. Collected = AnswerRows
    BY <1>1, <1>5, CollectedAnswer
  <1> QED BY <1>3, <1>6

(* So whatever order the lists come in, however the sizes of chunks and the *)
(* row limit fall and wherever a predicate ends early, the plan gives all   *)
(* that the linear scan gave.                                               *)
THEOREM CompleteButForCppGeo == Spec => []CompleteButCppGeo
  <1>1. EngineInv => CompleteButCppGeo
    BY DoneIsAnswer DEF CompleteButCppGeo, Complete
  <1> QED BY <1>1, EngineInvariant, PTL

-----------------------------------------------------------------------------
(***************************************************************************)
(* The file.  Every row of the table is of one line that is taken; of a    *)
(* line that the parser can read it holds what the line says, in every     *)
(* column that is not misplaced.                                           *)
(***************************************************************************)

(* The rows of the table are those of the lines that are taken, each once.  *)
LEMMA LinesLoaded ==
  ASSUME Loaded, NEW taken, taken = TakenLines(code, file)
  PROVE  /\ \A i \in DOMAIN table :
              taken[i] \in DOMAIN file.lines /\ table[i] = RowOf(code, file, file.lines[taken[i]])
         /\ \A k \in DOMAIN file.lines :
              Takes(code, file, file.lines[k]) => \E i \in DOMAIN table : taken[i] = k
  <1> DEFINE lines == file.lines
             T == {k \in DOMAIN lines : Takes(code, file, lines[k])}
  <1>1. lines \in Seq({lines[k] : k \in DOMAIN lines}) /\ (file.header = <<>> => lines = <<>>)
    BY EngineConstants DEF Loaded
  <1>2. table = [i \in DOMAIN taken |-> RowOf(code, file, lines[taken[i]])]
    BY DEF Loaded, Load
  <1>3. Lists(taken, T)
    <2>1. T \in SUBSET DOMAIN lines
      OBVIOUS
    <2>2. CASE file.header = <<>>
      <3>1. lines = <<>> /\ taken = <<>>
        BY <1>1, <2>2 DEF TakenLines
      <3>2. DOMAIN lines = {}
        <4>1. <<>> \in Seq(Int) /\ Len(<<>>) = 0
          BY EmptySeq
        <4>2. DOMAIN <<>> = 1..0
          BY <4>1, LenProperties
        <4> QED BY <3>1, <4>2
      <3>3. T = {}
        BY <2>1, <3>2
      <3> HIDE DEF T
      <3> QED BY <3>1, <3>3, NothingListed
    <2>3. CASE file.header # <<>>
      <3>1. taken = Ascending(T)
        BY <2>3 DEF TakenLines
      <3> HIDE DEF T, lines
      <3>2. T \in SUBSET Int /\ IsFiniteSet(T)
        BY <1>1, <2>1, RowIds
      <3> QED BY <3>1, <3>2, AscendingLists
    <2> QED BY <2>2, <2>3
  <1>4. DOMAIN taken = 1..Len(taken) /\ DOMAIN table = DOMAIN taken
    <2>1. taken \in Seq(T)
      BY <1>3 DEF Lists
    <2> HIDE DEF T
    <2> QED BY <1>2, <2>1, LenProperties
  <1>5. ASSUME NEW i \in DOMAIN table
        PROVE  taken[i] \in DOMAIN lines /\ table[i] = RowOf(code, file, lines[taken[i]])
    <2>1. taken \in Seq(T) /\ i \in 1..Len(taken)
      BY <1>3, <1>4 DEF Lists
    <2>2. taken[i] \in T
      <3> HIDE DEF T
      <3> QED BY <2>1, ElementOfSeq
    <2> QED BY <1>2, <1>4, <2>2
  <1>6. ASSUME NEW k \in DOMAIN lines, Takes(code, file, lines[k])
        PROVE  \E i \in DOMAIN table : taken[i] = k
    <2>1. k \in T
      BY <1>6
    <2> HIDE DEF T
    <2> QED BY <1>3, <1>4, <2>1 DEF Lists
  <1> QED BY <1>5, <1>6

(* The first of the names that are there. *)
LEMMA FirstOfNames ==
  ASSUME NEW S \in SUBSET {1, 2, 3}, S # {}
  PROVE  Min(S) \in S
  <1>1. \E x \in S : \A y \in S : x <= y
    <2>1. CASE 1 \in S
      BY <2>1
    <2>2. CASE 1 \notin S /\ 2 \in S
      BY <2>2
    <2>3. CASE 1 \notin S /\ 2 \notin S
      <3>1. S = {3}
        BY <2>3
      <3> QED BY <3>1
    <2> QED BY <2>1, <2>2, <2>3
  <1> QED BY <1>1 DEF Min

(* The columns. *)
LEMMA ColumnNames == DOMAIN Names = {"key", "date", "complaint", "borough", "lat", "lon"}
  BY DEF Names

(* A column has two or three names. *)
LEMMA NamesOfColumns ==
  ASSUME NEW what \in DOMAIN Names
  PROVE  DOMAIN Names[what] \subseteq {1, 2, 3}
  <1>1. what \in {"key", "date", "complaint", "borough", "lat", "lon"}
    BY ColumnNames
  <1>2. DOMAIN Names["date"] = 1..3
    BY DEF Names
  <1>3. /\ DOMAIN Names["key"] = 1..2 /\ DOMAIN Names["complaint"] = 1..2
        /\ DOMAIN Names["borough"] = 1..2 /\ DOMAIN Names["lat"] = 1..2
        /\ DOMAIN Names["lon"] = 1..2
    BY DEF Names
  <1>4. 1..2 \subseteq {1, 2, 3} /\ 1..3 \subseteq {1, 2, 3}
    OBVIOUS
  <1> QED BY <1>1, <1>2, <1>3, <1>4

(* Unless it is misplaced, a column is read where it is meant. *)
LEMMA ColumnMeant ==
  ASSUME code \in {"cpp", "python"}, NEW what \in DOMAIN Names, ~Misplaced(what)
  PROVE  Column(code, file, what) = MeantAt(what)
  <1> DEFINE K == DOMAIN Names[what]
             name(k) == Names[what][k]
             pos == [k \in K |-> At(code, file, name(k))]
             there == {k \in K : Named(name(k)) # {}}
             seen == {k \in DOMAIN pos : pos[k] # {}}
             any == AnyName(what)
  <1>1. any = UNION {Named(name(k)) : k \in K}
    BY DEF AnyName
  <1>2. ASSUME NEW k \in K PROVE pos[k] = Named(name(k))
    <2>1. pos[k] = {i \in Named(name(k)) : ~(code = "cpp" /\ file.crlf /\ i = Len(file.header))}
      BY DEF At, Named
    <2>2. ASSUME NEW i \in Named(name(k)) PROVE ~(code = "cpp" /\ file.crlf /\ i = Len(file.header))
      <3>1. i \in any
        BY <1>1
      <3> HIDE DEF any
      <3> QED BY <3>1 DEF Misplaced, any
    <2> QED BY <2>1, <2>2
  <1>3. seen = there
    BY <1>2
  <1>4. Column(code, file, what) =
          IF seen = {} THEN 0
          ELSE Max(IF code = "cpp" THEN UNION {pos[k] : k \in seen} ELSE pos[Min(seen)])
    BY DEF Column
  <1>5. MeantAt(what) = IF there = {} THEN 0 ELSE Max(Named(name(Min(there))))
    BY DEF MeantAt
  <1>6. K \subseteq {1, 2, 3}
    BY NamesOfColumns
  <1>7. UNION {pos[k] : k \in seen} = any
    <2>1. ASSUME NEW i PROVE i \in UNION {pos[k] : k \in seen} <=> i \in any
      BY <1>1, <1>2, <1>3
    <2> QED BY <2>1
  <1>8. there # {} => Min(there) \in K /\ any # {}
    <2>1. there \in SUBSET {1, 2, 3} /\ there \subseteq K
      BY <1>6
    <2>2. there # {} => any # {}
      BY <1>1
    <2> HIDE DEF there
    <2> QED BY <2>1, <2>2, FirstOfNames
  <1>9. CASE code = "cpp"
    <2>1. any # {} => Max(any) = MeantAt(what)
      BY <1>9 DEF Misplaced
    <2> HIDE DEF K, pos, there, seen, any
    <2> QED BY <1>3, <1>4, <1>5, <1>7, <1>8, <1>9, <2>1
  <1>10. CASE code = "python"
    <2>1. there # {} => pos[Min(there)] = Named(name(Min(there)))
      BY <1>2, <1>8
    <2> HIDE DEF pos, there, seen
    <2> QED BY <1>3, <1>4, <1>5, <1>10, <2>1
  <1> QED BY <1>9, <1>10

(* What a field says where the parser looks for it. *)
LEMMA FieldMeant ==
  ASSUME code \in {"cpp", "python"}, NEW what \in DOMAIN Names, ~Misplaced(what), NEW line
  PROVE  /\ what # "complaint" => Field(code, file, line, what, 0).v = Meant(line)[what]
         /\ what = "complaint" => Field(code, file, line, what, "").v = Meant(line)[what]
  <1>1. Column(code, file, what) = MeantAt(what)
    BY ColumnMeant
  <1>2. Meant(line)[what] = IF MeantAt(what) \in DOMAIN line THEN line[MeantAt(what)].v
                            ELSE IF what = "complaint" THEN "" ELSE 0
    BY DEF Meant
  <1> QED BY <1>1, <1>2 DEF Field

(* What the parsers make of a field in the form they expect. *)
LEMMA PlainFields ==
  ASSUME NEW c, NEW f, f.form = "plain"
  PROVE  Number(c, f) = f.v /\ Borough(c, f) = f.v /\ Coordinate(f) = f.v
  <1>1. Number(c, f) = f.v
    BY DEF Number
  <1>2. Borough(c, f) = f.v
    BY DEF Borough
  <1>3. Coordinate(f) = f.v
    BY DEF Coordinate
  <1> QED BY <1>1, <1>2, <1>3

(* The row of a line that can be read. *)
LEMMA RowMeant ==
  ASSUME code \in {"cpp", "python"}, NEW line, Readable(line)
  PROVE  LET row == RowOf(code, file, line)
         IN  /\ ~Misplaced("key") => row.key = Meant(line).key
             /\ ~Misplaced("date") => row.date = Meant(line).date
             /\ ~Misplaced("borough") => row.borough = Meant(line).borough
             /\ ~Misplaced("complaint") => row.complaint = Meant(line).complaint
             /\ ~Misplaced("lat") => row.lat = Meant(line).lat
             /\ ~Misplaced("lon") => row.lon = Meant(line).lon
  <1> DEFINE row == RowOf(code, file, line)
             f(what) == Field(code, file, line, what, 0)
  <1>1. /\ row.key = Number(code, f("key")) /\ row.date = Date(code, file, f("date"))
        /\ row.borough = Borough(code, f("borough"))
        /\ row.lat = Coordinate(f("lat")) /\ row.lon = Coordinate(f("lon"))
        /\ row.complaint = Field(code, file, line, "complaint", "").v
    BY DEF RowOf
  <1>2. \A what \in DOMAIN Names :
          \/ /\ f(what).form = "plain"
             /\ what = "date" => Packed(code, file) \/ code = "python" \/ f(what).v = 0
          \/ f(what).form = "iso" /\ what = "date" /\ ~Packed(code, file)
    BY DEF Readable
  <1> HIDE DEF row, f
  <1>3. \A what \in {"key", "borough", "lat", "lon"} : f(what).form = "plain"
    BY <1>2, ColumnNames
  <1>4. /\ row.key = f("key").v /\ row.borough = f("borough").v
        /\ row.lat = f("lat").v /\ row.lon = f("lon").v
    BY <1>1, <1>3, PlainFields
  <1>5. row.date = f("date").v
    <2>1. \/ /\ f("date").form = "plain"
             /\ Packed(code, file) \/ code = "python" \/ f("date").v = 0
          \/ f("date").form = "iso" /\ ~Packed(code, file)
      BY <1>2, ColumnNames
    <2>2. CASE Packed(code, file)
      BY <1>1, <2>1, <2>2, PlainFields DEF Date
    <2>3. CASE ~Packed(code, file)
      BY <1>1, <2>1, <2>3 DEF Date
    <2> QED BY <2>2, <2>3
  <1>6. ASSUME NEW what \in {"key", "date", "borough", "lat", "lon"}, ~Misplaced(what)
        PROVE  f(what).v = Meant(line)[what]
    BY <1>6, FieldMeant, ColumnNames DEF f
  <1>7. ~Misplaced("complaint") => row.complaint = Meant(line)["complaint"]
    BY <1>1, FieldMeant, ColumnNames
  <1> QED BY <1>4, <1>5, <1>6, <1>7 DEF row

(* What has been sent at the end are rows that match, and all of them but   *)
(* for the row limit.                                                       *)
LEMMA SentMatches ==
  ASSUME EngineInv, sent.done, ~canceled, ~(code = "cpp" /\ spec.geo)
  PROVE  LET ids == {sent.rows[n] : n \in DOMAIN sent.rows}
         IN  /\ ids \subseteq Matching(table, spec)
             /\ \/ ids = Matching(table, spec)
                \/ spec.maxRows # 0 /\ Len(sent.rows) = spec.maxRows
  <1> DEFINE M == Matching(table, spec)
             all == Ascending(M)
             rows == sent.rows
             ids == {rows[n] : n \in DOMAIN rows}
             x == spec.maxRows
  <1>1. M \in SUBSET Int /\ IsFiniteSet(M)
    <2>1. M \in SUBSET DOMAIN table
      BY DEF Matching
    <2>2. table \in Seq(Row)
      BY LoadedTypes DEF EngineInv, WorkInv
    <2> HIDE DEF M
    <2> QED BY <2>1, <2>2, RowIds
  <1>2. rows = IF x = 0 \/ Len(all) < x THEN all ELSE SubSeq(all, 1, x)
    BY DoneIsAnswer DEF AnswerRows, Capped, Matching
  <1>3. x \in Nat
    BY LoadedTypes DEF EngineInv, WorkInv, QuerySpec
  <1> HIDE DEF M, rows, x
  <1>4. Lists(all, M)
    BY <1>1, AscendingLists
  <1> HIDE DEF all
  <1>5. /\ all \in Seq(M) /\ Len(all) \in Nat /\ DOMAIN all = 1..Len(all)
        /\ \A i \in 1..Len(all) : all[i] \in M
        /\ \A i \in M : \E k \in 1..Len(all) : all[k] = i
    BY <1>4, LenProperties, ElementOfSeq DEF Lists
  <1>6. CASE x = 0 \/ Len(all) < x
    <2>1. rows = all
      BY <1>2, <1>6
    <2>2. ids = M
      BY <1>5, <2>1
    <2> QED BY <2>2 DEF ids, rows, M
  <1>7. CASE ~(x = 0 \/ Len(all) < x)
    <2>1. x \in Int /\ 1 <= x /\ x - 1 + 1 = x /\ x <= Len(all)
      BY <1>3, <1>5, <1>7
    <2>2. \A i \in 1..x : all[i] \in M
      BY <1>5, <2>1
    <2>3. SubSeq(all, 1, x) \in Seq(M) /\ Len(SubSeq(all, 1, x)) = x
      BY <2>1, <2>2, SubSeqProperties
    <2>4. rows \in Seq(M) /\ Len(rows) = x
      BY <1>2, <1>7, <2>3
    <2>5. DOMAIN rows = 1..Len(rows)
      BY <2>4, LenProperties
    <2>6. ids \subseteq M
      BY <2>4, <2>5, ElementOfSeq
    <2> QED BY <1>7, <2>4, <2>6 DEF ids, rows, M, x
  <1> QED BY <1>6, <1>7

(* The row of a line and what the line says match or not together, when no  *)
(* column that is asked for is misplaced.                                   *)
LEMMA MatchesMeant ==
  ASSUME code \in {"cpp", "python"}, ~(code = "cpp" /\ spec.geo),
         \A what \in {"key"} \cup (Indexed \ {"geo"}) : ~Misplaced(what),
         NEW line, Readable(line)
  PROVE  LET row == RowOf(code, file, line)
         IN  /\ row.key = Meant(line).key
             /\ Matches(row, spec) <=> Matches(Meant(line), spec)
             /\ spec.geo => (Located(row) <=> Located(Meant(line)))
  <1> DEFINE row == RowOf(code, file, line)
             says == Meant(line)
  <1>1. /\ ~Misplaced("key") => row.key = says.key
        /\ ~Misplaced("date") => row.date = says.date
        /\ ~Misplaced("borough") => row.borough = says.borough
        /\ ~Misplaced("complaint") => row.complaint = says.complaint
        /\ ~Misplaced("lat") => row.lat = says.lat
        /\ ~Misplaced("lon") => row.lon = says.lon
    BY RowMeant
  <1>2. /\ spec.borough # 0 => "borough" \in Indexed
        /\ spec.complaint # "" => "complaint" \in Indexed
        /\ spec.from # 0 \/ spec.to # 0 => "date" \in Indexed
    BY DEF Indexed
  <1> HIDE DEF row, says
  <1>3. row.key = says.key
    BY <1>1
  <1>4. /\ spec.borough # 0 => row.borough = says.borough
        /\ spec.complaint # "" => row.complaint = says.complaint
        /\ spec.from # 0 \/ spec.to # 0 => row.date = says.date
    BY <1>1, <1>2
  <1>5. spec.geo => row.lat = says.lat /\ row.lon = says.lon
    <2>1. spec.geo => ~Misplaced("lat") /\ ~Misplaced("lon")
      BY DEF Misplaced
    <2> QED BY <1>1, <2>1
  <1>6. spec.geo => /\ Inside(row, spec.box) <=> Inside(says, spec.box)
                    /\ Located(row) <=> Located(says)
    BY <1>5 DEF Inside, Located
  <1>7. Matches(row, spec) <=> Matches(says, spec)
    BY <1>4, <1>6 DEF Matches
  <1> QED BY <1>3, <1>6, <1>7 DEF row, says

(* From either node, a query that is not cancelled gets the rows of the     *)
(* lines that match, under their keys, and no other, whatever columns and   *)
(* lines there are besides: the parser, the indices, their intersection and *)
(* the loop together say what the file says.                                *)
THEOREM FileIsAnswered == Spec => []FileAnswered
  <1>1. ASSUME EngineInv PROVE FileAnswered
    <2> SUFFICES ASSUME sent.done, ~canceled, ~(code = "cpp" /\ spec.geo),
                        \A what \in {"key"} \cup (Indexed \ {"geo"}) : ~Misplaced(what)
                 PROVE  Answered
      BY DEF FileAnswered
    <2> DEFINE taken == TakenLines(code, file)
               ids == {sent.rows[n] : n \in DOMAIN sent.rows}
               M == Matching(table, spec)
    <2>1. Loaded /\ code \in {"cpp", "python"}
      BY <1>1 DEF EngineInv, WorkInv, Loaded
    <2>2. /\ \A i \in DOMAIN table :
               taken[i] \in DOMAIN file.lines /\ table[i] = RowOf(code, file, file.lines[taken[i]])
          /\ \A k \in DOMAIN file.lines :
               Takes(code, file, file.lines[k]) => \E i \in DOMAIN table : taken[i] = k
      BY <2>1, LinesLoaded
    <2>3. ids \subseteq M /\ (ids = M \/ (spec.maxRows # 0 /\ Len(sent.rows) = spec.maxRows))
      BY <1>1, SentMatches
    <2>4. Sent = {<<taken[i], table[i].key>> : i \in ids}
      BY DEF Sent
    <2>5. M = {i \in DOMAIN table : Matches(table[i], spec) /\ (spec.geo => Located(table[i]))}
      BY DEF Matching
    <2> HIDE DEF taken, ids, M
    <2>6. ASSUME NEW k \in DOMAIN file.lines, Readable(file.lines[k])
          PROVE  LET row == Meant(file.lines[k])
                 IN  /\ \A line \in Sent : line[1] = k => line[2] = row.key /\ Matches(row, spec)
                     /\ Matches(row, spec) /\ (spec.geo => Located(row)) =>
                          \/ <<k, row.key>> \in Sent
                          \/ spec.maxRows # 0 /\ Len(sent.rows) = spec.maxRows
      <3> DEFINE says == Meant(file.lines[k])
                 row == RowOf(code, file, file.lines[k])
      <3>1. /\ row.key = says.key
            /\ Matches(row, spec) <=> Matches(says, spec)
            /\ spec.geo => (Located(row) <=> Located(says))
        BY <2>1, <2>6, MatchesMeant
      <3>2. Takes(code, file, file.lines[k])
        BY <2>6 DEF Readable
      <3>3. \A i \in DOMAIN table : taken[i] = k => table[i] = row
        BY <2>2
      <3> HIDE DEF says, row
      <3>4. ASSUME NEW line \in Sent, line[1] = k
            PROVE  line[2] = says.key /\ Matches(says, spec)
        <4>1. PICK i \in ids : line = <<taken[i], table[i].key>>
          BY <2>4
        <4>2. i \in DOMAIN table /\ Matches(table[i], spec)
          BY <2>3, <2>5
        <4>3. taken[i] = k /\ line[2] = table[i].key
          BY <3>4, <4>1
        <4> QED BY <3>1, <3>3, <4>2, <4>3
      <3>5. ASSUME Matches(says, spec), spec.geo => Located(says),
                   ~(spec.maxRows # 0 /\ Len(sent.rows) = spec.maxRows)
            PROVE  <<k, says.key>> \in Sent
        <4>1. PICK i \in DOMAIN table : taken[i] = k
          BY <2>2, <3>2
        <4>2. table[i] = row
          BY <3>3, <4>1
        <4>3. Matches(table[i], spec) /\ (spec.geo => Located(table[i]))
          BY <3>1, <3>5, <4>2
        <4>4. i \in M
          BY <2>5, <4>3
        <4>5. i \in ids
          BY <2>3, <3>5, <4>4
        <4>6. <<taken[i], table[i].key>> \in Sent
          BY <2>4, <4>5
        <4> QED BY <3>1, <4>1, <4>2, <4>6
      <3> QED BY <3>4, <3>5 DEF says
    <2> QED BY <2>6 DEF Answered
  <1>2. EngineInv => FileAnswered
    BY <1>1
  <1> QED BY <1>2, EngineInvariant, PTL

=============================================================================
