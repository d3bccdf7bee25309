----------------------------- MODULE BufferOps -----------------------------
(***************************************************************************)
(* The row buffer of one request, as a value: cpp/src/ChunkBuffer.cpp and   *)
(* its Python twin _BoundedBuffer.  Every public method holds mu_ for its   *)
(* whole body, so each is one operator on a buffer record.  The blocking    *)
(* wait inside popUpTo is the business of the module that has threads:      *)
(* ChunkBuffer here, Overlay and Portal for the whole system.               *)
(*                                                                          *)
(* rows_served_ is a counter of rows handed out; the model keeps it as the  *)
(* field "served".  started_ is written and never read by the code.         *)
(***************************************************************************)
EXTENDS Naturals, Sequences, FiniteSets

Lesser(m, n) == IF m <= n THEN m ELSE n

(* Mutant: the two sizes the constructor takes change places. *)
NewBufferSwapped(cap, exp) ==
  [q        |-> <<>>,
   capacity |-> exp,
   expected |-> cap,
   started  |-> {},
   done     |-> {},
   served   |-> 0,
   canceled |-> FALSE]

NewBuffer(cap, exp) ==
  [q        |-> <<>>,
   capacity |-> cap,
   expected |-> exp,
   started  |-> {},
   done     |-> {},
   served   |-> 0,
   canceled |-> FALSE]

(* Mutant: the last producer is not waited for. *)
AllDoneButOne(b) == Cardinality(b.done) + 1 >= b.expected

AllDone(b) == Cardinality(b.done) >= b.expected

(* Mutant: the clamp admits one row too many. *)
RoomOffByOne(b) == IF Len(b.q) > b.capacity THEN 0 ELSE b.capacity + 1 - Len(b.q)

Room(b) == IF Len(b.q) >= b.capacity THEN 0 ELSE b.capacity - Len(b.q)

(* How many of the rows pushRows enqueues ... *)
Enqueued(b, rows) == IF b.canceled THEN 0 ELSE Lesser(Len(rows), Room(b))

(* ... and how many it tells its caller it accepted: a cancelled buffer     *)
(* pretends to have taken them all.                                         *)
Took(b, rows) == IF b.canceled THEN Len(rows) ELSE Enqueued(b, rows)

(* Mutant: pushRows forgets that the buffer was cancelled. *)
PushAfterCancel(b, rows) ==
  [b EXCEPT !.q = @ \o SubSeq(rows, 1, Lesser(Len(rows), Room(b)))]

PushRows(b, rows) == [b EXCEPT !.q = @ \o SubSeq(rows, 1, Enqueued(b, rows))]

Popped(b, max) == SubSeq(b.q, 1, Lesser(max, Len(b.q)))

(* Mutant: popUpTo copies the rows and leaves the last of them queued. *)
PopKeepsLast(b, max) ==
  LET k == Lesser(max, Len(b.q))
  IN  [b EXCEPT !.q = SubSeq(@, IF k = 0 THEN 1 ELSE k, Len(@)),
                !.served = @ + k]

PopUpTo(b, max) ==
  LET k == Lesser(max, Len(b.q))
  IN  [b EXCEPT !.q = SubSeq(@, k + 1, Len(@)), !.served = @ + k]

MarkProducerStarted(b, p) == [b EXCEPT !.started = @ \cup {p}]

MarkProducerDone(b, p) == [b EXCEPT !.done = @ \cup {p}]

(* Mutant: cancel leaves the queued rows where they are. *)
CancelKeepsRows(b) == [b EXCEPT !.canceled = TRUE]

CancelBuffer(b) == [b EXCEPT !.canceled = TRUE, !.q = <<>>]

(* The predicate of the wait in popUpTo. *)
Ready(b) == b.q # <<>> \/ b.canceled \/ AllDone(b)

IsFinal(b) == b.canceled \/ (b.q = <<>> /\ AllDone(b))

BufferRecord(Row, Producer) ==
  [q        : Seq(Row),
   capacity : Nat,
   expected : Nat,
   started  : SUBSET Producer,
   done     : SUBSET Producer,
   served   : Nat,
   canceled : BOOLEAN]
=============================================================================
