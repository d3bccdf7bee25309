---------------------------- MODULE ChunkBuffer ----------------------------
(***************************************************************************)
(* ChunkBuffer under concurrent callers (cpp/src/ChunkBuffer.cpp): the      *)
(* threads that push, the gRPC threads that serve FetchChunk and wait on    *)
(* cv_not_empty_, and the threads that cancel.  Nothing is assumed of the   *)
(* callers: a producer may push after it said it was done (a retried        *)
(* PushChunk does), and several FetchChunk calls may be in popUpTo at once  *)
(* (cv_not_full_ has no waiter in the code and is left out).                *)
(*                                                                          *)
(* A waiting consumer leaves the wait when it was notified and finds the    *)
(* predicate true, or when its block_ms run out: then it takes what is      *)
(* there.  accepted, served and offered are history: the rows enqueued in   *)
(* order, the rows handed out in order, and how many each producer pushed.  *)
(***************************************************************************)
EXTENDS BufferOps

CONSTANTS Producer, Consumer,
          Capacity,      \* chunk_buffer_cap
          MaxFetch,      \* bound: the largest max_rows a FetchChunk asks for
          MaxChunk,      \* bound: the largest chunk a producer pushes
          MaxRows        \* bound: the rows one producer pushes in all

ASSUME BufferConstants ==
  /\ IsFiniteSet(Producer)
  /\ Capacity \in Nat
  /\ MaxFetch \in Nat
  /\ MaxChunk \in Nat
  /\ MaxRows \in Nat

VARIABLES buf,       \* the ChunkBuffer
          pc,        \* per consumer: "idle", "waiting" or "notified"
          want,      \* per consumer: the max_rows of the call it is in
          offered,   \* history: rows each producer has pushed
          accepted,  \* history: rows enqueued, in order
          served     \* history: rows handed to consumers, in order

vars == <<buf, pc, want, offered, accepted, served>>

(* The k-th row a producer ever pushes. *)
Row == Producer \X Nat

Chunk(p, n) == [i \in 1..n |-> <<p, offered[p] + i>>]

(* cv_not_empty_.notify_all() *)
Notified == [c \in Consumer |-> IF pc[c] = "waiting" THEN "notified" ELSE pc[c]]

Init ==
  /\ buf = NewBuffer(Capacity, Cardinality(Producer))
  /\ pc = [c \in Consumer |-> "idle"]
  /\ want = [c \in Consumer |-> 0]
  /\ offered = [p \in Producer |-> 0]
  /\ accepted = <<>>
  /\ served = <<>>

(* pushRows notifies only when it enqueued something. *)
Push(p, n) ==
  LET rows == Chunk(p, n)
      k    == Enqueued(buf, rows)
  IN  /\ n > 0 /\ offered[p] + n <= MaxRows
      /\ buf' = PushRows(buf, rows)
      /\ pc' = IF k > 0 THEN Notified ELSE pc
      /\ offered' = [offered EXCEPT ![p] = @ + n]
      /\ accepted' = accepted \o SubSeq(rows, 1, k)
      /\ UNCHANGED <<want, served>>

Started(p) ==
  /\ buf' = MarkProducerStarted(buf, p)
  /\ UNCHANGED <<pc, want, offered, accepted, served>>

(* Mutant: markProducerDone without its notify_all. *)
DoneSilently(p) ==
  /\ buf' = MarkProducerDone(buf, p)
  /\ UNCHANGED <<pc, want, offered, accepted, served>>

Done(p) ==
  /\ buf' = MarkProducerDone(buf, p)
  /\ pc' = Notified
  /\ UNCHANGED <<want, offered, accepted, served>>

(* Mutant: cancel drops the rows but wakes nobody. *)
CancelSilently ==
  /\ buf' = CancelBuffer(buf)
  /\ UNCHANGED <<pc, want, offered, accepted, served>>

Cancel ==
  /\ buf' = CancelBuffer(buf)
  /\ pc' = Notified
  /\ UNCHANGED <<want, offered, accepted, served>>

(* The tail of popUpTo, after the wait or without one. *)
Take(c, max) ==
  /\ buf' = PopUpTo(buf, max)
  /\ served' = served \o Popped(buf, max)
  /\ pc' = [pc EXCEPT ![c] = "idle"]
  /\ UNCHANGED <<offered, accepted>>

(* popUpTo is entered; block is block_ms > 0. *)
EnterPop(c, max, block) ==
  /\ pc[c] = "idle"
  /\ max > 0
  /\ want' = [want EXCEPT ![c] = max]
  /\ IF block /\ ~Ready(buf)
       THEN /\ pc' = [pc EXCEPT ![c] = "waiting"]
            /\ UNCHANGED <<buf, offered, accepted, served>>
       ELSE Take(c, max)

(* A notified consumer gets the mutex back and re-evaluates the predicate:  *)
(* another consumer may have emptied the buffer again.                      *)
Wake(c) ==
  /\ pc[c] = "notified"
  /\ UNCHANGED want
  /\ IF Ready(buf)
       THEN Take(c, want[c])
       ELSE /\ pc' = [pc EXCEPT ![c] = "waiting"]
            /\ UNCHANGED <<buf, offered, accepted, served>>

TimeOut(c) ==
  /\ pc[c] \in {"waiting", "notified"}
  /\ UNCHANGED want
  /\ Take(c, want[c])

Next ==
  \/ \E p \in Producer : \/ \E n \in 1..MaxChunk : Push(p, n)
                         \/ Started(p)
                         \/ Done(p)
  \/ \E c \in Consumer : \/ \E max \in 1..MaxFetch, block \in BOOLEAN : EnterPop(c, max, block)
                         \/ Wake(c)
                         \/ TimeOut(c)
  \/ Cancel

(* A thread that was notified runs.  No fairness on TimeOut: what follows   *)
(* must not rest on the timer.                                              *)
Spec == Init /\ [][Next]_vars /\ \A c \in Consumer : WF_vars(Wake(c))

-----------------------------------------------------------------------------

(* Types of all the state: the buffer behind registry_ and the FetchChunk   *)
(* threads in popUpTo.                                                      *)
TypeOK ==
  /\ buf \in BufferRecord(Row, Producer)
  /\ buf.capacity = Capacity
  /\ buf.expected = Cardinality(Producer)
  /\ pc \in [Consumer -> {"idle", "waiting", "notified"}]
  /\ want \in [Consumer -> Nat]
  /\ offered \in [Producer -> Nat]
  /\ accepted \in Seq(Row)
  /\ served \in Seq(Row)

(* The deque never outgrows capacity_, so a slow client bounds the portal's *)
(* memory whatever the producers do.                                        *)
Bounded == Len(buf.q) <= Capacity

(* Until the request is cancelled the buffer neither loses, invents,        *)
(* duplicates nor reorders a row: what was enqueued is what was handed out  *)
(* followed by what is queued; after a cancel nothing is queued.            *)
Conserved ==
  /\ buf.served = Len(served)
  /\ IF buf.canceled THEN buf.q = <<>> ELSE accepted = served \o buf.q

(* No lost wake-up: a FetchChunk thread that waits un-notified has nothing  *)
(* to wait for yet -- no row, no cancel, not every producer done.           *)
NoLostWakeup == \A c \in Consumer : pc[c] = "waiting" => ~Ready(buf)

(* Once the request is cancelled no FetchChunk hands out another row, not   *)
(* even one pushed later by a producer that has not noticed.                *)
NothingServedAfterCancel == [][buf.canceled => served' = served]_vars

(* Without any timer, a FetchChunk that waits when the last producer        *)
(* reports done, or when the request is cancelled, returns.                 *)
ReleasedAtEnd ==
  \A c \in Consumer : (pc[c] # "idle" /\ IsFinal(buf)) ~> pc[c] = "idle"
=============================================================================
