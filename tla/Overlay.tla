------------------------------ MODULE Overlay ------------------------------
(***************************************************************************)
(* One query through the whole system: the fan-out (Fanout), executeLocal   *)
(* at every node that accepted it, PushChunk relayed hop by hop along the   *)
(* routes to the portal, the portal's buffer (BufferOps) and the client     *)
(* that polls FetchChunk until final = true (client_main.cpp).              *)
(*                                                                          *)
(* A chunk in transit is a call of PushChunk nested in the calls of the     *)
(* hops before it: the producer blocks until the answer comes back, or      *)
(* until a deadline on the way expires (10 s, PeerClient.cpp), which the    *)
(* producer sees as a failed call while the chunk goes on or is lost.       *)
(* A failed call is repeated, five times in all, with the same chunk.       *)
(*                                                                          *)
(* The portal's handler takes three locks one after another: look the       *)
(* request up, push the rows, mark the producer done.  Nobody cancels the   *)
(* query here and no ttl expires; Portal has those.                         *)
(***************************************************************************)
EXTENDS BufferOps

CONSTANTS Node, Portal, Peers, Dead, DeadlinesExpire,  \* as in Fanout
          Rows,          \* Rows[n]: how many rows of n's partition match
          ChunkRows,     \* initial_chunk_rows: the rows of a full chunk
          Capacity,      \* chunk_buffer_cap
          MaxFetch,      \* the rows a FetchChunk may carry
          PushFailures,  \* may a PushChunk fail or outlive its deadline?
          Tries          \* how often executeLocal sends a chunk (5 in the code)

ASSUME OverlayConstants ==
  /\ IsFiniteSet(Node) /\ Portal \in Node
  /\ Peers \in [Node -> SUBSET Node] /\ Dead \subseteq Node \ {Portal}
  /\ DeadlinesExpire \in BOOLEAN /\ PushFailures \in BOOLEAN
  /\ Rows \in [Node -> Nat]
  /\ ChunkRows \in Nat \ {0}
  /\ Capacity \in Nat
  /\ MaxFetch \in Nat \ {0}
  /\ Tries \in Nat \ {0}

VARIABLES calls, pc, todo, callee, route, doneEarly, executed, joined, clock,
          buf,         \* the portal's ChunkBuffer of the request
          registered,  \* registry_ has the request
          work,        \* per executeLocal: the chunk it is at, the try, is it waiting?
          transit,     \* the PushChunk calls on their way or in the portal's handler
          client,      \* "polling", "popped": rows taken, not yet answered, or "finished"
          received,    \* the rows the client has printed, in order
          dropped      \* history: rows a full buffer did not take or executeLocal gave up on

F == INSTANCE Fanout

fanoutVars == <<calls, pc, todo, callee, route, doneEarly, executed, joined, clock>>
portalVars == <<buf, registered, client, received, dropped>>
vars == <<fanoutVars, portalVars, work, transit>>

Row == Node \X Nat
RowsOf(n) == {<<n, i>> : i \in 1..Rows[n]}
Result == UNION {RowsOf(n) : n \in Node}

(* QueryEngine::run hands its sink full chunks and ends with what is left,  *)
(* maybe nothing, and done = true.                                          *)
Chunks(n) == Rows[n] \div ChunkRows + 1

ChunkOf(n, seq) ==
  LET before == (seq - 1) * ChunkRows
  IN  [i \in 1..Lesser(ChunkRows, Rows[n] - before) |-> <<n, before + i>>]

IsLast(n, seq) == seq = Chunks(n)

Init ==
  /\ F!Init
  /\ buf = [NewBuffer(Capacity, Cardinality(Node)) EXCEPT !.started = Node]
  /\ registered = TRUE
  /\ work = [h \in {} |-> 0]
  /\ transit = {}
  /\ client = "polling"
  /\ received = <<>>
  /\ dropped = {}

(* A step of SubmitQuery or of a ForwardQuery.  The done marks the portal   *)
(* makes for refused peers go to its buffer, and a handler that accepts     *)
(* starts executeLocal.                                                     *)
FanoutStep ==
  /\ F!Next
  /\ buf' = [buf EXCEPT !.done = @ \cup (doneEarly' \ doneEarly)]
  /\ work' = [h \in executed' |-> IF h \in executed THEN work[h]
                                  ELSE [seq |-> 1, try |-> 1, waiting |-> FALSE]]
  /\ UNCHANGED <<registered, transit, client, received, dropped>>

(* executeLocal sends its next chunk to the upstream it was started with;   *)
(* the portal's own goes straight to the portal's buffer.                   *)
Send(h) ==
  LET w == work[h]
  IN  /\ ~w.waiting /\ w.seq <= Chunks(F!Self(h))
      /\ transit' = transit \cup
           {[exec |-> h, seq |-> w.seq, try |-> w.try, stage |-> "relay",
             at |-> IF h = F!Root THEN Portal ELSE F!From(h)]}
      /\ work' = [work EXCEPT ![h].waiting = TRUE]
      /\ UNCHANGED <<fanoutVars, portalVars>>

(* The answer to call m, ok or canceled: executeLocal goes on to the next   *)
(* chunk in both cases.  An answer after its deadline is nobody's.          *)
Answer(m) ==
  LET w == work[m.exec]
  IN  work' = IF w.waiting /\ w.seq = m.seq /\ w.try = m.try
                THEN [work EXCEPT ![m.exec] = [seq |-> w.seq + 1, try |-> 1, waiting |-> FALSE]]
                ELSE work

(* PushChunk at an inner node: to the upstream of the route it has now. *)
Relay(m) ==
  /\ m.stage = "relay" /\ m.at # Portal
  /\ IF F!Routed(m.at)
       THEN /\ transit' = (transit \ {m}) \cup {[m EXCEPT !.at = F!Upstream(m.at)]}
            /\ UNCHANGED work
       ELSE transit' = transit \ {m} /\ Answer(m)
  /\ UNCHANGED <<fanoutVars, portalVars>>

(* Mutant: the portal marks the producer done before it pushes the rows. *)
FindAndMark(m) ==
  /\ m.stage = "relay" /\ m.at = Portal
  /\ IF registered
       THEN /\ transit' = (transit \ {m}) \cup {[m EXCEPT !.stage = "found"]}
            /\ buf' = IF IsLast(F!Self(m.exec), m.seq)
                        THEN MarkProducerDone(buf, F!Self(m.exec)) ELSE buf
            /\ UNCHANGED work
       ELSE transit' = transit \ {m} /\ Answer(m) /\ UNCHANGED buf
  /\ UNCHANGED <<fanoutVars, registered, client, received, dropped>>

(* PushChunk at the portal: find the request ... *)
Find(m) ==
  /\ m.stage = "relay" /\ m.at = Portal
  /\ IF registered
       THEN /\ transit' = (transit \ {m}) \cup {[m EXCEPT !.stage = "found"]}
            /\ UNCHANGED work
       ELSE transit' = transit \ {m} /\ Answer(m)
  /\ UNCHANGED <<fanoutVars, portalVars>>

(* ... push its rows, as many as there is room for: the caller is told ok   *)
(* whatever was taken ...                                                   *)
Deposit(m) ==
  LET rows == ChunkOf(F!Self(m.exec), m.seq)
  IN  /\ m.stage = "found"
      /\ buf' = PushRows(buf, rows)
      /\ dropped' = dropped \cup {rows[i] : i \in (Enqueued(buf, rows) + 1)..Len(rows)}
      /\ transit' = (transit \ {m}) \cup {[m EXCEPT !.stage = "pushed"]}
      /\ UNCHANGED <<fanoutVars, registered, work, client, received>>

(* Mutant: a last chunk without rows is answered and otherwise ignored. *)
MarkWithRows(m) ==
  LET n == F!Self(m.exec)
  IN  /\ m.stage = "pushed"
      /\ buf' = IF IsLast(n, m.seq) /\ ChunkOf(n, m.seq) # <<>>
                  THEN MarkProducerDone(buf, n) ELSE buf
      /\ transit' = transit \ {m}
      /\ Answer(m)
      /\ UNCHANGED <<fanoutVars, registered, client, received, dropped>>

(* ... and mark its producer done after the last chunk. *)
Mark(m) ==
  /\ m.stage = "pushed"
  /\ buf' = IF IsLast(F!Self(m.exec), m.seq)
              THEN MarkProducerDone(buf, F!Self(m.exec)) ELSE buf
  /\ transit' = transit \ {m}
  /\ Answer(m)
  /\ UNCHANGED <<fanoutVars, registered, client, received, dropped>>

(* A call on the way is lost, with a connection or with its deadline. *)
Lose(m) ==
  /\ PushFailures /\ m.stage = "relay" /\ m.exec # F!Root
  /\ transit' = transit \ {m}
  /\ UNCHANGED <<fanoutVars, portalVars, work>>

(* Mutant: the tries are not counted. *)
PushFailsUncounted(h) ==
  /\ PushFailures /\ work[h].waiting /\ h # F!Root
  /\ work' = [work EXCEPT ![h].waiting = FALSE]
  /\ UNCHANGED <<fanoutVars, portalVars, transit>>

(* pushChunk returns without an answer; the call may still be on its way.   *)
(* After the last try executeLocal goes on with the next chunk.             *)
PushFails(h) ==
  LET w == work[h]
  IN  /\ PushFailures /\ w.waiting /\ h # F!Root
      /\ IF w.try < Tries
           THEN /\ work' = [work EXCEPT ![h] = [w EXCEPT !.try = @ + 1, !.waiting = FALSE]]
                /\ UNCHANGED dropped
           ELSE /\ work' = [work EXCEPT ![h] = [seq |-> w.seq + 1, try |-> 1, waiting |-> FALSE]]
                /\ LET rows == ChunkOf(F!Self(h), w.seq)
                   IN  dropped' = dropped \cup {rows[i] : i \in 1..Len(rows)}
      /\ UNCHANGED <<fanoutVars, buf, registered, client, received, transit>>

(* FetchChunk, once SubmitQuery has returned the request id.  When nothing  *)
(* is ready the blocking wait runs out and the client polls again: that     *)
(* changes nothing and is left out.                                         *)
Pop ==
  /\ client = "polling" /\ pc[F!Root] = "accepted" /\ Ready(buf)
  /\ received' = received \o Popped(buf, MaxFetch)
  /\ buf' = PopUpTo(buf, MaxFetch)
  /\ client' = "popped"
  /\ UNCHANGED <<fanoutVars, work, transit, registered, dropped>>

(* Mutant: final is computed from the done marks alone, not from the queue. *)
RespondOnDone ==
  /\ client = "popped"
  /\ client' = IF AllDone(buf) THEN "finished" ELSE "polling"
  /\ registered' = ~AllDone(buf)
  /\ UNCHANGED <<fanoutVars, work, transit, buf, received, dropped>>

(* It reads isFinal in a critical section of its own and forgets the        *)
(* request when it is; the client stops polling.                            *)
Respond ==
  /\ client = "popped"
  /\ client' = IF IsFinal(buf) THEN "finished" ELSE "polling"
  /\ registered' = ~IsFinal(buf)
  /\ UNCHANGED <<fanoutVars, work, transit, buf, received, dropped>>

ExecuteStep == \E h \in executed : Send(h) \/ PushFails(h)
PushStep == \E m \in transit : Relay(m) \/ Find(m) \/ Deposit(m) \/ Mark(m)
ClientStep == Pop \/ Respond

Next ==
  \/ FanoutStep
  \/ ExecuteStep
  \/ PushStep
  \/ \E m \in transit : Lose(m)
  \/ ClientStep

(* Handler and worker threads run, the client keeps polling. *)
Fairness ==
  /\ WF_vars(FanoutStep)
  /\ WF_vars(\E h \in executed : Send(h))
  /\ WF_vars(PushStep)
  /\ WF_vars(ClientStep)

Spec == Init /\ [][Next]_vars /\ Fairness

-----------------------------------------------------------------------------

Work == [seq : Nat, try : Nat, waiting : BOOLEAN]
Transit == [exec : Seq(Node), seq : Nat, try : Nat, at : Node,
            stage : {"relay", "found", "pushed"}]

(* Types of the workers, the calls between nodes, the portal's buffer and   *)
(* the client.                                                              *)
TypeOK ==
  /\ F!TypeOK
  /\ buf \in BufferRecord(Row, Node)
  /\ buf.capacity = Capacity
  /\ buf.expected = Cardinality(Node)
  /\ registered \in BOOLEAN
  /\ work \in [executed -> Work]
  /\ transit \subseteq Transit
  /\ client \in {"polling", "popped", "finished"}
  /\ received \in Seq(Row)
  /\ dropped \subseteq Row

(* Everything the portal has taken in, in order. *)
Arrived == received \o buf.q

(* No row reaches the portal's buffer twice, by whatever paths of the       *)
(* overlay's cycles its producer was asked and answers, and the rows of one *)
(* producer arrive in the order it emitted them, whatever the hops, the     *)
(* other producers and the clamped pushes do to them.                       *)
RowsOnceInOrder ==
  \A i, j \in 1..Len(Arrived) :
    (i < j /\ Arrived[i][1] = Arrived[j][1]) => Arrived[i][2] < Arrived[j][2]

(* A push that its caller gave up may still arrive, and nothing compares    *)
(* seq: its rows then arrive twice.  Each try brings a row at most once,    *)
(* though, whatever calls overtake each other, so the tries bound the       *)
(* copies.                                                                  *)
CopiesBounded ==
  \A k \in DOMAIN Arrived :
    Cardinality({i \in DOMAIN Arrived : Arrived[i] = Arrived[k]}) <= Tries

(* What the portal no longer waits for: the rows dropped on the way, and    *)
(* the rows of the peers that SubmitQuery marked done itself.               *)
WrittenOff == dropped \cup UNION {RowsOf(n) : n \in doneEarly}

(* The system is a query service that writes off those rows and no others.  *)
Service == INSTANCE QueryService WITH
  delivered <- {received[i] : i \in 1..Len(received)},
  writtenOff <- WrittenOff,
  finished <- client = "finished"

ImplementsService == Service!ServiceSpec

(* What the documents say of it: "nothing is dropped" on the way and a peer *)
(* that refuses is marked done "safely", so a client that is told final     *)
(* has every matching row of every node.                                    *)
CompleteAtFinal ==
  client = "finished" => Result \subseteq {received[i] : i \in 1..Len(received)}

(* With every node up, the client is told final in the end.                 *)
EventuallyFinal == <>(client = "finished")
=============================================================================
