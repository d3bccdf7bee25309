------------------------------- MODULE Portal -------------------------------
(***************************************************************************)
(* Several requests at the portal (NodeServer.cpp): SubmitQuery with its    *)
(* fan-out and the result cache, FetchChunk in its critical sections,       *)
(* CancelQuery, and the janitor with the snapshot it works from, over       *)
(* RequestRegistry.cpp.                                                     *)
(*                                                                          *)
(* By which ways rows reach the portal is Overlay's subject; here a node is *)
(* a producer that pushes its rows in chunks and the last one with done,    *)
(* and any peer may be refused or fail in the fan-out, whatever it pushes.  *)
(* A chunk may be given up, or come again.  Of the Abort calls that follow  *)
(* a cancel this module has the effect: a scan that breaks off and says     *)
(* done before its rows are all sent.                                       *)
(*                                                                          *)
(* One FetchChunk is under way per request, as in client_main.cpp and as    *)
(* the comment at NodeServer.cpp:248 takes for granted; anybody who knows   *)
(* the id may cancel.  The cache is the plain list that QueryCache is       *)
(* shown to implement.  Time is one bit per request: idle says that         *)
(* last_fetch_at is older than request_ttl_secs.  recordFetch writes it     *)
(* without the lock the janitor reads it under; the read gives the old or   *)
(* the new value, as it does when one comes before the other.  The pace of  *)
(* ChunkSizing is another such abstraction: an average that moves slower    *)
(* than here, where any fetch may change it.                                *)
(***************************************************************************)
EXTENDS BufferOps, LruOps, ChunkSizing

CONSTANTS Node,          \* all nodes, the portal among them
          Root,          \* the portal
          Peers,         \* the portal's peer_clients_
          Query,         \* QuerySpecs that are told apart
          Rows,          \* Rows[q][p]: how many rows of p's partition match q
          Capacity,      \* chunk_buffer_cap
          CacheCapacity, CacheMaxRows,
          Losses,        \* may a chunk be given up after its last try?
          Abandons,      \* may clients stop fetching, for request_ttl_secs or for good?
          MaxAgain,      \* bound: chunks of a node that come again
          MaxRequests    \* bound: SubmitQuery calls

ASSUME PortalConstants ==
  /\ IsFiniteSet(Node) /\ Root \in Node /\ Peers \subseteq Node \ {Root}
  /\ Query # {} /\ Losses \in BOOLEAN /\ Abandons \in BOOLEAN /\ MaxAgain \in Nat
  /\ Rows \in [Query -> [Node -> Nat]]
  /\ Capacity \in Nat /\ CacheCapacity \in Nat /\ CacheMaxRows \in Nat
  /\ MaxRequests \in Nat

VARIABLES issued,      \* req_counter_: requests are numbered 1..issued
          req,         \* per request: its RequestState
          registered,  \* registry_.reqs_
          work,        \* per request and node: how far executeLocal is
          cache,       \* cache_, most recent first
          fetch,       \* per request: its SubmitQuery, then the client and its
                       \* FetchChunk
          janitor,     \* the requests of the snapshot, and the one it is at
          told,        \* history: the rows of the answers to a client that may be
                       \* told final and not canceled
          raced,       \* history: cancelled between isCanceled and isFinal
          hist         \* history, per request: the source of its rows (the request
                       \* that was executed for them), the peers marked done early,
                       \* the rows that missed the buffer, those that came again

vars == <<issued, req, registered, work, cache, fetch, janitor, told, raced, hist>>
portalVars == <<issued, cache, janitor, raced, hist>>

Rid == 1..MaxRequests
Issued == 1..issued
NoRid == 0
CacheProducer == "__cache__"
Row == Query \X Node \X Nat
RowsOf(q, p) == {<<q, p, i>> : i \in 1..Rows[q][p]}
Result(q) == UNION {RowsOf(q, p) : p \in Node}

Blank == [query |-> CHOOSE q \in Query : TRUE, buf |-> NewBuffer(Capacity, 0),
          collect |-> FALSE, accum |-> <<>>, idle |-> FALSE, chunk |-> InitialChunk]

(* pc: "submit" while SubmitQuery has peers left to ask, "idle" between      *)
(* fetches, in FetchChunk, "over" after a final answer or "left"; a client  *)
(* asks for as many rows as the answer before suggested, first for 0.  late *)
(* is history: the buffer was cancelled when this FetchChunk began.         *)
NoFetch == [pc |-> "none", rows |-> <<>>, canceled |-> FALSE, late |-> FALSE, want |-> 0,
            ask |-> {}]

WorkAt(at) == [p \in Node |-> [sent |-> 0, at |-> at, again |-> 0]]
NoWork == WorkAt("none")

NoHist == [source |-> NoRid, early |-> {}, missed |-> {}, again |-> {}]

Init ==
  /\ issued = 0
  /\ req = [r \in Rid |-> Blank]
  /\ registered = {}
  /\ work = [r \in Rid |-> NoWork]
  /\ cache = <<>>
  /\ fetch = [r \in Rid |-> NoFetch]
  /\ janitor = [todo |-> {}, at |-> NoRid]
  /\ told = [r \in Rid |-> <<>>]
  /\ raced = {}
  /\ hist = [r \in Rid |-> NoHist]

(* The rows pushRows has no room for.  Every caller drops them: PushChunk   *)
(* answers ok, executeLocal and SubmitQuery do not look at the count.       *)
Dropped(b, rows) == {rows[i] : i \in (Took(b, rows) + 1)..Len(rows)}

(* A cached result is replayed through a buffer of its own that one virtual *)
(* producer has filled and closed.                                          *)
CacheBuffer == MarkProducerStarted(NewBuffer(Capacity, 1), CacheProducer)
Replay(rows) == MarkProducerDone(PushRows(CacheBuffer, rows), CacheProducer)

Hits(q) == {i \in DOMAIN cache : cache[i].spec = q}

(* SubmitQuery: from the cache, or create and begin to fan out. *)
Submit(q) ==
  LET r == issued + 1
  IN  /\ r \in Rid
      /\ issued' = r
      /\ registered' = registered \cup {r}
      /\ \/ \E i \in Hits(q) :
              /\ cache' = MovedToFront(cache, i, cache[i])
              /\ req' = [req EXCEPT ![r] = [Blank EXCEPT !.query = q,
                                                         !.buf = Replay(cache[i].rows)]]
              /\ fetch' = [fetch EXCEPT ![r].pc = "idle"]
              /\ hist' = [hist EXCEPT ![r].source = cache[i].source,
                                      ![r].missed = Dropped(CacheBuffer, cache[i].rows)]
              /\ UNCHANGED work
         \/ /\ Hits(q) = {}
            /\ req' = [req EXCEPT ![r] =
                 [Blank EXCEPT !.query = q, !.collect = TRUE,
                    !.buf = [NewBuffer(Capacity, Cardinality(Node)) EXCEPT !.started = Node]]]
            /\ work' = [work EXCEPT ![r] = WorkAt("scan")]
            /\ fetch' = [fetch EXCEPT ![r].pc = "submit", ![r].ask = Peers]
            /\ hist' = [hist EXCEPT ![r].source = r]
            /\ UNCHANGED cache
      /\ UNCHANGED <<janitor, told, raced>>

(* The fan-out loop: a peer that refuses (dup or loop: it is reached by     *)
(* another way and may be pushing already) or whose call fails is marked    *)
(* done early.                                                              *)
Forward(r, p) ==
  /\ fetch[r].pc = "submit" /\ p \in fetch[r].ask
  /\ fetch' = [fetch EXCEPT ![r].ask = @ \ {p}]
  /\ \/ UNCHANGED <<req, hist>>
     \/ /\ req' = [req EXCEPT ![r].buf = MarkProducerDone(@, p)]
        /\ hist' = [hist EXCEPT ![r].early = @ \cup {p}]
  /\ UNCHANGED <<issued, registered, work, cache, janitor, told, raced>>

(* Then the portal's own worker starts and the client is answered. *)
Accept(r) ==
  /\ fetch[r].pc = "submit" /\ fetch[r].ask = {}
  /\ fetch' = [fetch EXCEPT ![r].pc = "idle"]
  /\ UNCHANGED <<portalVars, req, registered, work, told>>

SubmitStep(r) == (\E p \in Peers : Forward(r, p)) \/ Accept(r)

-----------------------------------------------------------------------------
(* The nodes' pushes, as they reach the portal. *)

Chunk(r, p, from, n) == [i \in 1..n |-> <<req[r].query, p, from + i>>]

(* p's scan has a chunk of n rows.  A node that hears of the Abort breaks   *)
(* off its scan, and the chunk it has then is its last and says done; Abort *)
(* calls go out when the buffer has been cancelled, and may be lost.        *)
HasChunk(r, p, n, last) ==
  LET left == Rows[req[r].query][p] - work[r][p].sent
  IN  /\ work[r][p].at = "scan"
      /\ p = Root => fetch[r].pc # "submit"
      /\ n <= left /\ (n > 0 \/ last)
      /\ last => n = left \/ req[r].buf.canceled

(* The chunk reaches the buffer: PushChunk, or executeLocal for the         *)
(* portal's own.                                                            *)
Deposit(r, p, n, last) ==
  LET new == Chunk(r, p, work[r][p].sent, n)
  IN  /\ HasChunk(r, p, n, last)
      /\ work' = [work EXCEPT ![r][p].sent = @ + n,
                              ![r][p].at = IF last THEN "mark" ELSE "scan"]
      /\ req' = [req EXCEPT ![r].buf = PushRows(@, new)]
      /\ hist' = [hist EXCEPT ![r].missed = @ \cup Dropped(req[r].buf, new)]
      /\ UNCHANGED <<issued, registered, cache, fetch, janitor, told, raced>>

(* The chunk has failed five times, on whatever hop of its way: executeLocal *)
(* goes on with the next.                                                   *)
GiveUp(r, p, n, last) ==
  /\ Losses /\ p # Root /\ HasChunk(r, p, n, last)
  /\ work' = [work EXCEPT ![r][p].sent = @ + n,
                          ![r][p].at = IF last THEN "done" ELSE "scan"]
  /\ hist' = [hist EXCEPT ![r].missed =
                @ \cup Range(Chunk(r, p, work[r][p].sent, n))]
  /\ UNCHANGED <<issued, req, registered, cache, fetch, janitor, told, raced>>

(* The second section of the handler of a last chunk. *)
Mark(r, p) ==
  /\ work[r][p].at = "mark"
  /\ work' = [work EXCEPT ![r][p].at = "done"]
  /\ req' = [req EXCEPT ![r].buf = MarkProducerDone(@, p)]
  /\ UNCHANGED <<issued, registered, cache, fetch, janitor, told, raced, hist>>

(* Rows that were sent or given up before, after the first `from`: another  *)
(* try after a lost answer, or a try that lands when its sender has stopped *)
(* waiting for it.  A cancelled buffer turns it away.                       *)
Again(r, p, from, n, done) ==
  LET w   == work[r][p]
      new == Chunk(r, p, from, n)
  IN  /\ p # Root /\ w.again < MaxAgain /\ ~req[r].buf.canceled
      /\ from + n <= w.sent /\ (n > 0 \/ done)
      /\ done => from + n = w.sent /\ w.at \in {"mark", "done"}
      /\ work' = [work EXCEPT ![r][p].again = @ + 1,
                              ![r][p].at = IF done THEN "mark" ELSE @]
      /\ req' = [req EXCEPT ![r].buf = PushRows(@, new)]
      /\ hist' = [hist EXCEPT ![r].again = @ \cup Range(new)]
      /\ UNCHANGED <<issued, registered, cache, fetch, janitor, told, raced>>

(* The last reader of a RequestState that left the registry is gone: what   *)
(* is still pushed finds no request.                                        *)
Forget(r) ==
  /\ req' = [req EXCEPT ![r] = [Blank EXCEPT !.query = req[r].query]]
  /\ work' = [work EXCEPT ![r] = NoWork]

-----------------------------------------------------------------------------
(* The client, and FetchChunk step by step. *)

(* registry_.get, and recordFetch when there is something to fetch. *)
Ask(r) ==
  /\ fetch[r].pc = "idle"
  /\ IF r \in registered
       THEN /\ fetch' = [fetch EXCEPT ![r] =
                 [NoFetch EXCEPT !.pc = "popping", !.late = req[r].buf.canceled,
                                 !.want = fetch[r].want]]
            /\ \E pace \in Pace :
                 req' = [req EXCEPT ![r].idle = FALSE, ![r].chunk = Suggestion(@, pace)]
            /\ UNCHANGED <<work, told>>
       ELSE /\ fetch' = [fetch EXCEPT ![r] = [NoFetch EXCEPT !.pc = "over", !.canceled = TRUE]]
            /\ Forget(r)
            /\ told' = [told EXCEPT ![r] = <<>>]
  /\ UNCHANGED <<portalVars, registered>>

(* Mutant: no limit to what is accumulated. *)
CollectedAlways(st, rows) == IF st.collect THEN [st EXCEPT !.accum = @ \o rows] ELSE st

(* The rows shadow-accumulated for the cache while they are few enough. *)
Collected(st, rows) ==
  IF ~st.collect THEN st
  ELSE IF Len(st.accum) + Len(rows) <= CacheMaxRows
    THEN [st EXCEPT !.accum = @ \o rows]
    ELSE [st EXCEPT !.collect = FALSE, !.accum = <<>>]

(* popUpTo, woken or timed out, with whatever is there. *)
Pop(r) ==
  LET max  == Asked(fetch[r].want, req[r].chunk)
      rows == Popped(req[r].buf, max)
  IN  /\ fetch[r].pc = "popping"
      /\ req' = [req EXCEPT ![r] = [Collected(req[r], rows) EXCEPT !.buf = PopUpTo(@, max)]]
      /\ fetch' = [fetch EXCEPT ![r].pc = "popped", ![r].rows = rows, ![r].want = 0]
      /\ UNCHANGED <<portalVars, work, registered, told>>

ReadCanceled(r) ==
  /\ fetch[r].pc = "popped"
  /\ fetch' = [fetch EXCEPT ![r].pc = "flagged", ![r].canceled = req[r].buf.canceled]
  /\ UNCHANGED <<portalVars, work, req, registered, told>>

Answer(r) == told' = [told EXCEPT ![r] = @ \o fetch[r].rows]

(* isFinal; an answer that is not final goes out at once. *)
ReadFinal(r) ==
  /\ fetch[r].pc = "flagged"
  /\ IF IsFinal(req[r].buf)
       THEN fetch' = [fetch EXCEPT ![r].pc = "final"] /\ UNCHANGED told
       ELSE /\ fetch' = [fetch EXCEPT ![r] = [NoFetch EXCEPT !.pc = "idle", !.want = req[r].chunk,
                                                           !.late = fetch[r].late]]
            /\ Answer(r)
  /\ UNCHANGED <<portalVars, work, req, registered>>

(* Mutant: put does not look for an entry of the query first. *)
CachePutTwin(r) ==
  IF req[r].collect /\ ~fetch[r].canceled
    THEN cache' = PushedFront(cache, [spec |-> req[r].query, rows |-> req[r].accum,
                                    source |-> r], CacheCapacity)
    ELSE UNCHANGED cache

(* cache_.put of what was collected, unless the answer says canceled. *)
CachePut(r) ==
  LET st    == req[r]
      entry == [spec |-> st.query, rows |-> st.accum, source |-> r]
  IN  IF st.collect /\ ~fetch[r].canceled /\ CacheCapacity > 0 /\ Len(st.accum) <= CacheMaxRows
        THEN IF Hits(st.query) = {}
               THEN cache' = PushedFront(cache, entry, CacheCapacity)
               ELSE \E i \in Hits(st.query) : cache' = MovedToFront(cache, i, entry)
        ELSE UNCHANGED cache

(* registry_.erase follows cache_.put at once: nobody can tell the request  *)
(* that has stored its result from one that is gone.  Then the answer.      *)
Finish(r) ==
  /\ fetch[r].pc = "final"
  /\ CachePut(r)
  /\ registered' = registered \ {r}
  /\ fetch' = [fetch EXCEPT ![r].pc = "over", ![r].rows = <<>>]
  /\ Forget(r)
  /\ IF fetch[r].canceled THEN told' = [told EXCEPT ![r] = <<>>] ELSE Answer(r)
  /\ UNCHANGED <<issued, janitor, raced, hist>>

(* The client stops asking, with or without a CancelQuery. *)
Leave(r) ==
  /\ Abandons
  /\ fetch[r].pc = "idle"
  /\ fetch' = [fetch EXCEPT ![r].pc = "left"]
  /\ IF r \in registered THEN UNCHANGED <<req, work>> ELSE Forget(r)
  /\ told' = [told EXCEPT ![r] = <<>>]
  /\ UNCHANGED <<portalVars, registered>>

FetchStep(r) ==
  \/ Ask(r)
  \/ Pop(r)
  \/ ReadCanceled(r)
  \/ ReadFinal(r)
  \/ Finish(r)

-----------------------------------------------------------------------------
(* Cancelling. *)

CancelRequest(r) ==
  /\ req' = [req EXCEPT ![r].buf = CancelBuffer(@)]
  /\ raced' = IF fetch[r].pc = "flagged" /\ ~fetch[r].canceled THEN raced \cup {r} ELSE raced

(* CancelQuery finds the request or does nothing that matters to it.  Who   *)
(* calls it has the id from SubmitQuery's answer.                           *)
CancelQuery(r) ==
  /\ r \in registered /\ fetch[r].pc # "submit"
  /\ CancelRequest(r)
  /\ UNCHANGED <<issued, registered, work, cache, fetch, janitor, told, hist>>

(* Time passes without a fetch. *)
Age(r) ==
  /\ Abandons
  /\ r \in registered /\ fetch[r].pc \in {"submit", "idle", "left"}
  /\ req' = [req EXCEPT ![r].idle = TRUE]
  /\ UNCHANGED <<portalVars, work, registered, fetch, told>>

(* Mutant: collectExpired compares the wrong way round. *)
CollectActive ==
  /\ janitor = [todo |-> {}, at |-> NoRid]
  /\ janitor' = [janitor EXCEPT !.todo = {r \in registered : ~req[r].idle}]
  /\ UNCHANGED <<issued, req, registered, work, cache, fetch, told, raced, hist>>

(* janitorLoop: collectExpired ... *)
CollectExpired ==
  /\ janitor = [todo |-> {}, at |-> NoRid]
  /\ janitor' = [janitor EXCEPT !.todo = {r \in registered : req[r].idle}]
  /\ UNCHANGED <<issued, req, registered, work, cache, fetch, told, raced, hist>>

(* Mutant: the janitor leaves the buffer alone. *)
JanitorNoCancel(r) ==
  /\ r \in janitor.todo /\ janitor.at = NoRid
  /\ janitor' = [janitor EXCEPT !.at = r]
  /\ UNCHANGED <<issued, req, registered, work, cache, fetch, told, raced, hist>>

(* ... then, for one after the other, whatever its client did since: cancel *)
(* (of no consequence when the request has left the registry meanwhile) ... *)
JanitorCancel(r) ==
  /\ r \in janitor.todo /\ janitor.at = NoRid
  /\ janitor' = [janitor EXCEPT !.at = r]
  /\ IF r \in registered THEN CancelRequest(r) ELSE UNCHANGED <<req, raced>>
  /\ UNCHANGED <<issued, registered, work, cache, fetch, told, hist>>

(* ... and, after the Abort calls, erase. *)
JanitorErase ==
  /\ janitor.at # NoRid
  /\ registered' = registered \ {janitor.at}
  /\ janitor' = [todo |-> janitor.todo \ {janitor.at}, at |-> NoRid]
  /\ IF fetch[janitor.at].pc \in {"left", "over"}
       THEN Forget(janitor.at) ELSE UNCHANGED <<req, work>>
  /\ UNCHANGED <<issued, cache, fetch, told, raced, hist>>

JanitorStep == CollectExpired \/ (\E r \in Rid : JanitorCancel(r)) \/ JanitorErase

-----------------------------------------------------------------------------

Produce(r, p) ==
  \/ \E n \in 0..Rows[req[r].query][p], last \in BOOLEAN :
       Deposit(r, p, n, last) \/ GiveUp(r, p, n, last)
  \/ Mark(r, p)

Repeat(r, p) ==
  \E from, n \in 0..Rows[req[r].query][p], done \in BOOLEAN : Again(r, p, from, n, done)

Next ==
  \/ \E q \in Query : Submit(q)
  \/ \E r \in Issued :
       \/ SubmitStep(r)
       \/ \E p \in Node : Produce(r, p) \/ Repeat(r, p)
       \/ FetchStep(r) \/ Leave(r) \/ CancelQuery(r) \/ Age(r)
  \/ JanitorStep

(* The nodes finish their scans, SubmitQuery comes to its end, a client     *)
(* that does not leave goes on asking, its handler and the janitor run, and *)
(* time passes.  Nothing is assumed of cancels or of chunks coming again.   *)
Fairness ==
  /\ \A r \in Rid : /\ \A p \in Node : WF_vars(Produce(r, p))
                    /\ WF_vars(SubmitStep(r))
                    /\ WF_vars(FetchStep(r))
                    /\ WF_vars(Age(r))
  /\ WF_vars(JanitorStep)

Spec == Init /\ [][Next]_vars /\ Fairness

-----------------------------------------------------------------------------

Request == [query : Query, buf : BufferRecord(Row, Node \cup {CacheProducer}),
            collect : BOOLEAN, accum : Seq(Row), idle : BOOLEAN,
            chunk : 0..(Word - 1)]
Fetch == [pc : {"none", "submit", "idle", "popping", "popped", "flagged", "final", "over",
                "left"},
          rows : Seq(Row), canceled : BOOLEAN, late : BOOLEAN, want : 0..(Word - 1),
          ask : SUBSET Peers]
Work == [Node -> [sent : Nat, at : {"none", "scan", "mark", "done"}, again : Nat]]
CacheEntry == [spec : Query, rows : Seq(Row), source : Rid]
History == [source : Rid \cup {NoRid}, early : SUBSET Peers,
            missed : SUBSET Row, again : SUBSET Row]

(* Types of the portal's state; the cache has one entry per query and its   *)
(* entries and the accumulated rows keep to cache_max_rows.                 *)
TypeOK ==
  /\ issued \in 0..MaxRequests
  /\ req \in [Rid -> Request] /\ \A r \in Rid : Len(req[r].accum) <= CacheMaxRows
  /\ registered \subseteq Issued
  /\ work \in [Rid -> Work]
  /\ cache \in Seq(CacheEntry) /\ Len(cache) <= CacheCapacity
  /\ \A i, j \in DOMAIN cache : cache[i].spec = cache[j].spec => i = j
  /\ fetch \in [Rid -> Fetch]
  /\ janitor \in [todo : SUBSET Issued, at : Issued \cup {NoRid}]
  /\ told \in [Rid -> Seq(Row)]
  /\ raced \subseteq Issued
  /\ hist \in [Rid -> History]

Given(r) == {told[r][i] : i \in DOMAIN told[r]}

(* The rows of r's query that its execution may leave out: those that       *)
(* missed its buffer, and those of the peers marked done early.             *)
Lost(r) == hist[r].missed \cup UNION {RowsOf(req[r].query, p) : p \in hist[r].early}

(* A client that is told final and not canceled was given the rows of its   *)
(* query and no others, each once, whether its request was executed or      *)
(* replayed from the cache.  These are the ways in which one can be left    *)
(* out: SubmitQuery marked its node done early, pushRows had no room for    *)
(* it, its chunk was given up, or the request was cancelled just between    *)
(* the reading of the two flags of an answer.  A row told twice was pushed  *)
(* again.  An execution that is cached that way hands it on to all that     *)
(* replay it.                                                               *)
FinalIsComplete ==
  \A r \in Issued :
    fetch[r].pc = "over" /\ ~fetch[r].canceled =>
      LET s == hist[r].source
      IN  /\ Given(r) \subseteq Result(req[r].query)
          /\ \A i, j \in DOMAIN told[r] :
               told[r][i] = told[r][j] => i = j \/ told[r][i] \in hist[s].again
          /\ \/ raced \cap {r, s} # {}
             \/ Result(req[r].query) \subseteq Given(r) \cup Lost(s) \cup Lost(r)

(* Cancelled stays cancelled: a FetchChunk that comes after the cancel      *)
(* carries no row, says so, and is the last one.                            *)
CancelSticks ==
  \A r \in Issued :
    fetch[r].late => /\ fetch[r].rows = <<>> /\ fetch[r].pc # "idle"
                     /\ fetch[r].pc \in {"flagged", "final", "over"} => fetch[r].canceled

(* A fetch that finds rows takes some of them, and never more than          *)
(* max_chunk_rows: at whatever paces the client has fetched before and      *)
(* whatever it asks for, the suggestion does not sink to 0, at which the    *)
(* client would go round its loop for ever without draining anything.       *)
FetchTakesSomething ==
  [][\A r \in Issued :
       fetch[r].pc = "popping" /\ fetch'[r].pc = "popped" /\ req[r].buf.q # <<>> =>
         Len(fetch'[r].rows) \in 1..MaxChunk]_vars

(* Neither FetchChunk nor the janitor takes a request out of the registry   *)
(* that is still running: a client that asks for it later would be told it  *)
(* was cancelled when it was not, and its rows would be lost.  Between      *)
(* isFinal and erase in FetchChunk only rows of a peer that was marked done *)
(* early, or rows that come again, can still reach the buffer.              *)
ErasedOnlyWhenFinal ==
  [][\A r \in registered \ registered' :
       LET b == req[r].buf
       IN  \/ IsFinal(b)
           \/ AllDone(b) /\ \A i \in DOMAIN b.q :
                              b.q[i][2] \in hist[r].early \/ b.q[i] \in hist[r].again]_vars

(* Every request leaves the registry, and its buffer with it: drained by    *)
(* its client, cancelled, or abandoned and found by the janitor.  The one   *)
(* that may stay, as long as its client keeps asking, is one that waits for *)
(* a node whose last chunk was given up.                                    *)
SessionsEnd ==
  \A r \in Rid :
    (r \in registered) ~> \/ r \notin registered
                          \/ \E p \in Node : work[r][p].at = "done" /\ p \notin req[r].buf.done
=============================================================================
