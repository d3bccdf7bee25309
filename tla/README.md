# A TLA+ model of mini2

mini2 answers filter queries over NYC 311 records that are partitioned over nine
nodes. A query enters at node A, the portal, is forwarded along an overlay with
cycles, every node scans its partition and pushes rows back hop by hop, and the
client pulls them from a bounded buffer at the portal. This directory models that
system, checks it with TLC on small instances and proves the central facts with
TLAPS for all instances. Paths below are relative to the repository; without a
directory, `.cpp` files are in `cpp/src`.

## 1. The system

| component | state | operations | right when |
|---|---|---|---|
| `ChunkBuffer` (`ChunkBuffer.cpp`, Python `_BoundedBuffer`) | queue, capacity, producers done, cancelled, a condition variable | push, pop with a wait, mark started / done, cancel | bounded; loses, repeats and reorders no row; every waiter is woken; silent after a cancel |
| Fan-out (`SubmitQuery`, `ForwardQuery` in `NodeServer.cpp`) | `routes_`: per request the upstream peer | accept or refuse a forward, insert the route, recurse; at the portal, mark a peer that does not accept done | each reachable node executes once; the upstream pointers lead to the portal |
| Result path (`executeLocal`, `PushChunk`, `FetchChunk`) | the chunk a worker is at, calls in flight | send, relay, deposit, mark done, retry, pop | the client gets every matching row once, and `final` only after them |
| Portal sessions (`RequestRegistry.cpp`, `CancelQuery`, `janitorLoop`) | `reqs_`, time of the last fetch | create, get, erase, cancel, expire | a request ends; what is cancelled stays so; an active one is not expired |
| Result cache (`QueryCache.cpp`) | LRU list, hash index | get, put, evict | holds only complete results; list and index agree |
| Abort flood (`Abort`) | `canceled` of a route | mark, pass on | every executing node stops; the flood ends |
| Chunk size (`recordFetch`) | EWMA, suggestion | update | stays within its bounds |
| Query engine (`QueryEngine.cpp`, `Indices.cpp`, `partition_store.py`) | immutable indices | plan, intersect, emit | the rows a linear scan would give, in both languages |
| Configuration, CSV loading | read once | parse | unknown nodes and junk lines are refused |
| Client (`client_main.cpp`) | request id, wanted size | submit, poll, cancel | stops polling on `final` |

All nodes talk by synchronous gRPC calls with deadlines (5 s to forward and abort,
10 s to push); a handler runs in a thread of its own and calls on from inside.
Nothing is persisted. What makes the code hard: a query comes to one node by several
paths at once; a caller gives up on a handler that goes on; the critical sections of
one handler are separate (route look-up and insert, push and done mark, pop and
`isFinal`); the buffer is smaller than the result; a failed push is repeated.

## 2. The modules

| module | models | built on |
|---|---|---|
| `BufferOps` | each method of `ChunkBuffer` as an operator on a record | |
| `ChunkBuffer` | concurrent producers, consumers and cancellers on one buffer, with the condition variable | `BufferOps` |
| `Fanout` | one query spreading over any overlay | |
| `QueryService` | what the system promises a client | |
| `Overlay` | a whole query from submit to `final` | `Fanout`, `BufferOps`; implements `QueryService` |
| `Portal` | several requests: fetching, cancelling, expiring, caching | `BufferOps`, `LruOps`, `ChunkSizing` |
| `LruOps` | a list in order of use | |
| `LruMap` | what a result cache promises | `LruOps` |
| `QueryCache` | the list and the hash index of the cache | `LruOps`; implements `LruMap` |
| `AbortFlood` | calling a query off while it spreads: `CancelQuery`, the janitor, `Abort` | `Fanout` |
| `ChunkSizing` | how many rows a fetch takes (`recordFetch`) | |
| `Config` | what both loaders make of `topology.conf`, as operators | |
| `PartitionStore` | what both loaders make of a partition file, and what `partition_data.py` writes, as operators | |
| `Indices` | the four secondary indices and the lists they answer with | |
| `QueryEngine` | a file loaded and one query against it, in C++ and in Python | `Indices`, `PartitionStore` |
| `OpsProofs` | lemmas about the operators of `BufferOps` and `LruOps` | |
| `ChunkBufferProofs`, `FanoutProofs`, `AbortFloodProofs`, `OverlayProofs`, `PortalProofs`, `QueryCacheProofs`, `QueryEngineProofs` | theorems | `OpsProofs` |
| `MC*` | instances for TLC | |

**BufferOps, ChunkBuffer.** Every public method holds `mu_` throughout, so each is one
step. The wait in `popUpTo` is split: `EnterPop` takes the rows or starts to wait, a
notification moves a consumer from "waiting" to "notified", `Wake` re-evaluates the
predicate, `TimeOut` leaves with what is there (so does the Python wait, which has no
predicate, when it is notified). `accepted` and `served` are history.

**Fanout.** A handler of `ForwardQuery` is named by the chain of nodes that called it: that
chain is its visited list plus its own node, and no two handlers have the same one. Its
steps are the loop and dedupe look-up (`Check`), the insert (`Insert`), the calls
(`Call`, `Answered`, `CallFails`, `DeadlineExpires`) and `Accept`, which starts the worker.
The look-up and the insert are two steps because they are two critical sections.
`SubmitQuery` is the handler `<<A>>`, which alone marks refusing peers done. The hop TTL
is carried by the code and compared with nothing, so it is not in the model.

**AbortFlood.** A step of `Fanout` (`FanoutStep`), or one of calling the query off: `CancelQuery` makes the
calls and then marks the portal's own route (`CancelOwn`), the janitor (`Expire`) makes the same calls and marks
nothing, `Abort` marks the route of its node if there is one and passes the call on to every neighbour but the
sender. A call is a pair of nodes. The handler calls its neighbours in turn and waits up to 5 s for each, but goes
on whatever the wait brings, so its calls are under way at once; two calls between the same nodes are one. The
flag belongs to a `RouteState`, which a path stands for as in `Fanout`.

**Config.** Lines in, nodes, partitions and neighbours out, in both languages. `MCFanout` builds its overlay with it: the nodes
that start, the root, and the stubs each makes. A node starts when its partition is not one that `load` throws on (a missing
file is an empty partition) and all its neighbours are declared.

**Overlay.** `FanoutStep` is a step of `Fanout` with its effect on the portal's buffer and
workers. A worker (`work`) sends chunk after chunk (`Send`); a chunk in `transit` is the
nested call of `PushChunk`, at an inner node (`Relay`) or in the portal's handler, whose
three locks are three steps (`Find`, `Deposit`, `Mark`). `Answer` releases the worker only
if it still waits for that try; `PushFails` and `Lose` are the expired deadline and the lost
call. The client alternates `Pop` and `Respond`, the two critical sections of `FetchChunk`.
A poll that runs out of its block time changes nothing here and is left out.

**QueryService.** Rows are delivered at most once per row as a set, and `finished` only when
each row is delivered or written off. `Overlay` maps `writtenOff` to exactly the two places
where the code gives rows up: the tail a full buffer did not take or a chunk given up after
the last try (`dropped`), and the partitions of peers marked done by `SubmitQuery` itself
(`doneEarly`). The refinement therefore says that these are the *only* ways to miss a row.

**Portal.** One `FetchChunk` is `Ask` (look the request up, `recordFetch`), `Pop` (with the rows
collected for the cache), `ReadCanceled`, `ReadFinal` and `Finish` (store, erase, answer): the
critical sections of the handler in their order. `SubmitQuery` is `Submit` (a cache hit, or create), a `Forward` per peer and
`Accept`. `CancelQuery`, `Age` (no fetch for
`request_ttl_secs`) and the janitor -- `CollectExpired` takes a snapshot, `JanitorCancel` and
`JanitorErase` work through it -- come in between. By which way rows get to the portal is not repeated: a node
pushes its rows in chunks and the last with done, and after a cancel may break off early, which is
the effect of the `Abort` calls. What the ways can do to the portal is there: `Forward` may mark any peer done while its rows
are under way (it was refused as a duplicate, or its call failed), a chunk may be lost after its tries (`GiveUp`), and
what was sent or given up may come again, also after the done mark (`Again`), so that a buffer that was final may be so no longer. `told` and
`hist` are history: what the client was given, and which rows were marked done early, dropped, given up or pushed again.

**ChunkSizing.** The arithmetic of `recordFetch` in words of `Word` values, so that a suggestion of 0 wraps as in
`uint32_t`. The moving average of the time between fetches is reduced to the range it falls in (`Pace`), which any
fetch may change: more than the code's average can do. `Ask` of `Portal` moves the suggestion, `Pop` takes
`Asked` rows, and the client asks next for what it was told, as `client_main.cpp` does.

**PartitionStore.** A field has a value and a form ("plain", a date in ISO or American form, digits with something
behind, ...), and each language reads the forms its parsers read. `Column` finds a column by its names, `Takes`
says which lines are passed over, `Loads` which files are refused. Commas and quotes inside a line are not modelled.

**QueryCache, LruMap.** An iterator is the number of its list node, and `index` a set of (hash, node):
a multimap. `Found` is the loop over `equal_range`. A NaN corner makes a spec unequal to itself, so
such a query never hits. `LruMap` has no hashes; the refinement says that collisions and the fields
that are hashed make no difference. `Portal` uses the plain list.

**Indices, QueryEngine.** The table is what loading a file gives; row ids are positions from 1. `Plan`
asks the indices and ends the query when one answers nothing; `Seed` and `Intersect` go through the
lists, smallest first; `Emit` is an iteration of the loop with its poll, its exact test of the box and
`emit_one`; `Flush` is the last call of the sink. `code` selects the language where the two differ: a
row outside the box (`Skip`) and a full chunk at the row limit (`Take`). `AnswerRows` is the linear scan
that the Python engine still has as `force_linear`, without the rows at (0, 0), which the grid leaves out
on purpose: with them, a box around (0, 0) gives fewer rows than the linear scan.

## 3. What TLC checks

| run | instance | shows |
|---|---|---|
| `buffer` | 2 producers of 2 rows, 2 consumers, capacity 3 | all of `ChunkBuffer`'s properties |
| `fanout` | `config/topology.conf` without the leaves F, H, I (they are asked and answer as C does), read by `Config`; D down, no deadline expires; a cancel and the janitor at any time after the answer | each node with a way past D executes, exactly once; a route is never replaced; the pointers lead to A; a live peer that the portal marks done has its rows' way by another peer; every scan that was started gets its flag set: the portal's own too when it is the client who cancels, not when it is the janitor |
| `abort_storm` | the same, G down instead, so that the C++ nodes B-D-E are the only cycle | **violation**: the `Abort` calls never end |
| `overlay` | the cycle A-B-E-G, two rows at E, one at G, chunks of one row, capacity 2, no failures | rows arrive once and in each producer's order; `QueryService` is implemented; the client is told `final` |
| `portal` | two requests for one query, one row at a peer that may be marked done early, cache of two; clients stay and no push fails | told `final` and not cancelled means every row once, executed or replayed, but those of the peer marked done early |
| `sessions` | one request, two rows at a peer that may be marked done early, lose chunks and send one again; clients may leave; chunk sizes 0 at first and then 1 to 2 in words of 8, buffer of two, `cache_max_rows` 1 | `final` means every row but those marked, dropped or given up; nothing is erased while it runs; it ends however its client behaves; a fetch that finds rows takes some, at any pace; a fetch after a cancel brings no row, says so and is the last |
| `query_cache` | eight specs on two hash values, capacity 2 | list and index agree; `LruMap` is implemented |
| `query_engine` | no file, the files of three rows of four kinds with the line ends of Unix and those of two rows as the script writes them, a raw dump with both line ends, a file with odd columns; 120 queries, chunks of two, poll every two rows, both languages | what is sent is a prefix of the linear scan's answer, and all of it unless cancelled (C++ boxes excepted), and is true to the plan (`PlanFollowed`); a cancel is heard at the next poll; every line that the node can read and that matches has its row sent, and no other (C++ boxes, and columns that C++ misplaces, excepted) |
| `overlay_failures` | A-B, three rows in chunks of two, failing and late calls, 2 tries | `QueryService` is still implemented; a row arrives at most as often as its chunk was tried |
| `overlay_full_buffer` | A-B, capacity 1 | **violation**: the tail of a chunk is lost |
| `engine_geo` | as `query_engine` | **violation**: a C++ box query ends at the first row outside the box |
| `load_crlf` | as `query_engine` | **violation**: a C++ node answers no complaint query from a file of the script |

Bounds. In `ChunkBuffer`, `MaxRows`, `MaxChunk` and `MaxFetch`: two producers of two rows each
overflow a buffer of three, and two consumers are enough to lose a race for a row. `Fanout` and
`AbortFlood` have no bound: paths are finite, and so are pairs of nodes. In `Overlay`, three rows against a capacity of
two clamp a push, one-row chunks give a producer several chunks and the empty last one, and
two tries instead of five let each of "failed and repeated", "late and repeated" and "given up"
happen. In `Portal`,
`MaxRequests`: independent requests multiply, and only through the cache does one touch another, so two
requests have one row and no failures (`Losses`, `Abandons` FALSE, `MaxAgain` 0), and one request has the two rows that overflow `cache_max_rows`,
and all of the failures; one chunk that comes again (`MaxAgain`) fills the buffer so that the next is clamped, and comes before or
after the done mark, between `isFinal` and `erase` too. The queries of `query_engine` give each predicate a value, none and, for dates, the
open and the inverted window; the rows lie in the box, in its cells but outside it, on its corner and
nowhere, on both sides of 0; two polls fall into three rows.
The raw dump has a line of each kind that is passed over or misread. Words of 8 let the suggestion wrap with the
smallest sizes; the sizes of `portal` are all 1, its subject being two requests. `CHECK_DEADLOCK FALSE` stands where a
query ends.

Fairness. `AbortFlood`: `Fanout`'s steps, the last step of `CancelQuery`, and each `Abort` call -- a
call to a live node reaches its handler in its own time, whatever happens elsewhere. `Fanout` and `Overlay`: weak fairness of the handlers, the workers, the portal's
handler and the polling client -- threads run and the client's loop has no other exit. No
fairness on deadlines, lost calls or dead nodes. `Portal`: nodes finish
their scans, though what they send may be lost, `SubmitQuery` returns (each of its calls has a deadline), a client that does not leave asks again, its handler and the janitor run, and time passes;
nothing is assumed of cancels or of chunks that come again. `ChunkBuffer`: weak fairness of a *notified* consumer only, so `ReleasedAtEnd` shows that wake-ups do the work, not the timer.

### What the violations say

* `abort_storm`: `Abort` has no visited list and does not look whether the route was marked before. B tells D,
  D tells E, E tells B, and so on. The 5 s deadlines free the callers, which wait in a chain, and stop no
  handler. G is down in the run because it is a Python node whose pool of 16 threads the model does not have:
  the cycle B-D-E is all C++. `docs/REPORT.md:91` counts on "at most diameter-1 hops". That a cancel takes seconds to
  drain was measured (`docs/DESIGN_RATIONALE.md:213`) and put down to other causes; chains of nested
  calls that wait 5 s would fit as well.
* `load_crlf`: `csv.writer` ends lines in CR LF, `std::getline` leaves the CR, and `complaint_type` is the last column.
  In C++ every complaint is empty then; Python splits its lines with the `csv` module. `docs/DEMO_GUIDE.md:63`
  demonstrates a complaint query.
* `engine_geo`: `emit_one` returns false for "enough rows" and for "not in the box", and the loop
  breaks on false (`QueryEngine.cpp:144` and `:201`). Python returns true for the latter.
* `overlay_full_buffer`: `PushChunk` answers `ok` with a delay hint; `executeLocal` leaves its
  loop on `ok`. The unsent tail is not kept.

A repeated push whose first copy did arrive duplicates its rows (`seq` is never compared). No
document promises otherwise, so `RowsOnceInOrder` is checked without push failures only; with them `CopiesBounded` says
that the tries bound the copies.

More of the same kind, not runs of their own:

* With expired deadlines a node can execute twice: the dedupe look-up and the insert are separate critical sections.
  When A's call to B is slow and given up, A goes on to G, and E is asked by B and by G at the same time; both
  look-ups find nothing. `AtMostOneExecution` is therefore checked, and proved, without expired deadlines.
* On the cycle A-B-G, A asks B, B asks G, G accepts; when A then asks G it is told "dup" and marks G done, although
  G's worker is still sending rows via B, and `final` can overtake them (`NodeServer.cpp:214` calls this "coarse-grained
  but safe"). The early mark is set on every query the shipped topology executes, whose A-B-E-G is such a cycle; when
  `final` overtakes, the answer is not cancelled, rows are missing, and what was collected becomes the cached result of the query. `writtenOff` of the refinement
  counts these rows (`doneEarly`), and `FinalIsComplete` excepts them, in the request that replays them too: without either TLC finds the case.
* Rows of such a peer, or a repeated chunk, that come between `isFinal` and `erase` of the last `FetchChunk` are acknowledged and go
  with the buffer: what `ErasedOnlyWhenFinal` allows.
* With expired deadlines a forward can come after the `Abort` of its request: the node finds no route to mark and later
  executes a cancelled query. `CancelHeard` is checked without.
* The janitor does not mark the portal's own route, against `docs/ARCHITECTURE.md:183` ("canceled exactly the same way").
  On a cycle through the portal the flood comes back and does; on a tree, as with B down here, the portal's scan goes on in vain.
  `CancelHeard` claims the portal's own scan for `CancelQuery` only.
* `docs/ARCHITECTURE.md:179-180` lets a cancelled scan stop "at the next chunk boundary", which is 512 rows at first; the loop polls every 1024 rows
  (as `docs/MINI2_EXPLAINED.md:59` says), and whether a chunk is full does not matter to it. `CancelIsHeard` states the poll.
* A cancel that falls between `isCanceled` and `isFinal` of one `FetchChunk` makes the answer final and not cancelled,
  and the rows collected so far become the cached result of the query: another exception (`raced`) that `FinalIsComplete`
  names; without it TLC finds the case.
* A request with a dead producer that is still polled never ends: `recordFetch` renews `last_fetch_at`, so the ttl of
  which `docs/DESIGN_RATIONALE.md:130` speaks does not run out. `SessionsEnd` assumes nodes that finish and excepts the request that
  waits for a last chunk that was given up, which is such a one.
* `record_fetch` of `node_server.py` lacks the clamps after the branches (the mutant `SuggestionUnclamped`): a suggestion that
  starts at 0 stays there while the pace is steady.
* `parseYmd` makes a number that is no date of "MM/DD/YYYY" (`SlashRead`), where its comment promises 0; Python gives 0.

## 4. What is proved

`ChunkBufferProofs` proves of `ChunkBuffer!Spec`, for any sets of producers and consumers and any
capacity: `TypeCorrect`, `BufferBounded`, `RowsConserved`, `CancelIsFinal` and `WakeupsKept`. They rest on
`BufferConstants` (finitely many producers, natural bounds) and on lemmas about the operators
in `OpsProofs`. `TypeOK` is inductive; `Conserved` is inductive with it; `NoLostWakeup` is
inductive with it because each step that makes `Ready` true notifies every waiter and no other
step leaves a consumer "waiting" while it is true.

`FanoutProofs` proves of `Fanout!Spec`, for **any** overlay, portal and set of dead nodes:

* `TypeCorrect`;
* `UpstreamReachesPortal`: `RoutesLeadToPortal`, even when deadlines expire. The property is not
  inductive. `RouteInv` adds the turn in which each node first got a route (`JoinOrder`) and that the
  node a handler was called from got its own before (`UpstreamFirst`): an overwritten route still points
  to a node that joined earlier, so the node of a set that joined first points out of it;
* `ExecutesOnce`: `AtMostOneExecution` when no call outlives its deadline. `SyncInv` adds that then
  at most one handler runs at a time (`OneThread`, with `CallTree` for the nesting), so no other
  handler comes between a look-up and its insert, and that whoever got past the look-up owns
  the route of its node (`OwnRoute`);
* `RouteIsKept`: `RouteKept`, from the same invariant;
* `RefusedPeersHaveRoutes`: `RefusedPeersAreRouted`, when besides the portal is not configured as a neighbour of itself. `RefusalInv`
  adds to `SyncInv` that no call comes back to the portal (`PortalOnlyFirst`), that a route is that of a handler at its
  node and a handler waits for one it called (`OwnCallee`), and that a node whose handler has refused the portal is routed
  elsewhere (`RefusedElsewhere`): only that handler could have given it a route from the portal.

The assumption of the last three, that no call outlives its deadline, is needed: without it the first item of the list above is a counterexample.
An `edge` line from the portal to itself would be accepted by both loaders; `SubmitQuery` then calls itself, is refused and
marks itself done. No shipped topology has one.

For `RoutesLeadToPortal` with expired deadlines the theorem is the evidence; the run `fanout` checks the property without.

`AbortFloodProofs` proves of `AbortFlood!FloodSpec`, for any overlay: `FloodTypeCorrect`; `FloodKeepsUpstream`
(`RoutesLeadToPortal`); `FloodExecutesOnce` and `FloodRefusedHaveRoutes` (`AtMostOneExecution` and `RefusedPeersAreRouted`, as above). Every step is a step of
`Fanout` or leaves its variables alone (`FloodStepIsStep`), so the invariants above carry over; `FloodInv` adds that a
route names a handler that was started, which is what a flag refers to.

`PortalProofs` also holds the arithmetic of `ChunkSizing` and proves `AskedIsPositive`: with 0 < `min_chunk_rows` <= `max_chunk_rows` a fetch asks for 1 to
`max_chunk_rows` rows, from any suggestion before (also one of 0, where the subtraction wraps), at any pace and whatever the client
asks for. It is the arithmetic behind `FetchTakesSomething`.

`OverlayProofs` proves of `Overlay!Spec`, for any overlay, numbers of rows, chunk sizes, capacities and tries
(`OverlayConstants`, and the facts `FanoutProofs` has of the fan-out inside it):

* `TypeCorrect` and `OverlayImplementsService`: every step delivers, writes off, finishes or changes nothing of what
  `QueryService` sees, also when pushes fail and deadlines expire. The inductive invariant `OverlayInv` follows the rows: those of
  a worker's earlier chunks have landed, i.e. were accepted by the portal or written off (`SentHasLanded`); a
  call whose rows the portal has pushed stands for rows that landed (`PushedHasLanded`); and a node is done in the buffer only when all of its rows
  landed or `SubmitQuery` marked it itself (`DoneHasLanded`). That, with `PortalState`, is why `final` means what it says;
* `RowsArriveOnceInOrder`: `RowsOnceInOrder` when no push fails and no deadline expires (`NothingFails`). `OrderInv` adds that a worker
  has one call under way, for the chunk it waits for (`OneCallEach`, `CallIsAwaited`), and that nothing arrived beyond what was
  taken (`ArrivedWasTaken`); from `FanoutProofs` a node has one worker;
* `CopiesAreBounded`: `CopiesBounded` when forwards do not expire, pushes failing or late as they like. `CopyInv` counts: the copies of a row that arrived
  and those on their way are together no more than the tries its worker has made (`CopiesCounted`). With expired
  forwards a node may get two workers, each with its own tries; the run `overlay_failures` checks the property there
  on a pair, where that does not happen.

`QueryCacheProofs` proves of `QueryCache!CacheSpec`, for any hash, capacity and set of queries: `TypeCorrect`, `IndexMatchesList`
(`IndexAgrees`: inductive with `TypeOK`; the step that matters is `put` of a full cache, which finds the iterator of
the node it drops in the bucket of that node's hash) and `CacheImplementsMap`, the refinement of `LruMap`.

`PortalProofs` proves of `Portal!Spec`, for any number of requests, nodes, rows and queries, and any sizes (`PortalConstants`,
`ChunkConstants`). A lemma per action says what it does to its request (`DepositFacts`, `PopFactsOf`, ...) and
that it is about no other (`Others`); the invariants are statements about one request and are kept by its own steps and trivially by the others':

* `TypeCorrect`;
* `CancelIsForGood` (`CancelSticks`), `OnlyFinalIsErased` (`ErasedOnlyWhenFinal`) and `FetchesTake` (`FetchTakesSomething`, with
  0 < `MinChunk` <= `MaxChunk`: with 0 the suggestion may be 0), all from `SessionInv`. It says of a request that a fetch which came
  after the cancel found the queue empty and goes on to say so, and never to "idle" (`LateIsCanceled`), that a node which still scans is one the buffer waits for, unless
  it was marked done early (`Awaited`), that the size a waiting fetch may use is one `recordFetch` has suggested (`Paced`), that a cancelled buffer is empty, that after `isFinal`
  was read true nothing comes but rows of a peer marked done early and rows pushed again (`Drained`); and
  that the request the janitor is about to erase has been cancelled (`JanitorCanceled`);
* `FinalAnswersAreComplete` (`FinalIsComplete`), of any buffer, however small, any losses and any chunks that come again. `WholeInv` follows the stream of a request
  (`Stream`): what its client was told, what its fetch holds and what is queued, one after the other. Its rows are of the query, have been sent, and are
  each there once unless pushed again (`Streamed`); as long as the request is not cancelled, they are all but those still to be sent (`Unsent`) and
  those written down as `Lost` (`Kept`, `Covered`). When `isFinal` is read true, a node that still has `Unsent` rows is a peer marked done early, whose rows are all in `Lost`, so the stream has the
  rest (`Completes`). What is collected for the cache is what the client was told (`Shadowed`), so an entry of the
  cache is as complete as the request it comes from (`EntryWhole`), and so is a replay of it. A cancel between the two flags is `Noticed` in
  `raced`. That the exceptions of the past stay exceptions is `Grows`, and what a node, or a mark, may bring is `Fits`, which each kind of arrival is shown to satisfy.

`QueryEngineProofs` proves of `QueryEngine!Spec`, for any files, tables, queries, grid, chunk size and polling interval, every invariant and the
action property of the run. `EngineConstants` and `IndexConstants` assume that the sizes are positive, that queries have the
types of the `QuerySpec` message, that what the fields of a file that loads make is of the types of the columns (`Row`), and that a file
without a header has no lines. The loop first, for any list:

* `CancelHeardInTime` (`CancelIsHeard`). `PollInv` relates the rows emitted since the cancel to the position: they are fewer than
  the rows since the last poll, or than the interval at a poll. It needs that a remainder goes up by one or back to 0
  (`NextPosition`), which is proved from the division of naturals;
* `ChunksAreWellFormed` (`ChunksWellFormed`), from `ChunkInv`: a chunk has room while the loop runs, and `done` is sent last;
* `PlanIsFollowed` (`PlanFollowed`). `PlanInv` keeps the increasing positions of the rows taken, which grow by the position
  the loop is at (`EnumeratesNext`), and how many were taken, short of the limit while the loop runs.

Then the plan. `Lists(s, S)` says that `s` is the ascending list of the row ids `S`. A finite set has such a list (`AscendingLists`),
since each rank, the number of rows before a row, is that of one row, and only one (`PrefixOfList`). Every index answers with the list of the rows of its predicate:
`BoroughListed` and `ComplaintListed`; `DateRangeListed`, for which the two binary searches on the list sorted by date cut out the rows
of the dates and no other; `GeoBoxListed`, the rows of the cells, among them all that are in the box (`CellsAscend`: a greater coordinate is in no lower cell). `IntersectionListed`: the merge of two lists
lists the rows in both. So `work` is always the list of the rows left after the predicates intersected so far (`Survivors`, `WorkInv`), in
whatever order they come, and the loop over it leaves:

* `EngineTypes` (`TypeOK`) and `SentPrefix` (`SentIsPrefix`): what was taken, at increasing positions of an ascending list, is itself the beginning of the
  ascending list of the rows that match. In C++ the loop may end at a row outside the box, and what was sent is still a beginning;
* `CompleteButForCppGeo` (`CompleteButCppGeo`): the loop that was not cancelled and has no box to break at ends at the end of the list or at the
  limit. Their invariant is `EngineInv`, which is `PlanInv`, `WorkInv` and `ScanTypes`; TLC checked it on the instance of
  `query_engine`;
* `FileIsAnswered` (`FileAnswered`): a row of the table is that of one line taken (`LinesLoaded`), and of a line that the node can read it holds
  what the line says in each column that is not misplaced, hence matches when the line does. The columns that C++ may misplace, one with two
  of a column's names in its header and the last of a file with CR LF, are named by `Misplaced`; Python has none.

The merge needs an induction over its steps, and the library's induction theorems take an operator, which the provers cannot instantiate. `CountUp` says
it of a set instead: one that has 0 and with each number the next has every natural number, by picking the least that is missing. The existence of the recursive
function (`Iterated`) and what every step of it leaves (`IntersectionListed`) follow from that.

Only model-checked: liveness (`ReleasedAtEnd`, `ReachableExecute`, `CancelHeard`, `EventuallyFinal`, `SessionsEnd`), which is out of the
prover's reach, and the violations, each a behaviour of one instance. Every safety invariant and action property of the other runs
is the conclusion of a theorem, the two refinements among them, and some under the hypotheses named above (calls that keep their deadlines,
positive sizes).

## 5. Plan

1. Done: `BufferOps`, `ChunkBuffer`, `Fanout`, `QueryService`, `Overlay`, and the proofs above.
2. Done: `Portal`, `QueryCache` with `LruMap`, `QueryEngine` with `Indices`.
3. Done: `AbortFlood`, `ChunkSizing` in `Portal`, `Config` in `MCFanout`, `PartitionStore` in `QueryEngine`, and the proofs
   about the first two.
4. Done: `OverlayProofs`, `QueryCacheProofs`, `PortalProofs`, `RefusedPeersAreRouted`, and the loop of `QueryEngine`.
5. Done: the indices, the plan and the file in `QueryEngineProofs`, with which no safety property is left that is only model-checked.
6. Left: how a CSV line is split, a thread pool for the Python nodes (with it `abort_storm` could start G), several requests in `Overlay`.

## 6. Not modelled

The wording of logs, protobuf and channels (a call is a step that may fail), the splitting of a CSV line at commas and
quotes, coordinates as floating-point numbers, argument parsing, `GetStats` and `Ping` (read only), the gRPC server's set-up and
shutdown (nothing survives a restart), the measuring scripts, Python's thread pools. `routes_` is never cleaned up
by the code; one request is modelled, so its growth is not.
