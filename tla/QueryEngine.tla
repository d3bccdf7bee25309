---------------------------- MODULE QueryEngine ----------------------------
(***************************************************************************)
(* One query against the partition a node has loaded from its file          *)
(* (PartitionStore): the indexed plan and the emit loop of                  *)
(* QueryEngine::run (cpp/src/QueryEngine.cpp) and of PartitionStore.scan    *)
(* (python/partition_store.py), which are meant to be the same, with the    *)
(* cancel that may come at any time and is polled every PollEvery rows.     *)
(*                                                                          *)
(* The answer they are held against is the scan they replaced, which the    *)
(* Python code still has (force_linear), without the rows that have no      *)
(* location where the query has a geo box: those are left out of the grid   *)
(* on purpose.                                                              *)
(***************************************************************************)
EXTENDS PartitionStore

CONSTANTS Files,      \* the partition files
          Specs,      \* the queries
          ChunkRows,  \* initial_chunk_rows
          PollEvery   \* 1024: a cancel is looked for every so many rows

(* What an engine reads of a query. *)
QuerySpec ==
  [borough : 0..5, complaint : STRING, from : 0..MaxDate, to : 0..MaxDate,
   geo : BOOLEAN, box : GeoBoxes, maxRows : Nat]

(* A file has its lines one after another, and one without a header has     *)
(* none; what its fields hold fits their columns.                           *)
ASSUME EngineConstants ==
  /\ ChunkRows \in Nat \ {0} /\ PollEvery \in Nat \ {0}
  /\ Specs \subseteq QuerySpec
  /\ \A f \in Files : /\ f.lines \in Seq({f.lines[k] : k \in DOMAIN f.lines})
                      /\ f.header = <<>> => f.lines = <<>>
  /\ \A c \in {"cpp", "python"}, f \in Files : Loads(c, f) => Load(c, f) \in Seq(Row)

VARIABLES code,      \* "cpp" or "python"
          file,      \* the node's partition file, and the rows it has from it
          table, spec,
          left,      \* candidate lists not yet intersected, by predicate
          work,      \* the row ids to go through
          at,        \* position in work
          chunk, produced,
          sent,      \* what the sink got: the rows in all, in how many calls, and done
          canceled,  \* the route's flag
          late,      \* history: rows emitted since it was set
          pc

vars == <<code, file, table, spec, left, work, at, chunk, produced, sent, canceled, late, pc>>
query == <<code, file, table, spec>>

Inside(row, box) ==
  /\ box.minLat <= row.lat /\ row.lat <= box.maxLat
  /\ box.minLon <= row.lon /\ row.lon <= box.maxLon

(* The linear scan's test of one row. *)
Matches(row, s) ==
  /\ s.borough # 0 => row.borough = s.borough
  /\ s.from # 0 => row.date >= s.from
  /\ s.to # 0 => row.date <= s.to
  /\ s.geo => Inside(row, s.box)
  /\ s.complaint # "" => row.complaint = s.complaint

Capped(rows) ==
  IF spec.maxRows = 0 \/ Len(rows) < spec.maxRows THEN rows ELSE SubSeq(rows, 1, spec.maxRows)

AnswerRows ==
  Capped(Ascending(
    {i \in DOMAIN table : Matches(table[i], spec) /\ (spec.geo => Located(table[i]))}))

(* The predicates of the query that have an index, and what it answers. *)
Indexed ==
     (IF spec.borough # 0 THEN {"borough"} ELSE {})
  \cup (IF spec.complaint # "" THEN {"complaint"} ELSE {})
  \cup (IF spec.from # 0 \/ spec.to # 0 THEN {"date"} ELSE {})
  \cup (IF spec.geo THEN {"geo"} ELSE {})

Postings(p) ==
  CASE p = "borough"   -> BoroughRows(table, spec.borough)
    [] p = "complaint" -> ComplaintRows(table, spec.complaint)
    [] p = "date"      -> DateRange(table, spec.from, spec.to)
    [] p = "geo"       -> GeoBox(table, spec.box)

Init ==
  /\ code \in {"cpp", "python"}
  /\ file \in Files /\ Loads(code, file)
  /\ table = Load(code, file)
  /\ spec \in Specs
  /\ left = {} /\ work = <<>> /\ at = 1
  /\ chunk = <<>> /\ produced = 0
  /\ sent = [rows |-> <<>>, calls |-> 0, done |-> FALSE]
  /\ canceled = FALSE /\ late = 0
  /\ pc = "plan"

Sink(rows, done) ==
  sent' = [rows |-> sent.rows \o rows, calls |-> sent.calls + 1, done |-> done]

(* A predicate nothing matches ends the query; without an indexed one the   *)
(* whole table is gone through.                                             *)
Plan ==
  /\ pc = "plan"
  /\ IF \E p \in Indexed : Postings(p) = <<>>
       THEN Sink(<<>>, TRUE) /\ pc' = "done" /\ UNCHANGED <<left, work>>
     ELSE IF Indexed = {}
       THEN work' = Ids(table) /\ pc' = "emit" /\ UNCHANGED <<left, sent>>
     ELSE left' = Indexed /\ pc' = "seed" /\ UNCHANGED <<work, sent>>
  /\ UNCHANGED <<query, at, chunk, produced, canceled, late>>

(* Smallest list first; std::sort leaves the order of equal sizes open. *)
Smallest == {p \in left : \A q \in left : Len(Postings(p)) <= Len(Postings(q))}

Seed ==
  /\ pc = "seed"
  /\ \E p \in Smallest : work' = Postings(p) /\ left' = left \ {p}
  /\ pc' = "intersect"
  /\ UNCHANGED <<query, at, chunk, produced, sent, canceled, late>>

Intersect ==
  /\ pc = "intersect"
  /\ IF left = {} \/ work = <<>>
       THEN pc' = "emit" /\ UNCHANGED <<left, work>>
       ELSE /\ \E p \in Smallest : /\ work' = Intersection(work, Postings(p))
                                   /\ left' = left \ {p}
            /\ UNCHANGED pc
  /\ UNCHANGED <<query, at, chunk, produced, sent, canceled, late>>

(* Mutant: the cancel is looked for once, before the first row. *)
HearsCancelOnce == at = 1 /\ canceled

HearsCancel == (at - 1) % PollEvery = 0 /\ canceled

(* Mutant: both loops take every row of the cells. *)
OutsideNever == FALSE

Outside == spec.geo /\ ~Inside(table[work[at]], spec.box)

(* emit_one returns false for a row outside the box and the C++ loop breaks *)
(* on false; the Python one goes on.                                        *)
Skip ==
  IF code = "cpp"
    THEN pc' = "flush" /\ UNCHANGED at
    ELSE at' = at + 1 /\ UNCHANGED pc

(* Mutant: a full chunk is sent and not cleared. *)
TakeTwice ==
  LET rows == Append(chunk, work[at])
      full == Len(rows) >= ChunkRows
  IN  /\ produced' = produced + 1
      /\ at' = at + 1
      /\ chunk' = rows
      /\ IF full THEN Sink(rows, FALSE) ELSE UNCHANGED sent
      /\ pc' = IF produced' = spec.maxRows THEN "flush" ELSE "emit"

(* Mutant: the limit is tested before the row is counted. *)
TakeOneMore ==
  LET rows == Append(chunk, work[at])
      last == spec.maxRows # 0 /\ produced >= spec.maxRows
      full == Len(rows) >= ChunkRows /\ (code = "cpp" \/ ~last)
  IN  /\ produced' = produced + 1
      /\ at' = at + 1
      /\ chunk' = IF full THEN <<>> ELSE rows
      /\ IF full THEN Sink(rows, FALSE) ELSE UNCHANGED sent
      /\ pc' = IF last THEN "flush" ELSE "emit"

(* A full chunk is sent at once, in C++ also when the row limit is reached. *)
Take ==
  LET rows == Append(chunk, work[at])
      last == spec.maxRows # 0 /\ produced + 1 >= spec.maxRows
      full == Len(rows) >= ChunkRows /\ (code = "cpp" \/ ~last)
  IN  /\ produced' = produced + 1
      /\ at' = at + 1
      /\ chunk' = IF full THEN <<>> ELSE rows
      /\ IF full THEN Sink(rows, FALSE) ELSE UNCHANGED sent
      /\ pc' = IF last THEN "flush" ELSE "emit"

Emit ==
  /\ pc = "emit"
  /\ IF at > Len(work) \/ HearsCancel
       THEN pc' = "flush" /\ UNCHANGED <<at, chunk, produced, sent, late>>
     ELSE IF Outside
       THEN Skip /\ UNCHANGED <<chunk, produced, sent, late>>
     ELSE Take /\ late' = IF canceled THEN late + 1 ELSE late
  /\ UNCHANGED <<query, left, work, canceled>>

(* The last chunk, which may be empty, says done. *)
Flush ==
  /\ pc = "flush"
  /\ Sink(chunk, TRUE)
  /\ chunk' = <<>>
  /\ pc' = "done"
  /\ UNCHANGED <<query, left, work, at, produced, canceled, late>>

(* The Abort handler, CancelQuery at the portal. *)
Cancel ==
  /\ ~canceled /\ pc # "done"
  /\ canceled' = TRUE
  /\ UNCHANGED <<query, left, work, at, chunk, produced, sent, late, pc>>

Next == Plan \/ Seed \/ Intersect \/ Emit \/ Flush \/ Cancel

Spec == Init /\ [][Next]_vars

-----------------------------------------------------------------------------

(* Types; the plan only intersects what it has, and the loop stays in the   *)
(* table.                                                                   *)
TypeOK ==
  /\ code \in {"cpp", "python"} /\ file \in Files /\ table = Load(code, file) /\ spec \in Specs
  /\ left \subseteq {"borough", "complaint", "date", "geo"}
  /\ work \in Seq(DOMAIN table) /\ at \in 1..Len(work) + 1
  /\ chunk \in Seq(DOMAIN table) /\ Len(chunk) <= ChunkRows
  /\ produced \in 0..Len(table) /\ late \in 0..Len(table)
  /\ sent \in [rows : Seq(DOMAIN table), calls : Nat, done : BOOLEAN]
  /\ canceled \in BOOLEAN
  /\ pc \in {"plan", "seed", "intersect", "emit", "flush", "done"}

(* At every moment what has been sent, and what is in the chunk, is the     *)
(* answer as far as it goes: no row that does not match, none twice, none   *)
(* out of order, none left out in between, none above the row limit,        *)
(* whatever the order of the intersections.                                 *)
SentIsPrefix ==
  LET rows == sent.rows \o chunk
  IN  Len(rows) <= Len(AnswerRows) /\ rows = SubSeq(AnswerRows, 1, Len(rows))

(* rows are the elements of list at the positions S, in their order. *)
Enumerates(rows, list, S) ==
  \E pos \in [1..Len(rows) -> S] :
    /\ \A j, k \in 1..Len(rows) : j < k => pos[j] < pos[k]
    /\ \A p \in S : \E k \in 1..Len(rows) : pos[k] = p
    /\ \A k \in 1..Len(rows) : rows[k] = list[pos[k]]

(* The loop is true to the plan, whatever list that has come to: what is    *)
(* sent or in the chunk are the rows gone through that are in the box, all  *)
(* of them, each once and in order; it keeps the row limit, and only a      *)
(* cancel, the limit or the break of C++ ends it before the list does.      *)
PlanFollowed ==
  LET rows  == sent.rows \o chunk
      taken == {p \in 1..at - 1 : spec.geo => Inside(table[work[p]], spec.box)}
  IN  /\ Enumerates(rows, work, taken)
      /\ spec.maxRows # 0 => Len(rows) <= spec.maxRows
      /\ sent.done /\ ~canceled =>
           \/ at > Len(work) \/ (code = "cpp" /\ spec.geo)
           \/ spec.maxRows # 0 /\ Len(rows) = spec.maxRows

(* Unless it is cancelled, the indexed plan gives all that the linear scan  *)
(* gave: "for every survivor row_id, validate the residual" predicates,     *)
(* materialize and emit (QueryEngine.cpp:20).  In C++ this holds only of    *)
(* queries without a geo box.                                               *)
Complete == sent.done /\ ~canceled => sent.rows = AnswerRows
CompleteButCppGeo == (code = "cpp" /\ spec.geo) \/ Complete

(* The columns of a file that have a name, any of those that what may have, *)
(* and the one that means it: the last with the first of the names there.   *)
Named(name) == {i \in DOMAIN file.header : file.header[i] = name}
AnyName(what) == UNION {Named(Names[what][k]) : k \in DOMAIN Names[what]}
MeantAt(what) ==
  LET there == {k \in DOMAIN Names[what] : Named(Names[what][k]) # {}}
  IN  IF there = {} THEN 0 ELSE Max(Named(Names[what][Min(there)]))

(* What a line says; a field it does not have says nothing. *)
Meant(line) ==
  [what \in DOMAIN Names |->
     IF MeantAt(what) \in DOMAIN line THEN line[MeantAt(what)].v
     ELSE IF what = "complaint" THEN "" ELSE 0]

(* The node's parser has a way to read all of a line. *)
Readable(line) ==
  /\ Takes(code, file, line)
  /\ \A what \in DOMAIN Names :
       LET f == Field(code, file, line, what, 0)
       IN  \/ f.form = "plain" /\ (what = "date" => Packed(code, file) \/ code = "python" \/ f.v = 0)
           \/ f.form = "iso" /\ what = "date" /\ ~Packed(code, file)

(* C++ reads another column than the one meant: a later one with another of *)
(* its names, or one before the last of a file with CR LF.                  *)
Misplaced(what) ==
  /\ code = "cpp" /\ AnyName(what) # {}
  /\ \/ Max(AnyName(what)) # MeantAt(what)
     \/ file.crlf /\ Len(file.header) \in AnyName(what)

(* The lines whose rows have been sent, and under which key. *)
Sent == {<<TakenLines(code, file)[i], table[i].key>> : i \in {sent.rows[n] : n \in DOMAIN sent.rows}}

(* The answer is what the lines of the file say, line by line.              *)
Answered ==
  \A k \in DOMAIN file.lines :
    Readable(file.lines[k]) =>
      LET row == Meant(file.lines[k])
      IN  /\ \A line \in Sent : line[1] = k => line[2] = row.key /\ Matches(row, spec)
          /\ Matches(row, spec) /\ (spec.geo => Located(row)) =>
               \/ <<k, row.key>> \in Sent
               \/ spec.maxRows # 0 /\ Len(sent.rows) = spec.maxRows

(* A query that is not cancelled is answered by what the file says: every   *)
(* line that the node can read and that matches has its row sent, under its *)
(* key, whatever the header's order and the lines around it, and no other   *)
(* has.  In C++ this leaves out geo boxes, and files with a misplaced key   *)
(* or column that is asked for.                                             *)
FileAnswered ==
  \/ ~sent.done \/ canceled
  \/ code = "cpp" /\ spec.geo
  \/ \E what \in {"key"} \cup (Indexed \ {"geo"}) : Misplaced(what)
  \/ Answered

(* "We expect partition CSVs produced by scripts/partition_data.py, which   *)
(* always emit a fixed header in this order" (PartitionStore.cpp:3): a      *)
(* file of that script is answered from in full.                            *)
ScriptFileAnswered ==
  sent.done /\ ~canceled /\ ~spec.geo /\ file.header = ScriptHeader /\ file.crlf => Answered

(* The sink is called "zero or more times with non-empty row sets and       *)
(* finally once with done=true (possibly with an empty last chunk)"         *)
(* (QueryEngine.hpp:23), and never with more rows than a chunk has.         *)
ChunksWellFormed ==
  [][sent' # sent =>
       LET n == Len(sent'.rows) - Len(sent.rows)
       IN  /\ ~sent.done /\ sent'.calls = sent.calls + 1
           /\ n <= ChunkRows
           /\ n > 0 \/ sent'.done]_vars

(* A cancelled scan breaks off after fewer rows than lie between two polls. *)
CancelIsHeard == late < PollEvery
=============================================================================
