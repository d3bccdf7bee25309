--------------------------- MODULE PartitionStore ---------------------------
(***************************************************************************)
(* The partition a node loads: PartitionStore::load of                      *)
(* cpp/src/PartitionStore.cpp, load of python/partition_store.py, and the   *)
(* files that scripts/partition_data.py writes for both.                    *)
(*                                                                          *)
(* A file is the names in its header, its lines, and whether they end in    *)
(* CR LF.  A line is the sequence of its fields, and has either all columns *)
(* or too few to have a key and a date.  A field is what it means, v, and   *)
(* the form it has: "plain" (0 or "" when it is empty); "tail" for a number *)
(* with more behind it; "iso" or "slash" for a date that is not packed;     *)
(* "loose" for a borough not in capitals; "junk" for none of these.         *)
(***************************************************************************)
EXTENDS Indices, FiniteSetsExt

ScriptHeader ==
  <<"unique_key", "created_ymd", "borough", "latitude", "longitude", "complaint_type">>

(* The names of a column, those load of Python prefers first. *)
Names ==
  [key       |-> <<"unique_key", "Unique Key">>,
   date      |-> <<"created_ymd", "created_date", "Created Date">>,
   complaint |-> <<"complaint_type", "Complaint Type">>,
   borough   |-> <<"borough", "Borough">>,
   lat       |-> <<"latitude", "Latitude">>,
   lon       |-> <<"longitude", "Longitude">>]

(* Where a name is.  std::getline leaves the CR at the end of the line: to  *)
(* C++ the last column of a file with CR LF has a name it does not know.    *)
At(code, file, name) ==
  {i \in DOMAIN file.header :
     file.header[i] = name /\ ~(code = "cpp" /\ file.crlf /\ i = Len(file.header))}

(* Mutant: a later column with one of the names is passed over. *)
ColumnFirst(code, file, what) ==
  LET at == UNION {At(code, file, Names[what][k]) : k \in DOMAIN Names[what]}
  IN  IF at = {} THEN 0 ELSE Min(at)

(* The last column with one of the names; in Python, with the first of the  *)
(* names that there is.  0 for none.                                        *)
Column(code, file, what) ==
  LET at   == [k \in DOMAIN Names[what] |-> At(code, file, Names[what][k])]
      seen == {k \in DOMAIN at : at[k] # {}}
  IN  IF seen = {} THEN 0
      ELSE Max(IF code = "cpp" THEN UNION {at[k] : k \in seen} ELSE at[Min(seen)])

Packed(code, file) == At(code, file, "created_ymd") # {}

(* int() takes all or nothing, strtoul the digits in front: of a date that  *)
(* is not packed the year or the month.                                     *)
Number(code, f) ==
  CASE f.form = "plain"                   -> f.v
    [] f.form = "tail" /\ code = "cpp"    -> f.v
    [] f.form = "iso" /\ code = "cpp"     -> f.v \div 10000
    [] f.form = "slash" /\ code = "cpp"   -> (f.v \div 100) % 100
    [] OTHER                              -> 0

(* What parseYmd makes of the characters of "MM/DD/YYYY" (Record311.hpp). *)
SlashRead(ymd) ==
  LET digit(p) == (ymd \div 10^p) % 10
  IN    (digit(3) * 1000 + digit(2) * 100 - 10 + digit(1)) * 10000
      + (digit(7) - 10) * 100 + digit(5) * 10 + digit(4)

Date(code, file, f) ==
  IF Packed(code, file) THEN Number(code, f)
  ELSE CASE f.form = "iso"                      -> f.v
         [] f.form = "plain" /\ code = "python" -> f.v
         [] f.form = "slash" /\ code = "cpp"    -> SlashRead(f.v)
         [] OTHER                               -> 0

Borough(code, f) ==
  IF f.form = "plain" \/ (code = "python" /\ f.form = "loose") THEN f.v ELSE 0

(* strtod takes what it can; float() raises on anything else than a number. *)
Coordinate(f) == IF f.form = "junk" THEN 0 ELSE f.v

Field(code, file, line, what, default) ==
  LET c == Column(code, file, what)
  IN  IF c \in DOMAIN line THEN line[c] ELSE [v |-> default, form |-> "plain"]

RowOf(code, file, line) ==
  [key       |-> Number(code, Field(code, file, line, "key", 0)),
   date      |-> Date(code, file, Field(code, file, line, "date", 0)),
   borough   |-> Borough(code, Field(code, file, line, "borough", 0)),
   lat       |-> Coordinate(Field(code, file, line, "lat", 0)),
   lon       |-> Coordinate(Field(code, file, line, "lon", 0)),
   complaint |-> Field(code, file, line, "complaint", "").v]

(* A line too short, or without a key, is passed over. *)
Takes(code, file, line) ==
  /\ {Column(code, file, "key"), Column(code, file, "date")} \subseteq DOMAIN line
  /\ RowOf(code, file, line).key # 0

(* Neither throws.  A file that is missing or empty leaves the table empty. *)
Loads(code, file) ==
  \/ file.header = <<>>
  \/ /\ Column(code, file, "key") # 0 /\ Column(code, file, "date") # 0
     /\ code = "python" =>
          \A k \in DOMAIN file.lines, what \in {"lat", "lon"} :
            Takes(code, file, file.lines[k]) =>
              Field(code, file, file.lines[k], what, 0).form = "plain"

(* The lines that make the rows of the table, in their order. *)
TakenLines(code, file) ==
  IF file.header = <<>> THEN <<>>
  ELSE Ascending({k \in DOMAIN file.lines : Takes(code, file, file.lines[k])})

Load(code, file) ==
  LET taken == TakenLines(code, file)
  IN  [i \in DOMAIN taken |-> RowOf(code, file, file.lines[taken[i]])]

(* main of partition_data.py for one node: rows of key, packed date,        *)
(* borough, coordinates and complaint; csv.writer ends its lines in CR LF.  *)
Written(rows) ==
  [header |-> ScriptHeader, crlf |-> TRUE,
   lines  |-> [k \in DOMAIN rows |-> [c \in DOMAIN rows[k] |-> [v |-> rows[k][c], form |-> "plain"]]]]
=============================================================================
