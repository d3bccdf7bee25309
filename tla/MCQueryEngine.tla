--------------------------- MODULE MCQueryEngine ---------------------------
(* Partition files of no or three rows of four kinds, and the queries that  *)
(* tell them apart.                                                         *)
EXTENDS QueryEngine

Monday == 20240115
Tuesday == 20240116

(* Date, borough, latitude, longitude and complaint of a row: in the box; in *)
(* a cell the box touches but outside it, and west and south of 0; without  *)
(* a location, borough or date; on the corner of the box.                   *)
Kinds == {<<Monday, 1, 1, 0, "noise">>, <<Tuesday, 1, -2, -1, "">>,
          <<0, 0, 0, 0, "noise">>, <<Tuesday, 2, -1, 1, "noise">>}

Numbered(kinds) == [k \in DOMAIN kinds |-> <<k>> \o kinds[k]]
ScriptFile(kinds) == Written(Numbered(kinds))

(* The same with the line ends of Unix. *)
UnixFile(kinds) == [ScriptFile(kinds) EXCEPT !.crlf = FALSE]

(* A raw dump: another header, dates in the ISO and in the American form, a *)
(* borough in small letters, and lines to be passed over.                   *)
F(v, form) == [v |-> v, form |-> form]
P(v) == F(v, "plain")
RawFile(crlf) ==
  [header |-> <<"Unique Key", "Created Date", "Complaint Type", "Latitude", "Longitude",
                "Borough", "Location">>,
   crlf   |-> crlf,
   lines  |-> <<<<P(0), F(Monday, "iso"), P("noise"), P(0), P(0), P(1), P("")>>,
                <<P(1), F(Monday, "iso"), P("noise"), P(1), P(0), P(1), P("")>>,
                <<P(2)>>,
                <<P(3), F(Monday, "slash"), P("noise"), P(1), P(1), P(1), P("")>>,
                <<F(4, "junk"), F(Tuesday, "iso"), P(""), P(1), P(1), P(1), P("")>>,
                <<P(5), F(Tuesday, "iso"), P(""), P(-1), P(1), F(1, "loose"), P("")>>>>]

(* A header with two dates and no complaint type, and fields that are not    *)
(* numbers: only the C++ node starts with it.                               *)
OddFile ==
  [header |-> <<"created_date", "unique_key", "created_ymd", "latitude", "longitude", "borough">>,
   crlf   |-> FALSE,
   lines  |-> <<<<P(0), P(1), P(Monday), F(0, "junk"), P(1), P(1)>>,
                <<P(0), F(2, "tail"), F(Monday, "tail"), P(1), P(1), P(1)>>,
                <<P(0), P(3), P(Monday), P(1), P(1), P(1)>>>>]

NoFile == [header |-> <<>>, crlf |-> FALSE, lines |-> <<>>]

FileSet ==
  {NoFile, RawFile(TRUE), RawFile(FALSE), OddFile}
    \cup {UnixFile(kinds) : kinds \in [1..3 -> Kinds]}
    \cup {ScriptFile(kinds) : kinds \in [1..2 -> Kinds]}

Box(a, b, c, d) == [minLat |-> a, maxLat |-> b, minLon |-> c, maxLon |-> d]
NoBox == Box(0, 0, 0, 0)

Dates == {<<0, 0>>, <<0, Monday>>, <<Monday, Monday>>, <<Tuesday, 0>>, <<Tuesday, Monday>>}
Boxes == {<<FALSE, NoBox>>, <<TRUE, Box(-1, 1, -1, 1)>>, <<TRUE, Box(1, -1, -1, 1)>>}

SpecSet ==
  {[borough |-> b, complaint |-> c, from |-> d[1], to |-> d[2],
    geo |-> g[1], box |-> g[2], maxRows |-> m] :
     b \in {0, 1}, c \in {"", "noise"}, d \in Dates, g \in Boxes, m \in {0, 2}}

(* TLC evaluates the definitions above once, and these at every use. *)
SmallFiles == FileSet
SmallSpecs == SpecSet
=============================================================================
