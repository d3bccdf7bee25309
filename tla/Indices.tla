------------------------------ MODULE Indices ------------------------------
(***************************************************************************)
(* The secondary indices of a partition (cpp/src/Indices.cpp, and the same  *)
(* four in python/partition_store.py) and the row-id lists they answer      *)
(* with.  A table is the sequence of rows a partition has loaded; row ids   *)
(* are its positions, counted from 1.  Every list is ascending.             *)
(*                                                                          *)
(* Coordinates are integers and a grid cell is Grid of them wide; a cell    *)
(* key is the pair of its coordinates, which cellKey packs into 64 bits.    *)
(***************************************************************************)
EXTENDS Integers, Sequences, FiniteSets

CONSTANTS Grid,     \* GRID_DEG
          MaxDate   \* 0xFFFFFFFF

ASSUME IndexConstants == Grid \in Nat \ {0} /\ MaxDate \in Nat

(* A row, by the types of the columns, and the boxes that may be asked for. *)
Row ==
  [key : Nat, date : 0..MaxDate, borough : 0..5, lat : Int, lon : Int, complaint : STRING]

GeoBoxes == [minLat : Int, maxLat : Int, minLon : Int, maxLon : Int]

Ids(t) == [i \in DOMAIN t |-> i]

(* The elements of S in the order R: each behind as many as precede it. *)
Sorted(S, R) ==
  [k \in 1..Cardinality(S) |-> CHOOSE i \in S : Cardinality({j \in S : <<j, i>> \in R}) = k - 1]

Ascending(S) == Sorted(S, {p \in S \X S : p[1] < p[2]})

BoroughRows(t, b) == Ascending({i \in DOMAIN t : t[i].borough = b})
ComplaintRows(t, c) == Ascending({i \in DOMAIN t : t[i].complaint = c})

(* by_date_: (date, row id), sorted. *)
Earlier(t) ==
  {p \in (DOMAIN t) \X (DOMAIN t) :
     \/ t[p[1]].date < t[p[2]].date
     \/ t[p[1]].date = t[p[2]].date /\ p[1] < p[2]}

ByDate(t) ==
  LET ids == Sorted(DOMAIN t, Earlier(t))
  IN  [k \in DOMAIN ids |-> <<t[ids[k]].date, ids[k]>>]

LowerBound(list, d) == 1 + Cardinality({k \in DOMAIN list : list[k][1] < d})
UpperBound(list, d) == 1 + Cardinality({k \in DOMAIN list : list[k][1] <= d})

(* Mutant: the window stops before its last date. *)
DateRangeHalfOpen(t, from, to) ==
  LET hi     == IF to = 0 THEN MaxDate ELSE to
      window == SubSeq(ByDate(t), LowerBound(ByDate(t), from), LowerBound(ByDate(t), hi) - 1)
  IN  IF from > hi THEN <<>> ELSE Ascending({window[k][2] : k \in DOMAIN window})

(* The dates from .. to, 0 for no bound, re-sorted by row id. *)
DateRange(t, from, to) ==
  LET hi     == IF to = 0 THEN MaxDate ELSE to
      window == SubSeq(ByDate(t), LowerBound(ByDate(t), from), UpperBound(ByDate(t), hi) - 1)
  IN  IF from > hi THEN <<>> ELSE Ascending({window[k][2] : k \in DOMAIN window})

Cell(x) == x \div Grid
Located(row) == row.lat # 0 \/ row.lon # 0

(* by_cell_: rows without a location are in no cell. *)
CellRows(t, la, lo) ==
  {i \in DOMAIN t : Located(t[i]) /\ Cell(t[i].lat) = la /\ Cell(t[i].lon) = lo}

(* The rows of all cells that the box touches, some of them outside it. *)
GeoBox(t, box) ==
  IF box.minLat > box.maxLat \/ box.minLon > box.maxLon THEN <<>>
  ELSE Ascending(UNION {CellRows(t, la, lo) : la \in Cell(box.minLat)..Cell(box.maxLat),
                                                 lo \in Cell(box.minLon)..Cell(box.maxLon)})

(* One linear merge of two ascending lists, as std::set_intersection and    *)
(* the loop in partition_store.py do it: r is where it has come to in a and *)
(* b, and what it has found in both.                                        *)
Compared(a, b, r) ==
  IF r.i > Len(a) \/ r.j > Len(b) THEN r
  ELSE IF a[r.i] = b[r.j] THEN [i |-> r.i + 1, j |-> r.j + 1, out |-> Append(r.out, a[r.i])]
  ELSE IF a[r.i] < b[r.j] THEN [r EXCEPT !.i = @ + 1]
  ELSE [r EXCEPT !.j = @ + 1]

Intersection(a, b) ==
  LET merge[n \in 0..Len(a) + Len(b)] ==
        IF n = 0 THEN [i |-> 1, j |-> 1, out |-> <<>>] ELSE Compared(a, b, merge[n - 1])
  IN  merge[Len(a) + Len(b)].out
=============================================================================
