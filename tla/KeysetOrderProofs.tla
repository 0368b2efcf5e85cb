------------------------- MODULE KeysetOrderProofs -------------------------
(***************************************************************************)
(* ORDER BY and the cursors that page through it, for rows of any content. *)
(***************************************************************************)
EXTENDS KeysetOrder, KeysetProofs

(***************************************************************************)
(* The order of one column is total and asymmetric: of two different cells *)
(* exactly one comes first, NULL included.                                 *)
(***************************************************************************)
LEMMA ColumnTotal ==
  ASSUME NEW d, NEW x \in Cell, NEW y \in Cell, x # y
  PROVE  ColumnBefore(d, x, y) <=> ~ColumnBefore(d, y, x)
  BY NullAssumption DEF ColumnBefore, Cell

\* The first of up to six positions with some property, the last one having it.
LEMMA FirstPosition ==
  ASSUME NEW n \in {2, 6}, NEW D \in SUBSET (1..n), n \in D
  PROVE  \E i \in D : \A j \in 1..(i - 1) : j \notin D
<1>1. CASE n = 2
  BY <1>1
<1>2. CASE n = 6
  <2>1. \/ 1 \in D
        \/ 2 \in D /\ 1 \notin D
        \/ 3 \in D /\ {1, 2} \intersect D = {}
        \/ 4 \in D /\ {1, 2, 3} \intersect D = {}
        \/ 5 \in D /\ {1, 2, 3, 4} \intersect D = {}
        \/ 6 \in D /\ {1, 2, 3, 4, 5} \intersect D = {}
    BY <1>2
  <2>2. /\ 1..(1 - 1) = {} /\ 1..(2 - 1) = {1} /\ 1..(3 - 1) = {1, 2}
        /\ 1..(4 - 1) = {1, 2, 3} /\ 1..(5 - 1) = {1, 2, 3, 4}
        /\ 1..(6 - 1) = {1, 2, 3, 4, 5}
    OBVIOUS
  <2> QED
    BY <2>1, <2>2
<1> QED
  BY <1>1, <1>2

(***************************************************************************)
(* Of two rows with different ids ORDER BY puts exactly one first: the     *)
(* first column in which they differ decides, and the id is the last one.  *)
(***************************************************************************)
LEMMA OrderTotal ==
  ASSUME NEW c, NEW d, NEW p, NEW q, IsRow(p), IsRow(q), p["id"] # q["id"]
  PROVE  OrderBefore(c, d, p, q) <=> ~OrderBefore(c, d, q, p)
<1> DEFINE cols == SortColumns(c)
<1>1. PICK n \in {2, 6} :
        /\ DOMAIN cols = 1..n
        /\ cols[n] = "id"
  <2>1. CASE c \in SortBy \ {"resource"}
    BY <2>1 DEF SortColumns
  <2>2. CASE c \notin SortBy \ {"resource"}
    BY <2>2 DEF SortColumns
  <2> QED
    BY <2>1, <2>2
<1>2. \A i \in DOMAIN cols : p[cols[i]] \in Cell /\ q[cols[i]] \in Cell
  BY SortColumnsAreColumns, RowCells
<1> HIDE DEF cols
<1>3. PICK i \in DOMAIN cols :
        /\ p[cols[i]] # q[cols[i]]
        /\ \A j \in 1..(i - 1) : p[cols[j]] = q[cols[j]]
  <2> DEFINE D == {k \in 1..n : p[cols[k]] # q[cols[k]]}
  <2>1. D \in SUBSET (1..n) /\ n \in D
    BY <1>1
  <2>2. PICK i \in D : \A j \in 1..(i - 1) : j \notin D
    BY <2>1, FirstPosition
  <2>3. \A j \in 1..(i - 1) : j \in 1..n
    OBVIOUS
  <2> QED
    BY <1>1, <2>2, <2>3
<1>4. \A k \in DOMAIN cols :
        (\A j \in 1..(k - 1) : p[cols[j]] = q[cols[j]]) =>
          k = i \/ p[cols[k]] = q[cols[k]]
  <2> SUFFICES ASSUME NEW k \in DOMAIN cols, k # i,
                      \A j \in 1..(k - 1) : p[cols[j]] = q[cols[j]]
               PROVE  p[cols[k]] = q[cols[k]]
    OBVIOUS
  <2>1. i \in 1..n /\ k \in 1..n
    BY <1>1
  <2>2. i \notin 1..(k - 1)
    BY <1>3
  <2>3. k \in 1..(i - 1)
    BY <2>1, <2>2
  <2> QED
    BY <1>3, <2>3
<1>5. /\ LexBefore(cols, d, p, q) <=> ColumnBefore(d, p[cols[i]], q[cols[i]])
      /\ LexBefore(cols, d, q, p) <=> ColumnBefore(d, q[cols[i]], p[cols[i]])
  <2>1. \A k \in DOMAIN cols :
          p[cols[k]] = q[cols[k]] =>
            /\ ~ColumnBefore(d, p[cols[k]], q[cols[k]])
            /\ ~ColumnBefore(d, q[cols[k]], p[cols[k]])
    BY <1>2, ColumnOrder
  <2>2. \A k \in DOMAIN cols :
          (\A j \in 1..(k - 1) : q[cols[j]] = p[cols[j]])
            <=> (\A j \in 1..(k - 1) : p[cols[j]] = q[cols[j]])
    OBVIOUS
  <2>3. \A k \in DOMAIN cols :
          (\A j \in 1..(k - 1) : p[cols[j]] = q[cols[j]]) =>
            k = i \/ /\ ~ColumnBefore(d, p[cols[k]], q[cols[k]])
                     /\ ~ColumnBefore(d, q[cols[k]], p[cols[k]])
    <3> SUFFICES ASSUME NEW k \in DOMAIN cols, k # i,
                        \A j \in 1..(k - 1) : p[cols[j]] = q[cols[j]]
                 PROVE  /\ ~ColumnBefore(d, p[cols[k]], q[cols[k]])
                        /\ ~ColumnBefore(d, q[cols[k]], p[cols[k]])
      OBVIOUS
    <3>1. p[cols[k]] = q[cols[k]]
      BY <1>4
    <3> QED
      BY <2>1, <3>1
  <2>4. LexBefore(cols, d, p, q) <=> ColumnBefore(d, p[cols[i]], q[cols[i]])
    BY <1>3, <2>3 DEF LexBefore
  <2>5. LexBefore(cols, d, q, p) <=> ColumnBefore(d, q[cols[i]], p[cols[i]])
    BY <1>3, <2>2, <2>3 DEF LexBefore
  <2> QED
    BY <2>4, <2>5
<1>6. ColumnBefore(d, p[cols[i]], q[cols[i]])
        <=> ~ColumnBefore(d, q[cols[i]], p[cols[i]])
  BY <1>2, <1>3, ColumnTotal
<1> QED
  BY <1>5, <1>6 DEF OrderBefore, cols

-----------------------------------------------------------------------------

\* Two rows with ids of their own, and a sort that a request may ask for.
OrderInv ==
  /\ IsRow(a) /\ IsRow(b) /\ a["id"] # b["id"]
  /\ s \in SortBy \union {""}
  /\ o \in SortOrder \union {""}

\* The rows stay, the sort is always a valid one.
LEMMA OrderInvariant == Spec => []OrderInv
<1>1. Init => OrderInv
  BY RowsAssumption DEF Init, OrderInv
<1>2. OrderInv /\ [Resort]_vars => OrderInv'
  BY DEF OrderInv, Resort, vars
<1> QED
  BY <1>1, <1>2, PTL DEF Spec

\* Defaults included, the sort and direction in force are valid.
LEMMA SortInForce ==
  ASSUME OrderInv
  PROVE  Sort \in SortBy /\ Direction \in SortOrder
  BY DEF OrderInv, Sort, Direction, normaliseSortBy, normaliseSortOrder,
         defaultSortOrder, SortBy, SortOrder

(***************************************************************************)
(* ORDER BY is total on rows of different ids, under every sort.           *)
(***************************************************************************)
THEOREM SortsAreTotal == Spec => []OrderIsTotal
<1>1. OrderInv => OrderIsTotal
  BY OrderIrreflexive, OrderTotal DEF OrderInv, OrderIsTotal
<1> QED
  BY <1>1, OrderInvariant, PTL

(***************************************************************************)
(* The condition of a cursor that came back from the client is TRUE of     *)
(* exactly the rows that ORDER BY puts after the row it was made from.     *)
(***************************************************************************)
THEOREM CursorsSelectAfter == Spec => []CursorSelectsAfter
<1>1. ASSUME OrderInv
      PROVE  CursorSelectsAfter
  <2>1. Cursor = buildCursor(Sort, Direction, a)
    BY CursorRoundTrip DEF Cursor
  <2>2. Sort \in SortBy /\ Direction \in SortOrder
    BY <1>1, SortInForce
  <2>3. IsRow(a) /\ IsRow(b)
    BY <1>1 DEF OrderInv
  <2>4. (\E j \in DOMAIN cursorCondition(Sort, Direction, Cursor, b) :
           cursorCondition(Sort, Direction, Cursor, b)[j])
          <=> OrderBefore(Sort, Direction, a, b)
    BY <2>1, <2>2, <2>3, SomeOperand
  <2> QED
    BY <2>4 DEF CursorSelectsAfter
<1> QED
  BY <1>1, OrderInvariant, PTL

=============================================================================
