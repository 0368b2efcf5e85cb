---------------------------- MODULE KeysetOrder ----------------------------
(***************************************************************************)
(* The cursors of Keyset against ORDER BY.  The variables are two rows and *)
(* the sort of a request: a page ends with the row a, its cursor goes to   *)
(* the client and comes back, and the next page is asked for.              *)
(***************************************************************************)
EXTENDS Keyset

CONSTANT Rows      \* the rows to compare

ASSUME RowsAssumption == \A r \in Rows : IsRow(r)

VARIABLES a, b,   \* two rows
          s, o    \* a sort column and a direction, "" for the default

vars == <<a, b, s, o>>

Init ==
  /\ a \in Rows
  /\ b \in {r \in Rows : r["id"] # a["id"]}
  /\ s = ""
  /\ o = ""

\* The next list request asks for another sort.
Resort ==
  /\ s' \in SortBy \union {""}
  /\ o' \in SortOrder \union {""}
  /\ UNCHANGED <<a, b>>

Spec == Init /\ [][Resort]_vars

Sort == normaliseSortBy(s)
Direction == normaliseSortOrder(o, Sort)
Cursor == DecodeCursor(EncodeCursor(buildCursor(Sort, Direction, a)))

\* ORDER BY puts one of any two rows of different ids before the other, NULL
\* composition_ids included: the id is the last column of every sort, so that
\* no two rows tie and a page has one last row.
OrderIsTotal ==
  /\ ~OrderBefore(Sort, Direction, a, a)
  /\ OrderBefore(Sort, Direction, a, b)
       <=> ~OrderBefore(Sort, Direction, b, a)

\* A cursor built from row a selects exactly the rows that ORDER BY puts
\* after a, once it has gone to the client and back as a token that leaves
\* out empty fields.  (The condition taken alone, not within the clause.)
CursorSelectsAfter ==
  (\E j \in DOMAIN cursorCondition(Sort, Direction, Cursor, b) :
     cursorCondition(Sort, Direction, Cursor, b)[j])
  <=> OrderBefore(Sort, Direction, a, b)

=============================================================================
