---------------------------- MODULE KeysetProofs ----------------------------
(***************************************************************************)
(* Lemmas about the operators of Keyset, for rows of any size and content. *)
(***************************************************************************)
EXTENDS Keyset, TLAPS

\* Cells of a column: ranks or NULL.
Cell == Nat \union {NULL}

(***************************************************************************)
(* The order of one column is irreflexive and transitive, NULLs included.  *)
(***************************************************************************)
LEMMA ColumnOrder ==
  ASSUME NEW o, NEW x \in Cell, NEW y \in Cell, NEW z \in Cell
  PROVE  /\ ~ColumnBefore(o, x, x)
         /\ ColumnBefore(o, x, y) /\ ColumnBefore(o, y, z)
              => ColumnBefore(o, x, z)
  BY NullAssumption DEF ColumnBefore, Cell

(***************************************************************************)
(* A lexicographic order over columns of cells is irreflexive and          *)
(* transitive: the smaller of the two deciding positions decides.          *)
(***************************************************************************)
LEMMA LexIrreflexive ==
  ASSUME NEW o, NEW cols, NEW a,
         \A i \in DOMAIN cols : a[cols[i]] \in Cell
  PROVE  ~LexBefore(cols, o, a, a)
  BY ColumnOrder DEF LexBefore

\* And transitive.
LEMMA LexTransitive ==
  ASSUME NEW o, NEW n \in Nat, NEW cols, DOMAIN cols = 1..n,
         NEW a, NEW b, NEW c,
         \A i \in DOMAIN cols : /\ a[cols[i]] \in Cell
                                /\ b[cols[i]] \in Cell
                                /\ c[cols[i]] \in Cell,
         LexBefore(cols, o, a, b), LexBefore(cols, o, b, c)
  PROVE  LexBefore(cols, o, a, c)
<1>1. PICK i \in DOMAIN cols :
        /\ ColumnBefore(o, a[cols[i]], b[cols[i]])
        /\ \A j \in 1..(i - 1) : a[cols[j]] = b[cols[j]]
  BY DEF LexBefore
<1>2. PICK k \in DOMAIN cols :
        /\ ColumnBefore(o, b[cols[k]], c[cols[k]])
        /\ \A j \in 1..(k - 1) : b[cols[j]] = c[cols[j]]
  BY DEF LexBefore
<1>3. CASE i < k
  <2>1. b[cols[i]] = c[cols[i]]
    BY <1>2, <1>3
  <2>2. \A j \in 1..(i - 1) : a[cols[j]] = c[cols[j]]
    BY <1>1, <1>2, <1>3
  <2> QED
    BY <1>1, <2>1, <2>2 DEF LexBefore
<1>4. CASE k < i
  <2>1. a[cols[k]] = b[cols[k]]
    BY <1>1, <1>4
  <2>2. \A j \in 1..(k - 1) : a[cols[j]] = c[cols[j]]
    BY <1>1, <1>2, <1>4
  <2> QED
    BY <1>2, <2>1, <2>2 DEF LexBefore
<1>5. CASE i = k
  <2>1. ColumnBefore(o, a[cols[i]], c[cols[i]])
    BY <1>1, <1>2, <1>5, ColumnOrder
  <2>2. \A j \in 1..(i - 1) : a[cols[j]] = c[cols[j]]
    BY <1>1, <1>2, <1>5
  <2> QED
    BY <2>1, <2>2 DEF LexBefore
<1> QED
  BY <1>3, <1>4, <1>5

(***************************************************************************)
(* ORDER BY is a strict partial order on rows, for every sort.             *)
(***************************************************************************)
LEMMA SortColumnsAreColumns ==
  ASSUME NEW s
  PROVE  /\ DOMAIN SortColumns(s) = 1..(IF s \in SortBy \ {"resource"}
                                          THEN 2 ELSE 6)
         /\ \A i \in DOMAIN SortColumns(s) : SortColumns(s)[i] \in Column
<1>1. CASE s \in SortBy \ {"resource"}
  <2>1. SortColumns(s) = <<s, "id">>
    BY <1>1 DEF SortColumns
  <2>2. s \in Column /\ "id" \in Column
    BY <1>1 DEF SortBy, Column
  <2> QED
    BY <1>1, <2>1, <2>2
<1>2. CASE s \notin SortBy \ {"resource"}
  <2> DEFINE identity == <<"resource_group", "resource_version",
                           "resource_plural", "namespace", "resource_name",
                           "id">>
  <2>1. SortColumns(s) = identity
    BY <1>2 DEF SortColumns
  <2>2. DOMAIN identity = 1..6
    OBVIOUS
  <2>3. \A i \in 1..6 : identity[i] \in Column
    BY DEF Column
  <2> QED
    BY <1>2, <2>1, <2>2, <2>3
<1> QED
  BY <1>1, <1>2

\* Each column of a row is a rank or NULL.
LEMMA RowCells ==
  ASSUME NEW r, IsRow(r), NEW c \in Column
  PROVE  r[c] \in Cell
  BY DEF IsRow, Cell

\* ORDER BY puts no row before itself.
LEMMA OrderIrreflexive ==
  ASSUME NEW s, NEW o, NEW a, IsRow(a)
  PROVE  ~OrderBefore(s, o, a, a)
  BY LexIrreflexive, SortColumnsAreColumns, RowCells DEF OrderBefore

\* ORDER BY is transitive.
LEMMA OrderTransitive ==
  ASSUME NEW s, NEW o, NEW a, NEW b, NEW c, IsRow(a), IsRow(b), IsRow(c),
         OrderBefore(s, o, a, b), OrderBefore(s, o, b, c)
  PROVE  OrderBefore(s, o, a, c)
<1> DEFINE n == IF s \in SortBy \ {"resource"} THEN 2 ELSE 6
<1>1. n \in Nat /\ DOMAIN SortColumns(s) = 1..n
  BY SortColumnsAreColumns
<1>2. \A i \in DOMAIN SortColumns(s) : /\ a[SortColumns(s)[i]] \in Cell
                                       /\ b[SortColumns(s)[i]] \in Cell
                                       /\ c[SortColumns(s)[i]] \in Cell
  BY SortColumnsAreColumns, RowCells
<1> QED
  BY <1>1, <1>2, LexTransitive DEF OrderBefore

(***************************************************************************)
(* A token decodes to the cursor it was made from: leaving out the empty   *)
(* fields loses nothing.  No token is the empty one.                       *)
(***************************************************************************)
LEMMA CursorRoundTrip ==
  ASSUME NEW s, NEW o, NEW r
  PROVE  /\ EncodeCursor(buildCursor(s, o, r)) # NoCursor
         /\ DecodeCursor(EncodeCursor(buildCursor(s, o, r)))
              = buildCursor(s, o, r)
         /\ buildCursor(s, o, r) # NoCursor
<1> DEFINE c == buildCursor(s, o, r)
           t == EncodeCursor(c)
<1>1. c = [f \in CursorField |-> c[f]]
  BY DEF buildCursor
<1>2. /\ DOMAIN t = {g \in CursorField :
                       g \in {"SortBy", "id"} \/ c[g] # ZeroValue(g)}
      /\ \A f \in DOMAIN t : t[f] = c[f]
  BY DEF EncodeCursor
<1> HIDE DEF c, t
<1>3. "id" \in DOMAIN t /\ "id" \in DOMAIN c
  BY <1>1, <1>2 DEF CursorField
<1>4. "id" \notin DOMAIN NoCursor
  <2>1. DOMAIN NoCursor = {}
    BY DEF NoCursor
  <2> QED BY <2>1
<1>5. t # NoCursor /\ c # NoCursor
  BY <1>3, <1>4
<1>6. \A f \in CursorField :
        (IF f \in DOMAIN t THEN t[f] ELSE ZeroValue(f)) = c[f]
  BY <1>2
<1>7. DecodeCursor(t) = c
  BY <1>1, <1>5, <1>6 DEF DecodeCursor
<1> QED
  BY <1>5, <1>7 DEF c, t

(***************************************************************************)
(* The WHERE text: when every condition but the last is a single operand,  *)
(* the clause is the conjunction of all the conditions' first operands, or *)
(* any further operand of the last condition.                              *)
(***************************************************************************)
LEMMA RenderTail ==
  ASSUME NEW n \in Nat, n >= 2, NEW w, Len(w) = n, DOMAIN w = 1..n,
         \A i \in 1..(n - 1) : Len(w[i]) = 1 /\ DOMAIN w[i] = {1},
         NEW k \in Nat, k >= 1, Len(w[n]) = k, DOMAIN w[n] = 1..k
  PROVE  Render(w) <=> \/ \A i \in 1..n : w[i][1]
                       \/ \E j \in 2..k : w[n][j]
<1>1. ASSUME \A i \in 1..n : w[i][1]
      PROVE  Render(w)
  <2>1. 1 \in DOMAIN w /\ 1 \in DOMAIN w[1]
    OBVIOUS
  <2>2. \A m \in (1 + 1)..Len(w) : w[m][1]
    BY <1>1
  <2> QED
    BY <1>1, <2>1, <2>2 DEF Render
<1>2. ASSUME NEW j \in 2..k, w[n][j]
      PROVE  Render(w)
  <2>1. n \in DOMAIN w /\ j \in DOMAIN w[n] /\ (n + 1)..Len(w) = {}
    OBVIOUS
  <2> QED
    BY <1>2, <2>1 DEF Render
<1>3. ASSUME Render(w)
      PROVE  \/ \A i \in 1..n : w[i][1]
             \/ \E j \in 2..k : w[n][j]
  <2>1. PICK i \in DOMAIN w : \E j \in DOMAIN w[i] :
           /\ i = 1 \/ j > 1
           /\ w[i][j]
           /\ j = Len(w[i]) =>
                \A m \in (i + 1)..Len(w) :
                  (\A q \in (i + 1)..(m - 1) : Len(w[q]) = 1) => w[m][1]
    BY <1>3 DEF Render
  <2>2. PICK j \in DOMAIN w[i] :
           /\ i = 1 \/ j > 1
           /\ w[i][j]
           /\ j = Len(w[i]) =>
                \A m \in (i + 1)..Len(w) :
                  (\A q \in (i + 1)..(m - 1) : Len(w[q]) = 1) => w[m][1]
    BY <2>1
  <2>3. CASE i = n
    BY <2>2, <2>3
  <2>4. CASE i # n
    <3>a. i \in 1..(n - 1)
      BY <2>4
    <3>b. j = 1 /\ Len(w[i]) = 1
      BY <3>a
    <3>1. i = 1 /\ j = 1 /\ j = Len(w[1])
      BY <2>2, <3>b
    <3>2. \A m \in 2..n : w[m][1]
      <4> TAKE m \in 2..n
      <4>1. \A q \in (1 + 1)..(m - 1) : Len(w[q]) = 1
        OBVIOUS
      <4> QED
        BY <2>2, <3>1, <4>1
    <3> QED
      BY <2>2, <3>1, <3>2
  <2> QED
    BY <2>3, <2>4
<1> QED
  BY <1>1, <1>2, <1>3

(***************************************************************************)
(* The WHERE clause of the list query: the ten filters, then the condition *)
(* of the cursor, whose operands after the first escape the filters.       *)
(***************************************************************************)
Filters(p, allowed, r) ==
  /\ r["deleted_at"] = NULL
  /\ r["resource_group"] = p.ResourceGroup
  /\ p.ResourceVersion = 0 \/ r["resource_version"] = p.ResourceVersion
  /\ allowed = {} \/ TargetOf(r) \in allowed
  /\ p.Cluster = 0 \/ r["cluster_name"] = p.Cluster
  /\ p.CompositionID = 0 \/ r["composition_id"] = p.CompositionID
  /\ p.Name = 0 \/ r["resource_name"] = p.Name
  /\ p.NameContains = NULL \/ r["resource_name"] \in p.NameContains
  /\ p.Labels = NULL \/ r["labels"] \in p.Labels
  /\ p.Since = NULL \/ r["updated_at"] >= p.Since

CursorPart(p, cur, r) ==
  IF cur = NoCursor
    THEN Atom(TRUE)
    ELSE cursorCondition(SortByOf(p), SortOrderOf(p), cur, r)

\* A condition without an OR of its own is one operand.
LEMMA SingleOperand ==
  ASSUME NEW b
  PROVE  Len(Atom(b)) = 1 /\ DOMAIN Atom(b) = {1} /\ Atom(b)[1] = b
  BY DEF Atom

\* The WHERE clause of a page, condition by condition.
LEMMA SelectsUnfold ==
  ASSUME NEW p, NEW allowed, NEW cur, NEW r,
         NEW k \in Nat, k >= 1, Len(CursorPart(p, cur, r)) = k,
         DOMAIN CursorPart(p, cur, r) = 1..k
  PROVE  ListSelects(p, allowed, cur, r)
           <=> \/ Filters(p, allowed, r) /\ CursorPart(p, cur, r)[1]
               \/ \E j \in 2..k : CursorPart(p, cur, r)[j]
<1> DEFINE w == ListWhere(p, allowed, cur, r)
           c == CursorPart(p, cur, r)
<1>1. Len(w) = 11 /\ DOMAIN w = 1..11
  BY DEF ListWhere
<1>2. /\ w[1] = Atom(r["deleted_at"] = NULL)
      /\ w[2] = Atom(r["resource_group"] = p.ResourceGroup)
      /\ w[3] = Atom(p.ResourceVersion = 0
                       \/ r["resource_version"] = p.ResourceVersion)
      /\ w[4] = Atom(allowed = {} \/ TargetOf(r) \in allowed)
      /\ w[5] = Atom(p.Cluster = 0 \/ r["cluster_name"] = p.Cluster)
      /\ w[6] = Atom(p.CompositionID = 0
                       \/ r["composition_id"] = p.CompositionID)
      /\ w[7] = Atom(p.Name = 0 \/ r["resource_name"] = p.Name)
      /\ w[8] = Atom(p.NameContains = NULL
                       \/ r["resource_name"] \in p.NameContains)
      /\ w[9] = Atom(p.Labels = NULL \/ r["labels"] \in p.Labels)
      /\ w[10] = Atom(p.Since = NULL \/ r["updated_at"] >= p.Since)
      /\ w[11] = c
  BY DEF ListWhere, CursorPart
<1> HIDE DEF w
<1>3. \A i \in 1..10 : Len(w[i]) = 1 /\ DOMAIN w[i] = {1}
  <2>1. \A i \in 1..10 : \E b : w[i] = Atom(b)
    BY <1>2
  <2> QED
    BY <2>1, SingleOperand
<1>4. (\A i \in 1..10 : w[i][1]) <=> Filters(p, allowed, r)
  <2>1. (\A i \in 1..10 : w[i][1])
          <=> /\ w[1][1] /\ w[2][1] /\ w[3][1] /\ w[4][1] /\ w[5][1]
              /\ w[6][1] /\ w[7][1] /\ w[8][1] /\ w[9][1] /\ w[10][1]
    OBVIOUS
  <2>2. /\ w[1][1] <=> r["deleted_at"] = NULL
        /\ w[2][1] <=> r["resource_group"] = p.ResourceGroup
        /\ w[3][1] <=> (p.ResourceVersion = 0
                           \/ r["resource_version"] = p.ResourceVersion)
        /\ w[4][1] <=> (allowed = {} \/ TargetOf(r) \in allowed)
        /\ w[5][1] <=> (p.Cluster = 0 \/ r["cluster_name"] = p.Cluster)
    BY <1>2, SingleOperand DEF Atom
  <2>3. /\ w[6][1] <=> (p.CompositionID = 0
                           \/ r["composition_id"] = p.CompositionID)
        /\ w[7][1] <=> (p.Name = 0 \/ r["resource_name"] = p.Name)
        /\ w[8][1] <=> (p.NameContains = NULL
                           \/ r["resource_name"] \in p.NameContains)
        /\ w[9][1] <=> (p.Labels = NULL \/ r["labels"] \in p.Labels)
        /\ w[10][1] <=> (p.Since = NULL \/ r["updated_at"] >= p.Since)
    BY <1>2, SingleOperand DEF Atom
  <2> QED
    BY <2>1, <2>2, <2>3 DEF Filters
<1>5. Render(w) <=> \/ \A i \in 1..11 : w[i][1]
                    \/ \E j \in 2..k : w[11][j]
  <2>1. Len(w[11]) = k /\ DOMAIN w[11] = 1..k
    BY <1>2
  <2>2. 11 \in Nat /\ 11 >= 2 /\ 11 - 1 = 10
    OBVIOUS
  <2>3. \A i \in 1..(11 - 1) : Len(w[i]) = 1 /\ DOMAIN w[i] = {1}
    BY <1>3
  <2> QED
    BY <1>1, <2>1, <2>2, <2>3, RenderTail, Zenon
<1>6. (\A i \in 1..11 : w[i][1]) <=> (\A i \in 1..10 : w[i][1]) /\ c[1]
  BY <1>2
<1>7. ListSelects(p, allowed, cur, r) <=> Render(w)
  BY DEF ListSelects, w
<1> QED
  BY <1>2, <1>4, <1>5, <1>6, <1>7

\* The clause when the cursor condition has one operand, or two.
LEMMA SelectsOneOrTwo ==
  ASSUME NEW p, NEW allowed, NEW cur, NEW r
  PROVE  LET c == CursorPart(p, cur, r)
             selected == ListSelects(p, allowed, cur, r)
         IN /\ Len(c) = 1 /\ DOMAIN c = 1..1
                 => (selected <=> Filters(p, allowed, r) /\ c[1])
            /\ Len(c) = 2 /\ DOMAIN c = 1..2
                 => (selected <=> (Filters(p, allowed, r) /\ c[1]) \/ c[2])
<1> DEFINE c == CursorPart(p, cur, r)
           selected == ListSelects(p, allowed, cur, r)
<1>1. \A k \in Nat : k >= 1 /\ Len(c) = k /\ DOMAIN c = 1..k
         => (selected <=> \/ Filters(p, allowed, r) /\ c[1]
                          \/ \E j \in 2..k : c[j])
  BY SelectsUnfold, Zenon
<1> HIDE DEF c, selected
<1>2. Len(c) = 1 /\ DOMAIN c = 1..1
        => (selected <=> Filters(p, allowed, r) /\ c[1])
  <2>1. 1 \in Nat /\ 1 >= 1 /\ 2..1 = {}
    OBVIOUS
  <2> QED
    BY <1>1, <2>1
<1>3. Len(c) = 2 /\ DOMAIN c = 1..2
        => (selected <=> (Filters(p, allowed, r) /\ c[1]) \/ c[2])
  <2>1. 2 \in Nat /\ 2 >= 1 /\ 2..2 = {2}
    OBVIOUS
  <2> QED
    BY <1>1, <2>1
<1> QED
  BY <1>2, <1>3 DEF c, selected

\* The one condition with an operand outside parentheses.
Splits(s, o, l) ==
  s = "composition_id" /\ o = "desc" /\ l["composition_id"] = NULL

\* What a cursor keeps of the row it is built from.
LEMMA CursorFields ==
  ASSUME NEW s \in SortBy, NEW o, NEW l
  PROVE  LET cur == buildCursor(s, o, l) IN
         /\ cur["SortBy"] = s
         /\ cur["SortOrder"] = o
         /\ cur["CompositionIDNull"]
              <=> s = "composition_id" /\ l["composition_id"] = NULL
         /\ \A f \in CursorColumns(s) : cur[f] = l[f]
<1> DEFINE cur == buildCursor(s, o, l)
<1>1. /\ cur["SortBy"] = s
      /\ cur["SortOrder"] = o
      /\ cur["CompositionIDNull"]
           <=> s = "composition_id" /\ l["composition_id"] = NULL
      /\ \A f \in CursorField \ {"SortBy", "SortOrder", "CompositionIDNull"} :
           cur[f] = IF f \in CursorColumns(s) THEN l[f] ELSE ZeroValue(f)
  BY DEF buildCursor, CursorField
<1>3. \A f \in CursorColumns(s) :
        /\ f \in CursorField
        /\ f \notin {"SortBy", "SortOrder", "CompositionIDNull"}
  <2>1. CASE s = "resource"
    BY <2>1 DEF CursorColumns, CursorField
  <2>2. CASE s # "resource"
    BY <2>2 DEF CursorColumns, CursorField, SortBy
  <2> QED
    BY <2>1, <2>2
<1> HIDE DEF cur
<1> QED
  BY <1>1, <1>3 DEF cur

\* The operator of a cursor condition is the direction of the sort.
LEMMA BeyondIsAfter ==
  ASSUME NEW o, NEW x \in Nat, NEW y \in Nat
  PROVE  Beyond(o, y, x) <=> ColumnBefore(o, x, y)
  BY NullAssumption DEF Beyond, ColumnBefore

\* The row comparison of a cursor is ORDER BY.
LEMMA RowCondition ==
  ASSUME NEW s \in SortBy \ {"composition_id"}, NEW o, NEW l, NEW r,
         IsRow(l), IsRow(r)
  PROVE  RowBeyond(ConditionColumns(s), o, r, buildCursor(s, o, l))
           <=> OrderBefore(s, o, l, r)
<1> DEFINE cols == SortColumns(s)
           cur == buildCursor(s, o, l)
<1>1. ConditionColumns(s) = cols
  BY DEF ConditionColumns, SortColumns, SortBy
<1>2. \A i \in DOMAIN cols :
        cols[i] \in Column \ Nullable /\ cols[i] \in CursorColumns(s)
  <2>1. CASE s = "resource"
    <3>1. cols = <<"resource_group", "resource_version", "resource_plural",
                   "namespace", "resource_name", "id">>
      BY <2>1 DEF SortColumns
    <3>2. /\ DOMAIN cols = 1..6
          /\ \A i \in 1..6 : cols[i] \in
               {"resource_group", "resource_version", "resource_plural",
                "namespace", "resource_name", "id"}
      BY <3>1
    <3> HIDE DEF cols
    <3>3. CursorColumns(s) = {"id", "resource_group", "resource_version",
                              "resource_plural", "namespace",
                              "resource_name"}
      BY <2>1 DEF CursorColumns
    <3> QED
      BY <3>2, <3>3 DEF Column, Nullable
  <2>2. CASE s # "resource"
    <3>1. cols = <<s, "id">> /\ CursorColumns(s) = {"id", s}
      BY <2>2 DEF SortColumns, SortBy, CursorColumns
    <3>2. s \in Column \ Nullable
      BY <2>2 DEF SortBy, Column, Nullable
    <3> QED
      BY <3>1, <3>2 DEF Column, Nullable
  <2> QED
    BY <2>1, <2>2
<1>3. \A i \in DOMAIN cols :
        l[cols[i]] \in Nat /\ r[cols[i]] \in Nat /\ cur[cols[i]] = l[cols[i]]
  BY <1>2, CursorFields DEF IsRow
<1> HIDE DEF cols, cur
<1>4. \A i \in DOMAIN cols :
        Beyond(o, r[cols[i]], cur[cols[i]])
          <=> ColumnBefore(o, l[cols[i]], r[cols[i]])
  BY <1>3, BeyondIsAfter
<1>5. \E n \in Nat : DOMAIN cols = 1..n
  BY SortColumnsAreColumns DEF cols
<1>6. \A i \in DOMAIN cols : \A j \in 1..(i - 1) :
        (r[cols[j]] = cur[cols[j]]) <=> (l[cols[j]] = r[cols[j]])
  BY <1>3, <1>5
<1>7. RowBeyond(cols, o, r, cur) <=> LexBefore(cols, o, l, r)
  BY <1>4, <1>6 DEF RowBeyond, LexBefore
<1> QED
  BY <1>1, <1>7 DEF OrderBefore, cols, cur

\* ORDER BY composition_id, id written out.
LEMMA CompositionOrder ==
  ASSUME NEW o, NEW l, NEW r
  PROVE  OrderBefore("composition_id", o, l, r)
           <=> \/ ColumnBefore(o, l["composition_id"], r["composition_id"])
               \/ /\ l["composition_id"] = r["composition_id"]
                  /\ ColumnBefore(o, l["id"], r["id"])
<1> DEFINE cols == SortColumns("composition_id")
<1>1. cols = <<"composition_id", "id">>
  BY DEF SortColumns, SortBy
<1>2. DOMAIN cols = {1, 2} /\ cols[1] = "composition_id" /\ cols[2] = "id"
  BY <1>1
<1> HIDE DEF cols
<1>3. LexBefore(cols, o, l, r)
        <=> \/ /\ ColumnBefore(o, l[cols[1]], r[cols[1]])
               /\ \A j \in 1..(1 - 1) : l[cols[j]] = r[cols[j]]
            \/ /\ ColumnBefore(o, l[cols[2]], r[cols[2]])
               /\ \A j \in 1..(2 - 1) : l[cols[j]] = r[cols[j]]
  BY <1>2 DEF LexBefore
<1>4. 1..(1 - 1) = {} /\ 1..(2 - 1) = {1}
  OBVIOUS
<1> QED
  BY <1>2, <1>3, <1>4 DEF OrderBefore, cols

\* The four conditions on composition_id are ORDER BY, NULLs included.
LEMMA CompositionCondition ==
  ASSUME NEW o \in SortOrder, NEW l, NEW r, IsRow(l), IsRow(r)
  PROVE  LET cond == compositionIDCursorCondition(
                       o, buildCursor("composition_id", o, l), r)
         IN /\ ~Splits("composition_id", o, l)
                 => \E b : /\ cond = Atom(b)
                           /\ b <=> OrderBefore("composition_id", o, l, r)
            /\ Splits("composition_id", o, l)
                 => \E b, d : /\ cond = <<b, d>>
                              /\ b \/ d
                                   <=> OrderBefore("composition_id", o, l, r)
<1> DEFINE cur == buildCursor("composition_id", o, l)
           cond == compositionIDCursorCondition(o, cur, r)
           x == l["composition_id"]
           y == r["composition_id"]
           afterId == Beyond(o, r["id"], cur["id"])
           pastValue == Beyond(o, y, cur["composition_id"])
                          \/ (y = cur["composition_id"] /\ afterId)
<1>1. /\ cur["CompositionIDNull"] <=> x = NULL
      /\ cur["id"] = l["id"]
      /\ cur["composition_id"] = x
  <2>1. "composition_id" \in SortBy
    BY DEF SortBy
  <2>2. {"id", "composition_id"} \subseteq CursorColumns("composition_id")
    BY DEF CursorColumns
  <2> QED
    BY <2>1, <2>2, CursorFields
<1>2. /\ l["id"] \in Nat /\ r["id"] \in Nat
      /\ x \in Cell /\ y \in Cell
  BY DEF IsRow, Column, Nullable, Cell
<1>3. afterId <=> ColumnBefore(o, l["id"], r["id"])
  BY <1>1, <1>2, BeyondIsAfter
<1>4. OrderBefore("composition_id", o, l, r)
        <=> ColumnBefore(o, x, y) \/ (x = y /\ afterId)
  BY <1>3, CompositionOrder
<1>5. CASE o = "desc" /\ x = NULL
  <2>1. cond = <<y = NULL /\ afterId, y # NULL>>
    BY <1>1, <1>5 DEF compositionIDCursorCondition
  <2>2. (y = NULL /\ afterId) \/ y # NULL
          <=> OrderBefore("composition_id", o, l, r)
    BY <1>4, <1>5 DEF ColumnBefore
  <2> HIDE DEF cond, afterId
  <2> QED
    BY <1>5, <2>1, <2>2 DEF Splits, cond
<1>6. CASE o = "desc" /\ x # NULL
  <2>1. cond = Atom(y # NULL /\ pastValue)
    BY <1>1, <1>6 DEF compositionIDCursorCondition
  <2>2. y # NULL /\ pastValue <=> OrderBefore("composition_id", o, l, r)
    BY <1>1, <1>2, <1>4, <1>6 DEF ColumnBefore, Beyond, Cell
  <2> QED
    BY <1>6, <2>1, <2>2 DEF Splits
<1>7. CASE o # "desc" /\ x = NULL
  <2>1. cond = Atom(y = NULL /\ afterId)
    BY <1>1, <1>7 DEF compositionIDCursorCondition
  <2>2. y = NULL /\ afterId <=> OrderBefore("composition_id", o, l, r)
    BY <1>4, <1>7 DEF ColumnBefore
  <2> QED
    BY <1>7, <2>1, <2>2 DEF Splits
<1>8. CASE o # "desc" /\ x # NULL
  <2>1. cond = Atom(y = NULL \/ pastValue)
    BY <1>1, <1>8 DEF compositionIDCursorCondition
  <2>2. y = NULL \/ pastValue <=> OrderBefore("composition_id", o, l, r)
    BY <1>1, <1>2, <1>4, <1>8 DEF ColumnBefore, Beyond, Cell
  <2> QED
    BY <1>8, <2>1, <2>2 DEF Splits
<1> QED
  BY <1>5, <1>6, <1>7, <1>8

\* Every cursor condition has one operand, but the one that splits.
LEMMA CursorConditionForm ==
  ASSUME NEW s \in SortBy, NEW o \in SortOrder, NEW l, NEW r,
         IsRow(l), IsRow(r)
  PROVE  LET cond == cursorCondition(s, o, buildCursor(s, o, l), r)
         IN /\ ~Splits(s, o, l)
                 => \E b : cond = Atom(b) /\ (b <=> OrderBefore(s, o, l, r))
            /\ Splits(s, o, l)
                 => \E b, d : /\ cond = <<b, d>>
                              /\ b \/ d <=> OrderBefore(s, o, l, r)
<1>1. CASE s = "composition_id"
  BY <1>1, CompositionCondition DEF cursorCondition
<1>2. CASE s # "composition_id"
  BY <1>2, RowCondition DEF cursorCondition, Splits
<1> QED
  BY <1>1, <1>2

\* In either form some operand is TRUE of exactly the rows after row l.
LEMMA SomeOperand ==
  ASSUME NEW s \in SortBy, NEW o \in SortOrder, NEW l, NEW r,
         IsRow(l), IsRow(r)
  PROVE  LET cond == cursorCondition(s, o, buildCursor(s, o, l), r)
         IN (\E j \in DOMAIN cond : cond[j]) <=> OrderBefore(s, o, l, r)
<1>1. PICK cond : cond = cursorCondition(s, o, buildCursor(s, o, l), r)
  OBVIOUS
<1>2. \/ \E x : cond = Atom(x) /\ (x <=> OrderBefore(s, o, l, r))
      \/ \E x, y : cond = <<x, y>> /\ (x \/ y <=> OrderBefore(s, o, l, r))
  BY <1>1, CursorConditionForm
<1>3. ASSUME NEW x, cond = Atom(x), x <=> OrderBefore(s, o, l, r)
      PROVE  (\E j \in DOMAIN cond : cond[j]) <=> OrderBefore(s, o, l, r)
  <2>1. DOMAIN cond = {1} /\ cond[1] = x
    BY <1>3, SingleOperand
  <2> QED
    BY <1>3, <2>1
<1>4. ASSUME NEW x, NEW y, cond = <<x, y>>,
             x \/ y <=> OrderBefore(s, o, l, r)
      PROVE  (\E j \in DOMAIN cond : cond[j]) <=> OrderBefore(s, o, l, r)
  <2>1. DOMAIN cond = {1, 2} /\ cond[1] = x /\ cond[2] = y
    BY <1>4
  <2> QED
    BY <1>4, <2>1
<1> QED
  BY <1>1, <1>2, <1>3, <1>4

(***************************************************************************)
(* The first page: the query without a cursor selects exactly the rows     *)
(* that pass the filters.                                                  *)
(***************************************************************************)
LEMMA FirstPageSelection ==
  ASSUME NEW p, NEW allowed, NEW r
  PROVE  ListSelects(p, allowed, NoCursor, r) <=> Filters(p, allowed, r)
<1>1. CursorPart(p, NoCursor, r) = Atom(TRUE)
  BY DEF CursorPart
<1>2. Len(Atom(TRUE)) = 1 /\ DOMAIN Atom(TRUE) = 1..1 /\ Atom(TRUE)[1]
  BY DEF Atom
<1> QED
  BY <1>1, <1>2, SelectsOneOrTwo

(***************************************************************************)
(* A later page: whatever the sort, the query selects only rows beyond the *)
(* row of the cursor, and all of those that pass the filters.  Unless the  *)
(* condition of the cursor splits the clause, no other row is selected.    *)
(***************************************************************************)
THEOREM NextPageSelection ==
  ASSUME NEW p, SortByOf(p) \in SortBy, SortOrderOf(p) \in SortOrder,
         NEW allowed, NEW l, NEW r, IsRow(l), IsRow(r)
  PROVE  LET s == SortByOf(p)
             o == SortOrderOf(p)
             cur == buildCursor(s, o, l)
         IN /\ ListSelects(p, allowed, cur, r) => OrderBefore(s, o, l, r)
            /\ Filters(p, allowed, r) /\ OrderBefore(s, o, l, r)
                 => ListSelects(p, allowed, cur, r)
            /\ ListSelects(p, allowed, cur, r) /\ ~Splits(s, o, l)
                 => Filters(p, allowed, r)
<1> DEFINE s == SortByOf(p)
           o == SortOrderOf(p)
           cur == buildCursor(s, o, l)
           cond == CursorPart(p, cur, r)
<1>1. cond = cursorCondition(s, o, cur, r)
  BY CursorRoundTrip DEF CursorPart
<1>2. s \in SortBy /\ o \in SortOrder
  OBVIOUS
<1>3. /\ ~Splits(s, o, l)
           => \E b : cond = Atom(b) /\ (b <=> OrderBefore(s, o, l, r))
      /\ Splits(s, o, l)
           => \E b, d : /\ cond = <<b, d>>
                        /\ b \/ d <=> OrderBefore(s, o, l, r)
  BY <1>1, <1>2, CursorConditionForm
<1> HIDE DEF s, o, cur, cond
<1>4. CASE ~Splits(s, o, l)
  <2>1. PICK b : cond = Atom(b) /\ (b <=> OrderBefore(s, o, l, r))
    BY <1>3, <1>4
  <2>2. Len(cond) = 1 /\ DOMAIN cond = 1..1 /\ cond[1] = b
    BY <2>1, SingleOperand
  <2>3. ListSelects(p, allowed, cur, r)
          <=> Filters(p, allowed, r) /\ cond[1]
    BY <2>2, SelectsOneOrTwo DEF cond
  <2> QED
    BY <1>4, <2>1, <2>2, <2>3 DEF s, o, cur
<1>5. CASE Splits(s, o, l)
  <2>1. PICK b, d : cond = <<b, d>> /\ (b \/ d <=> OrderBefore(s, o, l, r))
    BY <1>3, <1>5
  <2>2. Len(cond) = 2 /\ DOMAIN cond = 1..2 /\ cond[1] = b /\ cond[2] = d
    BY <2>1
  <2>3. ListSelects(p, allowed, cur, r)
          <=> (Filters(p, allowed, r) /\ cond[1]) \/ cond[2]
    BY <2>2, SelectsOneOrTwo DEF cond
  <2> QED
    BY <1>5, <2>1, <2>2, <2>3 DEF s, o, cur
<1> QED
  BY <1>4, <1>5

=============================================================================
