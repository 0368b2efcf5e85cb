------------------------------- MODULE Keyset -------------------------------
(***************************************************************************)
(* The SQL of the list endpoint: sort orders, keyset cursors and the WHERE *)
(* clause (internal/sql).  Everything here is a pure operator.             *)
(*                                                                         *)
(* A row of krateo_resources maps each column to the rank of its value in  *)
(* the column's collation.  Rank 0 of a text column is the empty text,     *)
(* which is also "no filter" in ListParams.                                *)
(***************************************************************************)
EXTENDS Integers, Sequences, FiniteSets

CONSTANT NULL      \* SQL NULL, a nil pointer to a value, a filter not set

ASSUME NullAssumption == NULL \notin Nat

Column == {"id", "global_uid", "resource_group", "resource_version",
           "resource_plural", "namespace", "resource_name", "cluster_name",
           "composition_id", "labels", "created_at", "updated_at",
           "deleted_at"}

Nullable == {"composition_id", "deleted_at"}

IsRow(r) == /\ r \in [Column -> Nat \union {NULL}]
            /\ \A c \in Column \ Nullable : r[c] \in Nat

\* The (group, resource, namespace) triple that RBAC decides about.
TargetOf(r) == <<r["resource_group"], r["resource_plural"], r["namespace"]>>

-----------------------------------------------------------------------------
(* Sort columns and directions.                                            *)

SortBy == {"resource", "created_at", "updated_at", "global_uid",
           "composition_id"}

SortOrder == {"asc", "desc"}

normaliseSortBy(s) == IF s = "" THEN "resource" ELSE s

defaultSortOrder(s) ==
  IF s \in {"created_at", "updated_at"} THEN "desc" ELSE "asc"

normaliseSortOrder(o, s) == IF o = "" THEN defaultSortOrder(s) ELSE o

\* The sort column and direction a request ends up with.
SortByOf(p) == normaliseSortBy(p.SortBy)
SortOrderOf(p) == normaliseSortOrder(p.SortOrder, SortByOf(p))

\* Variant: the tiebreaker is forgotten.
SortColumns_NoTiebreak(s) ==
  IF s \in SortBy \ {"resource"}
    THEN <<s>>
    ELSE <<"resource_group", "resource_version", "resource_plural",
           "namespace", "resource_name">>

\* The columns of ORDER BY; all of them take the same direction.
SortColumns(s) ==
  IF s \in SortBy \ {"resource"}
    THEN <<s, "id">>
    ELSE <<"resource_group", "resource_version", "resource_plural",
           "namespace", "resource_name", "id">>

\* One column of ORDER BY: dirStr, and nullsClause for NULLs.
ColumnBefore(o, x, y) ==
  IF o = "desc"
    THEN \/ x = NULL /\ y # NULL
         \/ x # NULL /\ y # NULL /\ x > y
    ELSE \/ x # NULL /\ y = NULL
         \/ x # NULL /\ y # NULL /\ x < y

LexBefore(cols, o, a, b) ==
  \E i \in DOMAIN cols :
    /\ ColumnBefore(o, a[cols[i]], b[cols[i]])
    /\ \A j \in 1..(i - 1) : a[cols[j]] = b[cols[j]]

\* ORDER BY sortOrderSQL(s, o) puts row a before row b.
OrderBefore(s, o, a, b) == LexBefore(SortColumns(s), o, a, b)

-----------------------------------------------------------------------------
(* Cursors.  A cursor is a Go struct; its token is the JSON object with    *)
(* the omitempty fields that hold their zero value left out.               *)

\* The empty token, and the nil cursor it decodes to.
NoCursor == << >>

CursorField == {"SortBy", "SortOrder", "CompositionIDNull", "id",
                "updated_at", "created_at", "global_uid", "composition_id",
                "resource_group", "resource_version", "resource_plural",
                "namespace", "resource_name"}

ZeroValue(f) ==
  CASE f \in {"SortBy", "SortOrder"} -> ""
    [] f = "CompositionIDNull" -> FALSE
    [] f \in {"updated_at", "created_at", "composition_id"} -> NULL
    [] OTHER -> 0

\* The row columns that a cursor of each sort order carries.
CursorColumns(s) ==
  CASE s \in {"created_at", "updated_at", "global_uid", "composition_id"} ->
         {"id", s}
    [] OTHER -> {"id", "resource_group", "resource_version",
                 "resource_plural", "namespace", "resource_name"}

\* Variant: a NULL composition is not marked.
buildCursor_NoMark(s, o, r) ==
  [[f \in CursorField |->
      IF f \in CursorColumns(s) THEN r[f] ELSE ZeroValue(f)]
   EXCEPT !["SortBy"] = s, !["SortOrder"] = o]

buildCursor(s, o, r) ==
  [[f \in CursorField |->
      IF f \in CursorColumns(s) THEN r[f] ELSE ZeroValue(f)]
   EXCEPT !["SortBy"] = s,
          !["SortOrder"] = o,
          !["CompositionIDNull"] =
             (s = "composition_id" /\ r["composition_id"] = NULL)]

EncodeCursor(c) ==
  [f \in {g \in CursorField :
            g \in {"SortBy", "id"} \/ c[g] # ZeroValue(g)} |-> c[f]]

\* The tokens that the server may hand out for these rows.
TokensOf(rows) ==
  {EncodeCursor(buildCursor(s, o, r)) :
     s \in SortBy, o \in SortOrder, r \in rows}

\* Variant: a token that does not decode is taken for no token.
DecodeCursor_Lost(t) == NoCursor

DecodeCursor(t) ==
  IF t = NoCursor
    THEN NoCursor
    ELSE [f \in CursorField |-> IF f \in DOMAIN t THEN t[f] ELSE ZeroValue(f)]

\* Variant: the direction is not compared.
validateCursorSort_ColumnOnly(cur, s, o) ==
  cur = NoCursor \/ cur["SortBy"] = s

\* TRUE when the cursor may be used with this sort column and direction.
validateCursorSort(cur, s, o) ==
  cur = NoCursor \/ (cur["SortBy"] = s /\ cur["SortOrder"] = o)

-----------------------------------------------------------------------------
(* WHERE conditions.  A condition is the text given to Builder.Where: the  *)
(* sequence of the truth values, for one row, of the operands its OR       *)
(* leaves outside parentheses.  A condition with no such OR has length 1.  *)
(* A comparison with NULL is not TRUE, hence FALSE in a WHERE clause.      *)

Atom(b) == <<b>>

\* SQL x > y or x < y, where op is cursorOp(o).
Beyond(o, x, y) ==
  /\ x # NULL /\ y # NULL
  /\ IF o = "desc" THEN x < y ELSE x > y

\* Variants: >= for >, and a comparison of the first column alone.
RowBeyond_OrAt(cols, o, r, cur) ==
  \/ \A i \in DOMAIN cols : r[cols[i]] = cur[cols[i]]
  \/ \E i \in DOMAIN cols :
       /\ Beyond(o, r[cols[i]], cur[cols[i]])
       /\ \A j \in 1..(i - 1) : r[cols[j]] = cur[cols[j]]

RowBeyond_FirstColumn(cols, o, r, cur) ==
  Beyond(o, r[cols[1]], cur[cols[1]])

\* (c1, c2, ...) op (?, ?, ...): a row comparison.
RowBeyond(cols, o, r, cur) ==
  \E i \in DOMAIN cols :
    /\ Beyond(o, r[cols[i]], cur[cols[i]])
    /\ \A j \in 1..(i - 1) : r[cols[j]] = cur[cols[j]]

\* Variant: a plain row comparison, which is never TRUE of a NULL.
compositionIDCursorCondition_NoNulls(o, cur, r) ==
  Atom(RowBeyond(<<"composition_id", "id">>, o, r, cur))

compositionIDCursorCondition(o, cur, r) ==
  LET value == r["composition_id"]
      afterId == Beyond(o, r["id"], cur["id"])
      pastValue == \/ Beyond(o, value, cur["composition_id"])
                   \/ value = cur["composition_id"] /\ afterId
  IN CASE o = "desc" /\ cur["CompositionIDNull"] ->
            <<value = NULL /\ afterId, value # NULL>>
       [] o = "desc" /\ ~cur["CompositionIDNull"] ->
            Atom(value # NULL /\ pastValue)
       [] o # "desc" /\ cur["CompositionIDNull"] ->
            Atom(value = NULL /\ afterId)
       [] OTHER ->
            Atom(value = NULL \/ pastValue)

\* The columns that cursorCondition names, in its row comparisons.
ConditionColumns(s) ==
  IF s \in {"created_at", "updated_at", "global_uid"}
    THEN <<s, "id">>
    ELSE <<"resource_group", "resource_version", "resource_plural",
           "namespace", "resource_name", "id">>

\* The pointers that cursorCondition follows without asking whether they are
\* nil; with a nil one there is no condition, for the handler panics.
Dereferenced(s, cur) ==
  CASE s \in {"created_at", "updated_at"} -> {s}
    [] s = "composition_id" /\ ~cur["CompositionIDNull"] -> {"composition_id"}
    [] OTHER -> {}

cursorPanics(s, cur) == \E f \in Dereferenced(s, cur) : cur[f] = NULL

cursorCondition(s, o, cur, r) ==
  IF s = "composition_id"
    THEN compositionIDCursorCondition(o, cur, r)
    ELSE Atom(RowBeyond(ConditionColumns(s), o, r, cur))

\* Builder.Render writes c1 AND c2 AND ... as text.  AND binds tighter than
\* OR, so the clause is TRUE when some maximal run of operands joined by AND
\* is TRUE: a run starts at the first operand or after an OR and goes on
\* from the last operand of a condition to the first of the next one.
Render(w) ==
  \E i \in DOMAIN w : \E j \in DOMAIN w[i] :
    /\ i = 1 \/ j > 1
    /\ w[i][j]
    /\ j = Len(w[i]) =>
         \A m \in (i + 1)..Len(w) :
           (\A n \in (i + 1)..(m - 1) : Len(w[n]) = 1) => w[m][1]

-----------------------------------------------------------------------------
(* ListParams.  0 and NULL stand for a filter that is not set; NameContains *)
(* and Labels are the ranks that ILIKE and @> accept.                      *)

ListParams ==
  [ResourceGroup : Nat, ResourceVersion : Nat, ResourcePlural : Nat,
   Cluster : Nat, Namespace : Nat, CompositionID : Nat, Name : Nat,
   NameContains : (SUBSET Nat) \union {NULL},
   Labels : (SUBSET Nat) \union {NULL},
   Since : Nat \union {NULL}, SortBy : SortBy \union {""},
   SortOrder : SortOrder \union {""}, Limit : Nat \union {NULL}]

(* The two queries of the list endpoint, as predicates on a row.           *)

\* DiscoverTargets: every condition has no OR of its own.
DiscoverWhere(p, r) ==
  /\ r["deleted_at"] = NULL
  /\ r["resource_group"] = p.ResourceGroup
  /\ p.ResourceVersion = 0 \/ r["resource_version"] = p.ResourceVersion
  /\ p.ResourcePlural = 0 \/ r["resource_plural"] = p.ResourcePlural
  /\ p.Cluster = 0 \/ r["cluster_name"] = p.Cluster
  /\ p.Namespace = 0 \/ r["namespace"] = p.Namespace

\* Variant: discovery by the group alone.
DiscoverTargets_OfGroup(p, table) ==
  {TargetOf(r) : r \in {q \in table :
     q["deleted_at"] = NULL /\ q["resource_group"] = p.ResourceGroup}}

DiscoverTargets(p, table) ==
  {TargetOf(r) : r \in {q \in table : DiscoverWhere(p, q)}}

\* buildListQuery: the conditions in the order they are added.  A condition
\* the code leaves out is TRUE here: AND TRUE changes no run of Render.
ListWhere(p, allowed, cur, r) ==
  << Atom(r["deleted_at"] = NULL),
     Atom(r["resource_group"] = p.ResourceGroup),
     Atom(p.ResourceVersion = 0 \/ r["resource_version"] = p.ResourceVersion),
     Atom(allowed = {} \/ TargetOf(r) \in allowed),
     Atom(p.Cluster = 0 \/ r["cluster_name"] = p.Cluster),
     Atom(p.CompositionID = 0 \/ r["composition_id"] = p.CompositionID),
     Atom(p.Name = 0 \/ r["resource_name"] = p.Name),
     Atom(p.NameContains = NULL \/ r["resource_name"] \in p.NameContains),
     Atom(p.Labels = NULL \/ r["labels"] \in p.Labels),
     Atom(p.Since = NULL \/ r["updated_at"] >= p.Since),
     IF cur = NoCursor THEN Atom(TRUE)
       ELSE cursorCondition(SortByOf(p), SortOrderOf(p), cur, r) >>

ListSelects(p, allowed, cur, r) == Render(ListWhere(p, allowed, cur, r))

\* ORDER BY ... LIMIT n over a set of rows: its first n rows.
LimitedTo(rows, n, s, o) ==
  {P \in SUBSET rows :
     /\ \A a \in P, b \in rows \ P : OrderBefore(s, o, a, b)
     /\ Cardinality(P) <= n
     /\ P = rows \/ Cardinality(P) = n}

=============================================================================
