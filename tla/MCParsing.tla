----------------------------- MODULE MCParsing -----------------------------
(***************************************************************************)
(* A small instance of Parsing.  Texts: 1 and 2 are words, 3 is "default", *)
(* 4 is "*", 5 is "null" and 9 is too long.  Labels 7 are too long only    *)
(* when marshalled again (escaped), 8 only as sent (with blanks).          *)
(***************************************************************************)
EXTENDS Parsing

\* A row that the bare request asks for.
BareRow ==
  [c \in Column |->
     CASE c = "namespace" -> DefaultText
       [] c = "deleted_at" -> NULL
       [] OTHER -> 1]

\* Cursors: of a row with a composition and of one without, and cursors
\* without the field of their sort.
ATime == EncodeCursor(buildCursor("created_at", "desc", BareRow))

NoComposition ==
  EncodeCursor(buildCursor("composition_id", "asc",
                           [BareRow EXCEPT !["composition_id"] = NULL]))

Incomplete(s, o) ==
  [f \in {"SortBy", "SortOrder", "id"} |->
     CASE f = "SortBy" -> s [] f = "SortOrder" -> o [] OTHER -> 1]

MCToken == {ATime, NoComposition, Incomplete("created_at", "desc"),
            Incomplete("composition_id", "asc")}

Special(f) ==
  CASE f \in TextParam \ {"namespace"} -> {1, 2, 9}
    [] f = "namespace" -> {1, 3, 4, 9}
    [] f = "composition_id" -> {1, MALFORMED}
    [] f = "name_contains" -> {{1, 2}, {9}}
    [] f = "labels" -> {{1}, {7}, {8}, {9}, MALFORMED}
    [] f = "since" -> {1, 2, MALFORMED}
    [] f \in {"raw", "status_raw"} -> {TRUE, FALSE, MALFORMED}
    [] f = "sort_by" -> {"resource", "created_at", "composition_id", MALFORMED}
    [] f = "sort_order" -> {"asc", "desc", MALFORMED}
    [] f = "limit" -> {-1, 0, 1, 5000, 5001, MALFORMED}
    [] f = "cursor" -> MCToken \union {MALFORMED}

MCValues == [f \in Param |-> {UNSET, nullWord} \union Special(f)]

MCFilter == {{1}, {1, 2}, {5}, {7}, {8}, {9}}

MCLongFilter == {{8}, {9}}

MCLongLabels == {{7}, {9}}

\* A good check, and one for each rule that it may break.
Good == [Verb |-> "get", Group |-> 0, Resource |-> 1, Namespace |-> 0]

MCCanIChecks ==
  {Good, [Good EXCEPT !.Verb = "*"], [Good EXCEPT !.Resource = 0],
   [Good EXCEPT !.Namespace = 9]}

\* That row, and rows that differ from it in a column.
SomeRow ==
  {BareRow} \union {[BareRow EXCEPT !["deleted_at"] = 1]}
            \union {[BareRow EXCEPT !["composition_id"] = NULL]}
            \union {[BareRow EXCEPT ![c] = n] :
                      c \in Column \ {"id", "deleted_at"}, n \in 0..2}

=============================================================================
