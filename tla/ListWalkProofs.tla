--------------------------- MODULE ListWalkProofs ---------------------------
(***************************************************************************)
(* Theorems about ListWalk for every table, limit and number of writes.    *)
(*                                                                         *)
(* The argument: the cursor splits the steady rows.  Those the client has  *)
(* received are exactly those that ORDER BY does not put after the row of  *)
(* the cursor.  A page takes the first of the others and moves the split.  *)
(***************************************************************************)
EXTENDS ListWalk, KeysetProofs, FiniteSetTheorems

Sort == SortByOf(params)
Direction == SortOrderOf(params)

\* A steady row is in the table and in scope.
SteadyInScope ==
  \A i \in steady : \E r \in table : r["id"] = i /\ Matches(params, r)

\* No steady row loses its target between discovery and the query.
TargetsCovered ==
  /\ phase = "rbac" =>
       \A r \in table : r["id"] \in steady => TargetOf(r) \in discovered
  /\ phase = "query" =>
       \A r \in table : r["id"] \in steady => TargetOf(r) \in allowed

\* Row l splits the steady rows: those in got are not after it.
PagedUpTo(l, got) ==
  \A r \in table : r["id"] \in steady =>
    (r["id"] \in got <=> ~OrderBefore(Sort, Direction, l, r))

TokenSplits ==
  /\ token = NoCursor /\ phase # "done" => received = {}
  /\ token # NoCursor =>
       \E s \in SortBy, o \in SortOrder, l \in Row :
         /\ token = EncodeCursor(buildCursor(s, o, l))
         /\ tokenSort = <<s, o>>
         /\ s = Sort /\ o = Direction => PagedUpTo(l, received)

\* What holds of a page on its way to the client.
AnswerSplits ==
  phase = "respond" /\ result.status = 200 =>
    /\ IdsOf(result.items) \intersect received \intersect steady = {}
    /\ result.cursor = NoCursor =>
         steady \subseteq received \union IdsOf(result.items)
    /\ result.cursor # NoCursor =>
         \E l \in Row :
           /\ result.cursor = EncodeCursor(buildCursor(Sort, Direction, l))
           /\ PagedUpTo(l, received \union IdsOf(result.items))

\* A request has a limit, and no targets before RBAC.
RequestShape ==
  /\ phase \in {"discover", "rbac", "query", "respond"} =>
       params.Limit \in Limits
  /\ phase \in {"discover", "rbac"} => allowed = {}

\* The inductive invariant.
ScanInv ==
  /\ TypeOK
  /\ RequestShape
  /\ SteadyInScope
  /\ TargetsCovered
  /\ TokenSplits
  /\ AnswerSplits

-----------------------------------------------------------------------------

\* The sort of a request is one that the SQL knows.
LEMMA SortIsValid ==
  ASSUME NEW p \in ListParams
  PROVE  SortByOf(p) \in SortBy /\ SortOrderOf(p) \in SortOrder
<1>1. p.SortBy \in SortBy \union {""} /\ p.SortOrder \in SortOrder \union {""}
  BY DEF ListParams
<1>2. SortByOf(p) \in SortBy
  BY <1>1 DEF SortByOf, normaliseSortBy, SortBy
<1>3. SortOrderOf(p) \in SortOrder
  BY <1>1 DEF SortOrderOf, normaliseSortOrder, defaultSortOrder, SortOrder
<1> QED
  BY <1>2, <1>3

\* Steady rows of the table pass the filters once RBAC allows their target.
LEMMA SteadyMatches ==
  ASSUME IsTable(table), SteadyInScope, NEW r \in table, r["id"] \in steady
  PROVE  Matches(params, r)
<1>1. PICK q \in table : q["id"] = r["id"] /\ Matches(params, q)
  BY DEF SteadyInScope
<1>2. q = r
  BY <1>1 DEF IsTable
<1> QED
  BY <1>1, <1>2

\* A row in scope passes every filter of the query.
LEMMA MatchesFilters ==
  ASSUME NEW p, NEW t, NEW r, Matches(p, r), TargetOf(r) \in t
  PROVE  Filters(p, t, r)
  BY DEF Matches, DiscoverWhere, Filters

\* The invariant holds when a walk begins.
LEMMA InitInv == Init => ScanInv
<1> SUFFICES ASSUME Init
             PROVE  ScanInv
  OBVIOUS
<1>1. IsTable(table)
  BY TableAssumption DEF Init
<1>2. steady \subseteq Id /\ SteadyInScope
  BY <1>1 DEF Init, InScope, SteadyInScope, Id, IsTable
<1>3. TypeOK
  BY <1>1, <1>2, ParamsAssumption, BoundAssumption DEF Init, TypeOK, NoAnswer
<1> QED
  BY <1>2, <1>3 DEF Init, ScanInv, RequestShape, TargetsCovered, TokenSplits,
                    AnswerSplits

\* A new row disturbs no row that is followed.
LEMMA InsertInv ==
  ASSUME ScanInv, NEW r \in Row, Insert(r)
  PROVE  ScanInv'
<1> USE DEF ScanInv
<1>1. IsTable(table')
  BY DEF TypeOK, IsTable, IsNew, Insert
<1>2. r["id"] \notin steady
  BY DEF SteadyInScope, IsNew, Insert
<1>3. TypeOK'
  BY <1>1, BoundAssumption DEF TypeOK, Insert, request
<1>4. RequestShape'
  BY DEF RequestShape, Insert, request
<1>5. SteadyInScope'
  BY DEF SteadyInScope, Insert, request
<1>6. TargetsCovered'
  BY <1>2 DEF TargetsCovered, Insert, request
<1>7. \A l, got : PagedUpTo(l, got) => PagedUpTo(l, got)'
  BY <1>2 DEF PagedUpTo, Insert, request, Sort, Direction
<1>8. TokenSplits'
  BY <1>7 DEF TokenSplits, Insert, request, Sort, Direction
<1>9. AnswerSplits'
  BY <1>7 DEF AnswerSplits, Insert, request, Sort, Direction
<1> QED
  BY <1>3, <1>4, <1>5, <1>6, <1>8, <1>9

\* A row that keeps its sort columns keeps its place.
LEMMA SameKeySameOrder ==
  ASSUME NEW p, NEW l, NEW a, NEW b, SameKey(p, a, b)
  PROVE  OrderBefore(SortByOf(p), SortOrderOf(p), l, a)
           <=> OrderBefore(SortByOf(p), SortOrderOf(p), l, b)
<1> DEFINE cols == SortColumns(SortByOf(p))
<1>1. \A i \in DOMAIN cols : a[cols[i]] = b[cols[i]]
  BY DEF SameKey
<1>2. \E n \in Nat : DOMAIN cols = 1..n
  BY SortColumnsAreColumns
<1> HIDE DEF cols
<1>3. \A i \in DOMAIN cols : \A j \in 1..(i - 1) : a[cols[j]] = b[cols[j]]
  BY <1>1, <1>2
<1>4. LexBefore(cols, SortOrderOf(p), l, a)
        <=> LexBefore(cols, SortOrderOf(p), l, b)
  BY <1>1, <1>3 DEF LexBefore
<1> QED
  BY <1>4 DEF OrderBefore, cols

\* A row that leaves the scope or moves is no longer followed.
LEMMA UpsertInv ==
  ASSUME ScanInv, NEW r \in Row, NEW q \in table, Upsert(q, r)
  PROVE  ScanInv'
<1> USE DEF ScanInv
<1>1. r["id"] = q["id"] /\ r["global_uid"] = q["global_uid"]
      /\ TargetOf(r) = TargetOf(q)
  BY DEF Upsert, Replaces, Column, TargetOf
<1>2. IsTable(table')
  BY <1>1 DEF TypeOK, IsTable, Upsert
<1>3. steady' \subseteq steady
  BY DEF Upsert
<1>4. TypeOK'
  BY <1>2, <1>3, BoundAssumption DEF TypeOK, Upsert, request
<1>5. RequestShape'
  BY DEF RequestShape, Upsert, request
\* A row of the new table that is still steady is an old row, or it is the
\* upserted one, in scope and in the place of the old one.
<1>6. ASSUME NEW x \in table', x["id"] \in steady'
      PROVE  \/ x \in table
             \/ x = r /\ Matches(params, r) /\ SameKey(params, q, r)
  BY <1>1, <1>6 DEF Upsert
<1>7. SteadyInScope'
  <2> SUFFICES ASSUME NEW i \in steady'
               PROVE  \E x \in table' : x["id"] = i /\ Matches(params, x)'
    BY DEF SteadyInScope
  <2>1. PICK x \in table : x["id"] = i /\ Matches(params, x)
    BY <1>3 DEF SteadyInScope
  <2>2. CASE x = q
    <3>1. Matches(params, r)
      BY <1>1, <2>1, <2>2 DEF Upsert
    <3> QED
      BY <1>1, <2>1, <2>2, <3>1 DEF Upsert, request
  <2>3. CASE x # q
    BY <2>1, <2>3 DEF Upsert, request
  <2> QED
    BY <2>2, <2>3
<1>8. TargetsCovered'
  BY <1>1, <1>3, <1>6 DEF TargetsCovered, Upsert, request
<1>9. \A l, got : PagedUpTo(l, got) => PagedUpTo(l, got)'
  <2> SUFFICES ASSUME NEW l, NEW got, PagedUpTo(l, got),
                      NEW x \in table', x["id"] \in steady'
               PROVE  x["id"] \in got <=> ~OrderBefore(Sort, Direction, l, x)
    BY DEF PagedUpTo, Upsert, request, Sort, Direction
  <2>1. CASE x \in table
    BY <1>3, <2>1 DEF PagedUpTo
  <2>2. CASE x = r /\ SameKey(params, q, r)
    BY <1>1, <1>3, <2>2, SameKeySameOrder DEF PagedUpTo, Sort, Direction
  <2> QED
    BY <1>6, <2>1, <2>2
<1>10. TokenSplits'
  BY <1>9 DEF TokenSplits, Upsert, request, Sort, Direction
<1>11. AnswerSplits'
  BY <1>3, <1>9 DEF AnswerSplits, Upsert, request, Sort, Direction
<1> QED
  BY <1>4, <1>5, <1>7, <1>8, <1>10, <1>11

\* Discovery changes nothing but the targets.
LEMMA DiscoverInv ==
  ASSUME ScanInv, Discover
  PROVE  ScanInv'
<1> USE DEF ScanInv
<1>1. \A r \in table : r["id"] \in steady => TargetOf(r) \in discovered'
  BY SteadyMatches DEF Discover, DiscoverTargets, Matches, TypeOK
<1>2. discovered' = {} => steady = {}
  BY <1>1 DEF SteadyInScope
<1>3. CASE discovered' = {}
  <2>1. /\ phase' = "respond"
        /\ result' = [status |-> 200, items |-> {}, cursor |-> NoCursor]
    BY <1>3 DEF Discover, Answer
  <2>2. TypeOK' /\ RequestShape' /\ SteadyInScope'
    BY <1>3, <2>1 DEF Discover, TypeOK, RequestShape, SteadyInScope
  <2>3. TargetsCovered' /\ AnswerSplits'
    BY <1>2, <1>3, <2>1 DEF TargetsCovered, AnswerSplits, IdsOf, Discover
  <2>4. TokenSplits'
    BY <2>1 DEF TokenSplits, PagedUpTo, Sort, Direction, Discover
  <2> QED
    BY <2>2, <2>3, <2>4
<1>4. CASE discovered' # {}
  <2>1. phase' = "rbac" /\ result' = result
    BY <1>4 DEF Discover
  <2>2. TypeOK' /\ RequestShape' /\ SteadyInScope'
    BY <2>1 DEF Discover, TypeOK, RequestShape, SteadyInScope
  <2>3. TargetsCovered' /\ AnswerSplits'
    BY <1>1, <2>1 DEF TargetsCovered, AnswerSplits, Discover
  <2>4. TokenSplits'
    BY <2>1 DEF TokenSplits, PagedUpTo, Sort, Direction, Discover
  <2> QED
    BY <2>2, <2>3, <2>4
<1> QED
  BY <1>3, <1>4

\* A denied row is no longer followed.
LEMMA AuthorizeInv ==
  ASSUME ScanInv, Authorize
  PROVE  ScanInv'
<1> USE DEF ScanInv
<1>1. /\ steady' \subseteq steady
      /\ \A r \in table : r["id"] \in steady' => TargetOf(r) \in allowed'
      /\ allowed' \subseteq discovered
      /\ UNCHANGED <<table, changes, params, token, tokenSort, discovered,
                     received, faults>>
  BY DEF Authorize
<1>2. \/ phase' = "query" /\ result' = result
      \/ /\ phase' = "respond"
         /\ result' = [status |-> 403, items |-> {}, cursor |-> NoCursor]
  BY DEF Authorize, Answer
<1>3. phase = "rbac"
  BY DEF Authorize
<1>4. TypeOK' /\ RequestShape' /\ SteadyInScope'
  BY <1>1, <1>2, <1>3 DEF TypeOK, RequestShape, SteadyInScope
<1>5. TargetsCovered' /\ AnswerSplits'
  BY <1>1, <1>2, <1>3 DEF TargetsCovered, AnswerSplits
<1>6. TokenSplits'
  BY <1>1, <1>2, <1>3 DEF TokenSplits, PagedUpTo, Sort, Direction
<1> QED
  BY <1>4, <1>5, <1>6

\* A failed request changes nothing for the client.
LEMMA FailInv ==
  ASSUME ScanInv, Fail
  PROVE  ScanInv'
<1> USE DEF ScanInv
<1>1. /\ phase \in {"discover", "query"} /\ phase' = "respond"
      /\ result' = [status |-> 500, items |-> {}, cursor |-> NoCursor]
      /\ faults < MaxFaults /\ faults' = faults + 1
      /\ UNCHANGED <<table, changes, params, token, tokenSort, discovered,
                     allowed, received, steady>>
  BY DEF Fail, Answer
<1>2. TypeOK' /\ RequestShape' /\ SteadyInScope'
  BY <1>1, BoundAssumption DEF TypeOK, RequestShape, SteadyInScope
<1>3. TargetsCovered' /\ AnswerSplits'
  BY <1>1 DEF TargetsCovered, AnswerSplits
<1>4. TokenSplits'
  BY <1>1 DEF TokenSplits, PagedUpTo, Sort, Direction
<1> QED
  BY <1>2, <1>3, <1>4

\* The next request starts from the cursor of the last page.
LEMMA SendInv ==
  ASSUME ScanInv, Send
  PROVE  ScanInv'
<1> USE DEF ScanInv
<1>1. PICK l \in Limits : params' = [params EXCEPT !.Limit = l]
  BY DEF Send
<1>2. /\ params' \in ListParams /\ params'.Limit \in Limits
      /\ SortByOf(params') = Sort /\ SortOrderOf(params') = Direction
      /\ \A r : Matches(params, r) => Matches(params', r)
  <2>1. params \in ListParams /\ l \in Nat
    BY LimitAssumption DEF TypeOK
  <2>2. params' \in ListParams /\ params'.Limit = l
    BY <1>1, <2>1 DEF ListParams
  <2>3. /\ params'.SortBy = params.SortBy
        /\ params'.SortOrder = params.SortOrder
        /\ params'.ResourceGroup = params.ResourceGroup
        /\ params'.ResourceVersion = params.ResourceVersion
        /\ params'.ResourcePlural = params.ResourcePlural
        /\ params'.Cluster = params.Cluster
        /\ params'.Namespace = params.Namespace
        /\ params'.CompositionID = params.CompositionID
        /\ params'.Name = params.Name
        /\ params'.NameContains = params.NameContains
        /\ params'.Labels = params.Labels
        /\ params'.Since = params.Since
    BY <1>1, <2>1 DEF ListParams
  <2>4. \A r : Matches(params, r) => Matches(params', r)
    BY <2>3 DEF Matches, DiscoverWhere
  <2> QED
    BY <2>2, <2>3, <2>4 DEF Sort, Direction, SortByOf, SortOrderOf
<1>3. /\ phase = "client" /\ phase' = "discover"
      /\ discovered' = {} /\ allowed' = {}
      /\ UNCHANGED <<table, changes, token, tokenSort, result, received,
                     steady, faults>>
  BY DEF Send
<1>4. TypeOK' /\ RequestShape'
  BY <1>2, <1>3 DEF TypeOK, RequestShape
<1>5. SteadyInScope'
  BY <1>2, <1>3 DEF SteadyInScope
<1>6. TargetsCovered' /\ AnswerSplits'
  BY <1>3 DEF TargetsCovered, AnswerSplits
<1>7. TokenSplits'
  BY <1>2, <1>3 DEF TokenSplits, PagedUpTo, Sort, Direction
<1> QED
  BY <1>4, <1>5, <1>6, <1>7

\* A page that arrives moves the position of the walk to its cursor.
LEMMA ReceiveInv ==
  ASSUME ScanInv, Receive
  PROVE  ScanInv'
<1> USE DEF ScanInv
<1>1. /\ phase = "respond" /\ result.status = 200
      /\ received' = received \union IdsOf(result.items)
      /\ token' = result.cursor
      /\ tokenSort' = IF token' = NoCursor THEN NoSort ELSE <<Sort, Direction>>
      /\ phase' = IF result.cursor = NoCursor THEN "done" ELSE "client"
      /\ result' = [status |-> 0, items |-> {}, cursor |-> NoCursor]
      /\ UNCHANGED <<table, changes, params, discovered, allowed, steady,
                     faults>>
  BY DEF Receive, NoAnswer, SortOf, Sort, Direction
<1>2. IdsOf(result.items) \subseteq Id
  BY DEF TypeOK, IdsOf, Id
<1>3. Sort \in SortBy /\ Direction \in SortOrder
  BY SortIsValid DEF TypeOK, Sort, Direction
<1>4. result.cursor # NoCursor =>
        \E l \in Row :
          /\ result.cursor = EncodeCursor(buildCursor(Sort, Direction, l))
          /\ PagedUpTo(l, received \union IdsOf(result.items))
  BY <1>1 DEF AnswerSplits
<1>5. TypeOK'
  <2>1. token' \in {NoCursor} \union Token
    BY <1>1, <1>3, <1>4 DEF Token, TokensOf
  <2>2. tokenSort' \in {NoSort} \union (SortBy \X SortOrder)
    BY <1>1, <1>3
  <2> QED
    BY <1>1, <1>2, <2>1, <2>2 DEF TypeOK
<1>6. RequestShape' /\ SteadyInScope'
  BY <1>1 DEF RequestShape, SteadyInScope
<1>7. TargetsCovered' /\ AnswerSplits'
  BY <1>1 DEF TargetsCovered, AnswerSplits
<1>8. TokenSplits'
  <2>1. CASE result.cursor = NoCursor
    BY <1>1, <2>1 DEF TokenSplits
  <2>2. CASE result.cursor # NoCursor
    <3>1. PICK l \in Row :
            /\ result.cursor = EncodeCursor(buildCursor(Sort, Direction, l))
            /\ PagedUpTo(l, received \union IdsOf(result.items))
      BY <1>4, <2>2
    <3>2. token' = EncodeCursor(buildCursor(Sort, Direction, l))
      BY <1>1, <3>1
    <3>3. PagedUpTo(l, received)'
      BY <1>1, <3>1 DEF PagedUpTo, Sort, Direction
    <3>4. tokenSort' = <<Sort, Direction>>
      BY <1>1, <2>2
    <3> QED
      BY <1>1, <1>3, <2>2, <3>2, <3>3, <3>4 DEF TokenSplits
  <2> QED
    BY <2>1, <2>2
<1> QED
  BY <1>5, <1>6, <1>7, <1>8

\* A lost answer leaves the position where it was.
LEMMA AskAgainInv ==
  ASSUME ScanInv, AskAgain
  PROVE  ScanInv'
<1> USE DEF ScanInv
<1>1. /\ phase = "respond" /\ phase' = "client"
      /\ result' = [status |-> 0, items |-> {}, cursor |-> NoCursor]
      /\ faults < MaxFaults /\ faults' = faults + 1
      /\ UNCHANGED <<table, changes, params, token, tokenSort, discovered,
                     allowed, received, steady>>
  BY DEF AskAgain, NoAnswer
<1>2. TypeOK' /\ RequestShape' /\ SteadyInScope'
  BY <1>1, BoundAssumption DEF TypeOK, RequestShape, SteadyInScope
<1>3. TargetsCovered' /\ AnswerSplits'
  BY <1>1 DEF TargetsCovered, AnswerSplits
<1>4. TokenSplits'
  BY <1>1 DEF TokenSplits, PagedUpTo, Sort, Direction
<1> QED
  BY <1>2, <1>3, <1>4

\* A walk that is given up promises nothing more.
LEMMA GiveUpInv ==
  ASSUME ScanInv, GiveUp
  PROVE  ScanInv'
<1> USE DEF ScanInv
<1>1. /\ phase = "respond" /\ phase' = "stopped"
      /\ UNCHANGED <<table, changes, params, token, tokenSort, discovered,
                     allowed, result, received, steady, faults>>
  BY DEF GiveUp, request
<1>2. TypeOK' /\ RequestShape' /\ SteadyInScope'
  BY <1>1 DEF TypeOK, RequestShape, SteadyInScope
<1>3. TargetsCovered' /\ AnswerSplits'
  BY <1>1 DEF TargetsCovered, AnswerSplits
<1>4. TokenSplits'
  BY <1>1 DEF TokenSplits, PagedUpTo, Sort, Direction
<1> QED
  BY <1>2, <1>3, <1>4

\* A new walk follows the rows that are in scope now.
LEMMA RestartInv ==
  ASSUME ScanInv, Restart
  PROVE  ScanInv'
<1> USE DEF ScanInv
<1>1. /\ phase = "respond" /\ phase' = "client"
      /\ token' = NoCursor /\ tokenSort' = NoSort /\ received' = {}
      /\ result' = [status |-> 0, items |-> {}, cursor |-> NoCursor]
      /\ steady' = InScope(params, table)
      /\ faults < MaxFaults /\ faults' = faults + 1
      /\ UNCHANGED <<table, changes, params, discovered, allowed>>
  BY DEF Restart, NoAnswer
<1>2. steady' \subseteq Id /\ SteadyInScope'
  BY <1>1 DEF InScope, SteadyInScope, Id, TypeOK, IsTable
<1>3. TypeOK' /\ RequestShape'
  BY <1>1, <1>2, BoundAssumption DEF TypeOK, RequestShape
<1>4. TargetsCovered' /\ AnswerSplits'
  BY <1>1 DEF TargetsCovered, AnswerSplits
<1>5. TokenSplits'
  BY <1>1 DEF TokenSplits
<1> QED
  BY <1>2, <1>3, <1>4, <1>5

\* Under another sort no row is followed.
LEMMA ResortInv ==
  ASSUME ScanInv, Resort
  PROVE  ScanInv'
<1> USE DEF ScanInv
<1>1. PICK p \in Params : params' = [p EXCEPT !.Limit = params.Limit]
  BY DEF Resort
<1>2. /\ phase = "client" /\ phase' = "client" /\ steady' = {}
      /\ faults < MaxFaults /\ faults' = faults + 1
      /\ UNCHANGED <<table, changes, token, tokenSort, discovered, allowed,
                     result, received>>
  BY DEF Resort
<1>3. params' \in ListParams
  <2>1. p \in ListParams /\ params.Limit \in Nat \union {NULL}
    BY ParamsAssumption DEF TypeOK, ListParams
  <2> QED
    BY <1>1, <2>1, ZenonT(60) DEF ListParams
<1>4. TypeOK' /\ RequestShape' /\ SteadyInScope'
  BY <1>2, <1>3, BoundAssumption DEF TypeOK, RequestShape, SteadyInScope
<1>5. TargetsCovered' /\ AnswerSplits'
  BY <1>2 DEF TargetsCovered, AnswerSplits
<1>6. TokenSplits'
  BY <1>2 DEF TokenSplits, PagedUpTo
<1> QED
  BY <1>4, <1>5, <1>6

-----------------------------------------------------------------------------
(* The query step.                                                         *)

\* The query selects a steady row exactly when the client lacks it, and
\* with a cursor it selects only rows after the row of the cursor.
LEMMA QuerySelection ==
  ASSUME ScanInv, phase = "query",
         validateCursorSort(DecodeCursor(token), Sort, Direction)
  PROVE  /\ \A r \in table : r["id"] \in steady =>
              (ListSelects(params, allowed, DecodeCursor(token), r)
                 <=> r["id"] \notin received)
         /\ \/ received = {}
            \/ \E l \in Row :
                 /\ PagedUpTo(l, received)
                 /\ \A r \in table :
                      ListSelects(params, allowed, DecodeCursor(token), r)
                        => OrderBefore(Sort, Direction, l, r)
<1> USE DEF ScanInv
<1>1. IsTable(table) /\ (\A r \in table : IsRow(r))
  BY RowAssumption DEF TypeOK, IsTable
<1>2. \A r \in table : r["id"] \in steady => Filters(params, allowed, r)
  BY <1>1, SteadyMatches, MatchesFilters DEF TargetsCovered
<1>3. CASE token = NoCursor
  <2>1. DecodeCursor(token) = NoCursor /\ received = {}
    BY <1>3 DEF DecodeCursor, TokenSplits
  <2> QED
    BY <1>2, <2>1, FirstPageSelection
<1>4. CASE token # NoCursor
  <2>1. PICK s \in SortBy, o \in SortOrder, l \in Row :
          /\ token = EncodeCursor(buildCursor(s, o, l))
          /\ s = Sort /\ o = Direction => PagedUpTo(l, received)
    BY <1>4 DEF TokenSplits
  <2>2. DecodeCursor(token) = buildCursor(s, o, l)
    BY <2>1, CursorRoundTrip
  <2>3. s = Sort /\ o = Direction
    BY <2>2, CursorRoundTrip, CursorFields DEF validateCursorSort
  <2>4. \A r \in table :
          /\ ListSelects(params, allowed, DecodeCursor(token), r)
               => OrderBefore(Sort, Direction, l, r)
          /\ Filters(params, allowed, r) /\ OrderBefore(Sort, Direction, l, r)
               => ListSelects(params, allowed, DecodeCursor(token), r)
    BY <1>1, <2>2, <2>3, RowAssumption, NextPageSelection DEF Sort, Direction
  <2> QED
    BY <1>2, <2>1, <2>3, <2>4 DEF PagedUpTo
<1> QED
  BY <1>3, <1>4

\* ORDER BY ... LIMIT: a subset of the rows, all of them if they are fewer.
LEMMA LimitTakesAll ==
  ASSUME NEW rows, IsFiniteSet(rows), NEW n \in Nat, NEW s, NEW o,
         NEW P \in LimitedTo(rows, n, s, o)
  PROVE  /\ P \subseteq rows /\ IsFiniteSet(P)
         /\ Cardinality(P) \in Nat /\ Cardinality(rows) \in Nat
         /\ Cardinality(rows) <= n => P = rows
         /\ P # rows => Cardinality(P) = n
<1>1. P \subseteq rows /\ (P = rows \/ Cardinality(P) = n)
  BY DEF LimitedTo
<1>2. /\ IsFiniteSet(P) /\ Cardinality(P) \in Nat /\ Cardinality(rows) \in Nat
      /\ P # rows => Cardinality(P) < Cardinality(rows)
  BY <1>1, FS_Subset, FS_CardinalityType
<1> QED
  BY <1>1, <1>2

\* A page is the next stretch of the rows that are followed.
LEMMA QueryInv ==
  ASSUME ScanInv, Query
  PROVE  ScanInv'
<1> USE DEF ScanInv
<1> DEFINE cur == DecodeCursor(token)
           selected == {r \in table : ListSelects(params, allowed, cur, r)}
<1>1. /\ phase = "query" /\ phase' = "respond"
      /\ UNCHANGED <<table, changes, params, token, tokenSort, discovered,
                     allowed, received, steady, faults>>
  BY DEF Query, ListResources, Answer
<1>2. RequestShape' /\ SteadyInScope' /\ TargetsCovered' /\ TokenSplits'
  BY <1>1 DEF RequestShape, SteadyInScope, TargetsCovered, TokenSplits,
              PagedUpTo, Sort, Direction
<1>3. CASE ~validateCursorSort(cur, Sort, Direction)
  <2>1. result' = [status |-> 500, items |-> {}, cursor |-> NoCursor]
    BY <1>3 DEF Query, Answer, Sort, Direction
  <2>2. TypeOK' /\ AnswerSplits'
    BY <1>1, <2>1 DEF TypeOK, AnswerSplits
  <2> QED
    BY <1>2, <2>2
<1>4. CASE validateCursorSort(cur, Sort, Direction)
  <2> DEFINE Trimmed(fetched, items) ==
        IF Cardinality(fetched) > params.Limit
          THEN \E last \in items :
                 /\ \A r \in items \ {last} :
                      OrderBefore(Sort, Direction, r, last)
                 /\ result' = [status |-> 200, items |-> items,
                               cursor |-> EncodeCursor(
                                 buildCursor(Sort, Direction, last))]
          ELSE result' = [status |-> 200, items |-> items,
                          cursor |-> NoCursor]
  <2>a. \E fetched \in
         LimitedTo(selected, params.Limit + 1, Sort, Direction) :
        \E items \in LimitedTo(fetched, params.Limit, Sort, Direction) :
          Trimmed(fetched, items)
    BY <1>4, ZenonT(60) DEF Query, ListResources, Answer, Sort, Direction
  <2>b. PICK fetched \in
           LimitedTo(selected, params.Limit + 1, Sort, Direction) :
          \E items \in LimitedTo(fetched, params.Limit, Sort, Direction) :
            Trimmed(fetched, items)
    BY <2>a
  <2>1. PICK items \in LimitedTo(fetched, params.Limit, Sort, Direction) :
          Trimmed(fetched, items)
    BY <2>b
  <2>2. /\ IsFiniteSet(selected)
        /\ params.Limit \in Nat /\ params.Limit + 1 \in Nat
    <3>1. selected \subseteq Row
      BY DEF TypeOK, IsTable
    <3>2. IsFiniteSet(selected)
      BY <3>1, RowAssumption, FS_Subset
    <3>3. params.Limit \in Nat
      BY <1>1, LimitAssumption DEF RequestShape
    <3> QED
      BY <3>2, <3>3
  <2> HIDE DEF selected
  <2>3. /\ fetched \subseteq selected /\ IsFiniteSet(fetched)
        /\ Cardinality(fetched) \in Nat
        /\ fetched # selected => Cardinality(fetched) = params.Limit + 1
    BY <2>2, LimitTakesAll
  <2>4. /\ items \subseteq fetched
        /\ Cardinality(fetched) <= params.Limit => items = fetched
    BY <2>2, <2>3, LimitTakesAll
  <2>5. /\ \A a \in fetched, b \in selected \ fetched :
              OrderBefore(Sort, Direction, a, b)
        /\ \A a \in items, b \in fetched \ items :
              OrderBefore(Sort, Direction, a, b)
    BY DEF LimitedTo
  <2>6. /\ items \subseteq table /\ items \subseteq Row
        /\ \A r \in table : IsRow(r)
        /\ \A a, b \in table : a["id"] = b["id"] => a = b
    BY <2>3, <2>4, RowAssumption DEF TypeOK, IsTable, selected
  <2>7. /\ \A r \in table : r["id"] \in steady =>
              (r \in selected <=> r["id"] \notin received)
        /\ \/ received = {}
           \/ \E l \in Row : /\ PagedUpTo(l, received)
                             /\ \A r \in selected :
                                  OrderBefore(Sort, Direction, l, r)
    BY <1>1, <1>4, QuerySelection DEF selected
  \* A page repeats no steady row.
  <2>8. IdsOf(items) \intersect received \intersect steady = {}
    BY <2>3, <2>4, <2>6, <2>7 DEF IdsOf
  \* A page that is not full leaves no steady row out.
  <2>9. CASE ~(Cardinality(fetched) > params.Limit)
    <3>1. items = selected
      BY <2>2, <2>3, <2>4, <2>9
    <3>2. result' = [status |-> 200, items |-> items, cursor |-> NoCursor]
      BY <2>1, <2>9
    <3>3. steady \subseteq received \union IdsOf(items)
      BY <2>7, <3>1 DEF SteadyInScope, IdsOf
    <3>4. TypeOK'
      BY <1>1, <2>6, <3>2 DEF TypeOK
    <3>5. AnswerSplits'
      BY <1>1, <2>8, <3>2, <3>3 DEF AnswerSplits
    <3> QED
      BY <1>2, <3>4, <3>5
  \* A page with a cursor moves the split to its last row.
  <2>10. CASE Cardinality(fetched) > params.Limit
    <3>1. PICK last \in items :
            /\ \A r \in items \ {last} : OrderBefore(Sort, Direction, r, last)
            /\ result' = [status |-> 200, items |-> items,
                          cursor |-> EncodeCursor(
                            buildCursor(Sort, Direction, last))]
      BY <2>1, <2>10
    <3>2. last \in table /\ last \in selected /\ last \in fetched
          /\ last \in Row /\ IsRow(last)
      BY <2>3, <2>4, <2>6, <3>1
    <3>3. ASSUME NEW r \in table, r["id"] \in steady, r["id"] \in received
          PROVE  ~OrderBefore(Sort, Direction, last, r)
      <4>1. PICK l \in Row : /\ PagedUpTo(l, received)
                             /\ OrderBefore(Sort, Direction, l, last)
        BY <2>7, <3>2, <3>3
      <4>2. IsRow(l) /\ IsRow(r)
        BY <2>6, RowAssumption
      <4>3. OrderBefore(Sort, Direction, last, r)
              => OrderBefore(Sort, Direction, l, r)
        BY <3>2, <4>1, <4>2, OrderTransitive
      <4> QED
        BY <3>3, <4>1, <4>3 DEF PagedUpTo
    <3>4. ASSUME NEW r \in items
          PROVE  ~OrderBefore(Sort, Direction, last, r)
      <4>1. IsRow(r)
        BY <2>6
      <4> QED
        BY <3>1, <3>2, <4>1, OrderIrreflexive, OrderTransitive
    <3>5. ASSUME NEW r \in table, r["id"] \in steady,
                 r["id"] \notin received, r \notin items
          PROVE  OrderBefore(Sort, Direction, last, r)
      BY <2>5, <2>7, <3>2, <3>5
    <3>6. PagedUpTo(last, received \union IdsOf(items))
      BY <2>6, <3>3, <3>4, <3>5 DEF PagedUpTo, IdsOf
    <3>7. TypeOK'
      BY <1>1, <2>6, <3>1 DEF TypeOK
    <3>8. PagedUpTo(last, received \union IdsOf(items))'
      BY <1>1, <3>6 DEF PagedUpTo, Sort, Direction, IdsOf
    <3>9. AnswerSplits'
      <4>1. result.cursor' = EncodeCursor(buildCursor(Sort, Direction, last))
            /\ result.items' = items
        BY <3>1
      <4>2. result.cursor' # NoCursor
        BY <4>1, CursorRoundTrip
      <4> QED
        BY <1>1, <2>8, <3>2, <3>6, <4>1, <4>2
           DEF AnswerSplits, PagedUpTo, Sort, Direction
    <3> QED
      BY <1>2, <3>7, <3>9
  <2> QED
    BY <2>9, <2>10
<1> QED
  BY <1>3, <1>4

-----------------------------------------------------------------------------
(* Theorems.                                                               *)

\* Every step keeps the invariant.
LEMMA NextInv == ScanInv /\ [Next]_vars => ScanInv'
<1> SUFFICES ASSUME ScanInv, [Next]_vars
             PROVE  ScanInv'
  OBVIOUS
<1>1. ASSUME NEW r \in Row, Insert(r)
      PROVE  ScanInv'
  BY <1>1, InsertInv
<1>2. ASSUME NEW r \in Row, NEW q \in table, Upsert(q, r)
      PROVE  ScanInv'
  BY <1>2, UpsertInv
<1>3. CASE Ingest
  BY <1>1, <1>2, <1>3 DEF Ingest
<1>4. CASE Discover \/ Authorize \/ Query \/ Fail
  BY <1>4, DiscoverInv, AuthorizeInv, QueryInv, FailInv
<1>5. CASE Send \/ Receive \/ AskAgain
  BY <1>5, SendInv, ReceiveInv, AskAgainInv
<1>6. CASE GiveUp \/ Restart \/ Resort
  BY <1>6, GiveUpInv, RestartInv, ResortInv
<1>7. CASE Finished \/ UNCHANGED vars
  BY <1>7 DEF Finished, vars, ScanInv, TypeOK, RequestShape, SteadyInScope,
     TargetsCovered, TokenSplits, AnswerSplits, PagedUpTo, Sort, Direction
<1> QED
  BY <1>3, <1>4, <1>5, <1>6, <1>7 DEF Next

\* Hence it always holds.
LEMMA ScanInvariant == Spec => []ScanInv
<1>1. Init => ScanInv
  BY InitInv
<1>2. ScanInv /\ [Next]_vars => ScanInv'
  BY NextInv
<1> QED
  BY <1>1, <1>2, PTL DEF Spec

(***************************************************************************)
(* Every state of a walk has the types of TypeOK: in particular the table  *)
(* keeps its keys unique and every token was built from a row.             *)
(***************************************************************************)
THEOREM TypeCorrect == Spec => []TypeOK
<1>1. ScanInv => TypeOK
  BY DEF ScanInv
<1> QED
  BY <1>1, ScanInvariant, PTL

(***************************************************************************)
(* Paging is a complete scan (resourcesQuery and ListResources, for every  *)
(* sort): a row that stays in scope and in place is delivered exactly once *)
(* and before the walk ends, whatever the ingester and RBAC do meanwhile   *)
(* and however often answers fail or are lost.                             *)
(***************************************************************************)
LEMMA WalkInit == Init => Contract!Init
<1> SUFFICES ASSUME Init
             PROVE  Contract!Init
  OBVIOUS
<1>1. ScanInv
  BY InitInv
<1>2. steady \in SUBSET Id /\ received = {} /\ phase # "done"
  BY <1>1 DEF ScanInv, TypeOK, Init
<1> QED
  BY <1>2 DEF Contract!Init

\* Every step is a step of the contract, or stutters.
LEMMA WalkStep ==
  ScanInv /\ [Next]_vars
    => [Contract!Next]_<<steady, received, phase = "done">>
<1> SUFFICES ASSUME ScanInv, [Next]_vars
             PROVE  [Contract!Next]_<<steady, received, phase = "done">>
  OBVIOUS
\* A step that only lets rows go maps to Forget or to a stutter.
<1>1. ASSUME steady' \subseteq steady, received' = received,
             phase # "done", phase' # "done"
      PROVE  Contract!Forget
  BY <1>1 DEF Contract!Forget
<1>2. CASE Ingest
  <2>1. \/ \E r \in Row : Insert(r)
        \/ \E r \in Row, q \in table : Upsert(q, r)
    BY <1>2 DEF Ingest
  <2>2. /\ steady' \subseteq steady /\ received' = received
        /\ phase # "done" /\ phase' = phase
    BY <2>1 DEF Insert, Upsert, request
  <2> QED
    BY <1>1, <2>2 DEF Contract!Next
<1>3. CASE Discover \/ Authorize \/ Query \/ Fail
  <2>1. /\ steady' \subseteq steady /\ received' = received
        /\ phase # "done" /\ phase' # "done"
    BY <1>3 DEF Discover, Authorize, Query, Fail, ListResources, Answer
  <2> QED
    BY <1>1, <2>1 DEF Contract!Next
<1>4. CASE Send \/ AskAgain \/ GiveUp \/ Resort
  <2>1. /\ steady' \subseteq steady /\ received' = received
        /\ phase # "done" /\ phase' # "done"
    BY <1>4 DEF Send, AskAgain, GiveUp, Resort, request
  <2> QED
    BY <1>1, <2>1 DEF Contract!Next
<1>5. CASE Receive
  <2> DEFINE page == IdsOf(result.items)
  <2>1. page \in SUBSET Id
    BY DEF ScanInv, TypeOK, IdsOf, Id
  <2>2. /\ received' = received \union page
        /\ steady' = steady /\ phase # "done"
        /\ phase' = "done" => result.cursor = NoCursor
    BY <1>5 DEF Receive
  <2>3. /\ page \intersect received \intersect steady = {}
        /\ phase' = "done" => steady \subseteq received'
    BY <1>5, <2>2 DEF ScanInv, AnswerSplits, Receive
  <2> HIDE DEF page
  <2>4. Contract!Deliver
    BY <2>1, <2>2, <2>3 DEF Contract!Deliver
  <2> QED
    BY <2>4 DEF Contract!Next
<1>6. CASE Restart
  <2>1. /\ received' = {} /\ phase # "done" /\ phase' # "done"
    BY <1>6 DEF Restart
  <2>2. steady' \in SUBSET Id
    BY NextInv DEF ScanInv, TypeOK
  <2>3. Contract!Restart
    BY <2>1, <2>2 DEF Contract!Restart
  <2> QED
    BY <2>3 DEF Contract!Next
<1>7. CASE Finished \/ UNCHANGED vars
  BY <1>7 DEF Finished, vars
<1> QED
  BY <1>2, <1>3, <1>4, <1>5, <1>6, <1>7 DEF Next

(***************************************************************************)
(* Paging through a list implements ScanContract: whatever the ingester    *)
(* writes between and within the requests, under every sort, and even when *)
(* answers are lost, the rows that stay in scope and in place are          *)
(* delivered exactly once, all of them by the last page.                   *)
(***************************************************************************)
THEOREM WalkIsCompleteScan == Spec => ImplementsContract
<1>1. Init => Contract!Init
  BY WalkInit
<1>2. ScanInv /\ [Next]_vars
        => [Contract!Next]_<<steady, received, phase = "done">>
  BY WalkStep
<1> QED
  BY <1>1, <1>2, ScanInvariant, PTL
     DEF Spec, ImplementsContract, Contract!Spec

(***************************************************************************)
(* What the contract is for: a client that has received the last page has  *)
(* every row that stayed in scope and in place since its walk began.       *)
(***************************************************************************)
THEOREM FinishedWalksAreComplete ==
  Spec => [](phase = "done" => steady \subseteq received)
<1> DEFINE Complete == phase = "done" => steady \subseteq received
<1>1. Contract!Init => Complete
  BY DEF Contract!Init
<1>2. Complete /\ [Contract!Next]_<<steady, received, phase = "done">>
        => Complete'
  BY DEF Contract!Next, Contract!Forget, Contract!Deliver, Contract!Restart
<1> HIDE DEF Complete
<1>3. ImplementsContract => []Complete
  BY <1>1, <1>2, PTL DEF ImplementsContract, Contract!Spec
<1> QED
  BY <1>3, WalkIsCompleteScan, PTL DEF Complete

-----------------------------------------------------------------------------
(* The scope of a page.                                                    *)

\* The one sort whose cursor condition can escape the filters.
AvoidsDescendingComposition ==
  \A p \in Params :
    ~(SortByOf(p) = "composition_id" /\ SortOrderOf(p) = "desc")

\* What the targets of a request have in common.
TargetInScope(p, t) ==
  /\ t[1] = p.ResourceGroup
  /\ p.ResourcePlural = 0 \/ t[2] = p.ResourcePlural
  /\ p.Namespace = 0 \/ t[3] = p.Namespace

PageInv ==
  /\ ~(Sort = "composition_id" /\ Direction = "desc")
  /\ result.items # {} => phase = "respond" /\ result.status = 200
  /\ phase \in {"discover", "rbac", "query", "respond"} =>
       \A t \in discovered : TargetInScope(params, t)
  /\ phase = "query" => allowed # {}
  /\ PageInScope

\* Without the split, a row that the query selects is in scope.
LEMMA SelectedInScope ==
  ASSUME ScanInv, PageInv, phase = "query",
         validateCursorSort(DecodeCursor(token), Sort, Direction),
         NEW r \in table, ListSelects(params, allowed, DecodeCursor(token), r)
  PROVE  Matches(params, r) /\ TargetOf(r) \in allowed
<1> USE DEF ScanInv
<1>1. IsRow(r)
  BY RowAssumption DEF TypeOK, IsTable
<1>2. Filters(params, allowed, r)
  <2>1. CASE token = NoCursor
    BY <2>1, FirstPageSelection DEF DecodeCursor
  <2>2. CASE token # NoCursor
    <3>1. PICK s \in SortBy, o \in SortOrder, l \in Row :
            token = EncodeCursor(buildCursor(s, o, l))
      BY <2>2 DEF TokenSplits
    <3>2. DecodeCursor(token) = buildCursor(s, o, l)
      BY <3>1, CursorRoundTrip
    <3>3. s = Sort /\ o = Direction
      BY <3>2, CursorRoundTrip, CursorFields DEF validateCursorSort
    <3>4. ~Splits(Sort, Direction, l)
      BY DEF PageInv, Splits
    <3>5. IsRow(l) /\ Sort \in SortBy /\ Direction \in SortOrder
      BY <3>3, RowAssumption
    <3> QED
      BY <1>1, <3>2, <3>3, <3>4, <3>5, NextPageSelection DEF Sort, Direction
  <2> QED
    BY <2>1, <2>2
<1>3. TargetOf(r) \in allowed
  BY <1>2 DEF Filters, PageInv
<1>4. TargetInScope(params, TargetOf(r))
  BY <1>3 DEF TypeOK, PageInv
<1>5. /\ params.ResourcePlural = 0
           \/ r["resource_plural"] = params.ResourcePlural
      /\ params.Namespace = 0 \/ r["namespace"] = params.Namespace
  BY <1>4 DEF TargetInScope, TargetOf
<1> QED
  BY <1>2, <1>3, <1>5 DEF Filters, Matches, DiscoverWhere

\* No page has been made when a walk begins.
LEMMA PageInit == AvoidsDescendingComposition /\ Init => PageInv
  BY DEF AvoidsDescendingComposition, Init, PageInv, PageInScope, NoAnswer,
     Sort, Direction

\* Every step keeps the pages in scope.
LEMMA PageStep ==
  ASSUME AvoidsDescendingComposition, ScanInv, PageInv, [Next]_vars
  PROVE  PageInv'
<1> USE DEF PageInv, PageInScope
<1>1. CASE Ingest
  <2>1. UNCHANGED <<params, phase, discovered, allowed, result>>
    BY <1>1 DEF Ingest, Insert, Upsert, request
  <2> QED
    BY <2>1 DEF Sort, Direction
<1>2. CASE Discover
  <2>1. /\ params' = params /\ allowed' = allowed
        /\ phase' \in {"respond", "rbac"}
        /\ result'.items = {}
        /\ discovered' = DiscoverTargets(params, table)
    BY <1>2 DEF Discover, Answer
  <2>2. \A t \in discovered' : TargetInScope(params, t)
    BY <2>1 DEF DiscoverTargets, DiscoverWhere, TargetOf, TargetInScope
  <2> QED
    BY <2>1, <2>2 DEF Sort, Direction
<1>3. CASE Authorize
  <2>1. /\ params' = params /\ discovered' = discovered /\ phase = "rbac"
        /\ result'.items = {}
        /\ \/ phase' = "respond"
           \/ phase' = "query" /\ allowed' # {}
    BY <1>3 DEF Authorize, Answer
  <2> QED
    BY <2>1 DEF Sort, Direction
<1>4. CASE Query
  <2>1. /\ phase = "query" /\ phase' = "respond"
        /\ UNCHANGED <<params, discovered, allowed>>
    BY <1>4 DEF Query, ListResources, Answer
  <2>2. CASE ~validateCursorSort(DecodeCursor(token), Sort, Direction)
    <3>1. result'.items = {}
      BY <1>4, <2>2 DEF Query, Answer, Sort, Direction
    <3> QED
      BY <2>1, <3>1 DEF Sort, Direction
  <2>3. CASE validateCursorSort(DecodeCursor(token), Sort, Direction)
    <3>1. /\ result'.status = 200
          /\ \E fetched \in SUBSET {r \in table : ListSelects(params, allowed,
                                                DecodeCursor(token), r)} :
               result'.items \subseteq fetched
      BY <1>4, <2>3
         DEF Query, ListResources, LimitedTo, Answer, Sort, Direction
    <3>2. \A r \in result'.items : /\ r \in table
                                   /\ ListSelects(params, allowed,
                                                  DecodeCursor(token), r)
      BY <3>1
    <3>3. \A r \in result'.items :
            Matches(params, r) /\ TargetOf(r) \in allowed
      BY <2>1, <2>3, <3>2, SelectedInScope
    <3> QED
      BY <2>1, <3>1, <3>3 DEF Sort, Direction
  <2> QED
    BY <2>2, <2>3
<1>5. CASE Fail
  <2>1. /\ UNCHANGED <<params, discovered, allowed>>
        /\ phase \in {"discover", "query"} /\ phase' = "respond"
        /\ result'.items = {}
    BY <1>5 DEF Fail, Answer
  <2> QED
    BY <2>1 DEF Sort, Direction
<1>6. CASE Send
  <2>1. PICK l \in Limits : params' = [params EXCEPT !.Limit = l]
    BY <1>6 DEF Send
  <2>2. /\ params'.SortBy = params.SortBy
        /\ params'.SortOrder = params.SortOrder
    BY <2>1 DEF ScanInv, TypeOK, ListParams
  <2>3. /\ phase = "client" /\ phase' = "discover" /\ result' = result
        /\ discovered' = {}
    BY <1>6 DEF Send
  <2> QED
    BY <2>2, <2>3 DEF Sort, Direction, SortByOf, SortOrderOf
<1>7. CASE Receive \/ AskAgain \/ Restart
  <2>1. /\ params' = params /\ result'.items = {}
        /\ phase' \in {"client", "done"}
    BY <1>7 DEF Receive, AskAgain, Restart, NoAnswer
  <2> QED
    BY <2>1 DEF Sort, Direction
<1>8. CASE GiveUp
  <2>1. /\ params' = params /\ result' = result /\ phase' = "stopped"
        /\ result.status # 200
    BY <1>8 DEF GiveUp, request
  <2> QED
    BY <2>1 DEF Sort, Direction
<1>9. CASE Resort
  <2>1. PICK p \in Params : params' = [p EXCEPT !.Limit = params.Limit]
    BY <1>9 DEF Resort
  <2>5. p \in ListParams
    BY ParamsAssumption
  <2>2. params'.SortBy = p.SortBy /\ params'.SortOrder = p.SortOrder
    BY <2>1, <2>5 DEF ListParams
  <2>3. phase = "client" /\ phase' = "client" /\ result' = result
    BY <1>9 DEF Resort
  <2>4. ~(SortByOf(p) = "composition_id" /\ SortOrderOf(p) = "desc")
    BY DEF AvoidsDescendingComposition
  <2> QED
    BY <2>2, <2>3, <2>4 DEF Sort, Direction, SortByOf, SortOrderOf
<1>10. CASE Finished \/ UNCHANGED vars
  BY <1>10 DEF Finished, vars, Sort, Direction
<1> QED
  BY <1>1, <1>2, <1>3, <1>4, <1>5, <1>6, <1>7, <1>8, <1>9, <1>10 DEF Next

(***************************************************************************)
(* A page holds only rows that pass every filter of the request and whose  *)
(* target RBAC allowed in that request, for every sort except descending   *)
(* composition_id: there the condition of cursorCondition is an OR without *)
(* parentheses (compositionIDCursorCondition) and the theorem is false.    *)
(***************************************************************************)
THEOREM PagesAreInScope ==
  ASSUME AvoidsDescendingComposition
  PROVE  Spec => []PageInScope
<1>1. Init => PageInv
  BY PageInit
<1>2. ScanInv /\ PageInv /\ [Next]_vars => PageInv'
  BY PageStep
<1>3. PageInv => PageInScope
  BY DEF PageInv
<1> QED
  BY <1>1, <1>2, <1>3, ScanInvariant, PTL DEF Spec

-----------------------------------------------------------------------------
(* Cursors of another sort.                                                *)

RefusalInv ==
  result.items # {} => /\ phase = "respond"
                       /\ result.status = 200
                       /\ ForeignCursorRefused

\* What a token says of its sort is the sort it was made under.
LEMMA SortOfToken ==
  ASSUME ScanInv, token # NoCursor,
         validateCursorSort(DecodeCursor(token), Sort, Direction)
  PROVE  tokenSort = <<Sort, Direction>>
<1>1. PICK s \in SortBy, o \in SortOrder, l \in Row :
        /\ token = EncodeCursor(buildCursor(s, o, l))
        /\ tokenSort = <<s, o>>
  BY DEF ScanInv, TokenSplits
<1>2. DecodeCursor(token) = buildCursor(s, o, l)
  BY <1>1, CursorRoundTrip
<1>3. s = Sort /\ o = Direction
  BY <1>2, CursorRoundTrip, CursorFields DEF validateCursorSort
<1> QED
  BY <1>1, <1>3

\* Only the query fills a page; whatever replaces the parameters or the
\* token happens when no page is there.
LEMMA RefusalStep ==
  ASSUME ScanInv, RefusalInv, [Next]_vars
  PROVE  RefusalInv'
<1> USE DEF RefusalInv, ForeignCursorRefused
<1>1. CASE Query
  <2>1. /\ phase' = "respond"
        /\ UNCHANGED <<params, token, tokenSort>>
    BY <1>1 DEF Query, ListResources, Answer
  <2>2. CASE validateCursorSort(DecodeCursor(token), SortByOf(params),
                                SortOrderOf(params))
    <3>1. ListResources(DecodeCursor(token))
      BY <1>1, <2>2 DEF Query
    <3>2. result'.status = 200
      BY <3>1 DEF ListResources, Answer
    <3>3. token # NoCursor => tokenSort = SortOf(params)
      BY <2>2, SortOfToken DEF SortOf, Sort, Direction
    <3> QED
      BY <2>1, <3>2, <3>3 DEF SortOf, SortByOf, SortOrderOf
  <2>3. CASE ~validateCursorSort(DecodeCursor(token), SortByOf(params),
                                 SortOrderOf(params))
    BY <1>1, <2>3 DEF Query, Answer
  <2> QED
    BY <2>2, <2>3
<1>2. CASE Ingest \/ Finished \/ UNCHANGED vars
  <2>1. UNCHANGED <<phase, result, params, token, tokenSort>>
    BY <1>2 DEF Ingest, Insert, Upsert, request, Finished, vars
  <2> QED
    BY <2>1
<1>3. CASE Discover \/ Authorize
  <2>1. /\ phase # "respond"
        /\ result'.items = {} \/ result' = result
    BY <1>3 DEF Discover, Authorize, Answer
  <2> QED
    BY <2>1
<1>4. CASE Fail \/ Receive \/ AskAgain \/ Restart
  <2>1. result'.items = {}
    BY <1>4 DEF Fail, Receive, AskAgain, Restart, Answer, NoAnswer
  <2> QED
    BY <2>1
<1>5. CASE Send \/ Resort
  <2>1. phase = "client" /\ result' = result
    BY <1>5 DEF Send, Resort
  <2> QED
    BY <2>1
<1>6. CASE GiveUp
  <2>1. result.status # 200 /\ result' = result
    BY <1>6 DEF GiveUp, request
  <2> QED
    BY <2>1
<1> QED
  BY <1>1, <1>2, <1>3, <1>4, <1>5, <1>6 DEF Next

(***************************************************************************)
(* No page is selected with a token that was made under another column or  *)
(* direction, whatever the client does with its tokens: what buildCursor   *)
(* writes into a token survives the encoding with omitted fields, and      *)
(* validateCursorSort compares all of it.                                  *)
(***************************************************************************)
THEOREM ForeignCursorIsRefused == Spec => []ForeignCursorRefused
<1>1. Init => RefusalInv
  BY DEF Init, NoAnswer, RefusalInv
<1>2. ScanInv /\ RefusalInv /\ [Next]_vars => RefusalInv'
  BY RefusalStep
<1>3. RefusalInv => ForeignCursorRefused
  BY DEF RefusalInv, ForeignCursorRefused
<1> QED
  BY <1>1, <1>2, <1>3, ScanInvariant, PTL DEF Spec

-----------------------------------------------------------------------------
(* Pages and their cursors, whatever the ingester writes meanwhile.        *)

\* What the query selects.
Selected == {r \in table : ListSelects(params, allowed, DecodeCursor(token), r)}

\* What a query answers: an error, the last page, or a full page with a
\* cursor to its last row and a selected row beyond.
LEMMA PageShape ==
  ASSUME ScanInv, Query
  PROVE  \/ result' = [status |-> 500, items |-> {}, cursor |-> NoCursor]
         \/ /\ validateCursorSort(DecodeCursor(token), Sort, Direction)
            /\ \E items \in SUBSET Selected :
                 /\ Cardinality(items) <= params.Limit
                 /\ result' = [status |-> 200, items |-> items,
                               cursor |-> NoCursor]
         \/ /\ validateCursorSort(DecodeCursor(token), Sort, Direction)
            /\ \E items \in SUBSET Selected :
               \E last \in items, more \in Selected :
                 /\ Cardinality(items) = params.Limit
                 /\ \A r \in items \ {last} :
                      OrderBefore(Sort, Direction, r, last)
                 /\ OrderBefore(Sort, Direction, last, more)
                 /\ result' = [status |-> 200, items |-> items,
                               cursor |-> EncodeCursor(
                                 buildCursor(Sort, Direction, last))]
<1> USE DEF ScanInv
<1>1. CASE ~validateCursorSort(DecodeCursor(token), Sort, Direction)
  BY <1>1 DEF Query, Answer, Sort, Direction
<1>2. CASE validateCursorSort(DecodeCursor(token), Sort, Direction)
  <2> DEFINE Trimmed(fetched, items) ==
        IF Cardinality(fetched) > params.Limit
          THEN \E last \in items :
                 /\ \A r \in items \ {last} :
                      OrderBefore(Sort, Direction, r, last)
                 /\ result' = [status |-> 200, items |-> items,
                               cursor |-> EncodeCursor(
                                 buildCursor(Sort, Direction, last))]
          ELSE result' = [status |-> 200, items |-> items,
                          cursor |-> NoCursor]
  <2>1. \E fetched \in
         LimitedTo(Selected, params.Limit + 1, Sort, Direction) :
        \E items \in LimitedTo(fetched, params.Limit, Sort, Direction) :
          Trimmed(fetched, items)
    BY <1>2, ZenonT(60) DEF Query, ListResources, Answer, Sort, Direction,
       Selected
  <2>2. PICK fetched \in
           LimitedTo(Selected, params.Limit + 1, Sort, Direction) :
          \E items \in LimitedTo(fetched, params.Limit, Sort, Direction) :
            Trimmed(fetched, items)
    BY <2>1
  <2>3. PICK items \in LimitedTo(fetched, params.Limit, Sort, Direction) :
          Trimmed(fetched, items)
    BY <2>2
  <2>4. /\ IsFiniteSet(Selected)
        /\ params.Limit \in Nat /\ params.Limit + 1 \in Nat
    <3>1. Selected \subseteq Row
      BY DEF TypeOK, IsTable, Selected
    <3>2. phase = "query"
      BY DEF Query
    <3>3. params.Limit \in Nat
      BY <3>2, LimitAssumption DEF RequestShape
    <3> QED
      BY <3>1, <3>3, RowAssumption, FS_Subset
  <2>5. /\ fetched \subseteq Selected /\ IsFiniteSet(fetched)
        /\ Cardinality(fetched) \in Nat
    BY <2>4, LimitTakesAll
  <2>6. /\ items \subseteq fetched /\ Cardinality(items) <= params.Limit
        /\ items # fetched => Cardinality(items) = params.Limit
        /\ \A x \in items, y \in fetched \ items :
             OrderBefore(Sort, Direction, x, y)
    BY <2>4, <2>5, LimitTakesAll DEF LimitedTo
  <2>7. CASE ~(Cardinality(fetched) > params.Limit)
    <3>1. result' = [status |-> 200, items |-> items, cursor |-> NoCursor]
      BY <2>3, <2>7
    <3>2. items \in SUBSET Selected
      BY <2>5, <2>6
    <3> QED
      BY <1>2, <2>6, <3>1, <3>2
  <2>8. CASE Cardinality(fetched) > params.Limit
    <3>1. PICK last \in items :
            /\ \A r \in items \ {last} : OrderBefore(Sort, Direction, r, last)
            /\ result' = [status |-> 200, items |-> items,
                          cursor |-> EncodeCursor(
                            buildCursor(Sort, Direction, last))]
      BY <2>3, <2>8
    <3>2. items # fetched
      BY <2>4, <2>5, <2>6, <2>8
    <3>3. PICK more \in fetched : more \notin items
      BY <2>6, <3>2
    <3>4. items \in SUBSET Selected /\ more \in Selected
      BY <2>5, <2>6
    <3>5. /\ Cardinality(items) = params.Limit
          /\ OrderBefore(Sort, Direction, last, more)
      BY <2>6, <3>2, <3>3
    <3> QED
      BY <1>2, <3>1, <3>4, <3>5
  <2> QED
    BY <2>7, <2>8
<1> QED
  BY <1>1, <1>2

\* A page is there only while its answer is on its way.
SizeInv ==
  /\ result.items # {} \/ result.cursor # NoCursor =>
       phase = "respond" /\ result.status = 200
  /\ PageSize

\* No page yet.
LEMMA SizeInit == Init => SizeInv
  BY DEF Init, NoAnswer, SizeInv, PageSize

\* Only the query fills a page, and its limit stays while it is on its way.
LEMMA SizeStep ==
  ASSUME ScanInv, SizeInv, [Next]_vars
  PROVE  SizeInv'
<1> USE DEF SizeInv, PageSize
<1>1. CASE Query
  <2>1. phase' = "respond" /\ params' = params
    BY <1>1 DEF Query, ListResources, Answer
  <2>2. CASE result' = [status |-> 500, items |-> {}, cursor |-> NoCursor]
    BY <2>2
  <2>3. ASSUME NEW items, Cardinality(items) <= params.Limit,
               result' = [status |-> 200, items |-> items, cursor |-> NoCursor]
        PROVE  SizeInv'
    BY <2>1, <2>3
  <2>4. ASSUME NEW items, NEW c, Cardinality(items) = params.Limit,
               result' = [status |-> 200, items |-> items, cursor |-> c]
        PROVE  SizeInv'
    <3>1. params.Limit \in Nat
      BY <1>1, LimitAssumption DEF ScanInv, RequestShape, Query
    <3> QED
      BY <2>1, <2>4, <3>1
  <2> QED
    BY <1>1, <2>2, <2>3, <2>4, PageShape
<1>2. CASE Ingest \/ Finished \/ UNCHANGED vars
  BY <1>2 DEF Ingest, Insert, Upsert, request, Finished, vars
<1>3. CASE Discover \/ Authorize
  BY <1>3 DEF Discover, Authorize, Answer
<1>4. CASE Fail \/ Receive \/ AskAgain \/ Restart
  BY <1>4 DEF Fail, Receive, AskAgain, Restart, Answer, NoAnswer
<1>5. CASE Send \/ Resort
  BY <1>5 DEF Send, Resort
<1>6. CASE GiveUp
  BY <1>6 DEF GiveUp, request
<1> QED
  BY <1>1, <1>2, <1>3, <1>4, <1>5, <1>6 DEF Next

(***************************************************************************)
(* A page never exceeds its limit and is full when it carries a cursor.    *)
(***************************************************************************)
THEOREM PagesAreFull == Spec => []PageSize
<1>1. Init => SizeInv
  BY SizeInit
<1>2. ScanInv /\ SizeInv /\ [Next]_vars => SizeInv'
  BY SizeStep
<1>3. SizeInv => PageSize
  BY DEF SizeInv
<1> QED
  BY <1>1, <1>2, <1>3, ScanInvariant, PTL DEF Spec

\* The row beyond a page is selected by the cursor of the page.
LEMMA MoreIsSelected ==
  ASSUME ScanInv, PageInv, SizeInv, [Next]_vars,
         phase = "query", result'.cursor # NoCursor
  PROVE  \E r \in table :
           ListSelects(params, allowed, DecodeCursor(result'.cursor), r)
<1>1. CASE Query
  <2>1. PICK last, more \in table :
          /\ last \in table
          /\ validateCursorSort(DecodeCursor(token), Sort, Direction)
          /\ ListSelects(params, allowed, DecodeCursor(token), more)
          /\ OrderBefore(Sort, Direction, last, more)
          /\ result'.cursor = EncodeCursor(buildCursor(Sort, Direction, last))
    <3>1. PICK items \in SUBSET Selected :
            \E last \in items, more \in Selected :
              /\ OrderBefore(Sort, Direction, last, more)
              /\ result' = [status |-> 200, items |-> items,
                            cursor |-> EncodeCursor(
                              buildCursor(Sort, Direction, last))]
      BY <1>1, PageShape
    <3>2. validateCursorSort(DecodeCursor(token), Sort, Direction)
      BY <1>1, PageShape
    <3> QED
      BY <3>1, <3>2 DEF Selected
  <2>2. DecodeCursor(result'.cursor) = buildCursor(Sort, Direction, last)
    BY <2>1, CursorRoundTrip
  <2>3. Matches(params, more) /\ TargetOf(more) \in allowed
    BY <2>1, SelectedInScope
  <2>4. Filters(params, allowed, more)
    BY <2>3, MatchesFilters
  <2>5. IsRow(last) /\ IsRow(more)
    BY <2>1, RowAssumption DEF ScanInv, TypeOK, IsTable
  <2>6. Sort \in SortBy /\ Direction \in SortOrder
    BY SortIsValid DEF ScanInv, TypeOK, Sort, Direction
  <2>7. ListSelects(params, allowed, buildCursor(Sort, Direction, last), more)
    BY <2>1, <2>4, <2>5, <2>6, NextPageSelection DEF Sort, Direction
  <2> QED
    BY <2>2, <2>7
<1>2. CASE Fail
  BY <1>2 DEF Fail, Answer
<1>3. CASE ~Query /\ ~Fail
  <2>1. result' = result
    BY <1>3 DEF Next, Ingest, Insert, Upsert, request, Finished, vars,
       Discover, Authorize, Send, Receive, AskAgain, GiveUp, Restart, Resort
  <2> QED
    BY <2>1 DEF SizeInv
<1> QED
  BY <1>1, <1>2, <1>3

(***************************************************************************)
(* A cursor is handed out only if a row lies beyond it.                    *)
(***************************************************************************)
THEOREM CursorsPointAhead ==
  ASSUME AvoidsDescendingComposition
  PROVE  Spec => CursorHasMore
<1>1. Init => PageInv /\ SizeInv
  BY PageInit, SizeInit
<1>2. ScanInv /\ PageInv /\ SizeInv /\ [Next]_vars => PageInv' /\ SizeInv'
  BY PageStep, SizeStep
<1>3. ScanInv /\ PageInv /\ SizeInv /\ [Next]_vars =>
        [phase = "query" /\ result'.cursor # NoCursor =>
           \E r \in table :
             ListSelects(params, allowed, DecodeCursor(result'.cursor), r)]_vars
  BY MoreIsSelected
<1> QED
  BY <1>1, <1>2, <1>3, ScanInvariant, PTL DEF Spec, CursorHasMore

-----------------------------------------------------------------------------
(* No row comes twice, updated or not, under a sort that moves rows only   *)
(* ahead: the row of the cursor stays after every row received.            *)

Forward(s, o) ==
  \/ s \in {"created_at", "global_uid"}
  \/ s = "updated_at" /\ o = "desc"

\* No row of the table that is in got lies after row l.
StaysBehind(s, o, l, got) ==
  \A r \in table : r["id"] \in got => ~OrderBefore(s, o, l, r)

\* What a token promises of the rows in got.
Behind(t, got) ==
  t # NoCursor =>
    \E s \in SortBy, o \in SortOrder, l \in Row :
      /\ t = EncodeCursor(buildCursor(s, o, l))
      /\ Forward(s, o) => StaysBehind(s, o, l, got)

\* The inductive invariant, with the rows of the page under way.
RepeatInv ==
  /\ received \subseteq IdsOf(table)
  /\ IdsOf(result.items) \subseteq IdsOf(table)
  /\ Behind(token, received)
  /\ phase = "respond" /\ result.status = 200 =>
       /\ Behind(result.cursor, received \union IdsOf(result.items))
       /\ ForwardOnly(params) =>
            IdsOf(result.items) \intersect received = {}

\* Such a sort compares one column and then id.
LEMMA ForwardColumns ==
  ASSUME NEW s, NEW o, Forward(s, o)
  PROVE  /\ s \in SortBy \ {"resource"}
         /\ DOMAIN SortColumns(s) = 1..2
         /\ SortColumns(s)[1] = s /\ SortColumns(s)[2] = "id"
<1>1. s \in SortBy \ {"resource"}
  BY DEF Forward, SortBy
<1>2. SortColumns(s) = <<s, "id">>
  BY <1>1 DEF SortColumns
<1> QED
  BY <1>1, <1>2

\* An upsert leaves a row where it is, or moves it towards the first page.
LEMMA UpsertMovesAhead ==
  ASSUME NEW s, NEW o, Forward(s, o),
         NEW l \in Row, NEW q \in Row, NEW r \in Row, Replaces(r, q),
         OrderBefore(s, o, l, r)
  PROVE  OrderBefore(s, o, l, q)
<1>1. /\ DOMAIN SortColumns(s) = 1..2
      /\ SortColumns(s)[1] = s /\ SortColumns(s)[2] = "id"
  BY ForwardColumns
<1>2. IsRow(l) /\ IsRow(q) /\ IsRow(r)
  BY RowAssumption
<1>3. /\ r["created_at"] = q["created_at"]
      /\ r["global_uid"] = q["global_uid"]
      /\ r["id"] = q["id"]
      /\ r["updated_at"] > q["updated_at"]
  BY DEF Replaces, Column
<1>4. CASE s \in {"created_at", "global_uid"}
  <2> DEFINE cols == SortColumns(s)
  <2>1. \A i \in DOMAIN cols : r[cols[i]] = q[cols[i]]
    BY <1>1, <1>3, <1>4
  <2>2. DOMAIN cols = 1..2 /\ LexBefore(cols, o, l, r)
    BY <1>1 DEF OrderBefore
  <2> HIDE DEF cols
  <2>3. PICK i \in DOMAIN cols :
          /\ ColumnBefore(o, l[cols[i]], r[cols[i]])
          /\ \A j \in 1..(i - 1) : l[cols[j]] = r[cols[j]]
    BY <2>2 DEF LexBefore
  <2>4. \A j \in 1..(i - 1) : l[cols[j]] = q[cols[j]]
    BY <2>1, <2>2, <2>3
  <2>5. LexBefore(cols, o, l, q)
    BY <2>1, <2>3, <2>4 DEF LexBefore
  <2> QED
    BY <2>5 DEF OrderBefore, cols
<1>5. CASE s = "updated_at" /\ o = "desc"
  <2>1. r["updated_at"] \in Nat /\ q["updated_at"] \in Nat
    BY <1>2 DEF IsRow, Column, Nullable
  <2>2. ColumnBefore(o, r[SortColumns(s)[1]], q[SortColumns(s)[1]])
    BY <1>1, <1>3, <1>5, <2>1, NullAssumption DEF ColumnBefore
  <2>3. OrderBefore(s, o, r, q)
    BY <1>1, <2>2 DEF OrderBefore, LexBefore
  <2> QED
    BY <1>2, <2>3, OrderTransitive
<1> QED
  BY <1>4, <1>5 DEF Forward

\* A write of the ingester puts no row of got after the row of a cursor.
LEMMA IngestStaysBehind ==
  ASSUME ScanInv, Ingest, NEW t, NEW got, got \subseteq IdsOf(table),
         Behind(t, got)
  PROVE  Behind(t, got)' /\ IdsOf(table) \subseteq IdsOf(table')
<1>1. table \subseteq Row
  BY DEF ScanInv, TypeOK, IsTable
<1>2. ASSUME NEW r \in Row, Insert(r)
      PROVE  /\ IdsOf(table) \subseteq IdsOf(table')
             /\ \A x \in table' : x["id"] \in got => x \in table
  <2>1. table' = table \union {r} /\ r["id"] \notin IdsOf(table)
    BY <1>2 DEF Insert, IsNew, IdsOf
  <2> QED
    BY <2>1 DEF IdsOf
<1>3. ASSUME NEW r \in Row, NEW q \in table, Upsert(q, r)
      PROVE  /\ IdsOf(table) \subseteq IdsOf(table')
             /\ \A x \in table' : x["id"] \in got =>
                  x \in table \/ (x = r /\ Replaces(r, q) /\ q["id"] \in got)
  <2>1. table' = (table \ {q}) \union {r} /\ Replaces(r, q)
    BY <1>3 DEF Upsert
  <2>2. r["id"] = q["id"]
    BY <2>1 DEF Replaces, Column
  <2> QED
    BY <2>1, <2>2 DEF IdsOf
<1>4. /\ IdsOf(table) \subseteq IdsOf(table')
      /\ \A x \in table' : x["id"] \in got =>
           \/ x \in table
           \/ x \in Row /\ \E q \in table : Replaces(x, q) /\ q["id"] \in got
  BY <1>2, <1>3 DEF Ingest
<1>5. ASSUME NEW s, NEW o, NEW l \in Row, Forward(s, o),
             StaysBehind(s, o, l, got)
      PROVE  StaysBehind(s, o, l, got)'
  <2> SUFFICES ASSUME NEW x \in table', x["id"] \in got
               PROVE  ~OrderBefore(s, o, l, x)
    BY DEF StaysBehind
  <2>1. CASE x \in table
    BY <1>5, <2>1 DEF StaysBehind
  <2>2. ASSUME x \in Row, NEW q \in table, Replaces(x, q), q["id"] \in got
        PROVE  ~OrderBefore(s, o, l, x)
    <3>1. ~OrderBefore(s, o, l, q)
      BY <1>5, <2>2 DEF StaysBehind
    <3>2. q \in Row
      BY <1>1
    <3> QED
      BY <1>5, <2>2, <3>1, <3>2, UpsertMovesAhead
  <2> QED
    BY <1>4, <2>1, <2>2
<1> QED
  BY <1>4, <1>5 DEF Behind

\* With its cursor the query selects no row that the client has.
LEMMA SelectedIsAhead ==
  ASSUME ScanInv, RepeatInv, Query, ForwardOnly(params),
         validateCursorSort(DecodeCursor(token), Sort, Direction)
  PROVE  \/ received = {}
         \/ \E l \in Row :
              /\ StaysBehind(Sort, Direction, l, received)
              /\ \A r \in Selected : OrderBefore(Sort, Direction, l, r)
<1>1. \A r \in table : IsRow(r)
  BY RowAssumption DEF ScanInv, TypeOK, IsTable
<1>2. CASE token = NoCursor
  BY <1>2 DEF ScanInv, TokenSplits, Query
<1>3. CASE token # NoCursor
  <2>1. PICK s \in SortBy, o \in SortOrder, l \in Row :
          /\ token = EncodeCursor(buildCursor(s, o, l))
          /\ Forward(s, o) => StaysBehind(s, o, l, received)
    BY <1>3 DEF RepeatInv, Behind
  <2>2. DecodeCursor(token) = buildCursor(s, o, l)
    BY <2>1, CursorRoundTrip
  <2>3. s = Sort /\ o = Direction
    BY <2>2, CursorRoundTrip, CursorFields DEF validateCursorSort
  <2>4. Forward(s, o)
    BY <2>3 DEF ForwardOnly, Forward, Sort, Direction
  <2>5. \A r \in Selected : OrderBefore(Sort, Direction, l, r)
    BY <1>1, <2>2, <2>3, RowAssumption, NextPageSelection
       DEF Selected, Sort, Direction
  <2> QED
    BY <2>1, <2>3, <2>4, <2>5
<1> QED
  BY <1>2, <1>3

\* A page repeats no row, and its cursor leaves all of them behind.
LEMMA QueryStaysBehind ==
  ASSUME ScanInv, RepeatInv, Query
  PROVE  RepeatInv'
<1>1. /\ table' = table /\ params' = params /\ token' = token
      /\ received' = received /\ phase' = "respond"
  BY DEF Query, ListResources, Answer
<1>2. /\ table \subseteq Row /\ (\A r \in table : IsRow(r))
      /\ (\A a, b \in table : a["id"] = b["id"] => a = b)
  BY RowAssumption DEF ScanInv, TypeOK, IsTable
<1>3. Sort \in SortBy /\ Direction \in SortOrder
  BY SortIsValid DEF ScanInv, TypeOK, Sort, Direction
<1>4. received \subseteq IdsOf(table) /\ Behind(token, received)
  BY DEF RepeatInv
<1>5. ASSUME NEW items \in SUBSET Selected,
             validateCursorSort(DecodeCursor(token), Sort, Direction),
             ForwardOnly(params)
      PROVE  IdsOf(items) \intersect received = {}
  <2> SUFFICES ASSUME NEW r \in items, r["id"] \in received
               PROVE  FALSE
    BY DEF IdsOf
  <2>1. r \in table
    BY <1>5 DEF Selected
  <2> QED
    BY <1>5, <2>1, SelectedIsAhead DEF StaysBehind
<1>6. ASSUME NEW items \in SUBSET Selected
      PROVE  IdsOf(items) \subseteq IdsOf(table)
  BY <1>6 DEF IdsOf, Selected
<1>7. Behind(token, received)'
  BY <1>1, <1>4 DEF Behind, StaysBehind
<1>8. CASE result' = [status |-> 500, items |-> {}, cursor |-> NoCursor]
  BY <1>1, <1>4, <1>7, <1>8 DEF RepeatInv, IdsOf
<1>9. ASSUME NEW items \in SUBSET Selected,
             validateCursorSort(DecodeCursor(token), Sort, Direction),
             result' = [status |-> 200, items |-> items, cursor |-> NoCursor]
      PROVE  RepeatInv'
  <2>1. ForwardOnly(params)' => IdsOf(items) \intersect received = {}
    BY <1>1, <1>5, <1>9 DEF ForwardOnly
  <2> QED
    BY <1>1, <1>4, <1>6, <1>7, <1>9, <2>1 DEF RepeatInv, Behind, IdsOf
<1>10. ASSUME NEW items \in SUBSET Selected, NEW last \in items,
              validateCursorSort(DecodeCursor(token), Sort, Direction),
              \A r \in items \ {last} : OrderBefore(Sort, Direction, r, last),
              result' = [status |-> 200, items |-> items,
                         cursor |-> EncodeCursor(
                           buildCursor(Sort, Direction, last))]
       PROVE  RepeatInv'
  <2>1. ForwardOnly(params)' => IdsOf(items) \intersect received = {}
    BY <1>1, <1>5, <1>10 DEF ForwardOnly
  <2>2. items \subseteq table /\ last \in table /\ last \in Row
    BY <1>2, <1>10 DEF Selected
  <2>3. ASSUME Forward(Sort, Direction)
        PROVE  StaysBehind(Sort, Direction, last,
                           received \union IdsOf(items))
    <3> SUFFICES ASSUME NEW r \in table,
                        r["id"] \in received \union IdsOf(items)
                 PROVE  ~OrderBefore(Sort, Direction, last, r)
      BY DEF StaysBehind
    <3>1. IsRow(r) /\ IsRow(last)
      BY <1>2, <2>2
    <3>2. CASE r["id"] \in IdsOf(items)
      <4>1. r \in items
        BY <1>2, <2>2, <3>2 DEF IdsOf
      <4> QED
        BY <1>10, <3>1, <4>1, OrderIrreflexive, OrderTransitive
    <3>3. CASE r["id"] \in received
      <4>1. ForwardOnly(params)
        BY <2>3 DEF ForwardOnly, Forward, Sort, Direction
      <4>2. PICK l \in Row :
              /\ StaysBehind(Sort, Direction, l, received)
              /\ \A x \in Selected : OrderBefore(Sort, Direction, l, x)
        BY <1>10, <3>3, <4>1, SelectedIsAhead
      <4>3. /\ OrderBefore(Sort, Direction, l, last)
            /\ ~OrderBefore(Sort, Direction, l, r)
        BY <1>10, <3>3, <4>2 DEF StaysBehind
      <4>4. IsRow(l)
        BY RowAssumption
      <4> QED
        BY <3>1, <4>3, <4>4, OrderTransitive
    <3> QED
      BY <3>2, <3>3
  <2>4. Behind(result.cursor, received \union IdsOf(result.items))'
    <3>1. PICK s \in SortBy, o \in SortOrder : s = Sort /\ o = Direction
      BY <1>3
    <3>2. PICK got : got = received \union IdsOf(items)
      OBVIOUS
    <3>3. Forward(s, o) => StaysBehind(s, o, last, got)
      BY <2>3, <3>1, <3>2
    <3>4. Forward(s, o) => StaysBehind(s, o, last, got)'
      BY <1>1, <3>3 DEF StaysBehind
    <3>5. /\ result'.cursor = EncodeCursor(buildCursor(s, o, last))
          /\ received' \union IdsOf(result'.items) = got
      BY <1>1, <1>10, <3>1, <3>2
    <3>6. Behind(EncodeCursor(buildCursor(s, o, last)), got)'
      BY <2>2, <3>4 DEF Behind
    <3> QED
      BY <3>5, <3>6 DEF Behind, StaysBehind, IdsOf
  <2>5. result'.items = items
    BY <1>10
  <2> QED
    BY <1>1, <1>4, <1>6, <1>7, <2>1, <2>4, <2>5 DEF RepeatInv, IdsOf
<1> QED
  BY <1>8, <1>9, <1>10, PageShape

\* Every other step brings no row into a page.
LEMMA RepeatStep ==
  ASSUME ScanInv, SizeInv, RepeatInv, [Next]_vars
  PROVE  RepeatInv'
<1>1. CASE Ingest
  <2>1. /\ params' = params /\ token' = token /\ result' = result
        /\ received' = received /\ phase' = phase
    BY <1>1 DEF Ingest, Insert, Upsert, request
  <2>2. Behind(token, received)' /\ IdsOf(table) \subseteq IdsOf(table')
    <3>1. Behind(token, received) /\ received \subseteq IdsOf(table)
      BY DEF RepeatInv
    <3>2. PICK t, got : t = token /\ got = received
      OBVIOUS
    <3>3. Behind(t, got)' /\ IdsOf(table) \subseteq IdsOf(table')
      BY <1>1, <3>1, <3>2, IngestStaysBehind
    <3> QED
      BY <2>1, <3>2, <3>3 DEF Behind, StaysBehind
  <2>3. phase = "respond" /\ result.status = 200 =>
          Behind(result.cursor, received \union IdsOf(result.items))'
    <3> SUFFICES ASSUME phase = "respond" /\ result.status = 200
                 PROVE  Behind(result.cursor,
                               received \union IdsOf(result.items))'
      OBVIOUS
    <3>1. PICK got : got = received \union IdsOf(result.items)
      OBVIOUS
    <3>2. PICK t : t = result.cursor
      OBVIOUS
    <3>3. got \subseteq IdsOf(table) /\ Behind(t, got)
      BY <3>1, <3>2 DEF RepeatInv
    <3>4. Behind(t, got)'
      BY <1>1, <3>3, IngestStaysBehind
    <3>5. /\ t = result'.cursor
          /\ got = received' \union IdsOf(result'.items)
      BY <2>1, <3>1, <3>2
    <3> QED
      BY <3>4, <3>5 DEF Behind, StaysBehind, IdsOf
  <2>4. ForwardOnly(params)' = ForwardOnly(params)
    BY <2>1 DEF ForwardOnly
  <2>5. IdsOf(result.items)' = IdsOf(result.items)
    BY <2>1 DEF IdsOf
  <2>6. /\ received \subseteq IdsOf(table)
        /\ IdsOf(result.items) \subseteq IdsOf(table)
        /\ phase = "respond" /\ result.status = 200 /\ ForwardOnly(params) =>
             IdsOf(result.items) \intersect received = {}
    BY DEF RepeatInv
  <2>7. IdsOf(table)' = IdsOf(table')
    OBVIOUS
  <2> QED
    BY <2>1, <2>2, <2>3, <2>4, <2>5, <2>6, <2>7 DEF RepeatInv
<1>2. CASE Query
  BY <1>2, QueryStaysBehind
<1>3. ASSUME table' = table, token' = token, received' = received,
             IdsOf(result'.items) \subseteq IdsOf(table),
             phase' = "respond" /\ result'.status = 200 =>
               result'.items = {} /\ result'.cursor = NoCursor
      PROVE  RepeatInv'
  <2>1. Behind(token, received)'
    BY <1>3 DEF RepeatInv, Behind, StaysBehind
  <2> QED
    BY <1>3, <2>1 DEF RepeatInv, Behind, IdsOf
<1>4. CASE Discover \/ Authorize \/ Fail
  <2>1. \/ phase' # "respond" /\ result' = result
        \/ \E n \in {200, 403, 500} :
             result' = [status |-> n, items |-> {}, cursor |-> NoCursor]
    BY <1>4 DEF Discover, Authorize, Fail, Answer
  <2>2. table' = table /\ token' = token /\ received' = received
    BY <1>4 DEF Discover, Authorize, Fail
  <2> QED
    BY <1>3, <2>1, <2>2 DEF RepeatInv, IdsOf
<1>5. CASE Send \/ AskAgain \/ Resort
  <2>1. /\ phase' # "respond"
        /\ result' = result \/ result' = NoAnswer
        /\ table' = table /\ token' = token /\ received' = received
    BY <1>5 DEF Send, AskAgain, Resort
  <2> QED
    BY <1>3, <2>1 DEF RepeatInv, IdsOf, NoAnswer
<1>6. CASE GiveUp
  <2>1. /\ phase' = "stopped" /\ result' = result
        /\ table' = table /\ token' = token /\ received' = received
    BY <1>6 DEF GiveUp, request
  <2> QED
    BY <1>3, <2>1 DEF RepeatInv
<1>7. CASE Receive
  <2>1. /\ phase = "respond" /\ result.status = 200 /\ phase' # "respond"
        /\ received' = received \union IdsOf(result.items)
        /\ token' = result.cursor /\ result'.items = {} /\ table' = table
    BY <1>7 DEF Receive, NoAnswer
  <2>2. Behind(token, received)'
    BY <2>1 DEF RepeatInv, Behind, StaysBehind
  <2>3. received' \subseteq IdsOf(table)
    BY <2>1 DEF RepeatInv
  <2> QED
    BY <2>1, <2>2, <2>3 DEF RepeatInv, IdsOf
<1>8. CASE Restart
  <2>1. /\ phase' = "client" /\ received' = {} /\ token' = NoCursor
        /\ result'.items = {}
    BY <1>8 DEF Restart, NoAnswer
  <2> QED
    BY <2>1 DEF RepeatInv, Behind, IdsOf
<1>9. CASE Finished \/ UNCHANGED vars
  BY <1>9 DEF Finished, vars, RepeatInv, Behind, StaysBehind, IdsOf,
     ForwardOnly
<1> QED
  BY <1>1, <1>2, <1>4, <1>5, <1>6, <1>7, <1>8, <1>9 DEF Next

(***************************************************************************)
(* Sorted by created_at or global_uid, or by updated_at descending, a walk *)
(* delivers no row twice, however often the ingester updates it and the    *)
(* client repeats a request.                                               *)
(***************************************************************************)
THEOREM NothingComesTwice == Spec => NoRepeat
<1>1. Init => SizeInv /\ RepeatInv
  <2>1. Init => RepeatInv
    BY DEF Init, NoAnswer, RepeatInv, Behind, IdsOf
  <2> QED
    BY <2>1, SizeInit
<1>2. ScanInv /\ SizeInv /\ RepeatInv /\ [Next]_vars
        => SizeInv' /\ RepeatInv'
  BY SizeStep, RepeatStep
<1>3. RepeatInv =>
        [Receive /\ ForwardOnly(params)
           => IdsOf(result.items) \intersect received = {}]_vars
  BY DEF RepeatInv, Receive
<1> QED
  BY <1>1, <1>2, <1>3, ScanInvariant, PTL DEF Spec, NoRepeat

-----------------------------------------------------------------------------
(* Pages come in order: each lies between its token and its cursor.        *)

\* What the cursor of a row leaves for the next pages.
LEMMA AheadOfRow ==
  ASSUME Sort \in SortBy, Direction \in SortOrder, NEW l \in Row
  PROVE  Ahead(EncodeCursor(buildCursor(Sort, Direction, l)))
           = {r \in Row : OrderBefore(Sort, Direction, l, r)}
<1> DEFINE t == EncodeCursor(buildCursor(Sort, Direction, l))
<1>1. DecodeCursor(t) = buildCursor(Sort, Direction, l) /\ t # NoCursor
  BY CursorRoundTrip
<1>2. ASSUME NEW r \in Row
      PROVE  r \in Ahead(t) <=> OrderBefore(Sort, Direction, l, r)
  <2>1. LET cond == cursorCondition(Sort, Direction,
                                    buildCursor(Sort, Direction, l), r)
        IN (\E j \in DOMAIN cond : cond[j])
             <=> OrderBefore(Sort, Direction, l, r)
    BY RowAssumption, SomeOperand
  <2> QED
    BY <1>1, <2>1 DEF Ahead, Sort, Direction
<1> HIDE DEF t
<1>3. Ahead(t) \subseteq Row
  BY DEF Ahead
<1> QED
  BY <1>2, <1>3 DEF t

\* A token that the query accepts was made from some row, in the same sort.
LEMMA TokenOfSort ==
  ASSUME ScanInv, token # NoCursor,
         validateCursorSort(DecodeCursor(token), Sort, Direction)
  PROVE  \E l \in Row : token = EncodeCursor(buildCursor(Sort, Direction, l))
<1>1. PICK s \in SortBy, o \in SortOrder, l \in Row :
        token = EncodeCursor(buildCursor(s, o, l))
  BY DEF ScanInv, TokenSplits
<1>2. DecodeCursor(token) = buildCursor(s, o, l)
  BY <1>1, CursorRoundTrip
<1>3. s = Sort /\ o = Direction
  BY <1>2, CursorRoundTrip, CursorFields DEF validateCursorSort
<1> QED
  BY <1>1, <1>3

\* Such a token leaves every row that the query selects.
LEMMA SelectedIsLeft ==
  ASSUME ScanInv,
         validateCursorSort(DecodeCursor(token), Sort, Direction)
  PROVE  Selected \subseteq Ahead(token)
<1>1. Selected \subseteq Row /\ Sort \in SortBy /\ Direction \in SortOrder
  BY SortIsValid DEF ScanInv, TypeOK, IsTable, Selected, Sort, Direction
<1>2. CASE token = NoCursor
  BY <1>1, <1>2 DEF Ahead
<1>3. CASE token # NoCursor
  <2>1. PICK l \in Row :
          token = EncodeCursor(buildCursor(Sort, Direction, l))
    BY <1>3, TokenOfSort
  <2>2. DecodeCursor(token) = buildCursor(Sort, Direction, l)
    BY <2>1, CursorRoundTrip
  <2>3. \A r \in Selected : OrderBefore(Sort, Direction, l, r)
    BY <1>1, <2>2, RowAssumption, NextPageSelection
       DEF Selected, Sort, Direction
  <2> QED
    BY <1>1, <2>1, <2>3, AheadOfRow
<1> QED
  BY <1>2, <1>3

\* The page on its way lies ahead of the token, and its cursor leaves less.
AdvanceInv ==
  phase = "respond" /\ result.status = 200 =>
    /\ result.items \subseteq Ahead(token)
    /\ result.cursor # NoCursor =>
         /\ result.items # {}
         /\ Ahead(result.cursor) \subseteq Ahead(token) \ result.items

\* What the query answers moves on from the token.
LEMMA QueryAdvances ==
  ASSUME ScanInv, Query
  PROVE  AdvanceInv'
<1>1. /\ params' = params /\ token' = token
      /\ Ahead(token)' = Ahead(token)
      /\ Ahead(result.cursor)' = Ahead(result'.cursor)
  BY DEF Query, Ahead
<1>2. Sort \in SortBy /\ Direction \in SortOrder
  BY SortIsValid DEF ScanInv, TypeOK, Sort, Direction
<1>3. CASE result'.status # 200
  BY <1>3 DEF AdvanceInv
<1>4. ASSUME NEW items \in SUBSET Selected,
             validateCursorSort(DecodeCursor(token), Sort, Direction),
             result' = [status |-> 200, items |-> items, cursor |-> NoCursor]
      PROVE  AdvanceInv'
  <2>1. result'.items = items /\ result'.cursor = NoCursor
    BY <1>4
  <2>2. items \subseteq Ahead(token)
    BY <1>4, SelectedIsLeft
  <2> QED
    BY <1>1, <2>1, <2>2 DEF AdvanceInv
<1>5. ASSUME NEW items \in SUBSET Selected, NEW last \in items,
             validateCursorSort(DecodeCursor(token), Sort, Direction),
             \A r \in items \ {last} : OrderBefore(Sort, Direction, r, last),
             result' = [status |-> 200, items |-> items,
                        cursor |-> EncodeCursor(
                          buildCursor(Sort, Direction, last))]
      PROVE  AdvanceInv'
  <2> DEFINE next == EncodeCursor(buildCursor(Sort, Direction, last))
  <2>1. result'.items = items /\ result'.cursor = next
    BY <1>5
  <2>2. items \subseteq Ahead(token)
    BY <1>5, SelectedIsLeft
  <2>3. items \subseteq Row /\ last \in Row
    BY <1>5 DEF ScanInv, TypeOK, IsTable, Selected
  <2>4. Ahead(next) = {r \in Row : OrderBefore(Sort, Direction, last, r)}
    BY <1>2, <2>3, AheadOfRow
  <2> HIDE DEF next
  <2>5. Ahead(next) \subseteq Ahead(token)
    <3> SUFFICES ASSUME NEW r \in Row, OrderBefore(Sort, Direction, last, r)
                 PROVE  r \in Ahead(token)
      BY <2>4
    <3>1. CASE token = NoCursor
      BY <3>1 DEF Ahead
    <3>2. CASE token # NoCursor
      <4>1. PICK l \in Row :
              token = EncodeCursor(buildCursor(Sort, Direction, l))
        BY <1>5, <3>2, TokenOfSort
      <4>2. Ahead(token) = {x \in Row : OrderBefore(Sort, Direction, l, x)}
        BY <1>2, <4>1, AheadOfRow
      <4>3. OrderBefore(Sort, Direction, l, last)
        BY <2>2, <4>2
      <4>4. IsRow(l) /\ IsRow(last) /\ IsRow(r)
        BY <2>3, RowAssumption
      <4>5. OrderBefore(Sort, Direction, l, r)
        BY <1>2, <4>3, <4>4, OrderTransitive
      <4> QED
        BY <4>2, <4>5
    <3> QED
      BY <3>1, <3>2
  <2>6. ASSUME NEW r \in items
        PROVE  r \notin Ahead(next)
    <3>1. IsRow(r) /\ IsRow(last)
      BY <2>3, RowAssumption
    <3>2. ~OrderBefore(Sort, Direction, last, r)
      BY <1>2, <1>5, <3>1, OrderIrreflexive, OrderTransitive
    <3> QED
      BY <2>4, <3>2
  <2>7. items # {} /\ Ahead(next) \subseteq Ahead(token) \ items
    BY <2>5, <2>6
  <2>8. /\ Ahead(result.cursor)' = Ahead(next)
        /\ Ahead(token)' = Ahead(token)
    BY <1>1, <2>1
  <2> QED
    BY <2>1, <2>2, <2>7, <2>8 DEF AdvanceInv
<1> QED
  BY <1>3, <1>4, <1>5, PageShape

\* Nothing else puts rows or a cursor into an answer, and while one is on its
\* way neither the parameters nor the token change.
LEMMA AdvanceStep ==
  ASSUME ScanInv, AdvanceInv, [Next]_vars
  PROVE  AdvanceInv'
<1>1. CASE Query
  BY <1>1, QueryAdvances
<1>2. CASE UNCHANGED <<phase, result, params, token, tokenSort>>
  BY <1>2 DEF AdvanceInv, Ahead
<1>3. CASE phase' # "respond"
  BY <1>3 DEF AdvanceInv
<1>4. CASE result'.items = {} /\ result'.cursor = NoCursor
  BY <1>4 DEF AdvanceInv
<1>5. CASE Ingest \/ Finished \/ UNCHANGED vars
  BY <1>2, <1>5 DEF Ingest, Insert, Upsert, request, Finished, vars
<1>6. CASE Discover \/ Authorize \/ Fail
  BY <1>3, <1>4, <1>6 DEF Discover, Authorize, Fail, Answer
<1>7. CASE Send \/ Receive \/ AskAgain \/ GiveUp \/ Restart \/ Resort
  BY <1>3, <1>7 DEF Send, Receive, AskAgain, GiveUp, Restart, Resort
<1> QED
  BY <1>1, <1>5, <1>6, <1>7 DEF Next

\* Hence it always holds.
LEMMA AdvanceInvariant == Spec => []AdvanceInv
<1>1. Init => AdvanceInv
  BY DEF Init, AdvanceInv
<1>2. ScanInv /\ AdvanceInv /\ [Next]_vars => AdvanceInv'
  BY AdvanceStep
<1> QED
  BY <1>1, <1>2, ScanInvariant, PTL DEF Spec

(***************************************************************************)
(* The pages of a walk come in the order of its sort, and each leaves less *)
(* for the next ones, also when lost pages are asked for again, and under  *)
(* the sort whose condition lets rows of other lists in.                   *)
(***************************************************************************)
THEOREM PagesComeInOrder == Spec => PagesAdvance
<1>1. AdvanceInv =>
        [Receive =>
           /\ result.items \subseteq Ahead(token)
           /\ token' # NoCursor =>
                /\ result.items # {}
                /\ Ahead(token') \subseteq Ahead(token) \ result.items]_vars
  BY DEF AdvanceInv, Receive
<1> QED
  BY <1>1, AdvanceInvariant, PTL DEF PagesAdvance

(***************************************************************************)
(* What bounds a walk: a page that hands out a cursor uses up as many of   *)
(* the rows ahead as its limit, so among R rows a walk with limit n is     *)
(* over after R/n pages.  That is the safety half of WalkEnds.             *)
(***************************************************************************)
THEOREM PagesUseUpRows ==
  Spec => [][Receive /\ token' # NoCursor =>
               Cardinality(Ahead(token')) + params.Limit
                 <= Cardinality(Ahead(token))]_vars
<1>1. ASSUME ScanInv, SizeInv, AdvanceInv, Receive, token' # NoCursor
      PROVE  Cardinality(Ahead(token')) + params.Limit
               <= Cardinality(Ahead(token))
  <2>1. /\ result.items \subseteq Ahead(token)
        /\ Ahead(token') \subseteq Ahead(token) \ result.items
        /\ Cardinality(result.items) = params.Limit
    BY <1>1 DEF Receive, AdvanceInv, SizeInv, PageSize
  <2>2. IsFiniteSet(Ahead(token))
    BY RowAssumption, FS_Subset DEF Ahead
  <2>3. /\ IsFiniteSet(Ahead(token'))
        /\ Cardinality(Ahead(token'))
             <= Cardinality(Ahead(token) \ result.items)
        /\ Cardinality(Ahead(token) \ result.items)
             = Cardinality(Ahead(token)) - Cardinality(result.items)
    <3>1. IsFiniteSet(Ahead(token) \ result.items)
      BY <2>2, FS_Subset
    <3>2. Ahead(token) \intersect result.items = result.items
      BY <2>1
    <3>3. Cardinality(Ahead(token) \ result.items)
            = Cardinality(Ahead(token))
              - Cardinality(Ahead(token) \intersect result.items)
      BY <2>2, FS_Difference
    <3>4. /\ IsFiniteSet(Ahead(token'))
          /\ Cardinality(Ahead(token'))
               <= Cardinality(Ahead(token) \ result.items)
      BY <2>1, <3>1, FS_Subset
    <3> QED
      BY <3>2, <3>3, <3>4
  <2>4. /\ Cardinality(Ahead(token)) \in Nat
        /\ Cardinality(Ahead(token')) \in Nat
        /\ params.Limit \in Nat
    BY <1>1, <2>2, <2>3, FS_CardinalityType, LimitAssumption
       DEF ScanInv, RequestShape, Receive
  <2> QED
    BY <2>1, <2>3, <2>4
<1>2. ScanInv /\ SizeInv /\ AdvanceInv =>
        [Receive /\ token' # NoCursor =>
           Cardinality(Ahead(token')) + params.Limit
             <= Cardinality(Ahead(token))]_vars
  BY <1>1
<1>3. Spec => []SizeInv
  BY SizeInit, SizeStep, ScanInvariant, PTL DEF Spec
<1> QED
  BY <1>2, <1>3, ScanInvariant, AdvanceInvariant, PTL

=============================================================================
