------------------------------ MODULE ListWalk ------------------------------
(***************************************************************************)
(* A client pages through GET/POST /resources while the ingester writes    *)
(* krateo_resources.  One walk is a chain of requests: each request runs   *)
(* the phases of handleResources (discovery, RBAC, query, response), which *)
(* read the table at different moments, and the client sends the cursor of *)
(* each page with the next request.  Requests share no state in the        *)
(* server, so one walk is enough.                                          *)
(***************************************************************************)
EXTENDS Store

CONSTANTS
  InitialTables,  \* the tables a walk may start with
  Params,         \* the list parameters a walk may use (Limit left out)
  Limits,         \* the limits a client may ask for
  MaxChanges,     \* bound on the writes of the ingester during a walk
  MaxFaults       \* bound on lost answers, failures and client mistakes

ASSUME TableAssumption == \A t \in InitialTables : IsTable(t)
ASSUME ParamsAssumption == \A p \in Params : p \in ListParams
ASSUME LimitAssumption == Limits \subseteq Nat \ {0}
ASSUME BoundAssumption == MaxChanges \in Nat /\ MaxFaults \in Nat

VARIABLES
  table,       \* krateo_resources
  changes,     \* writes of the ingester so far
  params,      \* ListParams of the walk
  token,       \* the cursor the client sends, NoCursor for none
  tokenSort,   \* history: the sort of the request that token came from
  phase,       \* where the current request is
  discovered,  \* result of DiscoverTargets
  allowed,     \* params.AllowedTargets
  result,      \* the HTTP answer: status, items, cursor
  received,    \* ids of the rows the client has received
  steady,      \* history: ids of the rows in scope since the walk began,
               \* never moved in the sort order and never denied by RBAC
  faults       \* lost answers, failures and client mistakes so far

vars == <<table, changes, params, token, tokenSort, phase, discovered,
          allowed, result, received, steady, faults>>

request == <<params, token, tokenSort, discovered, allowed, result, received>>

NoAnswer == [status |-> 0, items |-> {}, cursor |-> NoCursor]

\* The sort of a request with parameters p, and that of no token.
SortOf(p) == <<SortByOf(p), SortOrderOf(p)>>
NoSort == << >>

\* The client sends only tokens that it was given.
Token == TokensOf(Row)

SameKey(p, a, b) ==
  \A i \in DOMAIN SortColumns(SortByOf(p)) :
    a[SortColumns(SortByOf(p))[i]] = b[SortColumns(SortByOf(p))[i]]

TypeOK ==
  /\ IsTable(table)
  /\ changes \in 0..MaxChanges
  /\ params \in ListParams
  /\ token \in {NoCursor} \union Token
  /\ tokenSort \in {NoSort} \union (SortBy \X SortOrder)
  /\ phase \in {"client", "discover", "rbac", "query", "respond", "done",
                "stopped"}
  /\ allowed \subseteq discovered
  /\ result.status \in {0, 200, 403, 500}
  /\ result.items \subseteq Row
  /\ received \subseteq Id
  /\ steady \subseteq Id
  /\ faults \in 0..MaxFaults

Init ==
  /\ table \in InitialTables
  /\ changes = 0
  /\ params \in Params
  /\ token = NoCursor
  /\ tokenSort = NoSort
  /\ phase = "client"
  /\ discovered = {}
  /\ allowed = {}
  /\ result = NoAnswer
  /\ received = {}
  /\ steady = InScope(params, table)
  /\ faults = 0

-----------------------------------------------------------------------------
(* The ingester.                                                           *)

Insert(r) ==
  /\ changes < MaxChanges
  /\ phase \notin {"done", "stopped"}
  /\ IsNew(r, table)
  /\ table' = table \union {r}
  /\ changes' = changes + 1
  /\ UNCHANGED <<request, phase, steady, faults>>

Upsert(q, r) ==
  /\ changes < MaxChanges
  /\ phase \notin {"done", "stopped"}
  /\ Replaces(r, q)
  /\ table' = (table \ {q}) \union {r}
  /\ changes' = changes + 1
  /\ steady' = IF Matches(params, r) /\ SameKey(params, q, r)
                 THEN steady
                 ELSE steady \ {q["id"]}
  /\ UNCHANGED <<request, phase, faults>>

Ingest == \E r \in Row : Insert(r) \/ \E q \in table : Upsert(q, r)

-----------------------------------------------------------------------------
(* The handler.                                                            *)

Answer(status, items, cursor) ==
  /\ phase' = "respond"
  /\ result' = [status |-> status, items |-> items, cursor |-> cursor]

\* resourcesDiscover: no target at all is an empty 200.
Discover ==
  /\ phase = "discover"
  /\ discovered' = DiscoverTargets(params, table)
  /\ IF discovered' = {}
       THEN Answer(200, {}, NoCursor)
       ELSE phase' = "rbac" /\ result' = result
  /\ UNCHANGED <<table, changes, params, token, tokenSort, allowed, received,
                 steady, faults>>

\* resourcesRBAC: the cluster decides which targets are allowed, anew for
\* every request (a failed check counts as denied).
Authorize ==
  /\ phase = "rbac"
  /\ allowed' \in SUBSET discovered
  /\ steady' = {i \in steady :
                  \A r \in table : r["id"] = i => TargetOf(r) \in allowed'}
  /\ IF allowed' = {}
       THEN Answer(403, {}, NoCursor)
       ELSE phase' = "query" /\ result' = result
  /\ UNCHANGED <<table, changes, params, token, tokenSort, discovered,
                 received, faults>>

\* Variants: the extra row is not trimmed, and no extra row is fetched.
ListResources_NoTrim(cur) ==
  LET s == SortByOf(params)
      o == SortOrderOf(params)
      selected == {r \in table : ListSelects(params, allowed, cur, r)}
  IN \E fetched \in LimitedTo(selected, params.Limit + 1, s, o) :
       IF Cardinality(fetched) > params.Limit
         THEN \E last \in fetched :
                /\ \A r \in fetched \ {last} : OrderBefore(s, o, r, last)
                /\ Answer(200, fetched, EncodeCursor(buildCursor(s, o, last)))
         ELSE Answer(200, fetched, NoCursor)

ListResources_NoExtraRow(cur) ==
  LET s == SortByOf(params)
      o == SortOrderOf(params)
      selected == {r \in table : ListSelects(params, allowed, cur, r)}
  IN \E items \in LimitedTo(selected, params.Limit, s, o) :
       IF Cardinality(items) = params.Limit
         THEN \E last \in items :
                /\ \A r \in items \ {last} : OrderBefore(s, o, r, last)
                /\ Answer(200, items, EncodeCursor(buildCursor(s, o, last)))
         ELSE Answer(200, items, NoCursor)

\* ListResources: fetch limit+1 rows, trim to limit, and build the cursor
\* from the last row kept when there was one more.
ListResources(cur) ==
  LET s == SortByOf(params)
      o == SortOrderOf(params)
      selected == {r \in table : ListSelects(params, allowed, cur, r)}
  IN \E fetched \in LimitedTo(selected, params.Limit + 1, s, o) :
     \E items \in LimitedTo(fetched, params.Limit, s, o) :
       IF Cardinality(fetched) > params.Limit
         THEN \E last \in items :
                /\ \A r \in items \ {last} : OrderBefore(s, o, r, last)
                /\ Answer(200, items, EncodeCursor(buildCursor(s, o, last)))
         ELSE Answer(200, items, NoCursor)

\* resourcesQuery: an error, a cursor of another sort included, is a 500.
Query ==
  /\ phase = "query"
  /\ LET cur == DecodeCursor(token) IN
       IF validateCursorSort(cur, SortByOf(params), SortOrderOf(params))
         THEN ListResources(cur)
         ELSE Answer(500, {}, NoCursor)
  /\ UNCHANGED <<table, changes, params, token, tokenSort, discovered, allowed,
                 received, steady, faults>>

\* A database error, the 10 s deadline of the database calls, or a page that
\* cannot be serialized.
Fail ==
  /\ phase \in {"discover", "query"}
  /\ faults < MaxFaults
  /\ Answer(500, {}, NoCursor)
  /\ faults' = faults + 1
  /\ UNCHANGED <<table, changes, params, token, tokenSort, discovered, allowed,
                 received, steady>>

-----------------------------------------------------------------------------
(* The client.                                                             *)

\* Variant: the targets of the previous request are kept in the parameters.
Send_KeepsTargets ==
  /\ phase = "client"
  /\ \E l \in Limits : params' = [params EXCEPT !.Limit = l]
  /\ phase' = "discover"
  /\ discovered' = {}
  /\ UNCHANGED <<table, changes, token, tokenSort, allowed, result, received,
                 steady, faults>>

Send ==
  /\ phase = "client"
  /\ \E l \in Limits : params' = [params EXCEPT !.Limit = l]
  /\ phase' = "discover"
  /\ discovered' = {}
  /\ allowed' = {}
  /\ UNCHANGED <<table, changes, token, tokenSort, result, received, steady,
                 faults>>

\* A page arrives.  No cursor means that this was the last one.
Receive ==
  /\ phase = "respond"
  /\ result.status = 200
  /\ received' = received \union IdsOf(result.items)
  /\ token' = result.cursor
  /\ tokenSort' = IF token' = NoCursor THEN NoSort ELSE SortOf(params)
  /\ phase' = IF result.cursor = NoCursor THEN "done" ELSE "client"
  /\ result' = NoAnswer
  /\ UNCHANGED <<table, changes, params, discovered, allowed, steady, faults>>

\* The answer is lost or an error: the client repeats the request.
AskAgain ==
  /\ phase = "respond"
  /\ faults < MaxFaults
  /\ faults' = faults + 1
  /\ phase' = "client"
  /\ result' = NoAnswer
  /\ UNCHANGED <<table, changes, params, token, tokenSort, discovered, allowed,
                 received, steady>>

GiveUp ==
  /\ phase = "respond"
  /\ result.status # 200
  /\ phase' = "stopped"
  /\ UNCHANGED <<table, changes, request, steady, faults>>

\* After an error the client begins a new walk with the same parameters.
Restart ==
  /\ phase = "respond"
  /\ result.status # 200
  /\ faults < MaxFaults
  /\ faults' = faults + 1
  /\ phase' = "client"
  /\ token' = NoCursor
  /\ tokenSort' = NoSort
  /\ result' = NoAnswer
  /\ received' = {}
  /\ steady' = InScope(params, table)
  /\ UNCHANGED <<table, changes, params, discovered, allowed>>

\* The client changes the sort in the middle of a walk but keeps its cursor.
Resort ==
  /\ phase = "client"
  /\ token # NoCursor
  /\ faults < MaxFaults
  /\ faults' = faults + 1
  /\ \E p \in Params :
       /\ params' = [p EXCEPT !.Limit = params.Limit]
       /\ params' = [params EXCEPT !.SortBy = p.SortBy,
                                   !.SortOrder = p.SortOrder]
       /\ SortOf(p) # SortOf(params)
  /\ steady' = {}
  /\ UNCHANGED <<table, changes, token, tokenSort, phase, discovered, allowed,
                 result, received>>

Finished == phase \in {"done", "stopped"} /\ UNCHANGED vars

Next == \/ Ingest
        \/ Discover \/ Authorize \/ Query \/ Fail
        \/ Send \/ Receive \/ AskAgain \/ GiveUp \/ Restart \/ Resort
        \/ Finished

\* Every phase of a request ends, the query by an answer or by its deadline
\* (Query or Fail), and the client goes on; nothing forces the ingester, a
\* mistake or a lost answer to happen.  That Authorize ends is an assumption
\* on the environment: the calls to the API server have no deadline of the
\* handler's own, so the API server answers or fails, or the client goes.
QueryEnds == phase = "query" /\ phase' = "respond"

Progress == Send \/ Discover \/ Authorize \/ Receive \/ GiveUp

Spec == Init /\ [][Next]_vars /\ WF_vars(Progress) /\ WF_phase(QueryEnds)

-----------------------------------------------------------------------------
(* Properties.                                                             *)

\* Every row of a page passes every filter of its request and has a target
\* that RBAC allowed in that same request, although discovery, RBAC and the
\* query see different tables and the query repeats neither the resource
\* nor the namespace filter.
PageInScope ==
  \A r \in result.items : Matches(params, r) /\ TargetOf(r) \in allowed

\* A page holds at most limit rows, and exactly limit rows when it carries a
\* cursor: trimming the extra row of limit+1 leaves no half-full page.
PageSize ==
  /\ result.items # {} => Cardinality(result.items) <= params.Limit
  /\ result.cursor # NoCursor => Cardinality(result.items) = params.Limit

\* A cursor is handed out only if some row lies beyond it, so a client of a
\* quiet database never fetches an empty last page.
CursorHasMore ==
  [][phase = "query" /\ result'.cursor # NoCursor =>
       \E r \in table :
         ListSelects(params, allowed, DecodeCursor(result'.cursor), r)]_vars

\* A page is never selected with the cursor of a page of another sort,
\* column or direction, whatever the cursor itself says: its fields would be
\* unset, or point into another order.
ForeignCursorRefused ==
  result.items # {} /\ token # NoCursor => tokenSort = SortOf(params)

\* docs/SEARCH.md, "Pagination": changing sort_by or sort_order between pages
\* returns 400.  (The code answers 500: the mismatch is found by the query.)
SortChangeIsBadRequest ==
  [][Query /\ ~validateCursorSort(DecodeCursor(token), SortByOf(params),
                                  SortOrderOf(params))
       => result'.status = 400]_vars

\* Sorts under which no write of the ingester moves a row that the cursor has
\* passed to a place after it.
ForwardOnly(p) ==
  \/ SortByOf(p) \in {"created_at", "global_uid"}
  \/ SortByOf(p) = "updated_at" /\ SortOrderOf(p) = "desc"

\* Under such a sort no row at all is delivered twice in a walk, updated or
\* not, even when answers are lost and asked for again.
NoRepeat ==
  [][Receive /\ ForwardOnly(params)
       => IdsOf(result.items) \intersect received = {}]_vars

\* The rows, of all that the ingester may ever write, that a cursor leaves
\* for the next pages under the sort of the request.
Ahead(t) ==
  {r \in Row :
     t # NoCursor =>
       LET condition == cursorCondition(SortByOf(params), SortOrderOf(params),
                                        DecodeCursor(t), r)
       IN \E j \in DOMAIN condition : condition[j]}

\* Pages come in the order of the sort, whatever is written and however
\* often a page is lost and asked for again: each lies after the cursor it
\* was asked with, and its own cursor leaves it behind and nothing else comes
\* back.  So a walk has only so many pages (see WalkEnds).
PagesAdvance ==
  [][Receive =>
       /\ result.items \subseteq Ahead(token)
       /\ token' # NoCursor =>
            /\ result.items # {}
            /\ Ahead(token') \subseteq Ahead(token) \ result.items]_vars

\* The walk is a complete scan: see ScanContract.
Contract == INSTANCE ScanContract WITH over <- (phase = "done")

ImplementsContract == Contract!Spec

\* A walk ends, for the pages strictly advance.
WalkEnds == <>(phase \in {"done", "stopped"})

=============================================================================
