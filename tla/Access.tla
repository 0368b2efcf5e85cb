------------------------------- MODULE Access -------------------------------
(***************************************************************************)
(* One request for resources, through the list handler (its first page) or *)
(* the detail handler, composed with the authorizer that both ask and with *)
(* the table that both read.  While the request runs the ingester writes,  *)
(* the grants of the user change and the decision cache ages: the list     *)
(* handler reads the table before and after it authorizes, the detail      *)
(* handler only before.                                                    *)
(*                                                                         *)
(* The module extends Authorizer, whose variables and actions are those of *)
(* the user's permission checks; its Init, Next and Spec are one side of   *)
(* the composition, and AccessInit, AccessNext and AccessSpec the whole.   *)
(***************************************************************************)
EXTENDS Authorizer, Store

CONSTANTS
  Tables,     \* the tables a request may start with
  Lists,      \* the parameters a list request may have, its limit included
  Uids,       \* the global_uids a detail request may name
  MaxWrites   \* bound on the writes of the ingester

\* The target and the namespaces of Authorizer, for a row.
GroupResourceOf(r) == <<r["resource_group"], r["resource_plural"]>>

Target(r) ==
  [GroupResource |-> GroupResourceOf(r), Namespace |-> r["namespace"]]

\* What UserCan is asked about a target.
GetOf(t) ==
  [Verb |-> "get", GroupResource |-> t.GroupResource,
   Namespace |-> t.Namespace]

ASSUME TablesAssumption == \A t \in Tables : IsTable(t)
ASSUME ListsAssumption ==
  \A p \in Lists : p \in ListParams /\ p.Limit \in Nat \ {0}
ASSUME WritesAssumption == MaxWrites \in Nat
ASSUME TargetsAssumption == \A r \in Row : Target(r) \in ResourceTarget

VARIABLES
  table,       \* krateo_resources
  writes,      \* writes of the ingester so far
  stage,       \* where the handler is
  asks,        \* what the request asks for
  discovered,  \* the rows that the targets to authorize come from
  targets,     \* AllowedTargets
  answer,      \* the HTTP answer: status and items
  seen,        \* history: rows asked for, at any moment since the request came
  steady       \* history: ids of rows asked for at every such moment

handler == <<stage, asks, discovered, targets, answer>>
store == <<table, writes, seen, steady>>
accessVars == <<vars, handler, store>>

NoRequest == [kind |-> "none"]
ListOf(p) == [kind |-> "list", params |-> p]
DetailOf(uid) == [kind |-> "detail", uid |-> uid]

NoAnswer == [status |-> 0, items |-> {}]

\* Row r is what the request asks for.
Asked(a, r) ==
  CASE a.kind = "list" -> Matches(a.params, r)
    [] a.kind = "detail" -> r["deleted_at"] = NULL /\ r["global_uid"] = a.uid
    [] OTHER -> FALSE

AskedIn(a, t) == {r \in t : Asked(a, r)}

AccessTypeOK ==
  /\ TypeOK
  /\ IsTable(table)
  /\ writes \in 0..MaxWrites
  /\ stage \in {"idle", "discover", "fetch", "rbac", "query", "done"}
  /\ \/ asks = NoRequest
     \/ \E p \in Lists : asks = ListOf(p)
     \/ \E u \in Uids : asks = DetailOf(u)
  /\ discovered \subseteq Row
  /\ targets \subseteq ResourceTarget
  /\ answer.status \in {0, 200, 400, 403, 404, 405, 500}
  /\ answer.items \subseteq Row
  /\ seen \subseteq Row
  /\ steady \subseteq Id

AccessInit ==
  /\ Init
  /\ table \in Tables
  /\ writes = 0
  /\ stage = "idle"
  /\ asks = NoRequest
  /\ discovered = {}
  /\ targets = {}
  /\ answer = NoAnswer
  /\ seen = {}
  /\ steady = {}

-----------------------------------------------------------------------------
(* The ingester.                                                           *)

Write(t) ==
  /\ writes < MaxWrites
  /\ stage \notin {"idle", "done"}
  /\ table' = t
  /\ writes' = writes + 1
  /\ seen' = seen \union AskedIn(asks, t)
  /\ steady' = steady \intersect IdsOf(AskedIn(asks, t))
  /\ UNCHANGED <<vars, handler>>

Insert(r) == IsNew(r, table) /\ Write(table \union {r})

\* Variant: an upsert that inserts.
Upsert_KeepsOld(q, r) == Replaces(r, q) /\ Write(table \union {r})

Upsert(q, r) == Replaces(r, q) /\ Write((table \ {q}) \union {r})

Ingest == \E r \in Row : Insert(r) \/ \E q \in table : Upsert(q, r)

-----------------------------------------------------------------------------
(* The handlers.                                                           *)

Send(status, items) ==
  /\ stage' = "done"
  /\ answer' = [status |-> status, items |-> items]

\* A result is marshalled before anything is written; that may fail.
serializeResponse(items) == Send(200, items) \/ Send(500, {})

\* A method that is not allowed, or a request that does not parse.
Refuse(status) ==
  /\ stage = "idle"
  /\ Send(status, {})
  /\ UNCHANGED <<vars, asks, discovered, targets, store>>

Begin(a, first) ==
  /\ stage = "idle"
  /\ asks' = a
  /\ stage' = first
  /\ seen' = AskedIn(a, table)
  /\ steady' = IdsOf(AskedIn(a, table))
  /\ UNCHANGED <<vars, table, writes, discovered, targets, answer>>

resourcesParse(p) == Begin(ListOf(p), "discover")

detailParse(uid) == Begin(DetailOf(uid), "fetch")

\* DiscoverTargets, kept as the rows it takes the targets from.
resourcesDiscover ==
  /\ stage = "discover"
  /\ discovered' = {r \in table : DiscoverWhere(asks.params, r)}
  /\ IF discovered' = {}
       THEN Send(200, {})
       ELSE stage' = "rbac" /\ answer' = answer
  /\ UNCHANGED <<vars, asks, targets, store>>

\* Variant: a deleted row is fetched too.
GetByGlobalUID_Deleted(uid) == {r \in table : r["global_uid"] = uid}

GetByGlobalUID(uid) ==
  {r \in table : r["global_uid"] = uid /\ r["deleted_at"] = NULL}

detailQuery ==
  /\ stage = "fetch"
  /\ discovered' = GetByGlobalUID(asks.uid)
  /\ CASE Cardinality(discovered') = 0 -> Send(404, {})
       [] Cardinality(discovered') = 1 -> stage' = "rbac" /\ answer' = answer
       [] OTHER -> Send(500, {})
  /\ UNCHANGED <<vars, asks, targets, store>>

\* Variant: the namespace of the target is left out.
Authorize_NoNamespace ==
  /\ stage = "rbac"
  /\ \E t \in ListRequests :
       /\ {t[i] : i \in DOMAIN t} =
            {[Target(r) EXCEPT !.Namespace = AllNamespaces] : r \in discovered}
       /\ FilterAllowed(t)
  /\ UNCHANGED <<handler, store>>

\* FilterAllowed is called; the authorizer decides the batch.
Authorize ==
  /\ stage = "rbac"
  /\ \E t \in ListRequests :
       /\ {t[i] : i \in DOMAIN t} = {Target(r) : r \in discovered}
       /\ FilterAllowed(t)
  /\ UNCHANGED <<handler, store>>

\* The targets that filterByDecisions keeps.
Kept ==
  {[GroupResource |-> asked[i].GroupResource,
    Namespace |-> asked[i].Namespace] :
     i \in {j \in DOMAIN asked : allowed'[j]}}

\* Variant: with no target left the list handler goes on to the query.
resourcesRBAC_GoesOn ==
  /\ stage = "rbac" /\ asks.kind = "list"
  /\ filterByDecisions
  /\ targets' = Kept
  /\ stage' = "query" /\ answer' = answer
  /\ UNCHANGED <<asks, discovered, store>>

resourcesRBAC ==
  /\ stage = "rbac" /\ asks.kind = "list"
  /\ filterByDecisions
  /\ targets' = Kept
  /\ IF targets' = {}
       THEN Send(403, {})
       ELSE stage' = "query" /\ answer' = answer
  /\ UNCHANGED <<asks, discovered, store>>

\* The row that is sent is the one read before the authorization.
detailRBAC ==
  /\ stage = "rbac" /\ asks.kind = "detail"
  /\ filterByDecisions
  /\ targets' = Kept
  /\ IF targets' = {} THEN Send(403, {}) ELSE serializeResponse(discovered)
  /\ UNCHANGED <<asks, discovered, store>>

\* ListResources, with no cursor.
resourcesQuery ==
  /\ stage = "query"
  /\ LET p == asks.params
         triples == {<<t.GroupResource[1], t.GroupResource[2], t.Namespace>> :
                       t \in targets}
         selected == {r \in table : ListSelects(p, triples, NoCursor, r)}
     IN \E items \in LimitedTo(selected, p.Limit, SortByOf(p),
                               SortOrderOf(p)) :
          serializeResponse(items)
  /\ UNCHANGED <<vars, asks, discovered, targets, store>>

\* A database error, or the deadline of the database calls.
Fail ==
  /\ stage \in {"discover", "fetch", "query"}
  /\ Send(500, {})
  /\ UNCHANGED <<vars, asks, discovered, targets, store>>

\* The clock, the grants, UserCan and the other requests of the user.
AuthorizerSteps ==
  /\ stage # "done"
  /\ Cluster \/ UserCan \/ OthersOfUser
  /\ UNCHANGED <<handler, store>>

Finished == stage = "done" /\ UNCHANGED accessVars

AccessNext ==
  \/ Ingest
  \/ AuthorizerSteps
  \/ \E p \in Lists : resourcesParse(p)
  \/ \E u \in Uids : detailParse(u)
  \/ \E status \in {400, 405} : Refuse(status)
  \/ resourcesDiscover \/ detailQuery
  \/ Authorize \/ resourcesRBAC \/ detailRBAC
  \/ resourcesQuery \/ Fail
  \/ Finished

AccessSpec == AccessInit /\ [][AccessNext]_accessVars

-----------------------------------------------------------------------------
(* Properties.                                                             *)

DeniedLately(r) == lastRefused[GetOf(Target(r))] > began - TTL

\* Every row that is sent has a target that the cluster permitted the user
\* to get at some moment since one TTL before the authorization began: also
\* when the last target is denied, when the list handler reads the table
\* again after the authorization, and when the grants change meanwhile.
DeliveredWasPermitted ==
  \A r \in answer.items : lastPermitted[GetOf(Target(r))] > began - TTL

\* Every row that is sent was in the table, undeleted and as asked for, at
\* some moment of the request: the detail handler may send a row that has
\* been deleted or updated since, but never one that was gone before.
DeliveredWasThere == answer.items \subseteq seen

PageIsFull ==
  asks.kind = "list" /\ Cardinality(answer.items) = asks.params.Limit

\* A row that was there and asked for throughout the request, and whose
\* target was not refused within it or a TTL before, is sent by either
\* handler, unless the page is full or the database fails: no interleaving
\* of writes, grants and cached decisions turns it into a 403, a 404 or an
\* incomplete page.  (began is the beginning of the request's authorization.)
ServedIfPermitted ==
  (stage = "done" /\ answer.status # 500) =>
    \A i \in steady :
      \/ i \in IdsOf(answer.items)
      \/ PageIsFull
      \/ \E r \in seen : r["id"] = i /\ DeniedLately(r)

\* A 403 means that some row was there to be read and that its target was
\* refused, or could not be reviewed, that lately.
ForbiddenWasRefused ==
  answer.status = 403 =>
    \E r \in seen \union discovered : DeniedLately(r)

=============================================================================
