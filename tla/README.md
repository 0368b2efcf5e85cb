# resources-presenter in TLA+

A formal model of `resources-presenter`: the service that answers list, detail
and permission questions about Kubernetes objects which an ingester keeps in
one PostgreSQL table. The modules are translated from the Go source of this
repository; TLC checks them on small instances and TLAPS proves every
invariant that holds there for every value of the constants.

    tlc -config walk_contract.cfg MCListWalk.tla     a run of PROJECT.json
    tlapm ListWalkProofs.tla                         the proofs of a module

## The system

| Part | Code | State | Operations |
|---|---|---|---|
| Query builder, sort orders | `internal/sql/builder.go`, `sort_by.go`, `resources.go` | none (pure) | `DiscoverTargets`, `buildListQuery`, `Render`, `sortOrderSQL` |
| Pagination cursors | `internal/sql/cursor.go` | none; the token is held by the client | `buildCursor`, `EncodeCursor`, `DecodeCursor`, `validateCursorSort`, `cursorCondition` |
| List handler | `internal/handlers/resources.go` | per request: targets, page | parse, discover, RBAC, query, serialize |
| Detail handler | the same | per request | parse, query, RBAC, serialize |
| Authorizer, `/can-i` | `internal/rbac/rbac.go`, `internal/handlers/can_i.go` | decision cache (in the plumbing library), per request: answers | `FilterAllowed`, `CanI` |
| Request parsing | `internal/handlers/request_helpers.go`, `helpers.go` | none | `parseListParams`, `parseListParamsJSON`, validation |
| Gzip middleware | `internal/handlers/gzip.go` | pool of writers | get, reset, close, put |
| Process | `main.go` | stage of `main`, listener, pool, signal | start, serve, drain, close, flush |
| Telemetry | `internal/telemetry/metrics.go` | counters in memory, what was exported | record, periodic export, flush |
| Configuration, logging | `internal/config`, `internal/util/log` | none after the start | - |
| Outside | PostgreSQL and the ingester, the Kubernetes API server, the client, the kubelet | the table, the grants of a user, the cursor | - |

How they interact: the client calls the handlers and hands back a cursor; the
handlers call PostgreSQL through one pool of connections and the API server
through the authorizer; the ingester writes the table at any time; `main`
starts and stops everything. Requests share no variable of the program but the
pool of connections, the decision cache and the metrics.

What is hard about it: one list request reads the table twice with an RBAC
decision in between, and a walk over many pages reads it dozens of times while
it changes; the detail handler reads first and authorizes afterwards; cursors
have to agree with `ORDER BY` for ten sorts, one of them on a nullable column;
`CanI` composes two decisions of which either may be cached; the rules of a list
request are written down twice, for GET and for POST; gzip writers go from one
response to the next with their state; the order of the deferred calls in
`main` decides what a shutdown loses. Correctness, per part:

- builder and cursors: a cursor selects exactly the rows that come after its
  row; conditions are a conjunction;
- list handler: pages stay within the filters and the allowed targets; a walk
  misses and repeats no row that stays in place; it ends;
- list and detail handler: what is sent was there and permitted lately, and
  what was there all along and not refused lately is sent;
- authorizer: no answer is staler than the cache's TTL, and answers belong to
  their checks;
- parsing: what is accepted is what the queries assume, GET and POST mean the
  same, and the rows selected are the rows asked for;
- gzip: every response is one whole stream of what its own handler wrote;
- process: a graceful shutdown cuts off nothing, the pool outlives the
  handlers, and the process ends.

`PROJECT.json` lists the hazards at their lines with the properties that would
catch each one.

## The modules

Names are those of the code where there is one. `X_Something` next to a
definition `X` is a faulty variant of it (its comment says "Variant"): no
specification uses it. The variants are there to see that the properties fail
when the code is wrong in that way.

    KeysetOrder    ListWalk --> ScanContract     GzipPool --> ResponseStreams
         |          |
         |        Store ------ Access            Server
         |          |            |
         +------- Keyset ---+  Authorizer
                            |
                          Parsing

A line is EXTENDS, an arrow "implements".

**Keyset** - the SQL of the list endpoint as pure operators. A row maps columns
to ranks in the collation of the column, so texts, timestamps and UUIDs are
numbers; `NULL` is a value of its own; rank 0 of a text is the empty text,
which is also "no filter" and what `omitempty` leaves out of a token. A WHERE
condition is the sequence of the operands that its OR leaves outside
parentheses. `Render` gives the text that `Builder.Render` joins with AND its
SQL meaning, in which AND binds tighter than OR: no parentheses are added that
the code does not write. `LimitedTo` is `ORDER BY ... LIMIT n`.

**KeysetOrder** - two rows and a sort, to ask whether `ORDER BY` and the cursor
conditions agree; the cursor goes through its token and back.

**Store** - `krateo_resources`: its keys, what the ingester may insert and
upsert, and which rows match the filters. Shared by ListWalk and Access.

**ListWalk** - one client walks through the pages of a list.
`Discover`, `Authorize` and `Query` are `resourcesDiscover`, `resourcesRBAC` and
`resourcesQuery`; between any two of them the ingester may `Insert` or `Upsert`
(which also soft-deletes). `Authorize` picks any subset of the discovered
targets, since RBAC may decide differently on every request. `Fail` is a
database error, the deadline of the database calls or a page that cannot be
serialized; `AskAgain` repeats a request whose answer was lost, `Restart` begins
a new walk after an error, `Resort` keeps the cursor and changes the sort. The
client sends only tokens that it was given; which others the parsers let through
is Parsing's subject. One walk is enough because requests of the list endpoint
share no state in the server. Two variables are history, read by properties
alone: `steady`, the rows that were in scope when the walk began, have stayed in
scope and in place, and have not been denied since; and `tokenSort`, the sort of
the request whose answer carried the token. `ForeignCursorRefused` compares
`tokenSort` with the request and not what the token says of itself, so that it
depends on both `buildCursor` and `validateCursorSort` being right.

**ScanContract** - what paging promises, in three actions, with no table, sort,
cursor or phase in it. `ListWalk` implements it with `steady`, `received` and
`over <- (phase = "done")`.

**Authorizer** - `CanI` and `FilterAllowed`. The plumbing library's batch
`UserCan`, the cache and the cluster are external and modelled from how the
code uses them: the targets of a batch are decided one after another, each from
a cached decision younger than the TTL (`FromCache`) or by a review (`Review`),
which may fail and then decides no (`ReviewFails`). Grants change at any moment
(`Regrant`), the clock runs (`Tick`), other requests of the user fill the cache
(`OtherRequest`) and entries are evicted (`Evict`). `lastPermitted` and
`lastRefused` are history: when the cluster last said yes or no to each target.
A failed review counts as a refusal.

**Access** - one list or detail request together with the authorizer and the
table it asks about. Its steps of RBAC are actions of `Authorizer`, on the
targets of the rows that were read; `Ingest` may come between any two steps.
The list handler reads the table again after the authorization; the detail
handler sends the row it read before. `seen` and `steady` are history: the rows
asked for that were in the table at some moment of the request, and the objects
that were there throughout. `Refuse` stands for all answers given before any
query (400, 405); which requests get one is Parsing's subject. An answer that
is to carry rows is a 500 when it cannot be marshalled (`serializeResponse`).

**Parsing** - `parseListParams` (query string), `parseListParamsJSON` (body) and
`parseCanIJSON` as pure operators. A request says what is in each field, and
stands for a GET and for a POST: nothing, the word null, a value without the
field's format or JSON type, a text over its limit, or a proper value. Texts are
ranks and patterns the sets of ranks they accept, so that a format or a length
is a property of a value. Labels have two lengths: as sent, which GET measures
(`LongFilter`), and as marshalled again, which POST does (`LongLabels`). A token
is the record of the fields that its JSON object has: any of `Token` decodes,
those of `ServerToken` were made by `buildCursor` from some row and sort.
`QueryPanics` asks what the query makes of a token that was accepted: whether it
passes `validateCursorSort` and then `cursorCondition` follows a pointer that is
nil. The only actions are those of a client that edits its request.

**GzipPool** - the middleware: `EnterGzip` is Get and Reset, `HandlerEnds` the
return or the panic of the handler, then the deferred `Close` and `Put`.
`EnterPlain` is a client that accepts no gzip. A writer keeps a destination,
data not yet flushed, whether it wrote its header, is closed, or has failed.
`Break` is a client that goes away, `Drop` the garbage collector on the pool.

**ResponseStreams** - what GzipPool implements: responses as independent
streams, with no writer and no pool.

**Server** - `main.go`. The stage of `main` is its program counter; `End` cuts
off whatever still runs. A handler is the sequence of its steps (`db` or
`rbac`), of which `db` needs one of `MaxConns` connections. `Kill` is the
kubelet: the chart sets no grace period, so its default of 30 seconds runs from
SIGTERM, no longer than the timeout of `Shutdown` that starts later. SIGKILL may
therefore come at any point after the signal, before Shutdown times out or
during the flush; `main = "killed"` says that it did. The goroutine of
`ListenAndServe` may get to `Listen` only after `main` has called `Shutdown`; it
is net/http that lets a server which is shut down accept nothing, and
`Listen_Late` is the variant without that check. With telemetry switched off
there is nothing to record and nothing to lose; the model is of the service with
telemetry.

`MCKeyset`, `MCListWalk`, `MCAuthorizer`, `MCAccess`, `MCParsing`, `MCGzipPool`
and `MCServer` are the small instances. `KeysetProofs`, `KeysetOrderProofs`,
`ListWalkProofs`, `AuthorizerProofs`, `AccessProofs`, `ParsingProofs`,
`GzipPoolProofs` and `ServerProofs` hold the theorems.

## What the runs check

| Run | Module | Properties | What it shows |
|---|---|---|---|
| keyset | MCKeyset | OrderIsTotal, CursorSelectsAfter | all pairs of 72 rows under all sorts, defaults included; the cursor goes through its token and back |
| walk_scope | MCListWalk | PageInScope, PageSize, CursorHasMore, WalkEnds | every filter of the endpoint, limits 1 and 2, one write, two faults; a client that goes on reaches the end |
| walk_contract | MCListWalk | TypeOK, ForeignCursorRefused, NoRepeat, PagesAdvance, ImplementsContract | all ten sorts, limit 2, two writes, two faults |
| composition_desc | MCListWalk | PageInScope (violated) | see Findings |
| sort_change | MCListWalk | SortChangeIsBadRequest (violated) | see Findings |
| authorizer | MCAuthorizer | TypeOK, AllowedWasPermitted, DeniedWasRefused, ClusterWideCoversNamespaces | can-i with namespaced, cluster-wide and repeated checks, and FilterAllowed, on one cache |
| access | MCAccess | AccessTypeOK, DeliveredWasPermitted, DeliveredWasThere, ServedIfPermitted, ForbiddenWasRefused | a list or a detail request while rows, grants and the cache change |
| parsing | MCParsing | AcceptedIsListable, GetAndPostAgree, SelectedIfAsked, BatchIsItsChecks | every request with up to three fields set, every batch of up to four checks |
| gzip | MCGzipPool | TypeOK, WriterIsExclusive, StreamIsWhole, ImplementsStreams | three requests that share writers |
| server | MCServer | TypeOK, NoRequestIsCut, PoolOutlivesHandlers, HoldersQuery, NothingIsLost, SignalEndsProcess, ListenErrorEndsProcess | three requests, two connections, a signal or a listener error at any moment |
| startup_success | MCServer | SuccessMeansListening (violated) | see Findings |
| startup_failure | MCServer | FailureIsExported (violated) | see Findings |

**Bounds.** *keyset*: three ids, two values (or NULL and two) in each column a
sort uses: conditions compare two rows, and two rows cannot tell more values
apart. *Walks*: five objects, eleven versions of their rows, tables of four and
five rows; limits of 1 and 2 give walks of up to five pages, and two writes and
two faults put a change before, within and after any request, and let a failure
meet a retry that fails again, or a lost answer, or another sort. Rows tie in
every sort column but the id, and both ends of the NULL region fall on a page
border. *authorizer*: one verb, since checks of two verbs differ like those of
two namespaces; two namespaces and the cluster-wide check; a TTL of two ticks,
so that an entry can be fresh, about to expire or gone within one request; two
changes grant and revoke again. *access*: the same TTL, one change of grants,
two writes; two objects in one namespace and a cluster-scoped one, so that
targets are shared and not; lists with and without a filter, and a limit of 1 to
fill a page. *parsing*: every field takes each kind of value, the limit also
those at its borders; the rules relate at most two fields, and three may be set.
The cursors are two that the server makes, one of a row without composition, and
two without the field of their sort. Batches hold at most three checks here
(5000 in the code), so four are one too many. *gzip*: with three writers and
three requests a writer is used again while others are in use; `MaxChunks` 2
lets data be flushed early or not. A writer that is dropped frees its name, so
three names are enough. *server*: with two connections the third request waits.
It has no symmetry because two of its properties are liveness.

**Fairness.** *ListWalk*: `WF(Progress)`, the steps that end by themselves or
that a client takes which goes on, and weak fairness on the end of a query, by
an answer or by its deadline. Writes, faults and mistakes are never forced. That
`Authorize` ends is an assumption on the environment and not a consequence of
the code, which gives RBAC no deadline (`resources.go:132`): the API server
answers or fails, or the client goes away. `WalkEnds` is a statement about such
environments.
*Server*: `WF(Main)`, for every wait of `main` has a deadline
(`DB_READY_TIMEOUT`, 30 s, 5 s) except `pool.Close`; that one relies on
`WF(QueryEnds)`, since every query runs under `queryTimeout`. `Kill` is never
forced, so the process ends without its help. Nothing is assumed
about handlers waiting for the API server: `handleResources` gives RBAC no
deadline. `SignalEndsProcess` holds nevertheless. The other specifications have
no fairness and only safety properties. Only states in which the process has
ended, or the walk, the request or all responses are over, have no other
successor than themselves (`Stopped`, `Finished`); deadlock is checked in every
run.

**Reading the properties of a request.** "Lately" means since one TTL before the
authorization began. It is the exact price of the cache: what was cached just
under a TTL before is used. A list request can deliver a row that was not there
when its targets were authorized; the theorem says that its target was.

## Findings

1. `sort_by=composition_id&sort_order=desc`: after a page whose last row has no
   composition, the condition `(... AND id < ?) OR composition_id IS NOT NULL`
   (`internal/sql/cursor.go:206`) is joined to the others without parentheses,
   and the next page may hold deleted rows, rows of other groups and rows RBAC
   denied. `internal/sql/builder.go:14` and `resources.go:46` say otherwise. All
   the other conditions are safe: that is `PagesAreInScope`.
2. A cursor used with another sort is answered 500, not 400
   (`docs/SEARCH.md:299`).
3. `startup.success` is counted before the port is open
   (`telemetry/metrics-reference.md:14`).
4. `startup.failure` is counted and then lost by `os.Exit`
   (`telemetry/metrics-reference.md:15`).

Divergences met while modelling that no run shows, as they are about single
inputs:

- `docs/SEARCH.md:114` says that `limit` defaults to 100 when omitted or `<= 0`;
  a limit below 1 is answered 400 (`validateLimit`).
- `resources.go:59` promises POST "the same fields". The word null is a text for
  GET and no value for POST; a raw flag that is not a boolean is false for GET
  and a 400 for POST; an empty `since` is no value for GET and a 400 for POST;
  unknown and repeated fields are ignored by GET and refused by POST; the
  length of `labels` is measured as sent by GET, as marshalled again by POST.
  `GetAndPostAgree` names the exceptions that its model of a request can tell
  apart.
- `internal/sql/cursor.go:101` recommends `ValidateCursor` "to return 400 for bad
  cursors instead of 500"; it accepts every token that decodes. One of another
  maker that names the sort of the request and lacks the pointer field of that
  sort passes `validateCursorSort` too, and `cursorCondition` dereferences nil
  (`cursor.go:175`, `177`, `210`, `220`): the request ends in a panic of its
  handler. `AcceptedIsListable` is about the tokens that the server makes, none
  of which is of that kind.
- `resources.go:57` says of `since` "created after"; the query compares
  `updated_at`.

## What is proved

Everything below holds for every value of the constants that satisfies the
named assumptions of the modules: any finite set of rows with non-NULL keys, any
parameters and limits, any number of writes, faults, grants, requests, writers
and connections. Every invariant and every action property of the passing runs
is a theorem, and both refinements are.

*KeysetProofs.* `ORDER BY` is a strict order; tokens round-trip; every
`cursorCondition` is `OrderBefore` (`SomeOperand`); and `NextPageSelection` says
what the rendered clause of a page selects: the rows that pass the filters and
lie beyond the cursor, and exactly those unless the condition splits the clause.
That one exception is finding 1, stated in the theorem instead of assumed away.
*KeysetOrderProofs* adds that the order is total and that a cursor selects what
comes after its row.

*ListWalkProofs.* `ScanInv` is inductive. Its heart is `TokenSplits`: the row
that the token was built from splits the steady rows, those received are not
after it and the others are. It needs `SteadyInScope` and `TargetsCovered` (the
target of a steady row is among the discovered and the allowed ones), or the
query could drop a row that discovery did not see. `AnswerSplits` says the same
of a page that is on its way, which is what makes a lost answer harmless. From
`ScanInv`, step by step: `WalkIsCompleteScan`, the refinement of `ScanContract`.
`PageShape` says what a query answers, from which `SizeInv` and `PagesAreFull`
follow (with the cardinality of the cut) and `CursorsPointAhead`.
`NothingComesTwice` is about the sorts under which an upsert moves no row from
before the cursor to after it (`UpsertMovesAhead`): `RepeatInv` says that under
them no row that was received lies after the row of the cursor. `TokenSplits`
also says that the token was built under `tokenSort`, and `SortOfToken` that its
fields tell this sort; with what `validateCursorSort` compares that makes
`ForeignCursorIsRefused`. `FinishedWalksAreComplete` draws from the refinement
what the contract is for. `PagesComeInOrder` is about the rows that a cursor
leaves (`Ahead`): a page is taken from those that its token leaves, and its own
cursor leaves only later ones (`QueryAdvances`), a statement about all versions
of rows and therefore untouched by writes. `PagesUseUpRows` counts them: every
page with a cursor uses up as many as its limit. That is the variant for which
`WalkEnds` holds; only the fairness is left to TLC. Both hold under every sort,
the one of finding 1 included: its cursor lets rows of other lists in, but none
from before it. `PagesAreInScope` and `CursorsPointAhead` assume
`AvoidsDescendingComposition`, for they are false without it.

*AuthorizerProofs.* `AuthInv`: every cached decision was right when it was made
(`CacheInv`), every target of the running batch is still undecided, allowed on
grounds younger than a TTL, or refused on such grounds (`DecisionsInv`), and
the answers given so far inherit that (`AnswersInv`). `CoverInv` carries the
cluster-wide yes over the second call.

*AccessProofs.* `RequestsUseTheAuthorizer`: a behaviour of the composition is
one of `Authorizer`, so its invariants hold here too and are not proved again.
What is added follows a request through its steps: what it asks for
(`AskTypes`), that a steady object has a row in the table, and that row was seen
(`StoreInv`), that the rows read were seen and cover the steady ones
(`DiscoveredInv`), that the targets kept were permitted and the others refused
lately (`TargetsInv`), and what that makes of the answer (`AnswerInv`).

*ParsingProofs.* The parsers are pure, so the only invariant is the type of a
request. The rest are lemmas about them: the two methods read the same
parameters and refuse the same requests; what is validated is listable; no
token built by `buildCursor`, after its round trip, lacks a field that
`cursorCondition` dereferences (`ServerTokensAreComplete`); each condition of
the queries says of a row what its field asks. That accepted cursors in general
have those fields is false (see Findings), so `AcceptedAreListable` says it of the
server's own.

*GzipPoolProofs.* `PoolInv` says of each request, by phase, what its writer
still owes to its response (`Serves`, `RequestInv`), and that writers are
exclusive, which is why a step of one request leaves that of the others alone.

*ServerProofs.* `ServerInv`: the stage of `main` determines what may be open or
in flight (`Stages`). Unless Shutdown timed out or SIGKILL came nothing is in
flight after the drain, from which `AcceptedRequestsAreAnswered`,
`PoolIsOpenForHandlers` and `LastExportIsComplete` follow. `HoldersQuery` is a
conjunct of it and a theorem (`ConnectionsAreInQueries`): whoever holds a
connection is in a query, which has a deadline, and that is why `pool.Close`,
which has none, returns.

Only model-checked: liveness (`WalkEnds`, `SignalEndsProcess`,
`ListenErrorEndsProcess`), as TLAPS has no rules for fairness and ENABLED.

## Not modelled

- Base64 and JSON syntax: a token that does not decode is refused, of one that
  decodes the fields count. A decodable token of another maker is modelled up to
  the question whether the query can go on from it (Parsing); pages that such
  tokens select are not, nor are columns that only travel to the response.
- The hard-delete job of the schema: it removes rows that are already
  soft-deleted, which no query selects.
- More than one replica: replicas share only the table. A cache per replica
  widens nothing that `Authorizer` promises of one request.
- The instruments and labels of the telemetry: they change no behaviour. Which
  observations are recorded and exported is in Server.
- Configuration and logging: no state after the start. The two values forced on
  the RBAC cache are the TTL and the eviction of Authorizer.
- Charts, dashboards and scripts.

## Plan

Done, in this order: Keyset, ListWalk over it, ScanContract above it,
Authorizer, Server; then Store and Access (the composition of both handlers
with the authorizer), Parsing, GzipPool with ResponseStreams, KeysetOrder; and
the proofs of each.

What could follow: a walk of many pages whose every request is one of Access, so
that `steady` loses a row only when a grant is gone and not by the free choice
of ListWalk's `Authorize` (which covers it); and the start of the process from
its configuration.
