------------------------------- MODULE Server -------------------------------
(***************************************************************************)
(* The life of the process (main.go): it waits for PostgreSQL, starts the  *)
(* listener in a goroutine, serves until a signal or a listener error, and *)
(* then drains the handlers, closes the pool and flushes the metrics in    *)
(* the order of its deferred calls.  The handlers run concurrently: each   *)
(* is a list of steps, of which the database steps need a connection.      *)
(***************************************************************************)
EXTENDS Integers, Sequences, FiniteSets

CONSTANTS
  Request,    \* the requests clients send during the life of the process
  MaxConns    \* connections of the pool

ASSUME RequestAssumption == IsFiniteSet(Request)
ASSUME ConnsAssumption == MaxConns \in Nat \ {0}

\* What each handler does after authentication, in order: discovery, RBAC
\* and the query of a list, the row and then RBAC of a detail, RBAC alone.
handleResources == <<"db", "rbac", "db">>
handleResourceDetail == <<"db", "rbac">>
handleCanI == <<"rbac">>

Work == {handleResources, handleResourceDetail, handleCanI}

\* The metrics followed here: one observation per request, and the counters
\* of the startup.
Startup == {"startup.success", "startup.failure"}

ASSUME ObservationAssumption == Request \intersect Startup = {}

VARIABLES
  main,       \* where main() is
  signalled,  \* SIGTERM or an interrupt has arrived
  listener,   \* the goroutine of ListenAndServe
  opened,     \* history: the listener has been open
  pool,       \* the pgx pool
  request,    \* where each request is
  todo,       \* steps its handler still has to do
  holding,    \* requests that hold a connection of the pool
  timedOut,   \* history: Shutdown gave up waiting
  denied,     \* history: requests that met a closed pool
  recorded,   \* observations in memory
  exported,   \* observations sent by the exporter
  flushed     \* history: the last export succeeded

process == <<main, signalled, listener, opened, pool, timedOut>>
handlers == <<request, todo, holding, denied>>
metrics == <<recorded, exported, flushed>>
vars == <<process, handlers, metrics>>

InFlight == {r \in Request : request[r] \in {"auth", "running"}}

\* The process has come to its end, or to that of its grace period.
Ended == main \in {"exited", "killed"}

TypeOK ==
  /\ main \in {"setup", "connecting", "announcing", "serving", "draining",
               "closing", "flushing", "returning", "failing", "exited",
               "killed"}
  /\ signalled \in BOOLEAN
  /\ listener \in {"none", "starting", "open", "failed", "closed"}
  /\ opened \in BOOLEAN
  /\ pool \in {"none", "open", "closing", "closed"}
  /\ request \in [Request -> {"none", "auth", "running", "returned", "cut"}]
  /\ todo \in [Request -> Seq({"db", "rbac"})]
  /\ holding \subseteq InFlight
  /\ Cardinality(holding) <= MaxConns
  /\ timedOut \in BOOLEAN
  /\ denied \subseteq Request
  /\ recorded \subseteq Request \union Startup
  /\ exported \subseteq recorded
  /\ flushed \in BOOLEAN

Init ==
  /\ main = "setup"
  /\ signalled = FALSE
  /\ listener = "none"
  /\ opened = FALSE
  /\ pool = "none"
  /\ request = [r \in Request |-> "none"]
  /\ todo = [r \in Request |-> << >>]
  /\ holding = {}
  /\ timedOut = FALSE
  /\ denied = {}
  /\ recorded = {}
  /\ exported = {}
  /\ flushed = FALSE

-----------------------------------------------------------------------------
(* The start of main().                                                    *)

\* main returns or calls os.Exit, or SIGKILL comes: what still runs is cut
\* off.
End(how) ==
  /\ main' = how
  /\ listener' = IF listener = "failed" THEN "failed" ELSE "closed"
  /\ request' = [r \in Request |->
                   IF r \in InFlight THEN "cut" ELSE request[r]]
  /\ holding' = {}
  /\ UNCHANGED <<signalled, opened, pool, timedOut, todo, denied, metrics>>

\* telemetry.Setup fails, and the process exits, or succeeds.
SetupFails == main = "setup" /\ End("exited")

Setup ==
  /\ main = "setup"
  /\ main' = "connecting"
  /\ UNCHANGED <<signalled, listener, opened, pool, timedOut, handlers,
                 metrics>>

\* WaitForPostgres returns a pool, and the listener goroutine is started.
Connect ==
  /\ main = "connecting"
  /\ main' = "announcing"
  /\ pool' = "open"
  /\ listener' = "starting"
  /\ UNCHANGED <<signalled, opened, timedOut, handlers, metrics>>

\* It gives up: DB_READY_TIMEOUT has passed, or a signal has arrived.
ConnectFails ==
  /\ main = "connecting"
  /\ main' = "failing"
  /\ recorded' = recorded \union {"startup.failure"}
  /\ UNCHANGED <<signalled, listener, opened, pool, timedOut, handlers,
                 exported, flushed>>

\* os.Exit(1) runs none of the deferred calls.
ExitFailure == main = "failing" /\ End("exited")

Announce ==
  /\ main = "announcing"
  /\ main' = "serving"
  /\ recorded' = recorded \union {"startup.success"}
  /\ UNCHANGED <<signalled, listener, opened, pool, timedOut, handlers,
                 exported, flushed>>

-----------------------------------------------------------------------------
(* The shutdown.                                                           *)

Signal ==
  /\ ~signalled
  /\ ~Ended
  /\ signalled' = TRUE
  /\ UNCHANGED <<main, listener, opened, pool, timedOut, handlers, metrics>>

\* Variants: Close instead of Shutdown, the pool closed before the drain, and
\* a listener error that main does not wait for.
BeginShutdown_Close ==
  /\ main = "serving"
  /\ signalled \/ listener = "failed"
  /\ main' = "closing"
  /\ pool' = "closing"
  /\ listener' = IF listener = "open" THEN "closed" ELSE listener
  /\ UNCHANGED <<signalled, opened, timedOut, handlers, metrics>>

BeginShutdown_PoolFirst ==
  /\ main = "serving"
  /\ signalled \/ listener = "failed"
  /\ main' = "draining"
  /\ pool' = "closing"
  /\ listener' = IF listener = "open" THEN "closed" ELSE listener
  /\ UNCHANGED <<signalled, opened, timedOut, handlers, metrics>>

BeginShutdown_SignalOnly ==
  /\ main = "serving"
  /\ signalled
  /\ main' = "draining"
  /\ listener' = IF listener = "open" THEN "closed" ELSE listener
  /\ UNCHANGED <<signalled, opened, pool, timedOut, handlers, metrics>>

\* The select of main: Shutdown closes the listener if it is open by now.
BeginShutdown ==
  /\ main = "serving"
  /\ signalled \/ listener = "failed"
  /\ main' = "draining"
  /\ listener' = IF listener = "open" THEN "closed" ELSE listener
  /\ UNCHANGED <<signalled, opened, pool, timedOut, handlers, metrics>>

\* Variant: main does not wait for the goroutine that calls Shutdown.
Drained_NoWait ==
  /\ main = "draining"
  /\ main' = "closing"
  /\ pool' = "closing"
  /\ UNCHANGED <<signalled, listener, opened, timedOut, handlers, metrics>>

\* Shutdown returns when no request is in flight, or after 30 seconds; then
\* main returns and the deferred pool.Close refuses new acquisitions.
Drained ==
  /\ main = "draining"
  /\ InFlight = {}
  /\ main' = "closing"
  /\ pool' = "closing"
  /\ UNCHANGED <<signalled, listener, opened, timedOut, handlers, metrics>>

\* Variant: Shutdown has no deadline.
DrainTimeout_Never == main = "draining" /\ InFlight # {} /\ UNCHANGED vars

DrainTimeout ==
  /\ main = "draining"
  /\ InFlight # {}
  /\ main' = "closing"
  /\ pool' = "closing"
  /\ timedOut' = TRUE
  /\ UNCHANGED <<signalled, listener, opened, handlers, metrics>>

\* pool.Close returns once every connection has come back.
PoolClosed ==
  /\ main = "closing"
  /\ holding = {}
  /\ main' = "flushing"
  /\ pool' = "closed"
  /\ UNCHANGED <<signalled, listener, opened, timedOut, handlers, metrics>>

\* shutdownMetrics exports what there is, or fails, within 5 seconds.
Flush ==
  /\ main = "flushing"
  /\ main' = "returning"
  /\ \/ exported' = recorded /\ flushed' = TRUE
     \/ UNCHANGED <<exported, flushed>>
  /\ UNCHANGED <<signalled, listener, opened, pool, timedOut, handlers,
                 recorded>>

Return == main = "returning" /\ End("exited")

\* The grace period of the pod starts at SIGTERM and is no longer than the
\* timeout of Shutdown, which starts later: SIGKILL may come at any point.
Kill ==
  /\ signalled
  /\ ~Ended
  /\ End("killed")

-----------------------------------------------------------------------------
(* The listener goroutine and the exporter.                                *)

\* Variant: a listener that starts late opens all the same.
Listen_Late ==
  /\ listener = "starting"
  /\ listener' = "open"
  /\ opened' = TRUE
  /\ UNCHANGED <<main, signalled, pool, timedOut, handlers, metrics>>

\* ListenAndServe: the goroutine may get this far only after main has called
\* Shutdown, and then net/http lets the server accept nothing any more.
Listen ==
  /\ listener = "starting"
  /\ IF main \in {"announcing", "serving"}
       THEN listener' = "open" /\ opened' = TRUE
       ELSE listener' = "closed" /\ opened' = opened
  /\ UNCHANGED <<main, signalled, pool, timedOut, handlers, metrics>>

\* The port is taken, or Accept fails for good.
ListenFails ==
  /\ listener \in {"starting", "open"}
  /\ listener' = "failed"
  /\ UNCHANGED <<main, signalled, opened, pool, timedOut, handlers, metrics>>

\* The periodic reader exports every OTEL_EXPORT_INTERVAL.
Export ==
  /\ main \notin {"setup", "returning"}
  /\ ~Ended
  /\ exported # recorded
  /\ exported' = recorded
  /\ UNCHANGED <<process, handlers, recorded, flushed>>

-----------------------------------------------------------------------------
(* The handlers.                                                           *)

\* The next step of r is done, or it ends the request (an error, nothing
\* found, access denied).
StepEnds(r) ==
  \E rest \in {Tail(todo[r]), << >>} : todo' = [todo EXCEPT ![r] = rest]

Accept(r) ==
  /\ listener = "open"
  /\ request[r] = "none"
  /\ request' = [request EXCEPT ![r] = "auth"]
  /\ \E steps \in Work : todo' = [todo EXCEPT ![r] = steps]
  /\ UNCHANGED <<process, holding, denied, metrics>>

\* use.UserConfig lets the request through, or answers itself; the handler
\* may refuse the request (its method or its parameters) before any step.
Authenticate(r) ==
  /\ request[r] = "auth"
  /\ \/ /\ request' = [request EXCEPT ![r] = "running"]
        /\ todo' \in {todo, [todo EXCEPT ![r] = << >>]}
     \/ /\ request' = [request EXCEPT ![r] = "returned"]
        /\ todo' = [todo EXCEPT ![r] = << >>]
  /\ UNCHANGED <<process, holding, denied, metrics>>

NextStep(r, step) ==
  /\ request[r] = "running"
  /\ todo[r] # << >>
  /\ Head(todo[r]) = step

Acquire(r) ==
  /\ NextStep(r, "db")
  /\ r \notin holding
  /\ pool = "open"
  /\ Cardinality(holding) < MaxConns
  /\ holding' = holding \union {r}
  /\ UNCHANGED <<process, request, todo, denied, metrics>>

\* Variant: the rows are not closed, so the connection is kept.
QueryEnds_RowsOpen(r) ==
  /\ r \in holding
  /\ NextStep(r, "db")
  /\ StepEnds(r)
  /\ UNCHANGED <<process, request, holding, denied, metrics>>

\* The rows have been read, or the query has failed.
QueryEnds(r) ==
  /\ r \in holding
  /\ holding' = holding \ {r}
  /\ StepEnds(r)
  /\ UNCHANGED <<process, request, denied, metrics>>

\* No connection: the 10 seconds are over, or the pool is closed.
NoConnection(r) ==
  /\ NextStep(r, "db")
  /\ r \notin holding
  /\ todo' = [todo EXCEPT ![r] = << >>]
  /\ denied' = IF pool = "open" THEN denied ELSE denied \union {r}
  /\ UNCHANGED <<process, request, holding, metrics>>

Authorize(r) ==
  /\ NextStep(r, "rbac")
  /\ StepEnds(r)
  /\ UNCHANGED <<process, request, holding, denied, metrics>>

\* The response is written and the deferred RecordHTTPRequest runs.
Respond(r) ==
  /\ request[r] = "running"
  /\ todo[r] = << >>
  /\ request' = [request EXCEPT ![r] = "returned"]
  /\ recorded' = recorded \union {r}
  /\ UNCHANGED <<process, todo, holding, denied, exported, flushed>>

Handle(r) ==
  \/ Accept(r) \/ Authenticate(r) \/ Acquire(r) \/ QueryEnds(r)
  \/ NoConnection(r) \/ Authorize(r) \/ Respond(r)

Main == \/ SetupFails \/ Setup \/ Connect \/ ConnectFails \/ ExitFailure
        \/ Announce \/ BeginShutdown \/ Drained \/ DrainTimeout
        \/ PoolClosed \/ Flush \/ Return

Stopped == Ended /\ UNCHANGED vars

Next == \/ Main \/ Signal \/ Kill \/ Listen \/ ListenFails \/ Export
        \/ \E r \in Request : Handle(r)
        \/ Stopped

\* main goes on, for each of its waits has a deadline, except pool.Close: it
\* relies on the queries, which have one of their own (queryTimeout).
Fairness == WF_vars(Main) /\ \A r \in Request : WF_vars(QueryEnds(r))

Spec == Init /\ [][Next]_vars /\ Fairness

-----------------------------------------------------------------------------
(* Properties.                                                             *)

\* A request that was accepted is cut off only if Shutdown timed out or the
\* pod's grace period ended, even when a signal comes before the listener is
\* open.
NoRequestIsCut ==
  ~timedOut /\ main # "killed" => \A r \in Request : request[r] # "cut"

\* A handler meets a closed pool only if Shutdown timed out: until then the
\* pool outlives every handler.
PoolOutlivesHandlers == ~timedOut => denied = {}

\* A connection is out of the pool only while its handler is in a database
\* step, and no longer than the pool lives: a handler that waits for the API
\* server, for which handleResources has no deadline, holds none, so
\* pool.Close and the other handlers wait for queries only.
HoldersQuery ==
  \A r \in holding : NextStep(r, "db") /\ pool \in {"open", "closing"}

\* When the process has returned from main without a timeout and the last
\* export succeeded, the observation of every handled request is exported:
\* the deferred calls flush after the last handler has recorded.
NothingIsLost ==
  main = "exited" /\ flushed /\ ~timedOut => exported = recorded

\* After a signal the process ends, whatever its handlers wait for, and
\* without the help of SIGKILL.
SignalEndsProcess == signalled ~> Ended

\* A listener that fails ends the process too.
ListenErrorEndsProcess == listener = "failed" ~> Ended

\* telemetry/metrics-reference.md: startup.success counts a "Service startup
\* completed successfully", which a startup that cannot listen has not.
SuccessMeansListening ==
  listener = "failed" /\ "startup.success" \in recorded => opened

\* telemetry/metrics-reference.md: startup.failure counts a "Service startup
\* failed"; a process that counts one sends it.
FailureIsExported ==
  main = "exited" /\ "startup.failure" \in recorded
    => "startup.failure" \in exported

=============================================================================
