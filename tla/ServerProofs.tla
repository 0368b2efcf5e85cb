---------------------------- MODULE ServerProofs ----------------------------
(***************************************************************************)
(* The graceful shutdown, for every set of requests and size of the pool.  *)
(***************************************************************************)
EXTENDS Server, TLAPS, FiniteSetTheorems

\* Before the listener, while it may accept, and after the drain.
Before == {"setup", "connecting", "failing"}
Serving == {"announcing", "serving", "draining"}
After == {"closing", "flushing", "returning", "exited", "killed"}

\* The stages of main: the listener accepts only while main serves, when the
\* pool is open, and unless Shutdown timed out nothing is in flight once main
\* has gone on.
Stages ==
  /\ main \in Before => InFlight = {} /\ listener = "none"
  /\ main \in Serving => pool = "open"
  /\ main \notin {"announcing", "serving"} => listener # "open"
  /\ Ended => listener # "starting"
  /\ main \in After /\ ~timedOut => InFlight = {}

\* What the last export leaves behind.
Flushed ==
  /\ flushed => main \in {"returning", "exited", "killed"}
  /\ flushed /\ ~timedOut => exported = recorded

ServerInv ==
  /\ TypeOK
  /\ HoldersQuery
  /\ Stages
  /\ Flushed
  /\ NoRequestIsCut
  /\ PoolOutlivesHandlers

-----------------------------------------------------------------------------

\* The invariant holds when the process starts.
LEMMA ServerInit == Init => ServerInv
<1> SUFFICES ASSUME Init PROVE ServerInv
  OBVIOUS
<1>1. TypeOK
  <2>1. Cardinality(holding) = 0
    BY FS_EmptySet DEF Init
  <2>2. << >> \in Seq({"db", "rbac"})
    OBVIOUS
  <2>3. todo \in [Request -> Seq({"db", "rbac"})]
    BY <2>2 DEF Init
  <2>4. holding \subseteq InFlight /\ Cardinality(holding) <= MaxConns
    BY <2>1, ConnsAssumption DEF Init
  <2>5. request \in [Request -> {"none", "auth", "running", "returned",
                                 "cut"}]
    BY DEF Init
  <2>6. /\ denied \subseteq Request
        /\ recorded \subseteq Request \union Startup
        /\ exported \subseteq recorded
    BY DEF Init
  <2>7. /\ main = "setup" /\ listener = "none" /\ pool = "none"
        /\ signalled = FALSE /\ opened = FALSE /\ timedOut = FALSE
        /\ flushed = FALSE
    BY DEF Init
  <2> QED
    BY <2>3, <2>4, <2>5, <2>6, <2>7 DEF TypeOK
<1>2. InFlight = {}
  BY DEF Init, InFlight
<1> QED
  BY <1>1, <1>2 DEF Init, ServerInv, HoldersQuery, Stages, Flushed, Before,
                    Serving, After, Ended, NoRequestIsCut,
                    PoolOutlivesHandlers

\* Leaving the process: nothing runs any more, and what ran is cut off.
LEMMA ExitStep ==
  ASSUME ServerInv, ~Ended, NEW how \in {"exited", "killed"}, End(how),
         how = "killed" \/ main \in Before \union After
  PROVE  ServerInv'
<1> USE DEF ServerInv
<1>1. /\ main' = how /\ listener' \in {"failed", "closed"}
      /\ request' = [r \in Request |->
                       IF r \in InFlight THEN "cut" ELSE request[r]]
      /\ holding' = {}
      /\ UNCHANGED <<signalled, opened, pool, timedOut, todo, denied,
                     recorded, exported, flushed>>
  BY DEF End, metrics
<1>2. InFlight' = {}
  BY <1>1 DEF InFlight, TypeOK
<1>3. TypeOK'
  <2>1. Cardinality(holding') = 0
    BY <1>1, FS_EmptySet
  <2>2. request' \in [Request -> {"none", "auth", "running", "returned",
                                  "cut"}]
    BY <1>1 DEF TypeOK
  <2>3. holding' \subseteq InFlight' /\ Cardinality(holding') <= MaxConns
    BY <1>1, <2>1, ConnsAssumption
  <2> QED
    BY <1>1, <2>2, <2>3 DEF TypeOK
<1>4. HoldersQuery' /\ Stages' /\ Flushed'
  BY <1>1, <1>2 DEF HoldersQuery, Stages, Flushed, Before, Serving, After,
                    Ended
<1>5. NoRequestIsCut'
  <2> SUFFICES ASSUME ~timedOut, how # "killed"
               PROVE  \A r \in Request : request'[r] # "cut"
    BY <1>1 DEF NoRequestIsCut
  <2>1. main \in Before \union After /\ main # "killed"
    BY DEF Ended
  <2>2. InFlight = {}
    BY <2>1 DEF Stages
  <2>3. request' = [r \in Request |-> request[r]]
    BY <1>1, <2>2
  <2> QED
    BY <2>1, <2>3 DEF NoRequestIsCut, TypeOK
<1> QED
  BY <1>1, <1>3, <1>4, <1>5 DEF PoolOutlivesHandlers

\* The steps of main, the signal, the listener and the exporter leave the
\* handlers alone.
LEMMA ProcessStep ==
  ASSUME ServerInv, UNCHANGED handlers,
         \/ Setup \/ Connect \/ ConnectFails \/ Announce \/ Signal
         \/ BeginShutdown \/ Drained \/ DrainTimeout \/ PoolClosed \/ Flush
         \/ Listen \/ ListenFails \/ Export
  PROVE  ServerInv'
<1> USE DEF ServerInv
<1>1. UNCHANGED <<request, todo, holding, denied>> /\ InFlight' = InFlight
  BY DEF handlers, InFlight
<1>2. TypeOK'
  <2>1. /\ request' \in [Request -> {"none", "auth", "running", "returned",
                                     "cut"}]
        /\ todo' \in [Request -> Seq({"db", "rbac"})]
        /\ holding' \subseteq InFlight' /\ Cardinality(holding') <= MaxConns
        /\ denied' \subseteq Request
    BY <1>1 DEF TypeOK
  <2>2. /\ recorded' \subseteq Request \union Startup
        /\ exported' \subseteq recorded'
        /\ flushed' \in BOOLEAN
    BY DEF TypeOK, Startup, Setup, Connect, ConnectFails, Announce, Signal,
           BeginShutdown, Drained, DrainTimeout, PoolClosed, Flush, Listen,
           ListenFails, Export, metrics, process
  <2>3. /\ main' \in {"setup", "connecting", "announcing", "serving",
                      "draining", "closing", "flushing", "returning",
                      "failing", "exited", "killed"}
        /\ listener' \in {"none", "starting", "open", "failed", "closed"}
        /\ pool' \in {"none", "open", "closing", "closed"}
    BY DEF TypeOK, Setup, Connect, ConnectFails, Announce, Signal,
           BeginShutdown, Drained, DrainTimeout, PoolClosed, Flush, Listen,
           ListenFails, Export, process
  <2>4. /\ signalled' \in BOOLEAN
        /\ opened' \in BOOLEAN
        /\ timedOut' \in BOOLEAN
    BY DEF TypeOK, Setup, Connect, ConnectFails, Announce, Signal,
           BeginShutdown, Drained, DrainTimeout, PoolClosed, Flush, Listen,
           ListenFails, Export, process
  <2> QED
    BY <2>1, <2>2, <2>3, <2>4 DEF TypeOK
<1>3. HoldersQuery'
  <2>1. holding = {} \/ pool' = pool \/ pool' \in {"open", "closing"}
    BY DEF Setup, Connect, ConnectFails, Announce, Signal, BeginShutdown,
           Drained, DrainTimeout, PoolClosed, Flush, Listen, ListenFails,
           Export, process
  <2> QED
    BY <1>1, <2>1 DEF HoldersQuery, NextStep
<1>4. Stages'
  BY <1>1 DEF Stages, Before, Serving, After, Ended, TypeOK, Setup, Connect,
              ConnectFails, Announce, Signal, BeginShutdown, Drained,
              DrainTimeout, PoolClosed, Flush, Listen, ListenFails, Export,
              process
<1>5. Flushed'
  BY DEF Flushed, TypeOK, Setup, Connect, ConnectFails, Announce, Signal,
         BeginShutdown, Drained, DrainTimeout, PoolClosed, Flush, Listen,
         ListenFails, Export, metrics, process
<1>6. (timedOut => timedOut') /\ (main = "killed" => main' = "killed")
  BY DEF TypeOK, Setup, Connect, ConnectFails, Announce, Signal,
         BeginShutdown, Drained, DrainTimeout, PoolClosed, Flush, Listen,
         ListenFails, Export, metrics, process
<1> QED
  BY <1>1, <1>2, <1>3, <1>4, <1>5, <1>6
     DEF NoRequestIsCut, PoolOutlivesHandlers

\* A request moves on.  Whatever the step, a request that is in flight after
\* it was in flight before, or the listener was open.
LEMMA HandlerStages ==
  ASSUME ServerInv, NEW r \in Request, Handle(r)
  PROVE  Stages' /\ Flushed' /\ NoRequestIsCut'
<1> USE DEF ServerInv
<1>1. UNCHANGED process
  BY DEF Handle, Accept, Authenticate, Acquire, QueryEnds, NoConnection,
         Authorize, Respond
<1>2. /\ request' \in [Request -> {"none", "auth", "running", "returned",
                                   "cut"}]
      /\ \A q \in Request : q # r => request'[q] = request[q]
      /\ request'[r] # "cut" \/ request'[r] = request[r]
      /\ r \in InFlight \/ listener = "open"
  BY DEF Handle, Accept, Authenticate, Acquire, QueryEnds, NoConnection,
         Authorize, Respond, NextStep, TypeOK, InFlight
<1>3. InFlight' # {} => InFlight # {} \/ listener = "open"
  BY <1>2 DEF InFlight
<1>4. Stages'
  BY <1>1, <1>3 DEF Stages, Before, Serving, After, Ended, process
<1>5. Flushed'
  <2>1. UNCHANGED metrics \/ Respond(r)
    BY DEF Handle, Accept, Authenticate, Acquire, QueryEnds, NoConnection,
           Authorize
  <2>2. CASE UNCHANGED metrics
    BY <1>1, <2>2 DEF Flushed, metrics, process
  <2>3. CASE Respond(r)
    <3>1. r \in InFlight /\ flushed' = flushed
      BY <2>3 DEF Respond, InFlight
    <3>2. flushed => timedOut
      BY <3>1 DEF Stages, Flushed, After
    <3> QED
      BY <1>1, <3>1, <3>2 DEF Flushed, process
  <2> QED
    BY <2>1, <2>2, <2>3
<1>6. NoRequestIsCut'
  BY <1>1, <1>2 DEF NoRequestIsCut, process
<1> QED
  BY <1>4, <1>5, <1>6

\* Every step of a handler keeps the invariant.
LEMMA HandlerStep ==
  ASSUME ServerInv, NEW r \in Request, Handle(r)
  PROVE  ServerInv'
<1> USE DEF ServerInv
<1>1. Stages' /\ Flushed' /\ NoRequestIsCut'
  BY HandlerStages
<1>2. UNCHANGED process
  BY DEF Handle, Accept, Authenticate, Acquire, QueryEnds, NoConnection,
         Authorize, Respond
<1>3. IsFiniteSet(holding) /\ Cardinality(holding) \in Nat
  BY RequestAssumption, FS_Subset, FS_CardinalityType DEF TypeOK, InFlight
<1>4. CASE Accept(r) \/ Authenticate(r)
  <2>1. /\ holding' = holding /\ r \notin holding
        /\ UNCHANGED <<denied, recorded, exported, flushed>>
        /\ \A q \in Request : q # r => request'[q] = request[q]
        /\ \A q \in Request : q # r => todo'[q] = todo[q]
    BY <1>4 DEF Accept, Authenticate, metrics, TypeOK, InFlight,
                HoldersQuery, NextStep
  <2>2. request' \in [Request -> {"none", "auth", "running", "returned",
                                  "cut"}]
    BY <1>4 DEF Accept, Authenticate, TypeOK
  <2>3. todo' \in [Request -> Seq({"db", "rbac"})]
    <3>1. \A w \in Work : w \in Seq({"db", "rbac"})
      <4>1. /\ <<"db", "rbac", "db">> \in Seq({"db", "rbac"})
            /\ <<"db", "rbac">> \in Seq({"db", "rbac"})
            /\ <<"rbac">> \in Seq({"db", "rbac"})
        OBVIOUS
      <4> QED
        BY <4>1 DEF Work, handleResources, handleResourceDetail, handleCanI
    <3>2. << >> \in Seq({"db", "rbac"})
      OBVIOUS
    <3>3. todo \in [Request -> Seq({"db", "rbac"})]
      BY DEF TypeOK
    <3>4. \/ todo' = todo
          \/ \E w \in Seq({"db", "rbac"}) : todo' = [todo EXCEPT ![r] = w]
      <4>1. CASE Accept(r)
        <5>1. PICK w \in Work : todo' = [todo EXCEPT ![r] = w]
          BY <4>1 DEF Accept
        <5> QED
          BY <3>1, <5>1
      <4>2. CASE Authenticate(r)
        BY <3>2, <4>2 DEF Authenticate
      <4> QED
        BY <1>4, <4>1, <4>2
    <3> QED
      BY <3>3, <3>4
  <2>4. holding' \subseteq InFlight'
    BY <2>1, <2>2 DEF TypeOK, InFlight
  <2>5. TypeOK'
    BY <1>2, <2>1, <2>2, <2>3, <2>4 DEF TypeOK, process
  <2>6. HoldersQuery'
    <3>1. \A q \in holding : q \in Request /\ q # r
      BY <2>1 DEF TypeOK, InFlight
    <3> QED
      BY <1>2, <2>1, <3>1 DEF HoldersQuery, NextStep, process
  <2> QED
    BY <1>1, <1>2, <2>1, <2>5, <2>6 DEF PoolOutlivesHandlers, process
<1>5. CASE Acquire(r)
  <2>1. /\ holding' = holding \union {r} /\ r \notin holding
        /\ Cardinality(holding) < MaxConns /\ NextStep(r, "db")
        /\ UNCHANGED <<request, todo, denied, recorded, exported, flushed>>
    BY <1>5 DEF Acquire, metrics
  <2>2. Cardinality(holding') <= MaxConns
    BY <1>3, <2>1, FS_AddElement, ConnsAssumption
  <2>3. holding' \subseteq InFlight'
    BY <2>1 DEF TypeOK, InFlight, NextStep
  <2>4. TypeOK'
    BY <1>2, <2>1, <2>2, <2>3 DEF TypeOK, process
  <2>5. HoldersQuery'
    <3>1. pool = "open"
      BY <1>5 DEF Acquire
    <3> QED
      BY <1>2, <2>1, <3>1 DEF HoldersQuery, NextStep, process
  <2> QED
    BY <1>1, <1>2, <2>1, <2>4, <2>5 DEF PoolOutlivesHandlers, process
<1>6. CASE QueryEnds(r) \/ NoConnection(r) \/ Authorize(r)
  <2>1. /\ todo[r] # << >> /\ todo[r] \in Seq({"db", "rbac"})
        /\ request[r] = "running"
    BY <1>6 DEF QueryEnds, NoConnection, Authorize, HoldersQuery, NextStep,
                TypeOK
  <2>2. Tail(todo[r]) \in Seq({"db", "rbac"}) /\ << >> \in Seq({"db", "rbac"})
    BY <2>1
  <2>3. \E rest \in {Tail(todo[r]), << >>} : todo' = [todo EXCEPT ![r] = rest]
    BY <1>6 DEF QueryEnds, NoConnection, Authorize, StepEnds
  <2>4. /\ todo' \in [Request -> Seq({"db", "rbac"})]
        /\ \A q \in Request : q # r => todo'[q] = todo[q]
    BY <2>2, <2>3 DEF TypeOK
  <2>5. /\ holding' = holding \ {r}
        /\ UNCHANGED <<request, recorded, exported, flushed>>
    <3>1. CASE QueryEnds(r)
      BY <3>1 DEF QueryEnds, metrics
    <3>2. CASE NoConnection(r)
      BY <3>2 DEF NoConnection, metrics
    <3>3. CASE Authorize(r)
      <4>1. r \notin holding
        BY <3>3 DEF Authorize, HoldersQuery, NextStep
      <4> QED
        BY <3>3, <4>1 DEF Authorize, metrics
    <3> QED
      BY <1>6, <3>1, <3>2, <3>3
  <2>6. Cardinality(holding') <= MaxConns
    <3>1. /\ IsFiniteSet(holding')
          /\ Cardinality(holding') <= Cardinality(holding)
      BY <1>3, <2>5, FS_Subset
    <3>2. Cardinality(holding') \in Nat
      BY <3>1, FS_CardinalityType
    <3> QED
      BY <1>3, <3>1, <3>2, ConnsAssumption DEF TypeOK
  <2>7. denied' \subseteq Request
    BY <1>6 DEF QueryEnds, NoConnection, Authorize, TypeOK
  <2>8. holding' \subseteq InFlight'
    BY <2>5 DEF TypeOK, InFlight
  <2>9. TypeOK'
    BY <1>2, <2>4, <2>5, <2>6, <2>7, <2>8 DEF TypeOK, process
  <2>10. HoldersQuery'
    <3>1. \A q \in holding' : q \in holding /\ q \in Request /\ q # r
      BY <2>5 DEF TypeOK, InFlight
    <3> QED
      BY <1>2, <2>4, <2>5, <3>1 DEF HoldersQuery, NextStep, process
  <2>11. PoolOutlivesHandlers'
    <3>1. CASE denied' = denied
      BY <1>2, <3>1 DEF PoolOutlivesHandlers, process
    <3>2. CASE denied' # denied
      <4>1. pool # "open"
        BY <1>6, <3>2 DEF QueryEnds, NoConnection, Authorize
      <4>2. r \in InFlight
        BY <2>1 DEF InFlight
      <4>3. timedOut
        BY <4>1, <4>2 DEF Stages, Before, Serving, After, TypeOK
      <4> QED
        BY <1>2, <4>3 DEF PoolOutlivesHandlers, process
    <3> QED
      BY <3>1, <3>2
  <2> QED
    BY <1>1, <2>9, <2>10, <2>11
<1>7. CASE Respond(r)
  <2>1. /\ request' = [request EXCEPT ![r] = "returned"]
        /\ recorded' = recorded \union {r}
        /\ todo[r] = << >>
        /\ UNCHANGED <<todo, holding, denied, exported, flushed>>
    BY <1>7 DEF Respond
  <2>2. r \notin holding
    BY <2>1 DEF HoldersQuery, NextStep
  <2>3. \A q \in Request : q # r => request'[q] = request[q]
    BY <2>1 DEF TypeOK
  <2>4. holding' \subseteq InFlight'
    BY <2>1, <2>2, <2>3 DEF TypeOK, InFlight
  <2>5. TypeOK'
    BY <1>2, <2>1, <2>4 DEF TypeOK, process
  <2>6. HoldersQuery'
    <3>1. \A q \in holding : q \in Request /\ q # r
      BY <2>2 DEF TypeOK, InFlight
    <3> QED
      BY <1>2, <2>1, <2>3, <3>1 DEF HoldersQuery, NextStep, process
  <2> QED
    BY <1>1, <1>2, <2>1, <2>5, <2>6 DEF PoolOutlivesHandlers, process
<1> QED
  BY <1>4, <1>5, <1>6, <1>7 DEF Handle

\* Every step keeps the invariant.
LEMMA ServerStep == ServerInv /\ [Next]_vars => ServerInv'
<1> SUFFICES ASSUME ServerInv, [Next]_vars PROVE ServerInv'
  OBVIOUS
<1>1. CASE SetupFails \/ ExitFailure \/ Return \/ Kill
  <2>1. /\ ~Ended
        /\ \/ End("exited") /\ main \in Before \union {"returning"}
           \/ End("killed")
    BY <1>1 DEF SetupFails, ExitFailure, Return, Kill, Before, Ended
  <2> QED
    BY <2>1, ExitStep DEF After
<1>2. CASE \/ Setup \/ Connect \/ ConnectFails \/ Announce \/ Signal
           \/ BeginShutdown \/ Drained \/ DrainTimeout \/ PoolClosed \/ Flush
           \/ Listen \/ ListenFails \/ Export
  <2>1. UNCHANGED handlers
    BY <1>2 DEF Setup, Connect, ConnectFails, Announce, Signal, BeginShutdown,
                Drained, DrainTimeout, PoolClosed, Flush, Listen, ListenFails,
                Export
  <2> QED
    BY <1>2, <2>1, ProcessStep
<1>3. CASE \E r \in Request : Handle(r)
  BY <1>3, HandlerStep
<1>4. CASE Stopped \/ UNCHANGED vars
  BY <1>4 DEF Stopped, Ended, vars, process, handlers, metrics, ServerInv,
              TypeOK, InFlight, HoldersQuery, NextStep, Stages, Flushed,
              NoRequestIsCut, PoolOutlivesHandlers
<1> QED
  BY <1>1, <1>2, <1>3, <1>4 DEF Next, Main

\* Hence it always holds.
LEMMA ServerInvariant == Spec => []ServerInv
  BY ServerInit, ServerStep, PTL DEF Spec

(***************************************************************************)
(* The process keeps its types; at most MaxConns handlers hold a           *)
(* connection, and only handlers in flight do.                             *)
(***************************************************************************)
THEOREM ServerTypes == Spec => []TypeOK
<1>1. ServerInv => TypeOK
  BY DEF ServerInv
<1> QED
  BY <1>1, ServerInvariant, PTL

(***************************************************************************)
(* main returns, and so cuts handlers off, only after Shutdown has waited  *)
(* for every accepted request or given up.                                 *)
(***************************************************************************)
THEOREM AcceptedRequestsAreAnswered == Spec => []NoRequestIsCut
<1>1. ServerInv => NoRequestIsCut
  BY DEF ServerInv
<1> QED
  BY <1>1, ServerInvariant, PTL

(***************************************************************************)
(* The deferred pool.Close comes after Shutdown: as long as Shutdown does  *)
(* not give up, no handler meets a closed pool.                            *)
(***************************************************************************)
THEOREM PoolIsOpenForHandlers == Spec => []PoolOutlivesHandlers
<1>1. ServerInv => PoolOutlivesHandlers
  BY DEF ServerInv
<1> QED
  BY <1>1, ServerInvariant, PTL

(***************************************************************************)
(* A connection that is out of the pool is in a query: neither a handler   *)
(* that waits for the API server nor one that has ended keeps a connection *)
(* from the others, or from pool.Close at the end.                         *)
(***************************************************************************)
THEOREM ConnectionsAreInQueries == Spec => []HoldersQuery
<1>1. ServerInv => HoldersQuery
  BY DEF ServerInv
<1> QED
  BY <1>1, ServerInvariant, PTL

(***************************************************************************)
(* shutdownMetrics is the last deferred call but one, so the last export   *)
(* holds the observation of every request that was handled.                *)
(***************************************************************************)
THEOREM LastExportIsComplete == Spec => []NothingIsLost
<1>1. ServerInv => NothingIsLost
  BY DEF ServerInv, Flushed, NothingIsLost
<1> QED
  BY <1>1, ServerInvariant, PTL

=============================================================================
