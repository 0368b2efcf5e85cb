---------------------------- MODULE AccessProofs ----------------------------
(***************************************************************************)
(* What a request for resources may answer, for every table, every write   *)
(* of the ingester, every change of the grants and every TTL.              *)
(***************************************************************************)
EXTENDS Access, AuthorizerProofs, KeysetProofs, FiniteSetTheorems

\* The composition takes no step that the authorizer alone would not take.
LEMMA StepOfAuthorizer == [AccessNext]_accessVars => [Next]_vars
<1> SUFFICES ASSUME [AccessNext]_accessVars PROVE [Next]_vars
  OBVIOUS
<1>1. CASE UNCHANGED vars
  BY <1>1
<1>2. CASE AuthorizerSteps
  BY <1>2 DEF AuthorizerSteps, Next
<1>3. CASE Authorize
  BY <1>3 DEF Authorize, Next
<1>4. CASE resourcesRBAC \/ detailRBAC
  BY <1>4 DEF resourcesRBAC, detailRBAC, Next
<1>5. \/ UNCHANGED vars
      \/ AuthorizerSteps \/ Authorize \/ resourcesRBAC \/ detailRBAC
  <2>1. Ingest => UNCHANGED vars
    BY DEF Ingest, Insert, Upsert, Write
  <2>2. /\ \A p \in Lists : resourcesParse(p) => UNCHANGED vars
        /\ \A u \in Uids : detailParse(u) => UNCHANGED vars
        /\ \A status \in {400, 405} : Refuse(status) => UNCHANGED vars
    BY DEF resourcesParse, detailParse, Begin, Refuse
  <2>3. resourcesDiscover \/ detailQuery \/ resourcesQuery \/ Fail
          => UNCHANGED vars
    BY DEF resourcesDiscover, detailQuery, resourcesQuery, Fail
  <2>4. Finished \/ UNCHANGED accessVars => UNCHANGED vars
    BY DEF Finished, accessVars
  <2> QED
    BY <2>1, <2>2, <2>3, <2>4 DEF AccessNext
<1> QED
  BY <1>1, <1>2, <1>3, <1>4, <1>5

(***************************************************************************)
(* The permission checks of a request are those of RbacAuthorizer, so that *)
(* what AuthorizerProofs shows of Spec holds of every request.             *)
(***************************************************************************)
THEOREM RequestsUseTheAuthorizer == AccessSpec => Spec
<1>1. AccessInit => Init
  BY DEF AccessInit
<1> QED
  BY <1>1, StepOfAuthorizer, PTL DEF AccessSpec, Spec

-----------------------------------------------------------------------------
(* The inductive invariant.                                                *)

\* a and b are rows of one object.
SameObject(a, b) ==
  /\ a["id"] = b["id"] /\ a["global_uid"] = b["global_uid"]
  /\ Target(a) = Target(b)

\* The authorizer said yes, or no, to the target t of this request.
SaidYes(t) == \E i \in DOMAIN asked : allowed[i] /\ asked[i] = GetOf(t)
SaidNo(t) == \E i \in DOMAIN asked : ~allowed[i] /\ asked[i] = GetOf(t)

AskTypes ==
  /\ \/ asks = NoRequest
     \/ \E p \in Lists : asks = ListOf(p)
     \/ \E u \in Uids : asks = DetailOf(u)
  /\ stage \in {"idle", "discover", "fetch", "rbac", "query", "done"}
  /\ stage \in {"discover", "query"} => \E p \in Lists : asks = ListOf(p)
  /\ stage = "fetch" => \E u \in Uids : asks = DetailOf(u)
  /\ stage = "rbac" => asks # NoRequest
  /\ stage = "idle" => asks = NoRequest

\* The rows asked for now have been seen, the steady ones are among them.
StoreInv ==
  /\ IsTable(table)
  /\ writes \in 0..MaxWrites
  /\ seen \subseteq Row
  /\ stage # "idle" => AskedIn(asks, table) \subseteq seen
  /\ steady \subseteq IdsOf(AskedIn(asks, table))
  /\ stage = "idle" => steady = {}

\* Between the two reads of the table no object leaves it.
DiscoveredInv ==
  /\ discovered \subseteq Row
  /\ stage \in {"rbac", "query"} =>
       /\ discovered # {}
       /\ \A d \in discovered : \E r \in table : SameObject(d, r)
       /\ steady \subseteq IdsOf(discovered)
       /\ asks.kind = "list" =>
            \A d \in discovered : DiscoverWhere(asks.params, d)
       /\ asks.kind = "detail" =>
            discovered \subseteq seen /\ \A d, e \in discovered : d = e

\* The authorizer is asked about the targets discovered and nothing else.
TargetsInv ==
  /\ phase \in {"idle", "filter", "filtered"}
  /\ phase = "idle" => stage # "query" /\ targets = {}
  /\ phase = "filter" =>
       /\ stage = "rbac" /\ targets = {}
       /\ \A i \in DOMAIN asked :
            \E d \in discovered : asked[i] = GetOf(Target(d))
       /\ \A d \in discovered :
            \E i \in DOMAIN asked : asked[i] = GetOf(Target(d))
  /\ phase = "filtered" => stage \in {"query", "done"}
  /\ \A t \in targets : SaidYes(t) /\ \E d \in discovered : t = Target(d)
  /\ phase = "filtered" =>
       \A d \in discovered : Target(d) \in targets \/ SaidNo(Target(d))
  /\ stage = "query" => targets # {}

\* Every steady row is answered for.
Served ==
  \A i \in steady :
    \/ i \in IdsOf(answer.items)
    \/ PageIsFull
    \/ phase = "filtered" /\ \E r \in seen : r["id"] = i /\ SaidNo(Target(r))

AnswerInv ==
  /\ stage # "done" => answer = NoAnswer
  /\ answer.status \in {0, 200, 400, 403, 404, 405, 500}
  /\ answer.items \subseteq seen
  /\ \A r \in answer.items : Target(r) \in targets
  /\ answer.status = 403 =>
       phase = "filtered" /\ \E d \in discovered : SaidNo(Target(d))
  /\ stage = "done" /\ answer.status # 500 => Served

AccessInv ==
  /\ AuthInv
  /\ AskTypes
  /\ StoreInv
  /\ DiscoveredInv
  /\ TargetsInv
  /\ AnswerInv

-----------------------------------------------------------------------------
(* Facts about rows and targets.                                           *)

\* The rows of a request are told by its kind.
LEMMA Kinds ==
  /\ \A p : ListOf(p).kind = "list" /\ ListOf(p).params = p
            /\ ListOf(p) # NoRequest
  /\ \A u : DetailOf(u).kind = "detail" /\ DetailOf(u).uid = u
            /\ DetailOf(u) # NoRequest
  /\ NoRequest.kind = "none"
  BY DEF ListOf, DetailOf, NoRequest

\* GetOf tells targets apart.
LEMMA GetOfTarget ==
  ASSUME NEW r \in Row
  PROVE  /\ GetOf(Target(r)) \in UserCanTarget
         /\ [GroupResource |-> GetOf(Target(r)).GroupResource,
             Namespace |-> GetOf(Target(r)).Namespace] = Target(r)
  BY TargetsAssumption, VerbAssumption
     DEF GetOf, Target, ResourceTarget, UserCanTarget

\* The triple of a row is that of its target.
LEMMA TripleOfTarget ==
  ASSUME NEW r
  PROVE  <<Target(r).GroupResource[1], Target(r).GroupResource[2],
           Target(r).Namespace>> = TargetOf(r)
  BY DEF Target, GroupResourceOf, TargetOf

\* Rows of one triple have one target.
LEMMA TargetOfTriple ==
  ASSUME NEW r, NEW d, TargetOf(r) = TargetOf(d)
  PROVE  /\ Target(r) = Target(d)
         /\ r["resource_group"] = d["resource_group"]
         /\ r["resource_plural"] = d["resource_plural"]
         /\ r["namespace"] = d["namespace"]
  BY DEF Target, GroupResourceOf, TargetOf

\* An answer of the authorizer rests on what the cluster said lately.
LEMMA AnswersAreRecent ==
  ASSUME AuthInv, phase = "filtered", NEW t
  PROVE  /\ SaidYes(t) => lastPermitted[GetOf(t)] > began - TTL
         /\ SaidNo(t) => lastRefused[GetOf(t)] > began - TTL
<1>1. \A i \in DOMAIN asked :
        /\ allowed[i] => PermittedLately(asked[i])
        /\ ~allowed[i] => RefusedLately(asked[i])
  BY DEF AuthInv, AnswersInv
<1> QED
  BY <1>1 DEF SaidYes, SaidNo, PermittedLately, RefusedLately

-----------------------------------------------------------------------------

\* Before the request.
LEMMA AccessStarts == AccessInit => AccessInv
<1> SUFFICES ASSUME AccessInit PROVE AccessInv
  OBVIOUS
<1>1. AuthInv
  BY AuthInit DEF AccessInit
<1>2. AskTypes
  BY DEF AccessInit, AskTypes
<1>3. StoreInv
  BY TablesAssumption, WritesAssumption DEF AccessInit, StoreInv
<1>4. DiscoveredInv
  BY DEF AccessInit, DiscoveredInv
<1>5. phase = "idle"
  BY DEF AccessInit, Init
<1>6. TargetsInv
  BY <1>5 DEF AccessInit, TargetsInv
<1>7. AnswerInv
  BY DEF AccessInit, AnswerInv, NoAnswer
<1> QED
  BY <1>1, <1>2, <1>3, <1>4, <1>6, <1>7 DEF AccessInv


\* A write replaces the row of an object or adds one.
LEMMA WriteKeepsObjects ==
  ASSUME StoreInv, Ingest
  PROVE  /\ IsTable(table')
         /\ Write(table')
         /\ \A q \in table : \E r \in table' : SameObject(q, r)
<1>1. CASE \E r \in Row : Insert(r)
  <2>1. PICK r \in Row : Insert(r)
    BY <1>1
  <2>2. table' = table \union {r} /\ Write(table')
    BY <2>1 DEF Insert, Write
  <2>3. IsTable(table')
    BY <2>1, <2>2 DEF StoreInv, IsTable, Insert, IsNew
  <2> QED
    BY <2>2, <2>3 DEF SameObject
<1>2. CASE \E r \in Row, p \in table : Upsert(p, r)
  <2>1. PICK r \in Row, p \in table : Upsert(p, r)
    BY <1>2
  <2>2. table' = (table \ {p}) \union {r} /\ Write(table')
    BY <2>1 DEF Upsert, Write
  <2>3. SameObject(p, r)
    BY <2>1 DEF Upsert, Replaces, SameObject, Target, GroupResourceOf, Column
  <2>4. IsTable(table')
    BY <2>1, <2>2, <2>3 DEF StoreInv, IsTable, SameObject
  <2>5. \A q \in table : q = p \/ q \in table'
    BY <2>2
  <2> QED
    BY <2>2, <2>3, <2>4, <2>5 DEF SameObject
<1> QED
  BY <1>1, <1>2 DEF Ingest

\* The ingester writes while the request runs.
LEMMA WriteStep ==
  ASSUME AccessInv, Ingest
  PROVE  AskTypes' /\ StoreInv' /\ DiscoveredInv' /\ TargetsInv' /\ AnswerInv'
<1> USE DEF AccessInv
<1>1. /\ IsTable(table') /\ Write(table')
      /\ \A q \in table : \E r \in table' : SameObject(q, r)
  BY WriteKeepsObjects
<1>2. /\ writes < MaxWrites /\ writes' = writes + 1
      /\ stage \notin {"idle", "done"}
      /\ seen' = seen \union AskedIn(asks, table')
      /\ steady' = steady \intersect IdsOf(AskedIn(asks, table'))
      /\ UNCHANGED <<stage, asks, discovered, targets, answer>>
      /\ UNCHANGED <<phase, asked, allowed>>
  BY <1>1 DEF Write, handler, vars, request
<1>3. AskTypes'
  BY <1>2 DEF AskTypes
<1>4. StoreInv'
  <2>1. AskedIn(asks, table') \subseteq Row
    BY <1>1 DEF AskedIn, IsTable
  <2> QED
    BY <1>1, <1>2, <2>1, WritesAssumption DEF StoreInv, AskedIn
<1>5. DiscoveredInv'
  <2>1. ASSUME NEW d \in discovered, NEW q \in table, SameObject(d, q)
        PROVE  \E r \in table' : SameObject(d, r)
    BY <1>1, <2>1 DEF SameObject
  <2> QED
    BY <1>2, <2>1 DEF DiscoveredInv
<1>6. TargetsInv'
  BY <1>2 DEF TargetsInv, SaidYes, SaidNo
<1>7. AnswerInv'
  BY <1>2 DEF AnswerInv, NoAnswer
<1> QED
  BY <1>3, <1>4, <1>5, <1>6, <1>7

\* The clock, the grants and UserCan change nothing that the handler uses.
LEMMA AuthorizerStep ==
  ASSUME AccessInv, AuthorizerSteps
  PROVE  AskTypes' /\ StoreInv' /\ DiscoveredInv' /\ TargetsInv' /\ AnswerInv'
<1> USE DEF AccessInv
<1>1. /\ UNCHANGED <<phase, asked, allowed>>
      /\ UNCHANGED <<stage, asks, discovered, targets, answer>>
      /\ UNCHANGED <<table, writes, seen, steady>>
      /\ stage # "done"
  BY DEF AuthorizerSteps, Cluster, Tick, Grant, Revoke, Regrant, UserCan,
         FromCache, Review, ReviewFails, Decide, OthersOfUser, OtherRequest,
         Evict, request, handler, store
<1>2. AskTypes'
  BY <1>1 DEF AskTypes
<1>3. StoreInv'
  BY <1>1 DEF StoreInv, AskedIn
<1>4. DiscoveredInv'
  BY <1>1 DEF DiscoveredInv
<1>5. TargetsInv'
  BY <1>1 DEF TargetsInv, SaidYes, SaidNo
<1>6. AnswerInv'
  BY <1>1 DEF AnswerInv, NoAnswer
<1> QED
  BY <1>2, <1>3, <1>4, <1>5, <1>6

\* A request is parsed, or refused.
LEMMA BeginStepOfHandler ==
  ASSUME AccessInv,
         \/ \E p \in Lists : resourcesParse(p)
         \/ \E u \in Uids : detailParse(u)
         \/ \E status \in {400, 405} : Refuse(status)
  PROVE  AskTypes' /\ StoreInv' /\ DiscoveredInv' /\ TargetsInv' /\ AnswerInv'
<1> USE DEF AccessInv
<1>1. ASSUME NEW a, NEW first \in {"discover", "fetch"}, Begin(a, first),
             \/ first = "discover" /\ \E p \in Lists : a = ListOf(p)
             \/ first = "fetch" /\ \E u \in Uids : a = DetailOf(u)
      PROVE  /\ AskTypes' /\ StoreInv' /\ DiscoveredInv'
             /\ TargetsInv' /\ AnswerInv'
  <2>1. /\ stage = "idle" /\ stage' = first /\ asks' = a
        /\ seen' = AskedIn(a, table)
        /\ steady' = IdsOf(AskedIn(a, table))
        /\ UNCHANGED <<phase, asked, allowed, table, writes, discovered,
                       targets, answer>>
    BY <1>1 DEF Begin, vars, request
  <2>2. AskTypes'
    BY <1>1, <2>1 DEF AskTypes
  <2>3. AskedIn(a, table) \subseteq Row
    BY DEF StoreInv, IsTable, AskedIn
  <2>4. StoreInv'
    BY <1>1, <2>1, <2>3 DEF StoreInv
  <2>5. DiscoveredInv'
    BY <1>1, <2>1 DEF DiscoveredInv
  <2>6. phase = "idle"
    BY <2>1 DEF TargetsInv
  <2>7. TargetsInv'
    BY <1>1, <2>1, <2>6 DEF TargetsInv
  <2>8. answer = NoAnswer
    BY <2>1 DEF AnswerInv
  <2>9. AnswerInv'
    BY <1>1, <2>1, <2>8 DEF AnswerInv, NoAnswer
  <2> QED
    BY <2>2, <2>4, <2>5, <2>7, <2>9
<1>2. ASSUME NEW status \in {400, 405}, Refuse(status)
      PROVE  /\ AskTypes' /\ StoreInv' /\ DiscoveredInv'
             /\ TargetsInv' /\ AnswerInv'
  <2>1. /\ stage = "idle" /\ stage' = "done"
        /\ answer' = [status |-> status, items |-> {}]
        /\ UNCHANGED <<phase, asked, allowed, asks, discovered, targets>>
        /\ UNCHANGED <<table, writes, seen, steady>>
    BY <1>2 DEF Refuse, Send, vars, request, store
  <2>2. steady = {} /\ phase = "idle" /\ targets = {} /\ asks = NoRequest
    BY <2>1 DEF StoreInv, TargetsInv, AskTypes
  <2>3. AskTypes'
    BY <2>1 DEF AskTypes
  <2>4. asks = NoRequest => AskedIn(asks, table) = {}
    BY Kinds DEF AskedIn, Asked
  <2>5. StoreInv'
    BY <2>1, <2>2, <2>4 DEF StoreInv, AskedIn
  <2>5a. stage' \notin {"rbac", "query"}
    BY <2>1
  <2>6. DiscoveredInv'
    BY <2>1, <2>5a DEF DiscoveredInv
  <2>7. TargetsInv'
    BY <2>1, <2>2, <2>5a DEF TargetsInv
  <2>8. Served'
    BY <2>1, <2>2 DEF Served
  <2>9. answer'.status = status /\ answer'.items = {}
    BY <2>1
  <2>10. AnswerInv'
    BY <2>1, <2>8, <2>9 DEF AnswerInv
  <2> QED
    BY <2>3, <2>5, <2>6, <2>7, <2>10
<1> QED
  BY <1>1, <1>2 DEF resourcesParse, detailParse

\* The first read of the table finds every steady row.
LEMMA DiscoverStep ==
  ASSUME AccessInv, resourcesDiscover \/ detailQuery
  PROVE  AskTypes' /\ StoreInv' /\ DiscoveredInv' /\ TargetsInv' /\ AnswerInv'
<1> USE DEF AccessInv
<1>1. /\ stage \in {"discover", "fetch"}
      /\ stage' \in {"rbac", "done"}
      /\ UNCHANGED <<phase, asked, allowed, asks, targets>>
      /\ UNCHANGED <<table, writes, seen, steady>>
      /\ discovered' \subseteq table
      /\ IdsOf(AskedIn(asks, table)) \subseteq IdsOf(discovered')
      /\ asks.kind = "list" =>
           \A d \in discovered' : DiscoverWhere(asks.params, d)
      /\ asks.kind = "detail" => discovered' = AskedIn(asks, table)
      /\ stage' = "rbac" => discovered' # {} /\ answer' = answer
      /\ stage' = "done" =>
           \/ answer' = [status |-> 500, items |-> {}]
           \/ discovered' = {} /\ \E c \in {200, 404} :
                                    answer' = [status |-> c, items |-> {}]
  <2>1. CASE resourcesDiscover
    <3>1. PICK p \in Lists : asks = ListOf(p)
      BY <2>1 DEF resourcesDiscover, AskTypes
    <3>2. asks.kind = "list"
      BY <3>1, Kinds
    <3>3. discovered' = {r \in table : DiscoverWhere(asks.params, r)}
      BY <2>1 DEF resourcesDiscover
    <3>4. AskedIn(asks, table) \subseteq discovered'
      BY <3>2, <3>3 DEF AskedIn, Asked, Matches
    <3> QED
      BY <2>1, <3>2, <3>3, <3>4
         DEF resourcesDiscover, Send, IdsOf, vars, request, store
  <2>2. CASE detailQuery
    <3>1. PICK u \in Uids : asks = DetailOf(u)
      BY <2>2 DEF detailQuery, AskTypes
    <3>2. asks.kind = "detail"
      BY <3>1, Kinds
    <3>3. discovered' = AskedIn(asks, table)
      BY <2>2, <3>2 DEF detailQuery, GetByGlobalUID, AskedIn, Asked
    <3>4. discovered' \subseteq table /\ IsFiniteSet(discovered')
      BY <3>3, RowAssumption, FS_Subset DEF AskedIn, StoreInv, IsTable
    <3>5. Cardinality(discovered') = 0 <=> discovered' = {}
      BY <3>4, FS_EmptySet
    <3> QED
      BY <2>2, <3>2, <3>3, <3>4, <3>5
         DEF detailQuery, Send, vars, request, store
  <2> QED
    BY <2>1, <2>2
<1>2. steady \subseteq IdsOf(discovered')
  BY <1>1 DEF StoreInv
<1>3. phase = "idle" /\ targets = {}
  BY <1>1 DEF TargetsInv
<1>4. AskTypes'
  BY <1>1, Kinds DEF AskTypes
<1>5. StoreInv'
  BY <1>1 DEF StoreInv, AskedIn
<1>6. DiscoveredInv'
  <2>1. discovered' \subseteq Row
    BY <1>1 DEF StoreInv, IsTable
  <2>2. asks.kind = "detail" => discovered' \subseteq seen
    BY <1>1 DEF StoreInv
  <2>3. asks.kind = "detail" => \A d, e \in discovered' : d = e
    BY <1>1 DEF StoreInv, IsTable, AskedIn, Asked
  <2> QED
    BY <1>1, <1>2, <2>1, <2>2, <2>3 DEF DiscoveredInv, SameObject
<1>7. TargetsInv'
  BY <1>1, <1>3 DEF TargetsInv
<1>8. AnswerInv'
  <2>1. CASE stage' = "rbac"
    BY <1>1, <2>1 DEF AnswerInv, NoAnswer
  <2>2. CASE stage' = "done" /\ answer' = [status |-> 500, items |-> {}]
    BY <1>1, <2>2 DEF AnswerInv
  <2>3. ASSUME NEW c \in {200, 404}, stage' = "done", discovered' = {},
               answer' = [status |-> c, items |-> {}]
        PROVE  AnswerInv'
    <3>1. steady' = {}
      BY <1>1, <1>2, <2>3 DEF IdsOf
    <3>2. Served'
      BY <3>1 DEF Served
    <3> QED
      BY <2>3, <3>2 DEF AnswerInv
  <2> QED
    BY <1>1, <2>1, <2>2, <2>3
<1> QED
  BY <1>4, <1>5, <1>6, <1>7, <1>8

\* FilterAllowed is given a target for each row discovered.
LEMMA AuthorizeStep ==
  ASSUME AccessInv, Authorize
  PROVE  AskTypes' /\ StoreInv' /\ DiscoveredInv' /\ TargetsInv' /\ AnswerInv'
<1> USE DEF AccessInv
<1>1. PICK t \in ListRequests :
        /\ {t[i] : i \in DOMAIN t} = {Target(r) : r \in discovered}
        /\ FilterAllowed(t)
  BY DEF Authorize
<1>2. /\ stage = "rbac"
      /\ UNCHANGED <<stage, asks, discovered, targets, answer>>
      /\ UNCHANGED <<table, writes, seen, steady>>
  BY DEF Authorize, handler, store
<1>3. discovered # {}
  BY <1>2 DEF DiscoveredInv
<1>4. t # << >>
  BY <1>1, <1>3, SMTT(30)
<1>5. /\ phase = "idle" /\ phase' = "filter"
      /\ DOMAIN asked' = DOMAIN t
      /\ \A i \in DOMAIN t : asked'[i] = GetOf(t[i])
  BY <1>1, <1>4 DEF FilterAllowed, buildUserCanTargets, GetOf
<1>6. /\ \A i \in DOMAIN t : \E d \in discovered : t[i] = Target(d)
      /\ \A d \in discovered : \E i \in DOMAIN t : t[i] = Target(d)
  BY <1>1
<1>7. targets = {}
  BY <1>5 DEF TargetsInv
<1>8. TargetsInv'
  BY <1>2, <1>5, <1>6, <1>7 DEF TargetsInv
<1>9. AskTypes' /\ StoreInv' /\ DiscoveredInv'
  BY <1>2 DEF AskTypes, StoreInv, DiscoveredInv, AskedIn
<1>10. AnswerInv'
  BY <1>2 DEF AnswerInv, NoAnswer
<1> QED
  BY <1>8, <1>9, <1>10

\* The authorizer answers yes or no to every row discovered.
LEMMA FilterAnswers ==
  ASSUME AccessInv, stage = "rbac", filterByDecisions, targets' = Kept,
         UNCHANGED discovered
  PROVE  /\ phase' = "filtered"
         /\ \A u \in targets' :
              SaidYes(u)' /\ \E d \in discovered : u = Target(d)
         /\ \A d \in discovered : Target(d) \in targets' \/ SaidNo(Target(d))'
<1> USE DEF AccessInv
<1>1. /\ phase = "filter" /\ phase' = "filtered" /\ asked' = asked
      /\ allowed' = [i \in DOMAIN asked |-> asked[i] \in decisions]
  BY DEF filterByDecisions
<1>2. /\ \A i \in DOMAIN asked :
           \E d \in discovered : asked[i] = GetOf(Target(d))
      /\ \A d \in discovered :
           \E i \in DOMAIN asked : asked[i] = GetOf(Target(d))
  BY <1>1 DEF TargetsInv
<1>3. ASSUME NEW u \in targets'
      PROVE  SaidYes(u)' /\ \E d \in discovered : u = Target(d)
  <2>1. PICK i \in DOMAIN asked :
          /\ allowed'[i]
          /\ u = [GroupResource |-> asked[i].GroupResource,
                  Namespace |-> asked[i].Namespace]
    BY DEF Kept
  <2>2. PICK d \in discovered : asked[i] = GetOf(Target(d))
    BY <1>2
  <2>3. u = Target(d)
    BY <2>1, <2>2, GetOfTarget DEF DiscoveredInv
  <2> QED
    BY <1>1, <2>1, <2>2, <2>3 DEF SaidYes
<1>4. ASSUME NEW d \in discovered
      PROVE  Target(d) \in targets' \/ SaidNo(Target(d))'
  <2>1. PICK i \in DOMAIN asked : asked[i] = GetOf(Target(d))
    BY <1>2
  <2>2. CASE allowed'[i]
    <3>1. [GroupResource |-> asked[i].GroupResource,
           Namespace |-> asked[i].Namespace] = Target(d)
      BY <2>1, GetOfTarget DEF DiscoveredInv
    <3> QED
      BY <2>2, <3>1 DEF Kept
  <2>3. CASE ~allowed'[i]
    BY <1>1, <2>1, <2>3 DEF SaidNo
  <2> QED
    BY <2>2, <2>3
<1> QED
  BY <1>1, <1>3, <1>4

\* A steady row is in the table, has been seen, and its object is among
\* those discovered.
LEMMA SteadyRow ==
  ASSUME AccessInv, stage \in {"rbac", "query"}, NEW i \in steady
  PROVE  \E r \in table, d \in discovered :
           /\ r["id"] = i /\ Asked(asks, r) /\ r \in seen
           /\ d["id"] = i /\ Target(d) = Target(r)
<1> USE DEF AccessInv
<1>1. PICK r \in table : r["id"] = i /\ Asked(asks, r)
  BY DEF StoreInv, IdsOf, AskedIn
<1>2. PICK d \in discovered : d["id"] = i
  BY DEF DiscoveredInv, IdsOf
<1>3. PICK q \in table : SameObject(d, q)
  BY DEF DiscoveredInv
<1>4. q = r
  BY <1>1, <1>2, <1>3 DEF SameObject, StoreInv, IsTable
<1>5. r \in seen
  BY <1>1 DEF StoreInv, AskedIn
<1> QED
  BY <1>1, <1>2, <1>3, <1>4, <1>5 DEF SameObject

\* The authorization ends: a refusal, the row of a detail, or the query.
LEMMA RBACStep ==
  ASSUME AccessInv, resourcesRBAC \/ detailRBAC
  PROVE  AskTypes' /\ StoreInv' /\ DiscoveredInv' /\ TargetsInv' /\ AnswerInv'
<1> USE DEF AccessInv
<1>1. /\ stage = "rbac" /\ filterByDecisions /\ targets' = Kept
      /\ UNCHANGED <<asks, discovered>>
      /\ UNCHANGED <<table, writes, seen, steady>>
  BY DEF resourcesRBAC, detailRBAC, store
<1>2. /\ phase' = "filtered"
      /\ \A u \in targets' : SaidYes(u)' /\ \E d \in discovered : u = Target(d)
      /\ \A d \in discovered : Target(d) \in targets' \/ SaidNo(Target(d))'
  BY <1>1, FilterAnswers
<1>3. \/ /\ asks.kind = "list" /\ targets' # {}
         /\ stage' = "query" /\ answer' = answer
      \/ /\ asks.kind = "detail" /\ targets' # {}
         /\ stage' = "done" /\ answer' = [status |-> 200, items |-> discovered]
      \/ /\ targets' = {} /\ stage' = "done"
         /\ answer' = [status |-> 403, items |-> {}]
      \/ /\ asks.kind = "detail" /\ targets' # {}
         /\ stage' = "done" /\ answer' = [status |-> 500, items |-> {}]
  BY DEF resourcesRBAC, detailRBAC, serializeResponse, Send
<1>4. AskTypes'
  BY <1>1, <1>3, Kinds DEF AskTypes
<1>5. StoreInv'
  BY <1>1, <1>3 DEF StoreInv, AskedIn
<1>6. DiscoveredInv'
  BY <1>1, <1>3 DEF DiscoveredInv
<1>7. TargetsInv'
  BY <1>1, <1>2, <1>3 DEF TargetsInv
<1>8. AnswerInv'
  <2>1. CASE stage' = "query"
    BY <1>1, <1>3, <2>1 DEF AnswerInv, NoAnswer
  <2>2. CASE targets' = {}
    <3>1. /\ stage' = "done" /\ answer'.status = 403 /\ answer'.items = {}
      BY <1>3, <2>2
    <3>2. PICK d \in discovered : TRUE
      BY <1>1 DEF DiscoveredInv
    <3>3. SaidNo(Target(d))'
      BY <1>2, <2>2
    <3>4. \A i \in steady :
            \E r \in seen : r["id"] = i /\ SaidNo(Target(r))'
      BY <1>1, <1>2, <2>2, SteadyRow
    <3>5. Served'
      BY <1>1, <1>2, <3>4 DEF Served
    <3> QED
      BY <1>1, <1>2, <3>1, <3>3, <3>5 DEF AnswerInv
  <2>3. CASE stage' = "done" /\ answer' = [status |-> 500, items |-> {}]
    <3>1. answer'.status = 500 /\ answer'.items = {} /\ stage' = "done"
      BY <2>3
    <3> QED
      BY <3>1 DEF AnswerInv
  <2>4. CASE /\ stage' = "done" /\ targets' # {}
             /\ answer' # [status |-> 500, items |-> {}]
    <3>1. /\ asks.kind = "detail"
          /\ answer'.status = 200 /\ answer'.items = discovered
      BY <1>3, <2>4
    <3>2. PICK u \in Uids : asks = DetailOf(u)
      BY <1>1, <3>1, Kinds DEF AskTypes
    <3>3. discovered \subseteq seen /\ steady \subseteq IdsOf(discovered)
      BY <1>1, <3>1 DEF DiscoveredInv
    <3>4. Served'
      BY <1>1, <3>1, <3>3 DEF Served
    <3>5. \A d \in discovered : Target(d) \in targets'
      <4>1. PICK t \in targets' : TRUE
        BY <2>4
      <4>2. PICK e \in discovered : t = Target(e)
        BY <1>2
      <4>3. \A d \in discovered : d = e
        BY <1>1, <3>1 DEF DiscoveredInv
      <4> QED
        BY <4>2, <4>3
    <3> QED
      BY <1>1, <2>4, <3>1, <3>3, <3>4, <3>5 DEF AnswerInv
  <2> QED
    BY <1>3, <2>1, <2>2, <2>3, <2>4
<1> QED
  BY <1>4, <1>5, <1>6, <1>7, <1>8

\* The query selects rows of the targets that were allowed, and no others.
LEMMA QuerySelection ==
  ASSUME AccessInv, stage = "query", NEW p \in Lists, asks = ListOf(p),
         NEW triples,
         triples = {<<t.GroupResource[1], t.GroupResource[2], t.Namespace>> :
                      t \in targets}
  PROVE  /\ \A r \in table : ListSelects(p, triples, NoCursor, r) =>
              Matches(p, r) /\ Target(r) \in targets
         /\ \A r \in table :
              Matches(p, r) /\ Target(r) \in targets =>
                ListSelects(p, triples, NoCursor, r)
<1> USE DEF AccessInv
<1>1. targets # {} /\ \A t \in targets : \E d \in discovered : t = Target(d)
  BY DEF TargetsInv
<1>2. triples # {}
  BY <1>1
<1>3. asks.kind = "list" /\ asks.params = p
  BY Kinds
<1>4. \A d \in discovered : DiscoverWhere(p, d)
  BY <1>3 DEF DiscoveredInv
<1>5. ASSUME NEW r \in table, ListSelects(p, triples, NoCursor, r)
      PROVE  Matches(p, r) /\ Target(r) \in targets
  <2>1. Filters(p, triples, r)
    BY <1>5, FirstPageSelection
  <2>2. TargetOf(r) \in triples
    BY <1>2, <2>1 DEF Filters
  <2>3. PICK t \in targets :
          TargetOf(r) = <<t.GroupResource[1], t.GroupResource[2], t.Namespace>>
    BY <2>2
  <2>4. PICK d \in discovered : t = Target(d)
    BY <1>1
  <2>5. TargetOf(r) = TargetOf(d)
    BY <2>3, <2>4, TripleOfTarget
  <2>6. /\ Target(r) = Target(d)
        /\ r["resource_group"] = d["resource_group"]
        /\ r["resource_plural"] = d["resource_plural"]
        /\ r["namespace"] = d["namespace"]
    BY <2>5, TargetOfTriple
  <2> QED
    BY <1>4, <2>1, <2>4, <2>6 DEF Filters, Matches, DiscoverWhere
<1>6. ASSUME NEW r \in table, Matches(p, r), Target(r) \in targets
      PROVE  ListSelects(p, triples, NoCursor, r)
  <2>1. TargetOf(r) \in triples
    BY <1>6, TripleOfTarget
  <2>2. Filters(p, triples, r)
    BY <1>6, <2>1 DEF Filters, Matches, DiscoverWhere
  <2> QED
    BY <2>2, FirstPageSelection
<1> QED
  BY <1>5, <1>6

\* A 500 says nothing else.
LEMMA ErrorStep ==
  ASSUME AccessInv, stage \in {"discover", "fetch", "query"}, Send(500, {}),
         UNCHANGED <<vars, asks, discovered, targets, store>>
  PROVE  AskTypes' /\ StoreInv' /\ DiscoveredInv' /\ TargetsInv' /\ AnswerInv'
<1> USE DEF AccessInv
<1>1. /\ stage \in {"discover", "fetch", "query"} /\ stage' = "done"
      /\ answer' = [status |-> 500, items |-> {}]
      /\ UNCHANGED <<phase, asked, allowed, asks, discovered, targets>>
      /\ UNCHANGED <<table, writes, seen, steady>>
  BY DEF Send, vars, request, store
<1>2. AskTypes' /\ StoreInv' /\ DiscoveredInv'
  BY <1>1 DEF AskTypes, StoreInv, DiscoveredInv, AskedIn
<1>3. TargetsInv'
  BY <1>1 DEF TargetsInv, SaidYes, SaidNo
<1>4. answer'.status = 500 /\ answer'.items = {}
  BY <1>1
<1>5. AnswerInv'
  BY <1>1, <1>4 DEF AnswerInv
<1> QED
  BY <1>2, <1>3, <1>5

\* The second read of the table leaves out no steady row but those refused.
LEMMA QueryStep ==
  ASSUME AccessInv, resourcesQuery
  PROVE  AskTypes' /\ StoreInv' /\ DiscoveredInv' /\ TargetsInv' /\ AnswerInv'
<1> USE DEF AccessInv
<1>1. PICK p \in Lists : asks = ListOf(p)
  BY DEF resourcesQuery, AskTypes
<1>2. asks.kind = "list" /\ asks.params = p
  BY <1>1, Kinds
<1>3. PICK triples :
        triples = {<<t.GroupResource[1], t.GroupResource[2], t.Namespace>> :
                     t \in targets}
  OBVIOUS
<1> SUFFICES ASSUME ~Send(500, {})
             PROVE  AskTypes' /\ StoreInv' /\ DiscoveredInv' /\ TargetsInv'
                    /\ AnswerInv'
  BY ErrorStep DEF resourcesQuery
<1>4. PICK items \in LimitedTo({r \in table :
                                 ListSelects(p, triples, NoCursor, r)},
                              p.Limit, SortByOf(p), SortOrderOf(p)) :
        Send(200, items)
  BY <1>2, <1>3 DEF resourcesQuery, serializeResponse
<1>5. /\ stage = "query" /\ stage' = "done"
      /\ answer' = [status |-> 200, items |-> items]
      /\ UNCHANGED <<phase, asked, allowed, asks, discovered, targets>>
      /\ UNCHANGED <<table, writes, seen, steady>>
  BY <1>4 DEF resourcesQuery, Send, vars, request, store
<1>6. /\ items \subseteq {r \in table : ListSelects(p, triples, NoCursor, r)}
      /\ \/ items = {r \in table : ListSelects(p, triples, NoCursor, r)}
         \/ Cardinality(items) = p.Limit
  BY DEF LimitedTo
<1>7. /\ \A r \in table : ListSelects(p, triples, NoCursor, r) =>
           Matches(p, r) /\ Target(r) \in targets
      /\ \A r \in table :
           Matches(p, r) /\ Target(r) \in targets =>
             ListSelects(p, triples, NoCursor, r)
  BY <1>1, <1>3, <1>5, QuerySelection
<1>8. answer'.status = 200 /\ answer'.items = items
  BY <1>5
<1>9. phase = "filtered"
  BY <1>5 DEF TargetsInv
<1>10. AskTypes' /\ StoreInv' /\ DiscoveredInv'
  BY <1>5 DEF AskTypes, StoreInv, DiscoveredInv, AskedIn
<1>11. TargetsInv'
  BY <1>5, <1>9 DEF TargetsInv, SaidYes, SaidNo
<1>12. Served'
  <2>1. CASE Cardinality(items) = p.Limit
    <3>1. PageIsFull'
      BY <1>2, <1>5, <1>8, <2>1 DEF PageIsFull
    <3> QED
      BY <3>1 DEF Served
  <2>2. ASSUME items = {r \in table : ListSelects(p, triples, NoCursor, r)},
               NEW i \in steady
        PROVE  \/ i \in IdsOf(items)
               \/ \E r \in seen : r["id"] = i /\ SaidNo(Target(r))
    <3>1. PICK r \in table, d \in discovered :
            /\ r["id"] = i /\ Asked(asks, r) /\ r \in seen
            /\ d["id"] = i /\ Target(d) = Target(r)
      BY <1>5, SteadyRow
    <3>2. Matches(p, r)
      BY <1>2, <3>1 DEF Asked
    <3>3. CASE Target(r) \in targets
      BY <1>7, <2>2, <3>1, <3>2, <3>3 DEF IdsOf
    <3>4. CASE SaidNo(Target(r))
      BY <3>1, <3>4
    <3> QED
      BY <1>9, <3>1, <3>3, <3>4 DEF TargetsInv
  <2>3. \A t : SaidNo(t)' <=> SaidNo(t)
    BY <1>5 DEF SaidNo
  <2>4. CASE items = {r \in table : ListSelects(p, triples, NoCursor, r)}
    BY <1>5, <1>8, <1>9, <2>2, <2>3, <2>4 DEF Served
  <2> QED
    BY <1>6, <2>1, <2>4
<1>13. AnswerInv'
  <2>1. items \subseteq seen
    BY <1>2, <1>5, <1>6, <1>7 DEF StoreInv, AskedIn, Asked
  <2> QED
    BY <1>5, <1>6, <1>7, <1>8, <1>12, <2>1 DEF AnswerInv
<1> QED
  BY <1>10, <1>11, <1>13

\* Every step keeps the invariant.
LEMMA AccessStep == AccessInv /\ [AccessNext]_accessVars => AccessInv'
<1> SUFFICES ASSUME AccessInv, [AccessNext]_accessVars PROVE AccessInv'
  OBVIOUS
<1>1. AuthInv'
  BY StepOfAuthorizer, AuthStep DEF AccessInv
<1>2. CASE UNCHANGED accessVars
  <2>1. /\ UNCHANGED <<phase, asked, allowed>>
        /\ UNCHANGED <<stage, asks, discovered, targets, answer>>
        /\ UNCHANGED <<table, writes, seen, steady>>
    BY <1>2 DEF accessVars, vars, request, handler, store
  <2>2. AskTypes' /\ StoreInv' /\ DiscoveredInv'
    BY <2>1 DEF AccessInv, AskTypes, StoreInv, DiscoveredInv, AskedIn
  <2>3. TargetsInv'
    BY <2>1 DEF AccessInv, TargetsInv, SaidYes, SaidNo
  <2>4. Served' <=> Served
    BY <2>1 DEF Served, PageIsFull, SaidNo
  <2>5. AnswerInv'
    BY <2>1, <2>4 DEF AccessInv, AnswerInv, SaidNo, NoAnswer
  <2> QED
    BY <1>1, <2>2, <2>3, <2>5 DEF AccessInv
<1>3. CASE AccessNext
  <2>1. \/ Ingest \/ AuthorizerSteps
        \/ \/ \E p \in Lists : resourcesParse(p)
           \/ \E u \in Uids : detailParse(u)
           \/ \E status \in {400, 405} : Refuse(status)
        \/ resourcesDiscover \/ detailQuery
        \/ Authorize
        \/ resourcesRBAC \/ detailRBAC
        \/ resourcesQuery \/ Fail
        \/ UNCHANGED accessVars
    BY <1>3 DEF AccessNext, Finished
  <2>2. CASE AskTypes' /\ StoreInv' /\ DiscoveredInv' /\ TargetsInv'
             /\ AnswerInv'
    BY <1>1, <2>2 DEF AccessInv
  <2> QED
    BY <1>2, <2>1, <2>2, WriteStep, AuthorizerStep, BeginStepOfHandler,
       DiscoverStep, AuthorizeStep, RBACStep, QueryStep, ErrorStep DEF Fail
<1> QED
  BY <1>2, <1>3

\* The inductive invariant holds of every state a request can reach.
LEMMA AccessInvariant == AccessSpec => []AccessInv
  BY AccessStarts, AccessStep, PTL DEF AccessSpec

-----------------------------------------------------------------------------

(***************************************************************************)
(* The variables of a request stay in their types, and the writes of the   *)
(* ingester keep id and global_uid unique.                                 *)
(***************************************************************************)
THEOREM AccessTypes == AccessSpec => []AccessTypeOK
<1>1. AccessInv /\ TypeOK => AccessTypeOK
  <2> SUFFICES ASSUME AccessInv, TypeOK PROVE AccessTypeOK
    OBVIOUS
  <2>1. discovered \subseteq Row /\ seen \subseteq Row /\ table \subseteq Row
    BY DEF AccessInv, DiscoveredInv, StoreInv, IsTable
  <2>2. targets \subseteq ResourceTarget
    BY <2>1, TargetsAssumption DEF AccessInv, TargetsInv
  <2>3. answer.items \subseteq Row
    BY <2>1 DEF AccessInv, AnswerInv
  <2>4. steady \subseteq Id
    BY <2>1 DEF AccessInv, StoreInv, IdsOf, AskedIn, Id
  <2> QED
    BY <2>1, <2>2, <2>3, <2>4
       DEF AccessTypeOK, AccessInv, AskTypes, StoreInv, AnswerInv
<1> QED
  BY <1>1, AccessInvariant, RequestsUseTheAuthorizer, AuthorizerTypes, PTL

(***************************************************************************)
(* No row is sent whose target the cluster had not permitted lately,       *)
(* whatever is written and granted between the reads and the checks.       *)
(***************************************************************************)
THEOREM DeliveriesWerePermitted == AccessSpec => []DeliveredWasPermitted
<1>1. AccessInv => DeliveredWasPermitted
  <2> SUFFICES ASSUME AccessInv, NEW r \in answer.items
               PROVE  lastPermitted[GetOf(Target(r))] > began - TTL
    BY DEF DeliveredWasPermitted
  <2>1. Target(r) \in targets /\ answer # NoAnswer
    BY DEF AccessInv, AnswerInv, NoAnswer
  <2>2. SaidYes(Target(r))
    BY <2>1 DEF AccessInv, TargetsInv
  <2>3. phase = "filtered"
    BY <2>1 DEF AccessInv, TargetsInv
  <2> QED
    BY <2>2, <2>3, AnswersAreRecent DEF AccessInv
<1> QED
  BY <1>1, AccessInvariant, PTL

(***************************************************************************)
(* A row that is sent was in the table, undeleted and as asked for, while  *)
(* the request ran.                                                        *)
(***************************************************************************)
THEOREM DeliveriesWereThere == AccessSpec => []DeliveredWasThere
<1>1. AccessInv => DeliveredWasThere
  BY DEF AccessInv, AnswerInv, DeliveredWasThere
<1> QED
  BY <1>1, AccessInvariant, PTL

(***************************************************************************)
(* A row that was there throughout the request is sent, or its target was  *)
(* refused lately, or the page is full, or the database failed.            *)
(***************************************************************************)
THEOREM ServedUnlessRefused == AccessSpec => []ServedIfPermitted
<1>1. AccessInv => ServedIfPermitted
  <2> SUFFICES ASSUME AccessInv, stage = "done", answer.status # 500,
                      NEW i \in steady
               PROVE  \/ i \in IdsOf(answer.items)
                      \/ PageIsFull
                      \/ \E r \in seen : r["id"] = i /\ DeniedLately(r)
    BY DEF ServedIfPermitted
  <2>1. \/ i \in IdsOf(answer.items)
        \/ PageIsFull
        \/ /\ phase = "filtered"
           /\ \E r \in seen : r["id"] = i /\ SaidNo(Target(r))
    BY DEF AccessInv, AnswerInv, Served
  <2>2. ASSUME phase = "filtered", NEW r \in seen, SaidNo(Target(r))
        PROVE  DeniedLately(r)
    BY <2>2, AnswersAreRecent DEF AccessInv, DeniedLately
  <2> QED
    BY <2>1, <2>2
<1> QED
  BY <1>1, AccessInvariant, PTL

(***************************************************************************)
(* A 403 is never sent without a target that was read and then refused.    *)
(***************************************************************************)
THEOREM ForbiddenOnlyIfRefused == AccessSpec => []ForbiddenWasRefused
<1>1. AccessInv => ForbiddenWasRefused
  <2> SUFFICES ASSUME AccessInv, answer.status = 403
               PROVE  \E r \in seen \union discovered : DeniedLately(r)
    BY DEF ForbiddenWasRefused
  <2>1. phase = "filtered" /\ \E d \in discovered : SaidNo(Target(d))
    BY DEF AccessInv, AnswerInv
  <2> QED
    BY <2>1, AnswersAreRecent DEF AccessInv, DeniedLately
<1> QED
  BY <1>1, AccessInvariant, PTL

=============================================================================
