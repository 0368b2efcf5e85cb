-------------------------- MODULE AuthorizerProofs --------------------------
(***************************************************************************)
(* The answers of RbacAuthorizer, for every set of verbs, resources and    *)
(* namespaces, every TTL and every list of checks.                         *)
(***************************************************************************)
EXTENDS Authorizer, TLAPS

\* The history variables: they lag behind the clock, follow the grants, and
\* a cluster-wide permission is a permission in each namespace.
HistoryInv ==
  /\ now \in Nat
  /\ grants \subseteq UserCanTarget
  /\ changes \in 0..MaxChanges
  /\ lastPermitted \in [UserCanTarget -> Int]
  /\ lastRefused \in [UserCanTarget -> Int]
  /\ \A t \in UserCanTarget :
       /\ lastPermitted[t] <= now
       /\ lastRefused[t] <= now
       /\ Permitted(t) => lastPermitted[t] = now
       /\ ~Permitted(t) => lastRefused[t] = now
       /\ lastPermitted[ClusterWide(t)] <= lastPermitted[t]

\* A cached decision was right when it was made.
CacheInv ==
  /\ cache \subseteq Entry
  /\ \A e \in cache :
       /\ e.at <= now
       /\ e.yes => lastPermitted[e.target] >= e.at
       /\ ~e.yes => lastRefused[e.target] >= e.at

\* What a decision of the running request may rest on.
PermittedLately(t) == lastPermitted[t] > began - TTL
RefusedLately(t) == lastRefused[t] > began - TTL

\* The targets of the running UserCan.
Wanted ==
  CASE phase = "clusterWide" -> ClusterWideTargets(asked)
    [] phase = "pending" -> {asked[i] : i \in PendingChecks(allowed)}
    [] phase = "filter" -> {asked[i] : i \in DOMAIN asked}
    [] OTHER -> {}

RequestTypes ==
  /\ phase \in {"idle", "clusterWide", "pending", "filter", "answered",
                "filtered"}
  /\ asked \in Seq(UserCanTarget)
  /\ batch \subseteq UserCanTarget
  /\ decisions \subseteq UserCanTarget
  /\ allowed \in Seq(BOOLEAN)
  /\ began \in 0..now
  /\ phase # "filter" => DOMAIN allowed = DOMAIN asked

DecisionsInv ==
  /\ \A t \in decisions : PermittedLately(t)
  /\ \A t \in Wanted : t \in batch \/ t \in decisions \/ RefusedLately(t)

AnswersInv ==
  phase \in {"pending", "answered", "filtered"} =>
    \A i \in DOMAIN asked :
      /\ allowed[i] => PermittedLately(asked[i])
      /\ ~allowed[i] => \/ phase = "pending" /\ i \in PendingChecks(allowed)
                        \/ RefusedLately(asked[i])

CoverInv ==
  phase \in {"pending", "answered"} =>
    \A i, j \in DOMAIN asked :
      allowed[i] /\ asked[i] = ClusterWide(asked[j]) => allowed[j]

AuthInv ==
  /\ HistoryInv
  /\ CacheInv
  /\ RequestTypes
  /\ DecisionsInv
  /\ AnswersInv
  /\ CoverInv

-----------------------------------------------------------------------------

\* The cluster-wide form of a check is a check in the empty namespace.
LEMMA ClusterWideIsTarget ==
  ASSUME NEW c \in UserCanTarget
  PROVE  /\ ClusterWide(c) \in UserCanTarget
         /\ ClusterWide(ClusterWide(c)) = ClusterWide(c)
         /\ ClusterWide(c).Namespace = AllNamespaces
         /\ c.Namespace = AllNamespaces => ClusterWide(c) = c
  BY DEF ClusterWide, UserCanTarget

\* Time never takes back what the history variables say.
HistoryGrows ==
  \A t \in UserCanTarget : /\ lastPermitted'[t] >= lastPermitted[t]
                           /\ lastRefused'[t] >= lastRefused[t]

\* Recording the grants g at a time not before now keeps the history right.
LEMMA RecordStep ==
  ASSUME HistoryInv, NEW g \in SUBSET UserCanTarget, grants' = g,
         now' \in Nat, now' >= now, changes' \in 0..MaxChanges,
         lastPermitted' = Recorded(g, now', lastPermitted),
         lastRefused' = RecordedRefusal(g, now', lastRefused)
  PROVE  HistoryInv' /\ HistoryGrows
<1> USE DEF HistoryInv
<1>1. \A t \in UserCanTarget : Permitted(t)' <=> PermittedBy(g, t)
  BY DEF Permitted
<1>2. /\ lastPermitted' \in [UserCanTarget -> Int]
      /\ lastRefused' \in [UserCanTarget -> Int]
  BY DEF Recorded, RecordedRefusal
<1>3. ASSUME NEW t \in UserCanTarget
      PROVE  /\ lastPermitted'[t] = IF PermittedBy(g, t) THEN now'
                                                       ELSE lastPermitted[t]
             /\ lastRefused'[t] = IF PermittedBy(g, t) THEN lastRefused[t]
                                                     ELSE now'
  BY DEF Recorded, RecordedRefusal
<1>4. HistoryGrows
  BY <1>3 DEF HistoryGrows
<1>5. ASSUME NEW t \in UserCanTarget
      PROVE  lastPermitted'[ClusterWide(t)] <= lastPermitted'[t]
  <2>1. PermittedBy(g, ClusterWide(t)) => PermittedBy(g, t)
    BY ClusterWideIsTarget DEF PermittedBy
  <2>2. /\ ClusterWide(t) \in UserCanTarget
        /\ lastPermitted[ClusterWide(t)] <= lastPermitted[t]
        /\ lastPermitted[ClusterWide(t)] <= now
    BY ClusterWideIsTarget
  <2> QED
    BY <1>3, <2>1, <2>2
<1> QED
  BY <1>1, <1>2, <1>3, <1>4, <1>5

\* The moments of the last permission and refusal follow the grants.
LEMMA HistoryStep ==
  ASSUME AuthInv, [Next]_vars
  PROVE  HistoryInv' /\ HistoryGrows
<1> USE DEF AuthInv
<1>1. CASE Tick
  BY <1>1, RecordStep, ClockAssumption DEF Tick, HistoryInv
<1>2. CASE \E t \in UserCanTarget : Grant(t) \/ Revoke(t)
  <2>1. PICK g \in SUBSET UserCanTarget : Regrant(g)
    BY <1>2 DEF Grant, Revoke, HistoryInv
  <2>2. now' = now /\ changes' \in 0..MaxChanges
    BY <2>1, ClockAssumption DEF Regrant, HistoryInv
  <2> QED
    BY <2>1, <2>2, RecordStep DEF Regrant, HistoryInv
<1>3. CASE \E t \in UserCanTarget : ReviewFails(t)
  <2>1. PICK t \in UserCanTarget : ReviewFails(t)
    BY <1>3
  <2>2. /\ lastRefused' = [lastRefused EXCEPT ![t] = now]
        /\ UNCHANGED <<now, grants, changes, lastPermitted>>
    BY <2>1 DEF ReviewFails
  <2> QED
    BY <2>2 DEF HistoryInv, HistoryGrows, Permitted
<1>4. CASE UNCHANGED world
  BY <1>4 DEF world, HistoryInv, HistoryGrows, Permitted
<1>5. \/ Cluster
      \/ \E t \in UserCanTarget : ReviewFails(t)
      \/ UNCHANGED world
  BY DEF Next, UserCan, FromCache, Review, OthersOfUser, OtherRequest, Evict,
         CanI, CanIClusterWide, CanIPending, FilterAllowed, filterByDecisions,
         Return, vars
<1> QED
  BY <1>1, <1>2, <1>3, <1>4, <1>5 DEF Cluster

\* Every cached decision is backed by the cluster at the time it was made.
LEMMA CacheStep ==
  ASSUME AuthInv, [Next]_vars
  PROVE  CacheInv'
<1> USE DEF AuthInv
<1>1. HistoryInv' /\ HistoryGrows
  BY HistoryStep
<1>2. now' \in Nat /\ now' >= now
  <2>1. now' = now \/ Tick
    BY DEF Next, Cluster, Grant, Revoke, Regrant, UserCan, FromCache, Review,
           ReviewFails, OthersOfUser, OtherRequest, Evict, CanI,
           CanIClusterWide, CanIPending, FilterAllowed, filterByDecisions,
           Return, vars, world
  <2> QED
    BY <2>1 DEF Tick, HistoryInv
<1>3. CASE cache' \subseteq cache
  <2>1. ASSUME NEW e \in cache'
        PROVE  /\ e \in Entry
               /\ e.at <= now'
               /\ e.yes => lastPermitted'[e.target] >= e.at
               /\ ~e.yes => lastRefused'[e.target] >= e.at
    <3>1. e \in cache /\ e \in Entry /\ e.target \in UserCanTarget /\ e.at \in Nat
      BY <1>3, <2>1 DEF CacheInv, Entry
    <3>2. /\ lastPermitted[e.target] \in Int /\ lastPermitted'[e.target] \in Int
          /\ lastRefused[e.target] \in Int /\ lastRefused'[e.target] \in Int
      BY <1>1, <3>1 DEF HistoryInv
    <3>3. /\ lastPermitted'[e.target] >= lastPermitted[e.target]
          /\ lastRefused'[e.target] >= lastRefused[e.target]
      BY <1>1, <3>1 DEF HistoryGrows
    <3>4. /\ e.at <= now
          /\ e.yes => lastPermitted[e.target] >= e.at
          /\ ~e.yes => lastRefused[e.target] >= e.at
      BY <3>1 DEF CacheInv
    <3> QED
      BY <1>2, <3>1, <3>2, <3>3, <3>4 DEF HistoryInv
  <2> QED
    BY <2>1 DEF CacheInv
<1>4. ASSUME NEW t \in UserCanTarget, NEW yes \in BOOLEAN,
             cache' = Cached(t, yes), now' = now,
             yes => lastPermitted'[t] = now,
             ~yes => lastRefused'[t] = now
      PROVE  CacheInv'
  <2> DEFINE new == [target |-> t, yes |-> yes, at |-> now]
  <2>1. new \in Entry
    BY DEF Entry, HistoryInv
  <2>2. \A e \in cache' : e \in cache \/ e = new
    BY <1>4 DEF Cached
  <2>3. ASSUME NEW e \in cache
        PROVE  /\ e \in Entry
               /\ e.at <= now'
               /\ e.yes => lastPermitted'[e.target] >= e.at
               /\ ~e.yes => lastRefused'[e.target] >= e.at
    <3>1. e \in Entry /\ e.target \in UserCanTarget /\ e.at \in Nat
      BY DEF CacheInv, Entry
    <3>2. /\ lastPermitted[e.target] \in Int /\ lastPermitted'[e.target] \in Int
          /\ lastRefused[e.target] \in Int /\ lastRefused'[e.target] \in Int
      BY <1>1, <3>1 DEF HistoryInv
    <3>3. /\ lastPermitted'[e.target] >= lastPermitted[e.target]
          /\ lastRefused'[e.target] >= lastRefused[e.target]
      BY <1>1, <3>1 DEF HistoryGrows
    <3> QED
      BY <1>4, <3>1, <3>2, <3>3 DEF CacheInv
  <2>4. /\ new.at <= now'
        /\ new.yes => lastPermitted'[new.target] >= new.at
        /\ ~new.yes => lastRefused'[new.target] >= new.at
    BY <1>4 DEF HistoryInv
  <2> QED
    BY <2>1, <2>2, <2>3, <2>4 DEF CacheInv
<1>5. CASE \E t \in UserCanTarget : Review(t) \/ OtherRequest(t)
  <2>1. PICK t \in UserCanTarget : Review(t) \/ OtherRequest(t)
    BY <1>5
  <2>2. /\ cache' = Cached(t, Permitted(t))
        /\ now' = now /\ UNCHANGED <<lastPermitted, lastRefused>>
    BY <2>1 DEF Review, OtherRequest, world
  <2>3. CASE Permitted(t)
    BY <1>4, <2>2, <2>3 DEF HistoryInv
  <2>4. CASE ~Permitted(t)
    <3>1. cache' = Cached(t, FALSE)
      BY <2>2, <2>4 DEF Permitted, PermittedBy
    <3> QED
      BY <1>4, <2>2, <2>4, <3>1 DEF HistoryInv
  <2> QED
    BY <2>3, <2>4
<1>6. CASE \E t \in UserCanTarget : ReviewFails(t)
  <2>1. PICK t \in UserCanTarget : ReviewFails(t)
    BY <1>6
  <2>2. /\ now' = now /\ lastRefused'[t] = now
        /\ cache' = cache \/ cache' = Cached(t, FALSE)
    BY <2>1 DEF ReviewFails, HistoryInv
  <2> QED
    BY <1>3, <1>4, <2>2
<1>7. \/ cache' \subseteq cache
      \/ \E t \in UserCanTarget : Review(t) \/ OtherRequest(t)
      \/ \E t \in UserCanTarget : ReviewFails(t)
  BY DEF Next, Cluster, Tick, Grant, Revoke, Regrant, UserCan, FromCache,
         OthersOfUser, Evict, CanI, CanIClusterWide, CanIPending,
         FilterAllowed, filterByDecisions, Return, vars
<1> QED
  BY <1>3, <1>5, <1>6, <1>7

-----------------------------------------------------------------------------
(* The request.                                                            *)

RequestInv == RequestTypes /\ DecisionsInv /\ AnswersInv /\ CoverInv

\* What was so lately remains so while the request runs.
LEMMA LatelyStays ==
  ASSUME HistoryInv, HistoryInv', HistoryGrows, began \in Int, began' = began,
         NEW t \in UserCanTarget
  PROVE  /\ PermittedLately(t) => PermittedLately(t)'
         /\ RefusedLately(t) => RefusedLately(t)'
<1>1. /\ lastPermitted[t] \in Int /\ lastPermitted'[t] \in Int
      /\ lastRefused[t] \in Int /\ lastRefused'[t] \in Int
  BY DEF HistoryInv
<1>2. /\ lastPermitted'[t] >= lastPermitted[t]
      /\ lastRefused'[t] >= lastRefused[t]
  BY DEF HistoryGrows
<1> QED
  BY <1>1, <1>2, TTLAssumption DEF PermittedLately, RefusedLately

\* What UserCan is given for a request are targets.
LEMMA TargetsOfRequest ==
  ASSUME RequestTypes
  PROVE  /\ \A i \in DOMAIN asked : asked[i] \in UserCanTarget
         /\ \A t \in Wanted : t \in UserCanTarget
<1>1. \A i \in DOMAIN asked : asked[i] \in UserCanTarget
  BY DEF RequestTypes
<1> QED
  BY <1>1, ClusterWideIsTarget
     DEF Wanted, ClusterWideTargets, PendingChecks

\* A step that leaves the request alone keeps what is known of it.
LEMMA RequestKept ==
  ASSUME AuthInv, HistoryInv', HistoryGrows, now' >= now, UNCHANGED request
  PROVE  RequestInv'
<1> USE DEF AuthInv
<1>1. began \in Int /\ began' = began
  BY DEF RequestTypes, request, HistoryInv
<1>2. \A t \in UserCanTarget : /\ PermittedLately(t) => PermittedLately(t)'
                               /\ RefusedLately(t) => RefusedLately(t)'
  BY <1>1, LatelyStays
<1>0. /\ \A i \in DOMAIN asked : asked[i] \in UserCanTarget
      /\ \A u \in Wanted : u \in UserCanTarget
      /\ \A u \in decisions : u \in UserCanTarget
  BY TargetsOfRequest DEF RequestTypes
<1>3. RequestTypes'
  BY DEF RequestTypes, request, HistoryInv
<1>4. Wanted' = Wanted
  BY DEF Wanted, ClusterWideTargets, PendingChecks, request
<1>5. DecisionsInv'
  BY <1>2, <1>4, <1>0
     DEF DecisionsInv, RequestTypes, request, PermittedLately, RefusedLately
<1>6. AnswersInv'
  <2>1. PendingChecks(allowed)' = PendingChecks(allowed)
    BY DEF PendingChecks, request
  <2> QED
    BY <1>2, <2>1, <1>0
       DEF AnswersInv, request, PermittedLately, RefusedLately
<1>7. CoverInv'
  BY DEF CoverInv, request
<1> QED
  BY <1>3, <1>5, <1>6, <1>7 DEF RequestInv

\* One decision of UserCan.
LEMMA DecideStep ==
  ASSUME AuthInv, HistoryInv', HistoryGrows, now' = now,
         NEW t \in UserCanTarget, NEW yes \in BOOLEAN, Decide(t, yes),
         yes => PermittedLately(t)', ~yes => RefusedLately(t)'
  PROVE  RequestInv'
<1> USE DEF AuthInv
<1>1. /\ UNCHANGED <<phase, asked, allowed, began>>
      /\ batch' = batch \ {t}
      /\ decisions' = IF yes THEN decisions \union {t} ELSE decisions
  BY DEF Decide
<1>2. \A u \in UserCanTarget : /\ PermittedLately(u) => PermittedLately(u)'
                               /\ RefusedLately(u) => RefusedLately(u)'
  <2>1. HistoryInv /\ began \in Int /\ began' = began
    BY <1>1 DEF RequestTypes, HistoryInv
  <2> QED
    BY <2>1, LatelyStays
<1>0. /\ \A i \in DOMAIN asked : asked[i] \in UserCanTarget
      /\ \A u \in Wanted : u \in UserCanTarget
      /\ \A u \in decisions : u \in UserCanTarget
  BY TargetsOfRequest DEF RequestTypes
<1>3. RequestTypes'
  BY <1>1 DEF RequestTypes
<1>4. Wanted' = Wanted
  BY <1>1 DEF Wanted, ClusterWideTargets, PendingChecks
<1>5. \A u \in decisions' : PermittedLately(u)'
  BY <1>1, <1>2, <1>0 DEF DecisionsInv, PermittedLately, RefusedLately
<1>6. \A u \in Wanted' : u \in batch' \/ u \in decisions' \/ RefusedLately(u)'
  BY <1>1, <1>2, <1>4, <1>0
     DEF DecisionsInv, PermittedLately, RefusedLately
<1>7. AnswersInv'
  <2>1. PendingChecks(allowed)' = PendingChecks(allowed)
    BY <1>1 DEF PendingChecks
  <2> QED
    BY <1>1, <1>2, <2>1, <1>0
       DEF AnswersInv, PermittedLately, RefusedLately
<1>8. CoverInv'
  BY <1>1 DEF CoverInv
<1> QED
  BY <1>3, <1>5, <1>6, <1>7, <1>8 DEF RequestInv, DecisionsInv

\* Decisions from the cache are at most a TTL old, the others are of now.
LEMMA UserCanStep ==
  ASSUME AuthInv, HistoryInv', HistoryGrows, UserCan
  PROVE  RequestInv'
<1> USE DEF AuthInv
<1>1. PICK t \in UserCanTarget : FromCache(t) \/ Review(t) \/ ReviewFails(t)
  BY DEF UserCan
<1>2. began \in Int /\ now \in Int /\ began <= now
  BY DEF RequestTypes, HistoryInv
<1>3. CASE FromCache(t)
  <2>1. PICK e \in Fresh(t) : Decide(t, e.yes)
    BY <1>3 DEF FromCache
  <2>2. UNCHANGED world /\ began' = began
    BY <1>3, <2>1 DEF FromCache, Decide
  <2>3. /\ e \in cache /\ e.target = t /\ now - e.at < TTL
        /\ e.yes \in BOOLEAN /\ e.at \in Nat
    BY <2>1 DEF Fresh, CacheInv, Entry
  <2>4. lastPermitted[t] \in Int /\ lastRefused[t] \in Int
    BY DEF HistoryInv
  <2>5. /\ e.yes => lastPermitted[t] >= e.at
        /\ ~e.yes => lastRefused[t] >= e.at
    BY <2>3 DEF CacheInv
  <2>6. /\ e.yes => lastPermitted[t] > began - TTL
        /\ ~e.yes => lastRefused[t] > began - TTL
    BY <1>2, <2>3, <2>4, <2>5, TTLAssumption
  <2>7. /\ e.yes => PermittedLately(t)'
        /\ ~e.yes => RefusedLately(t)'
    BY <2>2, <2>6 DEF PermittedLately, RefusedLately, world
  <2>8. now' = now
    BY <2>2 DEF world
  <2> QED
    BY <2>1, <2>3, <2>7, <2>8, DecideStep
<1>4. CASE Review(t)
  <2>1. Decide(t, Permitted(t)) /\ UNCHANGED world /\ began' = began
    BY <1>4 DEF Review, Decide
  <2>2. CASE Permitted(t)
    <3>1. Decide(t, TRUE)
      BY <2>1, <2>2 DEF Decide
    <3>2. PermittedLately(t)'
      BY <1>2, <2>1, <2>2, TTLAssumption
         DEF PermittedLately, world, HistoryInv
    <3>3. now' = now
      BY <2>1 DEF world
    <3> QED
      BY <3>1, <3>2, <3>3, DecideStep
  <2>3. CASE ~Permitted(t)
    <3>1. Decide(t, FALSE)
      BY <2>1, <2>3 DEF Decide
    <3>2. RefusedLately(t)'
      BY <1>2, <2>1, <2>3, TTLAssumption
         DEF RefusedLately, world, HistoryInv
    <3>3. now' = now
      BY <2>1 DEF world
    <3> QED
      BY <3>1, <3>2, <3>3, DecideStep
  <2> QED
    BY <2>2, <2>3
<1>5. CASE ReviewFails(t)
  <2>1. /\ Decide(t, FALSE) /\ now' = now /\ began' = began
        /\ lastRefused'[t] = now
    BY <1>5 DEF ReviewFails, Decide, HistoryInv
  <2>2. RefusedLately(t)'
    BY <1>2, <2>1, TTLAssumption DEF RefusedLately
  <2> QED
    BY <2>1, <2>2, DecideStep
<1> QED
  BY <1>1, <1>3, <1>4, <1>5

\* A request begins: nothing is decided, every wanted target is in the batch.
LEMMA BeginStep ==
  ASSUME AuthInv,
         \/ \E c \in CanIRequests : CanI(c)
         \/ \E t \in ListRequests : FilterAllowed(t)
         \/ Return
  PROVE  RequestInv'
<1> USE DEF AuthInv
<1>1. UNCHANGED world /\ now \in Nat
  BY DEF CanI, FilterAllowed, Return, HistoryInv
<1>2. CASE \E c \in CanIRequests : CanI(c)
  <2>1. PICK c \in CanIRequests : CanI(c)
    BY <1>2
  <2>2. /\ c \in Seq(UserCanTarget)
        /\ asked' = c /\ decisions' = {} /\ began' = now
        /\ batch' = ClusterWideTargets(c)
        /\ allowed' = [i \in DOMAIN c |-> FALSE]
        /\ phase' = IF c = << >> THEN "answered" ELSE "clusterWide"
    BY <2>1, CanIAssumption DEF CanI
  <2>3. /\ \A i \in DOMAIN c : c[i] \in UserCanTarget
        /\ DOMAIN c = 1..Len(c) /\ Len(c) \in Nat
    BY <2>2
  <2>4. batch' \subseteq UserCanTarget
    BY <2>2, <2>3, ClusterWideIsTarget DEF ClusterWideTargets
  <2>5. allowed' \in Seq(BOOLEAN) /\ DOMAIN allowed' = DOMAIN c
    BY <2>2, <2>3
  <2>6. RequestTypes'
    BY <1>1, <2>2, <2>4, <2>5 DEF RequestTypes, world
  <2>7. DecisionsInv'
    BY <2>2 DEF DecisionsInv, Wanted
  <2>8. AnswersInv' /\ CoverInv'
    BY <2>2 DEF AnswersInv, CoverInv
  <2> QED
    BY <2>6, <2>7, <2>8 DEF RequestInv
<1>3. CASE \E t \in ListRequests : FilterAllowed(t)
  <2>1. PICK l \in ListRequests : FilterAllowed(l)
    BY <1>3
  <2>2. /\ l \in Seq(ResourceTarget)
        /\ asked' = buildUserCanTargets(l) /\ decisions' = {}
        /\ batch' = {asked'[i] : i \in DOMAIN asked'}
        /\ allowed' = << >> /\ began' = now
        /\ phase' = IF l = << >> THEN "filtered" ELSE "filter"
    BY <2>1, ListAssumption DEF FilterAllowed
  <2>3. /\ \A i \in DOMAIN l : l[i] \in ResourceTarget
        /\ DOMAIN l = 1..Len(l) /\ Len(l) \in Nat
    BY <2>2
  <2>4. \A i \in DOMAIN l :
          [Verb |-> "get", GroupResource |-> l[i].GroupResource,
           Namespace |-> l[i].Namespace] \in UserCanTarget
    BY <2>3, VerbAssumption DEF ResourceTarget, UserCanTarget
  <2>5. asked' \in Seq(UserCanTarget) /\ DOMAIN asked' = DOMAIN l
    BY <2>2, <2>3, <2>4 DEF buildUserCanTargets
  <2>6. batch' \subseteq UserCanTarget
    BY <2>2, <2>5
  <2>7. l = << >> => DOMAIN asked' = {}
    BY <2>3, <2>5
  <2>8. DOMAIN allowed' = {} /\ allowed' \in Seq(BOOLEAN)
    BY <2>2
  <2>9. RequestTypes'
    BY <1>1, <2>2, <2>5, <2>6, <2>7, <2>8 DEF RequestTypes, world
  <2>10. DecisionsInv'
    BY <2>2 DEF DecisionsInv, Wanted
  <2>11. AnswersInv' /\ CoverInv'
    BY <2>2, <2>7 DEF AnswersInv, CoverInv
  <2> QED
    BY <2>9, <2>10, <2>11 DEF RequestInv
<1>4. CASE Return
  <2>1. /\ phase' = "idle" /\ asked' = << >> /\ batch' = {}
        /\ decisions' = {} /\ allowed' = << >> /\ began' = 0
    BY <1>4 DEF Return
  <2> QED
    BY <1>1, <2>1 DEF RequestInv, RequestTypes, DecisionsInv, AnswersInv,
                      CoverInv, Wanted, world
<1> QED
  BY <1>2, <1>3, <1>4

\* Between the two calls of CanI: a check is answered by the cluster-wide
\* decision, or handed to the second call.
LEMMA ClusterWideStep ==
  ASSUME AuthInv, CanIClusterWide
  PROVE  RequestInv'
<1> USE DEF AuthInv
<1>1. /\ phase = "clusterWide" /\ batch = {}
      /\ UNCHANGED <<world, asked, began>>
      /\ allowed' = [i \in DOMAIN asked |-> ClusterWide(asked[i]) \in decisions]
      /\ batch' = {asked[i] : i \in PendingChecks(allowed')}
      /\ decisions' = {}
      /\ phase' = IF PendingChecks(allowed') = {} THEN "answered" ELSE "pending"
  BY DEF CanIClusterWide
<1>2. \A i \in DOMAIN asked : asked[i] \in UserCanTarget
  BY TargetsOfRequest
<1>3. PendingChecks(allowed)' = PendingChecks(allowed')
  BY <1>1 DEF PendingChecks
<1>4. RequestTypes'
  <2>1. DOMAIN asked = 1..Len(asked) /\ Len(asked) \in Nat
    BY DEF RequestTypes
  <2>2. allowed' \in Seq(BOOLEAN) /\ DOMAIN allowed' = DOMAIN asked
    BY <1>1, <2>1
  <2>3. batch' \subseteq UserCanTarget
    BY <1>1, <1>2 DEF PendingChecks
  <2> QED
    BY <1>1, <2>2, <2>3 DEF RequestTypes, world
<1>5. DecisionsInv'
  <2>1. Wanted' \subseteq batch'
    BY <1>1, <1>3 DEF Wanted
  <2> QED
    BY <1>1, <2>1 DEF DecisionsInv
<1>6. AnswersInv'
  <2>1. ASSUME NEW i \in DOMAIN asked
        PROVE  /\ allowed'[i] => PermittedLately(asked[i])
               /\ ~allowed'[i] => \/ i \in PendingChecks(allowed')
                                  \/ RefusedLately(asked[i])
    <3>1. /\ allowed'[i] <=> ClusterWide(asked[i]) \in decisions
          /\ asked[i] \in UserCanTarget
          /\ ClusterWide(asked[i]) \in UserCanTarget
      BY <1>1, <1>2, ClusterWideIsTarget
    <3>2. CASE allowed'[i]
      <4>1. PermittedLately(ClusterWide(asked[i]))
        BY <3>1, <3>2 DEF DecisionsInv
      <4>2. lastPermitted[ClusterWide(asked[i])] <= lastPermitted[asked[i]]
        BY <3>1 DEF HistoryInv
      <4>3. /\ lastPermitted[ClusterWide(asked[i])] \in Int
            /\ lastPermitted[asked[i]] \in Int /\ began \in Int
        BY <3>1 DEF HistoryInv, RequestTypes
      <4> QED
        BY <3>2, <4>1, <4>2, <4>3, TTLAssumption DEF PermittedLately
    <3>3. CASE ~allowed'[i] /\ asked[i].Namespace = AllNamespaces
      <4>1. asked[i] \notin decisions
        BY <3>1, <3>3, ClusterWideIsTarget
      <4>2. asked[i] \in Wanted
        <5>1. ClusterWide(asked[i]) = asked[i]
          BY <3>1, <3>3, ClusterWideIsTarget
        <5> QED
          BY <1>1, <5>1 DEF Wanted, ClusterWideTargets
      <4> QED
        BY <1>1, <3>3, <4>1, <4>2 DEF DecisionsInv
    <3>4. CASE ~allowed'[i] /\ asked[i].Namespace # AllNamespaces
      BY <3>4 DEF PendingChecks
    <3> QED
      BY <3>2, <3>3, <3>4
  <2>3. PendingChecks(allowed') # {} => phase' = "pending"
    BY <1>1
  <2> QED
    BY <1>1, <1>3, <2>1, <2>3
       DEF AnswersInv, PermittedLately, RefusedLately, world
<1>7. CoverInv'
  <2>1. ASSUME NEW i \in DOMAIN asked, NEW j \in DOMAIN asked,
               allowed'[i], asked[i] = ClusterWide(asked[j])
        PROVE  allowed'[j]
    <3>1. ClusterWide(asked[i]) = ClusterWide(asked[j])
      BY <1>2, <2>1, ClusterWideIsTarget
    <3> QED
      BY <1>1, <2>1, <3>1
  <2> QED
    BY <1>1, <2>1 DEF CoverInv
<1> QED
  BY <1>4, <1>5, <1>6, <1>7 DEF RequestInv

\* The second call of CanI decides the pending checks and no other.
LEMMA PendingStep ==
  ASSUME AuthInv, CanIPending
  PROVE  RequestInv'
<1> USE DEF AuthInv
<1>1. /\ phase = "pending" /\ batch = {} /\ phase' = "answered"
      /\ UNCHANGED <<world, asked, batch, decisions, began>>
      /\ allowed' = [i \in DOMAIN asked |-> IF i \in PendingChecks(allowed)
                                              THEN asked[i] \in decisions
                                              ELSE allowed[i]]
  BY DEF CanIPending
<1>2. /\ \A i \in DOMAIN asked : asked[i] \in UserCanTarget
      /\ DOMAIN allowed = DOMAIN asked
      /\ \A i \in DOMAIN asked : allowed[i] \in BOOLEAN
  BY <1>1, TargetsOfRequest DEF RequestTypes
<1>3. RequestTypes'
  <2>1. DOMAIN asked = 1..Len(asked) /\ Len(asked) \in Nat
    BY DEF RequestTypes
  <2>2. ASSUME NEW i \in DOMAIN asked
        PROVE  allowed'[i] \in BOOLEAN
    <3>1. CASE i \in PendingChecks(allowed)
      <4>1. allowed'[i] = (asked[i] \in decisions)
        BY <1>1, <3>1
      <4> QED
        BY <4>1
    <3>2. CASE i \notin PendingChecks(allowed)
      BY <1>1, <1>2, <3>2
    <3> QED
      BY <3>1, <3>2
  <2>3. DOMAIN allowed' = DOMAIN asked
    BY <1>1
  <2>4. allowed' = [i \in 1..Len(asked) |-> allowed'[i]]
    BY <1>1, <2>1
  <2>5. allowed' \in Seq(BOOLEAN)
    BY <2>1, <2>2, <2>4
  <2> QED
    BY <1>1, <2>3, <2>5 DEF RequestTypes, world
<1>4. DecisionsInv'
  <2>1. Wanted' = {}
    BY <1>1 DEF Wanted
  <2> QED
    BY <1>1, <2>1 DEF DecisionsInv, PermittedLately, world
<1>5. AnswersInv'
  <2>1. ASSUME NEW i \in DOMAIN asked
        PROVE  /\ allowed'[i] => PermittedLately(asked[i])
               /\ ~allowed'[i] => RefusedLately(asked[i])
    <3>1. CASE i \in PendingChecks(allowed)
      <4>1. /\ allowed'[i] <=> asked[i] \in decisions
            /\ asked[i] \in Wanted
        BY <1>1, <3>1 DEF Wanted
      <4> QED
        BY <1>1, <4>1 DEF DecisionsInv
    <3>2. CASE i \notin PendingChecks(allowed)
      <4>1. allowed'[i] = allowed[i]
        BY <1>1, <3>2
      <4> QED
        BY <1>1, <3>2, <4>1 DEF AnswersInv
    <3> QED
      BY <3>1, <3>2
  <2> QED
    BY <1>1, <2>1 DEF AnswersInv, PermittedLately, RefusedLately, world
<1>6. CoverInv'
  <2>1. ASSUME NEW i \in DOMAIN asked, NEW j \in DOMAIN asked,
               allowed'[i], asked[i] = ClusterWide(asked[j])
        PROVE  allowed'[j]
    <3>1. asked[i].Namespace = AllNamespaces
      BY <1>2, <2>1, ClusterWideIsTarget
    <3>2. allowed[i]
      BY <1>1, <2>1, <3>1 DEF PendingChecks
    <3>3. allowed[j]
      BY <1>1, <2>1, <3>2 DEF CoverInv
    <3>4. j \notin PendingChecks(allowed)
      BY <3>3 DEF PendingChecks
    <3> QED
      BY <1>1, <3>3, <3>4
  <2> QED
    BY <1>1, <2>1 DEF CoverInv
<1> QED
  BY <1>3, <1>4, <1>5, <1>6 DEF RequestInv

\* filterByDecisions answers yes for the targets decided yes alone.
LEMMA FilterStep ==
  ASSUME AuthInv, filterByDecisions
  PROVE  RequestInv'
<1> USE DEF AuthInv
<1>1. /\ phase = "filter" /\ batch = {} /\ phase' = "filtered"
      /\ UNCHANGED <<world, asked, batch, decisions, began>>
      /\ allowed' = [i \in DOMAIN asked |-> asked[i] \in decisions]
  BY DEF filterByDecisions
<1>2. RequestTypes'
  <2>1. DOMAIN asked = 1..Len(asked) /\ Len(asked) \in Nat
    BY DEF RequestTypes
  <2>2. allowed' \in Seq(BOOLEAN) /\ DOMAIN allowed' = DOMAIN asked
    BY <1>1, <2>1
  <2> QED
    BY <1>1, <2>2 DEF RequestTypes, world
<1>3. DecisionsInv'
  BY <1>1 DEF DecisionsInv, Wanted, PermittedLately, world
<1>4. \A i \in DOMAIN asked : asked[i] \in Wanted
  BY <1>1 DEF Wanted
<1>5. AnswersInv'
  BY <1>1, <1>4
     DEF AnswersInv, DecisionsInv, PermittedLately, RefusedLately, world
<1>6. CoverInv'
  BY <1>1 DEF CoverInv
<1> QED
  BY <1>2, <1>3, <1>5, <1>6 DEF RequestInv

-----------------------------------------------------------------------------

\* The invariant holds before the first request.
LEMMA AuthInit == Init => AuthInv
<1> SUFFICES ASSUME Init PROVE AuthInv
  OBVIOUS
<1>1. HistoryInv
  <2>1. \A t \in UserCanTarget : Permitted(ClusterWide(t)) => Permitted(t)
    BY ClusterWideIsTarget DEF Permitted, PermittedBy
  <2> QED
    BY <2>1, ClusterWideIsTarget, TTLAssumption, ClockAssumption
       DEF Init, HistoryInv, Recorded, RecordedRefusal, LongAgo, Permitted
<1>2. CacheInv
  BY DEF Init, CacheInv
<1>3. RequestTypes /\ DecisionsInv /\ AnswersInv /\ CoverInv
  BY DEF Init, RequestTypes, DecisionsInv, AnswersInv, CoverInv, Wanted
<1> QED
  BY <1>1, <1>2, <1>3 DEF AuthInv

\* Every step of the cluster, UserCan, CanI and FilterAllowed keeps it.
LEMMA AuthStep == AuthInv /\ [Next]_vars => AuthInv'
<1> SUFFICES ASSUME AuthInv, [Next]_vars PROVE AuthInv'
  OBVIOUS
<1>1. HistoryInv' /\ HistoryGrows
  BY HistoryStep
<1>2. CacheInv'
  BY CacheStep
<1>3. RequestInv'
  <2>1. CASE Cluster \/ OthersOfUser \/ UNCHANGED vars
    <3>1. UNCHANGED request
      BY <2>1 DEF Cluster, Tick, Grant, Revoke, Regrant, OthersOfUser,
                  OtherRequest, Evict, vars
    <3>2. now' = now \/ Tick
      BY <2>1 DEF Cluster, Grant, Revoke, Regrant, OthersOfUser,
                  OtherRequest, Evict, vars, world
    <3>3. now' >= now
      BY <3>2 DEF Tick, AuthInv, HistoryInv
    <3> QED
      BY <1>1, <3>1, <3>3, RequestKept
  <2>2. CASE UserCan
    BY <1>1, <2>2, UserCanStep
  <2>3. CASE \/ \E c \in CanIRequests : CanI(c)
             \/ \E t \in ListRequests : FilterAllowed(t)
             \/ Return
    BY <2>3, BeginStep
  <2>4. CASE CanIClusterWide \/ CanIPending \/ filterByDecisions
    BY <2>4, ClusterWideStep, PendingStep, FilterStep
  <2> QED
    BY <2>1, <2>2, <2>3, <2>4 DEF Next
<1> QED
  BY <1>1, <1>2, <1>3 DEF AuthInv, RequestInv

\* Hence it always holds.
LEMMA AuthInvariant == Spec => []AuthInv
  BY AuthInit, AuthStep, PTL DEF Spec

\* The state of Authorizer has its types; the answer has one BOOLEAN for each
\* check (RbacAuthorizer.CanI, FilterAllowed).
THEOREM AuthorizerTypes == Spec => []TypeOK
<1>1. AuthInv => TypeOK
  BY DEF AuthInv, HistoryInv, CacheInv, RequestTypes, TypeOK
<1> QED
  BY <1>1, AuthInvariant, PTL

(***************************************************************************)
(* A yes of FilterAllowed or CanI rests on a permission the user had at    *)
(* most one TTL before the request began, also when CanI puts it together  *)
(* from a cluster-wide decision and a decision of the namespace.           *)
(***************************************************************************)
THEOREM AllowedIsNoStalerThanTheCache == Spec => []AllowedWasPermitted
<1>1. AuthInv => AllowedWasPermitted
  BY DEF AuthInv, RequestTypes, AnswersInv, AllowedWasPermitted, Answers,
         PermittedLately
<1> QED
  BY <1>1, AuthInvariant, PTL

(***************************************************************************)
(* A no rests on a refusal (or a failed review) at most one TTL before the *)
(* request began: nobody is denied what they were permitted throughout.    *)
(***************************************************************************)
THEOREM DeniedOnlyIfRefused == Spec => []DeniedWasRefused
<1>1. AuthInv => DeniedWasRefused
  BY DEF AuthInv, RequestTypes, AnswersInv, DeniedWasRefused, Answers,
         RefusedLately
<1> QED
  BY <1>1, AuthInvariant, PTL

(***************************************************************************)
(* The items of one answer of CanI agree: cluster-wide yes is yes in every *)
(* namespace, whatever changes or fails between the two calls of UserCan.  *)
(***************************************************************************)
THEOREM ClusterWideIsYesEverywhere == Spec => []ClusterWideCoversNamespaces
<1>1. AuthInv => ClusterWideCoversNamespaces
  BY DEF AuthInv, RequestTypes, CoverInv, ClusterWideCoversNamespaces
<1> QED
  BY <1>1, AuthInvariant, PTL

=============================================================================
