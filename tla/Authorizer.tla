----------------------------- MODULE Authorizer -----------------------------
(***************************************************************************)
(* RbacAuthorizer (internal/rbac): the permission checks of one user, as   *)
(* the list and detail handlers (FilterAllowed) and POST /can-i (CanI) ask *)
(* for them.  Both rest on the UserCan of the plumbing library, which asks *)
(* the cluster and caches each decision, while the grants of the user may  *)
(* change at any moment.  One request is followed; the other requests of   *)
(* the user are seen through the cache they share with it.                 *)
(***************************************************************************)
EXTENDS Integers, Sequences, FiniteSets

CONSTANTS
  Verb,            \* Kubernetes verbs, "get" among them
  GroupResource,   \* (group, resource) pairs
  Namespace,       \* names of namespaces
  AllNamespaces,   \* the empty namespace: the whole cluster
  TTL,             \* RBAC_USERCAN_CACHE_TTL, in ticks of the clock
  MaxTime,         \* bound on the clock
  MaxChanges,      \* bound on the changes of the user's grants
  CanIRequests,    \* the lists of checks a client may post to /can-i
  ListRequests     \* the lists of targets FilterAllowed may be given

UserCanTarget ==
  [Verb : Verb, GroupResource : GroupResource,
   Namespace : Namespace \union {AllNamespaces}]

\* sql.ResourceTarget; the namespace of a cluster-scoped object is empty.
ResourceTarget ==
  [GroupResource : GroupResource,
   Namespace : Namespace \union {AllNamespaces}]

ASSUME VerbAssumption == "get" \in Verb
ASSUME NamespaceAssumption == AllNamespaces \notin Namespace
ASSUME TTLAssumption == TTL \in Nat \ {0}
ASSUME CanIAssumption == \A c \in CanIRequests : c \in Seq(UserCanTarget)
ASSUME ListAssumption == \A t \in ListRequests : t \in Seq(ResourceTarget)
ASSUME ClockAssumption == MaxTime \in Nat /\ MaxChanges \in Nat

VARIABLES
  now,            \* the clock
  grants,         \* what the role bindings of the user permit
  changes,        \* changes of the grants so far
  cache,          \* decisions of UserCan: target, yes or no, and when
  lastPermitted,  \* history: when the cluster last permitted each target
  lastRefused,    \* history: when it last refused it or could not tell
  phase,          \* where the request is
  asked,          \* the checks of the request
  batch,          \* targets that the running UserCan still has to decide
  decisions,      \* targets it has decided to allow
  allowed,        \* the answer, one BOOLEAN per check
  began           \* when the request began

world == <<now, grants, changes, lastPermitted, lastRefused>>
request == <<phase, asked, batch, decisions, allowed, began>>
vars == <<world, cache, request>>

ClusterWide(c) == [c EXCEPT !.Namespace = AllNamespaces]

\* A cluster-wide grant holds in every namespace.
PermittedBy(g, t) == t \in g \/ ClusterWide(t) \in g

Permitted(t) == PermittedBy(grants, t)

Entry == [target : UserCanTarget, yes : BOOLEAN, at : Nat]

TypeOK ==
  /\ now \in Nat
  /\ grants \subseteq UserCanTarget
  /\ changes \in 0..MaxChanges
  /\ cache \subseteq Entry
  /\ lastPermitted \in [UserCanTarget -> Int]
  /\ lastRefused \in [UserCanTarget -> Int]
  /\ phase \in {"idle", "clusterWide", "pending", "filter", "answered",
                "filtered"}
  /\ asked \in Seq(UserCanTarget)
  /\ batch \subseteq UserCanTarget
  /\ decisions \subseteq UserCanTarget
  /\ allowed \in Seq(BOOLEAN)
  /\ began \in 0..now

\* Never, as far as any decision in the cache goes.
LongAgo == -TTL

Recorded(g, time, last) ==
  [t \in UserCanTarget |-> IF PermittedBy(g, t) THEN time ELSE last[t]]

RecordedRefusal(g, time, last) ==
  [t \in UserCanTarget |-> IF PermittedBy(g, t) THEN last[t] ELSE time]

Init ==
  /\ now = 0
  /\ grants \in SUBSET UserCanTarget
  /\ changes = 0
  /\ cache = {}
  /\ lastPermitted =
       Recorded(grants, now, [t \in UserCanTarget |-> LongAgo])
  /\ lastRefused =
       RecordedRefusal(grants, now, [t \in UserCanTarget |-> LongAgo])
  /\ phase = "idle"
  /\ asked = << >>
  /\ batch = {}
  /\ decisions = {}
  /\ allowed = << >>
  /\ began = 0

-----------------------------------------------------------------------------
(* The cluster: time passes, an administrator grants or revokes.           *)

Tick ==
  /\ now < MaxTime
  /\ now' = now + 1
  /\ lastPermitted' = Recorded(grants, now', lastPermitted)
  /\ lastRefused' = RecordedRefusal(grants, now', lastRefused)
  /\ cache' = {e \in cache : now' - e.at < TTL}
  /\ UNCHANGED <<grants, changes, request>>

Regrant(g) ==
  /\ changes < MaxChanges
  /\ changes' = changes + 1
  /\ grants' = g
  /\ lastPermitted' = Recorded(g, now, lastPermitted)
  /\ lastRefused' = RecordedRefusal(g, now, lastRefused)
  /\ UNCHANGED <<now, cache, request>>

Grant(t) == t \notin grants /\ Regrant(grants \union {t})

Revoke(t) == t \in grants /\ Regrant(grants \ {t})

-----------------------------------------------------------------------------
(* UserCan of the plumbing library: it decides the targets of a batch one  *)
(* after the other (a review covers the targets of one namespace), from    *)
(* the cache when it holds a decision that is fresh enough.                *)

Fresh(t) == {e \in cache : e.target = t /\ now - e.at < TTL}

Cached(t, yes) ==
  {e \in cache : e.target # t} \union {[target |-> t, yes |-> yes, at |-> now]}

Decide(t, yes) ==
  /\ t \in batch
  /\ batch' = batch \ {t}
  /\ decisions' = IF yes THEN decisions \union {t} ELSE decisions
  /\ UNCHANGED <<phase, asked, allowed, began>>

FromCache(t) ==
  /\ \E e \in Fresh(t) : Decide(t, e.yes)
  /\ UNCHANGED <<world, cache>>

Review(t) ==
  /\ Fresh(t) = {}
  /\ Decide(t, Permitted(t))
  /\ cache' = Cached(t, Permitted(t))
  /\ UNCHANGED world

\* An error, or no endpoint of the user in the context, decides no.
ReviewFails(t) ==
  /\ Fresh(t) = {}
  /\ Decide(t, FALSE)
  /\ cache' \in {cache, Cached(t, FALSE)}
  /\ lastRefused' = [lastRefused EXCEPT ![t] = now]
  /\ UNCHANGED <<now, grants, changes, lastPermitted>>

\* Another request of the user has t reviewed.
OtherRequest(t) ==
  /\ Fresh(t) = {}
  /\ cache' = Cached(t, Permitted(t))
  /\ UNCHANGED <<world, request>>

\* The cache is full (RBAC_USERCAN_CACHE_MAX_ENTRIES) and t has to go.
Evict(t) ==
  /\ Fresh(t) # {}
  /\ cache' = {e \in cache : e.target # t}
  /\ UNCHANGED <<world, request>>

-----------------------------------------------------------------------------
(* CanI.                                                                   *)

\* One cluster-wide target for each distinct verb and group/resource.
ClusterWideTargets(checks) == {ClusterWide(checks[i]) : i \in DOMAIN checks}

CanI(checks) ==
  /\ phase = "idle"
  /\ asked' = checks
  /\ batch' = ClusterWideTargets(checks)
  /\ decisions' = {}
  /\ allowed' = [i \in DOMAIN checks |-> FALSE]
  /\ began' = now
  /\ phase' = IF checks = << >> THEN "answered" ELSE "clusterWide"
  /\ UNCHANGED <<world, cache>>

\* Variant: checks that are allowed cluster-wide are pending too.
PendingChecks_Allowed(answers) ==
  {i \in DOMAIN asked : asked[i].Namespace # AllNamespaces}

\* Checks with a namespace and no cluster-wide permission (pendingIdx).
PendingChecks(answers) ==
  {i \in DOMAIN asked :
     ~answers[i] /\ asked[i].Namespace # AllNamespaces}

\* Variant: the cluster-wide decisions are final.
CanIClusterWide_Final ==
  /\ phase = "clusterWide"
  /\ batch = {}
  /\ allowed' = [i \in DOMAIN asked |-> ClusterWide(asked[i]) \in decisions]
  /\ decisions' = {}
  /\ phase' = "answered"
  /\ UNCHANGED <<world, cache, asked, batch, began>>

CanIClusterWide ==
  /\ phase = "clusterWide"
  /\ batch = {}
  /\ allowed' = [i \in DOMAIN asked |-> ClusterWide(asked[i]) \in decisions]
  /\ batch' = {asked[i] : i \in PendingChecks(allowed')}
  /\ decisions' = {}
  /\ phase' = IF PendingChecks(allowed') = {} THEN "answered" ELSE "pending"
  /\ UNCHANGED <<world, cache, asked, began>>

\* Variant: a decision is written to every pending check.
CanIPending_EveryIndex ==
  /\ phase = "pending"
  /\ batch = {}
  /\ allowed' = [i \in DOMAIN asked |-> IF i \in PendingChecks(allowed)
                                          THEN decisions # {}
                                          ELSE allowed[i]]
  /\ phase' = "answered"
  /\ UNCHANGED <<world, cache, asked, batch, decisions, began>>

CanIPending ==
  /\ phase = "pending"
  /\ batch = {}
  /\ allowed' = [i \in DOMAIN asked |-> IF i \in PendingChecks(allowed)
                                          THEN asked[i] \in decisions
                                          ELSE allowed[i]]
  /\ phase' = "answered"
  /\ UNCHANGED <<world, cache, asked, batch, decisions, began>>

-----------------------------------------------------------------------------
(* FilterAllowed.                                                          *)

\* Variant: the verb is left out.
buildUserCanTargets_NoVerb(targets) ==
  [i \in DOMAIN targets |->
     [Verb |-> "", GroupResource |-> targets[i].GroupResource,
      Namespace |-> targets[i].Namespace]]

\* The verb is always get.
buildUserCanTargets(targets) ==
  [i \in DOMAIN targets |->
     [Verb |-> "get", GroupResource |-> targets[i].GroupResource,
      Namespace |-> targets[i].Namespace]]

FilterAllowed(targets) ==
  /\ phase = "idle"
  /\ asked' = buildUserCanTargets(targets)
  /\ batch' = {asked'[i] : i \in DOMAIN asked'}
  /\ decisions' = {}
  /\ allowed' = << >>
  /\ began' = now
  /\ phase' = IF targets = << >> THEN "filtered" ELSE "filter"
  /\ UNCHANGED <<world, cache>>

\* Variant: one denied target lets none of them through.
filterByDecisions_All ==
  /\ phase = "filter"
  /\ batch = {}
  /\ allowed' = [i \in DOMAIN asked |->
                   \A j \in DOMAIN asked : asked[j] \in decisions]
  /\ phase' = "filtered"
  /\ UNCHANGED <<world, cache, asked, batch, decisions, began>>

\* filterByDecisions keeps the targets whose decision was yes.
filterByDecisions ==
  /\ phase = "filter"
  /\ batch = {}
  /\ allowed' = [i \in DOMAIN asked |-> asked[i] \in decisions]
  /\ phase' = "filtered"
  /\ UNCHANGED <<world, cache, asked, batch, decisions, began>>

\* The handler has used the answer.
Return ==
  /\ phase \in {"answered", "filtered"}
  /\ phase' = "idle"
  /\ asked' = << >>
  /\ batch' = {}
  /\ decisions' = {}
  /\ allowed' = << >>
  /\ began' = 0
  /\ UNCHANGED <<world, cache>>

Cluster == Tick \/ \E t \in UserCanTarget : Grant(t) \/ Revoke(t)

UserCan ==
  \E t \in UserCanTarget : FromCache(t) \/ Review(t) \/ ReviewFails(t)

OthersOfUser == \E t \in UserCanTarget : OtherRequest(t) \/ Evict(t)

Next == \/ Cluster
        \/ UserCan
        \/ OthersOfUser
        \/ \E c \in CanIRequests : CanI(c)
        \/ CanIClusterWide \/ CanIPending
        \/ \E t \in ListRequests : FilterAllowed(t)
        \/ filterByDecisions
        \/ Return

Spec == Init /\ [][Next]_vars

-----------------------------------------------------------------------------
(* Properties.                                                             *)

Answers ==
  IF phase \in {"answered", "filtered"} THEN DOMAIN allowed ELSE {}

\* The answer of a check is yes only if the cluster permitted it at some
\* moment since one TTL before the request began.  CanI puts two decisions
\* together, each of them up to a TTL old; the answer is no staler.
AllowedWasPermitted ==
  \A i \in Answers :
    allowed[i] => lastPermitted[asked[i]] > began - TTL

\* The answer is no only if the cluster refused it, or a review failed, at
\* some such moment: a user who keeps a permission throughout is never
\* denied it, not even when a cluster-wide grant is replaced by grants in
\* the namespaces (or the other way round) between the two calls of CanI.
DeniedWasRefused ==
  \A i \in Answers :
    ~allowed[i] => lastRefused[asked[i]] > began - TTL

\* Within one answer of /can-i a cluster-wide yes implies yes in every
\* namespace, even when the grants change while the request runs or a review
\* of the namespace would fail.  (FilterAllowed makes no such promise.)
ClusterWideCoversNamespaces ==
  phase = "answered" =>
    \A i, j \in DOMAIN allowed :
      allowed[i] /\ asked[i] = ClusterWide(asked[j]) => allowed[j]

=============================================================================
