---------------------------- MODULE RegisterForm ----------------------------
(***************************************************************************)
(* The register form of the engines page (web/app/engines/page.tsx), whose *)
(* target indexer and cluster follow three queries that are answered, and  *)
(* fail, while the form is open.  Indexers are reached through a gateway   *)
(* or, as the only one, directly; what they and the gateway do with a      *)
(* registration is part of its step (httpapi/config_handlers.go,           *)
(* gateway/gateway.go).                                                    *)
(***************************************************************************)
EXTENDS Naturals, FiniteSets

CONSTANTS
    Backends,       \* indexers, numbered in the order of the registry
    ClusterIds,     \* numbered in the order of the lists
    Home,           \* per backend: the gateway's cluster of it, which may be a cluster id
    Ids,            \* engine ids that may be registered
    Start,          \* what the backends may have for clusters at first
    MaxEvents,      \* bound on changes at the backends and on failures
    None            \* no engine, no form, no target, no cluster, no request

VARIABLES
    gateway,        \* whether the console talks to a gateway
    enabled,        \* the indexers with an enabled connection
    clusters,       \* per backend: its clusters, of which none is ever removed
    engines,        \* per backend and id: the engine registered there
    seen,           \* what the page's queries answered last
    form,           \* the form in the sheet
    request,        \* the registration under way
    events

vars == <<gateway, enabled, clusters, engines, seen, form, request, events>>

Least(S) == CHOOSE x \in S : \A y \in S : x <= y

\* blind: the form knew no cluster of its target (see RegisteredFits).
NewEngine(c, blind) == [cluster |-> c, blind |-> blind]

Init ==
    /\ gateway \in BOOLEAN
    /\ enabled = IF gateway THEN Backends ELSE {Least(Backends)}
    /\ clusters \in Start
    /\ engines = [b \in Backends |-> [i \in Ids |-> None]]
    /\ seen = [clusters |-> [b \in Backends |-> {}], connections |-> {}, registry |-> FALSE,
               infos |-> {}, multi |-> FALSE]
    /\ form = None
    /\ request = None
    /\ events = 0

Happens == events < MaxEvents /\ events' = events + 1

-----------------------------------------------------------------------------
(* The form.                                                               *)

\* The targets offered: the registry's, or those of the gateway's health.
Targets(s) == IF s.registry THEN s.connections ELSE s.infos

RequiresBackend(s) == s.registry \/ s.multi

KnownClusters(s) == UNION {s.clusters[b] : b \in Backends}

\* The clusters to choose from: the target's own, or those of its home.
ClusterOptions(s, target) ==
    IF ~RequiresBackend(s) \/ target = None THEN KnownClusters(s)
    ELSE IF s.clusters[target] # {} THEN s.clusters[target]
    ELSE IF target \notin Targets(s) THEN {}
    ELSE ({Home[target]} \cap KnownClusters(s)) \cup
         UNION {s.clusters[b] : b \in {x \in Backends : Home[x] = Home[target]}}

FollowTargets(s, target) ==
    IF ~RequiresBackend(s) \/ target \in Targets(s) THEN target
    ELSE IF Targets(s) = {} THEN None ELSE Least(Targets(s))

\* Mistake: a cluster that is chosen stays.
FollowOnce(options, c) == IF options = {} \/ c # None THEN c ELSE Least(options)

FollowOptions(options, c) == IF options = {} \/ c \in options THEN c ELSE Least(options)

\* The two effects, which run together until nothing changes: the first time
\* the cluster follows the options of the target before.
Settled(s, f) ==
    LET before == FollowOptions(ClusterOptions(s, f.target), f.cluster)
        target == FollowTargets(s, f.target)
    IN  [target |-> target, cluster |-> FollowOptions(ClusterOptions(s, target), before)]

Render(s, f) == seen' = s /\ form' = IF f = None THEN None ELSE Settled(s, f)

Open ==
    /\ form = None
    /\ Render(seen, [target |-> None, cluster |-> None])
    /\ UNCHANGED <<gateway, enabled, clusters, engines, request, events>>

\* Cancel closes the sheet, and so does a registration that succeeds.
Cancel ==
    /\ form # None
    /\ form' = None
    /\ UNCHANGED <<gateway, enabled, clusters, engines, seen, request, events>>

SetTarget(b) ==
    /\ form # None /\ RequiresBackend(seen)
    /\ b \in Targets(seen) \ {form.target}
    /\ Render(seen, [form EXCEPT !.target = b])
    /\ UNCHANGED <<gateway, enabled, clusters, engines, request, events>>

\* A choice, or what is typed when there is none.
SetCluster(c) ==
    /\ form # None /\ c # form.cluster
    /\ LET options == ClusterOptions(seen, form.target) IN options = {} \/ c \in options
    /\ Render(seen, [form EXCEPT !.cluster = c])
    /\ UNCHANGED <<gateway, enabled, clusters, engines, request, events>>

-----------------------------------------------------------------------------
(* The queries.                                                            *)

Answered(s) ==
    /\ s # seen
    /\ Render(s, form)
    /\ UNCHANGED <<gateway, enabled, clusters, engines, request>>

ClustersAnswered(reachable) ==
    /\ IF reachable = enabled THEN events' = events ELSE Happens
    /\ Answered([seen EXCEPT !.clusters =
            [b \in Backends |-> IF b \in reachable THEN clusters[b] ELSE {}]])

\* The registry and the health of the clusters are the gateway's.  A query
\* that fails keeps its answer.
RegistryAnswered ==
    /\ gateway
    /\ Answered([seen EXCEPT !.connections = enabled, !.registry = TRUE])
    /\ UNCHANGED events

RegistryFails ==
    /\ seen.registry /\ Happens
    /\ Answered([seen EXCEPT !.registry = FALSE])

InfosAnswered ==
    /\ gateway
    /\ Answered([seen EXCEPT !.infos = enabled, !.multi = enabled # {}])
    /\ UNCHANGED events

InfosFail ==
    /\ seen.multi /\ Happens
    /\ Answered([seen EXCEPT !.multi = FALSE])

-----------------------------------------------------------------------------
(* Requests.                                                               *)

Submit(i) ==
    /\ form # None /\ request = None
    /\ form.cluster # None
    /\ RequiresBackend(seen) => form.target # None
    /\ LET to == IF RequiresBackend(seen) THEN form.target ELSE None IN
       request' = [id |-> i, backend |-> to, cluster |-> form.cluster,
                   blind |-> IF to # None THEN seen.clusters[to] = {}
                             ELSE gateway \/ KnownClusters(seen) = {}]
    /\ UNCHANGED <<gateway, enabled, clusters, engines, seen, form, events>>

\* selectedOneTarget: the backend that is named, or the only one.
Receiver(named) ==
    IF ~gateway THEN Least(Backends)
    ELSE IF named # None THEN IF named \in enabled THEN named ELSE None
    ELSE IF Cardinality(enabled) = 1 THEN Least(enabled) ELSE None

\* An engine of the same id is replaced.
Registered ==
    LET b == Receiver(request.backend) IN
    /\ request # None /\ b # None
    /\ engines' = [engines EXCEPT ![b][request.id] = NewEngine(request.cluster, request.blind)]

SubmitAnswered ==
    /\ Registered
    /\ request' = None /\ form' = None
    /\ UNCHANGED <<gateway, enabled, clusters, seen, events>>

\* Refused, not arrived, or answered in vain: the form stays, with an error.
SubmitFails ==
    /\ request # None
    /\ Happens
    /\ Registered \/ engines' = engines
    /\ request' = None
    /\ UNCHANGED <<gateway, enabled, clusters, seen, form>>

-----------------------------------------------------------------------------
(* What others do.                                                         *)

ClusterAdded(b, c) ==
    /\ Happens
    /\ c \notin clusters[b]
    /\ clusters' = [clusters EXCEPT ![b] = @ \cup {c}]
    /\ UNCHANGED <<gateway, enabled, engines, seen, form, request>>

ConnectionToggled(b) ==
    /\ gateway /\ Happens
    /\ enabled' = IF b \in enabled THEN enabled \ {b} ELSE enabled \cup {b}
    /\ UNCHANGED <<gateway, clusters, engines, seen, form, request>>

-----------------------------------------------------------------------------
Next ==
    \/ Open
    \/ Cancel
    \/ \E b \in Backends : SetTarget(b)
    \/ \E c \in ClusterIds : SetCluster(c)
    \/ \E reachable \in SUBSET enabled : ClustersAnswered(reachable)
    \/ RegistryAnswered
    \/ RegistryFails
    \/ InfosAnswered
    \/ InfosFail
    \/ \E i \in Ids : Submit(i)
    \/ SubmitAnswered
    \/ SubmitFails
    \/ \E b \in Backends, c \in ClusterIds : ClusterAdded(b, c)
    \/ \E b \in Backends : ConnectionToggled(b)

Spec == Init /\ [][Next]_vars

-----------------------------------------------------------------------------
\* An engine is registered in a cluster that its indexer has, although the
\* target changes, connections come and go and queries fail while the form is
\* open; nothing behind the form checks it, and an engine of an unknown
\* cluster gets no traffic.  The exception is a form that knew no cluster of
\* its target: it lists clusters of the target's home, any cluster, or takes
\* what is typed (RegisterForm's effects, engines/page.tsx:722-743).
RegisteredFits ==
    \A b \in Backends, i \in Ids :
        engines[b][i] # None /\ ~engines[b][i].blind => engines[b][i].cluster \in clusters[b]

=============================================================================
