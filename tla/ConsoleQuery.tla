---------------------------- MODULE ConsoleQuery ----------------------------
(***************************************************************************)
(* What a list page of the web console knows of the backends: the cluster  *)
(* selection of ClusterProvider (web/lib/cluster.tsx), and the query of    *)
(* the page, one cached answer per selection, filled by polling and by the *)
(* refetch that follows an own write (invalidateQueries).                  *)
(*                                                                         *)
(* A fetch is asked, answered at the backends and installed in three       *)
(* steps, so that an answer may be out of date when it is installed.  A    *)
(* list is abstracted to the number of changes its cluster has seen.  A    *)
(* failed attempt that the query library repeats is not a step of its own: *)
(* the fetch stays asked.                                                  *)
(***************************************************************************)
EXTENDS Naturals

CONSTANTS
    Clusters,       \* the ids that connections may have
    MaxEvents,      \* bound on what happens besides fetches: changes, failures, switches
    NoData, Idle    \* nothing cached or answered yet, nothing under way

VARIABLES
    list,           \* per cluster: how often its list changed
    registry,       \* the clusters that have a connection now
    selection,      \* ClusterProvider's state
    stored,         \* the selection kept in the browser's storage
    health,         \* the query ["clusters"]: its data and whether it failed last
    cache,          \* per selection: the cached answer of the page's query
    flight,         \* per selection: the fetch under way
    write,          \* the page's own write under way
    acked,          \* per cluster: the change that the last answered own write made
    events

vars == <<list, registry, selection, stored, health, cache, flight, write, acked, events>>

All == "all"
Keys == Clusters \cup {All}
Asked == [answer |-> NoData, overtaken |-> FALSE]

\* The clusters whose rows the query of a selection returns.
Scope(k) == IF k = All THEN registry ELSE {k} \cap registry

MultiCluster == ~health.failed /\ health.clusters # {}

\* What useCluster tells the pages.
Exposed == IF MultiCluster THEN selection ELSE All

Init ==
    /\ list = [c \in Clusters |-> 0]
    /\ registry = Clusters
    /\ stored \in Keys
    /\ selection = stored
    /\ health = [clusters |-> {}, failed |-> FALSE]
    /\ cache = [k \in Keys |-> [data |-> NoData, failed |-> FALSE, stale |-> FALSE, overtaken |-> FALSE]]
    /\ flight = [k \in Keys |-> IF k = All THEN Asked ELSE Idle]
    /\ write = Idle
    /\ acked = [c \in Clusters |-> 0]
    /\ events = 0

Happens == events < MaxEvents /\ events' = events + 1

-----------------------------------------------------------------------------
(* The cluster selection.                                                  *)

\* A page that is shown another selection uses the query of that key: it
\* fetches at once what it has no data for or must not trust any more, and
\* may fetch what is older than staleTime.
Mount(f) ==
    LET k == Exposed' IN
    IF k = Exposed \/ f[k] # Idle THEN flight' = f
    ELSE IF cache[k].data = NoData \/ cache[k].stale
         THEN flight' = [f EXCEPT ![k] = Asked]
         ELSE flight' \in {f, [f EXCEPT ![k] = Asked]}

\* Mistake: the selection is only checked when it is made.
FallBackNever == selection

\* The effect of ClusterProvider: a selection that left the registry falls
\* back to all clusters.  The stored selection stays.
FallBack == IF MultiCluster' /\ selection \notin health'.clusters THEN All ELSE selection

HealthAnswered ==
    /\ health' = [clusters |-> registry, failed |-> FALSE]
    /\ selection' = FallBack
    /\ Mount(flight)
    /\ UNCHANGED <<list, registry, stored, cache, write, acked, events>>

\* retry: false.  The data of the last answer stays, but does not count.
HealthFails ==
    /\ Happens
    /\ health' = [health EXCEPT !.failed = TRUE]
    /\ selection' = selection
    /\ Mount(flight)
    /\ UNCHANGED <<list, registry, stored, cache, write, acked>>

\* The switcher is hidden unless there is something to switch.
SetCluster(k) ==
    /\ Happens
    /\ MultiCluster
    /\ k \in health.clusters \cup {All}
    /\ selection' = k /\ stored' = k
    /\ health' = health
    /\ Mount(flight)
    /\ UNCHANGED <<list, registry, cache, write, acked>>

\* The page is loaded again: everything but the stored selection is lost.
Reload ==
    /\ Happens
    /\ selection' = stored
    /\ health' = [clusters |-> {}, failed |-> FALSE]
    /\ cache' = [k \in Keys |-> [data |-> NoData, failed |-> FALSE, stale |-> FALSE, overtaken |-> FALSE]]
    /\ flight' = [k \in Keys |-> IF k = All THEN Asked ELSE Idle]
    /\ write' = Idle
    /\ acked' = [c \in Clusters |-> 0]
    /\ UNCHANGED <<list, registry, stored>>

RegistryChange(c) ==
    /\ Happens
    /\ registry' = IF c \in registry THEN registry \ {c} ELSE registry \cup {c}
    /\ UNCHANGED <<list, selection, stored, health, cache, flight, write, acked>>

-----------------------------------------------------------------------------
(* The query of the page.                                                  *)

\* The interval timer of the selection on screen.  A fetch under way is
\* shared.
Poll ==
    /\ flight[Exposed] = Idle
    /\ flight' = [flight EXCEPT ![Exposed] = Asked]
    /\ UNCHANGED <<list, registry, selection, stored, health, cache, write, acked, events>>

Answer(k) ==
    /\ flight[k] # Idle /\ flight[k].answer = NoData
    /\ flight' = [flight EXCEPT ![k].answer = [c \in Scope(k) |-> list[c]]]
    /\ UNCHANGED <<list, registry, selection, stored, health, cache, write, acked, events>>

Install(k) ==
    /\ flight[k] # Idle /\ flight[k].answer # NoData
    /\ cache' = [cache EXCEPT ![k] = [data |-> flight[k].answer, failed |-> FALSE, stale |-> FALSE,
                                      overtaken |-> flight[k].overtaken]]
    /\ flight' = [flight EXCEPT ![k] = Idle]
    /\ UNCHANGED <<list, registry, selection, stored, health, write, acked, events>>

\* The last attempt fails: the old data stays, with an error.
FetchFails(k) ==
    /\ flight[k] # Idle
    /\ Happens
    /\ cache' = [cache EXCEPT ![k].failed = TRUE]
    /\ flight' = [flight EXCEPT ![k] = Idle]
    /\ UNCHANGED <<list, registry, selection, stored, health, write, acked>>

\* QueryState: an error hides the rows, and so does the first load.
View(k) ==
    IF cache[k].failed THEN "error"
    ELSE IF cache[k].data = NoData THEN "loading"
    ELSE "rows"

-----------------------------------------------------------------------------
(* Changes of the list.                                                    *)

Change(c) == Happens /\ list' = [list EXCEPT ![c] = @ + 1]

\* Another operator's change, or an own one whose answer is lost: onError
\* fetches nothing.
OtherWrites(c) ==
    /\ Change(c)
    /\ UNCHANGED <<registry, selection, stored, health, cache, flight, write, acked>>

\* A mutation of the page arrives at the backend of a row.
Write(c) ==
    /\ write = Idle
    /\ Change(c)
    /\ write' = [cluster |-> c, change |-> list'[c]]
    /\ UNCHANGED <<registry, selection, stored, health, cache, flight, acked>>

\* invalidateQueries: every cached answer is out of date; the query on screen
\* is fetched again.  A fetch under way is given up for a new one if there is
\* data to go on showing, and shared otherwise.
Overtaken(k) ==
    IF flight[k] # Idle /\ (k # Exposed \/ cache[k].data = NoData)
    THEN [flight[k] EXCEPT !.overtaken = TRUE]
    ELSE IF k = Exposed THEN Asked ELSE flight[k]

\* Mistake: only the query on screen is invalidated.
InvalidatedExposed == [cache EXCEPT ![Exposed].stale = TRUE]

Invalidated == [k \in Keys |-> [cache[k] EXCEPT !.stale = TRUE]]

\* onSuccess
WriteAnswered ==
    /\ write # Idle
    /\ acked' = [acked EXCEPT ![write.cluster] = write.change]
    /\ cache' = Invalidated
    /\ flight' = [k \in Keys |-> Overtaken(k)]
    /\ write' = Idle
    /\ UNCHANGED <<list, registry, selection, stored, health, events>>

-----------------------------------------------------------------------------
Next ==
    \/ HealthAnswered
    \/ HealthFails
    \/ \E k \in Keys : SetCluster(k)
    \/ Reload
    \/ \E c \in Clusters : RegistryChange(c)
    \/ Poll
    \/ \E k \in Keys : Answer(k)
    \/ \E k \in Keys : Install(k)
    \/ \E k \in Keys : FetchFails(k)
    \/ \E c \in Clusters : OtherWrites(c)
    \/ \E c \in Clusters : Write(c)
    \/ WriteAnswered

Fairness ==
    /\ WF_vars(HealthAnswered)
    /\ WF_vars(Poll)
    /\ WF_vars(\E k \in Keys : Answer(k))
    /\ WF_vars(\E k \in Keys : Install(k))

Spec == Init /\ [][Next]_vars /\ Fairness

-----------------------------------------------------------------------------
\* An operator who saved something and was told so does not look at the list
\* of before: the rows a page shows and trusts (no refetch is due) have every
\* change whose write was answered.  The exception is an answer that was
\* under way when the write was answered and could not be given up: the
\* first load of a selection, or one that is not on screen (onSuccess of
\* every page's mutations; web/lib/cluster.tsx).
ReadYourWrites ==
    \A k \in Keys :
        View(k) = "rows" /\ ~cache[k].stale /\ ~cache[k].overtaken =>
            \A c \in DOMAIN cache[k].data : cache[k].data[c] >= acked[c]

\* Whatever failed, was lost, reordered or switched, a page that is left alone
\* shows the lists as they are, of the selection the switcher shows, and a
\* selection that has no connection any more is not shown.
Fresh ==
    /\ View(Exposed) = "rows"
    /\ cache[Exposed].data = [c \in Scope(Exposed) |-> list[c]]
    /\ Exposed # All => Exposed \in registry

EventuallyFresh == <>[]Fresh

=============================================================================
