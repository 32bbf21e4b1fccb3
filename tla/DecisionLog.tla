----------------------------- MODULE DecisionLog -----------------------------
(***************************************************************************)
(* The decisions of all indexers on one page (web/app/decisions/page.tsx,  *)
(* and the latest rows of the overview, web/app/page.tsx).                 *)
(* Every indexer keeps its recent decisions in a ring, and the gateway the *)
(* ones it makes itself, for whichever cluster, in a ring of its own.  The *)
(* gateway asks each of the selected indexers, leaves out those that fail, *)
(* adds its own, and sorts what it has by the text of the timestamps, from *)
(* which the encoding drops the zeros at the end (ListFilter).             *)
(***************************************************************************)
EXTENDS Naturals, Sequences, FiniteSets, SequencesExt, ListFilter

CONSTANTS
    Backends,       \* the indexers
    Selections,     \* of which the page may show: sets of them
    Times,          \* times of a decision, in hundredths of the second
    Outcomes,       \* per source: accept, reject, and fallback, an acceptance marked as one
    Cap,            \* 200 in the code: a ring
    Latest,         \* 8 in the code: rows of the overview
    MaxDecisions,   \* bound on decisions
    MaxFailures,    \* bound on failures
    MaxPolls,       \* bound on requests of the page
    None            \* no answer, no request

\* The gateway as one that decides.
Local == "gateway"
Sources == Backends \cup {Local}

VARIABLES
    gateway,        \* whether there is a gateway, or one indexer alone
    selected,       \* the indexers of the selection
    clock,          \* the time of the last decision
    judged,         \* decisions that have their time and are not yet recorded
    recorded,       \* per source: its decisions, in the order of the ring
    parts,          \* the request under way: per indexer its answer
    data,           \* the answer the page has
    polls, failures

vars == <<gateway, selected, clock, judged, recorded, parts, data, polls, failures>>

Filters == {"all", "accept", "reject", "fallback"}

Init ==
    /\ gateway \in BOOLEAN
    /\ selected \in {s \in Selections : gateway \/ Cardinality(s) = 1}
    /\ clock = 0
    /\ judged = {}
    /\ recorded = [s \in Sources |-> <<>>]
    /\ parts = None
    /\ data = <<>>
    /\ polls = 0 /\ failures = 0

-----------------------------------------------------------------------------
(* The decisions.                                                          *)

Count == Cardinality(judged) + FoldSet(LAMBDA s, n : n + Len(recorded[s]), 0, Sources)

Judges(s, b) == IF gateway THEN s \in {b, Local} ELSE s = b /\ b \in selected

\* The handlers of a source take the time before they take its lock.  No
\* two decisions are alike in all of this.
Judge(s, b, t, outcome) ==
    LET d == [source |-> s, backend |-> b, time |-> t, outcome |-> outcome] IN
    /\ Judges(s, b)
    /\ Count < MaxDecisions
    /\ t >= clock /\ clock' = t
    /\ d \notin judged /\ ~Contains(recorded[s], d)
    /\ judged' = judged \cup {d}
    /\ UNCHANGED <<gateway, selected, recorded, parts, data, polls, failures>>

Record(d) ==
    /\ judged' = judged \ {d}
    /\ recorded' = [recorded EXCEPT ![d.source] = Append(@, d)]
    /\ UNCHANGED <<gateway, selected, clock, parts, data, polls, failures>>

Newest(list, n) == IF Len(list) > n THEN SubSeq(list, Len(list) - n + 1, Len(list)) ELSE list

Ring(s) == Newest(recorded[s], Cap)

-----------------------------------------------------------------------------
(* The gateway.                                                            *)

\* Mistake: the parts are put one behind the other.
Unsorted(items) == items

SortByTimestampAsc(items) == SliceStable(items, ByText)

Ask ==
    /\ parts = None /\ polls < MaxPolls
    /\ polls' = polls + 1
    /\ parts' = [s \in selected |-> None]
    /\ UNCHANGED <<gateway, selected, clock, judged, recorded, data, failures>>

Asks(s) == parts # None /\ s \in DOMAIN parts /\ parts[s] = None

GetList(s) ==
    /\ Asks(s)
    /\ parts' = [parts EXCEPT ![s] = Ring(s)]
    /\ UNCHANGED <<gateway, selected, clock, judged, recorded, data, polls, failures>>

\* Behind a gateway an indexer that fails is left out.
GetListFails(s) ==
    /\ gateway /\ Asks(s)
    /\ failures < MaxFailures /\ failures' = failures + 1
    /\ parts' = [parts EXCEPT ![s] = <<>>]
    /\ UNCHANGED <<gateway, selected, clock, judged, recorded, data, polls>>

LocalDecisions ==
    LET ring == Ring(Local) IN
    IF gateway THEN Picked(ring, {i \in DOMAIN ring : ring[i].backend \in selected}) ELSE <<>>

Merge ==
    /\ parts # None /\ \A s \in DOMAIN parts : parts[s] # None
    /\ LET order == SetToSeq(DOMAIN parts)
           merged == FlattenSeq([i \in DOMAIN order |-> parts[order[i]]]) \o LocalDecisions
       IN  data' = IF gateway THEN SortByTimestampAsc(merged) ELSE merged
    /\ parts' = None
    /\ UNCHANGED <<gateway, selected, clock, judged, recorded, polls, failures>>

-----------------------------------------------------------------------------
(* The pages.                                                              *)

\* The rows of the decisions page.
Rows(filter) ==
    LET newestFirst == Reverse(data)
    IN  Picked(newestFirst, {i \in DOMAIN newestFirst : filter = "all" \/ newestFirst[i].outcome = filter})

\* The rows of the overview.
LatestRows == Reverse(Newest(data, Latest))

-----------------------------------------------------------------------------
Next ==
    \/ \E s \in Sources, b \in Backends, t \in Times :
          \E outcome \in Outcomes[s] : Judge(s, b, t, outcome)
    \/ \E d \in judged : Record(d)
    \/ Ask
    \/ \E s \in Backends : GetList(s)
    \/ \E s \in Backends : GetListFails(s)
    \/ Merge

Spec == Init /\ [][Next]_vars

-----------------------------------------------------------------------------
\* "Newer", as far as the pages can tell.  A time that is written with fewer
\* digits, which the other one begins with, is taken for the later one
\* (sortByTimestampAsc, gateway.go:1143-1147).
NotOlder(d, e) == d.time >= e.time \/ IsPrefix(Written(d.time), Written(e.time))

\* What the pages show of several indexers that are asked at different moments
\* and may fail is in the order of time, the newest first, whatever is
\* filtered, and no row of the overview is older than one that it leaves out;
\* of one indexer it is a stretch of its decisions, with none missing between
\* two that are shown.  Without a gateway the order is that of the ring.
NewestFirst ==
    /\ gateway =>
          /\ \A f \in Filters : \A i, j \in DOMAIN Rows(f) : i < j => NotOlder(Rows(f)[i], Rows(f)[j])
          /\ \A i \in DOMAIN LatestRows, j \in DOMAIN data :
                data[j] \in ToSet(LatestRows) \/ NotOlder(LatestRows[i], data[j])
    /\ \A s \in Sources : \A i, j, k \in DOMAIN recorded[s] :
          /\ i < j /\ j < k /\ {recorded[s][i], recorded[s][k]} \subseteq ToSet(data)
          /\ recorded[s][j].backend \in selected
          => recorded[s][j] \in ToSet(data)

=============================================================================
