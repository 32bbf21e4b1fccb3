------------------------------ MODULE EventFeed ------------------------------
(***************************************************************************)
(* The event list of the streams page (web/app/streams/page.tsx), which    *)
(* has two sources: the recent events, polled, and the live stream of      *)
(* server-sent events.  A poll replaces the list when its answer differs   *)
(* from the one before; a live event is appended.  The indexer's side, its *)
(* ring of recent events and the fan-out to subscribers, is part of the    *)
(* steps (internal/httpapi/service.go, kv_event_handlers.go).  A listener  *)
(* takes the time of an event before the ring takes the event, so that the *)
(* order of the times is another than that of the ring.                    *)
(*                                                                         *)
(* A gateway asks each backend of the selection at a moment of its own,    *)
(* leaves out those that fail, and sorts what it has by the text of the    *)
(* times (internal/gateway/gateway.go).  Every event it answers carries    *)
(* the tag of its backend and a live one does not, and the key of an event *)
(* has the tag in it.  The page shows the events that were indexed, the    *)
(* others or all of them, ten at a time, and one of them in a sheet.       *)
(***************************************************************************)
EXTENDS Naturals, Sequences, FiniteSets, SequencesExt, ListFilter

CONSTANTS
    Clusters,       \* each with one backend
    Kinds,          \* which events may happen first, second and so on, and so a bound on
                    \* them: of a cluster, indexed or not, at a time
    Cap,            \* 100 in the code: the answer and the list; the ring is longer
    QueueCap,       \* 256 in the code: what a subscriber may lag behind
    EventsPerPage,  \* 10 in the code
    MaxEvents,      \* bound on failures and switches
    MaxClicks,      \* bound on filters chosen and events opened
    NoData, Idle    \* nothing cached, or no answer yet; nothing under way, no sheet

VARIABLES
    gateway,        \* whether there is a gateway, and with it a selection
    happened,       \* what the listeners observed, in the order of the rings
    selection,
    data,           \* per selection: the cached answer of the recent events
    flight,         \* per selection: the poll under way, with the answer of each indexer asked
    live,           \* the list of the page
    filter, page,   \* the part of it on screen
    detail,         \* the event in the sheet, and whether its list was left over from
                    \* the selection before
    late,           \* whether a newer event gave way to an older one since the list was replaced
    stream,         \* the live stream: of which selection, and what is on its way
    events, clicks

vars == <<gateway, happened, selection, data, flight, live, filter, page, detail, late, stream, events,
          clicks>>

All == "all"
Keys == Clusters \cup {All}
Filters == {"yes", "no", "all"}
Newest(s) == SubSeq(s, IF Len(s) > Cap THEN Len(s) - Cap + 1 ELSE 1, Len(s))

InScope(k, e) == k = All \/ e.cluster = k

\* The indexers that are asked.  Without a gateway there is one, for all.
Sources(k) == IF gateway /\ k = All THEN Clusters ELSE {k}

Asked(k) == [s \in Sources(k) |-> NoData]

\* RecentKVEvents: the end of the ring, in the order of time.
Ring(s) == Picked(happened, {i \in DOMAIN happened : InScope(s, happened[i])})

Observed(s) == SliceStable(Newest(Ring(s)), ByTime)

Tagged(l) == [i \in DOMAIN l |-> [l[i] EXCEPT !.tagged = TRUE]]

SortByObservedAtAsc(items) == SliceStable(items, ByText)

Merged(parts) ==
    LET order == SetToSeq(DOMAIN parts)
    IN  IF gateway
        THEN SortByObservedAtAsc(FlattenSeq([i \in DOMAIN order |-> Tagged(parts[order[i]])]))
        ELSE parts[All]

Closed == [of |-> Idle, queue |-> <<>>]
Opened(k) == [of |-> k, queue |-> <<>>]

\* canStream: one backend at a time.
CanStream(k) == ~(gateway /\ k = All)

Init ==
    /\ gateway \in BOOLEAN
    /\ happened = <<>>
    /\ selection \in IF gateway THEN Keys ELSE {All}
    /\ data = [k \in Keys |-> NoData]
    /\ flight = [k \in Keys |-> IF k = selection THEN Asked(k) ELSE Idle]
    /\ live = <<>> /\ filter = "yes" /\ page = 1 /\ detail = Idle /\ late = FALSE
    /\ stream = IF CanStream(selection) THEN Opened(selection) ELSE Closed
    /\ events = 0 /\ clicks = 0

Happens == events < MaxEvents /\ events' = events + 1 /\ clicks' = clicks
Clicks == clicks < MaxClicks /\ clicks' = clicks + 1 /\ events' = events

\* Events are recorded, and fanned out to the subscriber unless it lags.
RecordKVEvent(c, indexed, t) ==
    /\ LET e == [cluster |-> c, n |-> Len(happened) + 1, time |-> t, indexed |-> indexed,
                 tagged |-> FALSE] IN
       /\ happened' = Append(happened, e)
       /\ stream' = IF stream.of # Idle /\ InScope(stream.of, e) /\ Len(stream.queue) < QueueCap
                    THEN [stream EXCEPT !.queue = Append(@, e)] ELSE stream
    /\ UNCHANGED <<gateway, selection, data, flight, live, filter, page, detail, late, events, clicks>>

-----------------------------------------------------------------------------
(* The list on screen, the newest event first.                             *)

Filtered(l) ==
    Picked(l, {i \in DOMAIN l : filter = "all" \/ l[i].indexed = (filter = "yes")})

Pages(l) == IF l = <<>> THEN 1 ELSE (Len(l) - 1) \div EventsPerPage + 1

PagedEvents(l, p) ==
    LET newestFirst == Reverse(l)
        onPage == {i \in DOMAIN newestFirst : (i - 1) \div EventsPerPage = p - 1}
    IN  {newestFirst[i] : i \in onPage}

OnScreen == PagedEvents(Filtered(live), page)

\* Mistake: a list of one page has no pager, and so no effect of it.
TurnedUnpaged(l, p) == IF p > Pages(l) /\ Pages(l) > 1 THEN Pages(l) ELSE p

\* The effect of the pager, which only a list with events has.
Turned(l, p) == IF p > Pages(l) /\ l # <<>> THEN Pages(l) ELSE p

\* A new list.
Show(l, p) == live' = l /\ page' = Turned(Filtered(live'), p)

TurnPage(p) ==
    /\ Filtered(live) # <<>>
    /\ p \in {page - 1, page + 1} \cap 1..Pages(Filtered(live))
    /\ page' = p
    /\ UNCHANGED <<gateway, happened, selection, data, flight, live, filter, detail, late, stream, events, clicks>>

SetFilter(f) ==
    /\ Clicks
    /\ f # filter
    /\ filter' = f
    /\ page' = 1
    /\ UNCHANGED <<gateway, happened, selection, data, flight, live, detail, late, stream>>

OpenDetail(e) ==
    /\ Clicks
    /\ detail = Idle
    /\ detail' = [event |-> e, leftOver |-> data[selection] = NoData]
    /\ UNCHANGED <<gateway, happened, selection, data, flight, live, filter, page, late, stream>>

CloseDetail ==
    /\ detail # Idle
    /\ detail' = Idle
    /\ UNCHANGED <<gateway, happened, selection, data, flight, live, filter, page, late, stream, events, clicks>>

-----------------------------------------------------------------------------
(* Polling.                                                                *)

Poll ==
    /\ flight[selection] = Idle
    /\ flight' = [flight EXCEPT ![selection] = Asked(selection)]
    /\ UNCHANGED <<gateway, happened, selection, data, live, filter, page, detail, late, stream, events, clicks>>

\* The button asks as well, and goes to the first page.
Query ==
    /\ flight[selection] = Idle
    /\ flight' = [flight EXCEPT ![selection] = Asked(selection)]
    /\ page' = 1
    /\ UNCHANGED <<gateway, happened, selection, data, live, filter, detail, late, stream, events, clicks>>

Asks(k, s) == flight[k] # Idle /\ s \in DOMAIN flight[k] /\ flight[k][s] = NoData

GetList(k, s) ==
    /\ Asks(k, s)
    /\ flight' = [flight EXCEPT ![k][s] = Observed(s)]
    /\ UNCHANGED <<gateway, happened, selection, data, live, filter, page, detail, late, stream, events, clicks>>

\* A gateway leaves out an indexer that fails, be it the only one.
GetListFails(k, s) ==
    /\ gateway /\ Asks(k, s)
    /\ Happens
    /\ flight' = [flight EXCEPT ![k][s] = <<>>]
    /\ UNCHANGED <<gateway, happened, selection, data, live, filter, page, detail, late, stream>>

\* An answer like the one before is shared with it: no effect runs.
Install(k) ==
    /\ flight[k] # Idle /\ \A s \in DOMAIN flight[k] : flight[k][s] # NoData
    /\ data' = [data EXCEPT ![k] = Merged(flight[k])]
    /\ IF k = selection /\ data'[k] # data[k]
       THEN Show(Newest(data'[k]), page) /\ late' = FALSE
       ELSE UNCHANGED <<live, page, late>>
    /\ flight' = [flight EXCEPT ![k] = Idle]
    /\ UNCHANGED <<gateway, happened, selection, filter, detail, stream, events, clicks>>

FetchFails(k) ==
    /\ flight[k] # Idle
    /\ Happens
    /\ flight' = [flight EXCEPT ![k] = Idle]
    /\ UNCHANGED <<gateway, happened, selection, data, live, filter, page, detail, late, stream>>

-----------------------------------------------------------------------------
(* The live stream.                                                        *)

\* Mistake: every message is appended.
AppendAlways(prev, e) == Newest(Append(prev, e))

AppendEvent(prev, e) == IF Contains(prev, e) THEN prev ELSE Newest(Append(prev, e))

Message ==
    /\ stream.queue # <<>>
    /\ Show(AppendEvent(live, Head(stream.queue)), page)
    /\ late' = (late \/ \E e \in ToSet(live) \ ToSet(live') : e.n > Head(stream.queue).n)
    /\ stream' = [stream EXCEPT !.queue = Tail(@)]
    /\ UNCHANGED <<gateway, happened, selection, data, flight, filter, detail, events, clicks>>

\* EventSource connects again; nothing is sent twice, and what happened in
\* between is not sent at all.
StreamBreaks ==
    /\ stream.of # Idle
    /\ Happens
    /\ stream' = Closed
    /\ UNCHANGED <<gateway, happened, selection, data, flight, live, filter, page, detail, late>>

Reconnects ==
    /\ CanStream(selection) /\ stream.of = Idle
    /\ stream' = Opened(selection)
    /\ UNCHANGED <<gateway, happened, selection, data, flight, live, filter, page, detail, late, events, clicks>>

-----------------------------------------------------------------------------
(* Another selection.                                                      *)

\* Mistake: the stream is kept as long as there may be one.
KeptStream(k) == IF ~CanStream(k) THEN Closed ELSE IF stream.of # Idle THEN stream ELSE Opened(k)

\* The stream of the selection before is closed, with what was on its way.
NewStream(k) == IF CanStream(k) THEN Opened(k) ELSE Closed

\* The effect of the list runs unless there is no data before and after.  A
\* selection without data is fetched at once, one with data may be.
Select(k) ==
    /\ gateway /\ k # selection
    /\ Happens
    /\ selection' = k
    /\ IF data[k] = NoData /\ data[selection] = NoData
       THEN Show(live, 1) /\ UNCHANGED late
       ELSE Show(IF data[k] = NoData THEN <<>> ELSE Newest(data[k]), 1) /\ late' = FALSE
    /\ detail' = Idle
    /\ stream' = NewStream(k)
    /\ \/ flight' = IF flight[k] = Idle THEN [flight EXCEPT ![k] = Asked(k)] ELSE flight
       \/ data[k] # NoData /\ flight' = flight
    /\ UNCHANGED <<gateway, happened, data, filter>>

-----------------------------------------------------------------------------
Next ==
    \/ /\ Len(happened) < Len(Kinds)
       /\ \E kind \in Kinds[Len(happened) + 1] : RecordKVEvent(kind[1], kind[2], kind[3])
    \/ \E p \in 1..Cap : TurnPage(p)
    \/ \E f \in Filters : SetFilter(f)
    \/ \E e \in OnScreen : OpenDetail(e)
    \/ CloseDetail
    \/ Poll
    \/ Query
    \/ \E k, s \in Keys : GetList(k, s)
    \/ \E k, s \in Keys : GetListFails(k, s)
    \/ \E k \in Keys : Install(k)
    \/ \E k \in Keys : FetchFails(k)
    \/ Message
    \/ StreamBreaks
    \/ Reconnects
    \/ \E k \in Keys : Select(k)

Fairness ==
    /\ WF_vars(Poll) /\ WF_vars(Message) /\ WF_vars(Reconnects)
    /\ WF_vars(\E k, s \in Keys : GetList(k, s))
    /\ WF_vars(\E k \in Keys : Install(k))

Spec == Init /\ [][Next]_vars /\ Fairness

-----------------------------------------------------------------------------
\* The list and the event in the sheet are of the selection, whatever is
\* polled, streamed and under way when the selection changes.  The exception is
\* a selection that has no answer yet: if the one before had none either, its
\* live events stay until the first answer, and one of them that was opened
\* stays open after it (streams/page.tsx:91-124).
OnlySelected ==
    /\ data[selection] # NoData => \A i \in DOMAIN live : InScope(selection, live[i])
    /\ detail # Idle => detail.leftOver \/ InScope(selection, detail.event)

\* What the page should have of a selection.
Recent(k) == Newest(Merged([s \in Sources(k) |-> Observed(s)]))

HasNewest(k) == Ring(k) # <<>> => \E e \in ToSet(live) : e.n = Ring(k)[Len(Ring(k))].n

\* Whatever was lost, broken or switched, and whichever indexers failed or were
\* asked at other moments, an operator who waits sees the recent events of the
\* selection, once each and in the order they are answered in, and is on a page
\* of the filtered list that has some.  Where a gateway and a live stream come
\* together an event has two keys (eventKey, streams/page.tsx:50-52) and may
\* stay twice, so that older ones are missing; there the newest event is
\* somewhere in the list.  It need not be the last one, for the gateway goes by
\* the text of the times (gateway.go:1149-1153), and of all clusters it may
\* even be cut off (streams/page.tsx:90).  And what a burst put in the place of
\* newer events stays until another event changes the answer, a subscriber being allowed
\* to lag further behind than the list is long (service.go:141 and
\* streams/page.tsx:56).
Shown ==
    \/ late
    \/ /\ IF gateway /\ CanStream(selection) THEN HasNewest(selection) ELSE live = Recent(selection)
       /\ Filtered(live) # <<>> => OnScreen # {}

EventuallyShown == <>[]Shown

=============================================================================
