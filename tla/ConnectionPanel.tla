--------------------------- MODULE ConnectionPanel ---------------------------
(***************************************************************************)
(* One connection of the gateway's registry: the panel of the console that *)
(* adds, edits, switches and removes it (web/app/engines/page.tsx), and    *)
(* the gateway's handlers and store, which take several steps in the       *)
(* database without a transaction (internal/gateway/gateway.go, store.go). *)
(*                                                                         *)
(* The page is told whether there is a token, never the token.  What a     *)
(* request leaves out the gateway fills in from the stored connection.     *)
(* A virtual connection has a configuration, here the profiles in it,      *)
(* which the profile page writes.  The id is given; the cluster, which is  *)
(* sent as the url is, is left out.                                        *)
(***************************************************************************)
EXTENDS Naturals

CONSTANTS
    Tabs,           \* browser tabs with the console open
    Urls, Tokens, Names, Profiles,
    MaxEvents,      \* bound on requests and failures
    None, Idle      \* nothing stored, entered or sent; no request

VARIABLES
    conn,           \* the stored connection
    config,         \* its virtual configuration: a set of profiles
    list,           \* per tab: what the page was told of the connection
    form,           \* per tab: the draft in the sheet
    call,           \* per tab and button: the request under way
    saved,          \* the profiles that were saved and that page was told so
    crossed,        \* requests overlapped between their steps
    failed,         \* a request failed between its steps
    events

vars == <<conn, config, list, form, call, saved, crossed, failed, events>>

Buttons == {"save", "toggle", "remove", "profile"}

\* A connection, what a form has of it, and what is sent of it.
Connection == [kind : {"backend", "virtual"}, url : Urls \cup {None}, token : Tokens \cup {None},
               name : Names \cup {None}, enabled : BOOLEAN]

Config == (SUBSET Profiles) \cup {None}

\* Requests, and how far the gateway is with them.
Upserts == [phase : {"read", "store", "ensure", "put"}, body : Connection,
            existing : Connection \cup {None}, config : Config]
Removals == [phase : {"delete", "config"}]
ProfileWrites == [phase : {"get"}, profile : Profiles, config : {None}]
            \cup [phase : {"put"}, profile : Profiles, config : SUBSET Profiles]

\* What the list shows of a connection.
View(c) == IF c = None THEN None ELSE [kind |-> c.kind, url |-> c.url, name |-> c.name, enabled |-> c.enabled]

\* No connection, a backend, or a virtual one with its configuration.
Init ==
    /\ conn \in {None} \cup [kind : {"backend"}, url : Urls, token : Tokens, name : {None}, enabled : {TRUE}]
                    \cup [kind : {"virtual"}, url : {None}, token : {None}, name : {None}, enabled : {TRUE}]
    /\ config = IF conn # None /\ conn.kind = "virtual" THEN {} ELSE None
    /\ list = [t \in Tabs |-> View(conn)]
    /\ form = [t \in Tabs |-> None]
    /\ call = [t \in Tabs |-> [k \in Buttons |-> Idle]]
    /\ saved = {}
    /\ crossed = FALSE /\ failed = FALSE
    /\ events = 0

Happens == events < MaxEvents /\ events' = events + 1

-----------------------------------------------------------------------------
(* The panel.                                                              *)

Poll(t) ==
    /\ list' = [list EXCEPT ![t] = View(conn)]
    /\ UNCHANGED <<conn, config, form, call, saved, crossed, failed, events>>

Sheet(t, draft) ==
    /\ form' = [form EXCEPT ![t] = draft]
    /\ UNCHANGED <<conn, config, list, call, saved, crossed, failed, events>>

\* A new connection may be given an id that is taken.
OpenNew(t, kind, url) ==
    /\ form[t] = None
    /\ Sheet(t, [kind |-> kind, url |-> url, name |-> None, token |-> None, enabled |-> TRUE])

OpenEdit(t) ==
    /\ form[t] = None /\ list[t] # None
    /\ Sheet(t, [kind |-> list[t].kind, url |-> list[t].url, name |-> list[t].name, token |-> None,
                 enabled |-> list[t].enabled])

\* One field after the other, those of the kind.
EditDraft(t) ==
    /\ form[t] # None
    /\ \E u \in Urls, k \in Tokens \cup {None}, n \in Names \cup {None}, e \in BOOLEAN :
          Sheet(t, IF form[t].kind = "virtual" THEN [form[t] EXCEPT !.name = n, !.enabled = e]
                   ELSE [form[t] EXCEPT !.url = u, !.token = k, !.enabled = e])

Close(t) == form[t] # None /\ Sheet(t, None)

\* Mistake: the empty field of the form is sent as an empty token.
BodyWithToken(draft) ==
    [kind |-> draft.kind, enabled |-> draft.enabled,
     name |-> IF draft.kind = "virtual" THEN draft.name ELSE None,
     url |-> IF draft.kind = "virtual" THEN None ELSE draft.url,
     token |-> IF draft.token = None THEN "" ELSE draft.token]

\* What is blank is left out.
Body(draft) ==
    [kind |-> draft.kind, enabled |-> draft.enabled,
     name |-> IF draft.kind = "virtual" THEN draft.name ELSE None,
     url |-> IF draft.kind = "virtual" THEN None ELSE draft.url,
     token |-> IF draft.kind = "virtual" THEN None ELSE draft.token]

Send(t, k, request) ==
    /\ call[t][k] = Idle
    /\ Happens
    /\ call' = [call EXCEPT ![t][k] = request]
    /\ UNCHANGED <<conn, config, list, form, saved, crossed, failed>>

Upsert(body) == [phase |-> "read", body |-> body, existing |-> None, config |-> None]

Submit(t) == form[t] # None /\ Send(t, "save", Upsert(Body(form[t])))

\* The whole row is sent, as it is shown.
Toggle(t) ==
    /\ form[t] = None /\ list[t] # None
    /\ Send(t, "toggle", Upsert([kind |-> list[t].kind, enabled |-> ~list[t].enabled, name |-> list[t].name,
                                 url |-> IF list[t].kind = "virtual" THEN None ELSE list[t].url,
                                 token |-> None]))

Remove(t) == form[t] = None /\ list[t] # None /\ Send(t, "remove", [phase |-> "delete"])

\* A save of the profile page, or any other write of the configuration.
SaveProfile(t, p) == Send(t, "profile", [phase |-> "get", profile |-> p, config |-> None])

-----------------------------------------------------------------------------
(* The gateway.                                                            *)

Waiting == {"read", "delete", "get"}
UnderWay(t, k) == call[t][k] # Idle /\ call[t][k].phase \notin Waiting

\* A request that starts while another one is between its steps.
Begins(t, k) ==
    crossed' = (crossed \/ \E u \in Tabs, l \in Buttons : <<u, l>> # <<t, k>> /\ UnderWay(u, l))

Goes(t, k, request) == call' = [call EXCEPT ![t][k] = request]

\* Answered: the save of the sheet closes it, whatever it shows by now.
Answers(t, k) ==
    /\ Goes(t, k, Idle)
    /\ form' = IF k = "save" THEN [form EXCEPT ![t] = None] ELSE form

\* handleUpsertConnection looks for the stored connection.
ReadExisting(t, k) ==
    /\ k \in {"save", "toggle"} /\ call[t][k] # Idle /\ call[t][k].phase = "read"
    /\ Goes(t, k, [call[t][k] EXCEPT !.phase = "store", !.existing = conn])
    /\ Begins(t, k)
    /\ UNCHANGED <<conn, config, list, form, saved, failed, events>>

Or(field, default) == IF field = None THEN default ELSE field

\* What is left out stays as it was; a virtual connection has no address.
Merged(body, existing) ==
    LET old(f) == IF existing = None THEN None ELSE existing[f] IN
    [kind    |-> body.kind,
     url     |-> IF body.kind = "virtual" THEN None ELSE Or(body.url, old("url")),
     token   |-> IF body.kind = "virtual" THEN None ELSE Or(body.token, old("token")),
     name    |-> Or(body.name, old("name")),
     enabled |-> body.enabled]

\* A backend without a url is refused.
StoreConnection(t, k) ==
    /\ k \in {"save", "toggle"} /\ UnderWay(t, k) /\ call[t][k].phase = "store"
    /\ LET c == Merged(call[t][k].body, call[t][k].existing) IN
       /\ c.kind = "backend" => c.url # None
       /\ conn' = c
       /\ IF c.kind = "virtual"
          THEN Goes(t, k, [call[t][k] EXCEPT !.phase = "ensure"]) /\ form' = form
          ELSE Answers(t, k)
    /\ UNCHANGED <<config, list, saved, crossed, failed, events>>

\* ensureVirtualConfig reads the configuration and writes it back with the
\* cluster of the connection in it.
EnsureReads(t, k) ==
    /\ k \in {"save", "toggle"} /\ UnderWay(t, k) /\ call[t][k].phase = "ensure"
    /\ Goes(t, k, [call[t][k] EXCEPT !.phase = "put", !.config = config])
    /\ UNCHANGED <<conn, config, list, form, saved, crossed, failed, events>>

\* Mistake: the configuration is made anew.
EnsuredAnew(read) == {}

Ensured(read) == IF read = None THEN {} ELSE read

EnsurePuts(t, k) ==
    /\ k \in {"save", "toggle"} /\ UnderWay(t, k) /\ call[t][k].phase = "put"
    /\ config' = Ensured(call[t][k].config)
    /\ Answers(t, k)
    /\ UNCHANGED <<conn, list, saved, crossed, failed, events>>

DeleteConnection(t) ==
    /\ call[t]["remove"] # Idle /\ call[t]["remove"].phase = "delete"
    /\ conn' = None
    /\ saved' = {}
    /\ Goes(t, "remove", [phase |-> "config"])
    /\ Begins(t, "remove")
    /\ UNCHANGED <<config, list, form, failed, events>>

DeleteConfig(t) ==
    /\ UnderWay(t, "remove")
    /\ config' = None
    /\ Answers(t, "remove")
    /\ UNCHANGED <<conn, list, saved, crossed, failed, events>>

\* UpsertVirtualModelProfile reads the configuration, for a virtual
\* connection that has one.
GetConfig(t) ==
    /\ call[t]["profile"] # Idle /\ call[t]["profile"].phase = "get"
    /\ conn # None /\ conn.kind = "virtual" /\ config # None
    /\ Goes(t, "profile", [call[t]["profile"] EXCEPT !.phase = "put", !.config = config])
    /\ Begins(t, "profile")
    /\ UNCHANGED <<conn, config, list, form, saved, failed, events>>

PutConfig(t) ==
    /\ UnderWay(t, "profile")
    /\ config' = call[t]["profile"].config \cup {call[t]["profile"].profile}
    /\ saved' = saved \cup {call[t]["profile"].profile}
    /\ Answers(t, "profile")
    /\ UNCHANGED <<conn, list, crossed, failed, events>>

\* A request is refused, does not arrive, or fails between its steps.
Fails(t, k) ==
    /\ call[t][k] # Idle
    /\ Happens
    /\ Goes(t, k, Idle)
    /\ failed' = (failed \/ UnderWay(t, k))
    /\ UNCHANGED <<conn, config, list, form, saved, crossed>>

-----------------------------------------------------------------------------
PanelNext(t) ==
    \/ Poll(t)
    \/ \E kind \in {"backend", "virtual"}, u \in Urls : OpenNew(t, kind, u)
    \/ OpenEdit(t)
    \/ EditDraft(t)
    \/ Close(t)
    \/ Submit(t)
    \/ Toggle(t)
    \/ Remove(t)
    \/ \E p \in Profiles : SaveProfile(t, p)

GatewayNext(t) ==
    \/ \E k \in Buttons : ReadExisting(t, k)
    \/ \E k \in Buttons : StoreConnection(t, k)
    \/ \E k \in Buttons : EnsureReads(t, k)
    \/ \E k \in Buttons : EnsurePuts(t, k)
    \/ DeleteConnection(t)
    \/ DeleteConfig(t)
    \/ GetConfig(t)
    \/ PutConfig(t)
    \/ \E k \in Buttons : Fails(t, k)

Next == \E t \in Tabs : PanelNext(t) \/ GatewayNext(t)

Spec == Init /\ [][Next]_vars

-----------------------------------------------------------------------------
\* The token of a connection outlives every change made by pages that never
\* know it: it is another one only if one was entered, or if the id was given
\* to a virtual connection.  The exception is requests that overlap in the
\* gateway, of which one may write back what it read before the other
\* (gateway.go:1068-1075 and 1107-1112, engines/page.tsx:414-416).
TokenSurvives ==
    [][\/ conn = None \/ conn' = None \/ conn'.token = conn.token \/ conn'.kind = "virtual" \/ crossed
       \/ \E t \in Tabs, k \in Buttons :
             /\ UnderWay(t, k) /\ call'[t][k] # call[t][k] /\ call[t][k].phase = "store"
             /\ call[t][k].body.token = conn'.token /\ conn'.token \in Tokens]_vars

\* Profiles saved on a virtual connection stay with it until it is removed,
\* however often it is switched and edited, and a virtual connection can take
\* profiles: it has a configuration.  The exceptions are requests that
\* overlap, since the configuration is read and written back as a whole, and a
\* request that fails between its two writes (store.go:255-277, 345-352 of the
\* gateway's store and UpsertVirtualModelProfile).
ConfigSurvives ==
    /\ conn # None /\ conn.kind = "virtual"
    /\ ~crossed /\ ~failed
    /\ \A t \in Tabs, k \in Buttons : ~UnderWay(t, k)
    => config # None /\ saved \subseteq config

=============================================================================
