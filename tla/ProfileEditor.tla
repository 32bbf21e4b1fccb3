---------------------------- MODULE ProfileEditor ----------------------------
(***************************************************************************)
(* The model profile page of the console (web/app/profiles/page.tsx): the  *)
(* profile of one model, which may live on several backends, is listed,    *)
(* edited in a sheet, saved, and moved to another backend by a save there  *)
(* followed by a deletion here.  Saves outlive the sheet that started      *)
(* them, and the save button stays enabled while one is under way.         *)
(*                                                                         *)
(* The backend's side of a save, UpsertModelProfile and the gateway's      *)
(* tokenizer assets, is part of the step.  Each backend has a cluster, and *)
(* so an asset, of its own; the sidecar that loads them and answers with   *)
(* the hash of the template has one tokenizer for the model, whichever     *)
(* cluster it came from.  The settings that share one fate (framework,     *)
(* hash profile, block size, seed, features) are one value.                *)
(***************************************************************************)
EXTENDS Naturals

CONSTANTS
    Backends,       \* enabled connections, numbered in the order of the list
    Virtual,        \* those of them that are virtual clusters
    Tabs,           \* browser tabs with the page open
    Saves,          \* saves, by number
    Settings,       \* values of the settings
    Endpoints,      \* values of the tokenizer endpoint
    Templates,      \* the chat templates, by their hashes
    MaxEvents,      \* bound on edits of forms, on failures, requests and restarts
    Start,          \* what the backends may have at first
    None            \* no row, no form, no asset, no endpoint, no template

ASSUME ProfileAssumption ==
    /\ Backends \subseteq Nat /\ None \notin Backends
    /\ Virtual \subseteq Backends

VARIABLES
    rows,           \* per backend: the profile it keeps
    assets,         \* per backend: its cluster's tokenizer asset, a zip and a template
    sidecar,        \* what the sidecar has loaded for the model
    list,           \* per tab: the rows the page shows
    form,           \* per tab: the form in the sheet
    save,           \* per save: its mutation
    crossed,        \* some save wrote where a move was about to delete
    events

vars == <<rows, assets, sidecar, list, form, save, crossed, events>>

Modes == {"remote", "local"}
Row == [version : Nat, mode : Modes, endpoint : Endpoints \cup {None},
        sha : Templates \cup {None}, settings : Settings]

Rows == [Backends -> Row \cup {None}]

\* An asset is stored with its zip; its template may be the one in the zip,
\* which has no hash.
Asset == [template : Templates \cup {None}]
AssetOf(template) == [template |-> template]

\* The files of a form.
Upload == [zip : BOOLEAN, template : Templates \cup {None}]
NoUpload == [zip |-> FALSE, template |-> None]

\* Rows are kept as the page saves them: a local profile without an endpoint,
\* a remote one without a hash.
AsSaved(r) == r # None => IF r.mode = "local" THEN r.endpoint = None ELSE r.sha = None

ASSUME StartAssumption ==
    /\ None \notin Row /\ None \notin Asset
    /\ Start \subseteq Rows
    /\ \A r \in Start :
          /\ \E b \in Backends : r[b] # None
          /\ \A b \in Backends : AsSaved(r[b])
          /\ \A b \in Virtual : r[b] # None => r[b].mode = "local"

Blank(v) == [version |-> 0, mode |-> "remote", endpoint |-> None, sha |-> None, settings |-> v]
NotStarted == [phase |-> "not started"]

Init ==
    /\ rows \in Start
    /\ assets = [b \in Backends |->
            IF rows[b] # None /\ rows[b].mode = "local" THEN AssetOf(rows[b].sha) ELSE None]
    /\ sidecar = None
    /\ list = [t \in Tabs |-> rows]
    /\ form = [t \in Tabs |-> None]
    /\ save = [j \in Saves |-> NotStarted]
    /\ crossed = FALSE
    /\ events = 0

-----------------------------------------------------------------------------
(* The list and the sheet.                                                 *)

Happens == events < MaxEvents /\ events' = events + 1

Poll(t) ==
    /\ list' = [list EXCEPT ![t] = rows]
    /\ UNCHANGED <<rows, assets, sidecar, form, save, crossed, events>>

\* An unreachable backend's rows are missing from the list.
PollWithout(t, b) ==
    /\ Happens
    /\ list' = [list EXCEPT ![t] = [rows EXCEPT ![b] = None]]
    /\ UNCHANGED <<rows, assets, sidecar, form, save, crossed>>

\* A virtual target takes local profiles only: the mode follows the target.
Forced(f) == IF f.target \in Virtual THEN [f EXCEPT !.row.mode = "local"] ELSE f

EditRow(t, b) ==
    /\ form[t] = None
    /\ list[t][b] # None
    /\ form' = [form EXCEPT ![t] = Forced([creating |-> FALSE, initial |-> b, target |-> b,
                                           row |-> list[t][b], upload |-> NoUpload])]
    /\ UNCHANGED <<rows, assets, sidecar, list, save, crossed, events>>

\* The target of a new profile is a backend of the selected cluster, or the
\* first one.
NewProfile(t, b, v) ==
    /\ form[t] = None
    /\ form' = [form EXCEPT ![t] = Forced([creating |-> TRUE, initial |-> None, target |-> b,
                                           row |-> Blank(v), upload |-> NoUpload])]
    /\ UNCHANGED <<rows, assets, sidecar, list, save, crossed, events>>

Cancel(t) ==
    /\ form[t] # None
    /\ form' = [form EXCEPT ![t] = None]
    /\ UNCHANGED <<rows, assets, sidecar, list, save, crossed, events>>

Edit(t, f) ==
    /\ Happens
    /\ form' = [form EXCEPT ![t] = Forced(f)]
    /\ UNCHANGED <<rows, assets, sidecar, list, save, crossed>>

SelectTarget(t, b) == form[t] # None /\ Edit(t, [form[t] EXCEPT !.target = b])

EditSettings(t, v) == form[t] # None /\ Edit(t, [form[t] EXCEPT !.row.settings = v])

\* The mode is not offered while the target is virtual.
EditMode(t, m) ==
    /\ form[t] # None /\ form[t].target \notin Virtual
    /\ Edit(t, [form[t] EXCEPT !.row.mode = m])

\* The endpoint is a field of remote profiles, files are one of local ones.
EditEndpoint(t, e) ==
    /\ form[t] # None /\ form[t].row.mode = "remote"
    /\ Edit(t, [form[t] EXCEPT !.row.endpoint = e])

ChooseZip(t) ==
    /\ form[t] # None /\ form[t].row.mode = "local"
    /\ Edit(t, [form[t] EXCEPT !.upload.zip = TRUE])

ChooseTemplate(t, h) ==
    /\ form[t] # None /\ form[t].row.mode = "local"
    /\ Edit(t, [form[t] EXCEPT !.upload.template = h])

-----------------------------------------------------------------------------
(* Saving.                                                                 *)

\* The row of the list that the form takes for the stored one: the first of
\* the model, of whichever backend.
Existing(t) ==
    LET of == {b \in Backends : list[t][b] # None} IN
    IF form[t].creating \/ of = {} THEN None
    ELSE list[t][CHOOSE b \in of : \A c \in of : b <= c]

\* Mistake: whatever was there is deleted.
MovingAnywhere(t) == Existing(t) # None /\ form[t].initial # None

MovingProfile(t) ==
    /\ Existing(t) # None
    /\ form[t].initial # None
    /\ form[t].target # form[t].initial

\* The fields that decide what a namespace means, and the page's copy of it.
AffectsHashNamespace(old, new) ==
    \/ old.mode # new.mode
    \/ old.endpoint # new.endpoint
    \/ old.sha # new.sha
    \/ old.settings # new.settings

\* Mistake: a change of the tokenizer does not count.
WillBumpBySettings(t) ==
    Existing(t) # None /\ Existing(t).settings # form[t].row.settings

WillBump(t) == Existing(t) # None /\ AffectsHashNamespace(Existing(t), form[t].row)

ProfileForSave(r) ==
    IF r.mode = "local" THEN [r EXCEPT !.endpoint = None] ELSE [r EXCEPT !.sha = None]

\* A form with files is sent as form data, which has no version.
Payload(f) ==
    IF f.row.mode = "local" /\ f.upload # NoUpload
    THEN [ProfileForSave(f.row) EXCEPT !.version = 0]
    ELSE ProfileForSave(f.row)

Save(t, j) ==
    /\ form[t] # None
    /\ save[j] = NotStarted
    /\ save' = [save EXCEPT ![j] =
            [phase |-> "post", tab |-> t, target |-> form[t].target,
             source |-> IF MovingProfile(t) THEN form[t].initial ELSE None,
             payload |-> Payload(form[t]),
             upload |-> IF form[t].row.mode = "local" THEN form[t].upload ELSE NoUpload,
             announced |-> WillBump(t), existing |-> Existing(t)]]
    /\ UNCHANGED <<rows, assets, sidecar, list, form, crossed, events>>

\* The zip and the template of a local profile: what was uploaded, what the
\* target's cluster has, or, if there is no zip yet, what the cluster has that
\* the profile moves from.
HasZip(j) ==
    \/ save[j].upload.zip
    \/ assets[save[j].target] # None
    \/ save[j].source # None /\ assets[save[j].source] # None

TemplateFor(j) ==
    LET own == assets[save[j].target] s == save[j].source IN
    IF save[j].upload.template # None THEN save[j].upload.template
    ELSE IF own # None THEN own.template
    ELSE IF ~save[j].upload.zip /\ s # None /\ assets[s] # None THEN assets[s].template
    ELSE None

\* What the sidecar has loaded after it was given an asset: a tokenizer that
\* is loaded already stays unless a template is given and is another.
Registered(template) ==
    IF sidecar # None /\ template \in {None, sidecar.template} THEN sidecar ELSE AssetOf(template)

\* Store.UpsertModelProfile
Upserted(old, p) ==
    IF old = None THEN [p EXCEPT !.version = IF p.version = 0 THEN 1 ELSE p.version]
    ELSE IF AffectsHashNamespace(old, p) THEN [p EXCEPT !.version = old.version + 1]
    ELSE [p EXCEPT !.version = IF p.version = 0 THEN old.version ELSE p.version]

\* The sidecar is given the tokenizer of a local profile, which is refused if
\* there is no zip for it.
Register(j) ==
    LET local == save[j].payload.mode = "local" IN
    /\ save[j].phase = "post"
    /\ local => HasZip(j)
    /\ sidecar' = IF local THEN Registered(TemplateFor(j)) ELSE sidecar

StoreAsset(j) ==
    /\ Register(j)
    /\ assets' = IF save[j].payload.mode = "local"
                 THEN [assets EXCEPT ![save[j].target] = AssetOf(TemplateFor(j))] ELSE assets

\* The profile is stored at its target; a local one with the hash that the
\* sidecar answers, of whatever it has loaded.
PostApplies(j) ==
    LET b == save[j].target
        p == save[j].payload
    IN  /\ StoreAsset(j)
        /\ rows' = [rows EXCEPT ![b] =
                Upserted(@, IF p.mode = "local" THEN [p EXCEPT !.sha = sidecar'.template] ELSE p)]
        /\ crossed' = (crossed \/ \E i \in Saves : save[i].phase = "delete" /\ save[i].source = b)

Ended == [phase |-> "ended"]

\* onDone closes the sheet, whichever form is in it by now.
Done(j) ==
    /\ save' = [save EXCEPT ![j] = Ended]
    /\ form' = [form EXCEPT ![save[j].tab] = None]

Fails(j) == Happens /\ save' = [save EXCEPT ![j] = Ended] /\ form' = form

Posted(j) ==
    /\ PostApplies(j)
    /\ IF save[j].source = None THEN Done(j)
       ELSE save' = [save EXCEPT ![j].phase = "delete"] /\ form' = form
    /\ UNCHANGED <<list, events>>

\* The answer is an error: the save was refused or did not arrive, failed
\* before the asset was stored or before the profile was, or its answer was
\* lost.
PostFails(j) ==
    /\ save[j].phase = "post"
    /\ \/ UNCHANGED <<rows, assets, sidecar, crossed>>
       \/ Register(j) /\ UNCHANGED <<rows, assets, crossed>>
       \/ StoreAsset(j) /\ UNCHANGED <<rows, crossed>>
       \/ PostApplies(j)
    /\ Fails(j)
    /\ UNCHANGED list

Deleted(j) ==
    /\ save[j].phase = "delete"
    /\ rows[save[j].source] # None
    /\ rows' = [rows EXCEPT ![save[j].source] = None]
    /\ Done(j)
    /\ UNCHANGED <<assets, sidecar, list, crossed, events>>

\* The row is gone already (404), the deletion did not arrive or its answer
\* was lost.
DeleteFails(j) ==
    /\ save[j].phase = "delete"
    /\ \/ rows' = rows
       \/ rows' = [rows EXCEPT ![save[j].source] = None]
    /\ Fails(j)
    /\ UNCHANGED <<assets, sidecar, list, crossed>>

-----------------------------------------------------------------------------
(* The sidecar, between the saves.                                         *)

\* A request of a cluster gives the sidecar the cluster's asset, if the gateway
\* does not take it for loaded (ensureLocalTokenizer).
Request(b) ==
    /\ Happens
    /\ assets[b] # None
    /\ sidecar' = Registered(assets[b].template)
    /\ UNCHANGED <<rows, assets, list, form, save, crossed>>

SidecarRestarts ==
    /\ Happens
    /\ sidecar' = None
    /\ UNCHANGED <<rows, assets, list, form, save, crossed>>

-----------------------------------------------------------------------------
FormNext(t) ==
    \/ Poll(t)
    \/ \E b \in Backends : PollWithout(t, b)
    \/ \E b \in Backends : EditRow(t, b)
    \/ \E b \in Backends, v \in Settings : NewProfile(t, b, v)
    \/ Cancel(t)
    \/ \E b \in Backends : SelectTarget(t, b)
    \/ \E v \in Settings : EditSettings(t, v)
    \/ \E m \in Modes : EditMode(t, m)
    \/ \E e \in Endpoints : EditEndpoint(t, e)
    \/ ChooseZip(t)
    \/ \E h \in Templates : ChooseTemplate(t, h)
    \/ \E j \in Saves : Save(t, j)

SaveNext(j) == Posted(j) \/ PostFails(j) \/ Deleted(j) \/ DeleteFails(j)

SidecarNext == SidecarRestarts \/ \E b \in Backends : Request(b)

Next == (\E t \in Tabs : FormNext(t)) \/ (\E j \in Saves : SaveNext(j)) \/ SidecarNext

Spec == Init /\ [][Next]_vars

-----------------------------------------------------------------------------
\* A profile that was there is somewhere, whatever fails in the middle of a
\* move, however often it is repeated, and whoever else saves.  The exception
\* is a save that writes where another move is about to delete: of two moves
\* in opposite directions each deletes what the other one wrote
\* (profiles/page.tsx:313-320).
ProfileSurvives == crossed \/ \E b \in Backends : rows[b] # None

\* A row whose hash is that of its cluster's asset, or that has none while the
\* sidecar has none for the model.
HashIsOwn(b) ==
    /\ assets[b] # None
    /\ rows[b].sha = assets[b].template
    /\ assets[b].template = None => sidecar \in {None, AssetOf(None)}

\* The store does not move a profile to a new namespace without the form
\* having said so: a save that changes the meaning of what the target keeps
\* showed the warning of a new version, whatever is uploaded, loaded and
\* restarted elsewhere.  The exceptions are the ones the page
\* cannot see: the row it compared with was not the target's row of now (the
\* list was older, or it was another backend's), the save is a move, which
\* brings the version of its source along, a file was uploaded, an earlier
\* upload had failed halfway and left its asset behind, the form brings the
\* later version of a profile that was deleted and made again meanwhile, or
\* the profile has no template of its own: it takes the hash of the one that
\* another cluster had loaded for the model (server.py:371-380), and with it a
\* new namespace, and loses it with the next save after that is gone
\* (willBump at profiles/page.tsx:330-341, affectsHashNamespace).
NoSilentBump ==
    [][\A j \in Saves : \A b \in Backends :
          /\ save[j].phase = "post" /\ save'[j] # save[j] /\ save[j].target = b
          /\ rows[b] # None /\ save[j].existing = rows[b]
          /\ save[j].source = None /\ save[j].upload = NoUpload
          /\ rows[b].mode = "local" => HashIsOwn(b)
          /\ save[j].payload.version <= rows[b].version
          /\ rows'[b].version > rows[b].version
          => save[j].announced]_vars

=============================================================================
