----------------------------- MODULE PolicyEditor -----------------------------
(***************************************************************************)
(* The policy page of the console (web/app/policies/page.tsx): one         *)
(* admission rule, which may be stored at several backends, is listed,     *)
(* toggled and deleted in its row, and created and edited in a form that   *)
(* takes the rule apart into texts and puts it together again.             *)
(*                                                                         *)
(* A text is the sequence of its comma-separated parts, which have no      *)
(* commas of their own.                                                    *)
(***************************************************************************)
EXTENDS PolicyRules, FiniteSets

CONSTANTS
    Start,          \* what the backends may have at first: rules, or None
    Tabs,           \* browser tabs with the page open
    MaxForms,       \* bound on forms opened
    MaxEvents       \* bound on edits, row operations, switches and failures

VARIABLES
    rules,          \* per backend: the rule it stores
    list,           \* per tab: the rules the page shows
    form,           \* per tab: the form in the sheet
    calls,          \* the mutations under way
    selected,       \* per tab: the cluster selection
    opened, events

vars == <<rules, list, form, calls, selected, opened, events>>

-----------------------------------------------------------------------------
(* From the rule to the form and back.                                     *)

\* A condition without an operator is "eq" to both sides.
Condition(field, op, text) == [field |-> field, op |-> op, text |-> text]
DefaultCondition == Condition("input_tokens", "gte", <<"256">>)

DefaultConditions(cluster) ==
    IF cluster = "all" THEN <<DefaultCondition>>
    ELSE <<Condition("cluster_id", "eq", <<cluster>>), DefaultCondition>>

DefaultOpForField(f) == IF NumericField(f) THEN "gte" ELSE "eq"

DefaultValueForField(f) ==
    IF NumericField(f) THEN <<"256">> ELSE IF BooleanField(f) THEN <<"true">> ELSE <<>>

NamesCluster(c) == c.field = "cluster_id" /\ c.op = "eq" /\ c.text # <<>>

\* Mistake: every condition on the cluster goes into the scope.
ExtractAllClusters(conditions) ==
    LET i == SelectInSeq(conditions, NamesCluster)
        Other(c) == c.field # "cluster_id"
    IN  [scope      |-> IF i = 0 THEN <<>> ELSE conditions[i].text,
         conditions |-> SelectSeq(conditions, Other)]

\* The first condition that names a cluster is shown as the scope.
ExtractScopeCluster(conditions) ==
    LET i == SelectInSeq(conditions, NamesCluster) IN
    [scope      |-> IF i = 0 THEN <<>> ELSE conditions[i].text,
     conditions |-> IF i = 0 THEN conditions ELSE RemoveAt(conditions, i)]

Absent(type) == [type |-> type, minHitRatio |-> None, onLowHit |-> None, onUncertain |-> None]

\* A rule without conditions comes without the field, and so looks like a new
\* one.  valueToInput writes a value as its parts.
FormStateFromPolicy(initial, cluster) ==
    LET Draft(c) == Condition(c.field, c.op, c.value.parts)
        of == IF initial = None THEN DefaultConditions(cluster)
              ELSE IF initial.conditions = <<>> THEN DefaultConditions(cluster)
              ELSE [i \in DOMAIN initial.conditions |-> Draft(initial.conditions[i])]
        action == IF initial = None THEN Absent("require_cache_hit") ELSE initial.action
    IN  [scope      |-> ExtractScopeCluster(of).scope,
         conditions |-> ExtractScopeCluster(of).conditions,
         action     |-> [type        |-> action.type,
                         minHitRatio |-> Or(action.minHitRatio, 50),
                         onLowHit    |-> Or(action.onLowHit, "reject"),
                         onUncertain |-> Or(action.onUncertain, "fallback_accept")],
         enabled    |-> initial = None \/ initial.enabled]

\* Number("") is 0; what is no number, several parts for example, is sent as
\* null: a scalar without parts.
ParseSingleValue(field, text) ==
    CASE NumericField(field) -> IF text = <<>> THEN <<"0">>
                                ELSE IF Len(text) = 1 /\ text[1] \in DOMAIN Number THEN text ELSE <<>>
      [] BooleanField(field) -> IF text = <<"true">> THEN text ELSE <<"false">>
      [] OTHER               -> text

\* Mistake: a list is sent as the scalar that is written in the form.
ParseAsScalar(field, op, text) == [list |-> FALSE, parts |-> ParseSingleValue(field, text)]

ParseConditionValue(field, op, text) ==
    IF op \notin {"in", "not_in"} THEN [list |-> FALSE, parts |-> ParseSingleValue(field, text)]
    ELSE IF text = <<>> THEN [list |-> TRUE, parts |-> ParseSingleValue(field, text)]
    ELSE [list |-> TRUE, parts |-> FlattenSeq([i \in DOMAIN text |-> ParseSingleValue(field, <<text[i]>>)])]

PayloadFromForm(f) ==
    LET Parsed(c) == [field |-> c.field, op |-> c.op, value |-> ParseConditionValue(c.field, c.op, c.text)]
        inScope == Parsed(Condition("cluster_id", "eq", f.scope))
        others == [i \in DOMAIN f.conditions |-> Parsed(f.conditions[i])]
    IN  [conditions |-> IF f.scope = <<>> THEN others ELSE <<inScope>> \o others,
         action     |-> IF f.action.type = "require_cache_hit" THEN f.action
                        ELSE Absent(f.action.type),
         enabled    |-> f.enabled]

-----------------------------------------------------------------------------
(* The list and the form.                                                  *)

Init ==
    /\ rules \in Start
    /\ list = [t \in Tabs |-> rules]
    /\ form = [t \in Tabs |-> None]
    /\ calls = {}
    /\ selected \in [Tabs -> Clusters \cup {"all"}]
    /\ opened = 0
    /\ events = 0

Happens == events < MaxEvents /\ events' = events + 1

Poll(t) ==
    /\ list' = [list EXCEPT ![t] = rules]
    /\ UNCHANGED <<rules, form, calls, selected, opened, events>>

\* The switcher, or the fallback of ClusterProvider while a sheet is open.
Select(t, cluster) ==
    /\ Happens
    /\ selected' = [selected EXCEPT ![t] = cluster]
    /\ UNCHANGED <<rules, list, form, calls, opened>>

\* The form keeps the rule it was opened with.
Open(t, b, rule) ==
    /\ form[t] = None
    /\ opened < MaxForms /\ opened' = opened + 1
    /\ form' = [form EXCEPT ![t] = [id |-> opened', initial |-> b, seen |-> rule, touched |-> {},
                                     state |-> FormStateFromPolicy(rule, selected[t])]]
    /\ UNCHANGED <<rules, list, calls, selected, events>>

NewRule(t) == Open(t, None, None)

EditRule(t, b) == list[t][b] # None /\ Open(t, b, list[t][b])

Cancel(t) ==
    /\ form[t] # None
    /\ form' = [form EXCEPT ![t] = None]
    /\ UNCHANGED <<rules, list, calls, selected, opened, events>>

Edit(t, part, state) ==
    /\ Happens
    /\ form' = [form EXCEPT ![t].state = state, ![t].touched = @ \cup {part}]
    /\ UNCHANGED <<rules, list, calls, selected, opened>>

SetScope(t, scope) ==
    /\ form[t] # None
    /\ Edit(t, "scope", [form[t].state EXCEPT !.scope = scope])

AddCondition(t) ==
    /\ form[t] # None
    /\ Edit(t, "conditions", [form[t].state EXCEPT !.conditions = Append(@, DefaultCondition)])

RemoveCondition(t) ==
    /\ form[t] # None
    /\ \E i \in DOMAIN form[t].state.conditions :
          Edit(t, "conditions", [form[t].state EXCEPT !.conditions = RemoveAt(@, i)])

\* Another field comes with its own operator and value.
OfField(f) == Condition(f, DefaultOpForField(f), DefaultValueForField(f))

\* Another operator leaves the value as it is written, list or not.
WithOp(c, op) == Condition(c.field, op, c.text)

WithValue(c, text) == Condition(c.field, c.op, text)

SetCondition(t) ==
    /\ form[t] # None
    /\ \E i \in DOMAIN form[t].state.conditions :
       LET c == form[t].state.conditions[i] IN
       \E d \in {OfField(f) : f \in Fields} \cup {WithOp(c, op) : op \in Ops}
                   \cup {WithValue(c, text) : text \in {<<>>, <<"256">>, <<"true">>}} :
          Edit(t, "conditions", [form[t].state EXCEPT !.conditions[i] = d])

ActionTypes == {"accept", "reject", "require_cache_hit"}
Outcomes == {"reject", "fallback_accept", "accept"}

SetAction(t) ==
    /\ form[t] # None
    /\ \E type \in ActionTypes, low, uncertain \in Outcomes :
          Edit(t, "action", [form[t].state EXCEPT !.action =
                  [@ EXCEPT !.type = type, !.onLowHit = low, !.onUncertain = uncertain]])

SetEnabled(t) ==
    /\ form[t] # None
    /\ Edit(t, "enabled", [form[t].state EXCEPT !.enabled = ~@])

-----------------------------------------------------------------------------
(* Mutations.  Each knows the backend or the cluster that it is for.       *)

\* Mistake: the selection of the page decides where a new rule goes.
CreateAtSelection(scope, cluster, multiCluster) ==
    IF cluster # "all" THEN <<cluster>> ELSE IF scope # <<>> THEN scope
    ELSE IF multiCluster THEN <<>> ELSE <<cluster>>

CreateTargetCluster(scope, cluster, multiCluster) ==
    IF scope # <<>> THEN scope
    ELSE IF cluster # "all" THEN <<cluster>>
    ELSE IF multiCluster THEN <<>> ELSE <<cluster>>

\* The save button is disabled while the form has a save under way.
CanSave(t) == form[t] # None /\ ~\E c \in calls : c.form = form[t].id

\* Without the health of the clusters the page takes itself to be alone with
\* one backend.  A new rule that no cluster is named for is refused here.
SaveNew(t) ==
    /\ CanSave(t) /\ form[t].initial = None
    /\ \E multiCluster \in BOOLEAN :
       LET target == CreateTargetCluster(form[t].state.scope, IF multiCluster THEN selected[t] ELSE "all", multiCluster) IN
       /\ target # <<>>
       /\ calls' = calls \cup {[kind |-> "post", tab |-> t, form |-> form[t].id, to |-> Selects(target),
                                body |-> PayloadFromForm(form[t].state), seen |-> None, touched |-> form[t].touched]}
    /\ UNCHANGED <<rules, list, form, selected, opened, events>>

SaveEdited(t) ==
    /\ CanSave(t) /\ form[t].initial # None
    /\ calls' = calls \cup {[kind |-> "patch", tab |-> t, form |-> form[t].id, to |-> {form[t].initial},
                             body |-> PayloadFromForm(form[t].state), seen |-> form[t].seen, touched |-> form[t].touched]}
    /\ UNCHANGED <<rules, list, form, selected, opened, events>>

\* The rows are out of reach while a sheet is open.
Row(t, b, kind) ==
    /\ form[t] = None /\ list[t][b] # None
    /\ ~\E c \in calls : c.tab = t /\ c.form = 0 /\ c.kind = kind

\* The whole rule is sent, as the row shows it.
TogglePolicy(t, b) ==
    /\ Row(t, b, "patch")
    /\ Happens
    /\ calls' = calls \cup {[kind |-> "patch", tab |-> t, form |-> 0, to |-> {b}, seen |-> list[t][b],
                             body |-> [list[t][b] EXCEPT !.enabled = ~@], touched |-> {"enabled"}]}
    /\ UNCHANGED <<rules, list, form, selected, opened>>

DeletePolicy(t, b) ==
    /\ Row(t, b, "delete")
    /\ Happens
    /\ calls' = calls \cup {[kind |-> "delete", tab |-> t, form |-> 0, to |-> {b}, seen |-> list[t][b],
                             body |-> None, touched |-> {}]}
    /\ UNCHANGED <<rules, list, form, selected, opened>>

\* selectedOneTarget takes exactly one backend.  A rule is created or
\* replaced, patched if it is there, and deleted if it is there.
Refused(c) == Cardinality(c.to) # 1 \/ \E b \in c.to : c.kind # "post" /\ rules[b] = None

Applies(c) ==
    /\ ~Refused(c)
    /\ rules' = [b \in Indexers |-> IF b \in c.to THEN c.body ELSE rules[b]]

\* onDone closes the sheet and invalidates the list, which Poll stands for.
Answered(c) ==
    /\ Applies(c)
    /\ calls' = calls \ {c}
    /\ form' = IF c.form = 0 THEN form ELSE [form EXCEPT ![c.tab] = None]
    /\ UNCHANGED <<list, selected, opened, events>>

\* The call is refused, does not arrive, or its answer is lost.
Fails(c) ==
    /\ Happens
    /\ UNCHANGED rules \/ Applies(c)
    /\ calls' = calls \ {c}
    /\ UNCHANGED <<list, form, selected, opened>>

-----------------------------------------------------------------------------
TabNext(t) ==
    \/ Poll(t)
    \/ \E c \in Clusters \cup {"all"} : Select(t, c)
    \/ NewRule(t)
    \/ \E b \in Indexers : EditRule(t, b)
    \/ Cancel(t)
    \/ \E c \in Clusters \cup {"all"} : SetScope(t, IF c = "all" THEN <<>> ELSE <<c>>)
    \/ AddCondition(t)
    \/ RemoveCondition(t)
    \/ SetCondition(t)
    \/ SetAction(t)
    \/ SetEnabled(t)
    \/ SaveNew(t)
    \/ SaveEdited(t)
    \/ \E b \in Indexers : TogglePolicy(t, b)
    \/ \E b \in Indexers : DeletePolicy(t, b)

Next ==
    \/ \E t \in Tabs : TabNext(t)
    \/ \E c \in calls : Answered(c)
    \/ \E c \in calls : Fails(c)

Spec == Init /\ [][Next]_vars

-----------------------------------------------------------------------------
\* What the form can show: a condition on a number or a boolean has a value.
Shown(rule) ==
    /\ rule.conditions # <<>>
    /\ \A i \in DOMAIN rule.conditions :
          rule.conditions[i].field = "cluster_id" \/ rule.conditions[i].value.parts # <<>>
    /\ rule.action.type = "require_cache_hit" => rule.action.minHitRatio # None

\* A rule that is opened and saved without an edit decides every request as
\* before, and one that is toggled or edited elsewhere decides the requests it
\* decides as before if only the switch was touched: lists, numbers, booleans
\* and the scope survive being taken apart and put together.  The exceptions:
\* a rule that changed since it was read, and what the form cannot show: a rule
\* without conditions, which "is a catch-all rule" (config/model.go:145) until
\* it is saved with the conditions of a new one, an empty list or value of a
\* number, and an absent threshold (formStateFromPolicy, payloadFromForm,
\* policies/page.tsx:1191-1263).
UntouchedKeepsVerdicts ==
    [][\A c \in calls, b \in Indexers :
          /\ Applies(c) /\ c.kind = "patch" /\ c.touched \subseteq {"enabled"}
          /\ c.to = {b} /\ rules[b] = c.seen
          /\ c.form = 0 \/ Shown(c.seen)
          => \A q \in Requests(b) :
                Verdict(q, [rules'[b] EXCEPT !.enabled = c.seen.enabled]) = Verdict(q, c.seen)]_vars

\* A new rule is stored where it can decide something: whatever the page's
\* selection was when the form was opened and is when it is saved, and
\* whichever scope was chosen, there are requests at the backend it went to
\* that it decides.  Its conditions were left alone, and it is not switched
\* off (createTargetCluster, policies/page.tsx:1281-1289).
CreatedDecides ==
    [][\A c \in calls, b \in Indexers :
          /\ Applies(c) /\ c.kind = "post"
          /\ c.touched \cap {"conditions", "enabled"} = {} /\ c.to = {b}
          => \E q \in Requests(b) : Verdict(q, rules'[b]) # "none"]_vars

=============================================================================
