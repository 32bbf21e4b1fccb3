----------------------------- MODULE RulePreview -----------------------------
(***************************************************************************)
(* The preview of the policy page (RulePreview of                          *)
(* web/app/policies/page.tsx): what the rules would decide about a request *)
(* that is described in a form.  The description follows the cluster       *)
(* selection and the polled list of models, and stays editable while the   *)
(* preview is under way and beside the one that was answered.              *)
(*                                                                         *)
(* The tenant is left out: its field is sent as it is, and an empty one    *)
(* does not stand for the tenant "default" as it does in a request.        *)
(***************************************************************************)
EXTENDS PolicyRules, FiniteSets

CONSTANTS
    Start,          \* what the backends may have at first: lists of rules
    Changed,        \* lists of rules that other operators put there
    Options,        \* the clusters that can be chosen
    Models,         \* numbered in the order of their names
    MaxEvents       \* bound on edits, switches, failures and changes of rules

VARIABLES
    rules,          \* per backend: its rules, in the order of their priority
    cluster,        \* the cluster selection of the page
    models,         \* the list of models, empty before its first answer
    scope,          \* the form
    sent,           \* the scope under way and the cluster asked
    preview,        \* the answer on screen: the scope it is of and the decision
    err,
    current,        \* since it was asked for, nothing changed that it depends on
    events

vars == <<rules, cluster, models, scope, sent, preview, err, current, events>>

AnyCluster == ""
Named(c) == IF c = "all" THEN AnyCluster ELSE c

Init ==
    /\ rules \in Start
    /\ cluster \in Clusters \cup {"all"}
    /\ models = {}
    /\ scope \in [cluster_id : {Named(cluster)}, model : Models, input_tokens : DOMAIN Number,
                  ratio : Ratios]
    /\ sent = None /\ preview = None /\ err = FALSE
    /\ current = FALSE
    /\ events = 0

Happens == events < MaxEvents /\ events' = events + 1

-----------------------------------------------------------------------------
(* The form.                                                               *)

\* An edit leaves the preview where it is.
Edit(s) ==
    /\ Happens
    /\ s # scope
    /\ scope' = s
    /\ current' = FALSE
    /\ UNCHANGED <<rules, cluster, models, sent, preview, err>>

SetModel(m) == (models # {} => m \in models) /\ Edit([scope EXCEPT !.model = m])

SetCluster(c) == Edit([scope EXCEPT !.cluster_id = c])

SetTokens(n) == Edit([scope EXCEPT !.input_tokens = n])

SetRatio(r) == Edit([scope EXCEPT !.ratio = r])

Followed(c) == [scope EXCEPT !.cluster_id = Named(c)]

\* The sheet is open, so the selection changes by the fallback of
\* ClusterProvider, and the form with it.
FallBack ==
    /\ Happens
    /\ cluster # "all" /\ cluster' = "all"
    /\ scope' = Followed("all")
    /\ current' = FALSE
    /\ UNCHANGED <<rules, models, sent, preview, err>>

\* A model that is not in the list is replaced by its first one.
ModelsAnswered(has) ==
    /\ models' = has
    /\ IF has = {} \/ scope.model \in has
       THEN UNCHANGED <<scope, preview, err, current>>
       ELSE /\ scope' = [scope EXCEPT !.model = CHOOSE m \in has : \A n \in has : m <= n]
            /\ preview' = None /\ err' = FALSE
            /\ current' = FALSE
    /\ UNCHANGED <<rules, cluster, sent, events>>

-----------------------------------------------------------------------------
(* The preview.                                                            *)

\* Mistake: the page's selection decides which indexer is asked.
TargetOfPage == cluster

Target == IF scope.cluster_id = AnyCluster THEN cluster ELSE scope.cluster_id

\* The button is disabled while a preview is under way.
Run ==
    /\ sent = None
    /\ sent' = [scope |-> scope, to |-> Selects(<<Target>>)]
    /\ current' = TRUE
    /\ UNCHANGED <<rules, cluster, models, scope, preview, err, events>>

\* handleEffectivePolicyPreview: what is not in the form is as good as it can
\* be, the request tokenized.  The cluster is compared as it was sent.
Evaluated(s, b) ==
    Decide([cluster_id |-> s.cluster_id, input_tokens |-> s.input_tokens, tokenized |-> "true",
            ratio |-> s.ratio], rules[b])

\* selectedOneTarget takes exactly one backend.
Answered ==
    /\ sent # None
    /\ \E b \in sent.to :
          /\ sent.to = {b}
          /\ preview' = [scope |-> sent.scope, decision |-> Evaluated(sent.scope, b)]
    /\ err' = FALSE
    /\ sent' = None
    /\ UNCHANGED <<rules, cluster, models, scope, current, events>>

\* onError leaves the preview of before.
Ends ==
    /\ err' = TRUE
    /\ sent' = None
    /\ current' = FALSE
    /\ UNCHANGED <<rules, cluster, models, scope, preview>>

Refused == sent # None /\ Cardinality(sent.to) # 1 /\ Ends /\ UNCHANGED events

Fails == sent # None /\ Happens /\ Ends

\* Another operator edits rules.
RulesChange(b, list) ==
    /\ Happens
    /\ list # rules[b]
    /\ rules' = [rules EXCEPT ![b] = list]
    /\ current' = (current /\ sent # None)
    /\ UNCHANGED <<cluster, models, scope, sent, preview, err>>

-----------------------------------------------------------------------------
Next ==
    \/ \E m \in Models : SetModel(m)
    \/ \E c \in Options \cup {AnyCluster} : SetCluster(c)
    \/ \E n \in DOMAIN Number : SetTokens(n)
    \/ \E r \in Ratios : SetRatio(r)
    \/ FallBack
    \/ \E has \in SUBSET Models : ModelsAnswered(has)
    \/ Run
    \/ Answered
    \/ Refused
    \/ Fails
    \/ \E b \in Indexers, list \in Changed : RulesChange(b, list)

Spec == Init /\ [][Next]_vars

-----------------------------------------------------------------------------
\* A preview that stands beside the form it was asked with is what requests
\* meet: whatever was selected, previewed and failed before, the indexers of
\* the cluster in the form decide a tokenized request with these tokens and
\* this ratio as it says.  The exception is a form without a cluster, as
\* opened with all clusters selected: it is evaluated with an empty cluster
\* id, which no request has (policies/page.tsx:553-582, route.go:146-152).
PreviewTells ==
    current /\ sent = None =>
        /\ preview # None /\ preview.scope = scope /\ ~err
        /\ scope.cluster_id # AnyCluster =>
              \A b \in Indexers : \A q \in Requests(b) :
                  /\ q.cluster_id = scope.cluster_id /\ q.input_tokens = scope.input_tokens
                  /\ q.ratio = scope.ratio /\ q.tokenized = "true"
                  => Decide(q, rules[b]) = preview.decision

=============================================================================
