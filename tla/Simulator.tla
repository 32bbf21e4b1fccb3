------------------------------ MODULE Simulator ------------------------------
(***************************************************************************)
(* The simulator page of the console (web/app/simulator/page.tsx).  A run  *)
(* is up to three requests, one after the other: the prompt is tokenized,  *)
(* its tokens are looked up, and it is routed.  Each answer has a card.    *)
(* The inputs stay editable, the selected cluster can be switched, and the *)
(* list of profiles is polled, while a run is under way; every request     *)
(* takes the inputs of the moment it is sent.                              *)
(***************************************************************************)
EXTENDS Naturals

CONSTANTS
    Clusters,       \* what can be selected, besides all clusters
    Models,         \* models, numbered in the order of their names
    Texts,          \* values of prompt and protocol
    Answers,        \* what a profile list may be: the mode of each model it has
    MaxEvents,      \* bound on edits, switches and failures
    None            \* no card, no profile, no request

VARIABLES
    input,          \* selection, model and text
    profiles,       \* the modes of the models in the list, None where it has none
    step,           \* the request of a run under way
    runsAll,        \* whether it is part of a run, or tokenizes only
    isLocalModel,   \* what the run remembers of the model
    sent,           \* the input of the request under way
    tok, hits, route, err,  \* the cards, by the input they are of, and the error
    ran,            \* the input a run started with
    clean,          \* nothing was edited and nothing failed since
    events

vars == <<input, profiles, step, runsAll, isLocalModel, sent, tok, hits, route, err, ran, clean, events>>

All == "all"
Input == [cluster : Clusters \cup {All}, model : Models, text : Texts]

NeedsCluster == input.cluster = All

Init ==
    /\ input \in Input
    /\ profiles = [m \in Models |-> None]
    /\ step = None
    /\ runsAll = FALSE /\ isLocalModel = FALSE
    /\ sent = None
    /\ tok = None /\ hits = None /\ route = None /\ err = FALSE
    /\ ran = None
    /\ clean = FALSE
    /\ events = 0

Happens == events < MaxEvents /\ events' = events + 1

\* The cards side by side: of the decision, of the tokens and of the hits.
Cards == {card \in {route, tok, hits} : card # None}

-----------------------------------------------------------------------------
(* The inputs.                                                             *)

\* An edit is an edit of the run if there is one.
Edited == clean' = (clean /\ step = None)

Edit(i) ==
    /\ Happens
    /\ i # input
    /\ input' = i
    /\ Edited

SetModel(m) ==
    /\ Edit([input EXCEPT !.model = m])
    /\ UNCHANGED <<profiles, step, runsAll, isLocalModel, sent, tok, hits, route, err, ran>>

SetText(x) ==
    /\ Edit([input EXCEPT !.text = x])
    /\ UNCHANGED <<profiles, step, runsAll, isLocalModel, sent, tok, hits, route, err, ran>>

\* The cards of the cluster before stay.
SetCluster(c) ==
    /\ Edit([input EXCEPT !.cluster = c])
    /\ UNCHANGED <<profiles, step, runsAll, isLocalModel, sent, tok, hits, route, err, ran>>

\* A model that the list does not have is replaced by its first one, and the
\* cards are taken down.
ProfilesAnswered(list) ==
    LET has == {m \in Models : list[m] # None} IN
    /\ ~NeedsCluster
    /\ profiles' = list
    /\ IF has = {} \/ input.model \in has
       THEN UNCHANGED <<input, tok, hits, route, err, clean>>
       ELSE /\ input' = [input EXCEPT !.model = CHOOSE m \in has : \A n \in has : m <= n]
            /\ tok' = None /\ hits' = None /\ route' = None /\ err' = FALSE
            /\ Edited
    /\ UNCHANGED <<step, runsAll, isLocalModel, sent, ran, events>>

-----------------------------------------------------------------------------
(* A run.                                                                  *)

Send(s) == step' = s /\ sent' = IF s = None THEN None ELSE input

\* Both buttons are disabled while a request is under way.
RunAll ==
    /\ step = None /\ ~NeedsCluster
    /\ Send("tokenize") /\ runsAll' = TRUE
    /\ isLocalModel' = (profiles[input.model] = "local")
    /\ err' = FALSE
    /\ ran' = input /\ clean' = TRUE
    /\ UNCHANGED <<input, profiles, tok, hits, route, events>>

Tokenize ==
    /\ step = None /\ ~NeedsCluster
    /\ Send("tokenize") /\ runsAll' = FALSE
    /\ clean' = FALSE
    /\ UNCHANGED <<input, profiles, isLocalModel, tok, hits, route, err, ran, events>>

\* Mistake: the card of an earlier run stays.
LookUpOnly(tokenized) ==
    IF ~runsAll THEN Send(None) /\ hits' = hits
    ELSE IF tokenized /\ ~isLocalModel THEN Send("query") /\ hits' = hits
    ELSE Send("judge") /\ hits' = hits

\* What follows the tokenizing: a local model is not looked up.
LookUp(tokenized) ==
    IF ~runsAll THEN Send(None) /\ hits' = hits
    ELSE IF tokenized /\ ~isLocalModel THEN Send("query") /\ hits' = hits
    ELSE Send("judge") /\ hits' = IF isLocalModel THEN None ELSE hits

Tokenized ==
    /\ step = "tokenize"
    /\ tok' = sent /\ err' = FALSE
    /\ LookUp(TRUE)
    /\ UNCHANGED <<input, profiles, runsAll, isLocalModel, route, ran, clean, events>>

TokenizeFails ==
    /\ step = "tokenize"
    /\ Happens
    /\ tok' = None /\ err' = TRUE
    /\ clean' = FALSE
    /\ LookUp(FALSE)
    /\ UNCHANGED <<input, profiles, runsAll, isLocalModel, route, ran>>

Queried ==
    /\ step = "query"
    /\ hits' = sent
    /\ Send("judge")
    /\ UNCHANGED <<input, profiles, runsAll, isLocalModel, tok, route, err, ran, clean, events>>

QueryFails ==
    /\ step = "query"
    /\ Happens
    /\ err' = TRUE /\ clean' = FALSE
    /\ Send("judge")
    /\ UNCHANGED <<input, profiles, runsAll, isLocalModel, tok, hits, route, ran>>

Judged ==
    /\ step = "judge"
    /\ route' = sent /\ err' = FALSE
    /\ Send(None)
    /\ UNCHANGED <<input, profiles, runsAll, isLocalModel, tok, hits, ran, clean, events>>

JudgeFails ==
    /\ step = "judge"
    /\ Happens
    /\ err' = TRUE /\ clean' = FALSE
    /\ Send(None)
    /\ UNCHANGED <<input, profiles, runsAll, isLocalModel, tok, hits, route, ran>>

-----------------------------------------------------------------------------
Next ==
    \/ \E m \in Models : SetModel(m)
    \/ \E x \in Texts : SetText(x)
    \/ \E c \in Clusters \cup {All} : SetCluster(c)
    \/ \E list \in Answers : ProfilesAnswered(list)
    \/ RunAll
    \/ Tokenize
    \/ Tokenized
    \/ TokenizeFails
    \/ Queried
    \/ QueryFails
    \/ Judged
    \/ JudgeFails

Spec == Init /\ [][Next]_vars

-----------------------------------------------------------------------------
\* The cards that stand side by side after a run are of one prompt, the run's,
\* whatever was shown before, whatever is edited afterwards and whenever the
\* profiles change.  The exceptions are a run that was edited, and one with a
\* failed request: the card of an earlier prompt stays, and when the lookup
\* fails the success of the routing takes the error away that would have said
\* so (simulator/page.tsx:120-147).
OneInput ==
    step = None /\ clean => Cards \subseteq {ran} /\ ~err

=============================================================================
