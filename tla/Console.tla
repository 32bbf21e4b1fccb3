------------------------------- MODULE Console -------------------------------
(***************************************************************************)
(* The web console: its pages in one state space.  The console shows one   *)
(* page at a time, chosen at the start, and its pages share no state but   *)
(* the cluster selection, which each of them models as far as it needs it. *)
(* The pages that are not shown rest in an initial state.                  *)
(*                                                                         *)
(* Constants that two pages have under one name have one value here; where *)
(* a value is a page's own, it has the name of the page.  What they are    *)
(* for is said in the modules of the pages.                                *)
(***************************************************************************)
EXTENDS ProfileEditor, FiniteSets, Sequences

CONSTANTS
    NoData, Idle,
    KVClusters, Models,                                     \* of several pages
    ClusterOf, Number, Ratios,                              \* PolicyRules
    PolicyStart, MaxForms,                                  \* PolicyEditor
    PreviewStart, Changed, Options,                         \* RulePreview
    Urls, Tokens, Names, Profiles,                          \* ConnectionPanel
    Kinds, FeedCap, QueueCap, EventsPerPage, FeedEvents, MaxClicks,    \* EventFeed
    ClusterIds, Home, Ids, EngineStart,                     \* RegisterForm
    Selections, Times, Judgments, DecisionCap, Latest, MaxDecisions, MaxFailures, MaxPolls,   \* DecisionLog
    SimulatorClusters, Texts, ProfileAnswers, SimulatorEvents  \* Simulator

ASSUME SimulatorAssumption == None \notin {"tokenize", "query", "judge"}

VARIABLES
    page,
    lChanges, lRegistry, lSelection, lStored, lHealth, lCache, lFlight, lWrite, lAcked, lEvents,
    pRules, pList, pForm, pCalls, pSelected, pOpened, pEvents,
    cConn, cConfig, cList, cForm, cCall, cSaved, cCrossed, cFailed, cEvents,
    fGateway, fHappened, fSelection, fData, fFlight, fLive, fFilter, fPage, fDetail, fLate,
    fStream, fEvents, fClicks,
    rGateway, rEnabled, rClusters, rEngines, rSeen, rForm, rRequest, rEvents,
    dGateway, dSelected, dClock, dJudged, dRecorded, dParts, dData, dPolls, dFailures,
    vRules, vCluster, vModels, vScope, vSent, vPreview, vErr, vCurrent, vEvents,
    sInput, sProfiles, sStep, sRunsAll, sIsLocal, sSent, sTok, sHits, sRoute, sErr, sRan,
    sClean, sEvents

listsVars == <<lChanges, lRegistry, lSelection, lStored, lHealth, lCache, lFlight, lWrite, lAcked,
             lEvents>>
policiesVars == <<pRules, pList, pForm, pCalls, pSelected, pOpened, pEvents>>
connectionsVars == <<cConn, cConfig, cList, cForm, cCall, cSaved, cCrossed, cFailed, cEvents>>
feedVars == <<fGateway, fHappened, fSelection, fData, fFlight, fLive, fFilter, fPage, fDetail, fLate,
             fStream, fEvents, fClicks>>
enginesVars == <<rGateway, rEnabled, rClusters, rEngines, rSeen, rForm, rRequest, rEvents>>
decisionsVars == <<dGateway, dSelected, dClock, dJudged, dRecorded, dParts, dData, dPolls, dFailures>>
previewVars == <<vRules, vCluster, vModels, vScope, vSent, vPreview, vErr, vCurrent, vEvents>>
simulatorVars == <<sInput, sProfiles, sStep, sRunsAll, sIsLocal, sSent, sTok, sHits, sRoute, sErr,
             sRan, sClean, sEvents>>

-----------------------------------------------------------------------------
(* The pages; the profiles are EXTENDed.                                   *)

Lists == INSTANCE ConsoleQuery WITH
    Clusters <- KVClusters,
    list <- lChanges, registry <- lRegistry, selection <- lSelection, stored <- lStored,
    health <- lHealth, cache <- lCache, flight <- lFlight, write <- lWrite, acked <- lAcked,
    events <- lEvents

Policies == INSTANCE PolicyEditor WITH
    Start <- PolicyStart,
    rules <- pRules, list <- pList, form <- pForm, calls <- pCalls, selected <- pSelected,
    opened <- pOpened, events <- pEvents

Preview == INSTANCE RulePreview WITH
    Start <- PreviewStart,
    rules <- vRules, cluster <- vCluster, models <- vModels, scope <- vScope, sent <- vSent,
    preview <- vPreview, err <- vErr, current <- vCurrent, events <- vEvents

Connections == INSTANCE ConnectionPanel WITH
    conn <- cConn, config <- cConfig, list <- cList, form <- cForm, call <- cCall,
    saved <- cSaved, crossed <- cCrossed, failed <- cFailed, events <- cEvents

Feed == INSTANCE EventFeed WITH
    Clusters <- KVClusters, Cap <- FeedCap, MaxEvents <- FeedEvents,
    gateway <- fGateway, happened <- fHappened, selection <- fSelection, data <- fData,
    flight <- fFlight, live <- fLive, filter <- fFilter, page <- fPage,
    detail <- fDetail, late <- fLate, stream <- fStream,
    events <- fEvents, clicks <- fClicks

Engines == INSTANCE RegisterForm WITH
    Start <- EngineStart,
    gateway <- rGateway, enabled <- rEnabled, clusters <- rClusters, engines <- rEngines,
    seen <- rSeen, form <- rForm, request <- rRequest, events <- rEvents

Decisions == INSTANCE DecisionLog WITH
    Backends <- KVClusters, Outcomes <- Judgments, Cap <- DecisionCap,
    gateway <- dGateway, selected <- dSelected, clock <- dClock, judged <- dJudged,
    recorded <- dRecorded, parts <- dParts, data <- dData, polls <- dPolls, failures <- dFailures

Simulation == INSTANCE Simulator WITH
    Clusters <- SimulatorClusters, Answers <- ProfileAnswers, MaxEvents <- SimulatorEvents,
    input <- sInput, profiles <- sProfiles, step <- sStep, runsAll <- sRunsAll,
    isLocalModel <- sIsLocal, sent <- sSent, tok <- sTok, hits <- sHits, route <- sRoute,
    err <- sErr, ran <- sRan, clean <- sClean, events <- sEvents

\* None and Idle are neither connections nor requests.
ASSUME ConnectionsAssumption ==
    /\ None \notin Connections!Connection /\ \A s \in SUBSET Profiles : s # None
    /\ Idle \notin Connections!Upserts /\ Idle \notin Connections!Removals
    /\ Idle \notin Connections!ProfileWrites

ASSUME EnginesAssumption ==
    /\ Backends # {} /\ ClusterIds \subseteq Nat
    /\ EngineStart \subseteq [Backends -> SUBSET ClusterIds]

\* What the texts of the form are made of.
PolicyParts ==
    {"0", "256", "true", "false"} \cup Policies!Clusters
    \cup UNION {UNION {UNION {{r.conditions[i].value.parts[j] : j \in DOMAIN r.conditions[i].value.parts} :
                                 i \in DOMAIN r.conditions} :
                          r \in {s[b] : b \in DOMAIN ClusterOf} \ {None}} : s \in PolicyStart}

\* Conditions that mean something: a list is for "in" or "not_in", which take
\* one or a single value, and a boolean is "true" or "false".
WellWritten(c) ==
    /\ c.value.list => c.op \in {"in", "not_in"}
    /\ c.op \in {"in", "not_in"} => c.value.list \/ Len(c.value.parts) <= 1
    /\ Policies!BooleanField(c.field) =>
          /\ \A i \in DOMAIN c.value.parts : c.value.parts[i] \in {"true", "false"}
          /\ c.value.list \/ Len(c.value.parts) = 1

\* The conditions, actions and rules that can be stored.
PolicyConditions ==
    {c \in [field : Policies!Fields, op : Policies!Ops, value : [list : BOOLEAN, parts : Seq(PolicyParts)]] :
        WellWritten(c)}

PolicyActions ==
    [type : Policies!ActionTypes, minHitRatio : Nat \cup {None}, onLowHit : Policies!Outcomes \cup {None},
     onUncertain : Policies!Outcomes \cup {None}]

PolicyRule == [conditions : Seq(PolicyConditions), action : PolicyActions, enabled : BOOLEAN]

\* The rules that are there at first mean something, and the default condition
\* is on a number.
ASSUME PoliciesAssumption ==
    /\ None \notin DOMAIN ClusterOf
    /\ "256" \in DOMAIN Number /\ Number \in [DOMAIN Number -> Nat]
    /\ Ratios # {}
    /\ PolicyStart \subseteq [DOMAIN ClusterOf -> PolicyRule \cup {None}]

ASSUME FeedAssumption ==
    /\ FeedCap \in Nat /\ IsFiniteSet(KVClusters)
    /\ Kinds \in Seq(SUBSET (KVClusters \X BOOLEAN \X Feed!Fractions))

\* Times are of one second, as ListFilter says.
ASSUME DecisionsAssumption ==
    /\ \A s \in Selections : s \subseteq KVClusters /\ IsFiniteSet(s)
    /\ Decisions!Local \notin KVClusters
    /\ Times \subseteq 0..99
    /\ DecisionCap \in Nat /\ Latest \in Nat

-----------------------------------------------------------------------------
(* One page at a time.                                                     *)

Pages == {"profiles", "lists", "policies", "connections", "feed", "engines", "simulator",
          "decisions", "preview"}

ConsoleInit ==
    /\ page \in Pages
    /\ Init
    /\ Lists!Init /\ Policies!Init /\ Connections!Init /\ Feed!Init /\ Engines!Init
    /\ Decisions!Init /\ Preview!Init /\ Simulation!Init

Step(shown, next, unchanged) == IF page = shown THEN next ELSE unchanged

ConsoleNext ==
    /\ UNCHANGED page
    /\ Step("profiles", Next, UNCHANGED vars)
    /\ Step("lists", Lists!Next, UNCHANGED listsVars)
    /\ Step("policies", Policies!Next, UNCHANGED policiesVars)
    /\ Step("connections", Connections!Next, UNCHANGED connectionsVars)
    /\ Step("feed", Feed!Next, UNCHANGED feedVars)
    /\ Step("engines", Engines!Next, UNCHANGED enginesVars)
    /\ Step("decisions", Decisions!Next, UNCHANGED decisionsVars)
    /\ Step("preview", Preview!Next, UNCHANGED previewVars)
    /\ Step("simulator", Simulation!Next, UNCHANGED simulatorVars)

consoleVars ==
    <<page, vars, listsVars, policiesVars, connectionsVars, feedVars, enginesVars, decisionsVars, previewVars,
      simulatorVars>>

\* The fairness of the two pages that have some: the one that is shown acts.
polledVars == <<listsVars, feedVars>>
OnLists == page = "lists" /\ UNCHANGED feedVars
OnFeed == page = "feed" /\ UNCHANGED listsVars

Polls == (OnLists /\ Lists!Poll) \/ (OnFeed /\ Feed!Poll)

AnswersArrive ==
    \/ OnLists /\ \E k \in Lists!Keys : Lists!Answer(k)
    \/ OnFeed /\ \E k, s \in Feed!Keys : Feed!GetList(k, s)

AnswersInstalled ==
    \/ OnLists /\ \E k \in Lists!Keys : Lists!Install(k)
    \/ OnFeed /\ \E k \in Feed!Keys : Feed!Install(k)

ConsoleFairness ==
    /\ WF_polledVars(Polls) /\ WF_polledVars(AnswersArrive) /\ WF_polledVars(AnswersInstalled)
    /\ WF_polledVars((OnLists /\ Lists!HealthAnswered) \/ (OnFeed /\ Feed!Message))
    /\ WF_polledVars(OnFeed /\ Feed!Reconnects)

ConsoleSpec == ConsoleInit /\ [][ConsoleNext]_consoleVars /\ ConsoleFairness

-----------------------------------------------------------------------------
(* The properties of the pages; those of the profiles are EXTENDed.        *)

\* Rows that are trusted have every change whose write was answered
\* (ConsoleQuery).
ReadYourWrites == Lists!ReadYourWrites

\* A page that is left alone shows the lists as they are (ConsoleQuery).
EventuallyFresh == <>[](page = "lists" => Lists!Fresh)

\* Opening and saving a rule does not change what it decides (PolicyEditor).
UntouchedKeepsVerdicts == Policies!UntouchedKeepsVerdicts

\* A new rule is stored where it decides something (PolicyEditor).
CreatedDecides == Policies!CreatedDecides

\* Tokens outlive pages that do not know them (ConnectionPanel).
TokenSurvives == Connections!TokenSurvives

\* Virtual connections keep their configuration (ConnectionPanel).
ConfigSurvives == Connections!ConfigSurvives

\* The event list is of the selection (EventFeed).
OnlySelected == Feed!OnlySelected

\* The event list ends up with the recent events (EventFeed).
EventuallyShown == <>[](page = "feed" => Feed!Shown)

\* Engines are registered in clusters of their indexer (RegisterForm).
RegisteredFits == Engines!RegisteredFits

\* The decisions are shown in the order of time (DecisionLog).
NewestFirst == Decisions!NewestFirst

\* A preview is what requests meet (RulePreview).
PreviewTells == Preview!PreviewTells

\* The simulator's cards are of one prompt (Simulator).
OneInput == Simulation!OneInput

=============================================================================
