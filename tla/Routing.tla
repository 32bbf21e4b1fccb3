------------------------------- MODULE Routing -------------------------------
(***************************************************************************)
(* The evaluation of a request (internal/httpapi/route.go) against the     *)
(* configuration, the event streams and the residency index, which change  *)
(* between any two of its reads.                                           *)
(*                                                                         *)
(* A request reads profile, engines, rules and version one after another,  *)
(* each under the store's lock for that read only; then the freshness of   *)
(* the streams; then it waits up to 8 seconds for a tokenizer, queries the *)
(* index and judges.  One model and one request at a time: requests share  *)
(* only the decision log, which finish appends to in one step.             *)
(*                                                                         *)
(* The index is reduced to what a query for the request's keys would       *)
(* report for each engine (ResidencyIndex, KVListener); the profile to the *)
(* number of its namespace, 0 for no profile (ConfigStore).                *)
(***************************************************************************)
EXTENDS Admission, Sequences

CONSTANTS
    Engines,         \* engine ids: numbers, since only their order matters
    WithTokenizer,   \* engines with a tokenizer endpoint; the profile has none
    InputTokens,     \* tokens of the request, when a tokenizer counts them
    Levels,          \* cached prefixes an engine may have: [gpu, cpu, disk] tokens
    MaxNamespace,    \* bound: versions of the profile
    MaxChanges,      \* bound: changes of configuration, streams and caches
    DecisionCap      \* records kept in the decision log

Namespaces == 1..MaxNamespace
Nothing == [gpu |-> 0, cpu |-> 0, disk |-> 0]

ASSUME RoutingAssumption ==
    /\ Engines \subseteq Nat
    /\ NoInstance \notin Engines
    /\ WithTokenizer \subseteq Engines
    /\ InputTokens \in Nat \ {0}
    /\ Levels \subseteq [gpu : 0..InputTokens, cpu : 0..InputTokens, disk : 0..InputTokens]
    /\ Nothing \in Levels
    /\ \A l \in Levels : l.gpu <= l.cpu /\ l.cpu <= l.disk
    /\ MaxNamespace \in Nat \ {0}
    /\ MaxChanges \in Nat
    /\ DecisionCap \in Nat \ {0}

VARIABLES
    profile,     \* the namespace of the model's profile, 0 without one
    eligible,    \* enabled engines that serve the model
    policies,    \* ids of the stored rules
    version,     \* the config version
    connected,   \* engines whose listener is connected
    gapped,      \* engines whose listener has counted a gap
    cached,      \* engine -> the prefix it really holds
    index,       \* namespace -> engine -> the prefix the index has it hold
    changes,     \* changes so far
    pc,          \* the next step of the request
    req,         \* what the request has read
    response,    \* the last response
    decisions,   \* the decision log
    seen         \* of the request under way (history): [healthy, sick, eligible, version]

config == <<profile, eligible, policies, version>>
streams == <<connected, gapped, cached, index>>
vars == <<config, streams, changes, pc, req, response, decisions, seen>>

Healthy == connected \ gapped

NoRequest ==
    [profile |-> 0, engines |-> {}, rules |-> {}, version |-> 0, hashSupported |-> TRUE,
     fresh |-> FALSE, doubted |-> {}, tokenized |-> FALSE, query |-> << >>]

Unseen == [healthy |-> {}, sick |-> {}, eligible |-> {}, version |-> 0]

NoResponse == [verdict |-> Accept("none", FALSE), hit |-> NoHit, target |-> NoInstance,
               version |-> 0, recorded |-> 0]

Init ==
    /\ profile = 1 /\ version = 0
    /\ eligible = Engines
    /\ policies \in SUBSET DOMAIN Rules
    /\ connected = {} /\ gapped = {}
    /\ cached \in [Engines -> Levels]
    /\ index = [ns \in Namespaces |-> [e \in Engines |-> Nothing]]
    /\ changes = 0
    /\ pc = "idle" /\ req = NoRequest /\ response = NoResponse
    /\ decisions = << >>
    /\ seen = Unseen

-----------------------------------------------------------------------------
(***************************************************************************)
(* What changes under a request                                            *)
(***************************************************************************)

Change == changes < MaxChanges /\ changes' = changes + 1

\* What a request under way has lived through so far.
Watch ==
    seen' = IF pc = "idle" THEN seen
            ELSE [seen EXCEPT !.healthy  = @ \cup (connected' \ gapped'),
                              !.sick     = @ \cup (Engines \ (connected' \ gapped')),
                              !.eligible = @ \cup eligible']

Reconfigure ==
    /\ version' = version + 1
    /\ UNCHANGED streams

\* An engine is enabled, disabled, drained or removed, or its cluster is.
EngineChange ==
    /\ Reconfigure
    /\ \E e \in Engines : eligible' \in {eligible \cup {e}, eligible \ {e}} \ {eligible}
    /\ UNCHANGED <<profile, policies>>

PolicyChange ==
    /\ Reconfigure
    /\ \E r \in DOMAIN Rules : policies' \in {policies \cup {r}, policies \ {r}} \ {policies}
    /\ UNCHANGED <<profile, eligible>>

\* A profile is created, changed in a field that bumps its version, or removed.
ProfileChange ==
    /\ Reconfigure
    /\ profile' \in {0, profile + 1} \ {profile}
    /\ profile' \in Namespaces \cup {0}
    /\ UNCHANGED <<eligible, policies>>

\* The listener connects; the replay brings what the engine holds, or a gap.
Connect(e) ==
    /\ e \notin connected
    /\ connected' = connected \cup {e}
    /\ \/ /\ index' = IF profile = 0 THEN index ELSE [index EXCEPT ![profile][e] = cached[e]]
          /\ UNCHANGED gapped
       \/ /\ gapped' = gapped \cup {e}
          /\ UNCHANGED index
    /\ UNCHANGED cached

Disconnect(e) ==
    /\ e \in connected
    /\ connected' = connected \ {e}
    /\ UNCHANGED <<gapped, cached, index>>

\* The engine stores or evicts blocks.  A connected listener applies the events
\* (without a profile, to nothing), or they are lost and the next ones show it.
CacheChange(e) ==
    /\ cached' \in {[cached EXCEPT ![e] = level] : level \in Levels \ {cached[e]}}
    /\ \/ /\ e \in connected
          /\ index' = IF profile = 0 THEN index ELSE [index EXCEPT ![profile][e] = cached'[e]]
          /\ UNCHANGED gapped
       \/ /\ gapped' = IF e \in connected THEN gapped \cup {e} ELSE gapped
          /\ UNCHANGED index
    /\ UNCHANGED connected

StreamChange ==
    /\ \E e \in Engines : Connect(e) \/ Disconnect(e) \/ CacheChange(e)
    /\ UNCHANGED config

Environment ==
    /\ EngineChange \/ PolicyChange \/ ProfileChange \/ StreamChange
    /\ Change
    /\ Watch
    /\ UNCHANGED <<pc, req, response, decisions>>

-----------------------------------------------------------------------------
(***************************************************************************)
(* The request                                                             *)
(***************************************************************************)

\* Mistake: any listener counts, of the engines of other models too.
FreshForAnyEngine(engines) == Healthy # {}

StreamFreshForEngines(engines) == engines \cap Healthy # {}

\* Mistake: the instance of the hit is the target, eligible or not.
InstanceOrFirst(instance, engines) ==
    CASE instance # NoInstance -> instance
      [] instance = NoInstance /\ engines # {} -> CHOOSE e \in engines : \A f \in engines : e <= f
      [] OTHER -> NoInstance

PickTarget(instance, engines) ==
    CASE instance \in engines -> instance
      [] instance \notin engines /\ engines # {} -> CHOOSE e \in engines : \A f \in engines : e <= f
      [] OTHER -> NoInstance

\* Index.Query reports the engines that hold a prefix.
Query(ns) == [e \in {x \in Engines : index[ns][x] # Nothing} |-> index[ns][e]]

Input ==
    [rules |-> req.rules,
     inputTokens |-> IF req.tokenized THEN InputTokens ELSE 0,
     query |-> req.query,
     fresh |-> req.fresh,
     tokenized |-> req.tokenized,
     hashSupported |-> req.hashSupported,
     hasCandidates |-> req.engines # {}]

Goto(step) == pc' = step /\ UNCHANGED <<config, streams, changes>>

\* The request reads from the configuration.
Reads(next, record) ==
    /\ Goto(next)
    /\ req' = record
    /\ seen' = [seen EXCEPT !.version = version]
    /\ UNCHANGED <<response, decisions>>

Arrive ==
    /\ pc = "idle"
    /\ Goto("profile")
    /\ req' = NoRequest
    /\ seen' = [healthy |-> Healthy, sick |-> Engines \ Healthy, eligible |-> eligible, version |-> version]
    /\ response' = NoResponse
    /\ UNCHANGED decisions

ResolveProfile ==
    /\ pc = "profile"
    /\ Reads("engines", [req EXCEPT !.profile = profile])

EnginesForModel ==
    /\ pc = "engines"
    /\ Reads("rules", [req EXCEPT !.engines = eligible])

ListPolicies ==
    /\ pc = "rules"
    /\ Reads("version", [req EXCEPT !.rules = policies])

\* Mistake: the version is kept from the last request.
ReadVersionCached ==
    /\ pc = "version"
    /\ Goto(IF req.profile = 0 THEN "finish" ELSE "fresh")
    /\ req' = [req EXCEPT !.version = IF decisions = << >> THEN version ELSE decisions[Len(decisions)].version]
    /\ UNCHANGED <<response, decisions, seen>>

\* Without a profile there is nothing to tokenize or query; with one, the hash
\* covers the request unless it has images and the profile does not.
ReadVersion ==
    /\ pc = "version"
    /\ Goto(IF req.profile = 0 THEN "finish" ELSE "fresh")
    /\ \E supported \in BOOLEAN :
          /\ req.profile = 0 => supported
          /\ req' = [req EXCEPT !.version = version, !.hashSupported = supported]
    /\ UNCHANGED <<response, decisions, seen>>

ReadFreshness ==
    /\ pc = "fresh"
    /\ Goto("tokenize")
    /\ req' = [req EXCEPT !.fresh = StreamFreshForEngines(req.engines), !.doubted = Engines \ Healthy]
    /\ UNCHANGED <<response, decisions, seen>>

\* The tokenizer of an engine answers, and the index is queried at once.
TokenizeAndQuery ==
    /\ pc = "tokenize"
    /\ req.engines \cap WithTokenizer # {}
    /\ Goto("finish")
    /\ req' = [req EXCEPT !.tokenized = TRUE, !.query = Query(req.profile)]
    /\ UNCHANGED <<response, decisions, seen>>

\* There is no tokenizer, it fails, or it does not answer in time.
TokenizeFails ==
    /\ pc = "tokenize"
    /\ Goto("finish")
    /\ UNCHANGED <<req, response, decisions, seen>>

Latest(log) == IF Len(log) > DecisionCap THEN SubSeq(log, Len(log) - DecisionCap + 1, Len(log)) ELSE log

\* Evaluate and finish, with its second read of the version.
Finish ==
    /\ pc = "finish"
    /\ Goto("idle")
    /\ \E result \in Evaluate(Input) :
          LET target == IF result.verdict.decision = "reject" THEN NoInstance
                        ELSE PickTarget(result.hit.instance, req.engines)
          IN  /\ response' = [verdict |-> result.verdict, hit |-> result.hit, target |-> target,
                              version |-> req.version, recorded |-> version]
              /\ decisions' = Latest(Append(decisions, [decision |-> result.verdict.decision, version |-> version]))
    /\ req' = NoRequest
    /\ seen' = Unseen

Evaluation ==
    \/ Arrive \/ ResolveProfile \/ EnginesForModel \/ ListPolicies \/ ReadVersion
    \/ ReadFreshness \/ TokenizeAndQuery \/ TokenizeFails \/ Finish

Next == Environment \/ Evaluation

Spec == Init /\ [][Next]_vars

-----------------------------------------------------------------------------
(***************************************************************************)
(* Properties                                                              *)
(***************************************************************************)

HitInfo == [instance : Engines \cup {NoInstance}, bestTokens : Nat, effective : Nat]
Reasons == {"none", "no_matching_rule", "rule_accept", "rule_reject", "unknown_action",
            "tokenization_unavailable", "hash_feature_unsupported", "no_eligible_candidates",
            "stale_events", "hit_requirement_met", "hit_requirement_failed"}
Verdict == [decision : {"accept", "reject"}, reason : Reasons, fallback : BOOLEAN]
RequestRecord ==
    [profile : Namespaces \cup {0}, engines : SUBSET Engines, rules : SUBSET DOMAIN Rules, version : Nat,
     hashSupported : BOOLEAN, fresh : BOOLEAN, doubted : SUBSET Engines, tokenized : BOOLEAN,
     query : UNION {[E -> Levels] : E \in SUBSET Engines}]
ResponseRecord ==
    [verdict : Verdict, hit : HitInfo, target : Engines \cup {NoInstance}, version : Nat, recorded : Nat]
SeenRecord ==
    [healthy : SUBSET Engines, sick : SUBSET Engines, eligible : SUBSET Engines, version : Nat]
Record == [decision : {"accept", "reject"}, version : Nat]
Steps == {"idle", "profile", "engines", "rules", "version", "fresh", "tokenize", "finish"}

\* Every variable of the evaluation has its type.
TypeOK ==
    /\ profile \in Namespaces \cup {0}
    /\ eligible \subseteq Engines
    /\ policies \subseteq DOMAIN Rules
    /\ version \in Nat /\ changes \in Nat
    /\ connected \subseteq Engines /\ gapped \subseteq Engines
    /\ cached \in [Engines -> Levels]
    /\ index \in [Namespaces -> [Engines -> Levels]]
    /\ pc \in Steps
    /\ req \in RequestRecord
    /\ response \in ResponseRecord
    /\ decisions \in Seq(Record) /\ Len(decisions) <= DecisionCap
    /\ seen \in SeenRecord

Answers == pc = "finish" /\ pc' = "idle"

\* StreamFreshForEngines end to end: a request is judged by its hit ratio only if
\* the stream of an engine it read was healthy at some moment of the request, and
\* falls back for stale events only if every such stream was broken at some moment.
FreshnessIsHonoured ==
    [][Answers =>
          /\ response'.verdict.reason \in {"hit_requirement_met", "hit_requirement_failed"} =>
                req.engines \cap seen.healthy # {}
          /\ response'.verdict.reason = "stale_events" => req.engines \subseteq seen.sick]_vars

\* evaluate reads the version after everything else, and finish once more: no
\* configuration a response was judged under is newer than the version it
\* reports, nor that than the version in the decision log.
VersionCoversReads ==
    [][Answers => seen.version <= response'.version /\ response'.version <= response'.recorded]_vars

\* pickTarget: whatever engines the index still remembers, the target of an
\* accepted request was eligible while the request was evaluated, and a
\* request that found an eligible engine gets a target.
TargetWasEligible ==
    [][Answers /\ response'.verdict.decision = "accept" =>
          /\ response'.target # NoInstance => response'.target \in req.engines \cap seen.eligible
          /\ req.engines # {} => response'.target # NoInstance]_vars

\* The judgment is compared with its promises for every set of stored rules and,
\* under each, for all signals and held prefixes.  Rules take all their values
\* before the first step, so that one look, with empty caches, is enough.
AtStart == pc = "idle" /\ changes = 0 /\ decisions = << >> /\ cached = [e \in Engines |-> Nothing]

Holdings == {l \in [gpu : 0..InputTokens, cpu : 0..InputTokens, disk : 1..InputTokens] :
                l.gpu <= l.cpu /\ l.cpu <= l.disk}
Inputs == [rules : {policies}, inputTokens : {InputTokens},
           query : UNION {[E -> Holdings] : E \in SUBSET Engines},
           fresh : BOOLEAN, tokenized : BOOLEAN, hashSupported : BOOLEAN, hasCandidates : BOOLEAN]

Asks(rules, fields) ==
    \E r \in rules : \E i \in DOMAIN Rules[r].conditions : Rules[r].conditions[i].field \in fields

Decisions(in) == {result.verdict.decision : result \in Evaluate(in)}

Holding(query, e, level) == [x \in DOMAIN query \cup {e} |-> IF x = e THEN level ELSE query[x]]

\* The hits of a query in which one engine holds one more token, in one tier or
\* more: any larger hit is reached by such steps.
Raised(query) ==
    LET old(e) == IF e \in DOMAIN query THEN query[e] ELSE Nothing
        more(e) == {l \in Holdings :
                       /\ l.gpu + l.cpu + l.disk = old(e).gpu + old(e).cpu + old(e).disk + 1
                       /\ old(e).gpu <= l.gpu /\ old(e).cpu <= l.cpu /\ old(e).disk <= l.disk}
    IN  UNION {{Holding(query, e, l) : l \in more(e)} : e \in Engines}

\* bestHit: blocks that one engine holds in addition never turn an accepted
\* request into a rejected one, unless a rule asks for a hit itself.
MoreResidencyNeverRejects ==
    AtStart => \A in \in Inputs :
        ~Asks(in.rules, HitFields) /\ Decisions(in) = {"accept"} =>
            \A query \in Raised(in.query) : Decisions([in EXCEPT !.query = query]) = {"accept"}

\* bestHit takes the first of several best engines in the random order of a map:
\* the verdict is the same for each, unless a rule asks for best_hit_tokens.
TiesDoNotDecide ==
    AtStart => \A in \in Inputs :
        ~Asks(in.rules, {"best_hit_tokens"}) =>
            \A a, b \in Evaluate(in) : a.verdict = b.verdict

\* "never 429 under uncertainty" (internal/httpapi/route.go, evaluate): with a
\* signal missing a request is rejected only if a rule says so in so many words.
UncertaintyRejectsOnDemand ==
    AtStart => \A in \in Inputs :
        UncertaintyReason(in) # "none" /\ "reject" \in Decisions(in) =>
            \E r \in in.rules : \/ Rules[r].action.type \in {"reject", "unknown"}
                                \/ Rules[r].action.onUncertain = "reject"

\* "A disconnected/gapped/absent stream means we may be missing residency updates,
\* so misses cannot be trusted and the caller must fall back (never 429 on a low
\* hit)" (internal/httpapi/service.go): a request rejected for its low hit would
\* be rejected as well if the index knew what an eligible engine holds whose
\* stream was broken when freshness was judged.
MissingResidencyNeverRejects ==
    [][Answers /\ response'.verdict = Reject("hit_requirement_failed") =>
          \A e \in req.engines \cap req.doubted :
              "reject" \in Decisions([Input EXCEPT !.query = Holding(req.query, e, cached[e])])]_vars

=============================================================================
