------------------------------ MODULE Admission ------------------------------
(***************************************************************************)
(* The admission judgment of internal/admission/admission.go as operators. *)
(*                                                                         *)
(* An input says what the request knows: the number of input tokens, the   *)
(* ids of the rules, the cached prefix each engine was found to hold, and  *)
(* the four signals the judgment may have to do without.  Rule ids are     *)
(* numbers, since only their order matters.  Hit ratios are exact          *)
(* fractions and thresholds are percentages: the comparisons of the code,  *)
(* on correctly rounded floating-point quotients, decide the same way.     *)
(* Conditions on cluster, model and tenant, the same for all the requests  *)
(* of one model, are left out.                                             *)
(***************************************************************************)
EXTENDS Integers, FiniteSets

CONSTANTS
    Rules,        \* rule id -> [priority, enabled, conditions, action]
    NoInstance    \* the engine of a hit when there is none

Outcomes == {"accept", "reject", "fallback_accept"}

NumericFields == {"input_tokens", "hit_ratio", "best_hit_tokens", "effective_cached_tokens"}
HitFields == {"hit_ratio", "best_hit_tokens", "effective_cached_tokens"}
SignalFields == {"kv_event_state", "tokenized", "hash_supported", "has_candidates"}

Condition == [field : NumericFields, op : {"eq", "neq", "gt", "gte", "lt", "lte"}, value : Int]
                 \cup [field : SignalFields, op : {"eq", "neq"}, value : BOOLEAN]

\* An outcome the code does not know, or none, is "".
Action == [type : {"accept", "reject", "require_cache_hit", "unknown"},
           minHitRatio : Nat, onLowHit : Outcomes \cup {""}, onUncertain : Outcomes \cup {""}]

ASSUME RulesAssumption ==
    /\ DOMAIN Rules \subseteq Nat /\ IsFiniteSet(DOMAIN Rules)
    /\ \A r \in DOMAIN Rules :
          /\ Rules[r].priority \in Int
          /\ Rules[r].enabled \in BOOLEAN
          /\ \A i \in DOMAIN Rules[r].conditions : Rules[r].conditions[i] \in Condition
          /\ Rules[r].action \in Action

-----------------------------------------------------------------------------
(***************************************************************************)
(* The best hit                                                            *)
(***************************************************************************)

NonNegative(n) == IF n < 0 THEN 0 ELSE n

\* The weights 1, 0.75 and 0.25 of the tiers, in quarters of a token.  The
\* counts of a hit are cumulative: gpu <= cpu <= disk.
Credit(hit) ==
    4 * hit.gpu + 3 * NonNegative(hit.cpu - hit.gpu) + NonNegative(hit.disk - hit.cpu)

\* Mistake: the engine with the longest match is taken.
BestByLongest(query) ==
    {e \in DOMAIN query : \A f \in DOMAIN query : query[f].disk <= query[e].disk}

\* The loop keeps the first of the engines with the most credit, in the
\* order of a Go map: any of them.
Best(query) ==
    {e \in DOMAIN query : \A f \in DOMAIN query : Credit(query[f]) <= Credit(query[e])}

HitOf(query, e) ==
    [instance |-> e, bestTokens |-> query[e].disk, effective |-> Credit(query[e]) \div 4]

NoHit == [instance |-> NoInstance, bestTokens |-> 0, effective |-> 0]

BestHits(query) ==
    IF DOMAIN query = {} THEN {NoHit} ELSE {HitOf(query, e) : e \in Best(query)}

\* Mistake: the ratio counts the tokens of every tier in full.
CreditedInFull(in, hit) == IF hit.bestTokens > in.inputTokens THEN in.inputTokens ELSE hit.bestTokens

\* Numerator of the hit ratio; its denominator is the number of input tokens.
Credited(in, hit) == IF hit.effective > in.inputTokens THEN in.inputTokens ELSE hit.effective

\* The hit ratio against a percentage, as two numbers to compare.
RatioScaled(in, hit) == IF in.inputTokens > 0 THEN 100 * Credited(in, hit) ELSE 0
PercentScaled(in, percent) == IF in.inputTokens > 0 THEN percent * in.inputTokens ELSE percent

-----------------------------------------------------------------------------
(***************************************************************************)
(* Rules                                                                   *)
(***************************************************************************)

ConditionValue(in, hit, field) ==
    CASE field = "input_tokens"            -> in.inputTokens
      [] field = "hit_ratio"               -> RatioScaled(in, hit)
      [] field = "best_hit_tokens"         -> hit.bestTokens
      [] field = "effective_cached_tokens" -> hit.effective
      [] field = "kv_event_state"          -> in.fresh
      [] field = "tokenized"               -> in.tokenized
      [] field = "hash_supported"          -> in.hashSupported
      [] field = "has_candidates"          -> in.hasCandidates

MatchesCondition(in, hit, cond) ==
    LET actual == ConditionValue(in, hit, cond.field)
        value  == IF cond.field = "hit_ratio" THEN PercentScaled(in, cond.value) ELSE cond.value
    IN  CASE cond.op = "eq"  -> actual = value
          [] cond.op = "neq" -> actual # value
          [] cond.op = "gt"  -> actual > value
          [] cond.op = "gte" -> actual >= value
          [] cond.op = "lt"  -> actual < value
          [] cond.op = "lte" -> actual <= value

Matching(in, hit) ==
    {r \in in.rules :
        /\ Rules[r].enabled
        /\ \A i \in DOMAIN Rules[r].conditions : MatchesCondition(in, hit, Rules[r].conditions[i])}

\* Priority descending, then rule id.
Before(r, s) ==
    \/ Rules[r].priority > Rules[s].priority
    \/ Rules[r].priority = Rules[s].priority /\ r < s

First(rules) == CHOOSE r \in rules : \A s \in rules \ {r} : Before(r, s)

-----------------------------------------------------------------------------
(***************************************************************************)
(* The verdict                                                             *)
(***************************************************************************)

Accept(reason, fallback) == [decision |-> "accept", reason |-> reason, fallback |-> fallback]
Reject(reason) == [decision |-> "reject", reason |-> reason, fallback |-> FALSE]

\* The first signal that is missing, in the order of the code.
UncertaintyReason(in) ==
    IF ~in.tokenized THEN "tokenization_unavailable"
    ELSE IF ~in.hashSupported THEN "hash_feature_unsupported"
    ELSE IF ~in.hasCandidates THEN "no_eligible_candidates"
    ELSE IF ~in.fresh THEN "stale_events"
    ELSE "none"

\* Mistake: an outcome that is not known rejects, whatever it is for.
OutcomeOrReject(outcome, reason, uncertainty) ==
    CASE outcome = "accept"          -> Accept(reason, FALSE)
      [] outcome = "fallback_accept" -> Accept(reason, TRUE)
      [] OTHER                       -> Reject(reason)

\* Without a known outcome, uncertainty accepts and a low hit rejects.
ApplyOutcome(outcome, reason, uncertainty) ==
    CASE outcome = "accept"          -> Accept(reason, FALSE)
      [] outcome = "fallback_accept" -> Accept(reason, TRUE)
      [] outcome = "reject"          -> Reject(reason)
      [] OTHER -> IF uncertainty THEN Accept(reason, TRUE) ELSE Reject(reason)

RequireCacheHit(in, hit, action) ==
    IF UncertaintyReason(in) # "none"
        THEN ApplyOutcome(action.onUncertain, UncertaintyReason(in), TRUE)
    ELSE IF RatioScaled(in, hit) < PercentScaled(in, action.minHitRatio)
        THEN ApplyOutcome(action.onLowHit, "hit_requirement_failed", FALSE)
    ELSE Accept("hit_requirement_met", FALSE)

ApplyAction(in, hit, action) ==
    CASE action.type = "accept"            -> Accept("rule_accept", FALSE)
      [] action.type = "reject"            -> Reject("rule_reject")
      [] action.type = "require_cache_hit" -> RequireCacheHit(in, hit, action)
      [] OTHER                             -> Reject("unknown_action")

\* The result for one choice of best hit.
Judge(in, hit) ==
    LET matching == Matching(in, hit)
    IN  IF matching = {} THEN Accept("no_matching_rule", FALSE)
                         ELSE ApplyAction(in, hit, Rules[First(matching)].action)

Evaluate(in) == {[verdict |-> Judge(in, hit), hit |-> hit] : hit \in BestHits(in.query)}

=============================================================================
