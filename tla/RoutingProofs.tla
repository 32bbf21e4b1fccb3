---------------------------- MODULE RoutingProofs ----------------------------
(***************************************************************************)
(* Proofs about Routing and Admission, for all sets of engines, rules and  *)
(* held prefixes and any number of changes.                                *)
(*                                                                         *)
(* The invariant relates what a request has read to what it has lived      *)
(* through: the history only grows, so that what was true when a step read *)
(* it is still in the history when the request is answered.                *)
(***************************************************************************)
EXTENDS Routing, FiniteSetTheorems, SequenceTheorems, TLAPS

\* The history of a request under way covers the present.
Watched ==
    pc # "idle" =>
        /\ Healthy \subseteq seen.healthy
        /\ Engines \ Healthy \subseteq seen.sick
        /\ eligible \subseteq seen.eligible

VersionRead ==
    /\ seen.version <= version
    /\ pc \in {"fresh", "tokenize", "finish"} =>
          seen.version <= req.version /\ req.version <= version

FreshnessRead ==
    /\ req.fresh => req.engines \cap seen.healthy # {}
    /\ pc = "tokenize" \/ req.tokenized => (~req.fresh => req.engines \subseteq seen.sick)
    /\ pc \notin {"tokenize", "finish"} => ~req.fresh
    /\ pc # "finish" => ~req.tokenized

EnginesRead == req.engines \subseteq seen.eligible

ProfileRead == pc \in {"fresh", "tokenize"} => req.profile # 0

IInv == TypeOK /\ Watched /\ VersionRead /\ FreshnessRead /\ EnginesRead /\ ProfileRead

-----------------------------------------------------------------------------
(***************************************************************************)
(* The judgment                                                            *)
(***************************************************************************)

\* applyOutcome gives its reason whatever the outcome, and a verdict always.
LEMMA OutcomeGivesReason ==
    ASSUME NEW outcome, NEW reason \in Reasons, NEW uncertainty \in BOOLEAN
    PROVE  /\ ApplyOutcome(outcome, reason, uncertainty) \in Verdict
           /\ ApplyOutcome(outcome, reason, uncertainty).reason = reason
<1>1. /\ \A fallback \in BOOLEAN : Accept(reason, fallback) \in Verdict /\ Accept(reason, fallback).reason = reason
      /\ Reject(reason) \in Verdict /\ Reject(reason).reason = reason
  BY DEF Accept, Reject, Verdict
<1> QED
  BY <1>1 DEF ApplyOutcome

\* require_cache_hit decides by the hit only if no signal is missing, and by a
\* missing signal only if that signal is missing.
LEMMA CacheHitReasons ==
    ASSUME NEW in, NEW hit, NEW action, in.tokenized \in BOOLEAN, in.fresh \in BOOLEAN
    PROVE  LET v == RequireCacheHit(in, hit, action)
           IN  /\ v \in Verdict
               /\ v.reason \in {"hit_requirement_met", "hit_requirement_failed"} => in.tokenized /\ in.fresh
               /\ v.reason = "stale_events" => in.tokenized /\ ~in.fresh
<1> DEFINE why == UncertaintyReason(in)
           v == RequireCacheHit(in, hit, action)
<1>1. /\ why \in Reasons \ {"hit_requirement_met", "hit_requirement_failed"}
      /\ why = "none" => in.tokenized /\ in.fresh
      /\ why = "stale_events" => in.tokenized /\ ~in.fresh
  BY DEF UncertaintyReason, Reasons
<1> HIDE DEF why
<1>2. CASE why # "none"
  <2>1. v = ApplyOutcome(action.onUncertain, why, TRUE)
    BY <1>2 DEF RequireCacheHit, why
  <2>2. why \in Reasons
    BY <1>1
  <2>3. v \in Verdict /\ v.reason = why
    BY <2>1, <2>2, OutcomeGivesReason
  <2> HIDE DEF v
  <2> QED
    BY <1>1, <2>3 DEF v
<1>3. CASE why = "none" /\ RatioScaled(in, hit) < PercentScaled(in, action.minHitRatio)
  <2>1. v = ApplyOutcome(action.onLowHit, "hit_requirement_failed", FALSE)
    BY <1>3 DEF RequireCacheHit, why
  <2>2. "hit_requirement_failed" \in Reasons
    BY DEF Reasons
  <2>3. v \in Verdict /\ v.reason = "hit_requirement_failed"
    BY <2>1, <2>2, OutcomeGivesReason
  <2> HIDE DEF v
  <2> QED
    BY <1>1, <1>3, <2>3 DEF v
<1>4. CASE why = "none" /\ ~(RatioScaled(in, hit) < PercentScaled(in, action.minHitRatio))
  <2>1. v = Accept("hit_requirement_met", FALSE)
    BY <1>4 DEF RequireCacheHit, why
  <2>2. v \in Verdict /\ v.reason = "hit_requirement_met"
    BY <2>1 DEF Accept, Verdict, Reasons
  <2> QED
    BY <1>1, <1>4, <2>2
<1> QED
  BY <1>2, <1>3, <1>4

\* The same for the whole rule list.
LEMMA JudgedByReason ==
    ASSUME NEW in, NEW hit, in.tokenized \in BOOLEAN, in.fresh \in BOOLEAN
    PROVE  LET v == Judge(in, hit)
           IN  /\ v \in Verdict
               /\ v.reason \in {"hit_requirement_met", "hit_requirement_failed"} => in.tokenized /\ in.fresh
               /\ v.reason = "stale_events" => in.tokenized /\ ~in.fresh
<1> DEFINE action == Rules[First(Matching(in, hit))].action
           v == Judge(in, hit)
<1>1. CASE Matching(in, hit) = {}
  BY <1>1 DEF Judge, Accept, Verdict, Reasons
<1>2. CASE Matching(in, hit) # {}
  <2>1. v = ApplyAction(in, hit, action)
    BY <1>2 DEF Judge
  <2> HIDE DEF action, v
  <2>2. CASE action.type = "require_cache_hit"
    <3>1. v = RequireCacheHit(in, hit, action)
      BY <2>1, <2>2 DEF ApplyAction
    <3> QED
      BY <3>1, CacheHitReasons DEF v
  <2>3. CASE action.type # "require_cache_hit"
    <3>1. v \in {Accept("rule_accept", FALSE), Reject("rule_reject"), Reject("unknown_action")}
      BY <2>1, <2>3 DEF ApplyAction
    <3>2. /\ Accept("rule_accept", FALSE) \in Verdict /\ Accept("rule_accept", FALSE).reason = "rule_accept"
          /\ Reject("rule_reject") \in Verdict /\ Reject("rule_reject").reason = "rule_reject"
          /\ Reject("unknown_action") \in Verdict /\ Reject("unknown_action").reason = "unknown_action"
      BY DEF Accept, Reject, Verdict, Reasons
    <3>3. v \in Verdict /\ v.reason \in {"rule_accept", "rule_reject", "unknown_action"}
      BY <3>1, <3>2
    <3> QED
      BY <3>3 DEF v
  <2> QED
    BY <2>2, <2>3
<1> QED
  BY <1>1, <1>2

\* The hit of a query over typed prefixes is typed.
LEMMA BestHitTyped ==
    ASSUME NEW query \in UNION {[E -> Levels] : E \in SUBSET Engines},
           NEW hit \in BestHits(query)
    PROVE  hit \in HitInfo
<1>1. CASE DOMAIN query = {}
  BY <1>1 DEF BestHits, NoHit, HitInfo
<1>2. CASE DOMAIN query # {}
  <2>1. PICK e \in DOMAIN query : hit = HitOf(query, e)
    BY <1>2 DEF BestHits, Best
  <2>2. e \in Engines /\ query[e] \in [gpu : 0..InputTokens, cpu : 0..InputTokens, disk : 0..InputTokens]
    <3>1. PICK E \in SUBSET Engines : query \in [E -> Levels]
      OBVIOUS
    <3>2. e \in Engines /\ query[e] \in Levels
      BY <3>1
    <3> QED
      BY <3>2, RoutingAssumption
  <2>3. Credit(query[e]) \in Nat
    BY <2>2, RoutingAssumption DEF Credit, NonNegative
  <2>4. Credit(query[e]) \div 4 \in Nat
    BY <2>3
  <2>5. query[e].disk \in Nat
    BY <2>2, RoutingAssumption
  <2> QED
    BY <2>1, <2>2, <2>4, <2>5 DEF HitOf, HitInfo
<1> QED
  BY <1>1, <1>2

-----------------------------------------------------------------------------
(***************************************************************************)
(* Which rule decides                                                      *)
(***************************************************************************)

LEMMA LeastNumber ==
    ASSUME NEW S, S \subseteq Nat, S # {}
    PROVE  \E x \in S : \A y \in S : x <= y
<1>1. PICK x \in S : \A y \in S : ~(<<y, x>> \in OpToRel(<, Nat))
  BY NatLessThanWellFounded, WFMin, Zenon
<1>2. \A y \in S : ~(y < x)
  BY <1>1 DEF OpToRel
<1>3. \A y \in S : x <= y
  <2>1. \A y \in S : y \in Int
    OBVIOUS
  <2> QED
    BY <1>2, <2>1
<1> QED
  BY <1>3

\* The order of the rules is total and strict.
LEMMA RulesAreOrdered ==
    /\ \A r, s \in DOMAIN Rules : r # s => Before(r, s) \/ Before(s, r)
    /\ \A r \in DOMAIN Rules : ~Before(r, r)
    /\ \A r, s, t \in DOMAIN Rules : Before(r, s) /\ Before(s, t) => Before(r, t)
<1>1. \A r \in DOMAIN Rules : r \in Nat /\ Rules[r].priority \in Int
  BY RulesAssumption
<1> QED
  BY <1>1 DEF Before

\* Among the rules that match, one comes first: the one with the fewest before it.
LEMMA FirstRule ==
    ASSUME NEW rules \in SUBSET DOMAIN Rules, rules # {}
    PROVE  First(rules) \in rules
<1> DEFINE earlier(r) == {s \in rules : Before(s, r)}
           counts == {Cardinality(earlier(r)) : r \in rules}
<1>1. IsFiniteSet(rules)
  BY RulesAssumption, FS_Subset
<1>2. \A r \in rules : IsFiniteSet(earlier(r)) /\ Cardinality(earlier(r)) \in Nat
  <2>1. \A r \in rules : earlier(r) \in SUBSET rules
    OBVIOUS
  <2> HIDE DEF earlier
  <2>2. \A r \in rules : IsFiniteSet(earlier(r))
    BY <1>1, <2>1, FS_Subset
  <2> QED
    BY <2>2, FS_CardinalityType
<1>3. PICK r \in rules : \A s \in rules : Cardinality(earlier(r)) <= Cardinality(earlier(s))
  <2> HIDE DEF earlier
  <2>1. counts \subseteq Nat /\ counts # {}
    BY <1>2
  <2>2. PICK c \in counts : \A d \in counts : c <= d
    BY <2>1, LeastNumber
  <2> QED
    BY <2>2
<1>4. ASSUME NEW s \in rules \ {r} PROVE Before(r, s)
  <2> SUFFICES ASSUME ~Before(r, s) PROVE FALSE
    OBVIOUS
  <2>1. Before(s, r)
    BY <1>4, RulesAreOrdered
  <2>2. earlier(s) \in SUBSET earlier(r) /\ earlier(s) # earlier(r)
    BY <2>1, RulesAreOrdered
  <2>3. IsFiniteSet(earlier(r)) /\ Cardinality(earlier(r)) \in Nat /\ Cardinality(earlier(s)) \in Nat
        /\ Cardinality(earlier(r)) <= Cardinality(earlier(s))
    BY <1>2, <1>3
  <2> HIDE DEF earlier
  <2>4. Cardinality(earlier(s)) < Cardinality(earlier(r))
    BY <2>2, <2>3, FS_Subset, FS_CardinalityType
  <2> QED
    BY <2>3, <2>4
<1> QED
  BY <1>3, <1>4 DEF First

\* Two requests that differ in the hit alone meet the same conditions, when no
\* rule asks for a field in which the hits differ.
LEMMA SameRulesMatch ==
    ASSUME NEW in, NEW other, NEW hit, NEW otherHit, NEW fields,
           in.rules \in SUBSET DOMAIN Rules, other.rules = in.rules,
           ~Asks(in.rules, fields),
           in.inputTokens = other.inputTokens,
           \A field \in NumericFields \cup SignalFields :
              field \notin fields => ConditionValue(in, hit, field) = ConditionValue(other, otherHit, field)
    PROVE  Matching(in, hit) = Matching(other, otherHit)
<1>1. ASSUME NEW r \in in.rules, NEW i \in DOMAIN Rules[r].conditions
      PROVE  MatchesCondition(in, hit, Rules[r].conditions[i]) <=>
             MatchesCondition(other, otherHit, Rules[r].conditions[i])
  <2> DEFINE cond == Rules[r].conditions[i]
  <2>1. cond \in Condition
    BY RulesAssumption
  <2>2. cond.field \in NumericFields \cup SignalFields
    BY <2>1 DEF Condition
  <2>3. cond.field \notin fields
    BY DEF Asks
  <2>4. ConditionValue(in, hit, cond.field) = ConditionValue(other, otherHit, cond.field)
    BY <2>2, <2>3
  <2>5. PercentScaled(in, cond.value) = PercentScaled(other, cond.value)
    BY DEF PercentScaled
  <2> HIDE DEF cond
  <2>6. MatchesCondition(in, hit, cond) <=> MatchesCondition(other, otherHit, cond)
    BY <2>4, <2>5, Zenon DEF MatchesCondition
  <2> QED
    BY <2>6 DEF cond
<1> QED
  BY <1>1 DEF Matching

\* The action of the first matching rule is an action, and its rule is stored.
LEMMA FirstMatches ==
    ASSUME NEW in, NEW hit, in.rules \in SUBSET DOMAIN Rules, Matching(in, hit) # {}
    PROVE  /\ First(Matching(in, hit)) \in in.rules
           /\ Rules[First(Matching(in, hit))].action \in Action
<1>1. Matching(in, hit) \in SUBSET in.rules
  BY DEF Matching
<1>2. First(Matching(in, hit)) \in Matching(in, hit)
  BY <1>1, FirstRule
<1> QED
  BY <1>1, <1>2, RulesAssumption

-----------------------------------------------------------------------------
(***************************************************************************)
(* What the judgment promises                                              *)
(***************************************************************************)

\* With a signal missing, a request is rejected only by an action that rejects,
\* by one the code does not know, or by an outcome that says so.
LEMMA RejectedOnDemand ==
    ASSUME NEW in, NEW hit, in.rules \in SUBSET DOMAIN Rules,
           UncertaintyReason(in) # "none", Judge(in, hit).decision = "reject"
    PROVE  \E r \in in.rules : \/ Rules[r].action.type \in {"reject", "unknown"}
                               \/ Rules[r].action.onUncertain = "reject"
<1> DEFINE first == First(Matching(in, hit))
           action == Rules[first].action
<1>1. Matching(in, hit) # {}
  <2> SUFFICES ASSUME Matching(in, hit) = {} PROVE FALSE
    OBVIOUS
  <2> QED
    BY DEF Judge, Accept
<1>2. first \in in.rules /\ action \in Action
  BY <1>1, FirstMatches
<1>3. Judge(in, hit) = ApplyAction(in, hit, action)
  BY <1>1 DEF Judge
<1> HIDE DEF first
<1>4. action.type = "accept" => FALSE
  <2> SUFFICES ASSUME action.type = "accept" PROVE FALSE
    OBVIOUS
  <2> QED
    BY <1>3 DEF ApplyAction, Accept
<1>5. action.type = "require_cache_hit" => action.onUncertain = "reject"
  <2> SUFFICES ASSUME action.type = "require_cache_hit", action.onUncertain # "reject" PROVE FALSE
    OBVIOUS
  <2>1. Judge(in, hit) = ApplyOutcome(action.onUncertain, UncertaintyReason(in), TRUE)
    BY <1>3 DEF ApplyAction, RequireCacheHit
  <2>2. Judge(in, hit).decision = "accept"
    BY <2>1 DEF ApplyOutcome, Accept
  <2> QED
    BY <2>2
<1>6. action.type \in {"accept", "reject", "require_cache_hit", "unknown"}
  BY <1>2 DEF Action
<1> QED
  BY <1>2, <1>4, <1>5, <1>6

\* Hits with the same credited tokens are judged alike, unless a rule asks for
\* the length of the match.
LEMMA SameCreditSameVerdict ==
    ASSUME NEW in, NEW hit, NEW other, in.rules \in SUBSET DOMAIN Rules,
           hit.effective = other.effective, ~Asks(in.rules, {"best_hit_tokens"})
    PROVE  Judge(in, hit) = Judge(in, other)
<1>1. RatioScaled(in, hit) = RatioScaled(in, other)
  BY DEF RatioScaled, Credited
<1>2. \A field \in NumericFields \cup SignalFields :
         field \notin {"best_hit_tokens"} => ConditionValue(in, hit, field) = ConditionValue(in, other, field)
  BY <1>1 DEF NumericFields, SignalFields, ConditionValue
<1>3. Matching(in, hit) = Matching(in, other)
  BY <1>2, SameRulesMatch
<1>4. \A action : ApplyAction(in, hit, action) = ApplyAction(in, other, action)
  BY <1>1 DEF ApplyAction, RequireCacheHit
<1> QED
  BY <1>3, <1>4, Zenon DEF Judge

\* A hit with more credited tokens is accepted where one with fewer is, unless a
\* rule asks for the hit.
LEMMA MoreCreditIsAccepted ==
    ASSUME NEW in, NEW other, NEW hit, NEW more, in.rules \in SUBSET DOMAIN Rules,
           other.rules = in.rules, other.inputTokens = in.inputTokens,
           other.fresh = in.fresh, other.tokenized = in.tokenized,
           other.hashSupported = in.hashSupported, other.hasCandidates = in.hasCandidates,
           in.inputTokens \in Nat, hit.effective \in Nat, more.effective \in Nat,
           hit.effective <= more.effective,
           ~Asks(in.rules, HitFields), Judge(in, hit).decision = "accept"
    PROVE  Judge(other, more).decision = "accept"
<1> DEFINE action == Rules[First(Matching(in, hit))].action
<1>1. UncertaintyReason(other) = UncertaintyReason(in)
  BY DEF UncertaintyReason
<1>2. Matching(other, more) = Matching(in, hit)
  <2>1. \A field \in NumericFields \cup SignalFields :
           field \notin HitFields => ConditionValue(in, hit, field) = ConditionValue(other, more, field)
    BY DEF NumericFields, SignalFields, HitFields, ConditionValue
  <2> QED
    BY <2>1, SameRulesMatch
<1>3. CASE Matching(in, hit) = {}
  BY <1>2, <1>3 DEF Judge, Accept
<1>4. CASE Matching(in, hit) # {}
  <2>1. Judge(in, hit) = ApplyAction(in, hit, action) /\ Judge(other, more) = ApplyAction(other, more, action)
    BY <1>2, <1>4 DEF Judge
  <2>2. action.minHitRatio \in Nat
    BY <1>4, FirstMatches DEF Action
  <2> HIDE DEF action
  <2>3. CASE action.type # "require_cache_hit"
    BY <2>1, <2>3 DEF ApplyAction
  <2>4. CASE action.type = "require_cache_hit"
    <3>1. /\ Judge(in, hit) = RequireCacheHit(in, hit, action)
          /\ Judge(other, more) = RequireCacheHit(other, more, action)
      BY <2>1, <2>4 DEF ApplyAction
    <3>2. CASE UncertaintyReason(in) # "none"
      BY <1>1, <3>1, <3>2 DEF RequireCacheHit
    <3>3. CASE UncertaintyReason(in) = "none"
      <4>1. /\ RatioScaled(in, hit) \in Nat /\ RatioScaled(other, more) \in Nat
            /\ RatioScaled(in, hit) <= RatioScaled(other, more)
        BY DEF RatioScaled, Credited
      <4>2. /\ PercentScaled(other, action.minHitRatio) = PercentScaled(in, action.minHitRatio)
            /\ PercentScaled(in, action.minHitRatio) \in Int
        <5>1. action.minHitRatio * in.inputTokens \in Int
          BY <2>2
        <5> QED
          BY <2>2, <5>1 DEF PercentScaled
      <4>3. CASE RatioScaled(other, more) < PercentScaled(other, action.minHitRatio)
        <5>1. RatioScaled(in, hit) < PercentScaled(in, action.minHitRatio)
          BY <4>1, <4>2, <4>3
        <5> QED
          BY <1>1, <3>1, <3>3, <4>3, <5>1 DEF RequireCacheHit
      <4>4. CASE ~(RatioScaled(other, more) < PercentScaled(other, action.minHitRatio))
        BY <1>1, <3>1, <3>3, <4>4 DEF RequireCacheHit, Accept
      <4> QED
        BY <4>3, <4>4
    <3> QED
      BY <3>2, <3>3
  <2> QED
    BY <2>3, <2>4
<1> QED
  BY <1>3, <1>4

\* A prefix that is longer in some tiers, and shorter in none, is worth as much.
LEMMA CreditGrows ==
    ASSUME NEW few \in Holdings \cup {Nothing}, NEW many \in Holdings \cup {Nothing},
           few.gpu <= many.gpu, few.cpu <= many.cpu, few.disk <= many.disk
    PROVE  Credit(few) <= Credit(many)
<1>1. \A l \in {few, many} : l.gpu \in Nat /\ l.cpu \in Nat /\ l.disk \in Nat /\ l.gpu <= l.cpu /\ l.cpu <= l.disk
  BY RoutingAssumption DEF Holdings, Nothing
<1>2. \A l \in {few, many} : Credit(l) = l.gpu + 2 * l.cpu + l.disk
  BY <1>1 DEF Credit, NonNegative
<1> QED
  BY <1>1, <1>2

\* What a prefix is worth is a number, and at most that of the whole prompt on the GPU.
LEMMA CreditBounded ==
    ASSUME NEW l \in Holdings \cup {Nothing}
    PROVE  Credit(l) \in Nat /\ Credit(l) <= 4 * InputTokens
<1>1. /\ l.gpu \in Nat /\ l.cpu \in Nat /\ l.disk \in Nat
      /\ l.gpu <= l.cpu /\ l.cpu <= l.disk /\ l.disk <= InputTokens /\ InputTokens \in Nat
  BY RoutingAssumption DEF Holdings, Nothing
<1> QED
  BY <1>1 DEF Credit, NonNegative

\* Of engines that hold something, some hold the most.
LEMMA SomeBest ==
    ASSUME NEW query \in UNION {[E -> Holdings] : E \in SUBSET Engines}, DOMAIN query # {}
    PROVE  Best(query) # {}
<1> DEFINE short(e) == 4 * InputTokens - Credit(query[e])
           all == {short(e) : e \in DOMAIN query}
<1>1. \A e \in DOMAIN query : Credit(query[e]) \in Nat /\ Credit(query[e]) <= 4 * InputTokens
  BY CreditBounded
<1>2. InputTokens \in Nat
  BY RoutingAssumption
<1>3. all \subseteq Nat /\ all # {}
  BY <1>1, <1>2
<1>4. PICK e \in DOMAIN query : \A f \in DOMAIN query : short(e) <= short(f)
  <2> HIDE DEF short
  <2>1. PICK n \in all : \A m \in all : n <= m
    BY <1>3, LeastNumber
  <2> QED
    BY <2>1
<1>5. \A f \in DOMAIN query : Credit(query[f]) <= Credit(query[e])
  BY <1>1, <1>2, <1>4
<1> QED
  BY <1>5 DEF Best

\* The best hit of a query credits no fewer tokens when an engine holds more.
LEMMA MoreHoldingsMoreCredit ==
    ASSUME NEW query \in UNION {[E -> Holdings] : E \in SUBSET Engines},
           NEW larger \in Raised(query),
           NEW hit \in BestHits(query), NEW more \in BestHits(larger)
    PROVE  hit.effective \in Nat /\ more.effective \in Nat /\ hit.effective <= more.effective
<1> DEFINE old(e) == IF e \in DOMAIN query THEN query[e] ELSE Nothing
<1>1. PICK e \in Engines, l \in Holdings :
         /\ old(e).gpu <= l.gpu /\ old(e).cpu <= l.cpu /\ old(e).disk <= l.disk
         /\ larger = Holding(query, e, l)
  BY DEF Raised
<1>2. /\ DOMAIN larger = DOMAIN query \cup {e}
      /\ \A x \in DOMAIN larger : larger[x] \in Holdings /\ Credit(larger[x]) \in Nat
      /\ larger[e] = l
      /\ \A x \in DOMAIN query : x # e => larger[x] = query[x]
  BY <1>1, CreditBounded DEF Holding
<1>3. \A x \in DOMAIN query : Credit(query[x]) \in Nat /\ Credit(query[x]) <= Credit(larger[x])
  <2> SUFFICES ASSUME NEW x \in DOMAIN query
               PROVE  Credit(query[x]) \in Nat /\ Credit(query[x]) <= Credit(larger[x])
    OBVIOUS
  <2>1. query[x] \in Holdings
    OBVIOUS
  <2>2. Credit(query[x]) \in Nat
    BY <2>1, CreditBounded
  <2>3. CASE x = e
    <3>1. Credit(query[e]) <= Credit(l)
      BY <1>1, <2>1, <2>3, CreditGrows
    <3> QED
      BY <1>2, <2>2, <2>3, <3>1
  <2>4. CASE x # e
    BY <1>2, <2>2, <2>4
  <2> QED
    BY <2>3, <2>4
<1>4. PICK b \in DOMAIN larger : more = HitOf(larger, b) /\ \A x \in DOMAIN larger : Credit(larger[x]) <= Credit(larger[b])
  BY <1>2 DEF BestHits, Best
<1>5. more.effective = Credit(larger[b]) \div 4 /\ Credit(larger[b]) \in Nat
  BY <1>2, <1>4 DEF HitOf
<1>6. CASE DOMAIN query = {}
  <2>1. hit.effective = 0
    BY <1>6 DEF BestHits, NoHit
  <2> QED
    BY <1>5, <2>1
<1>7. CASE DOMAIN query # {}
  <2>1. PICK a \in DOMAIN query : hit = HitOf(query, a)
    BY <1>7 DEF BestHits, Best
  <2>2. hit.effective = Credit(query[a]) \div 4 /\ Credit(query[a]) \in Nat
    BY <1>3, <2>1 DEF HitOf
  <2>3. Credit(query[a]) <= Credit(larger[b])
    BY <1>2, <1>3, <1>4
  <2> QED
    BY <1>5, <2>2, <2>3
<1> QED
  BY <1>6, <1>7

-----------------------------------------------------------------------------
(***************************************************************************)
(* The target                                                              *)
(***************************************************************************)

\* A set of engines that is not empty has a first one.
LEMMA FirstEngine ==
    ASSUME NEW engines \in SUBSET Engines, engines # {}
    PROVE  \E e \in engines : \A f \in engines : e <= f
<1>1. engines \subseteq Nat
  BY RoutingAssumption
<1>2. PICK e \in engines : \A f \in engines : ~(<<f, e>> \in OpToRel(<, Nat))
  BY <1>1, NatLessThanWellFounded, WFMin, Zenon
<1>3. \A f \in engines : ~(f < e)
  BY <1>1, <1>2 DEF OpToRel
<1> QED
  BY <1>1, <1>3

\* pickTarget returns one of the engines it is given, if it is given any.
LEMMA TargetIsGiven ==
    ASSUME NEW instance \in Engines \cup {NoInstance}, NEW engines \in SUBSET Engines
    PROVE  /\ PickTarget(instance, engines) \in engines \cup {NoInstance}
           /\ engines # {} => PickTarget(instance, engines) \in engines
<1>1. NoInstance \notin engines
  BY RoutingAssumption
<1>2. CASE instance \in engines
  BY <1>2 DEF PickTarget
<1>3. CASE instance \notin engines /\ engines # {}
  <2> DEFINE first == CHOOSE e \in engines : \A f \in engines : e <= f
  <2>1. PickTarget(instance, engines) = first
    BY <1>3 DEF PickTarget
  <2>2. first \in engines
    BY <1>3, FirstEngine
  <2> QED
    BY <2>1, <2>2
<1>4. CASE instance \notin engines /\ engines = {}
  BY <1>4 DEF PickTarget
<1> QED
  BY <1>2, <1>3, <1>4

\* The decision log keeps at most DecisionCap records.
LEMMA LatestFits ==
    ASSUME NEW S, NEW log \in Seq(S)
    PROVE  Latest(log) \in Seq(S) /\ Len(Latest(log)) <= DecisionCap
<1>1. DecisionCap \in Nat \ {0} /\ Len(log) \in Nat
  BY RoutingAssumption
<1>2. CASE Len(log) > DecisionCap
  <2> DEFINE from == Len(log) - DecisionCap + 1
  <2>1. from \in 1..Len(log)
    BY <1>1, <1>2
  <2>2. /\ SubSeq(log, from, Len(log)) \in Seq(S)
        /\ Len(SubSeq(log, from, Len(log))) = Len(log) - from + 1
    BY <1>1, <2>1, SubSeqProperties
  <2> QED
    BY <1>1, <1>2, <2>2 DEF Latest
<1>3. CASE ~(Len(log) > DecisionCap)
  BY <1>1, <1>3 DEF Latest
<1> QED
  BY <1>2, <1>3

-----------------------------------------------------------------------------
(***************************************************************************)
(* Types                                                                   *)
(***************************************************************************)

LEMMA InitTyped == Init => IInv
<1> SUFFICES ASSUME Init PROVE IInv
  OBVIOUS
<1>1. << >> \in UNION {[E -> Levels] : E \in SUBSET Engines}
  <2>1. << >> \in [{} -> Levels]
    OBVIOUS
  <2> QED
    BY <2>1
<1>2. NoRequest \in RequestRecord
  BY <1>1 DEF NoRequest, RequestRecord
<1>3. NoResponse \in ResponseRecord
  BY DEF NoResponse, ResponseRecord, NoHit, HitInfo, Accept, Verdict, Reasons
<1>4. Unseen \in SeenRecord
  BY DEF Unseen, SeenRecord
<1>5. index \in [Namespaces -> [Engines -> Levels]]
  BY RoutingAssumption DEF Init
<1>6. profile \in Namespaces \cup {0}
  BY RoutingAssumption DEF Init, Namespaces
<1>7. decisions \in Seq(Record) /\ Len(decisions) <= DecisionCap
  BY RoutingAssumption DEF Init
<1>8. TypeOK
  BY <1>2, <1>3, <1>4, <1>5, <1>6, <1>7 DEF Init, TypeOK, Steps
<1> QED
  BY <1>8 DEF Init, IInv, Watched, VersionRead, FreshnessRead, EnginesRead, ProfileRead, NoRequest,
     Unseen

\* Only the environment changes the configuration, the streams and the caches.
LEMMA EnvironmentTyped ==
    ASSUME TypeOK, Environment
    PROVE  TypeOK'
<1> USE DEF TypeOK
<1>1. version' \in Nat /\ changes' \in Nat
  BY DEF Environment, Change, EngineChange, PolicyChange, ProfileChange, StreamChange, Reconfigure,
     config
<1>2. eligible' \subseteq Engines /\ policies' \subseteq DOMAIN Rules /\ profile' \in Namespaces \cup {0}
  BY DEF Environment, EngineChange, PolicyChange, ProfileChange, StreamChange, Reconfigure, config
<1>3. /\ connected' \subseteq Engines /\ gapped' \subseteq Engines
      /\ cached' \in [Engines -> Levels] /\ index' \in [Namespaces -> [Engines -> Levels]]
  <2>1. CASE UNCHANGED streams
    BY <2>1 DEF streams
  <2>2. CASE \E e \in Engines : Connect(e)
    <3>1. PICK e \in Engines : Connect(e)
      BY <2>2
    <3>2. connected' \subseteq Engines /\ gapped' \subseteq Engines /\ cached' = cached
      BY <3>1 DEF Connect
    <3>3. index' = index \/ (profile # 0 /\ index' = [index EXCEPT ![profile][e] = cached[e]])
      BY <3>1 DEF Connect
    <3> QED
      BY <3>2, <3>3
  <2>3. CASE \E e \in Engines : Disconnect(e)
    BY <2>3 DEF Disconnect
  <2>4. CASE \E e \in Engines : CacheChange(e)
    <3>1. PICK e \in Engines : CacheChange(e)
      BY <2>4
    <3>2. connected' \subseteq Engines /\ gapped' \subseteq Engines /\ cached' \in [Engines -> Levels]
      BY <3>1 DEF CacheChange
    <3>3. index' = index \/ (profile # 0 /\ index' = [index EXCEPT ![profile][e] = cached'[e]])
      BY <3>1 DEF CacheChange
    <3> QED
      BY <3>2, <3>3
  <2> QED
    BY <2>1, <2>2, <2>3, <2>4
       DEF Environment, EngineChange, PolicyChange, ProfileChange, StreamChange, Reconfigure
<1>4. seen' \in SeenRecord
  <2>1. /\ connected' \ gapped' \subseteq Engines
        /\ Engines \ (connected' \ gapped') \subseteq Engines
        /\ eligible' \subseteq Engines
    BY <1>2, <1>3
  <2> QED
    BY <2>1 DEF Environment, Watch, SeenRecord
<1>5. UNCHANGED <<pc, req, response, decisions>>
  BY DEF Environment
<1> QED
  BY <1>1, <1>2, <1>3, <1>4, <1>5

\* What an evaluation returns has its type, and gives a reason that its input allows.
LEMMA EvaluationTyped ==
    ASSUME TypeOK, NEW result \in Evaluate(Input)
    PROVE  /\ result.verdict \in Verdict /\ result.hit \in HitInfo
           /\ result.verdict.reason \in {"hit_requirement_met", "hit_requirement_failed"} => req.tokenized /\ req.fresh
           /\ result.verdict.reason = "stale_events" => req.tokenized /\ ~req.fresh
<1>1. /\ Input.tokenized = req.tokenized /\ Input.fresh = req.fresh /\ Input.query = req.query
  BY DEF Input
<1>2. /\ req.tokenized \in BOOLEAN /\ req.fresh \in BOOLEAN
      /\ req.query \in UNION {[E -> Levels] : E \in SUBSET Engines}
  BY DEF TypeOK, RequestRecord
<1>3. PICK hit \in BestHits(req.query) : result = [verdict |-> Judge(Input, hit), hit |-> hit]
  BY <1>1 DEF Evaluate
<1>4. result.verdict = Judge(Input, hit) /\ result.hit = hit
  BY <1>3
<1>5. hit \in HitInfo
  BY <1>2, <1>3, BestHitTyped
<1>6. LET v == Judge(Input, hit)
      IN  /\ v \in Verdict
          /\ v.reason \in {"hit_requirement_met", "hit_requirement_failed"} => req.tokenized /\ req.fresh
          /\ v.reason = "stale_events" => req.tokenized /\ ~req.fresh
  BY <1>1, <1>2, JudgedByReason
<1> QED
  BY <1>4, <1>5, <1>6

\* The answer of a request, its record and its target.
LEMMA Answered ==
    ASSUME TypeOK, Finish
    PROVE  \E result \in Evaluate(Input), target \in req.engines \cup {NoInstance} :
              /\ result.verdict.decision = "accept" /\ req.engines # {} => target \in req.engines
              /\ response' = [verdict |-> result.verdict, hit |-> result.hit, target |-> target,
                              version |-> req.version, recorded |-> version]
              /\ decisions' = Latest(Append(decisions, [decision |-> result.verdict.decision, version |-> version]))
<1>1. PICK result \in Evaluate(Input) :
         LET target == IF result.verdict.decision = "reject" THEN NoInstance
                       ELSE PickTarget(result.hit.instance, req.engines)
         IN  /\ response' = [verdict |-> result.verdict, hit |-> result.hit, target |-> target,
                             version |-> req.version, recorded |-> version]
             /\ decisions' = Latest(Append(decisions, [decision |-> result.verdict.decision, version |-> version]))
  BY DEF Finish
<1>2. result.hit.instance \in Engines \cup {NoInstance}
  BY EvaluationTyped DEF HitInfo
<1>3. req.engines \in SUBSET Engines
  BY DEF TypeOK, RequestRecord
<1>4. /\ PickTarget(result.hit.instance, req.engines) \in req.engines \cup {NoInstance}
      /\ req.engines # {} => PickTarget(result.hit.instance, req.engines) \in req.engines
  BY <1>2, <1>3, TargetIsGiven
<1> QED
  BY <1>1, <1>4

\* What the index reports for a namespace has its type.
LEMMA QueryTyped ==
    ASSUME TypeOK, NEW ns \in Namespaces
    PROVE  Query(ns) \in UNION {[E -> Levels] : E \in SUBSET Engines}
<1> DEFINE held == {x \in Engines : index[ns][x] # Nothing}
<1>1. index[ns] \in [Engines -> Levels]
  BY DEF TypeOK
<1>2. Query(ns) \in [held -> Levels] /\ held \in SUBSET Engines
  BY <1>1 DEF Query
<1> QED
  BY <1>2

\* A step of the request that reads: everything but the request is as it was.
LEMMA ReadingTyped ==
    ASSUME TypeOK, ProfileRead,
           \/ ResolveProfile \/ EnginesForModel \/ ListPolicies \/ ReadVersion
           \/ ReadFreshness \/ TokenizeAndQuery \/ TokenizeFails
    PROVE  TypeOK'
<1>1. UNCHANGED <<config, streams, changes, response, decisions>>
  BY DEF ResolveProfile, EnginesForModel, ListPolicies, ReadVersion, ReadFreshness,
         TokenizeAndQuery, TokenizeFails, Reads, Goto
<1>2. pc' \in Steps
  BY DEF ResolveProfile, EnginesForModel, ListPolicies, ReadVersion, ReadFreshness,
         TokenizeAndQuery, TokenizeFails, Reads, Goto, Steps
<1>3. seen' \in SeenRecord
  BY DEF ResolveProfile, EnginesForModel, ListPolicies, ReadVersion, ReadFreshness,
         TokenizeAndQuery, TokenizeFails, Reads, TypeOK, SeenRecord
<1>4. req' \in RequestRecord
  <2> USE DEF TypeOK, RequestRecord
  <2>1. CASE ResolveProfile
    BY <2>1 DEF ResolveProfile, Reads
  <2>2. CASE EnginesForModel
    BY <2>2 DEF EnginesForModel, Reads
  <2>3. CASE ListPolicies
    BY <2>3 DEF ListPolicies, Reads
  <2>4. CASE ReadVersion
    BY <2>4 DEF ReadVersion
  <2>5. CASE ReadFreshness
    BY <2>5 DEF ReadFreshness, StreamFreshForEngines
  <2>6. CASE TokenizeAndQuery
    <3>1. req.profile \in Namespaces
      BY <2>6 DEF TokenizeAndQuery, ProfileRead
    <3> QED
      BY <2>6, <3>1, QueryTyped DEF TokenizeAndQuery
  <2>7. CASE TokenizeFails
    BY <2>7 DEF TokenizeFails
  <2> QED
    BY <2>1, <2>2, <2>3, <2>4, <2>5, <2>6, <2>7
<1> QED
  BY <1>1, <1>2, <1>3, <1>4 DEF TypeOK, config, streams

LEMMA ArriveTyped ==
    ASSUME TypeOK, Arrive
    PROVE  TypeOK'
<1>1. UNCHANGED <<config, streams, changes, decisions>> /\ pc' = "profile"
  BY DEF Arrive, Goto
<1>2. NoRequest \in RequestRecord /\ NoResponse \in ResponseRecord
  <2>1. << >> \in [{} -> Levels]
    OBVIOUS
  <2>2. << >> \in UNION {[E -> Levels] : E \in SUBSET Engines}
    BY <2>1
  <2> QED
    BY <2>2 DEF NoRequest, RequestRecord, NoResponse, ResponseRecord, NoHit, HitInfo, Accept,
       Verdict, Reasons
<1>3. seen' \in SeenRecord
  BY DEF Arrive, SeenRecord, TypeOK, Healthy
<1> QED
  BY <1>1, <1>2, <1>3 DEF Arrive, TypeOK, config, streams, Steps

LEMMA FinishTyped ==
    ASSUME TypeOK, Finish
    PROVE  TypeOK'
<1>1. UNCHANGED <<config, streams, changes>> /\ pc' = "idle"
  BY DEF Finish, Goto
<1>2. NoRequest \in RequestRecord /\ Unseen \in SeenRecord
  <2>1. << >> \in [{} -> Levels]
    OBVIOUS
  <2>2. << >> \in UNION {[E -> Levels] : E \in SUBSET Engines}
    BY <2>1
  <2> QED
    BY <2>2 DEF NoRequest, RequestRecord, Unseen, SeenRecord
<1>3. PICK result \in Evaluate(Input), target \in req.engines \cup {NoInstance} :
         /\ response' = [verdict |-> result.verdict, hit |-> result.hit, target |-> target,
                         version |-> req.version, recorded |-> version]
         /\ decisions' = Latest(Append(decisions, [decision |-> result.verdict.decision, version |-> version]))
  BY Answered
<1>4. result.verdict \in Verdict /\ result.hit \in HitInfo
  BY EvaluationTyped
<1>5. response' \in ResponseRecord
  BY <1>3, <1>4 DEF TypeOK, RequestRecord, ResponseRecord
<1>6. Append(decisions, [decision |-> result.verdict.decision, version |-> version]) \in Seq(Record)
  BY <1>4 DEF TypeOK, Verdict, Record
<1>7. decisions' \in Seq(Record) /\ Len(decisions') <= DecisionCap
  BY <1>3, <1>6, LatestFits
<1> QED
  BY <1>1, <1>2, <1>5, <1>7 DEF Finish, TypeOK, config, streams, Steps

-----------------------------------------------------------------------------
(***************************************************************************)
(* The history                                                             *)
(***************************************************************************)

\* A change under a request adds to its history and takes nothing from it.
LEMMA EnvironmentKeepsHistory ==
    ASSUME IInv, Environment
    PROVE  /\ Watched' /\ VersionRead' /\ FreshnessRead' /\ EnginesRead' /\ ProfileRead'
<1>1. UNCHANGED <<pc, req>>
  BY DEF Environment
<1>2. version' \in Nat /\ version <= version'
  BY DEF Environment, EngineChange, PolicyChange, ProfileChange, StreamChange, Reconfigure, config,
     IInv, TypeOK
<1>3. seen \in SeenRecord /\ version \in Nat /\ req \in RequestRecord
  BY DEF IInv, TypeOK
<1>4. seen' = IF pc = "idle" THEN seen
              ELSE [seen EXCEPT !.healthy  = @ \cup Healthy',
                                !.sick     = @ \cup (Engines \ Healthy'),
                                !.eligible = @ \cup eligible']
  BY DEF Environment, Watch, Healthy
<1>5. /\ seen'.version = seen.version
      /\ seen.healthy \subseteq seen'.healthy /\ seen.sick \subseteq seen'.sick
      /\ seen.eligible \subseteq seen'.eligible
  BY <1>3, <1>4 DEF SeenRecord
<1>6. Watched'
  BY <1>1, <1>3, <1>4 DEF Watched, SeenRecord
<1>7. VersionRead'
  BY <1>1, <1>2, <1>3, <1>5 DEF IInv, VersionRead, SeenRecord, RequestRecord
<1>8. FreshnessRead'
  BY <1>1, <1>5 DEF IInv, FreshnessRead
<1>9. EnginesRead' /\ ProfileRead'
  BY <1>1, <1>5 DEF IInv, EnginesRead, ProfileRead
<1> QED
  BY <1>6, <1>7, <1>8, <1>9

\* A step of the request reads what holds now, and its history covers that.
LEMMA ReadingKeepsHistory ==
    ASSUME IInv,
           \/ ResolveProfile \/ EnginesForModel \/ ListPolicies \/ ReadVersion
           \/ ReadFreshness \/ TokenizeAndQuery \/ TokenizeFails
    PROVE  /\ Watched' /\ VersionRead' /\ FreshnessRead' /\ EnginesRead' /\ ProfileRead'
<1>1. /\ seen \in SeenRecord /\ version \in Nat /\ req \in RequestRecord
      /\ eligible \subseteq Engines /\ req.engines \subseteq Engines
  BY DEF IInv, TypeOK, RequestRecord
<1>2. /\ UNCHANGED <<config, streams, changes>>
      /\ version' = version /\ eligible' = eligible /\ Healthy' = Healthy
      /\ pc # "idle" /\ pc' # "idle"
  BY DEF ResolveProfile, EnginesForModel, ListPolicies, ReadVersion, ReadFreshness,
         TokenizeAndQuery, TokenizeFails, Reads, Goto, config, streams, Healthy
<1>3. /\ seen'.healthy = seen.healthy /\ seen'.sick = seen.sick /\ seen'.eligible = seen.eligible
      /\ seen'.version <= version
  <2>1. seen' = seen \/ seen' = [seen EXCEPT !.version = version]
    BY DEF ResolveProfile, EnginesForModel, ListPolicies, ReadVersion, ReadFreshness,
           TokenizeAndQuery, TokenizeFails, Reads
  <2> QED
    BY <1>1, <2>1 DEF SeenRecord, IInv, VersionRead
<1>4. Watched'
  BY <1>2, <1>3 DEF IInv, Watched
<1>5. CASE ResolveProfile \/ EnginesForModel \/ ListPolicies
  <2>1. pc \notin {"tokenize", "finish"} /\ pc' \notin {"fresh", "tokenize", "finish"}
    BY <1>5 DEF ResolveProfile, EnginesForModel, ListPolicies, Reads, Goto
  <2>2. /\ req'.fresh = req.fresh /\ req'.tokenized = req.tokenized
        /\ req'.engines \in {req.engines, eligible}
    BY <1>1, <1>5 DEF ResolveProfile, EnginesForModel, ListPolicies, Reads, RequestRecord
  <2>3. ~req.fresh /\ ~req.tokenized
    BY <2>1 DEF IInv, FreshnessRead
  <2>4. req'.engines \subseteq seen'.eligible
    BY <1>2, <1>3, <2>2 DEF IInv, EnginesRead, Watched
  <2> QED
    BY <1>2, <1>3, <1>4, <2>1, <2>2, <2>3, <2>4
       DEF VersionRead, FreshnessRead, EnginesRead, ProfileRead
<1>6. CASE ReadVersion
  <2>1. /\ pc = "version" /\ pc' = (IF req.profile = 0 THEN "finish" ELSE "fresh")
        /\ req'.version = version /\ seen' = seen
        /\ req'.fresh = req.fresh /\ req'.tokenized = req.tokenized
        /\ req'.engines = req.engines /\ req'.profile = req.profile
    BY <1>1, <1>6 DEF ReadVersion, Goto, RequestRecord
  <2>2. ~req.fresh /\ ~req.tokenized
    BY <2>1 DEF IInv, FreshnessRead
  <2>3. VersionRead'
    BY <1>1, <1>2, <1>3, <2>1 DEF VersionRead
  <2> QED
    BY <1>4, <2>1, <2>2, <2>3 DEF IInv, FreshnessRead, EnginesRead, ProfileRead
<1>7. CASE ReadFreshness
  <2>1. /\ pc = "fresh" /\ pc' = "tokenize" /\ seen' = seen
        /\ req'.fresh = (req.engines \cap Healthy # {})
        /\ req'.tokenized = req.tokenized /\ req'.version = req.version
        /\ req'.engines = req.engines /\ req'.profile = req.profile
    BY <1>1, <1>7 DEF ReadFreshness, StreamFreshForEngines, Goto, RequestRecord
  <2>2. Healthy \subseteq seen.healthy /\ Engines \ Healthy \subseteq seen.sick
    BY <1>2 DEF IInv, Watched
  <2>3. FreshnessRead'
    BY <1>1, <2>1, <2>2 DEF IInv, FreshnessRead
  <2>4. VersionRead'
    BY <1>2, <2>1 DEF IInv, VersionRead
  <2> QED
    BY <1>4, <2>1, <2>3, <2>4 DEF IInv, EnginesRead, ProfileRead
<1>8. CASE TokenizeAndQuery \/ TokenizeFails
  <2>1. /\ pc = "tokenize" /\ pc' = "finish" /\ seen' = seen
        /\ req'.fresh = req.fresh /\ req'.version = req.version
        /\ req'.engines = req.engines /\ req'.profile = req.profile
    BY <1>1, <1>8 DEF TokenizeAndQuery, TokenizeFails, Goto, RequestRecord
  <2>2. FreshnessRead'
    BY <2>1 DEF IInv, FreshnessRead
  <2>3. VersionRead'
    BY <1>2, <2>1 DEF IInv, VersionRead
  <2> QED
    BY <1>4, <2>1, <2>2, <2>3 DEF IInv, EnginesRead, ProfileRead
<1> QED
  BY <1>5, <1>6, <1>7, <1>8

\* A request starts with the present as its history.
LEMMA ArriveKeepsHistory ==
    ASSUME IInv, Arrive
    PROVE  /\ Watched' /\ VersionRead' /\ FreshnessRead' /\ EnginesRead' /\ ProfileRead'
<1>1. /\ pc' = "profile" /\ version' = version /\ eligible' = eligible /\ Healthy' = Healthy
      /\ req' = NoRequest
      /\ seen' = [healthy |-> Healthy, sick |-> Engines \ Healthy, eligible |-> eligible, version |-> version]
  BY DEF Arrive, Goto, config, streams, Healthy
<1>2. version \in Nat
  BY DEF IInv, TypeOK
<1> QED
  BY <1>1, <1>2 DEF Watched, VersionRead, FreshnessRead, EnginesRead, ProfileRead, NoRequest

\* Between requests there is no history.
LEMMA FinishKeepsHistory ==
    ASSUME IInv, Finish
    PROVE  /\ Watched' /\ VersionRead' /\ FreshnessRead' /\ EnginesRead' /\ ProfileRead'
<1>1. pc' = "idle" /\ version' = version /\ version \in Nat /\ req' = NoRequest /\ seen' = Unseen
  BY DEF Finish, Goto, config, IInv, TypeOK
<1> QED
  BY <1>1 DEF Watched, VersionRead, FreshnessRead, EnginesRead, ProfileRead, NoRequest, Unseen

\* The invariant is inductive.
LEMMA StepKeepsInvariant ==
    ASSUME IInv, [Next]_vars
    PROVE  IInv'
<1>1. CASE Environment
  BY <1>1, EnvironmentTyped, EnvironmentKeepsHistory DEF IInv
<1>2. CASE Arrive
  BY <1>2, ArriveTyped, ArriveKeepsHistory DEF IInv
<1>3. CASE \/ ResolveProfile \/ EnginesForModel \/ ListPolicies \/ ReadVersion
           \/ ReadFreshness \/ TokenizeAndQuery \/ TokenizeFails
  BY <1>3, ReadingTyped, ReadingKeepsHistory DEF IInv
<1>4. CASE Finish
  BY <1>4, FinishTyped, FinishKeepsHistory DEF IInv
<1>5. CASE UNCHANGED vars
  BY <1>5 DEF vars, config, streams, IInv, TypeOK, Watched, Healthy, VersionRead, FreshnessRead,
              EnginesRead, ProfileRead
<1> QED
  BY <1>1, <1>2, <1>3, <1>4, <1>5 DEF Next, Evaluation

\* The step that answers a request finishes its evaluation.
LEMMA AnswersFinish ==
    ASSUME IInv, [Next]_vars, Answers
    PROVE  Finish
<1>1. pc' # pc
  BY DEF Answers
<1>2. ~Environment /\ ~UNCHANGED vars
  BY <1>1 DEF Environment, vars
<1>3. /\ ~Arrive /\ ~ResolveProfile /\ ~EnginesForModel /\ ~ListPolicies /\ ~ReadVersion
      /\ ~ReadFreshness /\ ~TokenizeAndQuery /\ ~TokenizeFails
  BY DEF Answers, Arrive, ResolveProfile, EnginesForModel, ListPolicies, ReadVersion,
         ReadFreshness, TokenizeAndQuery, TokenizeFails, Reads, Goto
<1> QED
  BY <1>2, <1>3 DEF Next, Evaluation

-----------------------------------------------------------------------------
(***************************************************************************)
(* Theorems                                                                *)
(***************************************************************************)

\* The history, the versions and the freshness a request has read are related
\* as IInv says in every state of evaluate and finish (route.go).
THEOREM RoutingInvariant == Spec => []IInv
<1>1. Init => IInv
  BY InitTyped
<1>2. IInv /\ [Next]_vars => IInv'
  BY StepKeepsInvariant
<1> QED
  BY <1>1, <1>2, PTL DEF Spec

\* Requests, responses and the decision log have their types, and the log is
\* never longer than its cap (decisions.go).
THEOREM RoutingTyped == Spec => []TypeOK
<1>1. IInv => TypeOK
  BY DEF IInv
<1> QED
  BY <1>1, RoutingInvariant, PTL

\* A verdict by hit ratio rests on a stream that was healthy during the request,
\* and a fallback for stale events on streams that were not (streamFreshForEngines).
THEOREM FreshnessHonoured == Spec => FreshnessIsHonoured
<1>1. ASSUME IInv, [Next]_vars, Answers
      PROVE  /\ response'.verdict.reason \in {"hit_requirement_met", "hit_requirement_failed"} =>
                   req.engines \cap seen.healthy # {}
             /\ response'.verdict.reason = "stale_events" => req.engines \subseteq seen.sick
  <2>1. Finish /\ TypeOK
    BY <1>1, AnswersFinish DEF IInv
  <2>2. PICK result \in Evaluate(Input), target \in req.engines \cup {NoInstance} :
           response' = [verdict |-> result.verdict, hit |-> result.hit, target |-> target,
                        version |-> req.version, recorded |-> version]
    BY <2>1, Answered
  <2>3. /\ result.verdict.reason \in {"hit_requirement_met", "hit_requirement_failed"} => req.tokenized /\ req.fresh
        /\ result.verdict.reason = "stale_events" => req.tokenized /\ ~req.fresh
    BY <2>1, EvaluationTyped
  <2>4. response'.verdict = result.verdict
    BY <2>2
  <2> QED
    BY <1>1, <2>3, <2>4 DEF IInv, FreshnessRead
<1> QED
  BY <1>1, RoutingInvariant, PTL DEF Spec, FreshnessIsHonoured

\* The version a response reports is at least that of every configuration it was
\* judged under, and the one in the log at least that (evaluate, finish).
THEOREM VersionCovers == Spec => VersionCoversReads
<1>1. ASSUME IInv, [Next]_vars, Answers
      PROVE  seen.version <= response'.version /\ response'.version <= response'.recorded
  <2>1. Finish /\ TypeOK /\ pc = "finish"
    BY <1>1, AnswersFinish DEF IInv, Answers
  <2>2. PICK result \in Evaluate(Input), target \in req.engines \cup {NoInstance} :
           response' = [verdict |-> result.verdict, hit |-> result.hit, target |-> target,
                        version |-> req.version, recorded |-> version]
    BY <2>1, Answered
  <2>3. response'.version = req.version /\ response'.recorded = version
    BY <2>2
  <2> QED
    BY <1>1, <2>1, <2>3 DEF IInv, VersionRead
<1> QED
  BY <1>1, RoutingInvariant, PTL DEF Spec, VersionCoversReads

\* An accepted request is sent to an engine that was eligible during the request
\* (pickTarget), whatever engines the index reports.
THEOREM TargetEligible == Spec => TargetWasEligible
<1>1. ASSUME IInv, [Next]_vars, Answers, response'.verdict.decision = "accept"
      PROVE  /\ response'.target # NoInstance => response'.target \in req.engines \cap seen.eligible
             /\ req.engines # {} => response'.target # NoInstance
  <2>1. Finish /\ TypeOK
    BY <1>1, AnswersFinish DEF IInv
  <2>2. PICK result \in Evaluate(Input), target \in req.engines \cup {NoInstance} :
           /\ result.verdict.decision = "accept" /\ req.engines # {} => target \in req.engines
           /\ response' = [verdict |-> result.verdict, hit |-> result.hit, target |-> target,
                           version |-> req.version, recorded |-> version]
    BY <2>1, Answered
  <2>3. response'.verdict = result.verdict /\ response'.target = target
    BY <2>2
  <2>4. NoInstance \notin req.engines
    BY <2>1, RoutingAssumption DEF TypeOK, RequestRecord
  <2> QED
    BY <1>1, <2>2, <2>3, <2>4 DEF IInv, EnginesRead
<1> QED
  BY <1>1, RoutingInvariant, PTL DEF Spec, TargetWasEligible

\* "Never 429 under uncertainty" (evaluate): whatever rules are stored, whatever is
\* held and whichever signal is missing, a rejection was asked for by a rule.
THEOREM UncertaintyIsNoReason == Spec => []UncertaintyRejectsOnDemand
<1>1. ASSUME TypeOK, NEW in \in Inputs, UncertaintyReason(in) # "none", "reject" \in Decisions(in)
      PROVE  \E r \in in.rules : \/ Rules[r].action.type \in {"reject", "unknown"}
                                 \/ Rules[r].action.onUncertain = "reject"
  <2>1. in.rules \in SUBSET DOMAIN Rules
    BY <1>1 DEF TypeOK, Inputs
  <2>2. PICK hit \in BestHits(in.query) : Judge(in, hit).decision = "reject"
    BY <1>1 DEF Decisions, Evaluate
  <2> QED
    BY <1>1, <2>1, <2>2, RejectedOnDemand
<1>2. TypeOK => UncertaintyRejectsOnDemand
  BY <1>1 DEF UncertaintyRejectsOnDemand
<1> QED
  BY <1>2, RoutingTyped, PTL

\* The random order of the map bestHit walks decides no request: best engines have
\* the same credit, and only a rule on best_hit_tokens can tell them apart.
THEOREM TiesAreHarmless == Spec => []TiesDoNotDecide
<1>1. ASSUME TypeOK, NEW in \in Inputs, ~Asks(in.rules, {"best_hit_tokens"}),
             NEW a \in Evaluate(in), NEW b \in Evaluate(in)
      PROVE  a.verdict = b.verdict
  <2>1. /\ in.rules \in SUBSET DOMAIN Rules
        /\ in.query \in UNION {[E -> Holdings] : E \in SUBSET Engines}
    BY <1>1 DEF TypeOK, Inputs
  <2>2. PICK hit \in BestHits(in.query) : a = [verdict |-> Judge(in, hit), hit |-> hit]
    BY <1>1 DEF Evaluate
  <2>3. PICK other \in BestHits(in.query) : b = [verdict |-> Judge(in, other), hit |-> other]
    BY <1>1 DEF Evaluate
  <2>4. CASE DOMAIN in.query = {}
    BY <2>2, <2>3, <2>4 DEF BestHits
  <2>5. CASE DOMAIN in.query # {}
    <3>1. PICK e \in Best(in.query) : hit = HitOf(in.query, e)
      BY <2>5 DEF BestHits
    <3>2. PICK f \in Best(in.query) : other = HitOf(in.query, f)
      BY <2>5 DEF BestHits
    <3>3. \A x \in DOMAIN in.query : Credit(in.query[x]) \in Nat
      BY <2>1, CreditBounded
    <3>4. Credit(in.query[e]) = Credit(in.query[f])
      BY <3>1, <3>2, <3>3 DEF Best
    <3>5. hit.effective = other.effective
      BY <3>1, <3>2, <3>4 DEF HitOf
    <3> QED
      BY <1>1, <2>1, <2>2, <2>3, <3>5, SameCreditSameVerdict
  <2> QED
    BY <2>4, <2>5
<1>2. TypeOK => TiesDoNotDecide
  BY <1>1 DEF TiesDoNotDecide
<1> QED
  BY <1>2, RoutingTyped, PTL

\* What an engine holds in addition turns no accepted request into a rejected one
\* (bestHit, applyAction): the ratio of the best hit only grows.
THEOREM ResidencyHelps == Spec => []MoreResidencyNeverRejects
<1>1. ASSUME TypeOK, NEW in \in Inputs, ~Asks(in.rules, HitFields), Decisions(in) = {"accept"},
             NEW query \in Raised(in.query)
      PROVE  Decisions([in EXCEPT !.query = query]) = {"accept"}
  <2> DEFINE other == [in EXCEPT !.query = query]
  <2>1. /\ in.rules \in SUBSET DOMAIN Rules /\ in.inputTokens \in Nat
        /\ in.query \in UNION {[E -> Holdings] : E \in SUBSET Engines}
    BY <1>1, RoutingAssumption DEF TypeOK, Inputs
  <2>2. /\ other.rules = in.rules /\ other.inputTokens = in.inputTokens
        /\ other.fresh = in.fresh /\ other.tokenized = in.tokenized
        /\ other.hashSupported = in.hashSupported /\ other.hasCandidates = in.hasCandidates
        /\ other.query = query
    BY DEF Inputs
  <2> HIDE DEF other
  <2>3. PICK hit \in BestHits(in.query) : Judge(in, hit).decision = "accept"
    BY <1>1 DEF Decisions, Evaluate
  <2>4. ASSUME NEW more \in BestHits(query) PROVE Judge(other, more).decision = "accept"
    <3>1. hit.effective \in Nat /\ more.effective \in Nat /\ hit.effective <= more.effective
      BY <1>1, <2>1, MoreHoldingsMoreCredit
    <3> QED
      BY <1>1, <2>1, <2>2, <2>3, <3>1, MoreCreditIsAccepted
  <2>5. BestHits(query) # {}
    <3>1. query \in UNION {[E -> Holdings] : E \in SUBSET Engines} /\ DOMAIN query # {}
      <4>1. PICK e \in Engines, l \in Holdings : query = Holding(in.query, e, l)
        BY <1>1 DEF Raised
      <4>2. PICK E \in SUBSET Engines : in.query \in [E -> Holdings]
        BY <2>1
      <4>3. query \in [E \cup {e} -> Holdings] /\ e \in DOMAIN query
        BY <4>1, <4>2 DEF Holding
      <4> QED
        BY <4>3
    <3> QED
      BY <3>1, SomeBest DEF BestHits
  <2>6. /\ \A result \in Evaluate(other) : result.verdict.decision = "accept"
        /\ Evaluate(other) # {}
    <3>1. Evaluate(other) = {[verdict |-> Judge(other, more), hit |-> more] : more \in BestHits(query)}
      BY <2>2, Zenon DEF Evaluate
    <3>2. \A result \in Evaluate(other) :
             \E more \in BestHits(query) : result = [verdict |-> Judge(other, more), hit |-> more]
      BY <3>1, Zenon
    <3>3. \A result \in Evaluate(other) : \E more \in BestHits(query) : result.verdict = Judge(other, more)
      BY <3>2
    <3>4. \A result \in Evaluate(other) : result.verdict.decision = "accept"
      BY <2>4, <3>3, Zenon
    <3>5. Evaluate(other) # {}
      BY <2>5, <3>1, Zenon
    <3> QED
      BY <3>4, <3>5
  <2>7. Decisions(other) = {"accept"}
    BY <2>6 DEF Decisions
  <2> QED
    BY <2>7 DEF other
<1>2. TypeOK => MoreResidencyNeverRejects
  BY <1>1 DEF MoreResidencyNeverRejects
<1> QED
  BY <1>2, RoutingTyped, PTL

=============================================================================
