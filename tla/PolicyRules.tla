----------------------------- MODULE PolicyRules -----------------------------
(***************************************************************************)
(* What an admission rule decides (internal/admission/admission.go), as    *)
(* far as the policy page of the console needs it: to tell whether a rule  *)
(* that was taken apart and put together again is the same (PolicyEditor), *)
(* and to preview it (RulePreview).                                        *)
(*                                                                         *)
(* A value is a list or a scalar, with its parts: numbers and booleans as  *)
(* they are written, since they are compared by what they stand for.  The  *)
(* fields are one of each kind, and the operator "contains" and the status *)
(* of a rejection are left out.                                            *)
(***************************************************************************)
EXTENDS Naturals, Sequences, SequencesExt

CONSTANTS
    ClusterOf,      \* backend -> its cluster
    Number,         \* numeral -> the number it stands for
    Ratios,         \* hit ratios, in percent
    None            \* no rule, no form, a setting of an action that is absent

Indexers == DOMAIN ClusterOf
Clusters == {ClusterOf[b] : b \in Indexers}

Fields == {"cluster_id", "input_tokens", "tokenized"}
NumericField(f) == f = "input_tokens"
BooleanField(f) == f = "tokenized"
Ordered == {"gt", "gte", "lt", "lte"}
Ops == Ordered \cup {"eq", "neq", "in", "not_in"}

\* What a request of a backend has.
Requests(b) == [cluster_id : {ClusterOf[b]}, input_tokens : DOMAIN Number,
                tokenized : {"true", "false"}, ratio : Ratios]

Equals(actual, value) == ~value.list /\ value.parts = <<actual>>
ListContains(value, actual) == Equals(actual, value) \/ (value.list /\ Contains(value.parts, actual))

CompareNumeric(actual, value, op) ==
    /\ ~value.list /\ Len(value.parts) = 1
    /\ {actual, value.parts[1]} \subseteq DOMAIN Number
    /\ LET a == Number[actual] b == Number[value.parts[1]] IN
       CASE op = "gt" -> a > b [] op = "gte" -> a >= b [] op = "lt" -> a < b [] op = "lte" -> a <= b

Matches(q, cond) ==
    CASE cond.op = "eq"     -> Equals(q[cond.field], cond.value)
      [] cond.op = "neq"    -> ~Equals(q[cond.field], cond.value)
      [] cond.op = "in"     -> ListContains(cond.value, q[cond.field])
      [] cond.op = "not_in" -> ~ListContains(cond.value, q[cond.field])
      [] OTHER              -> CompareNumeric(q[cond.field], cond.value, cond.op)

Or(setting, default) == IF setting = None THEN default ELSE setting

ApplyAction(q, action) ==
    IF action.type # "require_cache_hit" THEN action.type
    ELSE IF q.tokenized = "false" THEN Or(action.onUncertain, "fallback_accept")
    ELSE IF q.ratio < Or(action.minHitRatio, 0) THEN Or(action.onLowHit, "reject")
    ELSE "accept"

\* "none": the rule leaves the request to the next one.
Verdict(q, rule) ==
    IF ~rule.enabled \/ \E i \in DOMAIN rule.conditions : ~Matches(q, rule.conditions[i])
    THEN "none" ELSE ApplyAction(q, rule.action)

\* The first rule that takes the request; a request that none takes is
\* accepted.
Decide(q, list) ==
    LET Takes(rule) == Verdict(q, rule) # "none"
        i == SelectInSeq(list, Takes)
    IN  IF i = 0 THEN "accept" ELSE Verdict(q, list[i])

\* The backends that the gateway selects for ?cluster=.
Selects(target) == {b \in Indexers : target = <<"all">> \/ target = <<ClusterOf[b]>>}

=============================================================================
