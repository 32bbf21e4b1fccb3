------------------------------ MODULE MCRouting ------------------------------
(***************************************************************************)
(* Two engines of one model that hold the whole prompt, off the GPU, or    *)
(* nothing of it, and three rules that use every condition kind and the    *)
(* actions and outcomes the properties tell apart.                         *)
(***************************************************************************)
EXTENDS Routing

MCLevels == {Nothing, [gpu |-> 0, cpu |-> 4, disk |-> 4]}

Requirement(onLowHit, onUncertain) ==
    [type |-> "require_cache_hit", minHitRatio |-> 25, onLowHit |-> onLowHit, onUncertain |-> onUncertain]

Plain(type) == [type |-> type, minHitRatio |-> 0, onLowHit |-> "", onUncertain |-> ""]

MCRules ==
    << \* long enough prompts must hit
       [priority |-> 20, enabled |-> TRUE, action |-> Requirement("", ""),
        conditions |-> <<[field |-> "input_tokens", op |-> "gte", value |-> 3]>>],
       \* a hit of a quarter at most needs healthy events
       [priority |-> 30, enabled |-> TRUE, action |-> Plain("reject"),
        conditions |-> <<[field |-> "hit_ratio", op |-> "lte", value |-> 25],
                         [field |-> "kv_event_state", op |-> "eq", value |-> TRUE]>>],
       \* the catch-all is strict
       [priority |-> 20, enabled |-> TRUE, action |-> Requirement("accept", "fallback_accept"),
        conditions |-> << >>] >>

=============================================================================
