-------------------------- MODULE ResidencyPromise --------------------------
(***************************************************************************)
(* What the residency index promises its callers, without its maps: a set  *)
(* of facts "this resident holds this block".  A store event adds the      *)
(* facts of one resident, a removal takes away facts of one resident, and  *)
(* a clear takes away every fact of one engine, in one tier or in all.     *)
(* No event of an engine touches a fact about another.                     *)
(***************************************************************************)
CONSTANTS Engines, Ranks, Tiers, RequestKeys

VARIABLE held \* pairs <<request key, resident>>

Resident == [engineID : Engines, dpRank : Ranks, tier : Tiers]

Init == held = {}

Store(r, rks) == held' = held \cup (rks \X {r})

Remove(r, rks) == held' = held \ (rks \X {r})

ClearTiers(e, tiers) == held' = {p \in held : ~(p[2].engineID = e /\ p[2].tier \in tiers)}

Next ==
    \/ \E r \in Resident, rks \in SUBSET RequestKeys : Store(r, rks) \/ Remove(r, rks)
    \/ \E e \in Engines : ClearTiers(e, Tiers) \/ \E t \in Tiers : ClearTiers(e, {t})

Spec == Init /\ [][Next]_held

=============================================================================
