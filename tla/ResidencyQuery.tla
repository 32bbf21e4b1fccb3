---------------------------- MODULE ResidencyQuery ----------------------------
(***************************************************************************)
(* What Index.Query reports of the residency index                         *)
(* (internal/residency/index.go): for each engine that holds the first of  *)
(* the request keys, how many tokens of the request it could reuse, by     *)
(* tier and by data-parallel rank.                                         *)
(*                                                                         *)
(* The loop walks the keys once and keeps the engines that held every      *)
(* block so far.  What it must come to is said below of the holdings       *)
(* alone.  A query runs under ix.mu and changes nothing.                   *)
(***************************************************************************)
EXTENDS ResidencyIndex, FiniteSetsExt

CONSTANT
    MaxQuery      \* bound: longest list of keys of a query

ASSUME QueryAssumption ==
    /\ MaxQuery \in Nat
    /\ IsFiniteSet(Tiers)

EnginesHolding(rk) == {r.engineID : r \in Holders(rk)}

\* Mistake: an engine may join the run at a later block.
ActiveAnywhere(rks) == [i \in 0..Len(rks) |-> IF i = 0 THEN {} ELSE EnginesHolding(rks[i])]

\* Active(rks)[i]: the engines still on a contiguous run after block i.
Active(rks) ==
    LET active[i \in 0..Len(rks)] ==
            IF i = 0 THEN {}
            ELSE IF i = 1 THEN EnginesHolding(rks[1])
            ELSE active[i - 1] \cap EnginesHolding(rks[i])
    IN  active

\* The holdings of engine e in block rk that are in one of the tiers T.
InTiers(rk, e, T) == {r \in Holders(rk) : r.engineID = e /\ r.tier \in T}

InstanceHit(rks, e) ==
    LET matched == {i \in 1..Len(rks) : e \in Active(rks)[i]}
        tokens(S) == BlockSize * Cardinality(S)
    IN  [LongestMatched |-> tokens(matched),
         GPU  |-> tokens({i \in matched : InTiers(rks[i], e, {"gpu"}) # {}}),
         CPU  |-> tokens({i \in matched : InTiers(rks[i], e, {"gpu", "cpu"}) # {}}),
         Disk |-> tokens(matched),
         DP   |-> [d \in Ranks |->
                     tokens({p \in matched \X Tiers :
                                [engineID |-> e, dpRank |-> d, tier |-> p[2]] \in Holders(rks[p[1]])})]]

Query(rks) ==
    [e \in {x \in Engines : Len(rks) > 0 /\ x \in Active(rks)[1]} |-> InstanceHit(rks, e)]

-----------------------------------------------------------------------------
(***************************************************************************)
(* Properties                                                              *)
(***************************************************************************)

HoldsPrefix(e, rks, k) == \A i \in 1..k : HasEngine(Holders(rks[i]), e)

\* What a query must report, said of the holdings alone: an engine's match is
\* the longest prefix of the keys it holds entirely, an engine without the
\* first block is not reported, and the tiers accumulate from gpu to disk.
QueryIsLongestHeldPrefix ==
    \A rks \in UNION {[1..n -> RequestKeys] : n \in 0..MaxQuery}, e \in Engines :
        LET longest == Max({k \in 0..Len(rks) : HoldsPrefix(e, rks, k)})
            hit == Query(rks)[e]
        IN  /\ e \in DOMAIN Query(rks) <=> longest > 0
            /\ longest > 0 =>
                  /\ hit.LongestMatched = BlockSize * longest
                  /\ hit.GPU <= hit.CPU /\ hit.CPU <= hit.Disk
                  /\ hit.Disk = hit.LongestMatched
                  /\ \A d \in Ranks : hit.DP[d] <= Cardinality(Tiers) * hit.LongestMatched

=============================================================================
