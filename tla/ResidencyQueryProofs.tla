------------------------- MODULE ResidencyQueryProofs -------------------------
(***************************************************************************)
(* Proofs about the queries of the residency index, for any lists of keys  *)
(* and any holdings.                                                       *)
(*                                                                         *)
(* The run of the loop is a function defined by recursion.  That the       *)
(* recursion has the expected function as its only solution needs no       *)
(* induction principle: one solution is written down, and if another       *)
(* differed from it there would be a first block at which it does.         *)
(***************************************************************************)
EXTENDS ResidencyQuery, FiniteSetTheorems, TLAPS

\* The engines that hold each of the first i keys, none before the first key.
HoldAll(rks, i) == IF i = 0 THEN {} ELSE {e \in EnginesHolding(rks[1]) : HoldsPrefix(e, rks, i)}

LEMMA HoldersAreEngines == \A e, rk : e \in EnginesHolding(rk) <=> HasEngine(Holders(rk), e)
BY DEF EnginesHolding, HasEngine

-----------------------------------------------------------------------------
(***************************************************************************)
(* The run of the loop                                                     *)
(***************************************************************************)

\* What the recursion of Active asks of a function.
IsRun(rks, f) ==
    f = [i \in 0..Len(rks) |->
            IF i = 0 THEN {}
            ELSE IF i = 1 THEN EnginesHolding(rks[1])
            ELSE f[i - 1] \cap EnginesHolding(rks[i])]

LEMMA RunExists ==
    ASSUME NEW rks, Len(rks) \in Nat
    PROVE  IsRun(rks, [i \in 0..Len(rks) |-> HoldAll(rks, i)])
<1> DEFINE f == [i \in 0..Len(rks) |-> HoldAll(rks, i)]
<1>1. ASSUME NEW i \in 0..Len(rks), i # 0, i # 1
      PROVE  HoldAll(rks, i) = HoldAll(rks, i - 1) \cap EnginesHolding(rks[i])
  <2>1. i \in Nat /\ i >= 2 /\ i - 1 # 0 /\ i - 1 \in 0..Len(rks)
    BY <1>1
  <2>2. \A e : HoldsPrefix(e, rks, i) <=> HoldsPrefix(e, rks, i - 1) /\ HasEngine(Holders(rks[i]), e)
    <3>1. \A j : j \in 1..i <=> j \in 1..(i - 1) \/ j = i
      BY <2>1
    <3> QED
      BY <3>1 DEF HoldsPrefix
  <2> QED
    BY <2>1, <2>2, HoldersAreEngines DEF HoldAll
<1>2. Len(rks) >= 1 => HoldAll(rks, 1) = EnginesHolding(rks[1])
  BY HoldersAreEngines DEF HoldAll, HoldsPrefix
<1>3. \A i \in 0..Len(rks) :
         f[i] = IF i = 0 THEN {}
                ELSE IF i = 1 THEN EnginesHolding(rks[1])
                ELSE f[i - 1] \cap EnginesHolding(rks[i])
  <2> SUFFICES ASSUME NEW i \in 0..Len(rks)
               PROVE  f[i] = IF i = 0 THEN {}
                             ELSE IF i = 1 THEN EnginesHolding(rks[1])
                             ELSE f[i - 1] \cap EnginesHolding(rks[i])
    OBVIOUS
  <2>1. f[i] = HoldAll(rks, i)
    OBVIOUS
  <2>2. CASE i = 0
    BY <2>1, <2>2 DEF HoldAll
  <2>3. CASE i = 1
    BY <1>2, <2>1, <2>3
  <2>4. CASE i # 0 /\ i # 1
    <3>1. i - 1 \in 0..Len(rks)
      BY <2>4
    <3>2. f[i - 1] = HoldAll(rks, i - 1)
      BY <3>1
    <3> HIDE DEF f
    <3> QED
      BY <1>1, <2>1, <2>4, <3>2
  <2> QED
    BY <2>2, <2>3, <2>4
<1>4. f = [i \in 0..Len(rks) |-> f[i]]
  OBVIOUS
<1> HIDE DEF f
<1>5. IsRun(rks, f)
  BY <1>3, <1>4 DEF IsRun
<1> QED
  BY <1>5 DEF f

\* Two functions the recursion allows agree: else there is a first difference.
LEMMA RunIsUnique ==
    ASSUME NEW rks, Len(rks) \in Nat, NEW f, NEW g, IsRun(rks, f), IsRun(rks, g)
    PROVE  \A i \in 0..Len(rks) : f[i] = g[i]
<1> DEFINE differ == {i \in 0..Len(rks) : f[i] # g[i]}
<1> SUFFICES ASSUME differ # {} PROVE FALSE
  OBVIOUS
<1>1. PICK i \in differ : \A j \in differ : ~(<<j, i>> \in OpToRel(<, Nat))
  <2>1. differ \subseteq Nat
    OBVIOUS
  <2> HIDE DEF differ
  <2> QED
    BY <2>1, NatLessThanWellFounded, WFMin, Zenon
<1>2. \A j \in differ : ~(j < i)
  <2>1. differ \subseteq Nat
    OBVIOUS
  <2> QED
    BY <1>1, <2>1 DEF OpToRel
<1>3. i \in 0..Len(rks) /\ f[i] # g[i]
  OBVIOUS
<1>4. /\ f[i] = IF i = 0 THEN {}
                ELSE IF i = 1 THEN EnginesHolding(rks[1])
                ELSE f[i - 1] \cap EnginesHolding(rks[i])
      /\ g[i] = IF i = 0 THEN {}
                ELSE IF i = 1 THEN EnginesHolding(rks[1])
                ELSE g[i - 1] \cap EnginesHolding(rks[i])
  BY <1>3 DEF IsRun
<1>5. i # 0 /\ i # 1 /\ f[i - 1] # g[i - 1]
  BY <1>3, <1>4
<1>6. i - 1 \in 0..Len(rks) /\ i - 1 < i
  BY <1>3, <1>5
<1>7. i - 1 \in differ
  BY <1>5, <1>6
<1> QED
  BY <1>2, <1>6, <1>7

\* The loop keeps exactly the engines that hold every block so far.
LEMMA ActiveHoldAll ==
    ASSUME NEW rks, Len(rks) \in Nat
    PROVE  \A i \in 0..Len(rks) : Active(rks)[i] = HoldAll(rks, i)
<1> DEFINE all == [i \in 0..Len(rks) |-> HoldAll(rks, i)]
<1>1. Active(rks) = CHOOSE f : IsRun(rks, f)
  BY Zenon DEF Active, IsRun
<1>2. IsRun(rks, all)
  BY RunExists
<1>3. IsRun(rks, Active(rks))
  BY <1>1, <1>2, Zenon
<1>4. \A i \in 0..Len(rks) : Active(rks)[i] = all[i]
  <2> HIDE DEF all
  <2> QED
    BY <1>2, <1>3, RunIsUnique
<1> QED
  BY <1>4

-----------------------------------------------------------------------------
(***************************************************************************)
(* The longest prefix                                                      *)
(***************************************************************************)

Longest(e, rks) == Max({k \in 0..Len(rks) : HoldsPrefix(e, rks, k)})

LEMMA LongestIsMax ==
    ASSUME NEW rks, Len(rks) \in Nat, NEW e
    PROVE  /\ Longest(e, rks) \in 0..Len(rks)
           /\ \A k \in 0..Len(rks) : HoldsPrefix(e, rks, k) <=> k <= Longest(e, rks)
<1> DEFINE held == {k \in 0..Len(rks) : HoldsPrefix(e, rks, k)}
           rest == {Len(rks) - k : k \in held}
<1>1. 0 \in held
  BY DEF HoldsPrefix
<1>2. rest \subseteq Nat /\ rest # {}
  BY <1>1
<1>3. PICK m \in held : \A k \in held : ~(<<Len(rks) - k, Len(rks) - m>> \in OpToRel(<, Nat))
  <2>1. PICK n \in rest : \A p \in rest : ~(<<p, n>> \in OpToRel(<, Nat))
    <3> HIDE DEF rest
    <3> QED
      BY <1>2, NatLessThanWellFounded, WFMin, Zenon
  <2> QED
    BY <2>1
<1>4. \A k \in held : ~(Len(rks) - k < Len(rks) - m)
  <2>1. \A k \in held : Len(rks) - k \in Nat
    OBVIOUS
  <2> QED
    BY <1>3, <2>1 DEF OpToRel
<1>5. \A k \in held : k <= m
  <2>1. \A k \in held : k \in Int
    OBVIOUS
  <2> QED
    BY <1>4, <2>1
<1>6. Longest(e, rks) \in held /\ \A k \in held : k <= Longest(e, rks)
  <2>1. \A k \in held : m >= k
    <3>1. \A k \in held : k \in Int
      OBVIOUS
    <3> QED
      BY <1>5, <3>1
  <2>2. Longest(e, rks) \in held /\ \A k \in held : Longest(e, rks) >= k
    BY <2>1 DEF Longest, Max
  <2>3. \A k \in held : k \in Int
    OBVIOUS
  <2> QED
    BY <2>2, <2>3
<1>7. ASSUME NEW k \in 0..Len(rks), k <= Longest(e, rks) PROVE HoldsPrefix(e, rks, k)
  <2>1. HoldsPrefix(e, rks, Longest(e, rks)) /\ 1..k \subseteq 1..Longest(e, rks)
    BY <1>6, <1>7
  <2> QED
    BY <2>1 DEF HoldsPrefix
<1> QED
  BY <1>6, <1>7

\* The blocks counted for an engine are those of its longest prefix.
LEMMA MatchedIsLongest ==
    ASSUME NEW rks, Len(rks) \in Nat, NEW e
    PROVE  {i \in 1..Len(rks) : e \in Active(rks)[i]} = 1..Longest(e, rks)
<1>1. /\ Longest(e, rks) \in 0..Len(rks)
      /\ \A k \in 0..Len(rks) : HoldsPrefix(e, rks, k) <=> k <= Longest(e, rks)
  BY LongestIsMax
<1>2. ASSUME NEW i \in 1..Len(rks) PROVE e \in Active(rks)[i] <=> i <= Longest(e, rks)
  <2>1. Active(rks)[i] = HoldAll(rks, i)
    BY ActiveHoldAll
  <2>2. e \in HoldAll(rks, i) <=> HoldsPrefix(e, rks, i)
    BY HoldersAreEngines DEF HoldAll, HoldsPrefix
  <2> QED
    BY <1>1, <2>1, <2>2
<1>3. \A i : i \in 1..Longest(e, rks) <=> i \in 1..Len(rks) /\ i <= Longest(e, rks)
  BY <1>1
<1> QED
  BY <1>2, <1>3

-----------------------------------------------------------------------------
(***************************************************************************)
(* Theorems                                                                *)
(***************************************************************************)

\* The blocks of a set of blocks that are counted twice, once for each of a set
\* of tiers, are counted at most so often.
LEMMA CountsGrow ==
    ASSUME NEW S, IsFiniteSet(S), NEW T \in SUBSET S
    PROVE  /\ Cardinality(T) \in Nat /\ Cardinality(S) \in Nat
           /\ BlockSize * Cardinality(T) <= BlockSize * Cardinality(S)
<1>1. Cardinality(T) \in Nat /\ Cardinality(S) \in Nat /\ Cardinality(T) <= Cardinality(S)
  BY FS_Subset, FS_CardinalityType
<1>2. \A a, b, c \in Nat : a <= b => c * a <= c * b
  OBVIOUS
<1> QED
  BY <1>1, <1>2, ConstantsAssumption

\* An engine's match is the longest prefix of the keys it holds entirely, in any
\* tiers and ranks, and its tiers accumulate: Index.Query, for any list of keys.
THEOREM QueriesAreRight == Spec => []QueryIsLongestHeldPrefix
<1>1. ASSUME NEW rks \in UNION {[1..n -> RequestKeys] : n \in 0..MaxQuery}, NEW e \in Engines
      PROVE  LET longest == Longest(e, rks)
                 hit == Query(rks)[e]
             IN  /\ e \in DOMAIN Query(rks) <=> longest > 0
                 /\ longest > 0 =>
                       /\ hit.LongestMatched = BlockSize * longest
                       /\ hit.GPU <= hit.CPU /\ hit.CPU <= hit.Disk
                       /\ hit.Disk = hit.LongestMatched
                       /\ \A d \in Ranks : hit.DP[d] <= Cardinality(Tiers) * hit.LongestMatched
  <2> DEFINE longest == Longest(e, rks)
             hit == InstanceHit(rks, e)
             matched == 1..longest
             onGPU == {i \in matched : InTiers(rks[i], e, {"gpu"}) # {}}
             onCPU == {i \in matched : InTiers(rks[i], e, {"gpu", "cpu"}) # {}}
             pairs(d) == {p \in matched \X Tiers :
                             [engineID |-> e, dpRank |-> d, tier |-> p[2]] \in Holders(rks[p[1]])}
  <2>1. Len(rks) \in Nat
    <3>1. PICK n \in 0..MaxQuery : rks \in [1..n -> RequestKeys]
      OBVIOUS
    <3>2. rks \in Seq(RequestKeys)
      BY <3>1, QueryAssumption
    <3> QED
      BY <3>2
  <2>2. longest \in 0..Len(rks) /\ {i \in 1..Len(rks) : e \in Active(rks)[i]} = matched
    BY <2>1, LongestIsMax, MatchedIsLongest
  <2>3. /\ e \in DOMAIN Query(rks) <=> longest > 0
        /\ e \in DOMAIN Query(rks) => Query(rks)[e] = hit
    <3>1. Len(rks) > 0 /\ e \in Active(rks)[1] <=> longest > 0
      <4>1. 1 \in {i \in 1..Len(rks) : e \in Active(rks)[i]} <=> longest > 0
        BY <2>1, <2>2
      <4> QED
        BY <2>1, <2>2, <4>1
    <3> HIDE DEF longest, hit
    <3> QED
      BY <3>1 DEF Query, hit
  <2>4. hit = [LongestMatched |-> BlockSize * Cardinality(matched),
               GPU  |-> BlockSize * Cardinality(onGPU),
               CPU  |-> BlockSize * Cardinality(onCPU),
               Disk |-> BlockSize * Cardinality(matched),
               DP   |-> [d \in Ranks |-> BlockSize * Cardinality(pairs(d))]]
    <3> HIDE DEF longest
    <3> QED
      BY <2>2 DEF InstanceHit
  <2>5. IsFiniteSet(matched) /\ Cardinality(matched) = longest
    <3>1. longest \in Nat
      BY <2>1, <2>2
    <3> HIDE DEF longest
    <3>2. 1 \in Int /\ longest \in Int
      BY <3>1
    <3>3. IsFiniteSet(1..longest) /\ Cardinality(1..longest) = IF 1 > longest THEN 0 ELSE longest - 1 + 1
      BY <3>2, FS_Interval
    <3> QED
      BY <3>1, <3>3
  <2>6. onGPU \in SUBSET onCPU /\ onCPU \in SUBSET matched
    BY DEF InTiers
  <2>7. IsFiniteSet(onCPU)
    <3> HIDE DEF matched, onCPU
    <3> QED
      BY <2>5, <2>6, FS_Subset
  <2>8. hit.GPU <= hit.CPU /\ hit.CPU <= hit.Disk
    <3> HIDE DEF matched, onGPU, onCPU
    <3>1. BlockSize * Cardinality(onGPU) <= BlockSize * Cardinality(onCPU)
      BY <2>6, <2>7, CountsGrow
    <3>2. BlockSize * Cardinality(onCPU) <= BlockSize * Cardinality(matched)
      BY <2>5, <2>6, CountsGrow
    <3> HIDE DEF hit
    <3> QED
      BY <2>4, <3>1, <3>2
  <2>9. ASSUME NEW d \in Ranks PROVE hit.DP[d] <= Cardinality(Tiers) * hit.LongestMatched
    <3>1. pairs(d) \in SUBSET (matched \X Tiers)
      OBVIOUS
    <3> HIDE DEF matched, pairs
    <3>2. IsFiniteSet(matched \X Tiers) /\ Cardinality(matched \X Tiers) = Cardinality(matched) * Cardinality(Tiers)
      BY <2>5, FS_Product, QueryAssumption
    <3>3. BlockSize * Cardinality(pairs(d)) <= BlockSize * Cardinality(matched \X Tiers)
      BY <3>1, <3>2, CountsGrow
    <3>4. Cardinality(matched) \in Nat /\ Cardinality(Tiers) \in Nat /\ BlockSize \in Nat
      BY <2>5, FS_CardinalityType, QueryAssumption, ConstantsAssumption
    <3>5. \A a, b, c \in Nat : c * (a * b) = b * (c * a)
      OBVIOUS
    <3>6. BlockSize * (Cardinality(matched) * Cardinality(Tiers)) = Cardinality(Tiers) * (BlockSize * Cardinality(matched))
      BY <3>4, <3>5
    <3> HIDE DEF hit
    <3>7. hit.DP[d] = BlockSize * Cardinality(pairs(d)) /\ hit.LongestMatched = BlockSize * Cardinality(matched)
      BY <2>4
    <3> QED
      BY <3>2, <3>3, <3>6, <3>7
  <2>10. hit.LongestMatched = BlockSize * longest /\ hit.Disk = hit.LongestMatched
    <3> HIDE DEF hit, matched, longest
    <3> QED
      BY <2>4, <2>5
  <2> HIDE DEF hit, longest
  <2> QED
    BY <2>3, <2>8, <2>9, <2>10 DEF longest
<1>2. QueryIsLongestHeldPrefix
  BY <1>1 DEF QueryIsLongestHeldPrefix, Longest
<1> QED
  BY <1>2, PTL

=============================================================================
