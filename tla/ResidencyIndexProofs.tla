------------------------ MODULE ResidencyIndexProofs ------------------------
(***************************************************************************)
(* Proofs about the residency index, for any sets of engines, ranks,       *)
(* tiers and keys and any length of event.                                 *)
(***************************************************************************)
EXTENDS ResidencyIndex, TLAPS, SequenceTheorems, WellFoundedInduction

\* A non-empty set of positions has a last one, so the bridge value that
\* TailAligned chooses for an engine key exists.
LEMMA LastPosition ==
    ASSUME NEW k \in Nat, NEW I \in SUBSET (1..k), I # {}
    PROVE  \E i \in I : \A j \in I : j <= i
<1> DEFINE T == {k - i : i \in I}
<1>0. \A i \in I : k - i \in Nat
  OBVIOUS
<1>1. T \subseteq Nat /\ T # {}
  BY <1>0, Zenon
<1>2. PICK x \in T : \A y \in T : ~(<<y, x>> \in OpToRel(<, Nat))
  BY <1>1, NatLessThanWellFounded, WFMin
<1>3. \A y \in T : ~(y < x)
  BY <1>1, <1>2 DEF OpToRel
<1>4. PICK i \in I : x = k - i
  OBVIOUS
<1>5. ASSUME NEW j \in I PROVE j <= i
  <2>1. ~(k - j < k - i)
    BY <1>3, <1>4
  <2>2. QED
    BY <2>1
<1>6. QED
  BY <1>5

-----------------------------------------------------------------------------
(***************************************************************************)
(* What the helpers return.                                                *)
(***************************************************************************)

\* A list of an event is a sequence over its key set.
LEMMA ListsAreSequences ==
    ASSUME NEW S, NEW list \in Lists(S)
    PROVE  /\ list \in Seq(S)
           /\ Elements(list) \subseteq S
           /\ \A i \in DOMAIN list : list[i] \in S
<1>1. PICK n \in 0..MaxList : list \in [1..n -> S]
  BY DEF Lists
<1>2. QED
  BY <1>1, ConstantsAssumption DEF Elements, ConstantsAssumption

\* Tail alignment pairs engine keys of the event with request keys of it.
LEMMA TailAlignedType ==
    ASSUME NEW eks \in Seq(EngineKeys), NEW rks \in Seq(RequestKeys)
    PROVE  /\ DOMAIN TailAligned(eks, rks) \subseteq EngineKeys
           /\ \A ek \in DOMAIN TailAligned(eks, rks) :
                 TailAligned(eks, rks)[ek] \in RequestKeys \cap Elements(rks)
<1> DEFINE nEng == Len(eks)
           nReq == Len(rks)
           k == IF nReq < nEng THEN nReq ELSE nEng
           at(ek) == {i \in 1..k : eks[nEng - k + i] = ek}
           last(ek) == CHOOSE i \in at(ek) : \A j \in at(ek) : j <= i
           D == {eks[nEng - k + i] : i \in 1..k}
<1>1. /\ nEng \in Nat /\ nReq \in Nat /\ k \in Nat /\ k <= nEng /\ k <= nReq
  OBVIOUS
<1>2. TailAligned(eks, rks) = [ek \in D |-> rks[nReq - k + last(ek)]]
  BY DEF TailAligned
<1>3. \A i \in 1..k : nEng - k + i \in 1..nEng /\ nReq - k + i \in 1..nReq
  BY <1>1
<1>4. D \subseteq EngineKeys
  BY <1>3, ElementOfSeq
<1>5. ASSUME NEW ek \in D
      PROVE  last(ek) \in 1..k
  <2>1. at(ek) \in SUBSET (1..k) /\ at(ek) # {}
    OBVIOUS
  <2>2. \E i \in at(ek) : \A j \in at(ek) : j <= i
    BY <2>1, <1>1, LastPosition
  <2>3. QED
    BY <2>1, <2>2
<1>6. ASSUME NEW ek \in D
      PROVE  rks[nReq - k + last(ek)] \in RequestKeys \cap Elements(rks)
  <2>1. nReq - k + last(ek) \in 1..nReq
    BY <1>3, <1>5
  <2> HIDE DEF last, k
  <2>2. nReq - k + last(ek) \in DOMAIN rks
    BY <2>1
  <2>3. QED
    BY <2>1, <2>2, ElementOfSeq DEF Elements
<1> HIDE DEF nEng, nReq, k, at, last, D
<1>7. QED
  BY <1>2, <1>4, <1>6

-----------------------------------------------------------------------------
(***************************************************************************)
(* The inductive invariant.  Removal and clearing find their work through  *)
(* the bridge and the lists, so the types, the lists and the holders hold  *)
(* together or not at all.                                                 *)
(***************************************************************************)

IndexInv == TypeOK /\ IndexConsistent

\* Storing keeps the invariant's parts about entries and lists.
LEMMA StoreRequestKeysKeepsInv ==
    ASSUME IndexInv,
           NEW r \in Resident, NEW rks \in SUBSET RequestKeys,
           StoreRequestKeys(r, rks)
    PROVE  /\ DOMAIN byRequestKey' \subseteq RequestKeys
           /\ byRequestKey' \in [DOMAIN byRequestKey' -> SUBSET Resident]
           /\ DOMAIN byEngine' = DOMAIN byEngine \cup {r.engineID}
           /\ DOMAIN byEngine' \subseteq Engines
           /\ byEngine' \in [DOMAIN byEngine' -> SUBSET RequestKeys]
           /\ NoEmptyEntry'
           /\ HeldIsListed'
<1> USE DEF IndexInv, IndexConsistent, StoreRequestKeys
<1>1. r.engineID \in Engines
  BY DEF Resident
<1>2. /\ DOMAIN byRequestKey' = DOMAIN byRequestKey \cup rks
      /\ \A rk \in DOMAIN byRequestKey' :
            byRequestKey'[rk] = IF rk \in rks THEN Holders(rk) \cup {r} ELSE byRequestKey[rk]
  OBVIOUS
<1>3. /\ DOMAIN byEngine' = DOMAIN byEngine \cup {r.engineID}
      /\ \A e \in DOMAIN byEngine' :
            byEngine'[e] = IF e = r.engineID THEN Listed(e) \cup rks ELSE byEngine[e]
  OBVIOUS
<1>4. \A rk \in DOMAIN byRequestKey' : byRequestKey'[rk] \in SUBSET Resident
  BY <1>2 DEF TypeOK, Holders
<1>5. \A e \in DOMAIN byEngine' : byEngine'[e] \in SUBSET RequestKeys
  BY <1>3 DEF TypeOK, Listed
<1>6. NoEmptyEntry'
  BY <1>2 DEF NoEmptyEntry, Holders
<1>7. ASSUME NEW rk \in DOMAIN byRequestKey', NEW h \in byRequestKey'[rk]
      PROVE  h.engineID \in DOMAIN byEngine' /\ rk \in byEngine'[h.engineID]
  <2>1. CASE rk \in rks /\ h = r
    BY <2>1, <1>3
  <2>2. CASE ~(rk \in rks /\ h = r)
    <3>1. rk \in DOMAIN byRequestKey /\ h \in byRequestKey[rk]
      BY <2>2, <1>2, <1>7 DEF Holders
    <3>2. h.engineID \in DOMAIN byEngine /\ rk \in byEngine[h.engineID]
      BY <3>1 DEF HeldIsListed
    <3>3. QED
      BY <3>2, <1>3 DEF Listed
  <2>3. QED
    BY <2>1, <2>2
<1>8. HeldIsListed'
  BY <1>7 DEF HeldIsListed
<1>9. DOMAIN byRequestKey' \subseteq RequestKeys /\ DOMAIN byEngine' \subseteq Engines
  BY <1>1, <1>2, <1>3 DEF TypeOK
<1>10. /\ byRequestKey' \in [DOMAIN byRequestKey' -> SUBSET Resident]
       /\ byEngine' \in [DOMAIN byEngine' -> SUBSET RequestKeys]
  BY <1>4, <1>5
<1>11. QED
  BY <1>3, <1>6, <1>8, <1>9, <1>10

LEMMA StoreEventKeepsInv ==
    ASSUME IndexInv,
           NEW e \in Engines, NEW d \in Ranks, NEW t \in Tiers,
           NEW eks \in Lists(EngineKeys), NEW rks \in Chains,
           StoreEvent(e, d, t, eks, rks)
    PROVE  IndexInv'
<1> DEFINE r == [engineID |-> e, dpRank |-> d, tier |-> t]
           pairs == TailAligned(eks, rks)
<1>1. r \in Resident /\ r.engineID = e
  BY DEF Resident
<1>2. /\ rks \in Seq(RequestKeys) /\ Elements(rks) \in SUBSET RequestKeys
      /\ eks \in Seq(EngineKeys)
  BY ListsAreSequences DEF Chains
<1>3. /\ DOMAIN pairs \subseteq EngineKeys
      /\ \A ek \in DOMAIN pairs : pairs[ek] \in RequestKeys
  BY <1>2, TailAlignedType
<1> HIDE DEF pairs
<1>4. StoreRequestKeys(r, Elements(rks))
  BY DEF StoreEvent
<1>5. /\ DOMAIN bridge' = DOMAIN bridge \cup ({e} \X DOMAIN pairs)
      /\ \A b \in DOMAIN bridge' :
            bridge'[b] = IF b[1] = e /\ b[2] \in DOMAIN pairs THEN pairs[b[2]] ELSE bridge[b]
      /\ bridge' = [b \in DOMAIN bridge' |-> bridge'[b]]
  BY DEF StoreEvent, pairs
<1> HIDE DEF r
<1>6. /\ DOMAIN byRequestKey' \subseteq RequestKeys
      /\ byRequestKey' \in [DOMAIN byRequestKey' -> SUBSET Resident]
      /\ DOMAIN byEngine' = DOMAIN byEngine \cup {e}
      /\ DOMAIN byEngine' \subseteq Engines
      /\ byEngine' \in [DOMAIN byEngine' -> SUBSET RequestKeys]
      /\ NoEmptyEntry'
      /\ HeldIsListed'
  BY <1>1, <1>2, <1>4, StoreRequestKeysKeepsInv
<1>7. DOMAIN bridge' \subseteq Engines \X EngineKeys
  BY <1>3, <1>5 DEF IndexInv, TypeOK
<1>8. \A b \in DOMAIN bridge' : bridge'[b] \in RequestKeys
  BY <1>3, <1>5 DEF IndexInv, TypeOK
<1>9. bridge' \in [DOMAIN bridge' -> RequestKeys]
  BY <1>5, <1>8
<1>10. BridgedIsListed'
  BY <1>5, <1>6 DEF BridgedIsListed, IndexInv, IndexConsistent
<1>11. QED
  BY <1>6, <1>7, <1>9, <1>10 DEF IndexInv, IndexConsistent, TypeOK

LEMMA StoreByEngineKeysKeepsInv ==
    ASSUME IndexInv,
           NEW e \in Engines, NEW d \in Ranks, NEW t \in Tiers,
           NEW eks \in Lists(EngineKeys),
           StoreEventByEngineKeys(e, d, t, eks)
    PROVE  IndexInv'
<1> DEFINE r == [engineID |-> e, dpRank |-> d, tier |-> t]
           rks == {bridge[<<e, eks[i]>>] : i \in DOMAIN eks}
<1>1. r \in Resident /\ r.engineID = e
  BY DEF Resident
<1>2. \A i \in DOMAIN eks : <<e, eks[i]>> \in DOMAIN bridge
  BY DEF StoreEventByEngineKeys, CanResolve, Bridged
<1>3. rks \in SUBSET RequestKeys
  BY <1>2 DEF IndexInv, TypeOK
<1>4. StoreRequestKeys(r, rks) /\ UNCHANGED bridge
  BY DEF StoreEventByEngineKeys
<1> HIDE DEF r, rks
<1>5. /\ DOMAIN byRequestKey' \subseteq RequestKeys
      /\ byRequestKey' \in [DOMAIN byRequestKey' -> SUBSET Resident]
      /\ DOMAIN byEngine' = DOMAIN byEngine \cup {e}
      /\ DOMAIN byEngine' \subseteq Engines
      /\ byEngine' \in [DOMAIN byEngine' -> SUBSET RequestKeys]
      /\ NoEmptyEntry'
      /\ HeldIsListed'
  BY <1>1, <1>3, <1>4, StoreRequestKeysKeepsInv
<1>6. BridgedIsListed'
  BY <1>4, <1>5 DEF BridgedIsListed, IndexInv, IndexConsistent
<1>7. QED
  BY <1>4, <1>5, <1>6 DEF IndexInv, IndexConsistent, TypeOK

LEMMA RemoveEventKeepsInv ==
    ASSUME IndexInv,
           NEW e \in Engines, NEW d \in Ranks, NEW t \in Tiers,
           NEW eks \in Lists(EngineKeys),
           RemoveEvent(e, d, t, eks)
    PROVE  IndexInv'
<1> DEFINE r == [engineID |-> e, dpRank |-> d, tier |-> t]
           rks == Removed(e, eks)
           left(rk) == IF rk \in rks THEN Holders(rk) \ {r} ELSE Holders(rk)
<1>1. r.engineID = e
  OBVIOUS
<1>2. /\ DOMAIN byRequestKey' = {k \in DOMAIN byRequestKey : k \in rks => left(k) # {}}
      /\ byRequestKey' = [rk \in DOMAIN byRequestKey' |-> left(rk)]
  BY DEF RemoveEvent
<1>3. /\ DOMAIN bridge' \subseteq DOMAIN bridge
      /\ bridge' = [b \in DOMAIN bridge' |-> bridge[b]]
  BY DEF RemoveEvent
<1>4. byEngine' = [x \in DOMAIN byEngine |->
          IF x = e THEN {rk \in byEngine[e] : rk \in rks => HasEngine(left(rk), e)}
                   ELSE byEngine[x]]
  BY DEF RemoveEvent
<1> HIDE DEF rks, r
<1>5. \A rk \in DOMAIN byRequestKey : left(rk) \subseteq byRequestKey[rk]
  BY DEF Holders
<1>6. TypeOK'
  <2>1. /\ DOMAIN byRequestKey' \subseteq RequestKeys
        /\ byRequestKey' \in [DOMAIN byRequestKey' -> SUBSET Resident]
    BY <1>2, <1>5 DEF IndexInv, TypeOK
  <2>2. /\ DOMAIN bridge' \subseteq Engines \X EngineKeys
        /\ bridge' \in [DOMAIN bridge' -> RequestKeys]
    BY <1>3 DEF IndexInv, TypeOK
  <2>3. /\ DOMAIN byEngine' \subseteq Engines
        /\ byEngine' \in [DOMAIN byEngine' -> SUBSET RequestKeys]
    BY <1>4 DEF IndexInv, TypeOK
  <2>4. QED
    BY <2>1, <2>2, <2>3 DEF TypeOK
<1>7. NoEmptyEntry'
  BY <1>2 DEF NoEmptyEntry, IndexInv, IndexConsistent, Holders
<1>8. ASSUME NEW rk \in DOMAIN byRequestKey', NEW h \in byRequestKey'[rk]
      PROVE  h.engineID \in DOMAIN byEngine' /\ rk \in byEngine'[h.engineID]
  <2>1. rk \in DOMAIN byRequestKey /\ h \in left(rk) /\ h \in byRequestKey[rk]
    BY <1>2, <1>5
  <2>2. h.engineID \in DOMAIN byEngine /\ rk \in byEngine[h.engineID]
    BY <2>1 DEF HeldIsListed, IndexInv, IndexConsistent
  <2>3. CASE h.engineID = e
    <3>1. HasEngine(left(rk), e)
      BY <2>1, <2>3 DEF HasEngine
    <3>2. QED
      BY <2>2, <2>3, <3>1, <1>4
  <2>4. CASE h.engineID # e
    BY <2>2, <2>4, <1>4
  <2>5. QED
    BY <2>3, <2>4
<1>9. HeldIsListed'
  BY <1>8 DEF HeldIsListed
<1>10. BridgedIsListed'
  BY <1>3, <1>4 DEF BridgedIsListed, IndexInv, IndexConsistent
<1>11. QED
  BY <1>6, <1>7, <1>9, <1>10 DEF IndexInv, IndexConsistent

LEMMA ClearEngineKeepsInv ==
    ASSUME IndexInv,
           NEW e \in Engines, NEW t \in Tiers \cup {AllTiers},
           ClearEngine(e, t)
    PROVE  IndexInv' /\ (t = AllTiers => EngineGone(e)')
<1> DEFINE cleared(rk) == {r \in byRequestKey[rk] :
                              /\ rk \in byEngine[e]
                              /\ r.engineID = e
                              /\ t = AllTiers \/ r.tier = t}
           left(rk) == byRequestKey[rk] \ cleared(rk)
<1>1. /\ DOMAIN byRequestKey' = {k \in DOMAIN byRequestKey : k \in byEngine[e] => left(k) # {}}
      /\ byRequestKey' = [rk \in DOMAIN byRequestKey' |-> left(rk)]
  BY DEF ClearEngine
<1>2. e \in DOMAIN byEngine
  BY DEF ClearEngine
<1>3. /\ DOMAIN byRequestKey' \subseteq RequestKeys
      /\ byRequestKey' \in [DOMAIN byRequestKey' -> SUBSET Resident]
  BY <1>1 DEF IndexInv, TypeOK
<1>4. NoEmptyEntry'
  BY <1>1 DEF NoEmptyEntry, IndexInv, IndexConsistent
<1>5. \A rk \in DOMAIN byRequestKey' : \A h \in byRequestKey'[rk] :
         /\ rk \in DOMAIN byRequestKey
         /\ h \in byRequestKey[rk]
         /\ h.engineID \in DOMAIN byEngine
         /\ rk \in byEngine[h.engineID]
  BY <1>1 DEF HeldIsListed, IndexInv, IndexConsistent
<1>6. CASE t = AllTiers
  <2>1. /\ DOMAIN bridge' = {x \in DOMAIN bridge : x[1] # e}
        /\ bridge' = [b \in DOMAIN bridge' |-> bridge[b]]
        /\ DOMAIN byEngine' = DOMAIN byEngine \ {e}
        /\ byEngine' = [x \in DOMAIN byEngine' |-> byEngine[x]]
    BY <1>6 DEF ClearEngine
  <2>2. \A rk \in DOMAIN byRequestKey' : \A h \in byRequestKey'[rk] : h.engineID # e
    <3> SUFFICES ASSUME NEW rk \in DOMAIN byRequestKey', NEW h \in byRequestKey'[rk],
                        h.engineID = e
                 PROVE  FALSE
      OBVIOUS
    <3>1. h \in left(rk)
      BY <1>1
    <3>2. rk \in byEngine[e]
      BY <1>5
    <3>3. QED
      BY <3>1, <3>2, <1>6
  <2>3. HeldIsListed'
    BY <1>5, <2>1, <2>2 DEF HeldIsListed
  <2>4. BridgedIsListed'
    BY <2>1 DEF BridgedIsListed, IndexInv, IndexConsistent
  <2>5. TypeOK'
    <3>1. /\ DOMAIN bridge' \subseteq Engines \X EngineKeys
          /\ bridge' \in [DOMAIN bridge' -> RequestKeys]
      BY <2>1 DEF IndexInv, TypeOK
    <3>2. /\ DOMAIN byEngine' \subseteq Engines
          /\ byEngine' \in [DOMAIN byEngine' -> SUBSET RequestKeys]
      BY <2>1 DEF IndexInv, TypeOK
    <3>3. QED
      BY <1>3, <3>1, <3>2 DEF TypeOK
  <2>6. EngineGone(e)'
    BY <2>1, <2>2 DEF EngineGone, HasEngine
  <2>7. QED
    BY <1>4, <2>3, <2>4, <2>5, <2>6 DEF IndexInv, IndexConsistent
<1>7. CASE t # AllTiers
  <2>1. UNCHANGED <<bridge, byEngine>>
    BY <1>7 DEF ClearEngine
  <2>2. HeldIsListed'
    BY <1>5, <2>1 DEF HeldIsListed
  <2>3. QED
    BY <1>3, <1>4, <1>7, <2>1, <2>2 DEF IndexInv, IndexConsistent, TypeOK, BridgedIsListed
<1>8. QED
  BY <1>6, <1>7

LEMMA NextKeepsInv ==
    ASSUME IndexInv, [Next]_vars
    PROVE  IndexInv'
<1>1. CASE Next
  <2>1. PICK e \in Engines : EngineStep(e)
    BY <1>1 DEF Next
  <2>2. CASE \E d \in Ranks, t \in Tiers : StoreStep(e, d, t)
    BY <2>2, StoreEventKeepsInv, StoreByEngineKeysKeepsInv DEF StoreStep
  <2>3. CASE \E d \in Ranks, t \in Tiers : RemoveStep(e, d, t)
    BY <2>3, RemoveEventKeepsInv DEF RemoveStep
  <2>4. CASE \E t \in Tiers \cup {AllTiers} : ClearEngine(e, t)
    BY <2>4, ClearEngineKeepsInv
  <2>5. QED
    BY <2>1, <2>2, <2>3, <2>4 DEF EngineStep
<1>2. CASE UNCHANGED vars
  BY <1>2 DEF vars, IndexInv, IndexConsistent, TypeOK, NoEmptyEntry, HeldIsListed, BridgedIsListed
<1>3. QED
  BY <1>1, <1>2

-----------------------------------------------------------------------------
(***************************************************************************)
(* The theorems                                                            *)
(***************************************************************************)

\* In every reachable state the maps are well typed, no entry is empty, and
\* whatever an engine holds or has bridged is reachable from its list.
THEOREM IndexInvariant == Spec => [](TypeOK /\ IndexConsistent)
<1>1. Init => IndexInv
  BY DEF Init, IndexInv, IndexConsistent, TypeOK, NoEmptyEntry, HeldIsListed, BridgedIsListed
<1>2. IndexInv /\ [Next]_vars => IndexInv'
  BY NextKeepsInv
<1>3. IndexInv => TypeOK /\ IndexConsistent
  BY DEF IndexInv
<1>4. QED
  BY <1>1, <1>2, <1>3, PTL DEF Spec

\* AllBlocksCleared (ClearEngine of every tier) leaves nothing of the engine
\* behind, in any of the three maps and after any history.
THEOREM ClearingIsComplete == Spec => ClearIsComplete
<1> DEFINE Complete == \A e \in Engines : ClearEngine(e, AllTiers) => EngineGone(e)'
<1>1. IndexInv /\ [Next]_vars => [Complete]_vars
  BY ClearEngineKeepsInv
<1>2. Init => IndexInv
  BY DEF Init, IndexInv, IndexConsistent, TypeOK, NoEmptyEntry, HeldIsListed, BridgedIsListed
<1>3. IndexInv /\ [Next]_vars => IndexInv'
  BY NextKeepsInv
<1>4. QED
  BY <1>1, <1>2, <1>3, PTL DEF Spec, ClearIsComplete

-----------------------------------------------------------------------------
(***************************************************************************)
(* Bridges go with the blocks they lead to.                                *)
(***************************************************************************)

\* A non-empty set of positions has a first one.
LEMMA FirstPosition ==
    ASSUME NEW I \in SUBSET Nat, I # {}
    PROVE  \E i \in I : \A j \in I : i <= j
<1>1. PICK i \in I : \A j \in I : ~(<<j, i>> \in OpToRel(<, Nat))
  BY NatLessThanWellFounded, WFMin
<1>2. \A j \in I : ~(j < i)
  BY <1>1 DEF OpToRel
<1>3. QED
  BY <1>2

\* A store takes no holder away, and bridges to blocks that it stores.
LEMMA StoresKeepLeading ==
    ASSUME IndexInv, NEW r \in Resident, NEW rks \in SUBSET RequestKeys,
           StoreRequestKeys(r, rks),
           NEW b \in DOMAIN bridge, Leads(b),
           b \in DOMAIN bridge',
           bridge'[b] = bridge[b] \/ (b[1] = r.engineID /\ bridge'[b] \in rks)
    PROVE  Leads(b)'
<1>1. /\ DOMAIN byRequestKey' = DOMAIN byRequestKey \cup rks
      /\ \A rk \in DOMAIN byRequestKey' :
            byRequestKey'[rk] = IF rk \in rks THEN Holders(rk) \cup {r} ELSE byRequestKey[rk]
  BY DEF StoreRequestKeys
<1>2. CASE bridge'[b] = bridge[b]
  <2>1. PICK h \in Holders(bridge[b]) : h.engineID = b[1]
    BY DEF Leads, HasEngine
  <2>2. bridge[b] \in DOMAIN byRequestKey
    BY <2>1 DEF Holders
  <2>3. bridge[b] \in DOMAIN byRequestKey' /\ h \in byRequestKey'[bridge[b]]
    BY <1>1, <2>1, <2>2 DEF Holders
  <2>4. QED
    BY <1>2, <2>1, <2>3 DEF Leads, HasEngine, Holders
<1>3. CASE b[1] = r.engineID /\ bridge'[b] \in rks
  BY <1>1, <1>3 DEF Leads, HasEngine, Holders
<1>4. QED
  BY <1>2, <1>3

\* A removal that ends an engine's hold on a block drops the bridge of the
\* first key that it names of the block.
LEMMA RemovalDropsABridge ==
    ASSUME IndexInv,
           NEW e \in Engines, NEW d \in Ranks, NEW t \in Tiers,
           NEW eks \in Lists(EngineKeys),
           RemoveEvent(e, d, t, eks),
           NEW b \in DOMAIN bridge, b \in DOMAIN bridge', Leads(b), ~Leads(b)'
    PROVE  \E c \in DOMAIN bridge \ DOMAIN bridge' : c[1] = b[1] /\ bridge[c] = bridge[b]
<1> DEFINE r == [engineID |-> e, dpRank |-> d, tier |-> t]
           rks == Removed(e, eks)
           rk == bridge[b]
           left(k) == IF k \in rks THEN Holders(k) \ {r} ELSE Holders(k)
           I == {i \in DOMAIN eks : Bridged(e, eks[i]) /\ bridge[<<e, eks[i]>>] = rk}
<1>1. r.engineID = e
  OBVIOUS
<1>2. /\ byRequestKey' = [k \in {x \in DOMAIN byRequestKey : x \in rks => left(x) # {}} |-> left(k)]
      /\ bridge' = [c \in {x \in DOMAIN bridge : ~(x[1] = e /\ DropsBridge(e, r, eks, x[2]))} |->
                        bridge[c]]
  BY DEF RemoveEvent
<1> HIDE DEF rks, r
<1>3. bridge'[b] = rk
  BY <1>2
<1>4. PICK h \in Holders(rk) : h.engineID = b[1]
  BY DEF Leads, HasEngine
<1>5. rk \in DOMAIN byRequestKey /\ Holders(rk) = byRequestKey[rk]
  BY <1>4 DEF Holders
<1>6. \A g \in left(rk) : g.engineID # b[1]
  <2>1. SUFFICES ASSUME NEW g \in left(rk), g.engineID = b[1] PROVE FALSE
    OBVIOUS
  <2>2. rk \in DOMAIN byRequestKey' /\ byRequestKey'[rk] = left(rk)
    BY <1>2, <1>5, <2>1
  <2>3. QED
    BY <1>3, <2>1, <2>2 DEF Leads, HasEngine, Holders
<1>7. rk \in rks /\ h = r /\ b[1] = e /\ ~HasEngine(left(rk), e)
  BY <1>1, <1>4, <1>6 DEF HasEngine
<1>8. I # {}
  <2>1. PICK ek \in Elements(eks) : Bridged(e, ek) /\ rk = bridge[<<e, ek>>]
    BY <1>7 DEF rks, Removed
  <2>2. QED
    BY <2>1 DEF Elements
<1>9. I \subseteq Nat
  BY ListsAreSequences
<1>10. PICK i \in I : \A j \in I : i <= j
  <2> HIDE DEF I
  <2>1. QED
    BY <1>8, <1>9, FirstPosition
<1>11. FirstOfItsBlock(e, eks, eks[i])
  <2>1. \A j \in 1..(i - 1) : Bridged(e, eks[j]) => bridge[<<e, eks[j]>>] # bridge[<<e, eks[i]>>]
    <3>1. SUFFICES ASSUME NEW j \in 1..(i - 1), Bridged(e, eks[j]),
                          bridge[<<e, eks[j]>>] = bridge[<<e, eks[i]>>]
                   PROVE  FALSE
      OBVIOUS
    <3>2. eks \in Seq(EngineKeys)
      BY ListsAreSequences
    <3>3. i \in Nat /\ i \in DOMAIN eks /\ j \in DOMAIN eks /\ j < i
      BY <1>9, <1>10, <3>2
    <3>4. j \in I
      BY <3>1, <3>3
    <3>5. i <= j
      BY <1>10, <3>4
    <3>6. QED
      BY <3>3, <3>5
  <2>2. QED
    BY <2>1 DEF FirstOfItsBlock
<1>12. DropsBridge(e, r, eks, eks[i])
  BY <1>5, <1>7, <1>11 DEF DropsBridge, Elements
<1>13. <<e, eks[i]>> \in DOMAIN bridge \ DOMAIN bridge'
  BY <1>2, <1>12 DEF Bridged
<1>14. QED
  BY <1>7, <1>13

\* After a clear a bridge that is left leads to a block that is held still, or
\* that is listed as it was.
LEMMA ClearKeepsWithinReach ==
    ASSUME IndexInv, NEW e \in Engines, NEW t, ClearEngine(e, t),
           NEW b \in DOMAIN bridge, b \in DOMAIN bridge', Leads(b), ~Leads(b)'
    PROVE  bridge[b] \in Listed(b[1])'
<1> DEFINE cleared(rk) == {r \in byRequestKey[rk] :
                            /\ rk \in byEngine[e]
                            /\ r.engineID = e
                            /\ t = AllTiers \/ r.tier = t}
           left(rk) == byRequestKey[rk] \ cleared(rk)
<1>1. byRequestKey' = [rk \in {k \in DOMAIN byRequestKey : k \in byEngine[e] => left(k) # {}} |->
                                left(rk)]
  BY DEF ClearEngine
<1>2. PICK h \in Holders(bridge[b]) : h.engineID = b[1]
  BY DEF Leads, HasEngine
<1>3. bridge[b] \in DOMAIN byRequestKey /\ h \in byRequestKey[bridge[b]]
  BY <1>2 DEF Holders
<1>4. CASE t = AllTiers
  <2>1. b[1] # e /\ bridge'[b] = bridge[b]
    BY <1>4 DEF ClearEngine
  <2>2. h \in left(bridge[b])
    BY <1>2, <1>3, <2>1
  <2>3. bridge[b] \in DOMAIN byRequestKey' /\ h \in byRequestKey'[bridge[b]]
    BY <1>1, <1>3, <2>2
  <2>4. QED
    BY <1>2, <2>1, <2>3 DEF Leads, HasEngine, Holders
<1>5. CASE t # AllTiers
  <2>1. byEngine' = byEngine
    BY <1>5 DEF ClearEngine
  <2>2. QED
    BY <1>2, <1>3, <2>1 DEF Listed, IndexInv, IndexConsistent, HeldIsListed
<1>6. QED
  BY <1>4, <1>5

\* What a bridge must not do in one step.
LeftBehind(b) == Leads(b) /\ ~Leads(b)'
WithCause(b) ==
    \/ bridge[b] \in Listed(b[1])'
    \/ \E c \in DOMAIN bridge \ DOMAIN bridge' : c[1] = b[1] /\ bridge[c] = bridge[b]

LEMMA NextLeavesNoBridge ==
    ASSUME IndexInv, Next, NEW b \in DOMAIN bridge, b \in DOMAIN bridge', LeftBehind(b)
    PROVE  WithCause(b)
<1>1. PICK e \in Engines : EngineStep(e)
  BY DEF Next
<1>2. ASSUME NEW d \in Ranks, NEW t \in Tiers, NEW eks \in Lists(EngineKeys), NEW rks \in Chains,
             StoreEvent(e, d, t, eks, rks)
      PROVE  FALSE
  <2> DEFINE r == [engineID |-> e, dpRank |-> d, tier |-> t]
             pairs == TailAligned(eks, rks)
  <2>1. r \in Resident /\ r.engineID = e
    BY DEF Resident
  <2>2. rks \in Lists(RequestKeys)
    BY <1>2 DEF Chains
  <2>3. rks \in Seq(RequestKeys) /\ eks \in Seq(EngineKeys) /\ Elements(rks) \in SUBSET RequestKeys
    BY <2>2, ListsAreSequences
  <2>4. \A ek \in DOMAIN pairs : pairs[ek] \in Elements(rks)
    BY <2>3, TailAlignedType
  <2>5. bridge'[b] = bridge[b] \/ (b[1] = e /\ bridge'[b] \in Elements(rks))
    BY <1>2, <2>4 DEF StoreEvent
  <2>6. StoreRequestKeys(r, Elements(rks))
    BY <1>2 DEF StoreEvent
  <2> HIDE DEF r
  <2>7. QED
    BY <2>1, <2>3, <2>5, <2>6, StoresKeepLeading DEF LeftBehind
<1>3. ASSUME NEW d \in Ranks, NEW t \in Tiers, NEW eks \in Lists(EngineKeys),
             StoreEventByEngineKeys(e, d, t, eks)
      PROVE  FALSE
  <2> DEFINE r == [engineID |-> e, dpRank |-> d, tier |-> t]
             rks == {bridge[<<e, eks[i]>>] : i \in DOMAIN eks}
  <2>1. r \in Resident
    BY DEF Resident
  <2>2. rks \in SUBSET RequestKeys
    BY <1>3 DEF StoreEventByEngineKeys, CanResolve, Bridged, IndexInv, TypeOK
  <2>3. StoreRequestKeys(r, rks) /\ bridge' = bridge
    BY <1>3 DEF StoreEventByEngineKeys
  <2> HIDE DEF r, rks
  <2>4. QED
    BY <2>1, <2>2, <2>3, StoresKeepLeading DEF LeftBehind
<1>4. ASSUME NEW d \in Ranks, NEW t \in Tiers, RemoveStep(e, d, t)
      PROVE  WithCause(b)
  BY <1>4, RemovalDropsABridge DEF RemoveStep, LeftBehind, WithCause
<1>5. ASSUME NEW t \in Tiers \cup {AllTiers}, ClearEngine(e, t)
      PROVE  WithCause(b)
  BY <1>5, ClearKeepsWithinReach DEF LeftBehind, WithCause
<1>6. QED
  BY <1>1, <1>2, <1>3, <1>4, <1>5 DEF EngineStep, StoreStep

\* No bridge outlives the engine's hold on its block but one that a full clear
\* still reaches, or one of several keys of a block of which the same removal
\* dropped another (RemoveEvent, index.go:221-231).
THEOREM BridgesGo == Spec => BridgesGoWithBlocks
<1> DEFINE Gone == \A b \in DOMAIN bridge \cap DOMAIN bridge' :
                      Leads(b) /\ ~Leads(b)'
                      => \/ bridge[b] \in Listed(b[1])'
                         \/ \E c \in DOMAIN bridge \ DOMAIN bridge' :
                               c[1] = b[1] /\ bridge[c] = bridge[b]
<1>1. IndexInv /\ [Next]_vars => [Gone]_vars
  BY NextLeavesNoBridge DEF LeftBehind, WithCause
<1>2. Init => IndexInv
  BY DEF Init, IndexInv, IndexConsistent, TypeOK, NoEmptyEntry, HeldIsListed, BridgedIsListed
<1>3. IndexInv /\ [Next]_vars => IndexInv'
  BY NextKeepsInv
<1>4. QED
  BY <1>1, <1>2, <1>3, PTL DEF Spec, BridgesGoWithBlocks

-----------------------------------------------------------------------------
(***************************************************************************)
(* The maps implement the promise.                                         *)
(***************************************************************************)

\* Two sets of facts are equal when they agree on every pair.
LEMMA HeldPrimed ==
    Held' = {p \in RequestKeys \X Resident : p[2] \in Holders(p[1])'}
BY DEF Held, Resident

LEMMA StoreImplements ==
    ASSUME IndexInv, IndexInv',
           NEW r \in Resident, NEW rks \in SUBSET RequestKeys,
           StoreRequestKeys(r, rks)
    PROVE  Promise!Store(r, rks)
<1>1. ASSUME NEW p \in RequestKeys \X Resident
      PROVE  p[2] \in Holders(p[1])' <=> p[2] \in Holders(p[1]) \/ (p[1] \in rks /\ p[2] = r)
  BY DEF Holders, StoreRequestKeys
<1>2. rks \X {r} \subseteq RequestKeys \X Resident
  OBVIOUS
<1>3. Held' = Held \cup (rks \X {r})
  <2>1. ASSUME NEW p \in RequestKeys \X Resident
        PROVE  p \in Held' <=> p \in Held \cup (rks \X {r})
    <3>1. p \in rks \X {r} <=> p[1] \in rks /\ p[2] = r
      OBVIOUS
    <3>2. QED
      BY <1>1, <3>1, HeldPrimed DEF Held
  <2>2. Held' \subseteq RequestKeys \X Resident /\ Held \subseteq RequestKeys \X Resident
    BY HeldPrimed DEF Held
  <2>3. QED
    BY <1>2, <2>1, <2>2
<1>4. QED
  BY <1>3 DEF Promise!Store

LEMMA RemoveImplements ==
    ASSUME IndexInv,
           NEW e \in Engines, NEW d \in Ranks, NEW t \in Tiers, NEW eks \in Lists(EngineKeys),
           RemoveEvent(e, d, t, eks)
    PROVE  \E r \in Resident, rks \in SUBSET RequestKeys : Promise!Remove(r, rks)
<1> DEFINE r == [engineID |-> e, dpRank |-> d, tier |-> t]
           rks == Removed(e, eks)
           left(rk) == IF rk \in rks THEN Holders(rk) \ {r} ELSE Holders(rk)
<1>1. r \in Resident
  BY DEF Resident
<1>2. rks \in SUBSET RequestKeys
  BY DEF Removed, Bridged, IndexInv, TypeOK
<1>3. byRequestKey' = [rk \in {k \in DOMAIN byRequestKey : k \in rks => left(k) # {}} |-> left(rk)]
  BY DEF RemoveEvent
<1> HIDE DEF rks, r
<1>4. ASSUME NEW p \in RequestKeys \X Resident
      PROVE  p[2] \in Holders(p[1])' <=> p[2] \in Holders(p[1]) /\ ~(p[1] \in rks /\ p[2] = r)
  <2>1. Holders(p[1])' = left(p[1])
    BY <1>3 DEF Holders
  <2>2. QED
    BY <2>1
<1>5. ASSUME NEW p \in RequestKeys \X Resident
      PROVE  p \in Held' <=> p \in Held \ (rks \X {r})
  <2>1. p \in rks \X {r} <=> p[1] \in rks /\ p[2] = r
    OBVIOUS
  <2>2. QED
    BY <1>4, <2>1, HeldPrimed DEF Held
<1>6. Held' \subseteq RequestKeys \X Resident /\ Held \subseteq RequestKeys \X Resident
  BY HeldPrimed DEF Held
<1>7. Held' = Held \ (rks \X {r})
  BY <1>5, <1>6
<1>8. QED
  BY <1>1, <1>2, <1>7 DEF Promise!Remove

LEMMA ClearImplements ==
    ASSUME IndexInv,
           NEW e \in Engines, NEW t \in Tiers \cup {AllTiers},
           ClearEngine(e, t)
    PROVE  Promise!ClearTiers(e, Tiers) \/ \E x \in Tiers : Promise!ClearTiers(e, {x})
<1> DEFINE gone(r) == r.engineID = e /\ (t = AllTiers \/ r.tier = t)
           cleared(rk) == {r \in byRequestKey[rk] :
                              /\ rk \in byEngine[e]
                              /\ r.engineID = e
                              /\ t = AllTiers \/ r.tier = t}
           left(rk) == byRequestKey[rk] \ cleared(rk)
<1>1. byRequestKey' = [rk \in {k \in DOMAIN byRequestKey : k \in byEngine[e] => left(k) # {}} |-> left(rk)]
  BY DEF ClearEngine
<1>2. ASSUME NEW rk \in RequestKeys, NEW r \in Resident
      PROVE  r \in Holders(rk)' <=> r \in Holders(rk) /\ ~gone(r)
  <2>1. CASE rk \notin DOMAIN byRequestKey
    BY <1>1, <2>1 DEF Holders
  <2>2. CASE rk \in DOMAIN byRequestKey
    <3>1. r \in byRequestKey[rk] /\ r.engineID = e => rk \in byEngine[e]
      BY <2>2 DEF IndexInv, IndexConsistent, HeldIsListed
    <3>2. r \in left(rk) <=> r \in byRequestKey[rk] /\ ~gone(r)
      BY <3>1
    <3>3. Holders(rk)' = IF rk \in byEngine[e] => left(rk) # {} THEN left(rk) ELSE {}
      BY <1>1, <2>2 DEF Holders
    <3>4. r \in Holders(rk)' <=> r \in left(rk)
      BY <3>3
    <3>5. QED
      BY <2>2, <3>2, <3>4 DEF Holders
  <2>3. QED
    BY <2>1, <2>2
<1>3. ASSUME NEW p \in RequestKeys \X Resident
      PROVE  p \in Held' <=> p \in Held /\ ~gone(p[2])
  <2>1. p[1] \in RequestKeys /\ p[2] \in Resident
    OBVIOUS
  <2>2. QED
    BY <1>2, <2>1, HeldPrimed DEF Held
<1>4. Held' \subseteq RequestKeys \X Resident /\ Held \subseteq RequestKeys \X Resident
  BY HeldPrimed DEF Held
<1> HIDE DEF gone
<1>5. Held' = {p \in Held : ~gone(p[2])}
  BY <1>3, <1>4
<1>6. \A p \in Held : p[2].tier \in Tiers
  BY <1>4 DEF Resident
<1>7. CASE t = AllTiers
  <2>1. \A p \in Held : gone(p[2]) <=> (p[2].engineID = e /\ p[2].tier \in Tiers)
    BY <1>6, <1>7 DEF gone
  <2>2. Promise!ClearTiers(e, Tiers)
    BY <1>5, <2>1 DEF Promise!ClearTiers
  <2>3. QED
    BY <2>2
<1>8. CASE t # AllTiers
  <2>1. \A p \in Held : gone(p[2]) <=> (p[2].engineID = e /\ p[2].tier \in {t})
    BY <1>8 DEF gone
  <2>2. Promise!ClearTiers(e, {t})
    BY <1>5, <2>1 DEF Promise!ClearTiers
  <2>3. QED
    BY <1>8, <2>2
<1>9. QED
  BY <1>7, <1>8

LEMMA NextImplements ==
    ASSUME IndexInv, [Next]_vars
    PROVE  [Promise!Next]_Held
<1>1. IndexInv'
  BY NextKeepsInv
<1>2. ASSUME NEW e \in Engines, NEW d \in Ranks, NEW t \in Tiers,
             NEW eks \in Lists(EngineKeys), NEW rks \in Chains, StoreEvent(e, d, t, eks, rks)
      PROVE  Promise!Next
  <2>1. [engineID |-> e, dpRank |-> d, tier |-> t] \in Resident
    BY DEF Resident
  <2>2. Elements(rks) \in SUBSET RequestKeys
    BY ListsAreSequences DEF Chains
  <2>3. Promise!Store([engineID |-> e, dpRank |-> d, tier |-> t], Elements(rks))
    BY <1>1, <1>2, <2>1, <2>2, StoreImplements DEF StoreEvent
  <2>4. QED
    BY <2>1, <2>2, <2>3 DEF Promise!Next, Promise!Resident, Resident
<1>3. ASSUME NEW e \in Engines, NEW d \in Ranks, NEW t \in Tiers,
             NEW eks \in Lists(EngineKeys), StoreEventByEngineKeys(e, d, t, eks)
      PROVE  Promise!Next
  <2> DEFINE rks == {bridge[<<e, eks[i]>>] : i \in DOMAIN eks}
  <2>1. [engineID |-> e, dpRank |-> d, tier |-> t] \in Resident
    BY DEF Resident
  <2>2. rks \in SUBSET RequestKeys
    BY <1>3 DEF IndexInv, TypeOK, StoreEventByEngineKeys, CanResolve, Bridged
  <2>3. Promise!Store([engineID |-> e, dpRank |-> d, tier |-> t], rks)
    BY <1>1, <1>3, <2>1, <2>2, StoreImplements DEF StoreEventByEngineKeys
  <2>4. QED
    BY <2>1, <2>2, <2>3 DEF Promise!Next, Promise!Resident, Resident
<1>4. ASSUME NEW e \in Engines, NEW d \in Ranks, NEW t \in Tiers,
             NEW eks \in Lists(EngineKeys), RemoveEvent(e, d, t, eks)
      PROVE  Promise!Next
  BY <1>4, RemoveImplements DEF Promise!Next, Promise!Resident, Resident
<1>5. ASSUME NEW e \in Engines, NEW t \in Tiers \cup {AllTiers}, ClearEngine(e, t)
      PROVE  Promise!Next
  BY <1>5, ClearImplements DEF Promise!Next
<1>6. CASE Next
  BY <1>2, <1>3, <1>4, <1>5, <1>6 DEF Next, EngineStep, StoreStep, RemoveStep
<1>7. CASE UNCHANGED vars
  BY <1>7 DEF vars, Held, Holders
<1>8. QED
  BY <1>6, <1>7

\* Behind its three maps the index is the set of facts of ResidencyPromise:
\* every step of every operation is one of the promise's steps.
THEOREM IndexImplementsPromise == Spec => ImplementsPromise
<1>1. Init => Promise!Init
  BY DEF Init, Promise!Init, Held, Holders
<1>2. Init => IndexInv
  BY DEF Init, IndexInv, IndexConsistent, TypeOK, NoEmptyEntry, HeldIsListed, BridgedIsListed
<1>3. IndexInv /\ [Next]_vars => IndexInv'
  BY NextKeepsInv
<1>4. IndexInv /\ [Next]_vars => [Promise!Next]_Held
  BY NextImplements
<1>5. QED
  BY <1>1, <1>2, <1>3, <1>4, PTL DEF Spec, ImplementsPromise, Promise!Spec

=============================================================================
