--------------------------- MODULE ResidencyIndex ---------------------------
(***************************************************************************)
(* The dual-key residency index of one profile namespace                   *)
(* (internal/residency/index.go).                                          *)
(*                                                                         *)
(* A request key names a prefix block in the indexer's own hash space; an  *)
(* engine key is the opaque hash an engine puts in its KV events.  The     *)
(* index keeps who holds which request key, a bridge from an engine's keys *)
(* to request keys (removals carry engine keys only), and for each engine  *)
(* the request keys it holds (to clear them all at once).                  *)
(*                                                                         *)
(* A Go map is a function on the keys it holds.  Every operation runs      *)
(* under ix.mu, so each is one step.  An operation that returns early      *)
(* without touching the maps is a disabled action.  Holder timestamps are  *)
(* left out: no decision of the program reads them.                        *)
(***************************************************************************)
EXTENDS Naturals, Sequences, FiniteSets

CONSTANTS
    Engines,      \* engine ids
    Ranks,        \* data-parallel ranks
    Tiers,        \* storage tiers
    RequestKeys,  \* prefix-block hashes of the namespace
    EngineKeys,   \* block hashes reported by engines
    MaxList,      \* bound: longest list of keys in one event
    BlockSize     \* tokens per block

\* The tier argument by which ClearEngine means every tier.
AllTiers == ""

ASSUME ConstantsAssumption ==
    /\ MaxList \in Nat
    /\ BlockSize \in Nat \ {0}

VARIABLES
    byRequestKey, \* request key -> the residents holding it
    bridge,       \* <<engine, engine key>> -> request key
    byEngine      \* engine -> request keys it holds

vars == <<byRequestKey, bridge, byEngine>>

-----------------------------------------------------------------------------

Resident == [engineID : Engines, dpRank : Ranks, tier : Tiers]

\* The lists of keys an event may carry.  The request keys of one event are
\* successive links of one hash chain, so they differ.
Lists(S) == UNION {[1..n -> S] : n \in 0..MaxList}
Chains == {rks \in Lists(RequestKeys) : \A i, j \in DOMAIN rks : rks[i] = rks[j] => i = j}

Elements(list) == {list[i] : i \in DOMAIN list}

HasEngine(holders, e) == \E r \in holders : r.engineID = e

\* A missing map entry reads as the empty set.
Holders(rk) == IF rk \in DOMAIN byRequestKey THEN byRequestKey[rk] ELSE {}
Listed(e) == IF e \in DOMAIN byEngine THEN byEngine[e] ELSE {}

Init ==
    /\ byRequestKey = << >>
    /\ bridge = << >>
    /\ byEngine = << >>

-----------------------------------------------------------------------------
(***************************************************************************)
(* Storing                                                                 *)
(***************************************************************************)

\* Mistake: a key that has an entry already is not listed under the engine.
StoreRequestKeysUnlisted(r, rks) ==
    /\ byRequestKey' = [rk \in DOMAIN byRequestKey \cup rks |->
                            IF rk \in rks THEN Holders(rk) \cup {r} ELSE byRequestKey[rk]]
    /\ byEngine' = [e \in DOMAIN byEngine \cup {r.engineID} |->
                            IF e = r.engineID THEN Listed(e) \cup (rks \ DOMAIN byRequestKey) ELSE byEngine[e]]

\* Mistake: a store replaces the other residents of the entry.
StoreRequestKeysAlone(r, rks) ==
    /\ byRequestKey' = [rk \in DOMAIN byRequestKey \cup rks |->
                            IF rk \in rks THEN {r} ELSE byRequestKey[rk]]
    /\ byEngine' = [e \in DOMAIN byEngine \cup {r.engineID} |->
                            IF e = r.engineID THEN Listed(e) \cup rks ELSE byEngine[e]]

\* storeRequestKeysLocked: resident r now holds each of rks.
StoreRequestKeys(r, rks) ==
    /\ byRequestKey' = [rk \in DOMAIN byRequestKey \cup rks |->
                            IF rk \in rks THEN Holders(rk) \cup {r} ELSE byRequestKey[rk]]
    /\ byEngine' = [e \in DOMAIN byEngine \cup {r.engineID} |->
                            IF e = r.engineID THEN Listed(e) \cup rks ELSE byEngine[e]]

\* The two lists are paired from their ends; of several positions of one
\* engine key the last one written to the map stands.
TailAligned(eks, rks) ==
    LET nEng == Len(eks)
        nReq == Len(rks)
        k == IF nReq < nEng THEN nReq ELSE nEng
        at(ek) == {i \in 1..k : eks[nEng - k + i] = ek}
        last(ek) == CHOOSE i \in at(ek) : \A j \in at(ek) : j <= i
    IN  [ek \in {eks[nEng - k + i] : i \in 1..k} |-> rks[nReq - k + last(ek)]]

\* A BlockStored event that carries tokens.
StoreEvent(e, d, t, eks, rks) ==
    /\ Len(rks) > 0
    /\ StoreRequestKeys([engineID |-> e, dpRank |-> d, tier |-> t], Elements(rks))
    /\ LET pairs == TailAligned(eks, rks)
       IN  bridge' = [b \in DOMAIN bridge \cup ({e} \X DOMAIN pairs) |->
                          IF b[1] = e /\ b[2] \in DOMAIN pairs THEN pairs[b[2]] ELSE bridge[b]]

Bridged(e, ek) == <<e, ek>> \in DOMAIN bridge

\* A BlockStored event without tokens: all or nothing.
CanResolve(e, eks) == Len(eks) > 0 /\ \A i \in DOMAIN eks : Bridged(e, eks[i])

StoreEventByEngineKeys(e, d, t, eks) ==
    /\ CanResolve(e, eks)
    /\ StoreRequestKeys([engineID |-> e, dpRank |-> d, tier |-> t],
                        {bridge[<<e, eks[i]>>] : i \in DOMAIN eks})
    /\ UNCHANGED bridge

-----------------------------------------------------------------------------
(***************************************************************************)
(* Removing                                                                *)
(***************************************************************************)

\* The request keys a removal reaches through the bridge.
Removed(e, eks) == {bridge[<<e, ek>>] : ek \in {x \in Elements(eks) : Bridged(e, x)}}

\* ek is the first key of the list that the bridge takes to its request key.
FirstOfItsBlock(e, eks, ek) ==
    \E i \in DOMAIN eks :
        /\ eks[i] = ek
        /\ \A j \in 1..(i - 1) :
              Bridged(e, eks[j]) => bridge[<<e, eks[j]>>] # bridge[<<e, ek>>]

\* Mistake: a removal keeps the bridges.
DropsBridgeNever(e, r, eks, ek) == FALSE

\* The bridges a removal deletes.  Once the entry of a block is gone the
\* remaining engine keys of that block find no entry and keep their bridge.
DropsBridge(e, r, eks, ek) ==
    /\ ek \in Elements(eks)
    /\ Bridged(e, ek)
    /\ bridge[<<e, ek>>] \in DOMAIN byRequestKey
    /\ LET left == byRequestKey[bridge[<<e, ek>>]] \ {r}
       IN  IF left = {} THEN FirstOfItsBlock(e, eks, ek) ELSE ~HasEngine(left, e)

\* A BlockRemoved event: the loop over its engine keys, in closed form.
RemoveEvent(e, d, t, eks) ==
    LET r == [engineID |-> e, dpRank |-> d, tier |-> t]
        rks == Removed(e, eks)
        left(rk) == IF rk \in rks THEN Holders(rk) \ {r} ELSE Holders(rk)
    IN  /\ rks # {}
        /\ byRequestKey' = [rk \in {k \in DOMAIN byRequestKey : k \in rks => left(k) # {}} |-> left(rk)]
        /\ bridge' = [b \in {x \in DOMAIN bridge : ~(x[1] = e /\ DropsBridge(e, r, eks, x[2]))} |->
                          bridge[b]]
        /\ byEngine' = [x \in DOMAIN byEngine |->
                            IF x = e THEN {rk \in byEngine[e] : rk \in rks => HasEngine(left(rk), e)}
                                     ELSE byEngine[x]]

\* AllBlocksCleared: drop what the engine holds, in one tier or in all.
ClearEngine(e, t) ==
    LET cleared(rk) == {r \in byRequestKey[rk] :
                            /\ rk \in byEngine[e]
                            /\ r.engineID = e
                            /\ t = AllTiers \/ r.tier = t}
        left(rk) == byRequestKey[rk] \ cleared(rk)
    IN  /\ e \in DOMAIN byEngine
        /\ byRequestKey' = [rk \in {k \in DOMAIN byRequestKey : k \in byEngine[e] => left(k) # {}} |->
                                left(rk)]
        /\ IF t = AllTiers
           THEN /\ bridge' = [b \in {x \in DOMAIN bridge : x[1] # e} |-> bridge[b]]
                /\ byEngine' = [x \in DOMAIN byEngine \ {e} |-> byEngine[x]]
           ELSE UNCHANGED <<bridge, byEngine>>

-----------------------------------------------------------------------------

StoreStep(e, d, t) ==
    \/ \E eks \in Lists(EngineKeys), rks \in Chains : StoreEvent(e, d, t, eks, rks)
    \/ \E eks \in Lists(EngineKeys) : StoreEventByEngineKeys(e, d, t, eks)

RemoveStep(e, d, t) == \E eks \in Lists(EngineKeys) : RemoveEvent(e, d, t, eks)

EngineStep(e) ==
    \/ \E d \in Ranks, t \in Tiers : StoreStep(e, d, t) \/ RemoveStep(e, d, t)
    \/ \E t \in Tiers \cup {AllTiers} : ClearEngine(e, t)

Next == \E e \in Engines : EngineStep(e)

Spec == Init /\ [][Next]_vars

-----------------------------------------------------------------------------
(***************************************************************************)
(* Properties                                                              *)
(***************************************************************************)

\* The maps hold keys and values of their types.
TypeOK ==
    /\ DOMAIN byRequestKey \subseteq RequestKeys
    /\ byRequestKey \in [DOMAIN byRequestKey -> SUBSET Resident]
    /\ DOMAIN bridge \subseteq Engines \X EngineKeys
    /\ bridge \in [DOMAIN bridge -> RequestKeys]
    /\ DOMAIN byEngine \subseteq Engines
    /\ byEngine \in [DOMAIN byEngine -> SUBSET RequestKeys]

\* An entry whose last holder left is deleted (the two len(e.holders) == 0
\* branches): the map does not keep growing with blocks nobody holds.
NoEmptyEntry == \A rk \in DOMAIN byRequestKey : byRequestKey[rk] # {}

\* What an engine holds is listed under it.  ClearEngine visits the listed
\* keys only, so a held key missing from the list would survive the clear.
HeldIsListed ==
    \A rk \in DOMAIN byRequestKey : \A r \in byRequestKey[rk] :
        /\ r.engineID \in DOMAIN byEngine
        /\ rk \in byEngine[r.engineID]

\* An engine with a bridge has a list.  ClearEngine returns early for an
\* engine without one and would leave its bridges behind.
BridgedIsListed == \A b \in DOMAIN bridge : b[1] \in DOMAIN byEngine

\* The three maps agree well enough for removal and clearing to be complete.
IndexConsistent == NoEmptyEntry /\ HeldIsListed /\ BridgedIsListed

\* A full clear leaves nothing of the engine in any of the three maps,
\* whatever stores, removals and partial clears came before it.
EngineGone(e) ==
    /\ \A rk \in DOMAIN byRequestKey : ~HasEngine(byRequestKey[rk], e)
    /\ \A b \in DOMAIN bridge : b[1] # e
    /\ e \notin DOMAIN byEngine

ClearIsComplete == [][\A e \in Engines : ClearEngine(e, AllTiers) => EngineGone(e)']_vars

\* A bridge that leads to a block its engine holds.
Leads(b) == b \in DOMAIN bridge /\ HasEngine(Holders(bridge[b]), b[1])

\* Bridges go with the blocks they lead to (index.go:221-231), which bounds
\* them by what is held.  The exceptions are two: a clear of one tier, which
\* keeps the block listed and so within reach of a full clear, and several
\* keys for one block, of which a removal drops at least one, whatever it
\* names and whoever else holds the block.  "Removes resident + bridge
\* entries" (docs/scaling.md:299) is no more true than that.
BridgesGoWithBlocks ==
    [][\A b \in DOMAIN bridge \cap DOMAIN bridge' :
          Leads(b) /\ ~Leads(b)'
          => \/ bridge[b] \in Listed(b[1])'
             \/ \E c \in DOMAIN bridge \ DOMAIN bridge' :
                   c[1] = b[1] /\ bridge[c] = bridge[b]]_vars

\* The maps implement the promise: a set of facts that only stores of a
\* resident, removals of that resident and clears of an engine change.  The
\* entries are shared between engines and the lists are kept beside them, so
\* an event of one engine could lose or keep facts it has no business with.
Held == {p \in RequestKeys \X Resident : p[2] \in Holders(p[1])}

Promise == INSTANCE ResidencyPromise WITH held <- Held

ImplementsPromise == Promise!Spec

=============================================================================
