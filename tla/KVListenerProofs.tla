--------------------------- MODULE KVListenerProofs ---------------------------
(***************************************************************************)
(* Proofs about the listeners, for any engines, blocks, setups, faults and *)
(* any number of batches.                                                  *)
(*                                                                         *)
(* What a batch does to the index depends on what is in it, so the types   *)
(* follow the events from the engine to the index.  On top of them stand   *)
(* two invariants that need nothing of each other: of the numbers of the   *)
(* batches (LossIsTold) and of the index (BridgesAndHoldingsAgree).  A     *)
(* third needs both: that a listener which caught up leaves the index with *)
(* what the engine holds (CaughtUpIsExact).  It speaks of all the batches  *)
(* an engine ever published, and of the place that the listener has in     *)
(* them.                                                                   *)
(***************************************************************************)
EXTENDS KVListener, ResidencyIndexProofs, FiniteSetTheorems

-----------------------------------------------------------------------------
(***************************************************************************)
(* Types                                                                   *)
(***************************************************************************)

PlainKeys == {Key(b, FALSE) : b \in Blocks}
Keys == PlainKeys \cup {Key(b, TRUE) : b \in LoraBlocks}

PlainStores == UNION {{Stored(b, FALSE, n, "gpu") : n \in 0..(Len(b) - 1)} : b \in Blocks}
LoraStores == UNION {{Stored(b, TRUE, n, "gpu") : n \in 0..(Len(b) - 1)} : b \in LoraBlocks}
Offloads == {StoredByKey(k, t) : k \in PlainKeys, t \in Tiers}
Removals == {RemovedEvent(k, t) : k \in Keys, t \in Tiers}
Events == PlainStores \cup LoraStores \cup Offloads \cup Removals \cup {Cleared}

Batches == [seq : Nat, events : Seq(Events), ok : BOOLEAN]

EngineTyped ==
    /\ setup \in Setups
    /\ cache \in [Engines -> SUBSET (Keys \X Tiers)]
    /\ nextSeq \in [Engines -> Nat]
    /\ log \in [Engines -> Seq(Batches)]
    /\ wire \in [Engines -> Seq(Batches)]
    /\ sub \in [Engines -> BOOLEAN]
    /\ happened \subseteq FaultKinds

StreamTyped ==
    /\ pc \in [Engines -> {"dial", "request", "replay", "live", "drain", "stopped"}]
    /\ connected \in [Engines -> BOOLEAN]
    /\ lastSeq \in [Engines -> Nat \cup {NoSeq}]
    /\ gaps \in [Engines -> Nat]
    /\ decodeErrors \in [Engines -> Nat]
    /\ replayed \in [Engines -> Seq(Batches)]
    /\ queue \in [Engines -> Seq(Batches)]
    /\ todo \in [Engines -> Seq(Events)]
    /\ resolves \in BOOLEAN
    /\ ingested \in [Engines -> SUBSET Nat]
    /\ heard \in [Engines -> Nat \cup {NoSeq}]

LTyped == EngineTyped /\ StreamTyped

\* The larger of two numbers.
LEMMA MaxOfTwo ==
    ASSUME NEW a \in Int, NEW b \in Int
    PROVE  Max({a, b}) = IF a >= b THEN a ELSE b
<1> DEFINE m == IF a >= b THEN a ELSE b
<1>1. m \in {a, b} /\ \A y \in {a, b} : m >= y
  OBVIOUS
<1>2. \A x \in {a, b} : (\A y \in {a, b} : x >= y) => x = m
  OBVIOUS
<1>3. QED
  BY <1>1, <1>2 DEF Max

\* A chain has a longest cached prefix.
LEMMA CachedPrefixType ==
    ASSUME NEW e \in Engines, NEW chain \in Blocks \cup LoraBlocks, NEW lora
    PROVE  CachedPrefix(e, chain, lora) \in 0..Len(chain)
<1> DEFINE S == {n \in 0..Len(chain) : \A m \in 1..n : Cached(e, Prefix(chain, m), lora, "gpu")}
           P == S \ {0}
<1>1. Len(chain) \in Nat
  BY ListenerConstantsAssumption
<1>2. 0 \in S
  BY <1>1
<1>3. \E x \in S : \A y \in S : x >= y
  <2>1. CASE P = {}
    BY <1>1, <1>2, <2>1
  <2>2. CASE P # {}
    <3>1. P \in SUBSET (1..Len(chain))
      BY <1>1
    <3>2. PICK x \in P : \A y \in P : y <= x
      BY <1>1, <2>2, <3>1, LastPosition
    <3>3. QED
      BY <1>1, <3>1, <3>2
  <2>3. QED
    BY <2>1, <2>2
<1>4. (CHOOSE x \in S : \A y \in S : x >= y) \in S
  BY <1>3
<1>5. QED
  BY <1>4 DEF CachedPrefix, Max

\* The new blocks of a chain are its blocks after the cached ones.
LEMMA NewBlocksTyped ==
    ASSUME NEW chain, NEW lora \in BOOLEAN, NEW from \in Nat,
           IF lora THEN chain \in LoraBlocks ELSE chain \in Blocks
    PROVE  NewBlocks(chain, lora, from) \in SUBSET (Keys \X Tiers)
<1>1. Len(chain) \in Nat
  BY ListenerConstantsAssumption
<1>2. ASSUME NEW n \in (from + 1)..Len(chain)
      PROVE  Key(Prefix(chain, n), lora) \in Keys
  <2>1. n \in 1..Len(chain)
    BY <1>1
  <2>2. CASE lora
    <3>1. Prefix(chain, n) \in LoraBlocks
      BY <2>1, <2>2, ListenerConstantsAssumption DEF LoraBlocks
    <3>2. QED
      BY <2>2, <3>1 DEF Keys
  <2>3. CASE ~lora
    <3>1. Prefix(chain, n) \in Blocks
      BY <2>1, <2>3, ListenerConstantsAssumption
    <3>2. QED
      BY <2>3, <3>1 DEF Keys, PlainKeys
  <2>4. QED
    BY <2>2, <2>3
<1>3. QED
  BY <1>2, ListenerConstantsAssumption DEF NewBlocks

\* Publishing changes the engine and the wire.
LEMMA PublishTyped ==
    ASSUME LTyped, NEW e \in Engines, NEW events \in Seq(Events),
           NEW after \in SUBSET (Keys \X Tiers), Publish(e, events, after)
    PROVE  LTyped'
<1>1. /\ setup' = setup
      /\ cache' \in [Engines -> SUBSET (Keys \X Tiers)]
      /\ nextSeq' \in [Engines -> Nat]
      /\ sub' = sub
  BY DEF Publish, LTyped, EngineTyped
<1>2. /\ log' \in [Engines -> Seq(Batches)]
      /\ wire' \in [Engines -> Seq(Batches)]
      /\ happened' \subseteq FaultKinds
  <2>1. CASE UNCHANGED <<log, wire>> /\ Fault("dropped")
    BY <2>1 DEF Fault, FaultKinds, LTyped, EngineTyped
  <2>2. ASSUME NEW ok \in BOOLEAN,
               log' = [log EXCEPT ![e] =
                          IF Len(Append(log[e], [seq |-> nextSeq[e], events |-> events, ok |-> ok])) > setup.replayCap
                          THEN Tail(Append(log[e], [seq |-> nextSeq[e], events |-> events, ok |-> ok]))
                          ELSE Append(log[e], [seq |-> nextSeq[e], events |-> events, ok |-> ok])],
               wire' = IF sub[e] THEN [wire EXCEPT ![e] = Append(@, [seq |-> nextSeq[e], events |-> events, ok |-> ok])]
                       ELSE wire,
               happened' = happened \/ Fault("malformed")
        PROVE  /\ log' \in [Engines -> Seq(Batches)]
               /\ wire' \in [Engines -> Seq(Batches)]
               /\ happened' \subseteq FaultKinds
    <3> DEFINE msg == [seq |-> nextSeq[e], events |-> events, ok |-> ok]
               kept == Append(log[e], msg)
    <3>1. msg \in Batches
      BY DEF LTyped, EngineTyped, Batches
    <3>2. kept \in Seq(Batches) /\ Len(kept) > 0
      BY <3>1 DEF LTyped, EngineTyped
    <3>3. Tail(kept) \in Seq(Batches)
      BY <3>2
    <3>4. Append(wire[e], msg) \in Seq(Batches)
      BY <3>1 DEF LTyped, EngineTyped
    <3>5. log' = [log EXCEPT ![e] = IF Len(kept) > setup.replayCap THEN Tail(kept) ELSE kept]
      BY <2>2
    <3>6. wire' = IF sub[e] THEN [wire EXCEPT ![e] = Append(wire[e], msg)] ELSE wire
      BY <2>2 DEF LTyped, EngineTyped
    <3> HIDE DEF msg, kept
    <3>7. log' \in [Engines -> Seq(Batches)]
      BY <3>2, <3>3, <3>5 DEF LTyped, EngineTyped
    <3>8. wire' \in [Engines -> Seq(Batches)]
      BY <3>4, <3>6 DEF LTyped, EngineTyped
    <3>9. happened' \subseteq FaultKinds
      BY <2>2 DEF Fault, FaultKinds, LTyped, EngineTyped
    <3>10. QED
      BY <3>7, <3>8, <3>9
  <2>3. QED
    BY <2>1, <2>2 DEF Publish
<1>3. StreamTyped'
  BY DEF Publish, LTyped, StreamTyped, streamVars, history
<1>4. QED
  BY <1>1, <1>2, <1>3 DEF LTyped, EngineTyped

\* Everything an engine does.
LEMMA EngineActsTyped == ASSUME LTyped, NEW e \in Engines, EngineActs(e) PROVE LTyped'
<1>1. cache[e] \in SUBSET (Keys \X Tiers) /\ setup \in Setups
  BY DEF LTyped, EngineTyped
<1>2. ASSUME NEW chain, NEW lora \in BOOLEAN,
             IF lora THEN chain \in LoraBlocks ELSE chain \in Blocks
      PROVE  LET from == CachedPrefix(e, chain, lora) IN
             /\ from \in Nat
             /\ NewBlocks(chain, lora, from) \in SUBSET (Keys \X Tiers)
             /\ from < Len(chain) => Stored(chain, lora, from, "gpu") \in Events
  <2> DEFINE from == CachedPrefix(e, chain, lora)
  <2>1. from \in Nat
    BY <1>2, CachedPrefixType
  <2>2. NewBlocks(chain, lora, from) \in SUBSET (Keys \X Tiers)
    BY <1>2, <2>1, NewBlocksTyped
  <2> HIDE DEF from
  <2>3. from < Len(chain) => Stored(chain, lora, from, "gpu") \in Events
    <3>1. from < Len(chain) => from \in 0..(Len(chain) - 1)
      BY <1>2, <2>1, ListenerConstantsAssumption
    <3>2. ASSUME NEW n \in 0..(Len(chain) - 1), chain \in LoraBlocks
          PROVE  Stored(chain, TRUE, n, "gpu") \in Events
      <4>1. Stored(chain, TRUE, n, "gpu") \in {Stored(chain, TRUE, m, "gpu") : m \in 0..(Len(chain) - 1)}
        BY Zenon
      <4>2. QED
        BY <3>2, <4>1, ZenonT(30) DEF Events, LoraStores
    <3>3. ASSUME NEW n \in 0..(Len(chain) - 1), chain \in Blocks
          PROVE  Stored(chain, FALSE, n, "gpu") \in Events
      <4>1. Stored(chain, FALSE, n, "gpu") \in {Stored(chain, FALSE, m, "gpu") : m \in 0..(Len(chain) - 1)}
        BY Zenon
      <4>2. QED
        BY <3>3, <4>1, ZenonT(30) DEF Events, PlainStores
    <3>4. CASE lora = TRUE
      BY <1>2, <3>1, <3>2, <3>4, Zenon
    <3>5. CASE lora = FALSE
      BY <1>2, <3>1, <3>3, <3>5, Zenon
    <3>6. QED
      BY <3>4, <3>5
  <2>4. QED
    BY <2>1, <2>2, <2>3 DEF from
<1>3. \A held \in cache[e] : RemovedEvent(held[1], held[2]) \in Events
  BY <1>1 DEF Events, Removals
<1>4. ASSUME NEW chain, NEW lora \in BOOLEAN,
             IF lora THEN chain \in LoraBlocks ELSE chain \in Blocks,
             EngineStore(e, chain, lora)
      PROVE  LTyped'
  <2> DEFINE from == CachedPrefix(e, chain, lora)
  <2>1. /\ from < Len(chain)
        /\ Publish(e, <<Stored(chain, lora, from, "gpu")>>, cache[e] \cup NewBlocks(chain, lora, from))
    BY <1>4 DEF EngineStore
  <2>2. Stored(chain, lora, from, "gpu") \in Events /\ NewBlocks(chain, lora, from) \in SUBSET (Keys \X Tiers)
    BY <1>2, <1>4, <2>1
  <2> HIDE DEF from
  <2>3. <<Stored(chain, lora, from, "gpu")>> \in Seq(Events)
    BY <2>2
  <2>4. cache[e] \cup NewBlocks(chain, lora, from) \in SUBSET (Keys \X Tiers)
    BY <1>1, <2>2
  <2>5. QED
    BY <2>1, <2>3, <2>4, PublishTyped, Zenon
<1>5. ASSUME NEW chain \in Blocks, EngineOffload(e, Key(chain, FALSE))
      PROVE  LTyped'
  <2> DEFINE key == Key(chain, FALSE)
  <2>1. Publish(e, <<StoredByKey(key, "cpu")>>, cache[e] \cup {<<key, "cpu">>})
    BY <1>5 DEF EngineOffload
  <2>2. key \in PlainKeys /\ key \in Keys /\ "cpu" \in Tiers
    BY <1>1, <1>5, ListenerConstantsAssumption DEF EngineOffload, Keys, PlainKeys
  <2>3. StoredByKey(key, "cpu") \in Events
    <3> HIDE DEF key
    <3>1. StoredByKey(key, "cpu") \in {StoredByKey(k, t) : k \in PlainKeys, t \in Tiers}
      BY <2>2, SMT
    <3>2. StoredByKey(key, "cpu") \in Offloads
      BY <3>1 DEF Offloads
    <3> HIDE DEF Offloads
    <3>3. QED
      BY <3>2 DEF Events
  <2> HIDE DEF key
  <2>4. <<StoredByKey(key, "cpu")>> \in Seq(Events)
    BY <2>3
  <2>5. cache[e] \cup {<<key, "cpu">>} \in SUBSET (Keys \X Tiers)
    BY <1>1, <2>2
  <2>6. QED
    BY <2>1, <2>4, <2>5, PublishTyped, Zenon
<1>6. ASSUME NEW held \in cache[e], EngineEvict(e, held)
      PROVE  LTyped'
  <2>1. <<RemovedEvent(held[1], held[2])>> \in Seq(Events)
    BY <1>3
  <2>2. cache[e] \ {held} \in SUBSET (Keys \X Tiers)
    BY <1>1
  <2>3. QED
    BY <1>6, <2>1, <2>2, PublishTyped, Zenon DEF EngineEvict
<1>7. ASSUME NEW held \in cache[e], NEW chain \in Blocks, EngineReplace(e, held, chain)
      PROVE  LTyped'
  <2> DEFINE from == CachedPrefix(e, chain, FALSE)
             events == <<RemovedEvent(held[1], held[2]), Stored(chain, FALSE, from, "gpu")>>
  <2>1. /\ from < Len(chain)
        /\ Publish(e, events, (cache[e] \ {held}) \cup NewBlocks(chain, FALSE, from))
    BY <1>7 DEF EngineReplace
  <2>2. Stored(chain, FALSE, from, "gpu") \in Events /\ NewBlocks(chain, FALSE, from) \in SUBSET (Keys \X Tiers)
    BY <1>2, <1>7, <2>1
  <2> HIDE DEF from
  <2>3. events \in Seq(Events)
    <3>1. RemovedEvent(held[1], held[2]) \in Events
      BY <1>3
    <3>2. \A a \in Events, b \in Events : <<a, b>> \in Seq(Events)
      OBVIOUS
    <3>3. QED
      BY <2>2, <3>1, <3>2
  <2>4. (cache[e] \ {held}) \cup NewBlocks(chain, FALSE, from) \in SUBSET (Keys \X Tiers)
    BY <1>1, <2>2
  <2> HIDE DEF events
  <2>5. QED
    BY <2>1, <2>3, <2>4, PublishTyped, Zenon
<1>8. ASSUME EngineClear(e)
      PROVE  LTyped'
  <2>1. <<Cleared>> \in Seq(Events)
    BY DEF Events
  <2>2. QED
    BY <1>8, <2>1, PublishTyped, Zenon DEF EngineClear
<1>9. ASSUME EngineRestart(e)
      PROVE  LTyped'
  BY <1>9 DEF EngineRestart, Fault, FaultKinds, LTyped, EngineTyped, StreamTyped
<1>10. QED
  BY <1>1, <1>4, <1>5, <1>6, <1>7, <1>8, <1>9 DEF EngineActs, LoraBlocks

\* Taking a batch for ingestion.
LEMMA TakeBatchTyped ==
    ASSUME LTyped, NEW e \in Engines, NEW msg \in Batches, TakeBatch(e, msg)
    PROVE  /\ heard' \in [Engines -> Nat \cup {NoSeq}]
           /\ lastSeq' \in [Engines -> Nat \cup {NoSeq}]
           /\ gaps' \in [Engines -> Nat]
           /\ decodeErrors' \in [Engines -> Nat]
           /\ todo' \in [Engines -> Seq(Events)]
           /\ ingested' \in [Engines -> SUBSET Nat]
<1>1. msg.seq \in Nat /\ msg.events \in Seq(Events)
  BY DEF Batches
<1>2. heard[e] \in Nat \cup {NoSeq} /\ heard[e] \in Int
  BY DEF LTyped, StreamTyped, NoSeq
<1>3. Max({heard[e], msg.seq}) \in Nat \cup {NoSeq}
  BY <1>1, <1>2, MaxOfTwo
<1>4. heard' \in [Engines -> Nat \cup {NoSeq}]
  BY <1>3 DEF TakeBatch, LTyped, StreamTyped
<1>5. /\ lastSeq' \in [Engines -> Nat \cup {NoSeq}]
      /\ gaps' \in [Engines -> Nat]
      /\ decodeErrors' \in [Engines -> Nat]
  <2>1. (TrackSeq(e, msg.seq) /\ UNCHANGED decodeErrors)
        \/ (decodeErrors' = [decodeErrors EXCEPT ![e] = @ + 1] /\ UNCHANGED <<lastSeq, gaps>>)
    BY Zenon DEF TakeBatch
  <2>2. CASE TrackSeq(e, msg.seq) /\ UNCHANGED decodeErrors
    BY <1>1, <2>2, SMTT(20) DEF TrackSeq, LTyped, StreamTyped
  <2>3. CASE decodeErrors' = [decodeErrors EXCEPT ![e] = @ + 1] /\ UNCHANGED <<lastSeq, gaps>>
    BY <2>3 DEF LTyped, StreamTyped
  <2>4. QED
    BY <2>1, <2>2, <2>3
<1>6. todo' \in [Engines -> Seq(Events)] /\ ingested' \in [Engines -> SUBSET Nat]
  <2>1. (todo' = [todo EXCEPT ![e] = msg.events] \/ UNCHANGED todo)
        /\ (ingested' = [ingested EXCEPT ![e] = @ \cup {msg.seq}] \/ UNCHANGED ingested)
    BY Zenon DEF TakeBatch
  <2>2. todo \in [Engines -> Seq(Events)] /\ ingested \in [Engines -> SUBSET Nat]
    BY DEF LTyped, StreamTyped
  <2>3. todo' \in [Engines -> Seq(Events)]
    BY <1>1, <2>1, <2>2
  <2>4. ingested' \in [Engines -> SUBSET Nat]
    <3>1. CASE UNCHANGED ingested
      BY <2>2, <3>1
    <3>2. CASE ingested' = [ingested EXCEPT ![e] = @ \cup {msg.seq}]
      <4>1. ingested[e] \cup {msg.seq} \in SUBSET Nat
        BY <1>1, <2>2
      <4> QED
        BY <2>2, <3>2, <4>1
    <3> QED
      BY <2>1, <3>1, <3>2
  <2>5. QED
    BY <2>3, <2>4
<1>7. QED
  BY <1>4, <1>5, <1>6

\* The first batch of a list, and the rest of it.
LEMMA HeadIsBatch ==
    ASSUME NEW S, NEW list \in Seq(S), list # << >>
    PROVE  Head(list) \in S /\ Tail(list) \in Seq(S)
BY HeadTailProperties

\* What the engine kept is a list of batches.
LEMMA KeptFromTyped ==
    ASSUME LTyped, NEW e \in Engines, NEW first
    PROVE  KeptFrom(e, first) \in Seq(Batches)
<1> DEFINE I == {i \in DOMAIN log[e] : log[e][i].seq < first}
<1>1. log[e] \in Seq(Batches) /\ Len(log[e]) \in Nat /\ DOMAIN log[e] = 1..Len(log[e])
  BY DEF LTyped, EngineTyped
<1>2. IsFiniteSet(1..Len(log[e]))
  BY <1>1, FS_Interval
<1>3. IsFiniteSet(I)
  BY <1>1, <1>2, FS_Subset
<1>4. Cardinality(I) \in Nat
  BY <1>3, FS_CardinalityType
<1> HIDE DEF I
<1>5. SubSeq(log[e], Cardinality(I) + 1, Len(log[e])) \in Seq(Batches)
  BY <1>1, <1>4, SubSeqProperties
<1>6. QED
  BY <1>5 DEF KeptFrom, I

\* Every action but the engines' keeps the types.
LEMMA LoopsTyped ==
    ASSUME LTyped, NEW e \in Engines,
           \/ ConnLost(e) \/ RecvLoop(e) \/ ApplyLoop(e) \/ Unregister(e) \/ Register(e)
    PROVE  LTyped'
<1>1. /\ log[e] \in Seq(Batches) /\ wire[e] \in Seq(Batches) /\ replayed[e] \in Seq(Batches)
      /\ queue[e] \in Seq(Batches) /\ todo[e] \in Seq(Events)
  BY DEF LTyped, EngineTyped, StreamTyped
<1>2. CASE ConnLost(e)
  <2>1. PICK n \in 0..Len(wire[e]) : wire' = [wire EXCEPT ![e] = SubSeq(@, 1, n)]
    BY <1>2 DEF ConnLost
  <2>2. SubSeq(wire[e], 1, n) \in Seq(Batches)
    <3>1. n \in Int /\ \A i \in 1..n : wire[e][i] \in Batches
      BY <1>1
    <3>2. QED
      BY <3>1, SubSeqProperties
  <2>3. wire' \in [Engines -> Seq(Batches)]
    BY <2>1, <2>2 DEF LTyped, EngineTyped
  <2>4. StreamTyped'
    BY <1>2 DEF ConnLost, streamVars, history, LTyped, StreamTyped
  <2>5. QED
    BY <1>2, <2>3, <2>4 DEF ConnLost, Fault, FaultKinds, engineVars, LTyped, EngineTyped
<1>3. CASE Dial(e)
  <2>1. EngineTyped'
    BY <1>1, <1>3 DEF Dial, engineVars, LTyped, EngineTyped
  <2>2. StreamTyped'
    BY <1>3 DEF Dial, history, LTyped, StreamTyped
  <2>3. QED
    BY <2>1, <2>2 DEF LTyped
<1>4. CASE RequestReplay(e)
  <2>1. KeptFrom(e, NextReplaySeq(e)) \in Seq(Batches)
    BY KeptFromTyped
  <2>2. EngineTyped'
    BY <1>4 DEF RequestReplay, engineVars, LTyped, EngineTyped
  <2>3. StreamTyped'
    BY <1>4, <2>1 DEF RequestReplay, history, LTyped, StreamTyped
  <2>4. QED
    BY <2>2, <2>3 DEF LTyped
<1>5. CASE ReplayRecv(e)
  <2>1. Head(replayed[e]) \in Batches /\ Tail(replayed[e]) \in Seq(Batches) /\ TakeBatch(e, Head(replayed[e]))
    BY <1>1, <1>5, HeadIsBatch DEF ReplayRecv
  <2>2. EngineTyped'
    BY <1>5 DEF ReplayRecv, engineVars, LTyped, EngineTyped
  <2>3. StreamTyped'
    BY <1>5, <2>1, TakeBatchTyped DEF ReplayRecv, LTyped, StreamTyped
  <2>4. QED
    BY <2>2, <2>3 DEF LTyped
<1>6. CASE HandleFrames(e)
  <2>1. Head(queue[e]) \in Batches /\ Tail(queue[e]) \in Seq(Batches) /\ TakeBatch(e, Head(queue[e]))
    BY <1>1, <1>6, HeadIsBatch DEF HandleFrames
  <2>2. EngineTyped'
    BY <1>6 DEF HandleFrames, engineVars, LTyped, EngineTyped
  <2>3. StreamTyped'
    BY <1>6, <2>1, TakeBatchTyped DEF HandleFrames, LTyped, StreamTyped
  <2>4. QED
    BY <2>2, <2>3 DEF LTyped
<1>7. CASE ReplayOver(e)
  <2>1. happened' \subseteq FaultKinds
    BY <1>7 DEF ReplayOver, Fault, FaultKinds, LTyped, EngineTyped
  <2>2. EngineTyped'
    BY <1>7, <2>1 DEF ReplayOver, engineVars, LTyped, EngineTyped
  <2>3. StreamTyped'
    BY <1>7 DEF ReplayOver, history, LTyped, StreamTyped
  <2>4. QED
    BY <2>2, <2>3 DEF LTyped
<1>8. CASE Recv(e)
  <2>1. Append(queue[e], Head(wire[e])) \in Seq(Batches) /\ Tail(wire[e]) \in Seq(Batches)
    <3>1. Head(wire[e]) \in Batches /\ Tail(wire[e]) \in Seq(Batches)
      BY <1>1, <1>8, HeadIsBatch DEF Recv
    <3>2. QED
      BY <1>1, <3>1
  <2>2. EngineTyped'
    BY <1>8, <2>1 DEF Recv, engineVars, LTyped, EngineTyped
  <2>3. StreamTyped'
    BY <1>8, <2>1 DEF Recv, history, LTyped, StreamTyped
  <2>4. QED
    BY <2>2, <2>3 DEF LTyped
<1>9. CASE RecvError(e) \/ Drained(e)
  BY <1>9 DEF RecvError, Drained, engineVars, history, LTyped, EngineTyped, StreamTyped
<1>10. CASE Ingest(e)
  <2>1. Tail(todo[e]) \in Seq(Events)
    BY <1>1, <1>10, HeadIsBatch DEF Ingest
  <2>2. EngineTyped'
    BY <1>10 DEF Ingest, engineVars, LTyped, EngineTyped
  <2>3. StreamTyped'
    BY <1>10, <2>1 DEF Ingest, history, LTyped, StreamTyped
  <2>4. QED
    BY <2>2, <2>3 DEF LTyped
<1>11. CASE Unregister(e)
  <2>1. EngineTyped'
    BY <1>11 DEF Unregister, Fault, FaultKinds, engineVars, LTyped, EngineTyped
  <2>2. StreamTyped'
    BY <1>11 DEF Unregister, history, LTyped, StreamTyped
  <2>3. QED
    BY <2>1, <2>2 DEF LTyped
<1>12. CASE Register(e)
  <2>1. EngineTyped'
    BY <1>12 DEF Register, engineVars, LTyped, EngineTyped
  <2>2. StreamTyped'
    BY <1>12 DEF Register, LTyped, StreamTyped
  <2>3. QED
    BY <2>1, <2>2 DEF LTyped
<1>13. QED
  BY <1>2, <1>3, <1>4, <1>5, <1>6, <1>7, <1>8, <1>9, <1>10, <1>11, <1>12 DEF RecvLoop, ApplyLoop

LEMMA LInitTyped == LInit => LTyped
BY DEF LInit, LTyped, EngineTyped, StreamTyped

LEMMA LNextTyped == ASSUME LTyped, [LNext]_lvars PROVE LTyped'
<1>1. CASE IndexerRestart
  BY <1>1 DEF IndexerRestart, Fault, FaultKinds, engineVars, LTyped, EngineTyped, StreamTyped
<1>2. CASE ProfileChange
  <2>1. resolves' \in BOOLEAN /\ happened' \subseteq FaultKinds
    BY <1>2 DEF ProfileChange, Fault, FaultKinds, LTyped, EngineTyped, StreamTyped
  <2>2. QED
    BY <1>2, <2>1 DEF ProfileChange, engineVars, streamVars, history, LTyped, EngineTyped, StreamTyped
<1>3. CASE UNCHANGED lvars
  BY <1>3 DEF lvars, engineVars, streamVars, history, LTyped, EngineTyped, StreamTyped
<1>4. QED
  BY <1>1, <1>2, <1>3, EngineActsTyped, LoopsTyped DEF LNext

-----------------------------------------------------------------------------
(***************************************************************************)
(* Loss is told.  As long as a gap is not counted the numbers ingested are *)
(* consecutive and end with the last one tracked, and as long as no batch  *)
(* failed to decode nothing was handled after it.                          *)
(***************************************************************************)

Unbroken(e) ==
    /\ lastSeq[e] = NoSeq => ingested[e] = {}
    /\ lastSeq[e] # NoSeq /\ gaps[e] = 0 => \E first \in 0..lastSeq[e] : ingested[e] = first..lastSeq[e]
    /\ decodeErrors[e] = 0 => heard[e] = lastSeq[e]

NumbersInv ==
    /\ resolves = FALSE => "profileGone" \in happened
    /\ happened \cap {"profileGone", "engineRestarts"} = {} => \A e \in Engines : Unbroken(e)

\* A batch that decodes extends the run of numbers, repeats one of them, or is
\* counted as a gap; one that does not decode is counted too.
LEMMA TakeBatchUnbroken ==
    ASSUME LTyped, NEW e \in Engines, NEW msg \in Batches, TakeBatch(e, msg),
           resolves = TRUE, \A x \in Engines : Unbroken(x)
    PROVE  \A x \in Engines : Unbroken(x)'
<1> DEFINE seq == msg.seq
           last == lastSeq[e]
<1>1. /\ seq \in Nat /\ heard[e] \in Nat \cup {NoSeq} /\ last \in Nat \cup {NoSeq}
      /\ gaps[e] \in Nat /\ decodeErrors[e] \in Nat /\ NoSeq = -1
  BY DEF Batches, LTyped, StreamTyped, NoSeq
<1>2. \A x \in Engines \ {e} :
         /\ lastSeq'[x] = lastSeq[x] /\ gaps'[x] = gaps[x]
         /\ decodeErrors'[x] = decodeErrors[x]
         /\ ingested'[x] = ingested[x] /\ heard'[x] = heard[x]
  <2>1. /\ \/ lastSeq' = [lastSeq EXCEPT ![e] = seq]
           \/ lastSeq' = lastSeq
        /\ \/ gaps' = [gaps EXCEPT ![e] = @ + 1]
           \/ gaps' = gaps
        /\ \/ decodeErrors' = [decodeErrors EXCEPT ![e] = @ + 1]
           \/ decodeErrors' = decodeErrors
        /\ \/ ingested' = [ingested EXCEPT ![e] = @ \cup {seq}]
           \/ ingested' = ingested
        /\ heard' = [heard EXCEPT ![e] = Max({@, seq})]
    BY Zenon DEF TakeBatch, TrackSeq
  <2>2. QED
    BY <2>1 DEF LTyped, StreamTyped
<1> SUFFICES Unbroken(e)'
  BY <1>2 DEF Unbroken
<1>3. heard'[e] = IF heard[e] >= seq THEN heard[e] ELSE seq
  <2>1. heard'[e] = Max({heard[e], seq})
    BY DEF TakeBatch, LTyped, StreamTyped
  <2>2. QED
    BY <1>1, <2>1, MaxOfTwo
<1>4. Unbroken(e)
  OBVIOUS
<1>5. CASE msg.ok = TRUE
  <2>1. /\ lastSeq'[e] = IF last = NoSeq \/ seq > last THEN seq ELSE last
        /\ gaps'[e] = IF last # NoSeq /\ seq > last + 1 THEN gaps[e] + 1 ELSE gaps[e]
        /\ decodeErrors'[e] = decodeErrors[e]
    <3>1. TrackSeq(e, seq) /\ UNCHANGED decodeErrors
      BY <1>5, Zenon DEF TakeBatch
    <3>2. QED
      BY <3>1 DEF TrackSeq, Jumps, LTyped, StreamTyped
  <2>2. ingested'[e] = IF seq > last THEN ingested[e] \cup {seq} ELSE ingested[e]
    <3>1. ingested' = IF seq > last THEN [ingested EXCEPT ![e] = @ \cup {seq}] ELSE ingested
      BY <1>5, Zenon DEF TakeBatch
    <3>2. QED
      BY <3>1 DEF LTyped, StreamTyped
  <2>3. decodeErrors'[e] = 0 => heard[e] = last
    BY <1>4, <2>1 DEF Unbroken
  <2> HIDE DEF seq, last
  <2>4. decodeErrors'[e] = 0 => heard'[e] = lastSeq'[e]
    BY <1>1, <1>3, <2>1, <2>3
  <2>5. CASE last = NoSeq
    <3>1. lastSeq'[e] = seq /\ ingested'[e] = {seq}
      BY <1>1, <1>4, <2>1, <2>2, <2>5 DEF Unbroken, last
    <3>2. {seq} = seq..seq /\ seq \in 0..seq
      BY <1>1
    <3>3. QED
      BY <1>1, <2>4, <3>1, <3>2 DEF Unbroken
  <2>6. CASE last # NoSeq /\ seq = last + 1
    <3>1. lastSeq'[e] = seq /\ gaps'[e] = gaps[e] /\ ingested'[e] = ingested[e] \cup {seq}
      BY <1>1, <2>1, <2>2, <2>6
    <3>2. ASSUME gaps'[e] = 0
          PROVE  \E first \in 0..seq : ingested'[e] = first..seq
      <4>1. PICK first \in 0..last : ingested[e] = first..last
        BY <1>4, <2>6, <3>1, <3>2 DEF Unbroken, last
      <4>2. first \in 0..seq /\ (first..last) \cup {seq} = first..seq
        BY <1>1, <2>6, <4>1
      <4>3. QED
        BY <3>1, <4>1, <4>2
    <3>3. QED
      BY <1>1, <2>4, <3>1, <3>2 DEF Unbroken
  <2>7. CASE last # NoSeq /\ seq > last + 1
    <3>1. lastSeq'[e] = seq /\ gaps'[e] # 0
      BY <1>1, <2>1, <2>7
    <3>2. QED
      BY <1>1, <2>4, <3>1 DEF Unbroken
  <2>8. CASE last # NoSeq /\ seq <= last
    <3>1. lastSeq'[e] = last /\ gaps'[e] = gaps[e] /\ ingested'[e] = ingested[e]
      BY <1>1, <2>1, <2>2, <2>8
    <3>2. QED
      BY <1>1, <1>4, <2>4, <3>1 DEF Unbroken, last
  <2>9. QED
    BY <1>1, <2>5, <2>6, <2>7, <2>8 DEF seq, last
<1>6. CASE msg.ok = FALSE
  <2>1. /\ lastSeq' = lastSeq /\ gaps' = gaps /\ ingested' = ingested
        /\ decodeErrors' = [decodeErrors EXCEPT ![e] = @ + 1]
    BY <1>6, Zenon DEF TakeBatch
  <2>2. decodeErrors'[e] # 0
    BY <1>1, <2>1 DEF LTyped, StreamTyped
  <2>3. QED
    BY <1>4, <2>1, <2>2 DEF Unbroken
<1>7. QED
  BY <1>5, <1>6 DEF Batches

\* Most steps leave the numbers alone.
Quiet == UNCHANGED <<lastSeq, gaps, decodeErrors, resolves, history>> /\ happened \subseteq happened'

LEMMA QuietKeepsNumbers == ASSUME NumbersInv, Quiet PROVE NumbersInv'
BY DEF NumbersInv, Quiet, Unbroken, history

LEMMA PublishIsQuiet ==
    ASSUME NEW e, NEW events, NEW after, Publish(e, events, after)
    PROVE  Quiet
<1>1. UNCHANGED happened \/ Fault("malformed") \/ Fault("dropped")
  BY Zenon DEF Publish
<1>2. UNCHANGED <<lastSeq, gaps, decodeErrors, resolves, history>>
  BY DEF Publish, streamVars
<1>3. QED
  BY <1>1, <1>2 DEF Quiet, Fault

\* The batches of an engine that restarted are numbered anew: the exception.
LEMMA EngineActsKeepNumbers ==
    ASSUME LTyped, NumbersInv, NEW e \in Engines, EngineActs(e)
    PROVE  NumbersInv'
<1>1. CASE EngineRestart(e)
  BY <1>1 DEF EngineRestart, Fault, NumbersInv
<1>2. CASE ~EngineRestart(e)
  <2>1. PICK events, after : Publish(e, events, after)
    BY <1>2, Zenon DEF EngineActs, EngineStore, EngineOffload, EngineEvict, EngineReplace, EngineClear
  <2>2. QED
    BY <2>1, PublishIsQuiet, QuietKeepsNumbers
<1>3. QED
  BY <1>1, <1>2

LEMMA TakeBatchKeepsNumbers ==
    ASSUME LTyped, NumbersInv, NEW e \in Engines, NEW msg \in Batches, TakeBatch(e, msg),
           UNCHANGED <<resolves, happened>>
    PROVE  NumbersInv'
<1>1. resolves \in BOOLEAN
  BY DEF LTyped, StreamTyped
<1>2. SUFFICES ASSUME happened \cap {"profileGone", "engineRestarts"} = {}
               PROVE  \A x \in Engines : Unbroken(x)'
  BY DEF NumbersInv
<1>3. resolves = TRUE /\ \A x \in Engines : Unbroken(x)
  BY <1>1, <1>2 DEF NumbersInv
<1>4. QED
  BY <1>3, TakeBatchUnbroken

LEMMA LNextKeepsNumbers == ASSUME LTyped, NumbersInv, [LNext]_lvars PROVE NumbersInv'
<1>1. ASSUME NEW e \in Engines, EngineActs(e) PROVE NumbersInv'
  BY <1>1, EngineActsKeepNumbers
<1>2. ASSUME NEW e \in Engines, ConnLost(e) PROVE NumbersInv'
  BY <1>2, QuietKeepsNumbers DEF ConnLost, Fault, Quiet, streamVars
<1>3. ASSUME NEW e \in Engines, ReplayRecv(e) PROVE NumbersInv'
  <2>1. Head(replayed[e]) \in Batches
    BY <1>3, HeadIsBatch DEF ReplayRecv, LTyped, StreamTyped
  <2>2. QED
    BY <1>3, <2>1, TakeBatchKeepsNumbers DEF ReplayRecv
<1>4. ASSUME NEW e \in Engines, HandleFrames(e) PROVE NumbersInv'
  <2>1. Head(queue[e]) \in Batches
    BY <1>4, HeadIsBatch DEF HandleFrames, LTyped, StreamTyped
  <2>2. QED
    BY <1>4, <2>1, TakeBatchKeepsNumbers DEF HandleFrames
<1>5. ASSUME NEW e \in Engines, ReplayOver(e) PROVE NumbersInv'
  BY <1>5, QuietKeepsNumbers DEF ReplayOver, Fault, Quiet
<1>6. ASSUME NEW e \in Engines, Unregister(e) PROVE NumbersInv'
  BY <1>6, QuietKeepsNumbers DEF Unregister, Fault, Quiet
<1>7. ASSUME NEW e \in Engines,
             Dial(e) \/ RequestReplay(e) \/ Recv(e) \/ RecvError(e) \/ Drained(e) \/ Ingest(e)
      PROVE  NumbersInv'
  BY <1>7, QuietKeepsNumbers DEF Dial, RequestReplay, Recv, RecvError, Drained, Ingest, Quiet
<1>8. ASSUME NEW e \in Engines, Register(e) PROVE NumbersInv'
  BY <1>8 DEF Register, NumbersInv, Unbroken, LTyped, StreamTyped
<1>9. CASE IndexerRestart
  BY <1>9 DEF IndexerRestart, Fault, NumbersInv, Unbroken
<1>10. CASE ProfileChange
  BY <1>10 DEF ProfileChange, Fault, NumbersInv, Unbroken, streamVars, history, LTyped, StreamTyped
<1>11. CASE UNCHANGED lvars
  BY <1>11, QuietKeepsNumbers DEF lvars, streamVars, Quiet
<1>12. QED
  BY <1>1, <1>2, <1>3, <1>4, <1>5, <1>6, <1>7, <1>8, <1>9, <1>10, <1>11 DEF LNext, RecvLoop, ApplyLoop

LEMMA NumbersTell == ASSUME LTyped, NumbersInv PROVE LossIsTold
<1> SUFFICES ASSUME happened \cap {"profileGone", "engineRestarts"} = {}, NEW e \in Engines
             PROVE  NoGapHidden(e) /\ UpMissesNothing(e)
  BY DEF LossIsTold
<1>1. Unbroken(e)
  BY DEF NumbersInv
<1>2. NoGapHidden(e)
  BY <1>1 DEF NoGapHidden, StreamRow, Unbroken
<1>3. StreamRow(e).status \in {"idle", "up"} => decodeErrors[e] = 0 /\ gaps[e] = 0
  <2>1. decodeErrors[e] \in Nat /\ gaps[e] \in Nat
    BY DEF LTyped, StreamTyped
  <2>2. QED
    BY <2>1 DEF StreamRow, StreamStatus
<1>4. UpMissesNothing(e)
  BY <1>1, <1>3 DEF UpMissesNothing, Unbroken
<1>5. QED
  BY <1>2, <1>4

\* Across replays, live batches, reconnections and batches that do not decode
\* (trackSeq and handleFrames, listener.go:285-306, 380-392): a listener whose row on
\* the streams page shows no gap has ingested an unbroken run of batches up to
\* the last one it tracked, and one that is up has missed nothing it handled.
THEOREM LossIsToldAlways == LSpec => [](LTyped /\ LossIsTold)
<1>1. LInit => NumbersInv
  BY DEF LInit, NumbersInv, Unbroken
<1>2. QED
  BY <1>1, LInitTyped, LNextTyped, LNextKeepsNumbers, NumbersTell, PTL DEF LSpec
-----------------------------------------------------------------------------
(***************************************************************************)
(* The index behind the listeners.  Events carry lists of a special form,  *)
(* which makes the bridge faithful: a key of an engine leads to the block  *)
(* it names, a block held for an engine is bridged by its own key, and     *)
(* neither a bridge nor a listing outlives the holding.                    *)
(***************************************************************************)

\* The blocks of a chain after the first n, and their keys in an engine.
Links(chain, n) == [i \in 1..(Len(chain) - n) |-> Prefix(chain, n + i)]
LinkKeys(chain, n) == [i \in 1..(Len(chain) - n) |-> Key(Prefix(chain, n + i), FALSE)]

Faithful == \A b \in DOMAIN bridge : bridge[b] \in Blocks /\ b[2] = Key(bridge[b], FALSE)

HeldIsBridged ==
    \A rk \in RequestKeys : \A r \in Holders(rk) :
        rk \in Blocks /\ <<r.engineID, Key(rk, FALSE)>> \in DOMAIN bridge

IndexFits == IndexInv /\ Faithful /\ HeldIsBridged /\ BridgeIsHeld /\ ListedIsHeld

LEMMA KeyInjective ==
    ASSUME NEW a, NEW b, NEW x, NEW y, Key(a, x) = Key(b, y)
    PROVE  a = b /\ x = y
BY DEF Key

\* A key leads to its own block.
LEMMA BridgeOfKey ==
    ASSUME Faithful, NEW e, NEW chain, NEW lora, Bridged(e, Key(chain, lora))
    PROVE  bridge[<<e, Key(chain, lora)>>] = chain /\ chain \in Blocks /\ lora = FALSE
<1> DEFINE b == <<e, Key(chain, lora)>>
<1>1. bridge[b] \in Blocks /\ b[2] = Key(bridge[b], FALSE)
  BY DEF Faithful, Bridged
<1>2. Key(chain, lora) = Key(bridge[b], FALSE)
  BY <1>1
<1> HIDE DEF b
<1>3. bridge[b] = chain /\ lora = FALSE
  BY <1>2 DEF Key
<1>4. QED
  BY <1>1, <1>3 DEF b

\* The links of a chain are blocks, all different, and as many as an event may
\* carry.
LEMMA LinksAreAChain ==
    ASSUME NEW chain \in Blocks, NEW n \in 0..(Len(chain) - 1)
    PROVE  /\ Links(chain, n) \in Chains
           /\ LinkKeys(chain, n) \in Lists(EngineKeys)
           /\ Elements(Links(chain, n)) \in SUBSET Blocks
           /\ Len(Links(chain, n)) = Len(chain) - n /\ Len(LinkKeys(chain, n)) = Len(chain) - n
           /\ Len(chain) - n \in Nat \ {0}
<1> DEFINE len == Len(chain) - n
<1>1. /\ chain \in Seq(Chunks) /\ Len(chain) \in Nat /\ Len(chain) <= MaxList /\ MaxList \in Nat
  <2>1. MaxList \in Nat
    BY ConstantsAssumption DEF ConstantsAssumption
  <2>2. chain \in Seq(Chunks)
    BY ListenerConstantsAssumption
  <2>3. Len(chain) <= MaxList
    BY ListenerConstantsAssumption
  <2>4. QED
    BY <2>1, <2>2, <2>3
<1>2. len \in Nat \ {0} /\ len \in 0..MaxList
  BY <1>1
<1>3. ASSUME NEW i \in 1..len
      PROVE  /\ n + i \in 1..Len(chain)
             /\ Prefix(chain, n + i) \in Blocks /\ Prefix(chain, n + i) \in RequestKeys
             /\ Key(Prefix(chain, n + i), FALSE) \in EngineKeys
             /\ Len(Prefix(chain, n + i)) = n + i
  <2>1. n + i \in 1..Len(chain)
    BY <1>1
  <2>2. Prefix(chain, n + i) \in Blocks
    BY <2>1, ListenerConstantsAssumption
  <2>3. Len(Prefix(chain, n + i)) = n + i
    BY <1>1, <2>1 DEF Prefix
  <2>4. QED
    BY <2>1, <2>2, <2>3, ListenerConstantsAssumption
<1> HIDE DEF len
<1>4. Links(chain, n) = [i \in 1..len |-> Prefix(chain, n + i)]
      /\ LinkKeys(chain, n) = [i \in 1..len |-> Key(Prefix(chain, n + i), FALSE)]
  BY DEF Links, LinkKeys, len
<1>5. Links(chain, n) \in [1..len -> RequestKeys] /\ LinkKeys(chain, n) \in [1..len -> EngineKeys]
  BY <1>3, <1>4
<1>6. Links(chain, n) \in Lists(RequestKeys) /\ LinkKeys(chain, n) \in Lists(EngineKeys)
  BY <1>2, <1>5 DEF Lists
<1>7. ASSUME NEW i \in 1..len, NEW j \in 1..len, Links(chain, n)[i] = Links(chain, n)[j]
      PROVE  i = j
  <2>1. Len(Prefix(chain, n + i)) = Len(Prefix(chain, n + j))
    BY <1>4, <1>7
  <2>2. n + i = n + j
    BY <1>3, <2>1
  <2>3. QED
    BY <1>1, <1>2, <2>2
<1>8. Links(chain, n) \in Chains
  BY <1>4, <1>6, <1>7 DEF Chains
<1>9. Elements(Links(chain, n)) \in SUBSET Blocks
  BY <1>3, <1>4 DEF Elements
<1>10. Len(Links(chain, n)) = len /\ Len(LinkKeys(chain, n)) = len
  BY <1>2, <1>5
<1>11. QED
  BY <1>2, <1>6, <1>8, <1>9, <1>10 DEF len

\* An event that stores blocks with their tokens names the links of its chain,
\* whether it starts at the seed or continues a bridged parent.
LEMMA RequestKeysAreLinks ==
    ASSUME Faithful, NEW e \in Engines, NEW chain \in Blocks, NEW n \in 0..(Len(chain) - 1),
           ParentResolves(e, Stored(chain, FALSE, n, "gpu"))
    PROVE  /\ RequestKeysForEvent(e, Stored(chain, FALSE, n, "gpu")) = Links(chain, n)
           /\ Stored(chain, FALSE, n, "gpu").tokens # << >>
<1> DEFINE ev == Stored(chain, FALSE, n, "gpu")
           tokens == SubSeq(chain, n + 1, Len(chain))
           parent == IF ev.parent = << >> THEN << >> ELSE bridge[<<e, Key(ev.parent, ev.lora)>>]
<1>1. /\ chain \in Seq(Chunks) /\ Len(chain) \in Nat
  BY ListenerConstantsAssumption
<1>2. ev.parent = Prefix(chain, n) /\ ev.tokens = tokens /\ ev.lora = FALSE
  BY DEF Stored
<1>3. parent = Prefix(chain, n)
  <2>1. CASE ev.parent = << >>
    BY <1>2, <2>1
  <2>2. CASE ev.parent # << >>
    <3>1. Bridged(e, Key(Prefix(chain, n), FALSE))
      BY <1>2, <2>2 DEF ParentResolves
    <3>2. bridge[<<e, Key(Prefix(chain, n), FALSE)>>] = Prefix(chain, n)
      BY <3>1, BridgeOfKey, Zenon
    <3>3. QED
      BY <1>2, <2>2, <3>2
  <2>3. QED
    BY <2>1, <2>2
<1>4. /\ tokens \in Seq(Chunks) /\ Len(tokens) = Len(chain) - n
      /\ \A i \in 1..(Len(chain) - n) : tokens[i] = chain[n + i]
      /\ DOMAIN tokens = 1..(Len(chain) - n)
  BY <1>1
<1>5. ASSUME NEW i \in 1..(Len(chain) - n)
      PROVE  Prefix(chain, n) \o Prefix(tokens, i) = Prefix(chain, n + i)
  <2>1. /\ Prefix(chain, n) \in Seq(Chunks) /\ Len(Prefix(chain, n)) = n
        /\ \A j \in 1..n : Prefix(chain, n)[j] = chain[j]
    BY <1>1 DEF Prefix
  <2>2. /\ Prefix(tokens, i) \in Seq(Chunks) /\ Len(Prefix(tokens, i)) = i
        /\ \A j \in 1..i : Prefix(tokens, i)[j] = tokens[j]
    BY <1>1, <1>4 DEF Prefix
  <2>3. /\ Prefix(chain, n + i) \in Seq(Chunks) /\ Len(Prefix(chain, n + i)) = n + i
        /\ \A j \in 1..(n + i) : Prefix(chain, n + i)[j] = chain[j]
    BY <1>1 DEF Prefix
  <2> DEFINE p == Prefix(chain, n)
             q == Prefix(tokens, i)
             w == Prefix(chain, n + i)
  <2> HIDE DEF tokens, p, q, w
  <2>4. /\ p \o q \in Seq(Chunks) /\ Len(p \o q) = n + i
        /\ \A j \in 1..(n + i) : (p \o q)[j] = IF j <= n THEN p[j] ELSE q[j - n]
    <3>1. p \in Seq(Chunks) /\ Len(p) = n /\ q \in Seq(Chunks) /\ Len(q) = i
      BY <2>1, <2>2 DEF p, q
    <3>2. QED
      BY <3>1, ConcatProperties
  <2>5. \A j \in 1..(n + i) : (p \o q)[j] = chain[j]
    <3> SUFFICES ASSUME NEW j \in 1..(n + i) PROVE (p \o q)[j] = chain[j]
      OBVIOUS
    <3>1. CASE j <= n
      <4>1. (p \o q)[j] = p[j]
        BY <2>4, <3>1
      <4>2. QED
        BY <2>1, <3>1, <4>1 DEF p
    <3>2. CASE j > n
      <4>1. j - n \in 1..i /\ j - n \in 1..(Len(chain) - n) /\ n + (j - n) = j
        BY <1>1, <3>2
      <4>2. (p \o q)[j] = q[j - n]
        BY <1>1, <2>4, <3>2
      <4>3. q[j - n] = tokens[j - n] /\ tokens[j - n] = chain[n + (j - n)]
        BY <1>4, <2>2, <4>1 DEF q
      <4>4. QED
        BY <4>1, <4>2, <4>3
    <3>3. j <= n \/ j > n
      BY <1>1
    <3>4. QED
      BY <3>1, <3>2, <3>3
  <2>6. w \in Seq(Chunks) /\ Len(w) = n + i /\ \A j \in 1..(n + i) : w[j] = chain[j]
    BY <2>3 DEF w
  <2>7. p \o q = w
    BY <1>1, <2>4, <2>5, <2>6, SeqEqual
  <2>8. QED
    BY <2>7 DEF p, q, w
<1> HIDE DEF tokens, parent
<1>6. tokens # << >>
  BY <1>1, <1>4, EmptySeq
<1>7. RequestKeysForEvent(e, ev) = [i \in DOMAIN tokens |-> parent \o Prefix(tokens, i)]
  BY <1>2 DEF RequestKeysForEvent, parent
<1>8. QED
  BY <1>2, <1>3, <1>4, <1>5, <1>6, <1>7 DEF Links

LEMMA ElementsOfOne == ASSUME NEW k PROVE Elements(<<k>>) = {k}
BY DEF Elements

\* The list of an event with one key.
LEMMA OneKeyList ==
    ASSUME NEW c \in Blocks
    PROVE  <<Key(c, FALSE)>> \in Lists(EngineKeys)
<1>1. Key(c, FALSE) \in EngineKeys /\ Len(c) <= MaxList /\ c \in Seq(Chunks) /\ c # << >>
  BY ListenerConstantsAssumption
<1>2. Len(c) \in Nat \ {0}
  BY <1>1, EmptySeq
<1>3. MaxList \in Nat
  BY ConstantsAssumption DEF ConstantsAssumption
<1>4. 1 \in 0..MaxList
  BY <1>1, <1>2, <1>3
<1>5. <<Key(c, FALSE)>> \in [1..1 -> EngineKeys]
  <2>1. \A k \in EngineKeys : <<k>> \in [1..1 -> EngineKeys]
    OBVIOUS
  <2>2. QED
    BY <1>1, <2>1
<1>6. QED
  BY <1>4, <1>5 DEF Lists

\* The operations of the index as the listeners use them.
StoresLinks(e) ==
    \E chain \in Blocks : \E n \in 0..(Len(chain) - 1) :
        StoreEvent(e, Rank, "gpu", LinkKeys(chain, n), Links(chain, n))
StoresKey(e) == \E c \in Blocks, t \in Tiers : StoreEventByEngineKeys(e, Rank, t, <<Key(c, FALSE)>>)
RemovesKey(e) == \E c \in Blocks, t \in Tiers : RemoveEvent(e, Rank, t, <<Key(c, FALSE)>>)

\* What ingesting an event does to the index, by the kind of the event.
LEMMA IngestApplies ==
    ASSUME LTyped, Faithful, NEW e \in Engines, Ingest(e)
    PROVE  \/ UNCHANGED vars
           \/ StoresLinks(e)
           \/ StoresKey(e)
           \/ RemovesKey(e)
           \/ ClearEngine(e, AllTiers)
<1> DEFINE ev == Head(todo[e])
<1>1. ev \in Events
  BY HeadIsBatch DEF Ingest, LTyped, StreamTyped
<1>2. SUFFICES ASSUME Indexable(e, ev), Apply(e, ev)
               PROVE  StoresLinks(e) \/ StoresKey(e) \/ RemovesKey(e) \/ ClearEngine(e, AllTiers)
  BY DEF Ingest
<1> HIDE DEF ev
<1>3. CASE ev \in PlainStores
  <2>1. PICK chain \in Blocks : ev \in {Stored(chain, FALSE, n, "gpu") : n \in 0..(Len(chain) - 1)}
    BY <1>3, Zenon DEF PlainStores
  <2>2. PICK n \in 0..(Len(chain) - 1) : ev = Stored(chain, FALSE, n, "gpu")
    BY <2>1, Zenon
  <2>3. /\ ev.kind = "BlockStored" /\ ev.tier = "gpu" /\ ev.keys = LinkKeys(chain, n)
    BY <2>2 DEF Stored, LinkKeys
  <2>4. ev.tokens # << >>
    <3>1. Len(ev.tokens) = Len(chain) - n /\ Len(chain) \in Nat
      BY <2>2, ListenerConstantsAssumption DEF Stored
    <3>2. QED
      BY <3>1, EmptySeq
  <2>5. ParentResolves(e, ev)
    BY <1>2, <2>3, <2>4 DEF Indexable
  <2>6. RequestKeysForEvent(e, ev) = Links(chain, n)
    BY <2>2, <2>5, RequestKeysAreLinks
  <2>7. StoreEvent(e, Rank, ev.tier, ev.keys, RequestKeysForEvent(e, ev))
    BY <1>2, <2>3, <2>4 DEF Apply
  <2>8. StoreEvent(e, Rank, "gpu", LinkKeys(chain, n), Links(chain, n))
    BY <2>3, <2>6, <2>7, Zenon
  <2>9. QED
    BY <2>8, Zenon DEF StoresLinks
<1>4. CASE ev \in LoraStores
  <2>1. PICK chain \in LoraBlocks : ev \in {Stored(chain, TRUE, n, "gpu") : n \in 0..(Len(chain) - 1)}
    BY <1>4, Zenon DEF LoraStores
  <2>2. PICK n \in 0..(Len(chain) - 1) : ev = Stored(chain, TRUE, n, "gpu")
    BY <2>1, Zenon
  <2>3. ev.kind = "BlockStored" /\ ev.lora = TRUE
    BY <2>2 DEF Stored
  <2>4. QED
    BY <1>2, <2>3 DEF Indexable
<1>5. CASE ev \in Offloads
  <2>1. PICK k \in PlainKeys, t \in Tiers : ev = StoredByKey(k, t)
    BY <1>5 DEF Offloads
  <2>2. PICK c \in Blocks : k = Key(c, FALSE)
    BY DEF PlainKeys
  <2>3. ev.kind = "BlockStored" /\ ev.tokens = << >> /\ ev.tier = t /\ ev.keys = <<Key(c, FALSE)>>
    BY <2>1, <2>2 DEF StoredByKey
  <2>4. StoreEventByEngineKeys(e, Rank, t, <<Key(c, FALSE)>>)
    BY <1>2, <2>3 DEF Apply
  <2>5. QED
    BY <2>4 DEF StoresKey
<1>6. CASE ev \in Removals
  <2>1. PICK k \in Keys, t \in Tiers : ev = RemovedEvent(k, t)
    BY <1>6 DEF Removals
  <2>2. ev.kind = "BlockRemoved" /\ ev.tier = t /\ ev.keys = <<k>>
    BY <2>1 DEF RemovedEvent
  <2>3. Removed(e, <<k>>) # {} /\ RemoveEvent(e, Rank, t, <<k>>)
    BY <1>2, <2>2 DEF Indexable, Apply
  <2>4. Bridged(e, k)
    <3>1. PICK x \in Elements(<<k>>) : Bridged(e, x)
      BY <2>3 DEF Removed
    <3>2. x = k
      BY ElementsOfOne
    <3>3. QED
      BY <3>1, <3>2
  <2>5. PICK c \in Blocks : k = Key(c, FALSE)
    <3> DEFINE b == <<e, k>>
    <3>1. b \in DOMAIN bridge /\ b[2] = k
      BY <2>4 DEF Bridged
    <3> HIDE DEF b
    <3>2. bridge[b] \in Blocks /\ k = Key(bridge[b], FALSE)
      BY <3>1 DEF Faithful
    <3>3. QED
      BY <3>2, Zenon
  <2>6. QED
    BY <2>3, <2>5 DEF RemovesKey
<1>7. CASE ev = Cleared
  BY <1>2, <1>7 DEF Cleared, Apply
<1>8. QED
  BY <1>1, <1>3, <1>4, <1>5, <1>6, <1>7 DEF Events

\* They are steps of the index.
LEMMA IngestIsNext ==
    ASSUME NEW e \in Engines,
           StoresLinks(e) \/ StoresKey(e) \/ RemovesKey(e) \/ ClearEngine(e, AllTiers)
    PROVE  Next
<1>1. Rank \in Ranks /\ "gpu" \in Tiers
  BY ListenerConstantsAssumption DEF Rank
<1>2. CASE StoresLinks(e)
  <2>1. PICK chain \in Blocks : \E n \in 0..(Len(chain) - 1) :
            StoreEvent(e, Rank, "gpu", LinkKeys(chain, n), Links(chain, n))
    BY <1>2 DEF StoresLinks
  <2>2. PICK n \in 0..(Len(chain) - 1) : StoreEvent(e, Rank, "gpu", LinkKeys(chain, n), Links(chain, n))
    BY <2>1
  <2>3. Links(chain, n) \in Chains /\ LinkKeys(chain, n) \in Lists(EngineKeys)
    BY LinksAreAChain
  <2>4. StoreStep(e, Rank, "gpu")
    BY <2>2, <2>3, Zenon DEF StoreStep
  <2>5. QED
    BY <1>1, <2>4, Zenon DEF Next, EngineStep
<1>3. CASE StoresKey(e)
  <2>1. PICK c \in Blocks, t \in Tiers : StoreEventByEngineKeys(e, Rank, t, <<Key(c, FALSE)>>)
    BY <1>3 DEF StoresKey
  <2>2. StoreStep(e, Rank, t)
    BY <2>1, OneKeyList, Zenon DEF StoreStep
  <2>3. QED
    BY <1>1, <2>2, Zenon DEF Next, EngineStep
<1>4. CASE RemovesKey(e)
  <2>1. PICK c \in Blocks, t \in Tiers : RemoveEvent(e, Rank, t, <<Key(c, FALSE)>>)
    BY <1>4 DEF RemovesKey
  <2>2. RemoveStep(e, Rank, t)
    BY <2>1, OneKeyList, Zenon DEF RemoveStep
  <2>3. QED
    BY <1>1, <2>2, Zenon DEF Next, EngineStep
<1>5. CASE ClearEngine(e, AllTiers)
  BY <1>5 DEF Next, EngineStep
<1>6. QED
  BY <1>2, <1>3, <1>4, <1>5

\* The lists are of one length, so the alignment pairs each block with its key.
LEMMA LinksAligned ==
    ASSUME NEW chain \in Blocks, NEW n \in 0..(Len(chain) - 1)
    PROVE  LET pairs == TailAligned(LinkKeys(chain, n), Links(chain, n)) IN
           /\ \A ek \in DOMAIN pairs : pairs[ek] \in Elements(Links(chain, n)) /\ ek = Key(pairs[ek], FALSE)
           /\ \A rk \in Elements(Links(chain, n)) : Key(rk, FALSE) \in DOMAIN pairs
<1> DEFINE eks == LinkKeys(chain, n)
           rks == Links(chain, n)
           len == Len(chain) - n
           nEng == Len(eks)
           nReq == Len(rks)
           k == IF nReq < nEng THEN nReq ELSE nEng
           at(ek) == {i \in 1..k : eks[nEng - k + i] = ek}
           last(ek) == CHOOSE i \in at(ek) : \A j \in at(ek) : j <= i
           D == {eks[nEng - k + i] : i \in 1..k}
           pairs == TailAligned(eks, rks)
<1>1. len \in Nat /\ nEng = len /\ nReq = len /\ k = len
  BY LinksAreAChain
<1>2. \A i \in 1..len : eks[i] = Key(rks[i], FALSE)
  BY DEF Links, LinkKeys
<1>3. Elements(rks) = {rks[i] : i \in 1..len}
  BY DEF Elements, Links
<1>4. pairs = [ek \in D |-> rks[nReq - k + last(ek)]]
  BY DEF TailAligned
<1>5. ASSUME NEW ek \in D
      PROVE  last(ek) \in 1..k /\ eks[nEng - k + last(ek)] = ek
  <2>1. at(ek) \in SUBSET (1..k) /\ at(ek) # {}
    OBVIOUS
  <2>2. \E i \in at(ek) : \A j \in at(ek) : j <= i
    BY <1>1, <2>1, LastPosition
  <2>3. last(ek) \in at(ek)
    BY <2>2
  <2>4. QED
    BY <2>3
<1> HIDE DEF len, eks, rks, nEng, nReq, k, at, last, pairs
<1>6. \A i \in 1..k : nEng - k + i = i /\ nReq - k + i = i
  BY <1>1
<1>7. \A i \in 1..len : eks[i] \in D
  BY <1>1, <1>6
<1> HIDE DEF D
<1>8. ASSUME NEW ek \in DOMAIN pairs
      PROVE  \E i \in 1..len : eks[i] = ek /\ pairs[ek] = rks[i]
  <2>1. ek \in D /\ pairs[ek] = rks[nReq - k + last(ek)]
    BY <1>4
  <2>2. last(ek) \in 1..k /\ eks[nEng - k + last(ek)] = ek
    BY <1>5, <2>1
  <2>3. nEng - k + last(ek) = last(ek) /\ nReq - k + last(ek) = last(ek)
    BY <1>6, <2>2
  <2>4. QED
    BY <1>1, <2>1, <2>2, <2>3
<1>9. \A ek \in DOMAIN pairs : pairs[ek] \in Elements(rks) /\ ek = Key(pairs[ek], FALSE)
  BY <1>2, <1>3, <1>8
<1>10. \A rk \in Elements(rks) : Key(rk, FALSE) \in DOMAIN pairs
  BY <1>2, <1>3, <1>4, <1>7
<1>11. QED
  BY <1>9, <1>10 DEF pairs, eks, rks

\* Blocks stored for an engine are bridged, held and listed.
LEMMA StoreFits ==
    ASSUME IndexFits, IndexInv',
           NEW r \in Resident, NEW rks \in SUBSET Blocks, StoreRequestKeys(r, rks),
           DOMAIN bridge \subseteq DOMAIN bridge',
           Faithful',
           \A rk \in rks : <<r.engineID, Key(rk, FALSE)>> \in DOMAIN bridge',
           \A b \in DOMAIN bridge' \ DOMAIN bridge : b[1] = r.engineID /\ bridge'[b] \in rks
    PROVE  IndexFits'
<1>1. ASSUME NEW rk
      PROVE  Holders(rk)' = IF rk \in rks THEN Holders(rk) \cup {r} ELSE Holders(rk)
  <2>1. CASE rk \in rks
    BY <2>1 DEF Holders, StoreRequestKeys
  <2>2. CASE rk \notin rks
    BY <2>2 DEF Holders, StoreRequestKeys
  <2>3. QED
    BY <2>1, <2>2
<1>2. \A b \in DOMAIN bridge : bridge'[b] = bridge[b]
  <2> SUFFICES ASSUME NEW b \in DOMAIN bridge PROVE bridge'[b] = bridge[b]
    OBVIOUS
  <2>1. b[2] = Key(bridge[b], FALSE) /\ b[2] = Key(bridge'[b], FALSE)
    BY DEF IndexFits, Faithful
  <2>2. QED
    BY <2>1 DEF Key
<1>3. HeldIsBridged'
  BY <1>1 DEF HeldIsBridged, IndexFits
<1>4. ASSUME NEW b \in DOMAIN bridge', NEW rk, rk = bridge'[b]
      PROVE  HasEngine(Holders(rk)', b[1])
  <2>1. CASE b \in DOMAIN bridge
    <3>1. HasEngine(Holders(rk), b[1])
      BY <1>2, <1>4, <2>1 DEF IndexFits, BridgeIsHeld
    <3>2. QED
      BY <1>1, <3>1 DEF HasEngine
  <2>2. CASE b \notin DOMAIN bridge
    BY <1>1, <1>4, <2>2 DEF HasEngine
  <2>3. QED
    BY <2>1, <2>2
<1>5. BridgeIsHeld'
  BY <1>4 DEF BridgeIsHeld, Holders
<1>6. ListedIsHeld'
  <2> SUFFICES ASSUME NEW e \in DOMAIN byEngine', NEW rk \in Blocks, rk \in byEngine'[e]
               PROVE  \E h \in Holders(rk)' : h.engineID = e
    BY DEF ListedIsHeld, HasEngine
  <2>1. CASE rk \in rks /\ e = r.engineID
    BY <1>1, <2>1
  <2>2. CASE ~(rk \in rks /\ e = r.engineID)
    <3>1. e \in DOMAIN byEngine /\ rk \in byEngine[e]
      BY <2>2 DEF StoreRequestKeys, Listed
    <3>2. PICK h \in Holders(rk) : h.engineID = e
      BY <3>1 DEF IndexFits, ListedIsHeld, HasEngine
    <3>3. QED
      BY <1>1, <3>2
  <2>3. QED
    BY <2>1, <2>2
<1>7. QED
  BY <1>3, <1>5, <1>6 DEF IndexFits

\* Blocks stored with their tokens.
LEMMA StoresLinksFits == ASSUME IndexFits, NEW e \in Engines, StoresLinks(e) PROVE IndexFits'
<1>1. PICK chain \in Blocks : \E n \in 0..(Len(chain) - 1) :
          StoreEvent(e, Rank, "gpu", LinkKeys(chain, n), Links(chain, n))
  BY DEF StoresLinks
<1>2. PICK n \in 0..(Len(chain) - 1) : StoreEvent(e, Rank, "gpu", LinkKeys(chain, n), Links(chain, n))
  BY <1>1
<1> DEFINE r == [engineID |-> e, dpRank |-> Rank, tier |-> "gpu"]
           rks == Elements(Links(chain, n))
           pairs == TailAligned(LinkKeys(chain, n), Links(chain, n))
<1>3. r \in Resident /\ r.engineID = e
  BY ListenerConstantsAssumption DEF Rank, Resident
<1>4. rks \in SUBSET Blocks /\ Links(chain, n) \in Chains /\ LinkKeys(chain, n) \in Lists(EngineKeys)
  BY LinksAreAChain
<1>5. /\ \A ek \in DOMAIN pairs : pairs[ek] \in rks /\ ek = Key(pairs[ek], FALSE)
      /\ \A rk \in rks : Key(rk, FALSE) \in DOMAIN pairs
  BY LinksAligned
<1>6. StoreRequestKeys(r, rks)
  BY <1>2 DEF StoreEvent
<1>7. /\ DOMAIN bridge' = DOMAIN bridge \cup ({e} \X DOMAIN pairs)
      /\ \A b \in DOMAIN bridge' :
            bridge'[b] = IF b[1] = e /\ b[2] \in DOMAIN pairs THEN pairs[b[2]] ELSE bridge[b]
  BY <1>2 DEF StoreEvent
<1>8. IndexInv'
  <2>1. Rank \in Ranks /\ "gpu" \in Tiers
    BY ListenerConstantsAssumption DEF Rank
  <2>2. QED
    BY <1>2, <1>4, <2>1, StoreEventKeepsInv DEF IndexFits
<1> HIDE DEF r, rks, pairs
<1>9. Faithful'
  <2> SUFFICES ASSUME NEW b \in DOMAIN bridge'
               PROVE  bridge'[b] \in Blocks /\ b[2] = Key(bridge'[b], FALSE)
    BY DEF Faithful
  <2>1. CASE b[1] = e /\ b[2] \in DOMAIN pairs
    BY <1>4, <1>5, <1>7, <2>1
  <2>2. CASE ~(b[1] = e /\ b[2] \in DOMAIN pairs)
    <3>1. b \in DOMAIN bridge
      BY <1>7, <2>2
    <3>2. QED
      BY <1>7, <2>2, <3>1 DEF IndexFits, Faithful
  <2>3. QED
    BY <2>1, <2>2
<1>10. \A rk \in rks : <<r.engineID, Key(rk, FALSE)>> \in DOMAIN bridge'
  BY <1>3, <1>5, <1>7
<1>11. \A b \in DOMAIN bridge' \ DOMAIN bridge : b[1] = r.engineID /\ bridge'[b] \in rks
  BY <1>3, <1>5, <1>7
<1>12. QED
  BY <1>3, <1>4, <1>6, <1>7, <1>8, <1>9, <1>10, <1>11, StoreFits

\* A block stored by its key.
LEMMA StoresKeyFits == ASSUME IndexFits, NEW e \in Engines, StoresKey(e) PROVE IndexFits'
<1>1. PICK c \in Blocks, t \in Tiers : StoreEventByEngineKeys(e, Rank, t, <<Key(c, FALSE)>>)
  BY DEF StoresKey
<1> DEFINE r == [engineID |-> e, dpRank |-> Rank, tier |-> t]
           k == Key(c, FALSE)
<1>2. r \in Resident /\ r.engineID = e
  BY ListenerConstantsAssumption DEF Rank, Resident
<1>3. Bridged(e, k)
  <2>1. CanResolve(e, <<k>>)
    BY <1>1 DEF StoreEventByEngineKeys
  <2> HIDE DEF k
  <2>2. QED
    BY <2>1 DEF CanResolve
<1>4. bridge[<<e, k>>] = c
  BY <1>3, BridgeOfKey DEF IndexFits
<1>5. StoreRequestKeys(r, {c}) /\ UNCHANGED bridge
  <2>1. {bridge[<<e, <<k>>[i]>>] : i \in DOMAIN <<k>>} = {c}
    <3> HIDE DEF k
    <3>1. DOMAIN <<k>> = {1} /\ <<k>>[1] = k
      OBVIOUS
    <3>2. \A i \in DOMAIN <<k>> : <<k>>[i] = k
      BY <3>1
    <3>3. QED
      BY <1>4, <3>1, <3>2
  <2>2. QED
    BY <1>1, <2>1 DEF StoreEventByEngineKeys
<1>6. IndexInv'
  <2>1. Rank \in Ranks
    BY ListenerConstantsAssumption DEF Rank
  <2>2. QED
    BY <1>1, <2>1, OneKeyList, StoreByEngineKeysKeepsInv DEF IndexFits
<1> HIDE DEF r
<1>7. Faithful'
  BY <1>5 DEF IndexFits, Faithful
<1>8. \A rk \in {c} : <<r.engineID, Key(rk, FALSE)>> \in DOMAIN bridge'
  BY <1>2, <1>3, <1>5 DEF Bridged
<1>9. {c} \in SUBSET Blocks /\ DOMAIN bridge \subseteq DOMAIN bridge' /\ DOMAIN bridge' \ DOMAIN bridge = {}
  BY <1>5
<1>10. \A b \in DOMAIN bridge' \ DOMAIN bridge : b[1] = r.engineID /\ bridge'[b] \in {c}
  BY <1>9
<1>11. QED
  BY <1>2, <1>5, <1>6, <1>7, <1>8, <1>9, <1>10, StoreFits

\* A removal drops the bridge of the block exactly when it was the last holding
\* of the engine.
LEMMA RemovesKeyFits == ASSUME IndexFits, NEW e \in Engines, RemovesKey(e) PROVE IndexFits'
<1>1. PICK c \in Blocks, t \in Tiers : RemoveEvent(e, Rank, t, <<Key(c, FALSE)>>)
  BY DEF RemovesKey
<1> DEFINE r == [engineID |-> e, dpRank |-> Rank, tier |-> t]
           k == Key(c, FALSE)
           left == Holders(c) \ {r}
<1>2. IndexInv'
  <2>1. Rank \in Ranks
    BY ListenerConstantsAssumption DEF Rank
  <2>2. QED
    BY <1>1, <2>1, OneKeyList, RemoveEventKeepsInv DEF IndexFits
<1>3. Removed(e, <<k>>) # {}
  BY <1>1 DEF RemoveEvent
<1>4. Bridged(e, k) /\ bridge[<<e, k>>] = c /\ Removed(e, <<k>>) = {c}
  <2>1. PICK key \in Elements(<<k>>) : Bridged(e, key)
    BY <1>3 DEF Removed
  <2>2. Elements(<<k>>) = {k} /\ Bridged(e, k)
    BY <2>1, ElementsOfOne
  <2>3. bridge[<<e, k>>] = c
    BY <2>2, BridgeOfKey DEF IndexFits
  <2>4. {x \in Elements(<<k>>) : Bridged(e, x)} = {k}
    BY <2>2
  <2> HIDE DEF k
  <2>5. Removed(e, <<k>>) = {bridge[<<e, ek>>] : ek \in {k}}
    BY <2>4 DEF Removed
  <2>6. QED
    BY <2>2, <2>3, <2>5
<1>5. ASSUME NEW rk
      PROVE  Holders(rk)' = IF rk = c THEN left ELSE Holders(rk)
  <2> DEFINE after(x) == IF x \in Removed(e, <<k>>) THEN Holders(x) \ {r} ELSE Holders(x)
  <2>1. byRequestKey' = [x \in {y \in DOMAIN byRequestKey : y \in Removed(e, <<k>>) => after(y) # {}} |-> after(x)]
    BY <1>1 DEF RemoveEvent
  <2>2. CASE rk = c
    BY <1>4, <2>1, <2>2 DEF Holders
  <2>3. CASE rk # c
    BY <1>4, <2>1, <2>3 DEF Holders
  <2>4. QED
    BY <2>2, <2>3
<1>6. c \in DOMAIN byRequestKey
  <2>1. HasEngine(Holders(bridge[<<e, k>>]), <<e, k>>[1])
    BY <1>4, Zenon DEF IndexFits, BridgeIsHeld, Bridged
  <2>2. QED
    BY <1>4, <2>1 DEF HasEngine, Holders
<1>7. DropsBridge(e, r, <<k>>, k) <=> ~HasEngine(left, e)
  <2>1. Holders(c) = byRequestKey[c]
    BY <1>6 DEF Holders
  <2>2. FirstOfItsBlock(e, <<k>>, k)
    <3> HIDE DEF k
    <3>1. 1 \in DOMAIN <<k>> /\ <<k>>[1] = k /\ 1..(1 - 1) = {}
      OBVIOUS
    <3>2. QED
      BY <3>1 DEF FirstOfItsBlock
  <2>3. k \in Elements(<<k>>)
    BY ElementsOfOne
  <2>4. left = {} => ~HasEngine(left, e)
    BY DEF HasEngine
  <2> HIDE DEF r, k
  <2>5. QED
    BY <1>4, <1>6, <2>1, <2>2, <2>3, <2>4 DEF DropsBridge
<1>8. \A ek : DropsBridge(e, r, <<k>>, ek) => ek = k
  BY ElementsOfOne DEF DropsBridge
<1>9. bridge' = [b \in {x \in DOMAIN bridge : ~(x[1] = e /\ DropsBridge(e, r, <<k>>, x[2]))} |-> bridge[b]]
  BY <1>1 DEF RemoveEvent
<1>10. byEngine' = [x \in DOMAIN byEngine |->
            IF x = e THEN {rk \in byEngine[e] : rk = c => HasEngine(left, e)} ELSE byEngine[x]]
  <2> DEFINE after(x) == IF x \in Removed(e, <<k>>) THEN Holders(x) \ {r} ELSE Holders(x)
  <2>1. byEngine' = [x \in DOMAIN byEngine |->
            IF x = e THEN {rk \in byEngine[e] : rk \in Removed(e, <<k>>) => HasEngine(after(rk), e)}
                     ELSE byEngine[x]]
    BY <1>1 DEF RemoveEvent
  <2>2. {rk \in byEngine[e] : rk \in Removed(e, <<k>>) => HasEngine(after(rk), e)}
        = {rk \in byEngine[e] : rk = c => HasEngine(left, e)}
    BY <1>4
  <2>3. QED
    BY <2>1, <2>2, Zenon
<1>11. r.engineID = e
  OBVIOUS
<1> HIDE DEF r, left
<1>12. ASSUME NEW x, NEW rk, x # e \/ rk # c, HasEngine(Holders(rk), x)
       PROVE  HasEngine(Holders(rk)', x)
  BY <1>5, <1>11, <1>12 DEF HasEngine, left
<1>13. /\ DOMAIN bridge' = {b \in DOMAIN bridge : ~HasEngine(left, e) => ~(b[1] = e /\ b[2] = k)}
       /\ \A b \in DOMAIN bridge' : bridge'[b] = bridge[b]
  <2>1. \A b \in DOMAIN bridge :
           (b[1] = e /\ DropsBridge(e, r, <<k>>, b[2])) <=> (~HasEngine(left, e) /\ b[1] = e /\ b[2] = k)
    BY <1>7, <1>8
  <2>2. QED
    BY <1>9, <2>1
<1> HIDE DEF k
<1>14. Faithful'
  BY <1>13 DEF IndexFits, Faithful
<1>15. HeldIsBridged'
  <2> SUFFICES ASSUME NEW rk \in RequestKeys, NEW h \in Holders(rk)'
               PROVE  rk \in Blocks /\ <<h.engineID, Key(rk, FALSE)>> \in DOMAIN bridge'
    BY DEF HeldIsBridged
  <2>1. h \in Holders(rk) /\ (rk = c => h \in left)
    BY <1>5 DEF left
  <2>2. rk \in Blocks /\ <<h.engineID, Key(rk, FALSE)>> \in DOMAIN bridge
    BY <2>1 DEF IndexFits, HeldIsBridged
  <2>3. Key(rk, FALSE) = k => rk = c
    BY KeyInjective DEF k
  <2>4. (h.engineID = e /\ Key(rk, FALSE) = k) => HasEngine(left, e)
    BY <2>1, <2>3 DEF HasEngine
  <2>5. QED
    BY <1>13, <2>2, <2>4
<1>16. ASSUME NEW b \in DOMAIN bridge', NEW rk, rk = bridge'[b]
       PROVE  HasEngine(Holders(rk)', b[1])
  <2>1. b \in DOMAIN bridge /\ bridge[b] = rk /\ b[2] = Key(rk, FALSE) /\ HasEngine(Holders(rk), b[1])
    BY <1>13, <1>16 DEF IndexFits, Faithful, BridgeIsHeld
  <2>2. CASE b[1] = e /\ rk = c
    <3>1. HasEngine(left, e)
      BY <1>13, <2>1, <2>2 DEF k
    <3>2. QED
      BY <1>5, <2>2, <3>1
  <2>3. CASE ~(b[1] = e /\ rk = c)
    BY <1>12, <2>1, <2>3
  <2>4. QED
    BY <2>2, <2>3
<1>17. BridgeIsHeld'
  BY <1>16 DEF BridgeIsHeld, Holders
<1>18. ListedIsHeld'
  <2> SUFFICES ASSUME NEW x \in DOMAIN byEngine', NEW rk \in Blocks, rk \in byEngine'[x]
               PROVE  HasEngine(Holders(rk)', x)
    BY DEF ListedIsHeld
  <2>1. x \in DOMAIN byEngine /\ rk \in byEngine[x] /\ (x = e /\ rk = c => HasEngine(left, e))
    BY <1>10
  <2>2. HasEngine(Holders(rk), x)
    BY <2>1 DEF IndexFits, ListedIsHeld
  <2>3. CASE x = e /\ rk = c
    BY <1>5, <2>1, <2>3
  <2>4. CASE ~(x = e /\ rk = c)
    BY <1>12, <2>2, <2>4
  <2>5. QED
    BY <2>3, <2>4
<1>19. QED
  BY <1>2, <1>14, <1>15, <1>17, <1>18 DEF IndexFits

\* A clear leaves what other engines hold, and their bridges and lists.
LEMMA ClearFits == ASSUME IndexFits, NEW e \in Engines, ClearEngine(e, AllTiers) PROVE IndexFits'
<1> DEFINE cleared(rk) == {r \in byRequestKey[rk] :
                              /\ rk \in byEngine[e]
                              /\ r.engineID = e
                              /\ AllTiers = AllTiers \/ r.tier = AllTiers}
           left(rk) == byRequestKey[rk] \ cleared(rk)
<1>1. IndexInv' /\ EngineGone(e)'
  BY ClearEngineKeepsInv DEF IndexFits
<1>2. byRequestKey' = [rk \in {k \in DOMAIN byRequestKey : k \in byEngine[e] => left(k) # {}} |-> left(rk)]
  BY DEF ClearEngine
<1>3. /\ bridge' = [b \in {x \in DOMAIN bridge : x[1] # e} |-> bridge[b]]
      /\ byEngine' = [x \in DOMAIN byEngine \ {e} |-> byEngine[x]]
  BY DEF ClearEngine
<1>4. ASSUME NEW rk, NEW h, h.engineID # e
      PROVE  h \in Holders(rk) => h \in Holders(rk)'
  <2> SUFFICES ASSUME h \in Holders(rk) PROVE h \in Holders(rk)'
    OBVIOUS
  <2>1. rk \in DOMAIN byRequestKey /\ h \in byRequestKey[rk]
    BY DEF Holders
  <2>2. h \in left(rk)
    BY <1>4, <2>1
  <2>3. QED
    BY <1>2, <2>1, <2>2 DEF Holders
<1>5. ASSUME NEW rk, NEW h \in Holders(rk)'
      PROVE  h \in Holders(rk) /\ h.engineID # e
  <2>1. rk \in DOMAIN byRequestKey' /\ h \in byRequestKey'[rk]
    BY <1>5 DEF Holders
  <2>2. h.engineID # e
    BY <1>1, <2>1 DEF EngineGone, HasEngine
  <2>3. h \in Holders(rk)
    BY <1>2, <2>1 DEF Holders
  <2>4. QED
    BY <2>2, <2>3
<1>6. ASSUME NEW x, x # e, NEW rk, HasEngine(Holders(rk), x)
      PROVE  HasEngine(Holders(rk)', x)
  BY <1>4, <1>6 DEF HasEngine
<1>7. Faithful'
  BY <1>3 DEF IndexFits, Faithful
<1>8. HeldIsBridged'
  BY <1>3, <1>5 DEF IndexFits, HeldIsBridged
<1>9. ASSUME NEW b \in DOMAIN bridge', NEW rk, rk = bridge'[b]
      PROVE  HasEngine(Holders(rk)', b[1])
  <2>1. b[1] # e /\ HasEngine(Holders(rk), b[1])
    BY <1>3, <1>9 DEF IndexFits, BridgeIsHeld
  <2>2. QED
    BY <1>6, <2>1
<1>10. BridgeIsHeld'
  BY <1>9 DEF BridgeIsHeld, Holders
<1>11. ListedIsHeld'
  <2> SUFFICES ASSUME NEW x \in DOMAIN byEngine', NEW rk \in Blocks, rk \in byEngine'[x]
               PROVE  HasEngine(Holders(rk)', x)
    BY DEF ListedIsHeld
  <2>1. x # e /\ HasEngine(Holders(rk), x)
    BY <1>3 DEF IndexFits, ListedIsHeld
  <2>2. QED
    BY <1>6, <2>1
<1>12. QED
  BY <1>1, <1>7, <1>8, <1>10, <1>11 DEF IndexFits

LEMMA StutterFits == ASSUME IndexFits, UNCHANGED vars PROVE IndexFits'
<1>1. IndexInv'
  BY NextKeepsInv DEF IndexFits
<1>2. Faithful' /\ HeldIsBridged' /\ BridgeIsHeld' /\ ListedIsHeld'
  BY DEF vars, IndexFits, Faithful, HeldIsBridged, BridgeIsHeld, ListedIsHeld, Holders
<1>3. QED
  BY <1>1, <1>2 DEF IndexFits

LEMMA EmptyIndexFits == Init => IndexFits
BY DEF Init, IndexFits, IndexInv, IndexConsistent, TypeOK, NoEmptyEntry, HeldIsListed, BridgedIsListed,
       Faithful, HeldIsBridged, BridgeIsHeld, ListedIsHeld, Holders

\* The index only changes when an event is ingested or the indexer restarts.
LEMMA LNextDrivesTheIndex ==
    ASSUME LTyped, IndexFits, [LNext]_lvars
    PROVE  IndexFits' /\ [Next \/ Init']_vars
<1>1. ASSUME UNCHANGED vars PROVE IndexFits' /\ [Next \/ Init']_vars
  BY <1>1, StutterFits
<1>2. ASSUME NEW e \in Engines, Ingest(e) PROVE IndexFits' /\ [Next \/ Init']_vars
  <2>1. CASE UNCHANGED vars
    BY <1>1, <2>1
  <2>2. CASE StoresLinks(e) \/ StoresKey(e) \/ RemovesKey(e) \/ ClearEngine(e, AllTiers)
    <3>1. Next
      BY <2>2, IngestIsNext
    <3>2. IndexFits'
      BY <2>2, StoresLinksFits, StoresKeyFits, RemovesKeyFits, ClearFits
    <3>3. QED
      BY <3>1, <3>2
  <2>3. QED
    BY <1>2, <2>1, <2>2, IngestApplies DEF IndexFits
<1>3. ASSUME NEW e \in Engines, EngineActs(e) PROVE UNCHANGED vars
  <2>1. CASE EngineRestart(e)
    BY <2>1 DEF EngineRestart
  <2>2. CASE ~EngineRestart(e)
    <3>1. PICK events, after : Publish(e, events, after)
      BY <1>3, <2>2, Zenon DEF EngineActs, EngineStore, EngineOffload, EngineEvict, EngineReplace,
         EngineClear
    <3>2. QED
      BY <3>1 DEF Publish
  <2>3. QED
    BY <2>1, <2>2
<1>4. ASSUME NEW e \in Engines,
             \/ ConnLost(e) \/ Dial(e) \/ RequestReplay(e) \/ ReplayRecv(e) \/ ReplayOver(e) \/ Recv(e)
             \/ RecvError(e) \/ Drained(e) \/ HandleFrames(e) \/ Unregister(e) \/ Register(e)
      PROVE  UNCHANGED vars
  BY <1>4 DEF ConnLost, Dial, RequestReplay, ReplayRecv, ReplayOver, Recv, RecvError, Drained,
     HandleFrames,
              Unregister, Register
<1>5. CASE IndexerRestart
  <2>1. Init'
    BY <1>5 DEF IndexerRestart, Init
  <2>2. IndexFits'
    BY <2>1, EmptyIndexFits, PTL
  <2>3. QED
    BY <2>1, <2>2
<1>6. CASE ProfileChange \/ UNCHANGED lvars
  BY <1>1, <1>6 DEF ProfileChange, lvars
<1>7. QED
  BY <1>1, <1>2, <1>3, <1>4, <1>5, <1>6 DEF LNext, RecvLoop, ApplyLoop

LEMMA FitsAgrees == ASSUME IndexFits PROVE BridgesAndHoldingsAgree
<1>1. ASSUME NEW e \in Engines, NEW p \in Blocks \X Tiers, p \in Indexed(e)
      PROVE  \E b \in DOMAIN bridge : b[1] = e /\ bridge[b] = p[1]
  <2> DEFINE r == [engineID |-> e, dpRank |-> Rank, tier |-> p[2]]
             b == <<e, Key(p[1], FALSE)>>
  <2>1. r \in Holders(p[1]) /\ r.engineID = e
    BY <1>1 DEF Indexed
  <2>2. p[1] \in RequestKeys
    BY ListenerConstantsAssumption
  <2> HIDE DEF r
  <2>3. b \in DOMAIN bridge
    BY <2>1, <2>2 DEF IndexFits, HeldIsBridged
  <2>4. bridge[b] = p[1]
    BY <2>3, BridgeOfKey DEF IndexFits, Bridged
  <2>5. QED
    BY <2>3, <2>4
<1>2. QED
  BY <1>1 DEF BridgesAndHoldingsAgree, HeldIsRemovable, IndexFits

\* Whatever the listeners ingest (ingest and requestKeysForEvent,
\* listener.go:408-508), the index is driven by its own operations with the
\* lists ResidencyIndex takes them to have, or starts anew.
THEOREM ListenersDriveTheIndex == LSpec => DrivesTheIndex
<1>1. LInit => Init
  BY DEF LInit
<1>2. QED
  BY <1>1, EmptyIndexFits, LInitTyped, LNextTyped, LNextDrivesTheIndex, PTL DEF LSpec, DrivesTheIndex

\* Hence what is proved of the index holds here, and more: a removal finds every
\* block that is held (HeldIsRemovable), and no bridge or listing outlives the
\* last holding of its engine.
THEOREM BridgesAgree == LSpec => [](IndexInv /\ BridgesAndHoldingsAgree)
<1>1. LInit => Init
  BY DEF LInit
<1>2. IndexFits => IndexInv /\ BridgesAndHoldingsAgree
  BY FitsAgrees DEF IndexFits
<1>3. QED
  BY <1>1, <1>2, EmptyIndexFits, LInitTyped, LNextTyped, LNextDrivesTheIndex, PTL DEF LSpec

-----------------------------------------------------------------------------
(***************************************************************************)
(* Caught up is exact.  The events an engine published, one after another, *)
(* tell a story: each changes the set of plain blocks the engine holds.    *)
(* The index follows the story from behind, and a replay takes it back to  *)
(* an earlier place; what it has wrong there is about to be told again.    *)
(***************************************************************************)

\* What can be said of an engine: that it holds a block in a tier.
Facts == Blocks \X Tiers

\* The blocks of a chain after the first n.
Grown(chain, n) == {<<Prefix(chain, m), "gpu">> : m \in (n + 1)..Len(chain)}

\* Events about blocks cached with an adapter.
LoraKeys == {Key(b, TRUE) : b \in LoraBlocks}
LoraRemovals == {RemovedEvent(k, t) : k \in LoraKeys, t \in Tiers}

\* Event ev changes the plain blocks held from U to V.
Does(offload, U, ev, V) ==
    \/ \E chain \in Blocks : \E n \in 0..(Len(chain) - 1) :
          /\ ev = Stored(chain, FALSE, n, "gpu")
          /\ n > 0 => <<Prefix(chain, n), "gpu">> \in U
          /\ U \cap Grown(chain, n) = {}
          /\ V = U \cup Grown(chain, n)
    \/ \E b \in Blocks :
          /\ offload
          /\ ev = StoredByKey(Key(b, FALSE), "cpu")
          /\ <<b, "gpu">> \in U
          /\ V = U \cup {<<b, "cpu">>}
    \/ \E b \in Blocks, t \in Tiers :
          /\ ev = RemovedEvent(Key(b, FALSE), t)
          /\ \A d \in Blocks : <<d, t>> \in U => ~IsStrictPrefix(b, d)
          /\ V = U \ {<<b, t>>}
    \/ ev = Cleared /\ V = {}
    \/ ev \in LoraStores \cup LoraRemovals /\ V = U

\* The blocks an event speaks of.
Touched(ev) ==
    {x \in Facts : \/ ev.kind = "AllBlocksCleared"
                   \/ x[2] = ev.tier /\ Key(x[1], FALSE) \in Elements(ev.keys)}

\* With a block an engine holds the blocks it continues.
Closed(U) ==
    \A chain \in Blocks : \A m \in 1..Len(chain) :
        <<chain, "gpu">> \in U => <<Prefix(chain, m), "gpu">> \in U

\* The prefixes of a block are blocks.
LEMMA PrefixFacts ==
    ASSUME NEW chain \in Blocks, NEW m \in 1..Len(chain)
    PROVE  /\ Prefix(chain, m) \in Blocks /\ Len(Prefix(chain, m)) = m /\ Len(chain) \in Nat
           /\ Prefix(chain, m) # << >>
           /\ \A k \in 1..m : Prefix(Prefix(chain, m), k) = Prefix(chain, k)
           /\ Prefix(chain, Len(chain)) = chain
           /\ m < Len(chain) => IsStrictPrefix(Prefix(chain, m), chain)
<1>1. chain \in Seq(Chunks) /\ Len(chain) \in Nat
  BY ListenerConstantsAssumption
<1>2. Prefix(chain, m) \in Blocks
  BY ListenerConstantsAssumption
<1>3. Len(Prefix(chain, m)) = m /\ Prefix(chain, m) \in Seq(Chunks)
  BY <1>1 DEF Prefix
<1>4. ASSUME NEW k \in 1..m
      PROVE  Prefix(Prefix(chain, m), k) = Prefix(chain, k)
  BY <1>1 DEF Prefix
<1>5. Prefix(chain, Len(chain)) = chain
  BY <1>1 DEF Prefix
<1>6. Prefix(Prefix(chain, m), m) = Prefix(chain, m)
  BY <1>4
<1>7. m < Len(chain) => IsStrictPrefix(Prefix(chain, m), chain)
  BY <1>1, <1>3, <1>6 DEF IsStrictPrefix, IsPrefix, Prefix
<1>8. QED
  BY <1>1, <1>2, <1>3, <1>4, <1>5, <1>7, EmptySeq

\* What each kind of event speaks of.
LEMMA StoredTouches ==
    ASSUME NEW chain \in Blocks, NEW n \in 0..(Len(chain) - 1)
    PROVE  Touched(Stored(chain, FALSE, n, "gpu")) = Grown(chain, n)
<1> DEFINE ev == Stored(chain, FALSE, n, "gpu")
<1>1. Len(chain) \in Nat /\ "gpu" \in Tiers
  BY ListenerConstantsAssumption
<1>2. /\ ev.kind # "AllBlocksCleared" /\ ev.tier = "gpu"
      /\ ev.keys = [i \in 1..(Len(chain) - n) |-> Key(Prefix(chain, n + i), FALSE)]
  BY DEF Stored
<1> HIDE DEF ev
<1>3. ASSUME NEW b \in Blocks
      PROVE  Key(b, FALSE) \in Elements(ev.keys) <=> \E m \in (n + 1)..Len(chain) : b = Prefix(chain, m)
  <2>1. Key(b, FALSE) \in Elements(ev.keys)
        <=> \E i \in 1..(Len(chain) - n) : Key(b, FALSE) = Key(Prefix(chain, n + i), FALSE)
    BY <1>2 DEF Elements
  <2>2. \A i \in 1..(Len(chain) - n) :
           (Key(b, FALSE) = Key(Prefix(chain, n + i), FALSE)) <=> b = Prefix(chain, n + i)
    BY KeyInjective
  <2>3. \A i \in 1..(Len(chain) - n) : n + i \in (n + 1)..Len(chain)
    BY <1>1
  <2>4. \A m \in (n + 1)..Len(chain) : m - n \in 1..(Len(chain) - n) /\ n + (m - n) = m
    BY <1>1
  <2>5. QED
    BY <2>1, <2>2, <2>3, <2>4
<1>4. \A m \in (n + 1)..Len(chain) : Prefix(chain, m) \in Blocks
  BY <1>1, PrefixFacts
<1>5. \A x \in Facts : x \in Touched(ev) <=> x \in Grown(chain, n)
  <2> SUFFICES ASSUME NEW b \in Blocks, NEW t \in Tiers
               PROVE  <<b, t>> \in Touched(ev) <=> <<b, t>> \in Grown(chain, n)
    BY DEF Facts
  <2>1. <<b, t>> \in Touched(ev) <=> t = "gpu" /\ Key(b, FALSE) \in Elements(ev.keys)
    BY <1>2 DEF Touched, Facts
  <2>2. <<b, t>> \in Grown(chain, n) <=> t = "gpu" /\ \E m \in (n + 1)..Len(chain) : b = Prefix(chain, m)
    BY DEF Grown
  <2>3. QED
    BY <1>3, <2>1, <2>2
<1>6. Grown(chain, n) \subseteq Facts
  BY <1>1, <1>4 DEF Grown, Facts
<1>7. Touched(ev) \subseteq Facts
  BY DEF Touched
<1>8. QED
  BY <1>5, <1>6, <1>7 DEF ev

\* A removal and an offload speak of one block.
LEMMA KeyTouches ==
    ASSUME NEW b \in Blocks, NEW t \in Tiers
    PROVE  /\ Touched(StoredByKey(Key(b, FALSE), t)) = {<<b, t>>}
           /\ Touched(RemovedEvent(Key(b, FALSE), t)) = {<<b, t>>}
<1>1. \A d \in Blocks : Key(d, FALSE) \in Elements(<<Key(b, FALSE)>>) <=> d = b
  <2>1. Elements(<<Key(b, FALSE)>>) = {Key(b, FALSE)}
    BY ElementsOfOne
  <2>2. \A d \in Blocks : Key(d, FALSE) = Key(b, FALSE) <=> d = b
    BY KeyInjective
  <2>3. QED
    BY <2>1, <2>2
<1>2. ASSUME NEW ev, ev.kind # "AllBlocksCleared", ev.tier = t, ev.keys = <<Key(b, FALSE)>>
      PROVE  Touched(ev) = {<<b, t>>}
  <2>1. ASSUME NEW d \in Blocks, NEW u \in Tiers
        PROVE  <<d, u>> \in Touched(ev) <=> d = b /\ u = t
    <3>1. <<d, u>> \in Touched(ev) <=> u = t /\ Key(d, FALSE) \in Elements(ev.keys)
      BY <1>2 DEF Touched, Facts
    <3>2. QED
      BY <1>1, <1>2, <3>1
  <2>2. Touched(ev) \subseteq Blocks \X Tiers
    BY DEF Touched, Facts
  <2>3. QED
    BY <2>1, <2>2
<1>3. QED
  <2>1. Touched(StoredByKey(Key(b, FALSE), t)) = {<<b, t>>}
    <3> DEFINE ev == StoredByKey(Key(b, FALSE), t)
    <3>1. ev.kind # "AllBlocksCleared" /\ ev.tier = t /\ ev.keys = <<Key(b, FALSE)>>
      BY DEF StoredByKey
    <3> HIDE DEF ev
    <3>2. Touched(ev) = {<<b, t>>}
      BY <1>2, <3>1
    <3>3. QED
      BY <3>2 DEF ev
  <2>2. Touched(RemovedEvent(Key(b, FALSE), t)) = {<<b, t>>}
    <3> DEFINE ev == RemovedEvent(Key(b, FALSE), t)
    <3>1. ev.kind # "AllBlocksCleared" /\ ev.tier = t /\ ev.keys = <<Key(b, FALSE)>>
      BY DEF RemovedEvent
    <3> HIDE DEF ev
    <3>2. Touched(ev) = {<<b, t>>}
      BY <1>2, <3>1
    <3>3. QED
      BY <3>2 DEF ev
  <2>3. QED
    BY <2>1, <2>2

\* Clearing speaks of everything.
LEMMA ClearedTouches == Touched(Cleared) = Facts
BY DEF Touched, Cleared

\* An event about blocks with an adapter speaks of none without.
LEMMA LoraTouches ==
    ASSUME NEW ev \in LoraStores \cup LoraRemovals
    PROVE  Touched(ev) = {}
<1>1. CASE ev \in LoraStores
  <2>1. PICK chain \in LoraBlocks : ev \in {Stored(chain, TRUE, n, "gpu") : n \in 0..(Len(chain) - 1)}
    BY <1>1, Zenon DEF LoraStores
  <2>2. PICK n \in 0..(Len(chain) - 1) : ev = Stored(chain, TRUE, n, "gpu")
    BY <2>1, Zenon
  <2>3. /\ ev.kind # "AllBlocksCleared"
        /\ ev.keys = [i \in 1..(Len(chain) - n) |-> Key(Prefix(chain, n + i), TRUE)]
    BY <2>2 DEF Stored
  <2>4. \A b \in Blocks : Key(b, FALSE) \notin Elements(ev.keys)
    <3>1. \A b, d : Key(b, FALSE) # Key(d, TRUE)
      BY DEF Key
    <3>2. \A k \in Elements(ev.keys) : \E d : k = Key(d, TRUE)
      BY <2>3 DEF Elements
    <3>3. QED
      BY <3>1, <3>2
  <2>5. QED
    BY <2>3, <2>4 DEF Touched, Facts
<1>2. CASE ev \in LoraRemovals
  <2>1. PICK k \in LoraKeys, t \in Tiers : ev = RemovedEvent(k, t)
    BY <1>2 DEF LoraRemovals
  <2>2. PICK b \in LoraBlocks : k = Key(b, TRUE)
    BY DEF LoraKeys
  <2>3. ev.kind # "AllBlocksCleared" /\ ev.keys = <<Key(b, TRUE)>>
    BY <2>1, <2>2 DEF RemovedEvent
  <2>4. \A d \in Blocks : Key(d, FALSE) \notin Elements(ev.keys)
    <3>1. \A d : Key(d, FALSE) # Key(b, TRUE)
      BY DEF Key
    <3>2. QED
      BY <2>3, <3>1, ElementsOfOne
  <2>5. QED
    BY <2>3, <2>4 DEF Touched, Facts
<1>3. QED
  BY <1>1, <1>2

\* The steps of the story, by what they touch.
DoesStore(U, T, V) ==
    \E chain \in Blocks : \E n \in 0..(Len(chain) - 1) :
        /\ n > 0 => <<Prefix(chain, n), "gpu">> \in U
        /\ T = Grown(chain, n)
        /\ U \cap T = {}
        /\ V = U \cup T

DoesOffload(U, T, V) ==
    \E b \in Blocks : "cpu" \in Tiers /\ T = {<<b, "cpu">>} /\ V = U \cup T

DoesRemove(U, T, V) ==
    \E b \in Blocks, t \in Tiers :
        /\ \A d \in Blocks : <<d, t>> \in U => ~IsStrictPrefix(b, d)
        /\ T = {<<b, t>>}
        /\ V = U \ T

LEMMA DoesWhat ==
    ASSUME NEW offload \in BOOLEAN, offload => "cpu" \in Tiers, NEW U, NEW ev, NEW V, Does(offload, U, ev, V)
    PROVE  \/ DoesStore(U, Touched(ev), V)
           \/ DoesOffload(U, Touched(ev), V)
           \/ DoesRemove(U, Touched(ev), V)
           \/ Touched(ev) = Facts /\ V = {}
           \/ Touched(ev) = {} /\ V = U
<1>1. ASSUME NEW chain \in Blocks, NEW n \in 0..(Len(chain) - 1),
             ev = Stored(chain, FALSE, n, "gpu"),
             n > 0 => <<Prefix(chain, n), "gpu">> \in U,
             U \cap Grown(chain, n) = {},
             V = U \cup Grown(chain, n)
      PROVE  DoesStore(U, Touched(ev), V)
  <2>1. Touched(ev) = Grown(chain, n)
    BY <1>1, StoredTouches
  <2>2. QED
    BY <1>1, <2>1 DEF DoesStore
<1>2. ASSUME NEW b \in Blocks, offload, ev = StoredByKey(Key(b, FALSE), "cpu"), V = U \cup {<<b, "cpu">>}
      PROVE  DoesOffload(U, Touched(ev), V)
  <2>1. Touched(ev) = {<<b, "cpu">>}
    BY <1>2, KeyTouches
  <2>2. QED
    BY <1>2, <2>1 DEF DoesOffload
<1>3. ASSUME NEW b \in Blocks, NEW t \in Tiers, ev = RemovedEvent(Key(b, FALSE), t),
             \A d \in Blocks : <<d, t>> \in U => ~IsStrictPrefix(b, d),
             V = U \ {<<b, t>>}
      PROVE  DoesRemove(U, Touched(ev), V)
  <2>1. Touched(ev) = {<<b, t>>}
    BY <1>3, KeyTouches
  <2>2. QED
    BY <1>3, <2>1 DEF DoesRemove
<1>4. QED
  BY <1>1, <1>2, <1>3, ClearedTouches, LoraTouches DEF Does

\* What an event does not touch stays as it is.
LEMMA UntouchedStays ==
    ASSUME NEW offload \in BOOLEAN, offload => "cpu" \in Tiers, NEW U, NEW ev, NEW V, Does(offload, U, ev, V),
           NEW x \in Facts, x \notin Touched(ev)
    PROVE  x \in U <=> x \in V
<1>1. CASE DoesStore(U, Touched(ev), V) \/ DoesOffload(U, Touched(ev), V)
  <2>1. V = U \cup Touched(ev)
    BY <1>1 DEF DoesStore, DoesOffload
  <2>2. QED
    BY <2>1
<1>2. CASE DoesRemove(U, Touched(ev), V)
  <2>1. V = U \ Touched(ev)
    BY <1>2 DEF DoesRemove
  <2>2. QED
    BY <2>1
<1>3. QED
  BY <1>1, <1>2, DoesWhat

\* What an engine holds stays among what can be said of it.
LEMMA DoesTyped ==
    ASSUME NEW offload \in BOOLEAN, offload => "cpu" \in Tiers, NEW U, NEW ev, NEW V, Does(offload, U, ev, V),
           U \subseteq Facts
    PROVE  V \subseteq Facts
<1>1. Touched(ev) \subseteq Facts
  BY DEF Touched
<1>2. CASE DoesStore(U, Touched(ev), V) \/ DoesOffload(U, Touched(ev), V)
  <2>1. V = U \cup Touched(ev)
    BY <1>2 DEF DoesStore, DoesOffload
  <2>2. QED
    BY <1>1, <2>1
<1>3. CASE DoesRemove(U, Touched(ev), V)
  <2>1. V = U \ Touched(ev)
    BY <1>3 DEF DoesRemove
  <2>2. QED
    BY <2>1
<1>4. QED
  BY <1>2, <1>3, DoesWhat

\* An event that speaks of a block held speaks of the blocks held that continue
\* it.
LEMMA FamilyStep ==
    ASSUME NEW offload \in BOOLEAN, offload => "cpu" \in Tiers, NEW U, NEW ev, NEW V, Does(offload, U, ev, V),
           NEW d \in Blocks, NEW m \in 1..Len(d),
           <<Prefix(d, m), "gpu">> \in U, <<d, "gpu">> \in U,
           <<Prefix(d, m), "gpu">> \in Touched(ev)
    PROVE  <<d, "gpu">> \in Touched(ev)
<1> DEFINE p == Prefix(d, m)
           T == Touched(ev)
<1>1. /\ p \in Blocks /\ (p = d \/ IsStrictPrefix(p, d)) /\ "gpu" \in Tiers
  <2>1. m = Len(d) \/ m < Len(d)
    BY PrefixFacts
  <2>2. QED
    BY <2>1, PrefixFacts, ListenerConstantsAssumption
<1> HIDE DEF p, T
<1>2. <<p, "gpu">> \in U /\ <<p, "gpu">> \in T
  BY DEF p, T
<1>3. CASE DoesStore(U, T, V)
  BY <1>2, <1>3 DEF DoesStore
<1>4. CASE DoesOffload(U, T, V)
  <2>1. PICK b \in Blocks : T = {<<b, "cpu">>}
    BY <1>4 DEF DoesOffload
  <2>2. <<p, "gpu">> = <<b, "cpu">>
    BY <1>2, <2>1
  <2>3. QED
    BY <2>2
<1>5. CASE DoesRemove(U, T, V)
  <2>1. PICK b \in Blocks, t \in Tiers : /\ \A c \in Blocks : <<c, t>> \in U => ~IsStrictPrefix(b, c)
                                         /\ T = {<<b, t>>}
    BY <1>5 DEF DoesRemove
  <2>2. p = b /\ t = "gpu"
    BY <1>2, <2>1
  <2>3. p = d
    BY <1>1, <2>1, <2>2
  <2>4. QED
    BY <1>2, <2>3 DEF T
<1>6. CASE T = Facts
  BY <1>1, <1>6 DEF Facts, T
<1>7. QED
  BY <1>2, <1>3, <1>4, <1>5, <1>6, DoesWhat DEF T

\* The engine keeps the blocks that others continue.
LEMMA ClosedStep ==
    ASSUME NEW offload \in BOOLEAN, offload => "cpu" \in Tiers, NEW U, NEW ev, NEW V, Does(offload, U, ev, V),
           Closed(U)
    PROVE  Closed(V)
<1> DEFINE T == Touched(ev)
<1> SUFFICES ASSUME NEW d \in Blocks, NEW m \in 1..Len(d), <<d, "gpu">> \in V
             PROVE  <<Prefix(d, m), "gpu">> \in V
  BY DEF Closed
<1> HIDE DEF T
<1>1. "gpu" # "cpu" /\ "gpu" \in Tiers
  BY ListenerConstantsAssumption
<1>2. CASE DoesStore(U, T, V)
  <2>1. PICK chain \in Blocks : \E n \in 0..(Len(chain) - 1) :
            /\ n > 0 => <<Prefix(chain, n), "gpu">> \in U
            /\ T = Grown(chain, n) /\ V = U \cup T
    BY <1>2 DEF DoesStore
  <2>2. PICK n \in 0..(Len(chain) - 1) :
            /\ n > 0 => <<Prefix(chain, n), "gpu">> \in U
            /\ T = Grown(chain, n) /\ V = U \cup T
    BY <2>1
  <2>3. CASE <<d, "gpu">> \in U
    BY <2>2, <2>3 DEF Closed
  <2>4. CASE <<d, "gpu">> \in Grown(chain, n)
    <3>1. PICK k \in (n + 1)..Len(chain) : d = Prefix(chain, k)
      BY <2>4 DEF Grown
    <3>2. Len(chain) \in Nat
      BY ListenerConstantsAssumption
    <3>3. k \in 1..Len(chain)
      BY <3>2
    <3>4. Len(d) = k /\ Prefix(d, m) = Prefix(chain, m) /\ m \in 1..k
      BY <3>1, <3>3, PrefixFacts
    <3>5. CASE m > n
      <4>1. m \in (n + 1)..Len(chain)
        BY <3>2, <3>4, <3>5
      <4>2. QED
        BY <2>2, <3>4, <4>1 DEF Grown
    <3>6. CASE m <= n
      <4> DEFINE q == Prefix(chain, n)
      <4>1. n \in 1..Len(chain) /\ m \in 1..n
        BY <3>2, <3>4, <3>6
      <4>2. q \in Blocks /\ Len(q) = n /\ Prefix(q, m) = Prefix(chain, m)
        BY <4>1, PrefixFacts
      <4>3. <<q, "gpu">> \in U
        BY <2>2, <4>1
      <4> HIDE DEF q
      <4>4. <<Prefix(q, m), "gpu">> \in U
        BY <4>1, <4>2, <4>3 DEF Closed
      <4>5. QED
        BY <2>2, <3>4, <4>2, <4>4
    <3>7. QED
      BY <3>4, <3>5, <3>6
  <2>5. QED
    BY <2>2, <2>3, <2>4
<1>3. CASE DoesOffload(U, T, V)
  <2>1. PICK b \in Blocks : V = U \cup {<<b, "cpu">>}
    BY <1>3 DEF DoesOffload
  <2>2. <<d, "gpu">> \in U
    BY <2>1
  <2>3. QED
    BY <2>1, <2>2 DEF Closed
<1>4. CASE DoesRemove(U, T, V)
  <2>1. PICK b \in Blocks, t \in Tiers : /\ \A c \in Blocks : <<c, t>> \in U => ~IsStrictPrefix(b, c)
                                         /\ V = U \ {<<b, t>>}
    BY <1>4 DEF DoesRemove
  <2>2. <<d, "gpu">> \in U /\ <<Prefix(d, m), "gpu">> \in U
    BY <2>1 DEF Closed
  <2>3. m = Len(d) \/ m < Len(d)
    BY PrefixFacts
  <2>4. Prefix(d, m) = d \/ IsStrictPrefix(Prefix(d, m), d)
    BY <2>3, PrefixFacts
  <2>5. <<Prefix(d, m), "gpu">> = <<b, t>> => Prefix(d, m) = d
    BY <2>1, <2>2, <2>4
  <2>6. QED
    BY <2>1, <2>2, <2>5
<1>5. CASE V = {} \/ V = U
  BY <1>5 DEF Closed
<1>6. QED
  BY <1>2, <1>3, <1>4, <1>5, DoesWhat DEF T

-----------------------------------------------------------------------------
(***************************************************************************)
(* The story of an engine: its events E, numbered from 0, and what it      *)
(* holds before each of them, F, up to the T-th.                           *)
(***************************************************************************)

Tale(offload, E, F, T) ==
    /\ E \in [Nat -> Events] /\ F \in [Nat -> SUBSET Facts]
    /\ F[0] = {}
    /\ \A k \in 0..T : Closed(F[k])
    /\ \A k \in 0..(T - 1) : Does(offload, F[k], E[k], F[k + 1])

\* A set of numbers with an upper bound has a last one.
LEMMA LastOf ==
    ASSUME NEW a \in Nat, NEW b \in Nat, NEW S \in SUBSET (a..b), S # {}
    PROVE  \E i \in S : \A j \in S : j <= i
<1> DEFINE P == S \ {0}
<1>1. P \in SUBSET (1..b)
  OBVIOUS
<1>2. CASE P = {}
  <2>1. \A j \in S : j = 0
    BY <1>2
  <2>2. PICK i \in S : TRUE
    OBVIOUS
  <2>3. \A j \in S : j <= i
    BY <2>1
  <2>4. QED
    BY <2>3
<1>3. CASE P # {}
  <2>1. PICK i \in P : \A j \in P : j <= i
    BY <1>1, <1>3, LastPosition
  <2>2. QED
    BY <1>1, <2>1
<1>4. QED
  BY <1>2, <1>3

\* What the engine holds at one place of the story and not at another, an event
\* between them speaks of.
LEMMA ChangedIsTouched ==
    ASSUME NEW offload \in BOOLEAN, offload => "cpu" \in Tiers, NEW E, NEW F, NEW T \in Nat, Tale(offload, E, F, T),
           NEW a \in 0..T, NEW b \in a..T, NEW x \in Facts,
           \A i \in a..(b - 1) : x \notin Touched(E[i])
    PROVE  x \in F[a] <=> x \in F[b]
<1> DEFINE S == {j \in a..b : x \in F[j] <=> x \in F[a]}
<1>1. a \in S /\ S \in SUBSET (a..b) /\ a \in Nat /\ b \in Nat
  OBVIOUS
<1>2. PICK i \in S : \A j \in S : j <= i
  <2> HIDE DEF S
  <2>1. QED
    BY <1>1, LastOf
<1>3. SUFFICES ASSUME i # b PROVE FALSE
  BY <1>2
<1>4. i \in a..(b - 1) /\ i \in 0..(T - 1) /\ i + 1 \in a..b
  BY <1>1, <1>3
<1>5. Does(offload, F[i], E[i], F[i + 1])
  BY <1>4 DEF Tale
<1>6. x \in F[i] <=> x \in F[i + 1]
  BY <1>4, <1>5, UntouchedStays
<1>7. i + 1 \in S
  BY <1>2, <1>4, <1>6
<1>8. QED
  BY <1>2, <1>4, <1>7

\* When an event to come speaks of a block that is held, one up to it speaks of
\* every block held that continues it.
LEMMA FamilyTouched ==
    ASSUME NEW offload \in BOOLEAN, offload => "cpu" \in Tiers, NEW E, NEW F, NEW T \in Nat, Tale(offload, E, F, T),
           NEW a \in 0..T, NEW b \in a..T, NEW d \in Blocks, NEW m \in 1..Len(d),
           <<Prefix(d, m), "gpu">> \in F[a], <<d, "gpu">> \in F[a],
           NEW last \in a..(b - 1), <<Prefix(d, m), "gpu">> \in Touched(E[last])
    PROVE  \E i \in a..(b - 1) : <<d, "gpu">> \in Touched(E[i])
<1> DEFINE p == <<Prefix(d, m), "gpu">>
           x == <<d, "gpu">>
           S == {j \in a..last : p \in F[j]}
<1>1. p \in Facts /\ x \in Facts
  BY PrefixFacts, ListenerConstantsAssumption DEF Facts
<1>2. SUFFICES ASSUME \A i \in a..(b - 1) : x \notin Touched(E[i])
               PROVE  FALSE
  OBVIOUS
<1>3. a \in S /\ S \in SUBSET (a..last) /\ a \in Nat /\ last \in Nat
  OBVIOUS
<1>4. PICK i \in S : \A j \in S : j <= i
  <2> HIDE DEF S
  <2>1. QED
    BY <1>3, LastOf
<1>5. i \in a..(b - 1) /\ i \in 0..(T - 1) /\ i \in a..T
  BY <1>4
<1>6. Does(offload, F[i], E[i], F[i + 1])
  BY <1>5 DEF Tale
<1>7. p \in F[i]
  BY <1>4
<1>8. x \in F[i]
  <2>1. \A j \in a..(i - 1) : x \notin Touched(E[j])
    BY <1>2, <1>5
  <2> HIDE DEF x, p, S
  <2>2. x \in F[a] <=> x \in F[i]
    BY <1>1, <1>5, <2>1, ChangedIsTouched, ZenonT(30)
  <2>3. QED
    BY <2>2 DEF x
<1>9. p \notin Touched(E[i])
  BY <1>2, <1>5, <1>6, <1>7, <1>8, FamilyStep
<1>10. p \in F[i + 1]
  BY <1>1, <1>6, <1>7, <1>9, UntouchedStays
<1>11. i < last
  BY <1>4, <1>9
<1>12. i + 1 \in S
  BY <1>4, <1>10, <1>11
<1>13. QED
  BY <1>4, <1>5, <1>12

\* The engine goes on.
LEMMA TaleGrows ==
    ASSUME NEW offload \in BOOLEAN, offload => "cpu" \in Tiers, NEW E, NEW F, NEW T \in Nat, Tale(offload, E, F, T),
           NEW ev \in Events, NEW V, Does(offload, F[T], ev, V)
    PROVE  Tale(offload, [E EXCEPT ![T] = ev], [F EXCEPT ![T + 1] = V], T + 1)
<1> DEFINE E2 == [E EXCEPT ![T] = ev]
           F2 == [F EXCEPT ![T + 1] = V]
<1>1. E \in [Nat -> Events] /\ F \in [Nat -> SUBSET Facts] /\ F[T] \subseteq Facts
  BY DEF Tale
<1>2. V \in SUBSET Facts
  BY <1>1, DoesTyped
<1>3. E2 \in [Nat -> Events] /\ F2 \in [Nat -> SUBSET Facts]
  BY <1>1, <1>2
<1>4. /\ \A k \in 0..T : F2[k] = F[k]
      /\ F2[T + 1] = V
      /\ \A k \in 0..(T - 1) : E2[k] = E[k]
      /\ E2[T] = ev
  BY <1>1
<1> HIDE DEF E2, F2
<1>5. Closed(F[T])
  BY DEF Tale
<1>6. Closed(V)
  BY <1>5, ClosedStep
<1>7. \A k \in 0..(T + 1) : Closed(F2[k])
  <2> SUFFICES ASSUME NEW k \in 0..(T + 1) PROVE Closed(F2[k])
    OBVIOUS
  <2>1. k \in 0..T \/ k = T + 1
    OBVIOUS
  <2>2. QED
    BY <1>4, <1>6, <2>1 DEF Tale
<1>8. \A k \in 0..((T + 1) - 1) : Does(offload, F2[k], E2[k], F2[k + 1])
  <2> SUFFICES ASSUME NEW k \in 0..T PROVE Does(offload, F2[k], E2[k], F2[k + 1])
    OBVIOUS
  <2>1. CASE k = T
    BY <1>4, <2>1
  <2>2. CASE k # T
    <3>1. k \in 0..(T - 1) /\ k + 1 \in 0..T
      BY <2>2
    <3>2. QED
      BY <1>4, <3>1 DEF Tale
  <2>3. QED
    BY <2>1, <2>2
<1>9. F2[0] = {}
  BY <1>4 DEF Tale
<1>10. QED
  BY <1>3, <1>7, <1>8, <1>9 DEF Tale, E2, F2

\* The elements of a function from a to b - 1, as a list.
Stretch(f, a, b) == [i \in 1..(b - a) |-> f[a + i - 1]]

\* Stretches are sequences: their length, type, emptiness, head and tail.
LEMMA StretchLen ==
    ASSUME NEW f, NEW a \in Nat, NEW b \in Nat, a <= b
    PROVE  Len(Stretch(f, a, b)) = b - a
BY DEF Stretch

LEMMA StretchType ==
    ASSUME NEW S, NEW f \in [Nat -> S], NEW a \in Nat, NEW b \in Nat, a <= b
    PROVE  Stretch(f, a, b) \in Seq(S)
<1>1. Stretch(f, a, b) \in [1..(b - a) -> S] /\ b - a \in Nat
  BY DEF Stretch
<1>2. QED
  BY <1>1, IsASeq

LEMMA StretchEmpty ==
    ASSUME NEW f, NEW a \in Nat, NEW b \in Nat, a <= b
    PROVE  (Stretch(f, a, b) = << >>) <=> (a = b)
<1> DEFINE list == Stretch(f, a, b)
<1>1. Len(list) = b - a
  BY StretchLen
<1>2. a = b => list = << >>
  BY DEF Stretch
<1>3. list = << >> => Len(list) = 0
  OBVIOUS
<1> HIDE DEF list
<1>4. QED
  BY <1>1, <1>2, <1>3 DEF list

LEMMA StretchHeadTail ==
    ASSUME NEW S, NEW f \in [Nat -> S], NEW a \in Nat, NEW b \in Nat, a < b
    PROVE  /\ Stretch(f, a, b) # << >>
           /\ Head(Stretch(f, a, b)) = f[a]
           /\ Tail(Stretch(f, a, b)) = Stretch(f, a + 1, b)
<1> DEFINE list == Stretch(f, a, b)
<1>1. list \in Seq(S) /\ Len(list) = b - a /\ list # << >>
  BY StretchLen, StretchType, StretchEmpty
<1>2. list[1] = f[a]
  BY DEF Stretch
<1>3. \A i \in 1..(b - a - 1) : list[i + 1] = f[(a + 1) + i - 1]
  <2> SUFFICES ASSUME NEW i \in 1..(b - a - 1) PROVE list[i + 1] = f[(a + 1) + i - 1]
    OBVIOUS
  <2>1. i + 1 \in 1..(b - a) /\ a + (i + 1) - 1 = (a + 1) + i - 1
    OBVIOUS
  <2>2. list[i + 1] = f[a + (i + 1) - 1]
    BY <2>1 DEF Stretch
  <2>3. QED
    BY <2>1, <2>2
<1> HIDE DEF list
<1> DEFINE rest == Tail(list)
<1>4. /\ Head(list) = list[1] /\ rest \in Seq(S) /\ Len(rest) = b - a - 1
      /\ \A i \in 1..(b - a - 1) : rest[i] = list[i + 1]
  BY <1>1, HeadTailProperties
<1> HIDE DEF rest
<1>5. rest = [i \in 1..(b - a - 1) |-> rest[i]]
  BY <1>4, LenProperties
<1>6. rest = [i \in 1..(b - (a + 1)) |-> f[(a + 1) + i - 1]]
  BY <1>3, <1>4, <1>5
<1>7. rest = Stretch(f, a + 1, b)
  BY <1>6 DEF Stretch
<1>8. QED
  BY <1>1, <1>2, <1>4, <1>7 DEF list, rest

\* Lists of the same elements are the same.
LEMMA StretchSame ==
    ASSUME NEW f, NEW g, NEW a \in Nat, NEW b \in Nat, \A i \in a..(b - 1) : f[i] = g[i]
    PROVE  Stretch(f, a, b) = Stretch(g, a, b)
<1>1. \A i \in 1..(b - a) : a + i - 1 \in a..(b - 1)
  OBVIOUS
<1>2. \A i \in 1..(b - a) : f[a + i - 1] = g[a + i - 1]
  BY <1>1
<1>3. QED
  BY <1>2 DEF Stretch

\* One more element.
LEMMA StretchAppend ==
    ASSUME NEW S, NEW f \in [Nat -> S], NEW a \in Nat, NEW b \in Nat, a <= b
    PROVE  Append(Stretch(f, a, b), f[b]) = Stretch(f, a, b + 1)
<1> DEFINE list == Stretch(f, a, b)
           longer == Stretch(f, a, b + 1)
<1>1. list \in Seq(S) /\ Len(list) = b - a
  BY StretchLen, StretchType
<1>2. longer \in Seq(S) /\ Len(longer) = (b + 1) - a
  BY StretchLen, StretchType
<1>3. \A i \in 1..(b - a) : longer[i] = list[i]
  BY DEF Stretch
<1>4. longer[(b - a) + 1] = f[b]
  BY DEF Stretch
<1> HIDE DEF list, longer
<1>5. f[b] \in S
  OBVIOUS
<1> DEFINE more == Append(list, f[b])
<1>6. /\ more \in Seq(S) /\ Len(more) = (b - a) + 1
      /\ \A i \in 1..(b - a) : more[i] = list[i]
      /\ more[(b - a) + 1] = f[b]
  BY <1>1, <1>5, AppendProperties
<1> HIDE DEF more
<1>7. \A i \in 1..((b - a) + 1) : more[i] = longer[i]
  <2> SUFFICES ASSUME NEW i \in 1..((b - a) + 1) PROVE more[i] = longer[i]
    OBVIOUS
  <2>1. i \in 1..(b - a) \/ i = (b - a) + 1
    OBVIOUS
  <2>2. QED
    BY <1>3, <1>4, <1>6, <2>1
<1>8. Len(more) = Len(longer)
  BY <1>2, <1>6
<1>9. more = longer
  BY <1>2, <1>6, <1>7, <1>8, SeqEqual
<1>10. QED
  BY <1>9 DEF more, list, longer

-----------------------------------------------------------------------------
(***************************************************************************)
(* What ingesting an event does to what the index says of the engines.     *)
(***************************************************************************)

\* What the operations of the index do to the holders of a block.
LEMMA StoreHolders ==
    ASSUME NEW r, NEW rks, StoreRequestKeys(r, rks), NEW rk
    PROVE  Holders(rk)' = IF rk \in rks THEN Holders(rk) \cup {r} ELSE Holders(rk)
<1>1. CASE rk \in rks
  BY <1>1 DEF Holders, StoreRequestKeys
<1>2. CASE rk \notin rks
  BY <1>2 DEF Holders, StoreRequestKeys
<1>3. QED
  BY <1>1, <1>2

LEMMA RemoveHolders ==
    ASSUME Faithful, NEW e, NEW c, NEW t, RemoveEvent(e, Rank, t, <<Key(c, FALSE)>>), NEW rk
    PROVE  /\ Bridged(e, Key(c, FALSE))
           /\ Holders(rk)' = IF rk = c THEN Holders(rk) \ {[engineID |-> e, dpRank |-> Rank, tier |-> t]}
                             ELSE Holders(rk)
<1> DEFINE r == [engineID |-> e, dpRank |-> Rank, tier |-> t]
           k == Key(c, FALSE)
           after(x) == IF x \in Removed(e, <<k>>) THEN Holders(x) \ {r} ELSE Holders(x)
<1>1. Removed(e, <<k>>) # {}
  BY DEF RemoveEvent
<1>2. Bridged(e, k) /\ Removed(e, <<k>>) = {c}
  <2>1. PICK key \in Elements(<<k>>) : Bridged(e, key)
    BY <1>1 DEF Removed
  <2>2. Elements(<<k>>) = {k} /\ Bridged(e, k)
    BY <2>1, ElementsOfOne
  <2>3. bridge[<<e, k>>] = c
    BY <2>2, BridgeOfKey
  <2>4. {x \in Elements(<<k>>) : Bridged(e, x)} = {k}
    BY <2>2
  <2> HIDE DEF k
  <2>5. Removed(e, <<k>>) = {bridge[<<e, ek>>] : ek \in {k}}
    BY <2>4 DEF Removed
  <2>6. QED
    BY <2>2, <2>3, <2>5
<1>3. byRequestKey' = [x \in {y \in DOMAIN byRequestKey : y \in Removed(e, <<k>>) => after(y) # {}} |-> after(x)]
  BY DEF RemoveEvent
<1>4. CASE rk = c
  BY <1>2, <1>3, <1>4 DEF Holders
<1>5. CASE rk # c
  BY <1>2, <1>3, <1>5 DEF Holders
<1>6. QED
  BY <1>2, <1>4, <1>5

LEMMA ClearHolders ==
    ASSUME IndexInv, NEW e \in Engines, ClearEngine(e, AllTiers), NEW rk
    PROVE  \A h : h \in Holders(rk)' <=> h \in Holders(rk) /\ h.engineID # e
<1> DEFINE cleared(x) == {r \in byRequestKey[x] :
                              /\ x \in byEngine[e]
                              /\ r.engineID = e
                              /\ AllTiers = AllTiers \/ r.tier = AllTiers}
           left(x) == byRequestKey[x] \ cleared(x)
<1>1. EngineGone(e)'
  BY ClearEngineKeepsInv
<1>2. byRequestKey' = [x \in {k \in DOMAIN byRequestKey : k \in byEngine[e] => left(k) # {}} |-> left(x)]
  BY DEF ClearEngine
<1>3. ASSUME NEW h \in Holders(rk), h.engineID # e
      PROVE  h \in Holders(rk)'
  <2>1. rk \in DOMAIN byRequestKey /\ h \in byRequestKey[rk]
    BY DEF Holders
  <2>2. h \in left(rk)
    BY <1>3, <2>1
  <2>3. QED
    BY <1>2, <2>1, <2>2 DEF Holders
<1>4. ASSUME NEW h \in Holders(rk)'
      PROVE  h \in Holders(rk) /\ h.engineID # e
  <2>1. rk \in DOMAIN byRequestKey' /\ h \in byRequestKey'[rk]
    BY <1>4 DEF Holders
  <2>2. h.engineID # e
    BY <1>1, <2>1 DEF EngineGone, HasEngine
  <2>3. h \in Holders(rk)
    BY <1>2, <2>1 DEF Holders
  <2>4. QED
    BY <2>2, <2>3
<1>5. QED
  BY <1>3, <1>4

\* The same for what the index says engine y holds.
LEMMA StoreIndexed ==
    ASSUME NEW e, NEW t \in Tiers, NEW rks,
           StoreRequestKeys([engineID |-> e, dpRank |-> Rank, tier |-> t], rks),
           NEW y, NEW b \in Blocks, NEW u \in Tiers
    PROVE  <<b, u>> \in Indexed(y)' <=> <<b, u>> \in Indexed(y) \/ (y = e /\ u = t /\ b \in rks)
<1> DEFINE r == [engineID |-> e, dpRank |-> Rank, tier |-> t]
           h == [engineID |-> y, dpRank |-> Rank, tier |-> u]
<1>1. h = r <=> y = e /\ u = t
  OBVIOUS
<1>2. Holders(b)' = IF b \in rks THEN Holders(b) \cup {r} ELSE Holders(b)
  BY StoreHolders
<1>3. /\ <<b, u>> \in Indexed(y) <=> h \in Holders(b)
      /\ <<b, u>> \in Indexed(y)' <=> h \in Holders(b)'
  BY DEF Indexed
<1> HIDE DEF r, h
<1>4. QED
  BY <1>1, <1>2, <1>3

LEMMA RemoveIndexed ==
    ASSUME Faithful, NEW e, NEW c \in Blocks, NEW t \in Tiers, RemoveEvent(e, Rank, t, <<Key(c, FALSE)>>),
           NEW y, NEW b \in Blocks, NEW u \in Tiers
    PROVE  <<b, u>> \in Indexed(y)' <=> <<b, u>> \in Indexed(y) /\ ~(y = e /\ u = t /\ b = c)
<1> DEFINE r == [engineID |-> e, dpRank |-> Rank, tier |-> t]
           h == [engineID |-> y, dpRank |-> Rank, tier |-> u]
<1>1. h = r <=> y = e /\ u = t
  OBVIOUS
<1>2. Holders(b)' = IF b = c THEN Holders(b) \ {r} ELSE Holders(b)
  BY RemoveHolders
<1>3. /\ <<b, u>> \in Indexed(y) <=> h \in Holders(b)
      /\ <<b, u>> \in Indexed(y)' <=> h \in Holders(b)'
  BY DEF Indexed
<1> HIDE DEF r, h
<1>4. QED
  BY <1>1, <1>2, <1>3

LEMMA ClearIndexed ==
    ASSUME IndexInv, NEW e \in Engines, ClearEngine(e, AllTiers),
           NEW y, NEW b \in Blocks, NEW u \in Tiers
    PROVE  <<b, u>> \in Indexed(y)' <=> <<b, u>> \in Indexed(y) /\ y # e
<1> DEFINE h == [engineID |-> y, dpRank |-> Rank, tier |-> u]
<1>1. h.engineID = y
  OBVIOUS
<1>2. h \in Holders(b)' <=> h \in Holders(b) /\ h.engineID # e
  BY ClearHolders
<1>3. /\ <<b, u>> \in Indexed(y) <=> h \in Holders(b)
      /\ <<b, u>> \in Indexed(y)' <=> h \in Holders(b)'
  BY DEF Indexed
<1> HIDE DEF h
<1>4. QED
  BY <1>1, <1>2, <1>3

\* The index says the same when it is the same.
LEMMA SameIndexed ==
    ASSUME UNCHANGED vars, NEW y
    PROVE  Indexed(y)' = Indexed(y)
BY DEF vars, Indexed, Holders

\* A step makes engine e hold the blocks T, or hold them no more, and nothing
\* else.
Adds(e, T) == \A y : \A x \in Facts : x \in Indexed(y)' <=> x \in Indexed(y) \/ (y = e /\ x \in T)
Drops(e, T) == \A y : \A x \in Facts : x \in Indexed(y)' <=> x \in Indexed(y) /\ ~(y = e /\ x \in T)
Leaves == \A y : Indexed(y)' = Indexed(y)

LEMMA LeavesIndex == ASSUME UNCHANGED vars PROVE Leaves
BY SameIndexed DEF Leaves

\* What is held is bridged by its own key.
LEMMA IndexedIsBridged ==
    ASSUME IndexFits, NEW e, NEW b \in Blocks, NEW u \in Tiers, <<b, u>> \in Indexed(e)
    PROVE  Bridged(e, Key(b, FALSE))
<1> DEFINE h == [engineID |-> e, dpRank |-> Rank, tier |-> u]
<1>1. h \in Holders(b) /\ h.engineID = e /\ b \in RequestKeys
  BY ListenerConstantsAssumption DEF Indexed
<1> HIDE DEF h
<1>2. QED
  BY <1>1 DEF IndexFits, HeldIsBridged, Bridged

\* Blocks stored with their tokens, unless their parent is not known.
LEMMA IngestStored ==
    ASSUME IndexFits, NEW e \in Engines, Ingest(e), NEW chain \in Blocks, NEW n \in 0..(Len(chain) - 1),
           Head(todo[e]) = Stored(chain, FALSE, n, "gpu")
    PROVE  \/ Adds(e, Grown(chain, n))
           \/ n > 0 /\ Leaves /\ ~Bridged(e, Key(Prefix(chain, n), FALSE))
<1> DEFINE ev == Stored(chain, FALSE, n, "gpu")
<1>1. /\ ev.kind = "BlockStored" /\ ev.tier = "gpu" /\ ev.lora = FALSE
      /\ ev.parent = Prefix(chain, n) /\ ev.keys = LinkKeys(chain, n)
      /\ ev.tokens # << >>
  <2>1. Len(ev.tokens) = Len(chain) - n /\ Len(chain) \in Nat
    BY ListenerConstantsAssumption DEF Stored
  <2>2. ev.tokens # << >>
    <3> HIDE DEF ev
    <3>1. Len(ev.tokens) # 0
      BY <2>1
    <3>2. QED
      BY <3>1
  <2>3. QED
    BY <2>2 DEF Stored, LinkKeys
<1>2. CASE ParentResolves(e, ev)
  <2>1. RequestKeysForEvent(e, ev) = Links(chain, n)
    BY <1>2, RequestKeysAreLinks DEF IndexFits
  <2> HIDE DEF ev
  <2>2. Indexable(e, ev)
    BY <1>1, <1>2 DEF Indexable
  <2>3. Apply(e, ev)
    BY <2>2 DEF Ingest, ev
  <2>4. StoreEvent(e, Rank, "gpu", ev.keys, RequestKeysForEvent(e, ev))
    BY <1>1, <2>3 DEF Apply
  <2>5. StoreRequestKeys([engineID |-> e, dpRank |-> Rank, tier |-> "gpu"], Elements(Links(chain, n)))
    BY <2>1, <2>4 DEF StoreEvent
  <2>6. \A b \in Blocks : b \in Elements(Links(chain, n)) <=> \E m \in (n + 1)..Len(chain) : b = Prefix(chain, m)
    <3>1. Len(chain) \in Nat
      BY ListenerConstantsAssumption
    <3>2. \A i \in 1..(Len(chain) - n) : n + i \in (n + 1)..Len(chain)
      BY <3>1
    <3>3. \A m \in (n + 1)..Len(chain) : m - n \in 1..(Len(chain) - n) /\ n + (m - n) = m
      BY <3>1
    <3>4. QED
      BY <3>2, <3>3 DEF Elements, Links
  <2>7. "gpu" \in Tiers
    BY ListenerConstantsAssumption
  <2>8. ASSUME NEW y, NEW b \in Blocks, NEW u \in Tiers
        PROVE  <<b, u>> \in Indexed(y)' <=> <<b, u>> \in Indexed(y) \/ (y = e /\ <<b, u>> \in Grown(chain, n))
    <3>1. <<b, u>> \in Grown(chain, n) <=> u = "gpu" /\ b \in Elements(Links(chain, n))
      BY <2>6 DEF Grown
    <3>2. <<b, u>> \in Indexed(y)'
          <=> <<b, u>> \in Indexed(y) \/ (y = e /\ u = "gpu" /\ b \in Elements(Links(chain, n)))
      BY <2>5, <2>7, StoreIndexed
    <3>3. QED
      BY <3>1, <3>2
  <2>9. Adds(e, Grown(chain, n))
    BY <2>8 DEF Adds, Facts
  <2>10. QED
    BY <2>9
<1>3. CASE ~ParentResolves(e, ev)
  <2> HIDE DEF ev
  <2>1. ~Indexable(e, ev)
    BY <1>1, <1>3 DEF Indexable
  <2>2. UNCHANGED vars
    BY <2>1 DEF Ingest, ev
  <2>3. ev.parent # << >> /\ ~Bridged(e, Key(Prefix(chain, n), FALSE))
    BY <1>1, <1>3 DEF ParentResolves
  <2>4. n # 0
    <3>1. Prefix(chain, 0) = << >>
      BY ListenerConstantsAssumption DEF Prefix
    <3>2. QED
      BY <1>1, <2>3, <3>1
  <2>5. n > 0
    BY <2>4
  <2>6. Leaves
    BY <2>2, LeavesIndex
  <2>7. QED
    BY <2>3, <2>5, <2>6
<1>4. QED
  BY <1>2, <1>3

\* A block stored by its key, unless the key is not known.
LEMMA IngestStoredByKey ==
    ASSUME IndexFits, NEW e \in Engines, Ingest(e), NEW b \in Blocks, NEW t \in Tiers,
           Head(todo[e]) = StoredByKey(Key(b, FALSE), t)
    PROVE  \/ Adds(e, {<<b, t>>})
           \/ Leaves /\ ~Bridged(e, Key(b, FALSE))
<1> DEFINE k == Key(b, FALSE)
           ev == StoredByKey(k, t)
<1>1. /\ ev.kind = "BlockStored" /\ ev.tier = t /\ ev.lora = FALSE /\ ev.tokens = << >> /\ ev.keys = <<k>>
  BY DEF StoredByKey, Key
<1>2. CASE Bridged(e, k)
  <2>1. bridge[<<e, k>>] = b
    BY <1>2, BridgeOfKey DEF IndexFits
  <2> HIDE DEF k
  <2>2. CanResolve(e, <<k>>)
    BY <1>2 DEF CanResolve
  <2>3. Indexable(e, ev)
    BY <1>1, <2>2 DEF Indexable
  <2>4. Apply(e, ev)
    BY <2>3 DEF Ingest, k
  <2>5. StoreEventByEngineKeys(e, Rank, t, <<k>>)
    BY <1>1, <2>4 DEF Apply
  <2>6. StoreRequestKeys([engineID |-> e, dpRank |-> Rank, tier |-> t], {b})
    <3>1. DOMAIN <<k>> = {1} /\ <<k>>[1] = k
      OBVIOUS
    <3>2. \A i \in DOMAIN <<k>> : <<k>>[i] = k
      BY <3>1
    <3>3. {bridge[<<e, <<k>>[i]>>] : i \in DOMAIN <<k>>} = {b}
      BY <2>1, <3>1, <3>2
    <3>4. QED
      BY <2>5, <3>3 DEF StoreEventByEngineKeys
  <2>7. ASSUME NEW y, NEW d \in Blocks, NEW u \in Tiers
        PROVE  <<d, u>> \in Indexed(y)' <=> <<d, u>> \in Indexed(y) \/ (y = e /\ <<d, u>> \in {<<b, t>>})
    <3>1. <<d, u>> \in Indexed(y)' <=> <<d, u>> \in Indexed(y) \/ (y = e /\ u = t /\ d \in {b})
      BY <2>6, StoreIndexed
    <3>2. QED
      BY <3>1
  <2>8. Adds(e, {<<b, t>>})
    BY <2>7 DEF Adds, Facts
  <2>9. QED
    BY <2>8
<1>3. CASE ~Bridged(e, k)
  <2> HIDE DEF k
  <2>1. ~CanResolve(e, <<k>>)
    BY <1>3 DEF CanResolve
  <2>2. ~Indexable(e, ev)
    BY <1>1, <2>1 DEF Indexable
  <2>3. UNCHANGED vars
    BY <2>2 DEF Ingest, k
  <2>4. QED
    BY <1>3, <2>3, LeavesIndex DEF k
<1>4. QED
  BY <1>2, <1>3

\* A removal, whether or not the block was held.
LEMMA IngestRemoved ==
    ASSUME IndexFits, NEW e \in Engines, Ingest(e), NEW b \in Blocks, NEW t \in Tiers,
           Head(todo[e]) = RemovedEvent(Key(b, FALSE), t)
    PROVE  Drops(e, {<<b, t>>})
<1> DEFINE k == Key(b, FALSE)
           ev == RemovedEvent(k, t)
<1>1. ev.kind = "BlockRemoved" /\ ev.tier = t /\ ev.keys = <<k>>
  BY DEF RemovedEvent
<1>2. CASE Indexable(e, ev)
  <2>1. Apply(e, ev)
    BY <1>2 DEF Ingest
  <2>2. RemoveEvent(e, Rank, t, <<k>>)
    <3> HIDE DEF k
    <3>1. QED
      BY <1>1, <2>1 DEF Apply
  <2>3. ASSUME NEW y, NEW d \in Blocks, NEW u \in Tiers
        PROVE  <<d, u>> \in Indexed(y)' <=> <<d, u>> \in Indexed(y) /\ ~(y = e /\ <<d, u>> \in {<<b, t>>})
    <3>1. <<d, u>> \in Indexed(y)' <=> <<d, u>> \in Indexed(y) /\ ~(y = e /\ u = t /\ d = b)
      BY <2>2, RemoveIndexed DEF IndexFits
    <3>2. QED
      BY <3>1
  <2>4. QED
    BY <2>3 DEF Drops, Facts
<1>3. CASE ~Indexable(e, ev)
  <2>1. UNCHANGED vars
    BY <1>3 DEF Ingest
  <2>2. ~Bridged(e, k)
    <3>1. Removed(e, <<k>>) = {}
      BY <1>1, <1>3 DEF Indexable
    <3>2. k \in Elements(<<k>>)
      BY ElementsOfOne
    <3> HIDE DEF k
    <3>3. QED
      BY <3>1, <3>2 DEF Removed
  <2>3. <<b, t>> \notin Indexed(e)
    BY <2>2, IndexedIsBridged
  <2>4. QED
    BY <2>1, <2>3, SameIndexed DEF Drops
<1>4. QED
  BY <1>2, <1>3

\* Clearing.
LEMMA IngestCleared ==
    ASSUME IndexFits, NEW e \in Engines, Ingest(e), Head(todo[e]) = Cleared
    PROVE  Drops(e, Facts)
<1>1. Cleared.kind = "AllBlocksCleared"
  BY DEF Cleared
<1>2. CASE e \in DOMAIN byEngine
  <2>1. ClearEngine(e, AllTiers)
    BY <1>1, <1>2 DEF Ingest, Indexable, Apply
  <2>2. \A y : \A b \in Blocks, u \in Tiers :
           <<b, u>> \in Indexed(y)' <=> <<b, u>> \in Indexed(y) /\ y # e
    BY <2>1, ClearIndexed DEF IndexFits
  <2>3. QED
    BY <2>2 DEF Drops, Facts
<1>3. CASE e \notin DOMAIN byEngine
  <2>1. UNCHANGED vars
    BY <1>1, <1>3 DEF Ingest, Indexable
  <2>2. \A x \in Facts : x \notin Indexed(e)
    <3> SUFFICES ASSUME NEW b \in Blocks, NEW u \in Tiers, <<b, u>> \in Indexed(e)
                 PROVE  FALSE
      BY DEF Facts
    <3>1. <<e, Key(b, FALSE)>> \in DOMAIN bridge
      BY IndexedIsBridged DEF Bridged
    <3>2. <<e, Key(b, FALSE)>>[1] \in DOMAIN byEngine
      BY <3>1, Zenon DEF IndexFits, IndexInv, IndexConsistent, BridgedIsListed
    <3>3. QED
      BY <1>3, <3>2
  <2>3. QED
    BY <2>1, <2>2, SameIndexed DEF Drops
<1>4. QED
  BY <1>2, <1>3

\* Events about blocks with an adapter do nothing.
LEMMA IngestLora ==
    ASSUME IndexFits, NEW e \in Engines, Ingest(e), Head(todo[e]) \in LoraStores \cup LoraRemovals
    PROVE  Leaves
<1> DEFINE ev == Head(todo[e])
<1>1. CASE ev \in LoraStores
  <2>1. PICK chain \in LoraBlocks : ev \in {Stored(chain, TRUE, n, "gpu") : n \in 0..(Len(chain) - 1)}
    BY <1>1, Zenon DEF LoraStores
  <2>2. PICK n \in 0..(Len(chain) - 1) : ev = Stored(chain, TRUE, n, "gpu")
    BY <2>1, Zenon
  <2>3. ev.kind = "BlockStored" /\ ev.lora = TRUE
    BY <2>2 DEF Stored
  <2>4. UNCHANGED vars
    BY <2>3 DEF Ingest, Indexable
  <2>5. QED
    BY <2>4, LeavesIndex
<1>2. CASE ev \in LoraRemovals
  <2>1. PICK k \in LoraKeys, t \in Tiers : ev = RemovedEvent(k, t)
    BY <1>2 DEF LoraRemovals
  <2>2. PICK b \in LoraBlocks : k = Key(b, TRUE)
    BY DEF LoraKeys
  <2>3. ev.kind = "BlockRemoved" /\ ev.keys = <<k>>
    BY <2>1 DEF RemovedEvent
  <2>4. ~Bridged(e, k)
    BY <2>2, BridgeOfKey DEF IndexFits
  <2>5. Removed(e, <<k>>) = {}
    <3>1. Elements(<<k>>) = {k}
      BY ElementsOfOne
    <3>2. {x \in Elements(<<k>>) : Bridged(e, x)} = {}
      BY <2>4, <3>1
    <3>3. QED
      BY <3>2 DEF Removed
  <2>6. UNCHANGED vars
    BY <2>3, <2>5 DEF Ingest, Indexable
  <2>7. QED
    BY <2>6, LeavesIndex
<1>3. QED
  BY <1>1, <1>2

\* The forms an event has.
LEMMA EventKinds ==
    ASSUME NEW ev \in Events
    PROVE  \/ \E chain \in Blocks : \E n \in 0..(Len(chain) - 1) : ev = Stored(chain, FALSE, n, "gpu")
           \/ \E b \in Blocks, t \in Tiers : ev = StoredByKey(Key(b, FALSE), t)
           \/ \E b \in Blocks, t \in Tiers : ev = RemovedEvent(Key(b, FALSE), t)
           \/ ev = Cleared
           \/ ev \in LoraStores \cup LoraRemovals
<1>1. CASE ev \in PlainStores
  <2>1. PICK chain \in Blocks : ev \in {Stored(chain, FALSE, n, "gpu") : n \in 0..(Len(chain) - 1)}
    BY <1>1, Zenon DEF PlainStores
  <2>2. PICK n \in 0..(Len(chain) - 1) : ev = Stored(chain, FALSE, n, "gpu")
    BY <2>1, Zenon
  <2>3. QED
    BY <2>2
<1>2. CASE ev \in Offloads
  <2>1. PICK k \in PlainKeys, t \in Tiers : ev = StoredByKey(k, t)
    BY <1>2 DEF Offloads
  <2>2. PICK b \in Blocks : k = Key(b, FALSE)
    BY DEF PlainKeys
  <2>3. QED
    BY <2>1, <2>2
<1>3. CASE ev \in Removals
  <2>1. PICK k \in Keys, t \in Tiers : ev = RemovedEvent(k, t)
    BY <1>3 DEF Removals
  <2>2. CASE k \in PlainKeys
    <3>1. PICK b \in Blocks : k = Key(b, FALSE)
      BY <2>2 DEF PlainKeys
    <3>2. QED
      BY <2>1, <3>1
  <2>3. CASE k \notin PlainKeys
    <3>1. k \in LoraKeys
      BY <2>3 DEF Keys, LoraKeys
    <3>2. \E l \in LoraKeys, u \in Tiers : ev = RemovedEvent(l, u)
      BY <2>1, <3>1
    <3>3. ev \in LoraRemovals
      BY <3>2 DEF LoraRemovals
    <3>4. QED
      BY <3>3
  <2>4. QED
    BY <2>2, <2>3
<1>4. QED
  BY <1>1, <1>2, <1>3 DEF Events

\* Ingesting changes what the index says of its own engine, where the event
\* speaks of it.
LEMMA IngestIsLocal ==
    ASSUME IndexFits, NEW e \in Engines, Ingest(e), Head(todo[e]) \in Events
    PROVE  /\ \A y : y # e => Indexed(y)' = Indexed(y)
           /\ \A x \in Facts : x \in Indexed(e)' => x \in Indexed(e) \/ x \in Touched(Head(todo[e]))
<1> DEFINE ev == Head(todo[e])
<1>1. SUFFICES (\E T : T = Touched(ev) /\ (Adds(e, T) \/ Drops(e, T))) \/ Leaves
  <2>1. ASSUME NEW y PROVE Indexed(y) \subseteq Facts /\ Indexed(y)' \subseteq Facts
    BY DEF Indexed, Facts
  <2> HIDE DEF ev
  <2>2. CASE Leaves
    BY <2>2 DEF Leaves
  <2>3. CASE \E T : T = Touched(ev) /\ (Adds(e, T) \/ Drops(e, T))
    <3>1. Adds(e, Touched(ev)) \/ Drops(e, Touched(ev))
      BY <2>3
    <3>2. ASSUME NEW y, y # e PROVE Indexed(y)' = Indexed(y)
      <4>1. \A x \in Facts : x \in Indexed(y)' <=> x \in Indexed(y)
        BY <3>1, <3>2 DEF Adds, Drops
      <4>2. QED
        BY <2>1, <4>1
    <3>3. \A x \in Facts : x \in Indexed(e)' => x \in Indexed(e) \/ x \in Touched(ev)
      BY <3>1 DEF Adds, Drops
    <3>4. QED
      BY <3>2, <3>3 DEF ev
  <2>4. QED
    BY <1>1, <2>2, <2>3
<1>2. ASSUME NEW chain \in Blocks, NEW n \in 0..(Len(chain) - 1), ev = Stored(chain, FALSE, n, "gpu")
      PROVE  Adds(e, Touched(ev)) \/ Leaves
  BY <1>2, IngestStored, StoredTouches
<1>3. ASSUME NEW b \in Blocks, NEW t \in Tiers, ev = StoredByKey(Key(b, FALSE), t)
      PROVE  Adds(e, Touched(ev)) \/ Leaves
  <2>1. Touched(ev) = {<<b, t>>}
    BY <1>3, KeyTouches
  <2>2. QED
    BY <1>3, <2>1, IngestStoredByKey
<1>4. ASSUME NEW b \in Blocks, NEW t \in Tiers, ev = RemovedEvent(Key(b, FALSE), t)
      PROVE  Drops(e, Touched(ev))
  <2>1. Touched(ev) = {<<b, t>>}
    BY <1>4, KeyTouches
  <2>2. QED
    BY <1>4, <2>1, IngestRemoved
<1>5. CASE ev = Cleared
  BY <1>5, IngestCleared, ClearedTouches
<1>6. CASE ev \in LoraStores \cup LoraRemovals
  BY <1>6, IngestLora
<1>7. QED
  BY <1>2, <1>3, <1>4, <1>5, <1>6, EventKinds

\* The index I has the facts U right, but for those that Later speaks of, which
\* may be wrong where nothing is offloaded.
Right(offload, I, U, Later) == \A x \in Facts : (x \in I <=> x \in U) \/ (~offload /\ x \in Later)

\* With a block that is held, Later speaks of those held that continue it.
FamilyIn(V, Later) ==
    \A d \in Blocks : \A m \in 1..Len(d) :
        <<Prefix(d, m), "gpu">> \in V /\ <<d, "gpu">> \in V /\ <<Prefix(d, m), "gpu">> \in Later
            => <<d, "gpu">> \in Later

\* When the index is right but for what the next event or later ones speak of,
\* ingesting the event leaves it right but for what the later ones speak of.
LEMMA IngestLearns ==
    ASSUME IndexFits, NEW e \in Engines, Ingest(e),
           NEW offload \in BOOLEAN, offload => "cpu" \in Tiers,
           NEW U, NEW V, Does(offload, U, Head(todo[e]), V),
           NEW Later, Right(offload, Indexed(e), U, Touched(Head(todo[e])) \cup Later), FamilyIn(V, Later)
    PROVE  Right(offload, Indexed(e)', V, Later)
<1> SUFFICES ASSUME \A x \in Facts :
                       \/ x \in Indexed(e) <=> x \in U
                       \/ ~offload /\ (x \in Touched(Head(todo[e])) \/ x \in Later),
                    \A d \in Blocks : \A m \in 1..Len(d) :
                       <<Prefix(d, m), "gpu">> \in V /\ <<d, "gpu">> \in V /\ <<Prefix(d, m), "gpu">> \in Later
                           => <<d, "gpu">> \in Later
             PROVE  \A x \in Facts : (x \in Indexed(e)' <=> x \in V) \/ (~offload /\ x \in Later)
  BY Zenon DEF Right, FamilyIn
<1> DEFINE ev == Head(todo[e])
<1>1. "gpu" \in Tiers
  BY ListenerConstantsAssumption
<1>2. ASSUME NEW T, Touched(ev) = T, V = U \cup T, Adds(e, T)
      PROVE  \A x \in Facts : (x \in Indexed(e)' <=> x \in V) \/ (~offload /\ x \in Later)
  BY <1>2 DEF Adds
<1>3. ASSUME NEW T, Touched(ev) = T, V = U \ T, Drops(e, T)
      PROVE  \A x \in Facts : (x \in Indexed(e)' <=> x \in V) \/ (~offload /\ x \in Later)
  BY <1>3 DEF Drops
<1>4. ASSUME NEW chain \in Blocks, NEW n \in 0..(Len(chain) - 1), ev = Stored(chain, FALSE, n, "gpu"),
             n > 0 => <<Prefix(chain, n), "gpu">> \in U,
             V = U \cup Grown(chain, n)
      PROVE  \A x \in Facts : (x \in Indexed(e)' <=> x \in V) \/ (~offload /\ x \in Later)
  <2>1. Touched(ev) = Grown(chain, n)
    BY <1>4, StoredTouches
  <2>2. CASE Adds(e, Grown(chain, n))
    BY <1>2, <1>4, <2>1, <2>2
  <2>3. CASE n > 0 /\ Leaves /\ ~Bridged(e, Key(Prefix(chain, n), FALSE))
    <3> DEFINE p == <<Prefix(chain, n), "gpu">>
    <3>1. Len(chain) \in Nat /\ n \in 1..Len(chain)
      BY <2>3, ListenerConstantsAssumption
    <3>2. Prefix(chain, n) \in Blocks /\ Len(Prefix(chain, n)) = n
      BY <3>1, PrefixFacts
    <3>3. p \in Facts /\ p \in U /\ p \in V
      BY <1>1, <1>4, <2>3, <3>2 DEF Facts
    <3>4. p \notin Indexed(e)
      BY <1>1, <2>3, <3>2, IndexedIsBridged
    <3>5. p \notin Touched(ev)
      <4> SUFFICES ASSUME p \in Grown(chain, n) PROVE FALSE
        BY <2>1
      <4>1. PICK m \in (n + 1)..Len(chain) : Prefix(chain, n) = Prefix(chain, m)
        BY DEF Grown
      <4>2. Len(Prefix(chain, m)) = m
        BY <3>1, <4>1, PrefixFacts
      <4>3. QED
        BY <3>1, <3>2, <4>1, <4>2
    <3>6. ~offload /\ p \in Later
      BY <3>3, <3>4, <3>5
    <3>7. ASSUME NEW m \in (n + 1)..Len(chain)
          PROVE  <<Prefix(chain, m), "gpu">> \in Later
      <4> DEFINE d == Prefix(chain, m)
      <4>1. m \in 1..Len(chain) /\ n \in 1..m
        BY <3>1
      <4>2. d \in Blocks /\ Len(d) = m /\ Prefix(d, n) = Prefix(chain, n)
        BY <4>1, PrefixFacts
      <4>3. <<d, "gpu">> \in V
        BY <1>4 DEF Grown
      <4> HIDE DEF d
      <4>4. <<d, "gpu">> \in Later
        BY <3>3, <3>6, <4>1, <4>2, <4>3
      <4>5. QED
        BY <4>4 DEF d
    <3>8. Grown(chain, n) \subseteq Later
      BY <3>7 DEF Grown
    <3>9. Indexed(e)' = Indexed(e)
      BY <2>3 DEF Leaves
    <3> HIDE DEF p
    <3>10. QED
      BY <1>4, <2>1, <3>6, <3>8, <3>9
  <2>4. QED
    BY <1>4, <2>2, <2>3, IngestStored
<1>5. ASSUME NEW b \in Blocks, offload, ev = StoredByKey(Key(b, FALSE), "cpu"),
             <<b, "gpu">> \in U, V = U \cup {<<b, "cpu">>}
      PROVE  \A x \in Facts : (x \in Indexed(e)' <=> x \in V) \/ (~offload /\ x \in Later)
  <2>1. Touched(ev) = {<<b, "cpu">>}
    BY <1>5, KeyTouches
  <2>2. <<b, "gpu">> \in Indexed(e)
    BY <1>1, <1>5 DEF Facts
  <2>3. Bridged(e, Key(b, FALSE))
    BY <1>1, <2>2, IndexedIsBridged
  <2>4. Adds(e, {<<b, "cpu">>})
    BY <1>5, <2>3, IngestStoredByKey
  <2>5. QED
    BY <1>2, <1>5, <2>1, <2>4
<1>6. ASSUME NEW b \in Blocks, NEW t \in Tiers, ev = RemovedEvent(Key(b, FALSE), t), V = U \ {<<b, t>>}
      PROVE  \A x \in Facts : (x \in Indexed(e)' <=> x \in V) \/ (~offload /\ x \in Later)
  <2>1. Touched(ev) = {<<b, t>>}
    BY <1>6, KeyTouches
  <2>2. Drops(e, {<<b, t>>})
    BY <1>6, IngestRemoved
  <2>3. QED
    BY <1>3, <1>6, <2>1, <2>2
<1>7. CASE ev = Cleared /\ V = {}
  BY <1>7, IngestCleared DEF Drops
<1>8. CASE ev \in LoraStores \cup LoraRemovals /\ V = U
  <2>1. Leaves /\ Touched(ev) = {}
    BY <1>8, IngestLora, LoraTouches
  <2>2. Indexed(e)' = Indexed(e)
    BY <2>1 DEF Leaves
  <2> HIDE DEF ev
  <2>3. QED
    BY <1>8, <2>1, <2>2 DEF ev
<1>9. QED
  BY <1>4, <1>5, <1>6, <1>7, <1>8 DEF Does

-----------------------------------------------------------------------------
(***************************************************************************)
(* What an engine publishes tells what it did.                             *)
(***************************************************************************)

\* The plain blocks among those held.
PlainOf(held) == {p \in Facts : <<Key(p[1], FALSE), p[2]>> \in held}

\* How the plain blocks among those held change with what is held.
LEMMA PlainIs == ASSUME NEW e PROVE Plain(e) = PlainOf(cache[e])
BY DEF Plain, PlainOf, Cached, Facts

LEMMA PlainOfAny ==
    ASSUME NEW held, NEW b \in Blocks, NEW t \in Tiers
    PROVE  <<b, t>> \in PlainOf(held) <=> <<Key(b, FALSE), t>> \in held
BY DEF PlainOf, Facts

LEMMA SameFacts ==
    ASSUME NEW U \in SUBSET Facts, NEW V \in SUBSET Facts,
           \A b \in Blocks, t \in Tiers : <<b, t>> \in U <=> <<b, t>> \in V
    PROVE  U = V
<1>1. \A x \in Facts : x \in U <=> x \in V
  BY DEF Facts
<1>2. QED
  BY <1>1

LEMMA PlainOfStored ==
    ASSUME NEW held, NEW chain \in Blocks, NEW n \in 0..(Len(chain) - 1)
    PROVE  PlainOf(held \cup NewBlocks(chain, FALSE, n)) = PlainOf(held) \cup Grown(chain, n)
<1>1. Len(chain) \in Nat /\ "gpu" \in Tiers
  BY ListenerConstantsAssumption
<1>2. \A m \in (n + 1)..Len(chain) : Prefix(chain, m) \in Blocks
  BY <1>1, PrefixFacts
<1>3. Grown(chain, n) \subseteq Facts
  BY <1>1, <1>2 DEF Grown, Facts
<1>4. ASSUME NEW b \in Blocks, NEW t \in Tiers
      PROVE  <<Key(b, FALSE), t>> \in NewBlocks(chain, FALSE, n) <=> <<b, t>> \in Grown(chain, n)
  <2>1. <<Key(b, FALSE), t>> \in NewBlocks(chain, FALSE, n)
        <=> \E m \in (n + 1)..Len(chain) : Key(b, FALSE) = Key(Prefix(chain, m), FALSE) /\ t = "gpu"
    BY DEF NewBlocks
  <2>2. \A m \in (n + 1)..Len(chain) : Key(b, FALSE) = Key(Prefix(chain, m), FALSE) <=> b = Prefix(chain, m)
    BY KeyInjective
  <2>3. QED
    BY <2>1, <2>2 DEF Grown
<1> DEFINE U == PlainOf(held \cup NewBlocks(chain, FALSE, n))
           V == PlainOf(held) \cup Grown(chain, n)
<1>5. ASSUME NEW b \in Blocks, NEW t \in Tiers
      PROVE  <<b, t>> \in U <=> <<b, t>> \in V
  <2>1. <<b, t>> \in U <=> <<Key(b, FALSE), t>> \in held \cup NewBlocks(chain, FALSE, n)
    BY PlainOfAny
  <2>2. <<b, t>> \in PlainOf(held) <=> <<Key(b, FALSE), t>> \in held
    BY PlainOfAny
  <2> HIDE DEF U
  <2>3. QED
    BY <1>4, <2>1, <2>2
<1>6. U \in SUBSET Facts /\ V \in SUBSET Facts
  BY <1>3 DEF PlainOf
<1> HIDE DEF U, V
<1>7. U = V
  BY <1>5, <1>6, SameFacts
<1>8. QED
  BY <1>7 DEF U, V

LEMMA PlainOfLoraStored ==
    ASSUME NEW held, NEW chain, NEW n
    PROVE  PlainOf(held \cup NewBlocks(chain, TRUE, n)) = PlainOf(held)
<1>1. \A b, t : <<Key(b, FALSE), t>> \notin NewBlocks(chain, TRUE, n)
  BY DEF NewBlocks, Key
<1>2. QED
  BY <1>1 DEF PlainOf

LEMMA PlainOfMore ==
    ASSUME NEW held, NEW b \in Blocks, NEW t \in Tiers
    PROVE  PlainOf(held \cup {<<Key(b, FALSE), t>>}) = PlainOf(held) \cup {<<b, t>>}
<1> DEFINE k == <<Key(b, FALSE), t>>
           x == <<b, t>>
           U == PlainOf(held)
           V == PlainOf(held \cup {k})
<1>1. \A d \in Blocks, u \in Tiers : <<Key(d, FALSE), u>> = k <=> <<d, u>> = x
  BY KeyInjective
<1>2. x \in Facts
  BY DEF Facts
<1>3. U \in SUBSET Facts /\ V \in SUBSET Facts
  BY DEF PlainOf
<1>4. ASSUME NEW d \in Blocks, NEW u \in Tiers
      PROVE  <<d, u>> \in V <=> <<d, u>> \in U \cup {x}
  <2>1. <<d, u>> \in V <=> <<Key(d, FALSE), u>> \in held \cup {k}
    BY PlainOfAny
  <2>2. <<d, u>> \in U <=> <<Key(d, FALSE), u>> \in held
    BY PlainOfAny
  <2>3. <<Key(d, FALSE), u>> = k <=> <<d, u>> = x
    BY <1>1
  <2> HIDE DEF U, V, k, x
  <2>4. QED
    BY <2>1, <2>2, <2>3
<1> HIDE DEF U, V, x
<1>5. U \cup {x} \in SUBSET Facts
  BY <1>2, <1>3
<1>6. V = U \cup {x}
  BY <1>3, <1>4, <1>5, SameFacts
<1>7. QED
  BY <1>6 DEF U, V, x

LEMMA PlainOfLess ==
    ASSUME NEW held, NEW b \in Blocks, NEW t \in Tiers
    PROVE  PlainOf(held \ {<<Key(b, FALSE), t>>}) = PlainOf(held) \ {<<b, t>>}
<1> DEFINE k == <<Key(b, FALSE), t>>
           x == <<b, t>>
           U == PlainOf(held)
           V == PlainOf(held \ {k})
<1>1. \A d \in Blocks, u \in Tiers : <<Key(d, FALSE), u>> = k <=> <<d, u>> = x
  BY KeyInjective
<1>2. x \in Facts
  BY DEF Facts
<1>3. U \in SUBSET Facts /\ V \in SUBSET Facts
  BY DEF PlainOf
<1>4. ASSUME NEW d \in Blocks, NEW u \in Tiers
      PROVE  <<d, u>> \in V <=> <<d, u>> \in U \ {x}
  <2>1. <<d, u>> \in V <=> <<Key(d, FALSE), u>> \in held \ {k}
    BY PlainOfAny
  <2>2. <<d, u>> \in U <=> <<Key(d, FALSE), u>> \in held
    BY PlainOfAny
  <2>3. <<Key(d, FALSE), u>> = k <=> <<d, u>> = x
    BY <1>1
  <2> HIDE DEF U, V, k, x
  <2>4. QED
    BY <2>1, <2>2, <2>3
<1> HIDE DEF U, V, x
<1>5. U \ {x} \in SUBSET Facts
  BY <1>2, <1>3
<1>6. V = U \ {x}
  BY <1>3, <1>4, <1>5, SameFacts
<1>7. QED
  BY <1>6 DEF U, V, x

LEMMA PlainOfLoraKey ==
    ASSUME NEW held, NEW b, NEW t
    PROVE  PlainOf(held \ {<<Key(b, TRUE), t>>}) = PlainOf(held)
<1>1. \A d, u : <<Key(d, FALSE), u>> # <<Key(b, TRUE), t>>
  BY DEF Key
<1>2. QED
  BY <1>1 DEF PlainOf

\* The cached prefix of a chain is the longest: its next block is not cached.
LEMMA CachedPrefixIsLongest ==
    ASSUME NEW e \in Engines, NEW chain \in Blocks, NEW lora,
           CachedPrefix(e, chain, lora) < Len(chain)
    PROVE  LET from == CachedPrefix(e, chain, lora) IN
           /\ from \in 0..(Len(chain) - 1)
           /\ \A m \in 1..from : Cached(e, Prefix(chain, m), lora, "gpu")
           /\ ~Cached(e, Prefix(chain, from + 1), lora, "gpu")
<1> DEFINE S == {n \in 0..Len(chain) : \A m \in 1..n : Cached(e, Prefix(chain, m), lora, "gpu")}
           from == CachedPrefix(e, chain, lora)
<1>1. Len(chain) \in Nat
  BY ListenerConstantsAssumption
<1>2. 0 \in S /\ S \in SUBSET (0..Len(chain))
  BY <1>1
<1>3. \E x \in S : \A y \in S : x >= y
  <2> HIDE DEF S
  <2>1. \E x \in S : \A y \in S : y <= x
    BY <1>1, <1>2, LastOf
  <2>2. QED
    BY <1>2, <2>1
<1>4. from \in S /\ \A y \in S : from >= y
  BY <1>3 DEF CachedPrefix, Max
<1> HIDE DEF from
<1>5. from \in 0..(Len(chain) - 1) /\ \A m \in 1..from : Cached(e, Prefix(chain, m), lora, "gpu")
  BY <1>1, <1>4 DEF from
<1>6. from + 1 \notin S
  BY <1>4, <1>5
<1>7. ~Cached(e, Prefix(chain, from + 1), lora, "gpu")
  <2> SUFFICES ASSUME Cached(e, Prefix(chain, from + 1), lora, "gpu") PROVE from + 1 \in S
    BY <1>6
  <2>1. from + 1 \in 0..Len(chain)
    BY <1>1, <1>5
  <2>2. \A m \in 1..(from + 1) : m \in 1..from \/ m = from + 1
    BY <1>5
  <2>3. QED
    BY <1>5, <2>1, <2>2
<1>8. QED
  BY <1>5, <1>7 DEF from

\* An engine stores what follows the blocks it has, and none of it is there.
LEMMA StoreContinues ==
    ASSUME NEW e \in Engines, NEW chain \in Blocks, CachedPrefix(e, chain, FALSE) < Len(chain),
           NEW U, U = PlainOf(cache[e]), Closed(U)
    PROVE  LET from == CachedPrefix(e, chain, FALSE) IN
           /\ from \in 0..(Len(chain) - 1)
           /\ from > 0 => <<Prefix(chain, from), "gpu">> \in U
           /\ U \cap Grown(chain, from) = {}
<1> DEFINE from == CachedPrefix(e, chain, FALSE)
<1>1. /\ from \in 0..(Len(chain) - 1)
      /\ \A m \in 1..from : Cached(e, Prefix(chain, m), FALSE, "gpu")
      /\ ~Cached(e, Prefix(chain, from + 1), FALSE, "gpu")
  BY CachedPrefixIsLongest
<1> HIDE DEF from
<1>2. Len(chain) \in Nat /\ "gpu" \in Tiers
  BY ListenerConstantsAssumption
<1>3. \A m \in 1..Len(chain) : <<Prefix(chain, m), "gpu">> \in U <=> Cached(e, Prefix(chain, m), FALSE, "gpu")
  BY <1>2, PrefixFacts, PlainOfAny DEF Cached
<1>4. ASSUME from > 0
      PROVE  <<Prefix(chain, from), "gpu">> \in U
  <2>1. from \in 1..from /\ from \in 1..Len(chain)
    BY <1>1, <1>2, <1>4
  <2>2. QED
    BY <1>1, <1>3, <2>1
<1>5. ASSUME NEW m \in (from + 1)..Len(chain), <<Prefix(chain, m), "gpu">> \in U
      PROVE  FALSE
  <2> DEFINE d == Prefix(chain, m)
  <2>1. m \in 1..Len(chain) /\ from + 1 \in 1..m /\ from + 1 \in 1..Len(chain)
    BY <1>1, <1>2
  <2>2. d \in Blocks /\ Len(d) = m /\ Prefix(d, from + 1) = Prefix(chain, from + 1)
    BY <2>1, PrefixFacts
  <2>3. <<d, "gpu">> \in U
    BY <1>5
  <2> HIDE DEF d
  <2>4. <<Prefix(d, from + 1), "gpu">> \in U
    BY <2>1, <2>2, <2>3 DEF Closed
  <2>5. QED
    BY <1>1, <1>3, <2>1, <2>2, <2>4
<1>6. U \cap Grown(chain, from) = {}
  BY <1>5 DEF Grown
<1>7. QED
  BY <1>1, <1>4, <1>6 DEF from

\* One event, or two one after the other, that tell how U becomes V.
Tells(offload, U, events, V) ==
    \/ \E ev \in Events : events = <<ev>> /\ Does(offload, U, ev, V)
    \/ \E ev1 \in Events, ev2 \in Events : \E W :
          events = <<ev1, ev2>> /\ Does(offload, U, ev1, W) /\ Does(offload, W, ev2, V)

\* What the types say of a setup.
LEMMA SetupFacts ==
    ASSUME LTyped
    PROVE  /\ setup \in Setups /\ setup.offload \in BOOLEAN /\ setup.replay \in BOOLEAN
           /\ setup.offload => "cpu" \in Tiers
           /\ setup.loraBlocks \subseteq LoraBlocks
           /\ setup.replayCap \in Nat
BY ListenerConstantsAssumption DEF LTyped, EngineTyped, LoraBlocks

\* A store of a block is an event.
LEMMA StoredIsEvent ==
    ASSUME NEW chain, NEW n \in 0..(Len(chain) - 1)
    PROVE  /\ chain \in Blocks => Stored(chain, FALSE, n, "gpu") \in Events
           /\ chain \in LoraBlocks => Stored(chain, TRUE, n, "gpu") \in LoraStores
<1>1. ASSUME chain \in LoraBlocks
      PROVE  Stored(chain, TRUE, n, "gpu") \in LoraStores
  <2>1. Stored(chain, TRUE, n, "gpu") \in {Stored(chain, TRUE, m, "gpu") : m \in 0..(Len(chain) - 1)}
    BY Zenon
  <2>2. QED
    BY <1>1, <2>1, Zenon DEF LoraStores
<1>2. ASSUME chain \in Blocks
      PROVE  Stored(chain, FALSE, n, "gpu") \in Events
  <2>1. Stored(chain, FALSE, n, "gpu") \in {Stored(chain, FALSE, m, "gpu") : m \in 0..(Len(chain) - 1)}
    BY Zenon
  <2>2. QED
    BY <1>2, <2>1, Zenon DEF Events, PlainStores
<1>3. QED
  BY <1>1, <1>2

\* What a removal tells, of a block with or without an adapter.
LEMMA EvictionTells ==
    ASSUME NEW e \in Engines, NEW held \in cache[e], cache[e] \subseteq Keys \X Tiers, Evictable(e, held),
           NEW offload
    PROVE  /\ RemovedEvent(held[1], held[2]) \in Events
           /\ Does(offload, PlainOf(cache[e]), RemovedEvent(held[1], held[2]), PlainOf(cache[e] \ {held}))
           /\ \/ \E b \in Blocks : /\ held = <<Key(b, FALSE), held[2]>>
                                   /\ PlainOf(cache[e] \ {held}) = PlainOf(cache[e]) \ {<<b, held[2]>>}
              \/ PlainOf(cache[e] \ {held}) = PlainOf(cache[e])
<1>1. PICK key \in Keys, t \in Tiers : held = <<key, t>>
  OBVIOUS
<1> DEFINE ev == RemovedEvent(held[1], held[2])
<1>2. held[1] = key /\ held[2] = t /\ ev = RemovedEvent(key, t)
  BY <1>1
<1>3. ev \in Removals
  BY <1>2 DEF Removals
<1>4. ev \in Events
  BY <1>3 DEF Events
<1>5. ASSUME NEW b \in Blocks, key = Key(b, FALSE)
      PROVE  /\ Does(offload, PlainOf(cache[e]), ev, PlainOf(cache[e] \ {held}))
             /\ held = <<Key(b, FALSE), held[2]>>
             /\ PlainOf(cache[e] \ {held}) = PlainOf(cache[e]) \ {<<b, held[2]>>}
  <2>1. PlainOf(cache[e] \ {held}) = PlainOf(cache[e]) \ {<<b, t>>}
    <3>1. PlainOf(cache[e] \ {<<Key(b, FALSE), t>>}) = PlainOf(cache[e]) \ {<<b, t>>}
      BY PlainOfLess, Zenon
    <3>2. QED
      BY <1>1, <1>5, <3>1
  <2>2. \A d \in Blocks : <<d, t>> \in PlainOf(cache[e]) => ~IsStrictPrefix(b, d)
    <3> SUFFICES ASSUME NEW d \in Blocks, <<d, t>> \in PlainOf(cache[e])
                 PROVE  ~IsStrictPrefix(b, d)
      OBVIOUS
    <3> DEFINE other == <<Key(d, FALSE), t>>
    <3>1. other \in cache[e]
      BY PlainOfAny
    <3>2. key.lora = FALSE /\ key.chain = b /\ Key(d, FALSE).lora = FALSE /\ Key(d, FALSE).chain = d
      BY <1>5 DEF Key
    <3>3. other[2] = held[2] /\ other[1].lora = held[1].lora /\ held[1].chain = b /\ other[1].chain = d
      BY <1>2, <3>2
    <3> HIDE DEF other
    <3>4. QED
      BY <3>1, <3>3 DEF Evictable
  <2>3. Does(offload, PlainOf(cache[e]), ev, PlainOf(cache[e] \ {held}))
    <3> DEFINE U == PlainOf(cache[e])
               V == PlainOf(cache[e] \ {held})
    <3>1. ev = RemovedEvent(Key(b, FALSE), t)
      BY <1>2, <1>5
    <3> HIDE DEF U, V, ev
    <3>2. QED
      BY <2>1, <2>2, <3>1 DEF Does, U, V
  <2>4. QED
    BY <1>1, <1>2, <1>5, <2>1, <2>3
<1>6. ASSUME NEW b \in LoraBlocks, key = Key(b, TRUE)
      PROVE  /\ Does(offload, PlainOf(cache[e]), ev, PlainOf(cache[e] \ {held}))
             /\ PlainOf(cache[e] \ {held}) = PlainOf(cache[e])
  <2>1. PlainOf(cache[e] \ {held}) = PlainOf(cache[e])
    BY <1>1, <1>6, PlainOfLoraKey
  <2>2. ev \in LoraRemovals
    <3>1. key \in LoraKeys
      BY <1>6 DEF LoraKeys
    <3>2. QED
      BY <1>2, <3>1 DEF LoraRemovals
  <2>3. Does(offload, PlainOf(cache[e]), ev, PlainOf(cache[e] \ {held}))
    <3> DEFINE U == PlainOf(cache[e])
               V == PlainOf(cache[e] \ {held})
    <3> HIDE DEF U, V, ev
    <3>1. QED
      BY <2>1, <2>2 DEF Does, U, V
  <2>4. QED
    BY <2>1, <2>3
<1>7. (\E b \in Blocks : key = Key(b, FALSE)) \/ (\E b \in LoraBlocks : key = Key(b, TRUE))
  BY DEF Keys, PlainKeys
<1>8. QED
  BY <1>4, <1>5, <1>6, <1>7

\* Every batch an engine publishes tells what it did to its plain blocks.
LEMMA EngineTells ==
    ASSUME LTyped, NEW e \in Engines, EngineActs(e), ~EngineRestart(e), Closed(Plain(e))
    PROVE  \E events : \E after : Publish(e, events, after) /\ Tells(setup.offload, Plain(e), events, PlainOf(after))
<1> DEFINE U == PlainOf(cache[e])
           Goal == \E events : \E after :
                       Publish(e, events, after) /\ Tells(setup.offload, U, events, PlainOf(after))
<1>1. /\ cache[e] \subseteq Keys \X Tiers
      /\ Closed(U) /\ Plain(e) = U
  BY PlainIs DEF LTyped, EngineTyped
<1>2. SUFFICES Goal
  BY <1>1
<1> HIDE DEF U
<1>3. ASSUME NEW chain \in Blocks, EngineStore(e, chain, FALSE)
      PROVE  Goal
  <2> DEFINE from == CachedPrefix(e, chain, FALSE)
             ev == Stored(chain, FALSE, from, "gpu")
             after == cache[e] \cup NewBlocks(chain, FALSE, from)
  <2>1. from < Len(chain) /\ Publish(e, <<ev>>, after)
    BY <1>3 DEF EngineStore
  <2>2. /\ from \in 0..(Len(chain) - 1)
        /\ from > 0 => <<Prefix(chain, from), "gpu">> \in U
        /\ U \cap Grown(chain, from) = {}
    BY <1>1, <2>1, StoreContinues DEF U
  <2> HIDE DEF from
  <2>3. PlainOf(after) = U \cup Grown(chain, from)
    BY <2>2, PlainOfStored DEF U
  <2>4. ev \in Events
    BY <2>2, StoredIsEvent
  <2>5. Does(setup.offload, U, ev, PlainOf(after))
    BY <2>2, <2>3 DEF Does
  <2> HIDE DEF ev, after
  <2>6. Tells(setup.offload, U, <<ev>>, PlainOf(after))
    BY <2>4, <2>5 DEF Tells
  <2>7. QED
    BY <2>1, <2>6
<1>4. ASSUME NEW chain \in setup.loraBlocks, EngineStore(e, chain, TRUE)
      PROVE  Goal
  <2> DEFINE from == CachedPrefix(e, chain, TRUE)
             ev == Stored(chain, TRUE, from, "gpu")
             after == cache[e] \cup NewBlocks(chain, TRUE, from)
  <2>1. from < Len(chain) /\ Publish(e, <<ev>>, after)
    BY <1>4 DEF EngineStore
  <2>2. chain \in LoraBlocks /\ Len(chain) \in Nat
    BY SetupFacts, ListenerConstantsAssumption
  <2>3. from \in 0..(Len(chain) - 1)
    <3>1. from \in 0..Len(chain)
      BY <2>2, CachedPrefixType
    <3> HIDE DEF from
    <3>2. QED
      BY <2>1, <2>2, <3>1
  <2> HIDE DEF from
  <2>4. PlainOf(after) = U
    BY PlainOfLoraStored DEF U
  <2>5. ev \in LoraStores
    BY <2>2, <2>3, StoredIsEvent
  <2> HIDE DEF ev, after
  <2>6. ev \in Events
    BY <2>5 DEF Events
  <2>7. Does(setup.offload, U, ev, PlainOf(after))
    BY <2>4, <2>5 DEF Does
  <2>8. Tells(setup.offload, U, <<ev>>, PlainOf(after))
    BY <2>6, <2>7 DEF Tells
  <2>9. QED
    BY <2>1, <2>8
<1>5. ASSUME NEW b \in Blocks, EngineOffload(e, Key(b, FALSE))
      PROVE  Goal
  <2> DEFINE key == Key(b, FALSE)
             ev == StoredByKey(key, "cpu")
             after == cache[e] \cup {<<key, "cpu">>}
  <2>1. setup.offload /\ <<key, "gpu">> \in cache[e] /\ Publish(e, <<ev>>, after)
    BY <1>5 DEF EngineOffload
  <2>2. "cpu" \in Tiers /\ "gpu" \in Tiers
    BY <2>1, SetupFacts, ListenerConstantsAssumption
  <2>3. PlainOf(after) = U \cup {<<b, "cpu">>}
    <3>1. PlainOf(cache[e] \cup {<<Key(b, FALSE), "cpu">>}) = PlainOf(cache[e]) \cup {<<b, "cpu">>}
      BY <2>2, PlainOfMore, ZenonT(30)
    <3>2. QED
      BY <3>1 DEF U
  <2>4. <<b, "gpu">> \in U
    BY <2>1, <2>2, PlainOfAny DEF U
  <2>5. ev \in Events
    <3>1. key \in PlainKeys
      BY DEF PlainKeys
    <3> HIDE DEF key
    <3>2. ev \in Offloads
      BY <2>2, <3>1 DEF Offloads
    <3> HIDE DEF ev
    <3>3. QED
      BY <3>2 DEF Events
  <2> HIDE DEF after
  <2>6. Does(setup.offload, U, ev, PlainOf(after))
    BY <2>1, <2>3, <2>4 DEF Does
  <2> HIDE DEF ev, key
  <2>7. Tells(setup.offload, U, <<ev>>, PlainOf(after))
    BY <2>5, <2>6 DEF Tells
  <2>8. QED
    BY <2>1, <2>7
<1>6. ASSUME NEW held \in cache[e], EngineEvict(e, held)
      PROVE  Goal
  <2> DEFINE ev == RemovedEvent(held[1], held[2])
             after == cache[e] \ {held}
  <2>1. Evictable(e, held) /\ Publish(e, <<ev>>, after)
    BY <1>6 DEF EngineEvict
  <2>2. ev \in Events /\ Does(setup.offload, U, ev, PlainOf(after))
    BY <1>1, <2>1, EvictionTells DEF U
  <2> HIDE DEF ev, after
  <2>3. Tells(setup.offload, U, <<ev>>, PlainOf(after))
    BY <2>2 DEF Tells
  <2>4. QED
    BY <2>1, <2>3
<1>7. ASSUME NEW held \in cache[e], NEW chain \in Blocks, EngineReplace(e, held, chain)
      PROVE  Goal
  <2> DEFINE from == CachedPrefix(e, chain, FALSE)
             ev1 == RemovedEvent(held[1], held[2])
             ev2 == Stored(chain, FALSE, from, "gpu")
             left == cache[e] \ {held}
             after == left \cup NewBlocks(chain, FALSE, from)
             W == PlainOf(left)
  <2>1. /\ from < Len(chain) /\ Evictable(e, held) /\ held[2] = "gpu" /\ ~IsPrefix(held[1].chain, chain)
        /\ Publish(e, <<ev1, ev2>>, after)
    BY <1>7 DEF EngineReplace
  <2>2. /\ from \in 0..(Len(chain) - 1)
        /\ from > 0 => <<Prefix(chain, from), "gpu">> \in U
        /\ U \cap Grown(chain, from) = {}
    BY <1>1, <2>1, StoreContinues DEF U
  <2> HIDE DEF from
  <2>3. /\ ev1 \in Events /\ Does(setup.offload, U, ev1, W)
        /\ \/ \E b \in Blocks : held = <<Key(b, FALSE), held[2]>> /\ W = U \ {<<b, held[2]>>}
           \/ W = U
    BY <1>1, <2>1, EvictionTells DEF U
  <2>4. from > 0 => <<Prefix(chain, from), "gpu">> \in W
    <3> SUFFICES ASSUME from > 0, NEW b \in Blocks, held = <<Key(b, FALSE), held[2]>>,
                        W = U \ {<<b, "gpu">>}
                 PROVE  Prefix(chain, from) # b
      <4> HIDE DEF W, left
      <4>1. QED
        BY <2>1, <2>2, <2>3
    <3>1. \A x, y : <<x, y>>[1] = x
      OBVIOUS
    <3>2. held[1] = Key(b, FALSE)
      BY <3>1
    <3>3. held[1].chain = b
      BY <3>2 DEF Key
    <3>4. Len(chain) \in Nat /\ from \in 1..Len(chain)
      BY <2>2, ListenerConstantsAssumption
    <3>5. Prefix(chain, from) # chain => IsStrictPrefix(Prefix(chain, from), chain)
      BY <2>2, <3>4, PrefixFacts
    <3>6. from < Len(chain)
      BY <2>2, <3>4
    <3>7. IsPrefix(Prefix(chain, from), chain)
      BY <3>4, <3>6, PrefixFacts DEF IsStrictPrefix
    <3>8. QED
      BY <2>1, <3>3, <3>7
  <2>5. W \cap Grown(chain, from) = {}
    <3> HIDE DEF W, left
    <3>1. QED
      BY <2>2, <2>3
  <2>6. PlainOf(after) = W \cup Grown(chain, from)
    BY <2>2, PlainOfStored
  <2>7. ev2 \in Events
    BY <2>2, StoredIsEvent
  <2> HIDE DEF after, W, left
  <2>8. Does(setup.offload, W, ev2, PlainOf(after))
    BY <2>2, <2>4, <2>5, <2>6 DEF Does
  <2> HIDE DEF ev1, ev2
  <2>9. Tells(setup.offload, U, <<ev1, ev2>>, PlainOf(after))
    BY <2>3, <2>7, <2>8 DEF Tells
  <2>10. QED
    BY <2>1, <2>9
<1>8. ASSUME EngineClear(e)
      PROVE  Goal
  <2>1. Publish(e, <<Cleared>>, {})
    BY <1>8 DEF EngineClear
  <2>2. PlainOf({}) = {} /\ Cleared \in Events
    BY DEF PlainOf, Events
  <2>3. Does(setup.offload, U, Cleared, PlainOf({}))
    BY <2>2 DEF Does
  <2>4. Tells(setup.offload, U, <<Cleared>>, PlainOf({}))
    BY <2>2, <2>3 DEF Tells
  <2>5. QED
    BY <2>1, <2>4
<1>9. QED
  <2> HIDE DEF Goal
  <2>1. QED
    BY <1>3, <1>4, <1>5, <1>6, <1>7, <1>8 DEF EngineActs

-----------------------------------------------------------------------------
(***************************************************************************)
(* The batches of a story.  A batch told at the end makes it longer.       *)
(***************************************************************************)

\* A batch carries its number and the events of the story from a to b - 1.
Carries(batch, seq, E, a, b) == batch.seq = seq /\ batch.events = Stretch(E, a, b)

\* The story of an engine after N batches, and the batches: the j-th tells the
\* events from at[j] on.
Told(offload, N, held, E, F, at, B) ==
    /\ at \in [Nat -> Nat] /\ B \in [Nat -> Batches]
    /\ at[0] = 0
    /\ \A j \in 0..N : \A i \in 0..j : at[i] <= at[j]
    /\ Tale(offload, E, F, at[N])
    /\ F[at[N]] = held
    /\ \A j \in 0..(N - 1) : Carries(B[j], j, E, at[j], at[j + 1])

\* The story up to the N-th batch is the same.
SameStart(N, E, F, at, E2, F2, at2) ==
    /\ \A i \in 0..N : at2[i] = at[i]
    /\ \A i \in 0..(at[N] - 1) : E2[i] = E[i]
    /\ \A i \in 0..at[N] : F2[i] = F[i]
    /\ at[N] <= at2[N + 1]

\* Later batches begin at later events.
LEMMA ToldOrder ==
    ASSUME NEW offload, NEW N \in Nat, NEW held, NEW E, NEW F, NEW at, NEW B, Told(offload, N, held, E, F, at, B),
           NEW j \in 0..N, NEW i \in 0..j
    PROVE  at[i] \in Nat /\ at[j] \in Nat /\ at[i] <= at[j] /\ at[j] <= at[N]
<1>1. at \in [Nat -> Nat] /\ i \in Nat /\ j \in Nat /\ N \in 0..N /\ j \in 0..N
  BY DEF Told
<1>2. \A y \in 0..N : \A x \in 0..y : at[x] <= at[y]
  BY DEF Told
<1>3. QED
  BY <1>1, <1>2

\* The story goes on, to the end of a batch.
GoesOn(offload, N, V, E, F, at, B, E2, F2, at2, B2) ==
    /\ SameStart(N, E, F, at, E2, F2, at2)
    /\ at2 \in [Nat -> Nat] /\ B2 \in [Nat -> Batches]
    /\ Tale(offload, E2, F2, at2[N + 1]) /\ F2[at2[N + 1]] = V
    /\ \A j \in 0..(N - 1) : B2[j] = B[j]
    /\ Carries(B2[N], N, E2, at[N], at2[N + 1])

\* A story that goes on is a story.
LEMMA ToldGoesOn ==
    ASSUME NEW offload, NEW N \in Nat, NEW held, NEW E, NEW F, NEW at, NEW B, Told(offload, N, held, E, F, at, B),
           NEW E2, NEW F2, NEW at2, NEW B2, NEW V, GoesOn(offload, N, V, E, F, at, B, E2, F2, at2, B2)
    PROVE  Told(offload, N + 1, V, E2, F2, at2, B2)
<1>1. at \in [Nat -> Nat] /\ B \in [Nat -> Batches] /\ at[0] = 0
  BY DEF Told
<1>2. \A i \in 0..(at[N] - 1) : E2[i] = E[i]
  BY DEF GoesOn, SameStart
<1>3. (\A i \in 0..N : at2[i] = at[i]) /\ at[N] <= at2[N + 1]
  BY DEF GoesOn, SameStart
<1>4. at2[0] = 0
  BY <1>1, <1>3
<1>5. \A j \in 0..(N + 1) : \A i \in 0..j : at2[i] <= at2[j]
  <2> SUFFICES ASSUME NEW j \in 0..(N + 1), NEW i \in 0..j
               PROVE  at2[i] <= at2[j]
    OBVIOUS
  <2>1. CASE j \in 0..N
    <3>1. at[i] <= at[j] /\ i \in 0..N
      BY <2>1, ToldOrder
    <3>2. QED
      BY <1>3, <2>1, <3>1
  <2>2. CASE j = N + 1 /\ i \in 0..N
    <3>1. at[i] <= at[N] /\ at[i] \in Nat /\ at[N] \in Nat
      BY <2>2, ToldOrder
    <3>2. QED
      BY <1>3, <2>2, <3>1 DEF GoesOn
  <2>3. CASE j = N + 1 /\ i = N + 1
    BY <1>3, <2>3 DEF GoesOn
  <2>4. QED
    BY <2>1, <2>2, <2>3
<1>6. \A j \in 0..((N + 1) - 1) : Carries(B2[j], j, E2, at2[j], at2[j + 1])
  <2> SUFFICES ASSUME NEW j \in 0..N
               PROVE  Carries(B2[j], j, E2, at2[j], at2[j + 1])
    OBVIOUS
  <2>1. CASE j = N
    BY <1>3, <2>1 DEF GoesOn
  <2>2. CASE j \in 0..(N - 1)
    <3>1. Carries(B2[j], j, E, at[j], at[j + 1])
      <4>1. Carries(B[j], j, E, at[j], at[j + 1])
        BY <2>2 DEF Told
      <4>2. B2[j] = B[j]
        BY <2>2 DEF GoesOn
      <4>3. QED
        BY <4>1, <4>2
    <3>2. j + 1 \in 0..N /\ j \in 0..(j + 1)
      BY <2>2
    <3>3. at[j] \in Nat /\ at[j + 1] \in Nat /\ at[j] <= at[j + 1] /\ at[j + 1] <= at[N] /\ at[N] \in Nat
      BY <1>1, <3>2, ToldOrder
    <3>4. \A i \in at[j]..(at[j + 1] - 1) : E[i] = E2[i]
      BY <1>2, <3>3
    <3>5. Stretch(E, at[j], at[j + 1]) = Stretch(E2, at[j], at[j + 1])
      BY <3>3, <3>4, StretchSame, ZenonT(40)
    <3>6. QED
      BY <1>3, <3>1, <3>2, <3>5 DEF Carries
  <2>3. QED
    BY <2>1, <2>2
<1>7. QED
  BY <1>4, <1>5, <1>6 DEF Told, GoesOn

\* A batch more.
LEMMA ToldGrows ==
    ASSUME NEW offload \in BOOLEAN, offload => "cpu" \in Tiers,
           NEW N \in Nat, NEW held, NEW E, NEW F, NEW at, NEW B, Told(offload, N, held, E, F, at, B),
           NEW events, NEW V, Tells(offload, held, events, V), NEW ok \in BOOLEAN
    PROVE  \E E2, F2, at2 :
               /\ Told(offload, N + 1, V, E2, F2, at2,
                       [B EXCEPT ![N] = [seq |-> N, events |-> events, ok |-> ok]])
               /\ SameStart(N, E, F, at, E2, F2, at2)
<1> DEFINE T == at[N]
           B2 == [B EXCEPT ![N] = [seq |-> N, events |-> events, ok |-> ok]]
<1>1. /\ T \in Nat /\ Tale(offload, E, F, T) /\ F[T] = held
      /\ E \in [Nat -> Events] /\ F \in [Nat -> SUBSET Facts]
  BY DEF Told, Tale
<1> HIDE DEF T
<1>2. SUFFICES \E E2, F2 : \E T2 \in Nat :
                  /\ T <= T2 /\ Tale(offload, E2, F2, T2) /\ F2[T2] = V
                  /\ \A i \in 0..(T - 1) : E2[i] = E[i]
                  /\ \A i \in 0..T : F2[i] = F[i]
                  /\ events = Stretch(E2, T, T2)
                  /\ events \in Seq(Events)
  <2>1. PICK E2, F2 : \E T2 \in Nat :
                  /\ T <= T2 /\ Tale(offload, E2, F2, T2) /\ F2[T2] = V
                  /\ \A i \in 0..(T - 1) : E2[i] = E[i]
                  /\ \A i \in 0..T : F2[i] = F[i]
                  /\ events = Stretch(E2, T, T2)
                  /\ events \in Seq(Events)
    BY <1>2
  <2>2. PICK T2 \in Nat :
                  /\ T <= T2 /\ Tale(offload, E2, F2, T2) /\ F2[T2] = V
                  /\ \A i \in 0..(T - 1) : E2[i] = E[i]
                  /\ \A i \in 0..T : F2[i] = F[i]
                  /\ events = Stretch(E2, T, T2)
                  /\ events \in Seq(Events)
    BY <2>1
  <2> DEFINE msg == [seq |-> N, events |-> events, ok |-> ok]
  <2>3. at \in [Nat -> Nat] /\ B \in [Nat -> Batches]
    BY DEF Told
  <2>4. msg \in Batches /\ msg.seq = N /\ msg.events = events
    BY <2>2 DEF Batches
  <2>5. PICK C \in [Nat -> Batches] : C = B2 /\ (\A j \in 0..(N - 1) : C[j] = B[j]) /\ C[N] = msg
    <3>1. B2 = [B EXCEPT ![N] = msg]
      OBVIOUS
    <3> HIDE DEF msg, B2
    <3>2. B2 \in [Nat -> Batches]
      BY <2>3, <2>4, <3>1
    <3>3. (\A j \in 0..(N - 1) : B2[j] = B[j]) /\ B2[N] = msg
      BY <2>3, <3>1
    <3>4. QED
      BY <3>2, <3>3
  <2> HIDE DEF msg, B2
  <2>6. PICK at2 \in [Nat -> Nat] : (\A i \in 0..N : at2[i] = at[i]) /\ at2[N + 1] = T2
    <3> DEFINE x == [at EXCEPT ![N + 1] = T2]
    <3>1. x \in [Nat -> Nat]
      BY <2>3
    <3>2. x[N + 1] = T2
      BY <2>3
    <3>3. \A i \in 0..N : x[i] = at[i]
      <4>1. \A i \in 0..N : i \in Nat /\ i # N + 1
        OBVIOUS
      <4>2. QED
        BY <2>3, <4>1
    <3> HIDE DEF x
    <3>4. QED
      BY <3>1, <3>2, <3>3
  <2>7. SameStart(N, E, F, at, E2, F2, at2)
    BY <2>2, <2>6 DEF SameStart, T
  <2>8. Told(offload, N + 1, V, E2, F2, at2, C)
    <3>1. Tale(offload, E2, F2, at2[N + 1]) /\ F2[at2[N + 1]] = V
      BY <2>2, <2>6
    <3>2. Carries(C[N], N, E2, at[N], at2[N + 1])
      BY <2>2, <2>4, <2>5, <2>6 DEF T, Carries
    <3>3. GoesOn(offload, N, V, E, F, at, B, E2, F2, at2, C)
      BY <2>5, <2>6, <2>7, <3>1, <3>2 DEF GoesOn
    <3>4. QED
      BY <3>3, ToldGoesOn
  <2>9. QED
    BY <2>5, <2>7, <2>8 DEF B2
<1>3. ASSUME NEW ev \in Events, events = <<ev>>, Does(offload, held, ev, V)
      PROVE  \E E2, F2 : \E T2 \in Nat :
                  /\ T <= T2 /\ Tale(offload, E2, F2, T2) /\ F2[T2] = V
                  /\ \A i \in 0..(T - 1) : E2[i] = E[i]
                  /\ \A i \in 0..T : F2[i] = F[i]
                  /\ events = Stretch(E2, T, T2)
                  /\ events \in Seq(Events)
  <2> DEFINE E2 == [E EXCEPT ![T] = ev]
             F2 == [F EXCEPT ![T + 1] = V]
  <2>1. Tale(offload, E2, F2, T + 1)
    BY <1>1, <1>3, TaleGrows
  <2>2. F2[T + 1] = V /\ (\A i \in 0..T : F2[i] = F[i]) /\ E2[T] = ev /\ \A i \in 0..(T - 1) : E2[i] = E[i]
    BY <1>1
  <2> HIDE DEF E2, F2
  <2>3. events = Stretch(E2, T, T + 1)
    <3>1. (T + 1) - T = 1 /\ (T + 1) - 1 = T
      BY <1>1
    <3>2. Stretch(E2, T, T + 1) = [i \in 1..1 |-> E2[T + i - 1]]
      BY <3>1 DEF Stretch
    <3>3. [i \in 1..1 |-> E2[T + i - 1]] = <<ev>>
      BY <1>1, <2>2
    <3>4. QED
      BY <1>3, <3>2, <3>3
  <2>4. events \in Seq(Events) /\ T + 1 \in Nat /\ T <= T + 1
    BY <1>1, <1>3
  <2>5. QED
    BY <2>1, <2>2, <2>3, <2>4
<1>4. ASSUME NEW ev1 \in Events, NEW ev2 \in Events, NEW W, events = <<ev1, ev2>>,
             Does(offload, held, ev1, W), Does(offload, W, ev2, V)
      PROVE  \E E2, F2 : \E T2 \in Nat :
                  /\ T <= T2 /\ Tale(offload, E2, F2, T2) /\ F2[T2] = V
                  /\ \A i \in 0..(T - 1) : E2[i] = E[i]
                  /\ \A i \in 0..T : F2[i] = F[i]
                  /\ events = Stretch(E2, T, T2)
                  /\ events \in Seq(Events)
  <2> DEFINE E1 == [E EXCEPT ![T] = ev1]
             F1 == [F EXCEPT ![T + 1] = W]
             E2 == [E1 EXCEPT ![T + 1] = ev2]
             F2 == [F1 EXCEPT ![(T + 1) + 1] = V]
  <2>1. Tale(offload, E1, F1, T + 1)
    BY <1>1, <1>4, TaleGrows
  <2>2. Tale(offload, E1, F1, T + 1) /\ T + 1 \in Nat
    BY <1>1, <2>1
  <2>3. F1[T + 1] = W /\ (\A i \in 0..T : F1[i] = F[i]) /\ E1[T] = ev1 /\ \A i \in 0..(T - 1) : E1[i] = E[i]
    BY <1>1
  <2> HIDE DEF E1, F1
  <2>4. Tale(offload, E2, F2, (T + 1) + 1)
    BY <1>4, <2>2, <2>3, TaleGrows
  <2>5. /\ F2[(T + 1) + 1] = V /\ (\A i \in 0..(T + 1) : F2[i] = F1[i])
        /\ E2[T + 1] = ev2 /\ \A i \in 0..T : E2[i] = E1[i]
    BY <2>2, <1>1 DEF Tale
  <2> HIDE DEF E2, F2
  <2>6. /\ \A i \in 0..(T - 1) : E2[i] = E[i]
        /\ \A i \in 0..T : F2[i] = F[i]
        /\ E2[T] = ev1
    BY <1>1, <2>3, <2>5
  <2>7. events = Stretch(E2, T, T + 2)
    <3>1. (T + 2) - T = 2 /\ T + 1 - 1 = T /\ T + 2 - 1 = T + 1
      BY <1>1
    <3>2. Stretch(E2, T, T + 2) = [i \in 1..2 |-> E2[T + i - 1]]
      BY <3>1 DEF Stretch
    <3>3. [i \in 1..2 |-> E2[T + i - 1]] = <<ev1, ev2>>
      BY <1>1, <2>5, <2>6
    <3>4. QED
      BY <1>4, <3>2, <3>3
  <2>8. events \in Seq(Events) /\ T + 2 \in Nat /\ T <= T + 2 /\ T + 2 = (T + 1) + 1
    BY <1>1, <1>4
  <2>9. QED
    BY <2>4, <2>5, <2>6, <2>7, <2>8
<1>5. QED
  BY <1>3, <1>4 DEF Tells

-----------------------------------------------------------------------------
(***************************************************************************)
(* Where the listener of an engine is in its story.                        *)
(*   a    the first batch still on the wire                                *)
(*   c    the next batch to be taken                                       *)
(*   k    the next event to be ingested                                    *)
(*   top  the end of the batches under way: of the replay, or all          *)
(***************************************************************************)

\* The story of an engine up to now.
Story(e, E, F, at, B) == Told(setup.offload, nextSeq[e], Plain(e), E, F, at, B)

\* All batches so far decode.
AllOk(e, B) == \A j \in 0..(nextSeq[e] - 1) : B[j].ok = TRUE

\* The listener has seen nothing yet.
Blank(e) == ingested[e] = {} /\ lastSeq[e] = NoSeq

\* Its phases.  It is not connected: nothing is under way.
Away(e, at, a, c, k) ==
    /\ sub[e] = FALSE /\ a = nextSeq[e] /\ k = at[c]
    /\ queue[e] = << >> /\ replayed[e] = << >>

\* It is connected and about to ask for a replay.
Asking(e, at, c, k) ==
    /\ setup.replay /\ sub[e] = TRUE /\ k = at[c]
    /\ queue[e] = << >> /\ replayed[e] = << >>

\* It receives the replay, which ends before batch top, while live batches from a
\* on wait.
Replaying(e, B, a, c, top) ==
    /\ setup.replay /\ sub[e] = TRUE
    /\ queue[e] = << >>
    /\ c <= top /\ a <= top /\ replayed[e] = Stretch(B, c, top)
    /\ AllOk(e, B) => lastSeq[e] \in {NoSeq, c - 1}

\* It receives live batches: those before a are in the queue or were taken.
Living(e, B, a, c, top) ==
    /\ sub[e] = TRUE
    /\ replayed[e] = << >>
    /\ c <= a /\ queue[e] = Stretch(B, c, a)
    /\ top = nextSeq[e]

Phase(e, at, B, a, c, top, k) ==
    \/ pc[e] = "stopped" /\ Away(e, at, a, c, k)
    \/ pc[e] = "dial" /\ Away(e, at, a, c, k) /\ Blank(e)
    \/ pc[e] = "request" /\ Asking(e, at, c, k) /\ Blank(e)
    \/ pc[e] = "replay" /\ Replaying(e, B, a, c, top)
    \/ pc[e] = "live" /\ Living(e, B, a, c, top)

\* A place is within the story.
Bounds(e, at, a, c, top, k) ==
    a \in 0..nextSeq[e] /\ c \in 0..nextSeq[e] /\ top \in 0..nextSeq[e] /\ k \in 0..at[c]

\* The engine keeps the last batches for replay.
KeepsEnd(e, B) == \E first \in 0..nextSeq[e] : log[e] = Stretch(B, first, nextSeq[e])

\* What was ingested decoded and came before the last number tracked.
Counts(e, B) == lastSeq[e] < nextSeq[e] /\ \A j \in ingested[e] : j <= lastSeq[e] /\ B[j].ok = TRUE

\* What is under way is the rest of the story from the place of the listener on.
Placed(e, E, at, B, a, c, top, k) ==
    /\ Bounds(e, at, a, c, top, k)
    /\ wire[e] = Stretch(B, a, nextSeq[e])
    /\ KeepsEnd(e, B)
    /\ todo[e] = Stretch(E, k, at[c])
    /\ Counts(e, B)
    /\ Phase(e, at, B, a, c, top, k)

\* The index says of the engine only what was told.
Grounded(e, E, at) == \A x \in Indexed(e) : \E i \in 0..(at[nextSeq[e]] - 1) : x \in Touched(E[i])

\* What the index has wrong at place k of the story is told again up to place b.
Sure(e, E, F, k, b) ==
    \A x \in Facts :
        \/ x \in Indexed(e) <=> x \in F[k]
        \/ ~setup.offload /\ \E i \in k..(b - 1) : x \in Touched(E[i])

\* Nothing was missed so far.
Whole(e, B, c) ==
    AllOk(e, B) /\ pc[e] \in {"replay", "live"} /\ ingested[e] = 0..lastSeq[e] /\ c <= lastSeq[e] + 1

\* The listener follows the story.  The story is in no variable: it exists.
Follows(e, E, F, at, B, a, c, top, k) ==
    /\ Story(e, E, F, at, B)
    /\ Grounded(e, E, at)
    /\ Placed(e, E, at, B, a, c, top, k)
    /\ Whole(e, B, c) => Sure(e, E, F, k, at[top])

Followed(e) == \E E, F, at, B, a, c, top, k : Follows(e, E, F, at, B, a, c, top, k)

\* The faults that CaughtUpIsExact excepts.
Silent == {"connLost", "dropped", "profileGone", "engineRestarts"}
InScope == ~RepeatsOffloads /\ happened \cap Silent = {}

ExactInv == InScope => \A e \in Engines : Followed(e)

\* The numbers of a story and of a place in it.
LEMMA StoryNumbers ==
    ASSUME LTyped, NEW e \in Engines, NEW E, NEW F, NEW at, NEW B, Story(e, E, F, at, B)
    PROVE  /\ nextSeq[e] \in Nat
           /\ at \in [Nat -> Nat] /\ at[0] = 0 /\ F[0] = {}
           /\ B \in [Nat -> Batches] /\ E \in [Nat -> Events] /\ F \in [Nat -> SUBSET Facts]
BY DEF Story, Told, Tale, LTyped, EngineTyped

LEMMA PlaceNumbers ==
    ASSUME LTyped, NEW e \in Engines, NEW E, NEW F, NEW at, NEW B, Story(e, E, F, at, B),
           NEW a, NEW c, NEW top, NEW k, Bounds(e, at, a, c, top, k)
    PROVE  /\ nextSeq[e] \in Nat /\ a \in Nat /\ c \in Nat /\ top \in Nat /\ k \in Nat
           /\ a <= nextSeq[e] /\ c <= nextSeq[e] /\ top <= nextSeq[e]
           /\ at[a] \in Nat /\ at[c] \in Nat /\ at[top] \in Nat /\ at[nextSeq[e]] \in Nat
           /\ k <= at[c] /\ at[a] <= at[nextSeq[e]] /\ at[c] <= at[nextSeq[e]] /\ at[top] <= at[nextSeq[e]]
           /\ a <= c => at[a] <= at[c]
           /\ c <= top => at[c] <= at[top]
<1>1. nextSeq[e] \in Nat /\ at \in [Nat -> Nat]
  BY StoryNumbers
<1>2. a \in 0..nextSeq[e] /\ c \in 0..nextSeq[e] /\ top \in 0..nextSeq[e] /\ k \in 0..at[c]
  BY DEF Bounds
<1>3. \A j \in 0..nextSeq[e] : \A i \in 0..j : at[i] <= at[j]
  BY DEF Story, Told
<1>4. at[a] \in Nat /\ at[c] \in Nat /\ at[top] \in Nat /\ at[nextSeq[e]] \in Nat /\ k \in Nat /\ k <= at[c]
  BY <1>1, <1>2
<1>5. at[a] <= at[nextSeq[e]] /\ at[c] <= at[nextSeq[e]] /\ at[top] <= at[nextSeq[e]]
  BY <1>1, <1>2, <1>3
<1>6. a <= c => at[a] <= at[c]
  BY <1>1, <1>2, <1>3
<1>7. c <= top => at[c] <= at[top]
  BY <1>1, <1>2, <1>3
<1>8. QED
  BY <1>1, <1>2, <1>4, <1>5, <1>6, <1>7

\* The story is the engine's.
LEMMA StoryStays ==
    ASSUME NEW e, UNCHANGED <<setup, cache, nextSeq>>, NEW E, NEW F, NEW at, NEW B, Story(e, E, F, at, B)
    PROVE  Story(e, E, F, at, B)'
BY DEF Story, Plain, Cached

\* All a listener and its engine have.
Spot(e) == <<cache[e], nextSeq[e], log[e], wire[e], sub[e], pc[e], lastSeq[e], replayed[e], queue[e], todo[e],
             ingested[e]>>

\* What does not change keeps its place.
LEMMA SameSpot ==
    ASSUME NEW e, Followed(e), UNCHANGED setup, Spot(e)' = Spot(e), Indexed(e)' = Indexed(e)
    PROVE  Followed(e)'
<1>1. PICK E, F, at, B, a, c, top, k : Follows(e, E, F, at, B, a, c, top, k)
  BY DEF Followed
<1>2. Story(e, E, F, at, B)'
  BY <1>1 DEF Follows, Story, Plain, Cached, Spot
<1>3. Grounded(e, E, at)'
  BY <1>1 DEF Follows, Grounded, Spot
<1>4. Placed(e, E, at, B, a, c, top, k)'
  BY <1>1 DEF Follows, Placed, Bounds, KeepsEnd, Counts, Phase, Away, Blank, Asking, Replaying, Living, AllOk, Spot
<1>5. (Whole(e, B, c) => Sure(e, E, F, k, at[top]))'
  BY <1>1 DEF Follows, Whole, Sure, AllOk, Spot
<1>6. Follows(e, E, F, at, B, a, c, top, k)'
  BY <1>2, <1>3, <1>4, <1>5 DEF Follows
<1>7. QED
  BY <1>6 DEF Followed

\* At the beginning there is no story yet.
LEMMA InitFollowed == ASSUME LInit PROVE \A e \in Engines : Followed(e)
<1> SUFFICES ASSUME NEW e \in Engines PROVE Followed(e)
  OBVIOUS
<1> DEFINE E == [i \in Nat |-> Cleared]
           F == [i \in Nat |-> {}]
           at == [i \in Nat |-> 0]
           msg == [seq |-> 0, events |-> << >>, ok |-> TRUE]
           B == [i \in Nat |-> msg]
<1>1. E \in [Nat -> Events] /\ F \in [Nat -> SUBSET Facts] /\ at \in [Nat -> Nat]
  BY DEF Events
<1>2. B \in [Nat -> Batches]
  BY DEF Batches
<1>3. F[0] = {} /\ at[0] = 0
  OBVIOUS
<1>4. /\ nextSeq[e] = 0 /\ cache[e] = {} /\ log[e] = << >> /\ wire[e] = << >> /\ sub[e] = FALSE /\ pc[e] = "dial"
      /\ lastSeq[e] = NoSeq /\ replayed[e] = << >> /\ queue[e] = << >> /\ todo[e] = << >> /\ ingested[e] = {}
  BY DEF LInit
<1>5. Indexed(e) = {}
  BY DEF LInit, Init, Indexed, Holders
<1> HIDE DEF E, F, at, B
<1>6. Story(e, E, F, at, B)
  <2>1. Plain(e) = {} /\ Closed({})
    BY <1>4 DEF Plain, Cached, Closed
  <2>2. Tale(setup.offload, E, F, 0)
    <3>1. \A i \in 0..0 : i = 0
      OBVIOUS
    <3>2. \A i \in 0..(0 - 1) : FALSE
      OBVIOUS
    <3>3. QED
      BY <1>1, <1>3, <2>1, <3>1, <3>2 DEF Tale
  <2>3. QED
    BY <1>1, <1>2, <1>3, <1>4, <2>1, <2>2 DEF Story, Told
<1>7. Stretch(B, 0, 0) = << >> /\ Stretch(E, 0, 0) = << >>
  BY StretchEmpty
<1>8. Placed(e, E, at, B, 0, 0, 0, 0)
  BY <1>3, <1>4, <1>7 DEF Placed, Bounds, KeepsEnd, Counts, Phase, Away, Blank, NoSeq
<1>9. Grounded(e, E, at) /\ ~Whole(e, B, 0)
  BY <1>4, <1>5 DEF Grounded, Whole
<1>10. Follows(e, E, F, at, B, 0, 0, 0, 0)
  BY <1>6, <1>8, <1>9 DEF Follows
<1>11. QED
  BY <1>10 DEF Followed

\* A listener that has caught up is at the end of the story.
LEMMA FollowedIsExact ==
    ASSUME LTyped, NEW e \in Engines, Followed(e), CaughtUp(e)
    PROVE  Indexed(e) = Plain(e)
<1> DEFINE n == nextSeq[e]
<1>1. PICK E, F, at, B, a, c, top, k : Follows(e, E, F, at, B, a, c, top, k)
  BY DEF Followed
<1>2. Story(e, E, F, at, B) /\ Placed(e, E, at, B, a, c, top, k) /\ Bounds(e, at, a, c, top, k)
  BY <1>1 DEF Follows, Placed
<1>3. /\ n \in Nat /\ a \in Nat /\ c \in Nat /\ top \in Nat /\ k \in Nat
      /\ a <= n /\ c <= n /\ k <= at[c] /\ at[c] \in Nat
  BY <1>2, PlaceNumbers
<1>4. lastSeq[e] \in Nat \cup {NoSeq} /\ lastSeq[e] < n
  BY <1>2 DEF LTyped, StreamTyped, Placed, Counts
<1>5. pc[e] = "live" /\ ingested[e] = 0..(n - 1) /\ wire[e] = << >> /\ queue[e] = << >> /\ todo[e] = << >>
  BY DEF CaughtUp
<1>6. Living(e, B, a, c, top)
  BY <1>2, <1>5 DEF Placed, Phase
<1>7. a = n /\ c = n /\ top = n
  <2>1. a = n
    <3>1. Stretch(B, a, n) = << >>
      BY <1>2, <1>5 DEF Placed
    <3>2. QED
      BY <1>3, <3>1, StretchEmpty
  <2>2. c = a
    BY <1>3, <1>5, <1>6, StretchEmpty DEF Living
  <2>3. QED
    BY <1>6, <2>1, <2>2 DEF Living
<1>8. k = at[n]
  <2>1. Stretch(E, k, at[c]) = << >>
    BY <1>2, <1>5 DEF Placed
  <2>2. k = at[c]
    BY <1>3, <2>1, StretchEmpty
  <2>3. QED
    BY <1>7, <2>2
<1>9. lastSeq[e] = n - 1
  <2>1. CASE n = 0
    BY <1>4, <2>1 DEF NoSeq
  <2>2. CASE n # 0
    <3>1. n - 1 \in ingested[e]
      BY <1>3, <1>5, <2>2
    <3>2. n - 1 <= lastSeq[e]
      BY <1>2, <3>1 DEF Placed, Counts
    <3>3. QED
      BY <1>3, <1>4, <3>2 DEF NoSeq
  <2>3. QED
    BY <2>1, <2>2
<1>10. AllOk(e, B)
  BY <1>2, <1>5 DEF AllOk, Placed, Counts
<1>11. Whole(e, B, c)
  BY <1>3, <1>5, <1>7, <1>9, <1>10 DEF Whole
<1>12. Sure(e, E, F, at[n], at[n])
  BY <1>1, <1>7, <1>8, <1>11 DEF Follows
<1>13. at[n] \in Nat
  BY <1>3, <1>7
<1>14. \A x \in Facts : x \in Indexed(e) <=> x \in F[at[n]]
  BY <1>12, <1>13 DEF Sure
<1>15. F[at[n]] = Plain(e)
  BY <1>2 DEF Story, Told
<1>16. Indexed(e) \subseteq Facts /\ Plain(e) \subseteq Facts
  BY DEF Indexed, Plain, Facts
<1>17. QED
  BY <1>14, <1>15, <1>16

-----------------------------------------------------------------------------
(***************************************************************************)
(* The steps of the listener: each takes it to another place in the same   *)
(* story.                                                                  *)
(***************************************************************************)

\* All that a listener has changes together with its place in the story.
LEMMA Moved ==
    ASSUME NEW e, NEW E, NEW F, NEW at, NEW B, Story(e, E, F, at, B), Grounded(e, E, at),
           UNCHANGED <<setup, engineVars, vars>>,
           NEW a, NEW c, NEW top, NEW k, Placed(e, E, at, B, a, c, top, k)',
           Whole(e, B, c)' => Sure(e, E, F, k, at[top])
    PROVE  Followed(e)'
<1>1. UNCHANGED <<setup, cache, nextSeq>> /\ Indexed(e)' = Indexed(e)
  BY SameIndexed DEF engineVars
<1>2. Story(e, E, F, at, B)'
  BY <1>1, StoryStays
<1>3. Grounded(e, E, at)'
  BY <1>1 DEF Grounded
<1>4. (Whole(e, B, c) => Sure(e, E, F, k, at[top]))'
  <2>1. Sure(e, E, F, k, at[top])' <=> Sure(e, E, F, k, at[top])
    BY <1>1 DEF Sure
  <2>2. QED
    BY <2>1
<1>5. Follows(e, E, F, at, B, a, c, top, k)'
  BY <1>2, <1>3, <1>4 DEF Follows
<1>6. QED
  BY <1>5 DEF Followed

\* A place with nothing to ingest is at the end of a batch.
LEMMA NothingToDo ==
    ASSUME LTyped, NEW e \in Engines, NEW E, NEW F, NEW at, NEW B, Story(e, E, F, at, B),
           NEW a, NEW c, NEW top, NEW k, Placed(e, E, at, B, a, c, top, k)
    PROVE  todo[e] = << >> <=> k = at[c]
<1>1. Bounds(e, at, a, c, top, k)
  BY DEF Placed
<1>2. k \in Nat /\ at[c] \in Nat /\ k <= at[c]
  BY <1>1, PlaceNumbers
<1>3. Stretch(E, k, at[c]) = << >> <=> k = at[c]
  BY <1>2, StretchEmpty
<1>4. QED
  BY <1>3 DEF Placed

\* Before the first batch the index says nothing of the engine.
LEMMA NothingToldYet ==
    ASSUME LTyped, NEW e \in Engines, NEW E, NEW F, NEW at, NEW B, Story(e, E, F, at, B), Grounded(e, E, at),
           nextSeq[e] = 0
    PROVE  Sure(e, E, F, at[0], at[0])
<1>1. at[0] = 0 /\ F[0] = {}
  BY StoryNumbers
<1>2. \A i \in 0..(0 - 1) : FALSE
  OBVIOUS
<1>3. \A x \in Indexed(e) : FALSE
  BY <1>1, <1>2 DEF Grounded
<1>4. QED
  BY <1>1, <1>3 DEF Sure

\* Whatever the index says of the engine, the whole story sets it right.
LEMMA AllToldAgain ==
    ASSUME LTyped, InScope, NEW e \in Engines, NEW E, NEW F, NEW at, NEW B, Story(e, E, F, at, B),
           Grounded(e, E, at), setup.replay
    PROVE  Sure(e, E, F, at[0], at[nextSeq[e]])
<1>1. at[0] = 0 /\ F[0] = {}
  BY StoryNumbers
<1>2. ~setup.offload
  BY DEF InScope, RepeatsOffloads
<1>3. QED
  BY <1>1, <1>2 DEF Sure, Grounded

LEMMA NoStretch == ASSUME NEW f, NEW b \in Nat PROVE Stretch(f, b, b) = << >>
BY StretchEmpty

\* A listener that replays waits for the response; another goes live at the end of
\* the story, and has missed nothing only if nothing was told.
LEMMA DialFollows ==
    ASSUME LTyped, NEW e \in Engines, Followed(e), Dial(e)
    PROVE  Followed(e)'
<1> DEFINE n == nextSeq[e]
<1>1. PICK E, F, at, B, a, c, top, k : Follows(e, E, F, at, B, a, c, top, k)
  BY DEF Followed
<1>2. /\ Story(e, E, F, at, B) /\ Placed(e, E, at, B, a, c, top, k) /\ Bounds(e, at, a, c, top, k)
      /\ Grounded(e, E, at)
  BY <1>1 DEF Follows, Placed
<1>3. n \in Nat /\ at[n] \in Nat /\ at[c] \in Nat
  BY <1>2, PlaceNumbers
<1>4. /\ UNCHANGED <<setup, engineVars, vars>>
      /\ UNCHANGED <<nextSeq, log, lastSeq, ingested, todo, queue, replayed>>
      /\ sub'[e] = TRUE /\ wire'[e] = << >>
      /\ pc'[e] = IF setup.replay THEN "request" ELSE "live"
  BY DEF Dial, engineVars, history, LTyped, EngineTyped, StreamTyped
<1>5. Away(e, at, a, c, k) /\ Blank(e)
  BY <1>2 DEF Placed, Phase, Dial
<1>6. Stretch(B, n, n) = << >> /\ Stretch(E, at[n], at[n]) = << >> /\ Stretch(E, at[c], at[c]) = << >>
  BY <1>3, StretchEmpty
<1>7. KeepsEnd(e, B)' /\ Counts(e, B)'
  BY <1>2, <1>4 DEF Placed, KeepsEnd, Counts
<1>8. CASE setup.replay
  <2>1. Placed(e, E, at, B, a, c, top, k)'
    <3>1. Bounds(e, at, a, c, top, k)'
      BY <1>2, <1>4 DEF Bounds
    <3>2. (wire[e] = Stretch(B, a, nextSeq[e]))' /\ (todo[e] = Stretch(E, k, at[c]))'
      BY <1>2, <1>4, <1>5, <1>6 DEF Placed, Away
    <3>3. Phase(e, at, B, a, c, top, k)'
      BY <1>4, <1>5, <1>8 DEF Phase, Away, Asking, Blank
    <3>4. QED
      BY <1>7, <3>1, <3>2, <3>3 DEF Placed
  <2>2. ~Whole(e, B, c)'
    BY <1>4, <1>8 DEF Whole
  <2>3. QED
    BY <1>2, <1>4, <2>1, <2>2, Moved
<1>9. CASE ~setup.replay
  <2>1. Placed(e, E, at, B, n, n, n, at[n])'
    <3>1. Bounds(e, at, n, n, n, at[n])'
      BY <1>3, <1>4 DEF Bounds
    <3>2. (wire[e] = Stretch(B, n, nextSeq[e]))' /\ (todo[e] = Stretch(E, at[n], at[n]))'
      BY <1>2, <1>4, <1>5, <1>6 DEF Placed, Away
    <3>3. Phase(e, at, B, n, n, n, at[n])'
      BY <1>3, <1>4, <1>5, <1>6, <1>9 DEF Phase, Away, Living
    <3>4. QED
      BY <1>7, <3>1, <3>2, <3>3 DEF Placed
  <2>2. ASSUME Whole(e, B, n)' PROVE Sure(e, E, F, at[n], at[n])
    <3>1. n = 0
      BY <1>3, <1>4, <1>5, <2>2 DEF Whole, Blank, NoSeq
    <3>2. QED
      BY <1>2, <3>1, NothingToldYet
  <2>3. QED
    BY <1>2, <1>4, <2>1, <2>2, Moved
<1>10. QED
  BY <1>8, <1>9

\* The response to a replay request without a last number is all that is kept.
LEMMA KeptFromStart ==
    ASSUME LTyped, NEW e \in Engines
    PROVE  KeptFrom(e, 0) = log[e]
<1> DEFINE I == {i \in DOMAIN log[e] : log[e][i].seq < 0}
<1>1. log[e] \in Seq(Batches)
  BY DEF LTyped, EngineTyped
<1>2. I = {}
  <2>1. \A i \in DOMAIN log[e] : log[e][i] \in Batches
    BY <1>1
  <2>2. QED
    BY <2>1 DEF Batches
<1>3. Cardinality(I) = 0
  BY <1>2, FS_EmptySet
<1> HIDE DEF I
<1>4. SubSeq(log[e], 0 + 1, Len(log[e])) = log[e]
  BY <1>1
<1>5. QED
  BY <1>3, <1>4 DEF KeptFrom, I

\* The replay takes the listener back to the first batch kept.
LEMMA RequestFollows ==
    ASSUME LTyped, InScope, NEW e \in Engines, Followed(e), RequestReplay(e)
    PROVE  Followed(e)'
<1> DEFINE n == nextSeq[e]
<1>1. PICK E, F, at, B, a, c, top, k : Follows(e, E, F, at, B, a, c, top, k)
  BY DEF Followed
<1>2. /\ Story(e, E, F, at, B) /\ Placed(e, E, at, B, a, c, top, k) /\ Bounds(e, at, a, c, top, k)
      /\ Grounded(e, E, at)
  BY <1>1 DEF Follows, Placed
<1>3. PICK first \in 0..n : log[e] = Stretch(B, first, n)
  BY <1>2 DEF Placed, KeepsEnd
<1>4. /\ n \in Nat /\ a \in Nat /\ a <= n /\ first \in Nat /\ first <= n /\ at[c] \in Nat
      /\ at[first] \in Nat /\ at \in [Nat -> Nat]
  BY <1>2, PlaceNumbers, StoryNumbers
<1>5. Asking(e, at, c, k) /\ Blank(e)
  BY <1>2 DEF Placed, Phase, RequestReplay
<1>6. /\ UNCHANGED <<setup, engineVars, vars>>
      /\ UNCHANGED <<nextSeq, log, wire, sub, lastSeq, ingested, todo, queue>>
      /\ replayed'[e] = log[e]
      /\ pc'[e] = "replay"
  <2>1. KeptFrom(e, NextReplaySeq(e)) = log[e]
    BY <1>5, KeptFromStart DEF Blank, NextReplaySeq
  <2>2. QED
    BY <2>1 DEF RequestReplay, engineVars, history, LTyped, EngineTyped, StreamTyped
<1>7. Stretch(E, at[first], at[first]) = << >> /\ Stretch(E, at[c], at[c]) = << >>
  BY <1>4, NoStretch
<1>8. Placed(e, E, at, B, a, first, n, at[first])'
  <2>1. Bounds(e, at, a, first, n, at[first])'
    BY <1>4, <1>6 DEF Bounds
  <2>2. (wire[e] = Stretch(B, a, nextSeq[e]))' /\ (todo[e] = Stretch(E, at[first], at[first]))'
    BY <1>2, <1>5, <1>6, <1>7 DEF Placed, Asking
  <2>3. KeepsEnd(e, B)' /\ Counts(e, B)'
    BY <1>2, <1>6 DEF Placed, KeepsEnd, Counts
  <2>4. Replaying(e, B, a, first, n)'
    BY <1>3, <1>4, <1>5, <1>6 DEF Replaying, Asking, Blank
  <2>5. Phase(e, at, B, a, first, n, at[first])'
    BY <1>6, <2>4 DEF Phase
  <2>6. QED
    BY <2>1, <2>2, <2>3, <2>5 DEF Placed
<1>9. ASSUME Whole(e, B, first)' PROVE Sure(e, E, F, at[first], at[n])
  <2>1. first = 0
    BY <1>4, <1>5, <1>6, <1>9 DEF Whole, Blank, NoSeq
  <2>2. QED
    BY <1>2, <1>5, <2>1, AllToldAgain DEF Asking
<1>10. QED
  BY <1>2, <1>6, <1>8, <1>9, Moved

\* Told again from an earlier batch, the rest of the story sets right what it
\* set right from a later one.
LEMMA SureFromEarlier ==
    ASSUME LTyped, NEW e \in Engines, NEW E, NEW F, NEW at, NEW B, Story(e, E, F, at, B), ~setup.offload,
           NEW a, NEW c, NEW top, NEW k, Bounds(e, at, a, c, top, k), a <= c,
           Sure(e, E, F, at[c], at[top])
    PROVE  Sure(e, E, F, at[a], at[nextSeq[e]])
<1> DEFINE T == at[nextSeq[e]]
<1>1. /\ at[a] \in Nat /\ at[c] \in Nat /\ at[top] \in Nat /\ T \in Nat
      /\ at[a] <= at[c] /\ at[c] <= T /\ at[top] <= T
  BY PlaceNumbers
<1>2. Tale(setup.offload, E, F, T) /\ setup.offload \in BOOLEAN /\ (setup.offload => "cpu" \in Tiers)
  BY SetupFacts DEF Story, Told
<1> HIDE DEF T
<1>3. ASSUME NEW x \in Facts, \A i \in at[a]..(T - 1) : x \notin Touched(E[i])
      PROVE  x \in Indexed(e) <=> x \in F[at[a]]
  <2>1. \A i \in at[a]..(at[c] - 1) : x \notin Touched(E[i])
    BY <1>1, <1>3
  <2>2. at[a] \in 0..T /\ at[c] \in at[a]..T
    BY <1>1
  <2>3. x \in F[at[a]] <=> x \in F[at[c]]
    BY <1>1, <1>2, <2>1, <2>2, ChangedIsTouched
  <2>4. \A i \in at[c]..(at[top] - 1) : x \notin Touched(E[i])
    BY <1>1, <1>3
  <2>5. x \in Indexed(e) <=> x \in F[at[c]]
    BY <2>4 DEF Sure
  <2>6. QED
    BY <2>3, <2>5
<1>4. Sure(e, E, F, at[a], T)
  BY <1>3 DEF Sure
<1>5. QED
  BY <1>4 DEF T

\* After the replay the listener goes on with the first batch on the wire, which it
\* may have seen, or, when the replay failed, which comes after some it missed.
LEMMA ReplayOverFollows ==
    ASSUME LTyped, InScope, NEW e \in Engines, Followed(e), ReplayOver(e)
    PROVE  Followed(e)'
<1> DEFINE n == nextSeq[e]
<1>1. PICK E, F, at, B, a, c, top, k : Follows(e, E, F, at, B, a, c, top, k)
  BY DEF Followed
<1>2. /\ Story(e, E, F, at, B) /\ Placed(e, E, at, B, a, c, top, k) /\ Bounds(e, at, a, c, top, k)
      /\ Grounded(e, E, at)
  BY <1>1 DEF Follows, Placed
<1>3. /\ n \in Nat /\ a \in Nat /\ a <= n /\ c \in Nat /\ at[a] \in Nat /\ at[c] \in Nat
      /\ lastSeq[e] \in Nat \cup {NoSeq}
  BY <1>2, PlaceNumbers DEF LTyped, StreamTyped
<1>4. /\ setup.replay /\ sub[e] = TRUE /\ queue[e] = << >> /\ k = at[c]
      /\ AllOk(e, B) => lastSeq[e] \in {NoSeq, c - 1}
      /\ (pc[e] = "request" /\ Blank(e)) \/ pc[e] = "replay"
  <2>1. CASE pc[e] = "request"
    <3>1. Asking(e, at, c, k) /\ Blank(e)
      BY <1>2, <2>1 DEF Placed, Phase
    <3>2. QED
      BY <2>1, <3>1 DEF Asking, Blank
  <2>2. CASE pc[e] = "replay" /\ todo[e] = << >>
    <3>1. Replaying(e, B, a, c, top)
      BY <1>2, <2>2 DEF Placed, Phase
    <3>2. k = at[c]
      BY <1>2, <2>2, NothingToDo
    <3>3. QED
      BY <2>2, <3>1, <3>2 DEF Replaying
  <2>3. QED
    BY <2>1, <2>2 DEF ReplayOver
<1>5. /\ UNCHANGED <<setup, engineVars, vars>>
      /\ UNCHANGED <<nextSeq, log, wire, sub, lastSeq, ingested, todo, queue>>
      /\ replayed'[e] = << >>
      /\ pc'[e] = "live"
  BY DEF ReplayOver, engineVars, history, LTyped, EngineTyped, StreamTyped
<1>6. /\ Stretch(E, at[a], at[a]) = << >> /\ Stretch(E, at[c], at[c]) = << >>
      /\ Stretch(B, a, a) = << >>
  BY <1>3, NoStretch
<1>7. Placed(e, E, at, B, a, a, n, at[a])'
  <2>1. Bounds(e, at, a, a, n, at[a])'
    BY <1>3, <1>5 DEF Bounds
  <2>2. (wire[e] = Stretch(B, a, nextSeq[e]))' /\ (todo[e] = Stretch(E, at[a], at[a]))'
    BY <1>2, <1>4, <1>5, <1>6 DEF Placed
  <2>3. KeepsEnd(e, B)' /\ Counts(e, B)'
    BY <1>2, <1>5 DEF Placed, KeepsEnd, Counts
  <2>4. Living(e, B, a, a, n)'
    BY <1>3, <1>4, <1>5, <1>6 DEF Living
  <2>5. Phase(e, at, B, a, a, n, at[a])'
    BY <1>5, <2>4 DEF Phase
  <2>6. QED
    BY <2>1, <2>2, <2>3, <2>5 DEF Placed
<1>8. ASSUME Whole(e, B, a)' PROVE Sure(e, E, F, at[a], at[n])
  <2>1. AllOk(e, B) /\ ingested[e] = 0..lastSeq[e] /\ a <= lastSeq[e] + 1
    BY <1>5, <1>8 DEF Whole, AllOk
  <2>2. CASE lastSeq[e] = NoSeq
    <3>1. a = 0
      BY <1>3, <2>1, <2>2 DEF NoSeq
    <3>2. QED
      BY <1>2, <1>4, <3>1, AllToldAgain
  <2>3. CASE lastSeq[e] # NoSeq
    <3>1. lastSeq[e] = c - 1 /\ pc[e] = "replay"
      BY <1>4, <2>1, <2>3 DEF Blank
    <3>2. a <= c /\ c <= lastSeq[e] + 1
      BY <1>3, <2>1, <3>1
    <3>3. Whole(e, B, c)
      BY <2>1, <3>1, <3>2 DEF Whole
    <3>4. Sure(e, E, F, at[c], at[top])
      BY <1>1, <1>4, <3>3 DEF Follows
    <3>5. ~setup.offload
      BY <1>4 DEF InScope, RepeatsOffloads
    <3>6. QED
      BY <1>2, <3>2, <3>4, <3>5, SureFromEarlier
  <2>4. QED
    BY <2>2, <2>3
<1>9. QED
  BY <1>2, <1>5, <1>7, <1>8, Moved

\* A batch moves from the wire to the queue.
LEMMA RecvFollows ==
    ASSUME LTyped, NEW e \in Engines, Followed(e), Recv(e)
    PROVE  Followed(e)'
<1> DEFINE n == nextSeq[e]
<1>1. PICK E, F, at, B, a, c, top, k : Follows(e, E, F, at, B, a, c, top, k)
  BY DEF Followed
<1>2. /\ Story(e, E, F, at, B) /\ Placed(e, E, at, B, a, c, top, k) /\ Bounds(e, at, a, c, top, k)
      /\ Grounded(e, E, at)
  BY <1>1 DEF Follows, Placed
<1>3. n \in Nat /\ a \in Nat /\ a <= n /\ c \in Nat /\ B \in [Nat -> Batches]
  BY <1>2, PlaceNumbers, StoryNumbers
<1>4. Living(e, B, a, c, top)
  BY <1>2 DEF Placed, Phase, Recv
<1>5. wire[e] = Stretch(B, a, n) /\ a < n
  <2>1. wire[e] = Stretch(B, a, n) /\ Stretch(B, a, n) # << >>
    BY <1>2 DEF Placed, Recv
  <2>2. a # n
    BY <1>3, <2>1, StretchEmpty
  <2>3. QED
    BY <1>3, <2>1, <2>2
<1>6. /\ UNCHANGED <<setup, engineVars, vars>>
      /\ UNCHANGED <<nextSeq, log, sub, pc, replayed, lastSeq, ingested, todo>>
      /\ queue'[e] = Append(queue[e], Head(wire[e]))
      /\ wire'[e] = Tail(wire[e])
  BY DEF Recv, engineVars, history, LTyped, EngineTyped, StreamTyped
<1>7. Head(Stretch(B, a, n)) = B[a] /\ Tail(Stretch(B, a, n)) = Stretch(B, a + 1, n)
  BY <1>3, <1>5, StretchHeadTail
<1>8. wire'[e] = Stretch(B, a + 1, n)
  BY <1>5, <1>6, <1>7
<1>9. queue'[e] = Stretch(B, c, a + 1)
  <2>1. Head(wire[e]) = B[a]
    BY <1>5, <1>7
  <2>2. queue[e] = Stretch(B, c, a) /\ c <= a
    BY <1>4 DEF Living
  <2>3. Append(Stretch(B, c, a), B[a]) = Stretch(B, c, a + 1)
    BY <1>3, <2>2, StretchAppend
  <2>4. QED
    BY <1>6, <2>1, <2>2, <2>3
<1>10. Placed(e, E, at, B, a + 1, c, top, k)'
  <2>1. Bounds(e, at, a + 1, c, top, k)'
    BY <1>2, <1>3, <1>5, <1>6 DEF Bounds
  <2>2. (wire[e] = Stretch(B, a + 1, nextSeq[e]))' /\ (todo[e] = Stretch(E, k, at[c]))'
    BY <1>2, <1>6, <1>8 DEF Placed
  <2>3. KeepsEnd(e, B)' /\ Counts(e, B)'
    BY <1>2, <1>6 DEF Placed, KeepsEnd, Counts
  <2>4. Living(e, B, a + 1, c, top)'
    <3>1. c <= a + 1
      BY <1>3, <1>4 DEF Living
    <3>2. QED
      BY <1>4, <1>6, <1>9, <3>1 DEF Living
  <2>5. Phase(e, at, B, a + 1, c, top, k)'
    BY <1>6, <2>4 DEF Phase, Recv
  <2>6. QED
    BY <2>1, <2>2, <2>3, <2>5 DEF Placed
<1>11. ASSUME Whole(e, B, c)' PROVE Sure(e, E, F, k, at[top])
  <2>1. Whole(e, B, c)
    BY <1>6, <1>11 DEF Whole, AllOk
  <2>2. QED
    BY <1>1, <2>1 DEF Follows
<1>12. QED
  BY <1>2, <1>6, <1>10, <1>11, Moved

\* A stopped listener has nothing to do.
LEMMA UnregisterFollows ==
    ASSUME LTyped, NEW e \in Engines, Followed(e), Unregister(e)
    PROVE  Followed(e)'
<1> DEFINE n == nextSeq[e]
<1>1. PICK E, F, at, B, a, c, top, k : Follows(e, E, F, at, B, a, c, top, k)
  BY DEF Followed
<1>2. /\ Story(e, E, F, at, B) /\ Placed(e, E, at, B, a, c, top, k) /\ Bounds(e, at, a, c, top, k)
      /\ Grounded(e, E, at)
  BY <1>1 DEF Follows, Placed
<1>3. n \in Nat
  BY <1>2, PlaceNumbers
<1>4. todo[e] = << >> /\ queue[e] = << >>
  BY DEF Unregister
<1>5. k = at[c]
  BY <1>2, <1>4, NothingToDo
<1>6. /\ UNCHANGED <<setup, engineVars, vars>>
      /\ UNCHANGED <<nextSeq, log, lastSeq, ingested, todo, queue>>
      /\ sub'[e] = FALSE /\ wire'[e] = << >> /\ replayed'[e] = << >>
      /\ pc'[e] = "stopped"
  BY DEF Unregister, engineVars, history, LTyped, EngineTyped, StreamTyped
<1>7. Stretch(B, n, n) = << >>
  BY <1>3, NoStretch
<1>8. Placed(e, E, at, B, n, c, top, k)'
  <2>1. Bounds(e, at, n, c, top, k)'
    BY <1>2, <1>3, <1>6 DEF Bounds
  <2>2. (wire[e] = Stretch(B, n, nextSeq[e]))' /\ (todo[e] = Stretch(E, k, at[c]))'
    BY <1>2, <1>6, <1>7 DEF Placed
  <2>3. KeepsEnd(e, B)' /\ Counts(e, B)'
    BY <1>2, <1>6 DEF Placed, KeepsEnd, Counts
  <2>4. Phase(e, at, B, n, c, top, k)'
    BY <1>4, <1>5, <1>6 DEF Phase, Away
  <2>5. QED
    BY <2>1, <2>2, <2>3, <2>4 DEF Placed
<1>9. ~Whole(e, B, c)'
  BY <1>6 DEF Whole
<1>10. QED
  BY <1>2, <1>6, <1>8, <1>9, Moved

\* A new listener has seen nothing, whatever the index says.
LEMMA RegisterFollows ==
    ASSUME LTyped, NEW e \in Engines, Followed(e), Register(e)
    PROVE  Followed(e)'
<1>1. PICK E, F, at, B, a, c, top, k : Follows(e, E, F, at, B, a, c, top, k)
  BY DEF Followed
<1>2. /\ Story(e, E, F, at, B) /\ Placed(e, E, at, B, a, c, top, k) /\ Bounds(e, at, a, c, top, k)
      /\ Grounded(e, E, at)
  BY <1>1 DEF Follows, Placed
<1>3. nextSeq[e] \in Nat
  BY <1>2, PlaceNumbers
<1>4. Away(e, at, a, c, k)
  BY <1>2 DEF Placed, Phase, Register
<1>5. /\ UNCHANGED <<setup, engineVars, vars>>
      /\ UNCHANGED <<nextSeq, log, wire, sub, replayed, todo, queue>>
      /\ ingested'[e] = {} /\ lastSeq'[e] = NoSeq
      /\ pc'[e] = "dial"
  BY DEF Register, engineVars, history, LTyped, EngineTyped, StreamTyped
<1>6. Placed(e, E, at, B, a, c, top, k)'
  <2>1. Bounds(e, at, a, c, top, k)'
    BY <1>2, <1>5 DEF Bounds
  <2>2. (wire[e] = Stretch(B, a, nextSeq[e]))' /\ (todo[e] = Stretch(E, k, at[c]))'
    BY <1>2, <1>5 DEF Placed
  <2>3. KeepsEnd(e, B)' /\ Counts(e, B)'
    BY <1>2, <1>3, <1>5 DEF Placed, KeepsEnd, Counts, NoSeq
  <2>4. Phase(e, at, B, a, c, top, k)'
    BY <1>4, <1>5 DEF Phase, Away, Blank
  <2>5. QED
    BY <2>1, <2>2, <2>3, <2>4 DEF Placed
<1>7. ~Whole(e, B, c)'
  BY <1>5 DEF Whole
<1>8. QED
  BY <1>2, <1>5, <1>6, <1>7, Moved

\* A restarted indexer is at the beginning of the story.
LEMMA RestartFollows ==
    ASSUME LTyped, NEW e \in Engines, Followed(e), IndexerRestart
    PROVE  Followed(e)'
<1> DEFINE n == nextSeq[e]
<1>1. PICK E, F, at, B, a, c, top, k : Follows(e, E, F, at, B, a, c, top, k)
  BY DEF Followed
<1>2. /\ Story(e, E, F, at, B) /\ Placed(e, E, at, B, a, c, top, k) /\ Bounds(e, at, a, c, top, k)
      /\ Grounded(e, E, at)
  BY <1>1 DEF Follows, Placed
<1>3. n \in Nat /\ at[0] = 0
  BY <1>2, StoryNumbers
<1>4. /\ UNCHANGED <<setup, cache, nextSeq, log>>
      /\ wire'[e] = << >> /\ sub'[e] = FALSE /\ pc'[e] = "dial" /\ lastSeq'[e] = NoSeq
      /\ replayed'[e] = << >> /\ queue'[e] = << >> /\ todo'[e] = << >> /\ ingested'[e] = {}
  BY DEF IndexerRestart, engineVars
<1>5. Indexed(e)' = {}
  BY DEF IndexerRestart, Indexed, Holders
<1>6. Stretch(B, n, n) = << >> /\ Stretch(E, 0, 0) = << >>
  BY <1>3, NoStretch
<1>7. Placed(e, E, at, B, n, 0, 0, 0)'
  <2>1. Bounds(e, at, n, 0, 0, 0)'
    BY <1>3, <1>4 DEF Bounds
  <2>2. (wire[e] = Stretch(B, n, nextSeq[e]))' /\ (todo[e] = Stretch(E, 0, at[0]))'
    BY <1>3, <1>4, <1>6
  <2>3. KeepsEnd(e, B)' /\ Counts(e, B)'
    BY <1>2, <1>3, <1>4 DEF Placed, KeepsEnd, Counts, NoSeq
  <2>4. Phase(e, at, B, n, 0, 0, 0)'
    BY <1>3, <1>4 DEF Phase, Away, Blank
  <2>5. QED
    BY <2>1, <2>2, <2>3, <2>4 DEF Placed
<1>8. ~Whole(e, B, 0)'
  BY <1>4 DEF Whole
<1>9. Story(e, E, F, at, B)' /\ Grounded(e, E, at)'
  BY <1>2, <1>4, <1>5, StoryStays DEF Grounded
<1>10. Follows(e, E, F, at, B, n, 0, 0, 0)'
  BY <1>7, <1>8, <1>9 DEF Follows
<1>11. QED
  BY <1>10 DEF Followed

\* What taking a batch does, while a profile resolves.
LEMMA TakeBatchDoes ==
    ASSUME LTyped, NEW e \in Engines, NEW msg \in Batches, TakeBatch(e, msg), resolves = TRUE
    PROVE  /\ todo'[e] = IF msg.ok = TRUE THEN msg.events ELSE todo[e]
           /\ lastSeq'[e] = IF msg.ok = TRUE /\ msg.seq > lastSeq[e] THEN msg.seq ELSE lastSeq[e]
           /\ ingested'[e] = IF msg.ok = TRUE /\ msg.seq > lastSeq[e] THEN ingested[e] \cup {msg.seq}
                             ELSE ingested[e]
<1>1. /\ msg.seq \in Nat /\ msg.ok \in BOOLEAN
      /\ lastSeq \in [Engines -> Nat \cup {NoSeq}] /\ lastSeq[e] \in Nat \cup {NoSeq}
      /\ todo \in [Engines -> Seq(Events)] /\ ingested \in [Engines -> SUBSET Nat]
  BY DEF Batches, LTyped, StreamTyped
<1>2. lastSeq[e] = NoSeq => msg.seq > lastSeq[e]
  BY <1>1 DEF NoSeq
<1>3. CASE msg.ok = TRUE
  <2>1. /\ lastSeq' = IF lastSeq[e] = NoSeq \/ msg.seq > lastSeq[e]
                      THEN [lastSeq EXCEPT ![e] = msg.seq] ELSE lastSeq
        /\ todo' = [todo EXCEPT ![e] = msg.events]
        /\ ingested' = IF msg.seq > lastSeq[e]
                       THEN [ingested EXCEPT ![e] = @ \cup {msg.seq}] ELSE ingested
    BY <1>3, Zenon DEF TakeBatch, TrackSeq
  <2>2. QED
    BY <1>1, <1>2, <1>3, <2>1
<1>4. CASE msg.ok = FALSE
  <2>1. UNCHANGED <<lastSeq, todo, ingested>>
    BY <1>4, Zenon DEF TakeBatch
  <2>2. QED
    BY <1>4, <2>1
<1>5. QED
  BY <1>1, <1>3, <1>4

\* The numbers ingested are those of decoded batches, up to the last one seen.
LEMMA TakeCounts ==
    ASSUME LTyped, NEW e \in Engines, NEW E, NEW F, NEW at, NEW B, Story(e, E, F, at, B),
           Counts(e, B), NEW c \in Nat, c < nextSeq[e], B[c].seq = c, TakeBatch(e, B[c]), resolves = TRUE,
           UNCHANGED nextSeq
    PROVE  Counts(e, B)'
<1>1. /\ B[c] \in Batches /\ nextSeq[e] \in Nat /\ lastSeq[e] \in Nat \cup {NoSeq} /\ ingested[e] \subseteq Nat
  <2>1. B \in [Nat -> Batches] /\ nextSeq[e] \in Nat
    BY StoryNumbers
  <2>2. B[c] \in Batches
    BY <2>1
  <2>3. QED
    BY <2>1, <2>2 DEF LTyped, StreamTyped
<1>2. CASE B[c].ok = TRUE /\ c > lastSeq[e]
  <2>1. lastSeq'[e] = c /\ ingested'[e] = ingested[e] \cup {c}
    BY <1>1, <1>2, TakeBatchDoes, ZenonT(40)
  <2>2. \A j \in ingested[e] : j \in Nat /\ j <= lastSeq[e] /\ B[j].ok = TRUE
    BY <1>1 DEF Counts
  <2>3. \A j \in ingested[e] : j <= c
    BY <1>1, <1>2, <2>2 DEF NoSeq
  <2>4. \A j \in ingested'[e] : j <= c /\ B[j].ok = TRUE
    BY <1>2, <2>1, <2>2, <2>3
  <2>5. QED
    BY <2>1, <2>4 DEF Counts
<1>3. CASE ~(B[c].ok = TRUE /\ c > lastSeq[e])
  <2>1. lastSeq'[e] = lastSeq[e] /\ ingested'[e] = ingested[e]
    BY <1>1, <1>3, TakeBatchDoes
  <2>2. QED
    BY <2>1 DEF Counts
<1>4. QED
  BY <1>2, <1>3

\* Nothing is missed after a batch only if nothing was before it.
LEMMA TakeWhole ==
    ASSUME LTyped, NEW e \in Engines, NEW E, NEW F, NEW at, NEW B, Story(e, E, F, at, B),
           Counts(e, B), NEW c \in Nat, c < nextSeq[e], B[c].seq = c, TakeBatch(e, B[c]), resolves = TRUE,
           UNCHANGED <<nextSeq, pc>>, Whole(e, B, c + 1)'
    PROVE  Whole(e, B, c) /\ B[c].ok = TRUE
<1>1. /\ B[c] \in Batches /\ nextSeq[e] \in Nat /\ lastSeq[e] \in Nat \cup {NoSeq} /\ ingested[e] \subseteq Nat
  <2>1. B \in [Nat -> Batches] /\ nextSeq[e] \in Nat
    BY StoryNumbers
  <2>2. B[c] \in Batches
    BY <2>1
  <2>3. QED
    BY <2>1, <2>2 DEF LTyped, StreamTyped
<1>2. AllOk(e, B) /\ pc[e] \in {"replay", "live"} /\ ingested'[e] = 0..lastSeq'[e] /\ c + 1 <= lastSeq'[e] + 1
  BY DEF Whole, AllOk
<1>3. B[c].ok = TRUE
  BY <1>1, <1>2 DEF AllOk
<1>4. CASE c > lastSeq[e]
  <2>1. lastSeq'[e] = c /\ ingested'[e] = ingested[e] \cup {c}
    BY <1>1, <1>3, <1>4, TakeBatchDoes, ZenonT(40)
  <2>2. \A j \in ingested[e] : j \in Nat /\ j <= lastSeq[e]
    BY <1>1 DEF Counts
  <2>3. c \notin ingested[e]
    BY <1>1, <1>4, <2>2 DEF NoSeq
  <2>4. ingested[e] = 0..(c - 1)
    <3>1. \A j : j \in ingested[e] <=> j \in 0..c /\ j # c
      BY <1>2, <2>1, <2>3
    <3>2. \A j : j \in 0..(c - 1) <=> j \in 0..c /\ j # c
      OBVIOUS
    <3>3. QED
      BY <3>1, <3>2
  <2>5. lastSeq[e] = c - 1
    <3>1. CASE c = 0
      BY <1>1, <1>4, <3>1 DEF NoSeq
    <3>2. CASE c # 0
      <4>1. c - 1 <= lastSeq[e]
        BY <2>2, <2>4, <3>2
      <4>2. QED
        BY <1>1, <1>4, <4>1 DEF NoSeq
    <3>3. QED
      BY <3>1, <3>2
  <2>6. QED
    BY <1>2, <1>3, <2>4, <2>5 DEF Whole
<1>5. CASE ~(c > lastSeq[e])
  <2>1. lastSeq'[e] = lastSeq[e] /\ ingested'[e] = ingested[e]
    BY <1>1, <1>5, TakeBatchDoes
  <2>2. c <= lastSeq[e] + 1
    BY <1>1, <1>5 DEF NoSeq
  <2>3. QED
    BY <1>2, <1>3, <2>1, <2>2 DEF Whole
<1>6. QED
  BY <1>4, <1>5

\* What is to do of the batch taken: all of it, or nothing.
LEMMA TakeTodo ==
    ASSUME LTyped, NEW e \in Engines, NEW E, NEW F, NEW at, NEW B, Story(e, E, F, at, B),
           NEW c \in Nat, c < nextSeq[e], TakeBatch(e, B[c]), resolves = TRUE
    PROVE  /\ B[c].ok = TRUE => todo'[e] = Stretch(E, at[c], at[c + 1])
           /\ B[c].ok = FALSE => todo'[e] = << >>
           /\ B[c].seq = c
           /\ at[c] \in Nat /\ at[c + 1] \in Nat /\ at[c] <= at[c + 1]
<1>1. B[c] \in Batches /\ nextSeq[e] \in Nat /\ at \in [Nat -> Nat]
  BY StoryNumbers
<1>2. Carries(B[c], c, E, at[c], at[c + 1])
  BY <1>1 DEF Story, Told
<1>3. \A j \in 0..nextSeq[e] : \A i \in 0..j : at[i] <= at[j]
  BY DEF Story, Told
<1>4. at[c] <= at[c + 1]
  BY <1>1, <1>3
<1>5. todo[e] = << >>
  BY DEF TakeBatch
<1>6. todo'[e] = IF B[c].ok = TRUE THEN B[c].events ELSE << >>
  BY <1>1, <1>5, TakeBatchDoes
<1>7. B[c].seq = c /\ B[c].events = Stretch(E, at[c], at[c + 1])
  BY <1>2 DEF Carries
<1>8. at[c] \in Nat /\ at[c + 1] \in Nat
  BY <1>1
<1>9. QED
  BY <1>4, <1>6, <1>7, <1>8

\* Wherever the events of a batch are, the listener is in the same phase.
Stays(e, at, B, a, c, top) == \A k : Phase(e, at, B, a, c, top, k)'

\* The next batch is taken, from the queue or from the replay.
LEMMA TakeFollows ==
    ASSUME LTyped, NEW e \in Engines, NEW E, NEW F, NEW at, NEW B,
           NEW a, NEW c, NEW top, NEW k, Follows(e, E, F, at, B, a, c, top, k),
           c < nextSeq[e], TakeBatch(e, B[c]), resolves = TRUE,
           UNCHANGED <<setup, engineVars, vars, wire, pc>>,
           Stays(e, at, B, a, c + 1, top)
    PROVE  Followed(e)'
<1>1. /\ Story(e, E, F, at, B) /\ Placed(e, E, at, B, a, c, top, k) /\ Bounds(e, at, a, c, top, k)
      /\ Grounded(e, E, at) /\ (Whole(e, B, c) => Sure(e, E, F, k, at[top]))
  BY DEF Follows, Placed
<1>2. nextSeq[e] \in Nat /\ c \in Nat /\ UNCHANGED <<nextSeq, log>>
  BY <1>1, PlaceNumbers DEF engineVars
<1>3. /\ B[c].ok = TRUE => todo'[e] = Stretch(E, at[c], at[c + 1])
      /\ B[c].ok = FALSE => todo'[e] = << >>
      /\ B[c].seq = c
      /\ at[c] \in Nat /\ at[c + 1] \in Nat /\ at[c] <= at[c + 1]
  BY <1>1, <1>2, TakeTodo
<1>4. todo[e] = << >> /\ k = at[c]
  <2>1. todo[e] = << >>
    BY DEF TakeBatch
  <2>2. QED
    BY <1>1, <2>1, NothingToDo
<1>5. B[c].ok \in BOOLEAN
  <2>1. B \in [Nat -> Batches]
    BY <1>1, StoryNumbers
  <2>2. B[c] \in Batches
    BY <1>2, <2>1
  <2>3. QED
    BY <2>2 DEF Batches
<1>6. PICK k2 \in 0..at[c + 1] : /\ todo'[e] = Stretch(E, k2, at[c + 1])
                                 /\ B[c].ok = TRUE => k2 = k
  <2>1. Stretch(E, at[c + 1], at[c + 1]) = << >>
    BY <1>3, NoStretch
  <2>2. CASE B[c].ok = TRUE
    BY <1>3, <1>4, <2>2
  <2>3. CASE B[c].ok = FALSE
    <3>1. at[c + 1] \in 0..at[c + 1]
      BY <1>3
    <3>2. QED
      BY <1>3, <2>1, <2>3, <3>1
  <2>4. QED
    BY <1>5, <2>2, <2>3
<1>7. Counts(e, B) /\ Counts(e, B)'
  BY <1>1, <1>2, <1>3, TakeCounts DEF Placed
<1>8. Bounds(e, at, a, c + 1, top, k2)
  BY <1>1, <1>2 DEF Bounds
<1>9. Placed(e, E, at, B, a, c + 1, top, k2)'
  <2>1. Bounds(e, at, a, c + 1, top, k2)'
    BY <1>2, <1>8 DEF Bounds
  <2>2. (wire[e] = Stretch(B, a, nextSeq[e]))' /\ KeepsEnd(e, B)'
    BY <1>1, <1>2 DEF Placed, KeepsEnd
  <2>3. Phase(e, at, B, a, c + 1, top, k2)'
    BY DEF Stays
  <2>4. QED
    BY <1>6, <1>7, <2>1, <2>2, <2>3, Zenon DEF Placed
<1>10. ASSUME Whole(e, B, c + 1)' PROVE Sure(e, E, F, k2, at[top])
  <2>1. Whole(e, B, c) /\ B[c].ok = TRUE
    BY <1>1, <1>2, <1>3, <1>7, <1>10, TakeWhole
  <2>2. QED
    BY <1>1, <1>6, <2>1, Zenon
<1>11. QED
  BY <1>1, <1>9, <1>10, Moved

\* From the queue.
LEMMA HandleFollows ==
    ASSUME LTyped, NEW e \in Engines, Followed(e), HandleFrames(e), resolves = TRUE
    PROVE  Followed(e)'
<1>1. PICK E, F, at, B, a, c, top, k : Follows(e, E, F, at, B, a, c, top, k)
  BY DEF Followed
<1>2. /\ Story(e, E, F, at, B) /\ Placed(e, E, at, B, a, c, top, k) /\ Bounds(e, at, a, c, top, k)
  BY <1>1 DEF Follows, Placed
<1>3. nextSeq[e] \in Nat /\ a \in Nat /\ a <= nextSeq[e] /\ c \in Nat /\ B \in [Nat -> Batches]
  BY <1>2, PlaceNumbers, StoryNumbers
<1>4. Living(e, B, a, c, top) /\ pc[e] = "live"
  BY <1>2 DEF Placed, Phase, HandleFrames
<1>5. queue[e] = Stretch(B, c, a) /\ c < a
  <2>1. Stretch(B, c, a) # << >> /\ queue[e] = Stretch(B, c, a) /\ c <= a
    BY <1>4 DEF Living, HandleFrames
  <2>2. c # a
    BY <1>3, <2>1, StretchEmpty
  <2>3. QED
    BY <1>3, <2>1, <2>2
<1>6. Head(Stretch(B, c, a)) = B[c] /\ Tail(Stretch(B, c, a)) = Stretch(B, c + 1, a)
  BY <1>3, <1>5, StretchHeadTail
<1>7. /\ UNCHANGED <<setup, engineVars, vars, wire, sub, pc, replayed, nextSeq>>
      /\ TakeBatch(e, B[c]) /\ queue'[e] = Stretch(B, c + 1, a)
  BY <1>5, <1>6 DEF HandleFrames, engineVars, LTyped, StreamTyped
<1>8. Living(e, B, a, c + 1, top)'
  BY <1>3, <1>4, <1>5, <1>7 DEF Living
<1>9. Stays(e, at, B, a, c + 1, top)
  BY <1>4, <1>7, <1>8 DEF Stays, Phase
<1>10. c < nextSeq[e]
  BY <1>3, <1>5
<1>11. QED
  BY <1>1, <1>7, <1>9, <1>10, TakeFollows

\* From the replay.
LEMMA ReplayRecvFollows ==
    ASSUME LTyped, NEW e \in Engines, Followed(e), ReplayRecv(e), resolves = TRUE
    PROVE  Followed(e)'
<1>1. PICK E, F, at, B, a, c, top, k : Follows(e, E, F, at, B, a, c, top, k)
  BY DEF Followed
<1>2. /\ Story(e, E, F, at, B) /\ Placed(e, E, at, B, a, c, top, k) /\ Bounds(e, at, a, c, top, k)
  BY <1>1 DEF Follows, Placed
<1>3. nextSeq[e] \in Nat /\ top \in Nat /\ top <= nextSeq[e] /\ c \in Nat /\ B \in [Nat -> Batches]
  BY <1>2, PlaceNumbers, StoryNumbers
<1>4. Replaying(e, B, a, c, top) /\ pc[e] = "replay"
  BY <1>2 DEF Placed, Phase, ReplayRecv
<1>5. replayed[e] = Stretch(B, c, top) /\ c < top
  <2>1. Stretch(B, c, top) # << >> /\ replayed[e] = Stretch(B, c, top) /\ c <= top
    BY <1>4 DEF Replaying, ReplayRecv
  <2>2. c # top
    BY <1>3, <2>1, StretchEmpty
  <2>3. QED
    BY <1>3, <2>1, <2>2
<1>6. Head(Stretch(B, c, top)) = B[c] /\ Tail(Stretch(B, c, top)) = Stretch(B, c + 1, top)
  BY <1>3, <1>5, StretchHeadTail
<1>7. /\ UNCHANGED <<setup, engineVars, vars, wire, sub, pc, queue, nextSeq>>
      /\ TakeBatch(e, B[c]) /\ replayed'[e] = Stretch(B, c + 1, top)
  BY <1>5, <1>6 DEF ReplayRecv, engineVars, LTyped, StreamTyped
<1>8. c < nextSeq[e]
  BY <1>3, <1>5
<1>9. AllOk(e, B) => lastSeq'[e] = c
  <2>1. SUFFICES ASSUME AllOk(e, B) PROVE lastSeq'[e] = c
    OBVIOUS
  <2>2. B[c] \in Batches /\ B[c].ok = TRUE /\ B[c].seq = c
    <3>1. B[c].seq = c
      BY <1>2, <1>3, <1>8 DEF Story, Told, Carries
    <3>2. B[c] \in Batches
      BY <1>3
    <3>3. c \in 0..(nextSeq[e] - 1)
      BY <1>3, <1>8
    <3>4. QED
      BY <2>1, <3>1, <3>3, <3>2 DEF AllOk
  <2>3. c > lastSeq[e]
    BY <1>3, <1>4, <2>1 DEF Replaying, NoSeq
  <2>4. QED
    BY <1>7, <2>2, <2>3, TakeBatchDoes
<1>10. Replaying(e, B, a, c + 1, top)'
  <2>1. AllOk(e, B)' <=> AllOk(e, B)
    BY <1>7 DEF AllOk
  <2>2. c + 1 <= top /\ (c + 1) - 1 = c
    BY <1>3, <1>5
  <2>3. QED
    BY <1>4, <1>7, <1>9, <2>1, <2>2 DEF Replaying
<1>11. Stays(e, at, B, a, c + 1, top)
  BY <1>4, <1>7, <1>10 DEF Stays, Phase
<1>12. QED
  BY <1>1, <1>7, <1>8, <1>11, TakeFollows

-----------------------------------------------------------------------------
(***************************************************************************)
(* Ingesting an event takes the listener one event further.                *)
(***************************************************************************)

\* What the events from a to b - 1 speak of.
Spoken(E, a, b) == {x \in Facts : \E i \in a..(b - 1) : x \in Touched(E[i])}

LEMMA SureIsRight ==
    ASSUME NEW e, NEW E, NEW F, NEW k, NEW b
    PROVE  Sure(e, E, F, k, b) <=> Right(setup.offload, Indexed(e), F[k], Spoken(E, k, b))
BY DEF Sure, Right, Spoken

\* What the events speak of, the first one and the others.
LEMMA SpokenFirst ==
    ASSUME NEW E, NEW k \in Nat, NEW b \in Nat, k < b
    PROVE  Spoken(E, k, b) = Touched(E[k]) \cup Spoken(E, k + 1, b)
<1>1. Touched(E[k]) \subseteq Facts
  BY DEF Touched
<1>2. k \in k..(b - 1) /\ \A i : i \in k..(b - 1) <=> i = k \/ i \in (k + 1)..(b - 1)
  OBVIOUS
<1>3. \A x \in Facts : (\E i \in k..(b - 1) : x \in Touched(E[i]))
                       <=> x \in Touched(E[k]) \/ \E i \in (k + 1)..(b - 1) : x \in Touched(E[i])
  BY <1>2
<1>4. QED
  BY <1>1, <1>3 DEF Spoken

\* With a block held, the events to come speak of those that continue it.
LEMMA SpokenFamily ==
    ASSUME NEW offload \in BOOLEAN, offload => "cpu" \in Tiers, NEW E, NEW F, NEW T \in Nat, Tale(offload, E, F, T),
           NEW a \in 0..T, NEW b \in a..T
    PROVE  FamilyIn(F[a], Spoken(E, a, b))
<1> SUFFICES ASSUME NEW d \in Blocks, NEW m \in 1..Len(d),
                    <<Prefix(d, m), "gpu">> \in F[a], <<d, "gpu">> \in F[a],
                    <<Prefix(d, m), "gpu">> \in Spoken(E, a, b)
             PROVE  <<d, "gpu">> \in Spoken(E, a, b)
  BY Zenon DEF FamilyIn
<1>1. PICK last \in a..(b - 1) : <<Prefix(d, m), "gpu">> \in Touched(E[last])
  BY DEF Spoken
<1>2. \E i \in a..(b - 1) : <<d, "gpu">> \in Touched(E[i])
  BY <1>1, FamilyTouched, Zenon
<1>3. <<d, "gpu">> \in Facts
  BY ListenerConstantsAssumption DEF Facts
<1>4. QED
  BY <1>2, <1>3 DEF Spoken

\* An event is ingested: it sets right what it speaks of, and makes wrong at most
\* what later ones speak of.
LEMMA IngestFollows ==
    ASSUME LTyped, IndexFits, NEW e \in Engines, Followed(e), Ingest(e)
    PROVE  Followed(e)'
<1>1. PICK E, F, at, B, a, c, top, k : Follows(e, E, F, at, B, a, c, top, k)
  BY DEF Followed
<1>2. /\ Story(e, E, F, at, B) /\ Placed(e, E, at, B, a, c, top, k) /\ Bounds(e, at, a, c, top, k)
      /\ Grounded(e, E, at) /\ (Whole(e, B, c) => Sure(e, E, F, k, at[top]))
  BY <1>1 DEF Follows, Placed
<1> DEFINE T == at[nextSeq[e]]
<1>3. /\ nextSeq[e] \in Nat /\ a \in Nat /\ a <= nextSeq[e] /\ c \in Nat /\ top \in Nat
      /\ k \in Nat /\ k <= at[c] /\ at[c] \in Nat /\ at[top] \in Nat /\ T \in Nat
      /\ at[c] <= T /\ at[top] <= T /\ (c <= top => at[c] <= at[top])
      /\ E \in [Nat -> Events]
  BY <1>2, PlaceNumbers, StoryNumbers
<1> HIDE DEF T
<1>4. k < at[c]
  <2>1. todo[e] # << >>
    BY DEF Ingest
  <2>2. k # at[c]
    BY <1>2, <2>1, NothingToDo
  <2>3. QED
    BY <1>3, <2>2
<1>5. Head(todo[e]) = E[k] /\ Tail(todo[e]) = Stretch(E, k + 1, at[c]) /\ E[k] \in Events
  <2>1. todo[e] = Stretch(E, k, at[c])
    BY <1>2 DEF Placed
  <2>2. E \in [Nat -> Events] /\ k \in Nat /\ at[c] \in Nat
    BY <1>3
  <2>3. Head(Stretch(E, k, at[c])) = E[k] /\ Tail(Stretch(E, k, at[c])) = Stretch(E, k + 1, at[c])
    BY <1>4, <2>2, StretchHeadTail, Zenon
  <2>4. QED
    BY <2>1, <2>2, <2>3
<1>6. \/ pc[e] = "replay" /\ Replaying(e, B, a, c, top)
      \/ pc[e] = "live" /\ Living(e, B, a, c, top)
  <2>1. k # at[c]
    BY <1>3, <1>4
  <2>2. QED
    BY <1>2, <2>1 DEF Placed, Phase, Away, Asking
<1>7. k < at[top]
  <2>1. c <= top
    BY <1>3, <1>6 DEF Replaying, Living
  <2>2. QED
    BY <1>3, <1>4, <2>1
<1>8. /\ Tale(setup.offload, E, F, T) /\ setup.offload \in BOOLEAN /\ (setup.offload => "cpu" \in Tiers)
      /\ Does(setup.offload, F[k], E[k], F[k + 1])
  <2>1. Tale(setup.offload, E, F, T)
    BY <1>2 DEF Story, Told, T
  <2>2. k \in 0..(T - 1)
    BY <1>3, <1>4
  <2>3. QED
    BY <2>1, <2>2, SetupFacts DEF Tale
<1>9. /\ UNCHANGED <<setup, cache, nextSeq, log, wire, sub, pc, lastSeq, replayed, queue, ingested>>
      /\ todo'[e] = Stretch(E, k + 1, at[c])
  BY <1>5 DEF Ingest, engineVars, history, LTyped, StreamTyped
<1>10. Story(e, E, F, at, B)'
  BY <1>2, <1>9, StoryStays
<1>11. Grounded(e, E, at)'
  <2>1. \A x \in Facts : x \in Indexed(e)' => x \in Indexed(e) \/ x \in Touched(E[k])
    BY <1>5, IngestIsLocal
  <2>2. k \in 0..(T - 1)
    BY <1>3, <1>4
  <2>3. Indexed(e)' \subseteq Facts
    BY DEF Indexed, Facts
  <2>4. \A x \in Indexed(e)' : \E i \in 0..(T - 1) : x \in Touched(E[i])
    BY <1>2, <2>1, <2>2, <2>3 DEF Grounded, T
  <2>5. QED
    BY <1>9, <2>4 DEF Grounded, T
<1>12. Placed(e, E, at, B, a, c, top, k + 1)'
  <2>1. Bounds(e, at, a, c, top, k + 1)'
    BY <1>2, <1>3, <1>4, <1>9 DEF Bounds
  <2>2. (wire[e] = Stretch(B, a, nextSeq[e]))' /\ KeepsEnd(e, B)' /\ Counts(e, B)'
    BY <1>2, <1>9 DEF Placed, KeepsEnd, Counts
  <2>3. Phase(e, at, B, a, c, top, k + 1)'
    BY <1>6, <1>9 DEF Phase, Replaying, Living, AllOk
  <2>4. QED
    BY <1>9, <2>1, <2>2, <2>3 DEF Placed
<1>13. (Whole(e, B, c) => Sure(e, E, F, k + 1, at[top]))'
  <2>1. SUFFICES ASSUME Whole(e, B, c)' PROVE Sure(e, E, F, k + 1, at[top])'
    OBVIOUS
  <2>2. Whole(e, B, c)
    BY <1>9, <2>1 DEF Whole, AllOk
  <2>3. Right(setup.offload, Indexed(e), F[k], Spoken(E, k, at[top]))
    BY <1>2, <2>2, SureIsRight
  <2>4. Spoken(E, k, at[top]) = Touched(E[k]) \cup Spoken(E, k + 1, at[top])
    BY <1>3, <1>7, SpokenFirst
  <2>5. FamilyIn(F[k + 1], Spoken(E, k + 1, at[top]))
    <3>1. k + 1 \in 0..T /\ at[top] \in (k + 1)..T
      BY <1>3, <1>7
    <3>2. QED
      BY <1>3, <1>8, <3>1, SpokenFamily
  <2>6. Right(setup.offload, Indexed(e)', F[k + 1], Spoken(E, k + 1, at[top]))
    BY <1>5, <1>8, <2>3, <2>4, <2>5, IngestLearns
  <2>7. QED
    BY <1>9, <2>6 DEF Sure, Right, Spoken
<1>14. Follows(e, E, F, at, B, a, c, top, k + 1)'
  BY <1>10, <1>11, <1>12, <1>13 DEF Follows
<1>15. QED
  BY <1>14 DEF Followed

-----------------------------------------------------------------------------
(***************************************************************************)
(* A batch more: the story grows, and the listener's place in it with it.  *)
(***************************************************************************)

\* Two lists are the same before the n-th place.
SameUpTo(n, f, g) == \A j \in 0..(n - 1) : g[j] = f[j]

LEMMA SameStretch ==
    ASSUME NEW n \in Nat, NEW f, NEW g, SameUpTo(n, f, g), NEW x \in Nat, NEW y \in Nat, y <= n
    PROVE  Stretch(g, x, y) = Stretch(f, x, y)
<1>1. \A i \in x..(y - 1) : g[i] = f[i]
  BY DEF SameUpTo
<1>2. QED
  BY <1>1, StretchSame

\* One element more, the others being the same.
LEMMA LongerStretch ==
    ASSUME NEW n \in Nat, NEW f, NEW g \in [Nat -> Batches], SameUpTo(n, f, g), NEW x \in Nat, x <= n
    PROVE  Append(Stretch(f, x, n), g[n]) = Stretch(g, x, n + 1)
<1>1. Stretch(g, x, n) = Stretch(f, x, n)
  BY SameStretch
<1>2. Append(Stretch(g, x, n), g[n]) = Stretch(g, x, n + 1)
  BY StretchAppend
<1>3. QED
  BY <1>1, <1>2

\* The story E, F, at, B of an engine after n batches goes on with batch n.
Longer(n, E, F, at, B, E2, F2, at2, B2) ==
    /\ SameStart(n, E, F, at, E2, F2, at2)
    /\ SameUpTo(n, B, B2)
    /\ B2 \in [Nat -> Batches]

\* The batch reaches the log, and the socket if it is connected.
Sent(e, msg) ==
    /\ UNCHANGED <<setup, sub, pc, lastSeq, replayed, queue, todo, ingested, vars>>
    /\ nextSeq'[e] = nextSeq[e] + 1
    /\ log'[e] \in {Append(log[e], msg), Tail(Append(log[e], msg))}
    /\ wire'[e] = IF sub[e] = TRUE THEN Append(wire[e], msg) ELSE wire[e]

\* A published batch that is not dropped is sent.
LEMMA PublishSends ==
    ASSUME LTyped, NEW e \in Engines, NEW events, NEW after, Publish(e, events, after), "dropped" \notin happened'
    PROVE  \E ok \in BOOLEAN : Sent(e, [seq |-> nextSeq[e], events |-> events, ok |-> ok])
<1>1. PICK ok \in BOOLEAN :
         LET msg == [seq |-> nextSeq[e], events |-> events, ok |-> ok]
             kept == Append(log[e], msg)
         IN  /\ log' = [log EXCEPT ![e] = IF Len(kept) > setup.replayCap THEN Tail(kept) ELSE kept]
             /\ wire' = IF sub[e] THEN [wire EXCEPT ![e] = Append(@, msg)] ELSE wire
  <2>1. ~Fault("dropped")
    BY DEF Fault
  <2>2. QED
    BY <2>1, Zenon DEF Publish
<1> DEFINE msg == [seq |-> nextSeq[e], events |-> events, ok |-> ok]
           kept == Append(log[e], msg)
<1>2. /\ log' = [log EXCEPT ![e] = IF Len(kept) > setup.replayCap THEN Tail(kept) ELSE kept]
      /\ wire' = IF sub[e] THEN [wire EXCEPT ![e] = Append(wire[e], msg)] ELSE wire
  BY <1>1, Zenon
<1> HIDE DEF msg
<1>3. log'[e] \in {kept, Tail(kept)}
  BY <1>2 DEF LTyped, EngineTyped
<1>4. wire'[e] = IF sub[e] = TRUE THEN Append(wire[e], msg) ELSE wire[e]
  <2>1. CASE sub[e] = TRUE
    BY <1>2, <2>1 DEF LTyped, EngineTyped
  <2>2. CASE sub[e] = FALSE
    BY <1>2, <2>2 DEF LTyped, EngineTyped
  <2>3. QED
    BY <2>1, <2>2 DEF LTyped, EngineTyped
<1>5. /\ UNCHANGED <<setup, sub, pc, lastSeq, replayed, queue, todo, ingested, vars>>
      /\ nextSeq'[e] = nextSeq[e] + 1
  BY DEF Publish, streamVars, history, LTyped, EngineTyped
<1>6. Sent(e, msg)
  BY <1>3, <1>4, <1>5 DEF Sent
<1>7. QED
  BY <1>6 DEF msg

\* The engine keeps the last batches still.
LEMMA SentKeepsEnd ==
    ASSUME LTyped, NEW e \in Engines, NEW E, NEW F, NEW at, NEW B, Story(e, E, F, at, B), KeepsEnd(e, B),
           NEW E2, NEW F2, NEW at2, NEW B2, Longer(nextSeq[e], E, F, at, B, E2, F2, at2, B2), Sent(e, B2[nextSeq[e]])
    PROVE  KeepsEnd(e, B2)'
<1> DEFINE n == nextSeq[e]
<1>1. n \in Nat
  BY StoryNumbers
<1>2. PICK first \in 0..n : log[e] = Stretch(B, first, n)
  BY DEF KeepsEnd
<1>3. B2 \in [Nat -> Batches] /\ SameUpTo(n, B, B2) /\ nextSeq'[e] = n + 1
  BY DEF Longer, Sent
<1>4. log'[e] \in {Append(log[e], B2[n]), Tail(Append(log[e], B2[n]))}
  BY DEF Sent
<1> HIDE DEF n
<1>5. first \in Nat /\ first <= n /\ first < n + 1 /\ n + 1 \in Nat
  BY <1>1, <1>2
<1>6. Append(log[e], B2[n]) = Stretch(B2, first, n + 1)
  <2>1. Append(Stretch(B, first, n), B2[n]) = Stretch(B2, first, n + 1)
    BY <1>1, <1>3, <1>5, LongerStretch
  <2>2. QED
    BY <1>2, <2>1
<1>7. Tail(Stretch(B2, first, n + 1)) = Stretch(B2, first + 1, n + 1)
  BY <1>3, <1>5, StretchHeadTail
<1>8. log'[e] = Stretch(B2, first, n + 1) \/ log'[e] = Stretch(B2, first + 1, n + 1)
  BY <1>4, <1>6, <1>7
<1>9. first \in 0..(n + 1) /\ first + 1 \in 0..(n + 1)
  BY <1>5
<1>10. QED
  BY <1>3, <1>8, <1>9 DEF KeepsEnd

\* The place of the listener in the longer story.
LEMMA SentPlaced ==
    ASSUME LTyped, NEW e \in Engines, NEW E, NEW F, NEW at, NEW B, Story(e, E, F, at, B),
           NEW a, NEW c, NEW top, NEW k, Placed(e, E, at, B, a, c, top, k),
           NEW E2, NEW F2, NEW at2, NEW B2, Longer(nextSeq[e], E, F, at, B, E2, F2, at2, B2), Sent(e, B2[nextSeq[e]])
    PROVE  \E a2, top2 :
              /\ Placed(e, E2, at2, B2, a2, c, top2, k)'
              /\ at[top] <= at2[top2]
<1>1. PICK n \in Nat : n = nextSeq[e]
  BY StoryNumbers
<1>2. Bounds(e, at, a, c, top, k)
  BY DEF Placed
<1>3. /\ n \in Nat /\ a \in Nat /\ c \in Nat /\ top \in Nat /\ k \in Nat /\ a <= n /\ c <= n /\ top <= n
      /\ at[c] \in Nat /\ at[top] \in Nat /\ at[n] \in Nat /\ k <= at[c] /\ at[c] <= at[n] /\ at[top] <= at[n]
  BY <1>2, <1>1, PlaceNumbers
<1>4. /\ (\A i \in 0..n : at2[i] = at[i]) /\ SameUpTo(at[n], E, E2) /\ at[n] <= at2[n + 1]
      /\ SameUpTo(n, B, B2) /\ B2 \in [Nat -> Batches]
  BY <1>1 DEF Longer, SameStart, SameUpTo
<1>5. at2[c] = at[c] /\ at2[top] = at[top]
  BY <1>3, <1>4
<1>6. /\ UNCHANGED <<setup, sub, pc, lastSeq, replayed, queue, todo, ingested, vars>>
      /\ nextSeq'[e] = n + 1
      /\ wire'[e] = IF sub[e] = TRUE THEN Append(wire[e], B2[n]) ELSE wire[e]
  BY <1>1 DEF Sent
<1>7. KeepsEnd(e, B2)'
  BY SentKeepsEnd DEF Placed
<1>8. wire[e] = Stretch(B, a, n)
  BY <1>1 DEF Placed
<1>9. lastSeq[e] < n /\ \A j \in ingested[e] : j <= lastSeq[e] /\ B[j].ok = TRUE
  BY <1>1 DEF Placed, Counts
<1>10. (AllOk(e, B) <=> \A j \in 0..(n - 1) : B[j].ok = TRUE) /\ nextSeq[e] = n
  BY <1>1 DEF AllOk
<1>11. (todo[e] = Stretch(E2, k, at2[c]))'
  <2>1. Stretch(E2, k, at[c]) = Stretch(E, k, at[c])
    BY <1>3, <1>4, SameStretch
  <2>2. QED
    BY <1>5, <1>6, <2>1 DEF Placed
<1>12. Counts(e, B2)'
  <2>1. lastSeq[e] \in Nat \cup {NoSeq} /\ ingested[e] \subseteq Nat
    BY DEF LTyped, StreamTyped
  <2>2. lastSeq[e] < n + 1
    BY <1>3, <1>9, <2>1 DEF NoSeq
  <2>3. \A j \in ingested[e] : j \in 0..(n - 1)
    BY <1>3, <1>9, <2>1 DEF NoSeq
  <2>4. \A j \in ingested[e] : j <= lastSeq[e] /\ B2[j].ok = TRUE
    BY <1>4, <1>9, <2>3 DEF SameUpTo
  <2>5. QED
    BY <1>6, <2>2, <2>4 DEF Counts
<1>13. AllOk(e, B2)' => AllOk(e, B)
  <2>1. \A j \in 0..(n - 1) : j \in 0..((n + 1) - 1)
    BY <1>3
  <2>2. QED
    BY <1>4, <1>6, <1>10, <2>1 DEF AllOk, SameUpTo
<1>14. CASE pc[e] \in {"stopped", "dial"}
  <2>1. Away(e, at, a, c, k) /\ (pc[e] = "dial" => Blank(e))
    BY <1>14 DEF Placed, Phase
  <2>2. wire'[e] = Stretch(B2, n + 1, n + 1)
    <3>1. Stretch(B, n, n) = << >> /\ Stretch(B2, n + 1, n + 1) = << >>
      BY <1>3, NoStretch
    <3>2. QED
      BY <1>6, <1>8, <1>10, <2>1, <3>1 DEF Away
  <2>3. Bounds(e, at2, n + 1, c, top, k)'
    BY <1>3, <1>5, <1>6 DEF Bounds
  <2>4. Phase(e, at2, B2, n + 1, c, top, k)'
    BY <1>5, <1>6, <1>14, <2>1 DEF Phase, Away, Blank
  <2>5. Placed(e, E2, at2, B2, n + 1, c, top, k)'
    BY <1>6, <1>7, <1>11, <1>12, <2>2, <2>3, <2>4 DEF Placed
  <2>6. at[top] <= at2[top]
    BY <1>3, <1>5
  <2>7. QED
    BY <2>5, <2>6
<1>15. ASSUME sub[e] = TRUE
       PROVE  /\ wire'[e] = Stretch(B2, a, n + 1)
              /\ Bounds(e, at2, a, c, top, k)' /\ Bounds(e, at2, a, c, n + 1, k)'
  <2>1. Append(Stretch(B, a, n), B2[n]) = Stretch(B2, a, n + 1)
    BY <1>3, <1>4, LongerStretch
  <2>2. Bounds(e, at2, a, c, top, k)' /\ Bounds(e, at2, a, c, n + 1, k)'
    BY <1>3, <1>5, <1>6 DEF Bounds
  <2>3. QED
    BY <1>6, <1>8, <1>15, <2>1, <2>2
<1>16. CASE pc[e] = "request"
  <2>1. Asking(e, at, c, k) /\ Blank(e)
    BY <1>16 DEF Placed, Phase
  <2>2. Phase(e, at2, B2, a, c, top, k)'
    BY <1>5, <1>6, <1>16, <2>1 DEF Phase, Asking, Blank
  <2>3. Placed(e, E2, at2, B2, a, c, top, k)'
    BY <1>6, <1>7, <1>11, <1>12, <1>15, <2>1, <2>2 DEF Placed, Asking
  <2>4. at[top] <= at2[top]
    BY <1>3, <1>5
  <2>5. QED
    BY <2>3, <2>4
<1>17. CASE pc[e] = "replay"
  <2>1. Replaying(e, B, a, c, top)
    BY <1>17 DEF Placed, Phase
  <2>2. Stretch(B2, c, top) = Stretch(B, c, top)
    BY <1>3, <1>4, SameStretch
  <2>3. Replaying(e, B2, a, c, top)'
    BY <1>6, <1>13, <2>1, <2>2 DEF Replaying
  <2>4. Phase(e, at2, B2, a, c, top, k)'
    BY <1>6, <1>17, <2>3 DEF Phase
  <2>5. Placed(e, E2, at2, B2, a, c, top, k)'
    BY <1>6, <1>7, <1>11, <1>12, <1>15, <2>1, <2>4 DEF Placed, Replaying
  <2>6. at[top] <= at2[top]
    BY <1>3, <1>5
  <2>7. QED
    BY <2>5, <2>6
<1>18. CASE pc[e] = "live"
  <2>1. Living(e, B, a, c, top)
    BY <1>18 DEF Placed, Phase
  <2>2. Stretch(B2, c, a) = Stretch(B, c, a)
    BY <1>3, <1>4, SameStretch
  <2>3. Living(e, B2, a, c, n + 1)'
    BY <1>6, <2>1, <2>2 DEF Living
  <2>4. Phase(e, at2, B2, a, c, n + 1, k)'
    BY <1>6, <1>18, <2>3 DEF Phase
  <2>5. Placed(e, E2, at2, B2, a, c, n + 1, k)'
    BY <1>6, <1>7, <1>11, <1>12, <1>15, <2>1, <2>4 DEF Placed, Living
  <2>6. at[top] <= at2[n + 1]
    BY <1>3, <1>4, <1>10, <2>1 DEF Living
  <2>7. QED
    BY <2>5, <2>6
<1>19. pc[e] \in {"stopped", "dial", "request", "replay", "live"}
  BY DEF Placed, Phase
<1>20. QED
  BY <1>14, <1>16, <1>17, <1>18, <1>19

\* The engine publishes a batch: the story is longer.
LEMMA PublishFollows ==
    ASSUME LTyped, NEW e \in Engines, Followed(e), EngineActs(e), ~EngineRestart(e), "dropped" \notin happened'
    PROVE  Followed(e)'
<1>1. PICK E, F, at, B, a, c, top, k : Follows(e, E, F, at, B, a, c, top, k)
  BY DEF Followed
<1>2. /\ Story(e, E, F, at, B) /\ Placed(e, E, at, B, a, c, top, k) /\ Bounds(e, at, a, c, top, k)
      /\ Grounded(e, E, at) /\ (Whole(e, B, c) => Sure(e, E, F, k, at[top]))
  BY <1>1 DEF Follows, Placed
<1>3. PICK n \in Nat : n = nextSeq[e]
  BY <1>2, StoryNumbers
<1>4. /\ at[n] \in Nat /\ at[top] \in Nat /\ at[c] \in Nat /\ k \in Nat /\ k <= at[c] /\ at[c] <= at[n]
      /\ at[top] <= at[n] /\ B \in [Nat -> Batches]
  BY <1>2, <1>3, PlaceNumbers, StoryNumbers
<1>5. Told(setup.offload, n, Plain(e), E, F, at, B)
  BY <1>2, <1>3 DEF Story
<1>6. Closed(Plain(e))
  <2>1. at[n] \in 0..at[n]
    BY <1>4
  <2>2. QED
    BY <1>5, <2>1 DEF Told, Tale
<1>7. PICK events, after : Publish(e, events, after) /\ Tells(setup.offload, Plain(e), events, PlainOf(after))
  BY <1>6, EngineTells
<1>8. PICK ok \in BOOLEAN : Sent(e, [seq |-> n, events |-> events, ok |-> ok])
  BY <1>3, <1>7, PublishSends
<1>9. PICK E2, F2, at2 :
         /\ Told(setup.offload, n + 1, PlainOf(after), E2, F2, at2,
                 [B EXCEPT ![n] = [seq |-> n, events |-> events, ok |-> ok]])
         /\ SameStart(n, E, F, at, E2, F2, at2)
  BY <1>5, <1>7, SetupFacts, ToldGrows
<1>10. PICK msg : msg = [seq |-> n, events |-> events, ok |-> ok]
  OBVIOUS
<1>11. PICK B2 : B2 = [B EXCEPT ![n] = msg]
  OBVIOUS
<1>12. Told(setup.offload, n + 1, PlainOf(after), E2, F2, at2, B2)
  BY <1>9, <1>10, <1>11
<1>13. SameUpTo(n, B, B2) /\ B2[n] = msg /\ B2 \in [Nat -> Batches]
  <2>1. B2 \in [Nat -> Batches]
    BY <1>12 DEF Told
  <2>2. QED
    BY <1>4, <1>11, <2>1 DEF SameUpTo
<1>14. Longer(nextSeq[e], E, F, at, B, E2, F2, at2, B2)
  BY <1>3, <1>9, <1>13 DEF Longer
<1>15. Sent(e, B2[nextSeq[e]])
  BY <1>3, <1>8, <1>10, <1>13
<1>16. PICK a2, top2 : Placed(e, E2, at2, B2, a2, c, top2, k)' /\ at[top] <= at2[top2]
  BY <1>2, <1>14, <1>15, SentPlaced
<1>17. UNCHANGED <<setup, pc, lastSeq, ingested, vars>> /\ nextSeq'[e] = n + 1
  BY <1>3, <1>15 DEF Sent
<1>18. Indexed(e)' = Indexed(e)
  BY <1>17, SameIndexed
<1>19. Story(e, E2, F2, at2, B2)'
  <2>1. cache'[e] = after
    BY <1>7 DEF Publish, LTyped, EngineTyped
  <2>2. Plain(e)' = PlainOf(after)
    BY <2>1 DEF Plain, PlainOf, Cached, Facts
  <2>3. QED
    BY <1>12, <1>17, <2>2 DEF Story
<1>20. SameUpTo(at[n], E, E2) /\ (\A i \in 0..at[n] : F2[i] = F[i]) /\ at[n] <= at2[n + 1] /\ at2[n + 1] \in Nat
  <2>1. at2 \in [Nat -> Nat]
    BY <1>12 DEF Told
  <2>2. QED
    BY <1>9, <2>1 DEF SameStart, SameUpTo
<1>21. Grounded(e, E2, at2)'
  <2>1. \A i \in 0..(at[n] - 1) : i \in 0..(at2[n + 1] - 1) /\ E2[i] = E[i]
    BY <1>4, <1>20 DEF SameUpTo
  <2>2. \A x \in Indexed(e) : \E i \in 0..(at[n] - 1) : x \in Touched(E[i])
    BY <1>2, <1>3 DEF Grounded
  <2>3. \A x \in Indexed(e) : \E i \in 0..(at2[n + 1] - 1) : x \in Touched(E2[i])
    BY <2>1, <2>2
  <2>4. QED
    BY <1>17, <1>18, <2>3 DEF Grounded
<1>22. (Whole(e, B2, c) => Sure(e, E2, F2, k, at2[top2]))'
  <2>1. SUFFICES ASSUME Whole(e, B2, c)' PROVE Sure(e, E2, F2, k, at2[top2])'
    OBVIOUS
  <2>2. AllOk(e, B)
    <3>1. \A j \in 0..((n + 1) - 1) : B2[j].ok = TRUE
      BY <1>17, <2>1 DEF Whole, AllOk
    <3>2. \A j \in 0..(n - 1) : j \in 0..((n + 1) - 1) /\ B2[j] = B[j]
      BY <1>13 DEF SameUpTo
    <3>3. QED
      BY <1>3, <3>1, <3>2 DEF AllOk
  <2>3. Whole(e, B, c)
    BY <1>17, <2>1, <2>2 DEF Whole
  <2>4. Sure(e, E, F, k, at[top])
    BY <1>2, <2>3
  <2>5. at2[top2] \in Nat
    <3>1. top2 \in 0..(n + 1) /\ at2 \in [Nat -> Nat]
      BY <1>12, <1>16, <1>17 DEF Placed, Bounds, Told
    <3>2. QED
      BY <3>1
  <2>6. \A i \in k..(at[top] - 1) : i \in k..(at2[top2] - 1) /\ E2[i] = E[i]
    BY <1>4, <1>16, <1>20, <2>5 DEF SameUpTo
  <2>7. F2[k] = F[k]
    BY <1>4, <1>20
  <2>8. \A x \in Facts : \/ x \in Indexed(e) <=> x \in F2[k]
                         \/ ~setup.offload /\ \E i \in k..(at2[top2] - 1) : x \in Touched(E2[i])
    BY <2>4, <2>6, <2>7 DEF Sure
  <2>9. QED
    BY <1>17, <1>18, <2>8 DEF Sure
<1>23. Follows(e, E2, F2, at2, B2, a2, c, top2, k)'
  BY <1>16, <1>19, <1>21, <1>22 DEF Follows
<1>24. QED
  BY <1>23 DEF Followed

\* The faults that are out of scope stay so: it is enough that the state after
\* the step is in scope.
LEMMA ScopeStays ==
    ASSUME [LNext]_lvars, InScope'
    PROVE  InScope
<1>1. setup' = setup /\ happened \subseteq happened'
  <2>1. ASSUME NEW e \in Engines, EngineActs(e) PROVE setup' = setup /\ happened \subseteq happened'
    <3>1. CASE EngineRestart(e)
      BY <3>1 DEF EngineRestart, Fault
    <3>2. CASE ~EngineRestart(e)
      <4>1. PICK events, after : Publish(e, events, after)
        BY <2>1, <3>2, Zenon DEF EngineActs, EngineStore, EngineOffload, EngineEvict, EngineReplace, EngineClear
      <4>2. Quiet /\ setup' = setup
        BY <4>1, PublishIsQuiet DEF Publish
      <4>3. QED
        BY <4>2 DEF Quiet
    <3>3. QED
      BY <3>1, <3>2
  <2>2. ASSUME NEW e \in Engines, Ingest(e) PROVE setup' = setup /\ happened \subseteq happened'
    BY <2>2 DEF Ingest
  <2>3. ASSUME NEW e \in Engines, RecvLoop(e) PROVE setup' = setup /\ happened \subseteq happened'
    BY <2>2, <2>3 DEF RecvLoop, Dial, RequestReplay, ReplayRecv, ReplayOver, Recv, RecvError, Drained, Fault
  <2>4. ASSUME NEW e \in Engines, ApplyLoop(e) \/ ConnLost(e) \/ Unregister(e) \/ Register(e)
        PROVE  setup' = setup /\ happened \subseteq happened'
    BY <2>2, <2>4 DEF ApplyLoop, HandleFrames, ConnLost, Unregister, Register, Fault
  <2>5. CASE IndexerRestart \/ ProfileChange \/ UNCHANGED lvars
    BY <2>5 DEF IndexerRestart, ProfileChange, Fault, lvars, engineVars, history
  <2>6. QED
    BY <2>1, <2>3, <2>4, <2>5 DEF LNext
<1>2. QED
  BY <1>1 DEF InScope, RepeatsOffloads

\* While no profile was removed, one resolves.
LEMMA ScopeResolves ==
    ASSUME NumbersInv, InScope
    PROVE  resolves = TRUE
BY DEF NumbersInv, InScope, Silent

\* A broken connection, a restarted engine and a removed profile are out of
\* scope, and so is what only follows a broken connection.
LEMMA SilentSteps ==
    ASSUME NEW e \in Engines, InScope', ConnLost(e) \/ EngineRestart(e) \/ (ProfileChange /\ resolves = TRUE)
    PROVE  FALSE
BY DEF ConnLost, EngineRestart, ProfileChange, Fault, InScope, Silent

-----------------------------------------------------------------------------
(***************************************************************************)
(* All steps.                                                              *)
(***************************************************************************)

\* A step of one engine or its listener is nothing to the others.
Elsewhere(e) == \A y \in Engines : y # e => Spot(y)' = Spot(y) /\ Indexed(y)' = Indexed(y)

LEMMA EngineStepElsewhere ==
    ASSUME LTyped, NEW e \in Engines, NEW events, NEW after, Publish(e, events, after)
    PROVE  Elsewhere(e)
<1> SUFFICES ASSUME NEW y \in Engines, y # e PROVE Spot(y)' = Spot(y) /\ Indexed(y)' = Indexed(y)
  BY DEF Elsewhere
<1>1. UNCHANGED <<sub, vars, streamVars, history>> /\ cache'[y] = cache[y] /\ nextSeq'[y] = nextSeq[y]
  BY DEF Publish, LTyped, EngineTyped
<1>2. log'[y] = log[y] /\ wire'[y] = wire[y]
  <2>1. CASE UNCHANGED <<log, wire>>
    BY <2>1
  <2>2. CASE ~UNCHANGED <<log, wire>>
    <3>1. PICK ok \in BOOLEAN :
             LET msg == [seq |-> nextSeq[e], events |-> events, ok |-> ok]
                 kept == Append(log[e], msg)
             IN  /\ log' = [log EXCEPT ![e] = IF Len(kept) > setup.replayCap THEN Tail(kept) ELSE kept]
                 /\ wire' = IF sub[e] THEN [wire EXCEPT ![e] = Append(@, msg)] ELSE wire
      BY <2>2, Zenon DEF Publish
    <3> DEFINE msg == [seq |-> nextSeq[e], events |-> events, ok |-> ok]
               kept == Append(log[e], msg)
    <3>2. /\ log' = [log EXCEPT ![e] = IF Len(kept) > setup.replayCap THEN Tail(kept) ELSE kept]
          /\ wire' = IF sub[e] THEN [wire EXCEPT ![e] = Append(wire[e], msg)] ELSE wire
      BY <3>1, Zenon
    <3> HIDE DEF msg
    <3>3. log'[y] = log[y]
      BY <3>2 DEF LTyped, EngineTyped
    <3>4. wire' = wire \/ wire' = [wire EXCEPT ![e] = Append(wire[e], msg)]
      BY <3>2, Zenon
    <3>5. wire'[y] = wire[y]
      BY <3>4 DEF LTyped, EngineTyped
    <3>6. QED
      BY <3>3, <3>5
  <2>3. QED
    BY <2>1, <2>2
<1>3. Indexed(y)' = Indexed(y)
  BY <1>1, SameIndexed
<1>4. QED
  BY <1>1, <1>2, <1>3 DEF Spot, streamVars, history

LEMMA TakeElsewhere ==
    ASSUME LTyped, NEW e \in Engines, NEW msg, TakeBatch(e, msg), NEW y \in Engines, y # e
    PROVE  todo'[y] = todo[y] /\ lastSeq'[y] = lastSeq[y] /\ ingested'[y] = ingested[y]
<1>1. lastSeq' = lastSeq \/ lastSeq' = [lastSeq EXCEPT ![e] = msg.seq]
  BY Zenon DEF TakeBatch, TrackSeq
<1>2. todo' = todo \/ todo' = [todo EXCEPT ![e] = msg.events]
  BY Zenon DEF TakeBatch
<1>3. ingested' = ingested \/ ingested' = [ingested EXCEPT ![e] = @ \cup {msg.seq}]
  BY Zenon DEF TakeBatch
<1>4. QED
  BY <1>1, <1>2, <1>3 DEF LTyped, StreamTyped

LEMMA IngestElsewhere ==
    ASSUME LTyped, IndexFits, NEW e \in Engines, Ingest(e)
    PROVE  Elsewhere(e)
<1>1. Head(todo[e]) \in Events
  BY HeadIsBatch DEF Ingest, LTyped, StreamTyped
<1>2. \A y : y # e => Indexed(y)' = Indexed(y)
  BY <1>1, IngestIsLocal
<1>3. \A y \in Engines : y # e => Spot(y)' = Spot(y)
  BY DEF Ingest, engineVars, history, Spot, LTyped, StreamTyped
<1>4. QED
  BY <1>2, <1>3 DEF Elsewhere

LEMMA ListenerElsewhere ==
    ASSUME LTyped, IndexFits, NEW e \in Engines, RecvLoop(e) \/ ApplyLoop(e) \/ Unregister(e) \/ Register(e)
    PROVE  Elsewhere(e)
<1>1. CASE Ingest(e)
  BY <1>1, IngestElsewhere
<1>2. ASSUME UNCHANGED vars, \A y \in Engines : y # e => Spot(y)' = Spot(y)
      PROVE  Elsewhere(e)
  BY <1>2, SameIndexed DEF Elsewhere
<1>3. CASE ReplayRecv(e)
  <2>1. UNCHANGED vars /\ \A y \in Engines : y # e => Spot(y)' = Spot(y)
    BY <1>3, TakeElsewhere DEF ReplayRecv, engineVars, Spot, LTyped, StreamTyped
  <2>2. QED
    BY <1>2, <2>1
<1>4. CASE HandleFrames(e)
  <2>1. UNCHANGED vars /\ \A y \in Engines : y # e => Spot(y)' = Spot(y)
    BY <1>4, TakeElsewhere DEF HandleFrames, engineVars, Spot, LTyped, StreamTyped
  <2>2. QED
    BY <1>2, <2>1
<1>5. CASE Dial(e) \/ RequestReplay(e) \/ ReplayOver(e) \/ Recv(e) \/ RecvError(e) \/ Drained(e)
  <2>1. UNCHANGED vars /\ \A y \in Engines : y # e => Spot(y)' = Spot(y)
    BY <1>5 DEF Dial, RequestReplay, ReplayOver, Recv, RecvError, Drained, engineVars, history, Spot,
                LTyped, EngineTyped, StreamTyped
  <2>2. QED
    BY <1>2, <2>1
<1>6. CASE Unregister(e) \/ Register(e)
  <2>1. UNCHANGED vars /\ \A y \in Engines : y # e => Spot(y)' = Spot(y)
    BY <1>6, SMTT(20) DEF Unregister, Register, engineVars, history, Spot, LTyped, EngineTyped, StreamTyped
  <2>2. QED
    BY <1>2, <2>1
<1>7. QED
  BY <1>1, <1>3, <1>4, <1>5, <1>6 DEF RecvLoop, ApplyLoop

\* In scope the connection does not break, so a listener never drains.
LEMMA NoDraining ==
    ASSUME NEW e, Followed(e)
    PROVE  ~RecvError(e) /\ ~Drained(e)
<1>1. PICK E, F, at, B, a, c, top, k : Phase(e, at, B, a, c, top, k)
  BY DEF Followed, Follows, Placed
<1>2. QED
  BY <1>1 DEF RecvError, Drained, Phase, Living

\* The listener of an engine keeps following.
LEMMA ListenerFollows ==
    ASSUME LTyped, IndexFits, InScope, resolves = TRUE, NEW e \in Engines, Followed(e),
           RecvLoop(e) \/ ApplyLoop(e) \/ Unregister(e) \/ Register(e)
    PROVE  Followed(e)'
BY NoDraining, DialFollows, RequestFollows, ReplayRecvFollows, IngestFollows, ReplayOverFollows, RecvFollows,
   HandleFollows, UnregisterFollows, RegisterFollows DEF RecvLoop, ApplyLoop

\* In scope, every step keeps every listener in its story.
LEMMA LNextFollows ==
    ASSUME LTyped, NumbersInv, IndexFits, ExactInv, [LNext]_lvars
    PROVE  ExactInv'
<1> SUFFICES ASSUME InScope' PROVE \A y \in Engines : Followed(y)'
  BY DEF ExactInv
<1>1. InScope /\ (\A y \in Engines : Followed(y)) /\ resolves = TRUE
  BY ScopeStays, ScopeResolves DEF ExactInv
<1>2. ASSUME NEW e \in Engines, Elsewhere(e), setup' = setup, Followed(e)'
      PROVE  \A y \in Engines : Followed(y)'
  BY <1>1, <1>2, SameSpot DEF Elsewhere
<1>3. ASSUME NEW e \in Engines, EngineActs(e), ~EngineRestart(e)
      PROVE  \A y \in Engines : Followed(y)'
  <2>1. PICK events, after : Publish(e, events, after)
    BY <1>3, Zenon DEF EngineActs, EngineStore, EngineOffload, EngineEvict, EngineReplace, EngineClear
  <2>2. Elsewhere(e) /\ setup' = setup
    BY <2>1, EngineStepElsewhere DEF Publish
  <2>3. "dropped" \notin happened'
    BY DEF InScope, Silent
  <2>4. Followed(e)'
    BY <1>1, <1>3, <2>3, PublishFollows
  <2>5. QED
    BY <1>2, <2>2, <2>4
<1>4. ASSUME NEW e \in Engines, RecvLoop(e) \/ ApplyLoop(e) \/ Unregister(e) \/ Register(e)
      PROVE  \A y \in Engines : Followed(y)'
  <2>1. Elsewhere(e) /\ Followed(e)'
    BY <1>1, <1>4, ListenerElsewhere, ListenerFollows
  <2>2. setup' = setup
    BY <1>4 DEF RecvLoop, ApplyLoop, Unregister, Register, Dial, RequestReplay, ReplayRecv, Ingest, ReplayOver, Recv,
                RecvError, Drained, HandleFrames
  <2>3. QED
    BY <1>2, <2>1, <2>2
<1>5. CASE IndexerRestart
  BY <1>1, <1>5, RestartFollows
<1>6. CASE UNCHANGED vars /\ setup' = setup /\ \A y \in Engines : Spot(y)' = Spot(y)
  BY <1>1, <1>6, SameSpot, SameIndexed
<1>7. CASE UNCHANGED lvars
  BY <1>6, <1>7 DEF lvars, engineVars, streamVars, history, Spot
<1>8. CASE ProfileChange
  BY <1>6, <1>8 DEF ProfileChange, engineVars, streamVars, history, Spot
<1>9. QED
  BY <1>3, <1>4, <1>5, <1>7, <1>8, SilentSteps DEF LNext

\* At the end of the story the index has everything right.
LEMMA FollowedTell == ASSUME LTyped, ExactInv PROVE CaughtUpIsExact
BY FollowedIsExact DEF ExactInv, CaughtUpIsExact, InScope, Silent

\* A listener that has ingested everything leaves the index with exactly the
\* blocks its engine holds, whatever was replayed, repeated after the replay,
\* evicted in between or stored by key: the invariant places the listener in the
\* story of its engine (kvevents/listener.go: replayBuffered, trackSeq,
\* handleFrames, ingest; residency/index.go).
THEOREM CaughtUpExact == LSpec => []CaughtUpIsExact
<1>1. LInit => Init /\ NumbersInv
  BY DEF LInit, NumbersInv, Unbroken
<1>2. LInit => ExactInv
  BY InitFollowed DEF ExactInv
<1>3. LTyped /\ NumbersInv /\ IndexFits /\ ExactInv /\ [LNext]_lvars
      => LTyped' /\ NumbersInv' /\ IndexFits' /\ ExactInv'
  BY LNextTyped, LNextKeepsNumbers, LNextDrivesTheIndex, LNextFollows
<1>4. QED
  BY <1>1, <1>2, <1>3, LInitTyped, EmptyIndexFits, FollowedTell, PTL DEF LSpec

==============================================================================
