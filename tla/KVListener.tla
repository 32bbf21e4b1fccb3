----------------------------- MODULE KVListener -----------------------------
(***************************************************************************)
(* One listener per engine (internal/kvevents/listener.go) feeding the     *)
(* residency index from the engine's KV event stream.                      *)
(*                                                                         *)
(* The engine publishes numbered batches of events on a ZMQ PUB socket and *)
(* keeps the latest for replay.  The listener dials, asks for the batches  *)
(* after the last one it saw, then receives live batches into a queue that *)
(* an apply goroutine drains.  It counts a gap when a sequence number      *)
(* jumps.  A stream is fresh when it is connected without gaps, and a miss *)
(* in the index is believed (429) only under a fresh stream.               *)
(*                                                                         *)
(* The engine, its publisher and the connection are external: they are     *)
(* modelled from what the listener expects of them.  Each kind of fault    *)
(* happens at most once.                                                   *)
(*                                                                         *)
(* A prefix block is its chain of token chunks.  Hashing a chain is taken  *)
(* to be injective, so the request key of a block is its chain.            *)
(***************************************************************************)
EXTENDS ResidencyIndex, Integers, SequencesExt

CONSTANTS
    Blocks,       \* chains of token chunks an engine may cache, prefix-closed
    QueueCap,     \* applyQueueSize
    Setups        \* how engines and faults may be set up

FaultKinds == {"connLost", "dropped", "malformed", "replayFails", "engineRestarts",
               "indexerRestarts", "reregistered", "profileGone"}

Key(chain, lora) == [chain |-> chain, lora |-> lora]
Prefix(chain, n) == SubSeq(chain, 1, n)

\* Chains cached with or without a LoRA adapter.
LoraBlocks == UNION {s.loraBlocks : s \in Setups}
Chunks == UNION {{b[i] : i \in DOMAIN b} : b \in Blocks \cup LoraBlocks}

ASSUME ListenerConstantsAssumption ==
    /\ QueueCap \in Nat \ {0}
    /\ \A s \in Setups :
          /\ {s.offload, s.replay} \subseteq BOOLEAN
          /\ {s.maxSeq, s.replayCap, s.maxFaults} \subseteq Nat
          /\ s.faults \subseteq FaultKinds
          /\ s.offload => "cpu" \in Tiers
          /\ \A b \in s.loraBlocks : \A n \in 1..Len(b) : Prefix(b, n) \in s.loraBlocks
    /\ Blocks \cup LoraBlocks \subseteq Seq(Chunks) \ {<< >>}
    /\ \A b \in Blocks :
          /\ b \in RequestKeys /\ Key(b, FALSE) \in EngineKeys
          /\ Len(b) <= MaxList
          /\ \A n \in 1..Len(b) : Prefix(b, n) \in Blocks
    /\ "gpu" \in Tiers /\ Ranks # {}

VARIABLES
    setup,     \* of the engines, and the faults of this run:
               \*   loraBlocks  chains also cached under a LoRA adapter, prefix-closed
               \*   offload     whether engines copy blocks to their cpu tier
               \*   replay      whether the replay endpoint is configured
               \*   maxSeq      bound: batches an engine publishes before it stops
               \*   replayCap   batches the engine keeps for replay
               \*   faults      kinds of fault that may happen
               \*   maxFaults   bound: faults that happen
    cache,     \* engine -> what it holds: pairs <<engine key, tier>>
    nextSeq,   \* engine -> number of its next batch
    log,       \* engine -> batches kept for replay
    wire,      \* engine -> batches on their way to the SUB socket
    sub,       \* engine -> whether the SUB connection is up
    pc,        \* engine -> where its listener is
    connected, \* engine -> StreamHealth.Connected
    lastSeq,   \* engine -> last sequence number, or NoSeq (hasSeq = false)
    gaps,      \* engine -> StreamHealth.GapsTotal
    decodeErrors, \* engine -> StreamHealth.DecodeErrors
    replayed,  \* engine -> batches of the replay response not yet received
    queue,     \* engine -> batches between the recv and the apply goroutine
    todo,      \* engine -> events of the batch being ingested
    resolves,  \* whether the served model resolves to a profile
    ingested,  \* engine -> numbers of the batches ingested, but for those that
               \* came with a number already passed (history)
    heard,     \* engine -> the highest number of a batch that was handled,
               \* decoded or not, or NoSeq (history)
    happened   \* faults that happened (history)

engineVars == <<cache, nextSeq, log>>
streamVars == <<pc, connected, lastSeq, gaps, decodeErrors, replayed, queue, todo>>
history == <<ingested, heard>>
lvars == <<vars, setup, engineVars, streamVars, wire, sub, resolves, history, happened>>

-----------------------------------------------------------------------------
(***************************************************************************)
(* Keys, events and batches                                                *)
(***************************************************************************)

NoSeq == -1

\* Blocks are stored by chain: the parent of the event and the new blocks.
Stored(chain, lora, from, tier) ==
    [kind |-> "BlockStored", tier |-> tier, lora |-> lora,
     parent |-> Prefix(chain, from),
     tokens |-> SubSeq(chain, from + 1, Len(chain)),
     keys |-> [i \in 1..(Len(chain) - from) |-> Key(Prefix(chain, from + i), lora)]]

\* An offload connector names engine keys only.
StoredByKey(key, tier) ==
    [kind |-> "BlockStored", tier |-> tier, lora |-> key.lora,
     parent |-> << >>, tokens |-> << >>, keys |-> <<key>>]

RemovedEvent(key, tier) == [kind |-> "BlockRemoved", tier |-> tier, keys |-> <<key>>]

Cleared == [kind |-> "AllBlocksCleared"]

Fault(kind) ==
    /\ kind \in setup.faults \ happened
    /\ Cardinality(happened) < setup.maxFaults
    /\ happened' = happened \cup {kind}

LInit ==
    /\ Init
    /\ setup \in Setups
    /\ cache = [e \in Engines |-> {}]
    /\ nextSeq = [e \in Engines |-> 0]
    /\ log = [e \in Engines |-> << >>]
    /\ wire = [e \in Engines |-> << >>]
    /\ sub = [e \in Engines |-> FALSE]
    /\ pc = [e \in Engines |-> "dial"]
    /\ connected = [e \in Engines |-> FALSE]
    /\ lastSeq = [e \in Engines |-> NoSeq]
    /\ gaps = [e \in Engines |-> 0]
    /\ decodeErrors = [e \in Engines |-> 0]
    /\ replayed = [e \in Engines |-> << >>]
    /\ queue = [e \in Engines |-> << >>]
    /\ todo = [e \in Engines |-> << >>]
    /\ resolves = TRUE
    /\ ingested = [e \in Engines |-> {}]
    /\ heard = [e \in Engines |-> NoSeq]
    /\ happened = {}

-----------------------------------------------------------------------------
(***************************************************************************)
(* The engine (external).  It evicts children before their parents.        *)
(***************************************************************************)

Cached(e, chain, lora, tier) == <<Key(chain, lora), tier>> \in cache[e]

\* Publish one batch.  It reaches the socket unless nobody is connected or
\* the publisher drops it at its high-water mark; it may be undecodable.
Publish(e, events, after) ==
    /\ nextSeq[e] < setup.maxSeq
    /\ cache' = [cache EXCEPT ![e] = after]
    /\ nextSeq' = [nextSeq EXCEPT ![e] = @ + 1]
    /\ \/ \E ok \in BOOLEAN :
             LET msg == [seq |-> nextSeq[e], events |-> events, ok |-> ok]
                 kept == Append(log[e], msg)
             IN  /\ IF ok THEN UNCHANGED happened ELSE Fault("malformed")
                 /\ log' = [log EXCEPT ![e] =
                               IF Len(kept) > setup.replayCap THEN Tail(kept) ELSE kept]
                 /\ wire' = IF sub[e] THEN [wire EXCEPT ![e] = Append(@, msg)] ELSE wire
       \/ /\ sub[e]
          /\ Fault("dropped")
          /\ UNCHANGED <<log, wire>>
    /\ UNCHANGED <<setup, vars, streamVars, sub, resolves, history>>

\* The blocks of a chain after its longest cached prefix are computed.
CachedPrefix(e, chain, lora) ==
    Max({n \in 0..Len(chain) : \A m \in 1..n : Cached(e, Prefix(chain, m), lora, "gpu")})

NewBlocks(chain, lora, from) == {<<Key(Prefix(chain, n), lora), "gpu">> : n \in (from + 1)..Len(chain)}

EngineStore(e, chain, lora) ==
    LET from == CachedPrefix(e, chain, lora)
    IN  /\ from < Len(chain)
        /\ Publish(e, <<Stored(chain, lora, from, "gpu")>>, cache[e] \cup NewBlocks(chain, lora, from))

EngineOffload(e, key) ==
    /\ setup.offload
    /\ <<key, "gpu">> \in cache[e]
    /\ <<key, "cpu">> \notin cache[e]
    /\ Publish(e, <<StoredByKey(key, "cpu")>>, cache[e] \cup {<<key, "cpu">>})

\* A block with a cached continuation is not evicted.
Evictable(e, held) ==
    /\ held \in cache[e]
    /\ \A other \in cache[e] :
          other[2] = held[2] /\ other[1].lora = held[1].lora =>
              ~IsStrictPrefix(held[1].chain, other[1].chain)

EngineEvict(e, held) ==
    /\ Evictable(e, held)
    /\ Publish(e, <<RemovedEvent(held[1], held[2])>>, cache[e] \ {held})

\* Making room: one batch that evicts a block and stores another.
EngineReplace(e, held, chain) ==
    LET from == CachedPrefix(e, chain, FALSE)
    IN  /\ Evictable(e, held)
        /\ held[2] = "gpu"
        /\ from < Len(chain)
        /\ ~IsPrefix(held[1].chain, chain)
        /\ Publish(e, <<RemovedEvent(held[1], held[2]), Stored(chain, FALSE, from, "gpu")>>,
                   (cache[e] \ {held}) \cup NewBlocks(chain, FALSE, from))

EngineClear(e) ==
    /\ cache[e] # {}
    /\ Publish(e, <<Cleared>>, {})

\* A restarted engine is empty and numbers its batches from 0 again.
EngineRestart(e) ==
    /\ Fault("engineRestarts")
    /\ cache' = [cache EXCEPT ![e] = {}]
    /\ nextSeq' = [nextSeq EXCEPT ![e] = 0]
    /\ log' = [log EXCEPT ![e] = << >>]
    /\ wire' = [wire EXCEPT ![e] = << >>]
    /\ sub' = [sub EXCEPT ![e] = FALSE]
    /\ replayed' = [replayed EXCEPT ![e] = << >>]
    /\ ingested' = [ingested EXCEPT ![e] = {}]
    /\ heard' = [heard EXCEPT ![e] = NoSeq]
    /\ UNCHANGED <<setup, vars, pc, connected, lastSeq, gaps, decodeErrors, queue, todo, resolves>>

EngineActs(e) ==
    \/ \E chain \in Blocks : EngineStore(e, chain, FALSE)
    \/ \E chain \in setup.loraBlocks : EngineStore(e, chain, TRUE)
    \/ \E chain \in Blocks : EngineOffload(e, Key(chain, FALSE))
    \/ \E held \in cache[e] : EngineEvict(e, held)
    \/ \E held \in cache[e], chain \in Blocks : EngineReplace(e, held, chain)
    \/ EngineClear(e)
    \/ EngineRestart(e)

\* The connection breaks: batches not yet received are lost from the tail.
ConnLost(e) ==
    /\ sub[e]
    /\ Fault("connLost")
    /\ sub' = [sub EXCEPT ![e] = FALSE]
    /\ \E n \in 0..Len(wire[e]) : wire' = [wire EXCEPT ![e] = SubSeq(@, 1, n)]
    /\ UNCHANGED <<setup, vars, engineVars, streamVars, resolves, history>>

-----------------------------------------------------------------------------
(***************************************************************************)
(* Applying a batch.  A batch is taken from the queue or from the replay,  *)
(* then its events are ingested one by one, each under the index lock.     *)
(***************************************************************************)

\* Mistake: one missing batch goes unnoticed.
JumpsByThree(e, seq) == lastSeq[e] # NoSeq /\ seq > lastSeq[e] + 2

Jumps(e, seq) == lastSeq[e] # NoSeq /\ seq > lastSeq[e] + 1

\* trackSeq: a number that was passed already changes nothing.
TrackSeq(e, seq) ==
    /\ lastSeq' = IF lastSeq[e] = NoSeq \/ seq > lastSeq[e] THEN [lastSeq EXCEPT ![e] = seq] ELSE lastSeq
    /\ gaps' = IF Jumps(e, seq) THEN [gaps EXCEPT ![e] = @ + 1] ELSE gaps

\* Decode the batch, track its number (a repeated batch is ingested all the
\* same) and look the namespace up once for all its events.
TakeBatch(e, msg) ==
    /\ todo[e] = << >>
    /\ heard' = [heard EXCEPT ![e] = Max({@, msg.seq})]
    /\ IF msg.ok THEN TrackSeq(e, msg.seq) /\ UNCHANGED decodeErrors
       ELSE decodeErrors' = [decodeErrors EXCEPT ![e] = @ + 1] /\ UNCHANGED <<lastSeq, gaps>>
    /\ IF msg.ok /\ resolves
       THEN /\ todo' = [todo EXCEPT ![e] = msg.events]
            /\ ingested' = IF msg.seq > lastSeq[e]
                           THEN [ingested EXCEPT ![e] = @ \cup {msg.seq}] ELSE ingested
       ELSE UNCHANGED <<todo, ingested>>

Rank == CHOOSE d \in Ranks : TRUE

\* The chain an event continues, by way of the bridge of its parent.
ParentResolves(e, ev) == ev.parent = << >> \/ Bridged(e, Key(ev.parent, ev.lora))

\* Mistake: the blocks of an event are chained from the seed.
RequestKeysFromSeed(e, ev) == [i \in DOMAIN ev.tokens |-> Prefix(ev.tokens, i)]

\* Mistake: every block of an event gets the key of its last block.
RequestKeysOfLast(e, ev) == [i \in DOMAIN ev.tokens |-> ev.parent \o ev.tokens]

RequestKeysForEvent(e, ev) ==
    LET parent == IF ev.parent = << >> THEN << >> ELSE bridge[<<e, Key(ev.parent, ev.lora)>>]
    IN  [i \in DOMAIN ev.tokens |-> parent \o Prefix(ev.tokens, i)]

Indexable(e, ev) ==
    CASE ev.kind = "BlockStored" ->
            /\ ~ev.lora
            /\ IF ev.tokens = << >> THEN CanResolve(e, ev.keys) ELSE ParentResolves(e, ev)
      [] ev.kind = "BlockRemoved" -> Removed(e, ev.keys) # {}
      [] ev.kind = "AllBlocksCleared" -> e \in DOMAIN byEngine

Apply(e, ev) ==
    \/ /\ ev.kind = "BlockStored"
       /\ ev.tokens = << >>
       /\ StoreEventByEngineKeys(e, Rank, ev.tier, ev.keys)
    \/ /\ ev.kind = "BlockStored"
       /\ ev.tokens # << >>
       /\ StoreEvent(e, Rank, ev.tier, ev.keys, RequestKeysForEvent(e, ev))
    \/ /\ ev.kind = "BlockRemoved"
       /\ RemoveEvent(e, Rank, ev.tier, ev.keys)
    \/ /\ ev.kind = "AllBlocksCleared"
       /\ ClearEngine(e, AllTiers)

\* An event that cannot be indexed is counted and skipped.
Ingest(e) ==
    /\ todo[e] # << >>
    /\ IF Indexable(e, Head(todo[e])) THEN Apply(e, Head(todo[e])) ELSE UNCHANGED vars
    /\ todo' = [todo EXCEPT ![e] = Tail(@)]
    /\ UNCHANGED <<setup, engineVars, wire, sub, pc, connected, lastSeq, gaps, decodeErrors, replayed, queue,
                   resolves, history, happened>>

-----------------------------------------------------------------------------
(***************************************************************************)
(* The receiving goroutine                                                 *)
(***************************************************************************)

\* Connected is set before the replay, and the socket collects live batches
\* from here on: the replay may repeat them.
Dial(e) ==
    /\ pc[e] = "dial"
    /\ sub' = [sub EXCEPT ![e] = TRUE]
    /\ wire' = [wire EXCEPT ![e] = << >>]
    /\ connected' = [connected EXCEPT ![e] = TRUE]
    /\ pc' = [pc EXCEPT ![e] = IF setup.replay THEN "request" ELSE "live"]
    /\ UNCHANGED <<setup, vars, engineVars, lastSeq, gaps, decodeErrors, replayed, queue, todo, resolves,
                   history, happened>>

\* Mistake: the replay starts one batch late.
NextReplaySeqLate(e) == IF lastSeq[e] = NoSeq THEN 1 ELSE lastSeq[e] + 2

NextReplaySeq(e) == IF lastSeq[e] = NoSeq THEN 0 ELSE lastSeq[e] + 1

\* The kept batches from a number on; they are kept in the order of their
\* numbers.
KeptFrom(e, first) ==
    LET older == Cardinality({i \in DOMAIN log[e] : log[e][i].seq < first})
    IN  SubSeq(log[e], older + 1, Len(log[e]))

RequestReplay(e) ==
    /\ pc[e] = "request"
    /\ replayed' = [replayed EXCEPT ![e] = KeptFrom(e, NextReplaySeq(e))]
    /\ pc' = [pc EXCEPT ![e] = "replay"]
    /\ UNCHANGED <<setup, vars, engineVars, wire, sub, connected, lastSeq, gaps, decodeErrors, queue, todo,
                   resolves, history, happened>>

ReplayRecv(e) ==
    /\ pc[e] = "replay"
    /\ replayed[e] # << >>
    /\ TakeBatch(e, Head(replayed[e]))
    /\ replayed' = [replayed EXCEPT ![e] = Tail(@)]
    /\ UNCHANGED <<setup, vars, engineVars, wire, sub, pc, connected, queue, resolves, happened>>

\* The end marker, or a refusal or time-out at any point: go live either way.
ReplayOver(e) ==
    /\ pc[e] = "request" \/ (pc[e] = "replay" /\ todo[e] = << >>)
    /\ IF pc[e] = "replay" /\ replayed[e] = << >> THEN UNCHANGED happened ELSE Fault("replayFails")
    /\ replayed' = [replayed EXCEPT ![e] = << >>]
    /\ pc' = [pc EXCEPT ![e] = "live"]
    /\ UNCHANGED <<setup, vars, engineVars, wire, sub, connected, lastSeq, gaps, decodeErrors, queue, todo, resolves,
                   history>>

HasRoom(e) == Len(queue[e]) < QueueCap

Recv(e) ==
    /\ pc[e] = "live"
    /\ wire[e] # << >>
    /\ HasRoom(e)
    /\ queue' = [queue EXCEPT ![e] = Append(@, Head(wire[e]))]
    /\ wire' = [wire EXCEPT ![e] = Tail(@)]
    /\ UNCHANGED <<setup, vars, engineVars, sub, pc, connected, lastSeq, gaps, decodeErrors, replayed, todo, resolves,
                   history, happened>>

\* The queue is closed and drained before the error is reported.
RecvError(e) ==
    /\ pc[e] = "live"
    /\ ~sub[e]
    /\ wire[e] = << >>
    /\ pc' = [pc EXCEPT ![e] = "drain"]
    /\ UNCHANGED <<setup, vars, engineVars, wire, sub, connected, lastSeq, gaps, decodeErrors, replayed, queue, todo,
                   resolves, history, happened>>

Drained(e) ==
    /\ pc[e] = "drain"
    /\ queue[e] = << >>
    /\ todo[e] = << >>
    /\ connected' = [connected EXCEPT ![e] = FALSE]
    /\ pc' = [pc EXCEPT ![e] = "dial"]
    /\ UNCHANGED <<setup, vars, engineVars, wire, sub, lastSeq, gaps, decodeErrors, replayed, queue, todo, resolves,
                   history, happened>>

RecvLoop(e) ==
    \/ Dial(e)
    \/ RequestReplay(e)
    \/ ReplayRecv(e)
    \/ pc[e] = "replay" /\ Ingest(e)
    \/ ReplayOver(e)
    \/ Recv(e)
    \/ RecvError(e)
    \/ Drained(e)

-----------------------------------------------------------------------------
(***************************************************************************)
(* The applying goroutine                                                  *)
(***************************************************************************)

HandleFrames(e) ==
    /\ pc[e] \in {"live", "drain"}
    /\ queue[e] # << >>
    /\ TakeBatch(e, Head(queue[e]))
    /\ queue' = [queue EXCEPT ![e] = Tail(@)]
    /\ UNCHANGED <<setup, vars, engineVars, wire, sub, pc, connected, replayed, resolves, happened>>

ApplyLoop(e) ==
    \/ HandleFrames(e)
    \/ pc[e] # "replay" /\ Ingest(e)

-----------------------------------------------------------------------------
(***************************************************************************)
(* The service around the listeners                                        *)
(***************************************************************************)

\* The engine is unregistered: SyncListeners stops its listener, which lets it
\* drain.  What the engine holds stays in the index.
Unregister(e) ==
    /\ pc[e] # "stopped"
    /\ queue[e] = << >>
    /\ todo[e] = << >>
    /\ Fault("reregistered")
    /\ pc' = [pc EXCEPT ![e] = "stopped"]
    /\ connected' = [connected EXCEPT ![e] = FALSE]
    /\ sub' = [sub EXCEPT ![e] = FALSE]
    /\ wire' = [wire EXCEPT ![e] = << >>]
    /\ replayed' = [replayed EXCEPT ![e] = << >>]
    /\ UNCHANGED <<setup, vars, engineVars, lastSeq, gaps, decodeErrors, queue, todo, resolves,
                   history>>

\* It is registered again: SyncListeners starts a new listener.
Register(e) ==
    /\ pc[e] = "stopped"
    /\ pc' = [pc EXCEPT ![e] = "dial"]
    /\ lastSeq' = [lastSeq EXCEPT ![e] = NoSeq]
    /\ gaps' = [gaps EXCEPT ![e] = 0]
    /\ decodeErrors' = [decodeErrors EXCEPT ![e] = 0]
    /\ ingested' = [ingested EXCEPT ![e] = {}]
    /\ heard' = [heard EXCEPT ![e] = NoSeq]
    /\ UNCHANGED <<setup, vars, engineVars, wire, sub, connected, replayed, queue, todo, resolves, happened>>

\* The index and the listeners live in memory only.
IndexerRestart ==
    /\ Fault("indexerRestarts")
    /\ byRequestKey' = << >> /\ bridge' = << >> /\ byEngine' = << >>
    /\ pc' = [e \in Engines |-> "dial"]
    /\ connected' = [e \in Engines |-> FALSE]
    /\ lastSeq' = [e \in Engines |-> NoSeq]
    /\ gaps' = [e \in Engines |-> 0]
    /\ decodeErrors' = [e \in Engines |-> 0]
    /\ sub' = [e \in Engines |-> FALSE]
    /\ wire' = [e \in Engines |-> << >>]
    /\ replayed' = [e \in Engines |-> << >>]
    /\ queue' = [e \in Engines |-> << >>]
    /\ todo' = [e \in Engines |-> << >>]
    /\ ingested' = [e \in Engines |-> {}]
    /\ heard' = [e \in Engines |-> NoSeq]
    /\ UNCHANGED <<setup, engineVars, resolves>>

\* The mapping of the served model to its profile is removed, or put back.
ProfileChange ==
    /\ resolves' = ~resolves
    /\ IF resolves THEN Fault("profileGone") ELSE UNCHANGED happened
    /\ UNCHANGED <<setup, vars, engineVars, streamVars, wire, sub, history>>

\* StreamFreshForEngines
Fresh(e) == connected[e] /\ gaps[e] = 0
StreamFreshForEngines(es) == \E e \in es : Fresh(e)

\* streamStatus of the console.  A stream that is up is healthy, or stale when
\* it was silent for a minute.
StreamStatus(e) ==
    IF ~connected[e] THEN "down"
    ELSE IF decodeErrors[e] > 0 \/ gaps[e] > 0 THEN "degraded"
    ELSE IF lastSeq[e] = NoSeq THEN "idle" ELSE "up"

\* The row of a listener on the streams page.
StreamRow(e) == [status |-> StreamStatus(e), last_seq |-> lastSeq[e], gaps |-> gaps[e],
                 decode_errors |-> decodeErrors[e]]

-----------------------------------------------------------------------------

LNext ==
    \/ \E e \in Engines :
          \/ EngineActs(e)
          \/ ConnLost(e)
          \/ RecvLoop(e)
          \/ ApplyLoop(e)
          \/ Unregister(e)
          \/ Register(e)
    \/ IndexerRestart
    \/ ProfileChange

LSpec == LInit /\ [][LNext]_lvars

\* The goroutines of a listener run while they can; dialling succeeds in the
\* end.
LFairness ==
    \A e \in Engines : WF_lvars(RecvLoop(e)) /\ WF_lvars(ApplyLoop(e)) /\ WF_lvars(Register(e))

FairLSpec == LSpec /\ LFairness

-----------------------------------------------------------------------------
(***************************************************************************)
(* Properties                                                              *)
(***************************************************************************)

\* A row without a gap: no batch between the first one ingested and the last
\* one tracked is missing from the index (trackSeq).
NoGapHidden(e) ==
    LET row == StreamRow(e) IN
    row.gaps = 0 /\ row.last_seq # NoSeq =>
        \E first \in 0..row.last_seq : ingested[e] = first..row.last_seq

\* A row that is up: the listener has ingested everything that was handled, the
\* last batch included, which is no gap until another one follows if it does
\* not decode.
UpMissesNothing(e) ==
    StreamRow(e).status \in {"idle", "up"} /\ heard[e] # NoSeq =>
        \E first \in 0..heard[e] : ingested[e] = first..heard[e]

\* What is lost is told, across replays, live batches, reconnections and batches
\* that do not decode: by a gap, or by the status on the streams page
\* (listener.go:285-306, web/lib/api.ts:255-267).  Batches ingested while no
\* profile resolves are lost silently, and a restarted engine uses its numbers
\* again: the exceptions.
LossIsTold ==
    happened \cap {"profileGone", "engineRestarts"} = {} =>
        \A e \in Engines : NoGapHidden(e) /\ UpMissesNothing(e)

\* What the index says an engine holds, and what it holds that can be indexed.
Indexed(e) == {p \in Blocks \X Tiers : [engineID |-> e, dpRank |-> Rank, tier |-> p[2]] \in Holders(p[1])}
Plain(e) == {p \in Blocks \X Tiers : Cached(e, p[1], FALSE, p[2])}

\* The listener is live, ingested every batch and has none under way.
CaughtUp(e) ==
    /\ pc[e] = "live"
    /\ ingested[e] = 0..(nextSeq[e] - 1)
    /\ wire[e] = << >> /\ queue[e] = << >> /\ todo[e] = << >>

\* A replay repeats batches.  A tokenless store needs the bridge of a block that
\* another tier holds; when it is repeated that holding may be gone, and the
\* removal repeated before it has taken the bridge.
RepeatsOffloads == setup.offload /\ setup.replay

\* A listener that has ingested everything leaves the index with exactly the
\* blocks the engine holds: batches repeated by the replay, parents resolved
\* through the bridge and skipped LoRA blocks neither lose nor invent a block.
\* The exceptions: a batch repeated without the effect of the batches after it
\* (the connection broke, the publisher dropped them, no profile resolved), a
\* restarted engine, and tokenless stores that are repeated.
CaughtUpIsExact ==
    ~RepeatsOffloads /\ happened \cap {"connLost", "dropped", "profileGone", "engineRestarts"} = {} =>
        \A e \in Engines : CaughtUp(e) => Indexed(e) = Plain(e)

\* Every block held for an engine can be removed: some key of the engine leads
\* to it.  A block no BlockRemoved can reach would be reported for ever.
HeldIsRemovable ==
    \A e \in Engines, p \in Blocks \X Tiers :
        p \in Indexed(e) => \E b \in DOMAIN bridge : b[1] = e /\ bridge[b] = p[1]

\* Every bridge of an engine leads to a block the engine holds: parents and
\* tokenless stores resolve only through blocks that are still there, and
\* bridges do not pile up.
BridgeIsHeld == \A b \in DOMAIN bridge : HasEngine(Holders(bridge[b]), b[1])

\* A block of an engine is listed under it only while it is held.
ListedIsHeld == \A e \in DOMAIN byEngine, rk \in Blocks : rk \in byEngine[e] => HasEngine(Holders(rk), e)

\* The bridge, the lists and the holdings name the same blocks.
BridgesAndHoldingsAgree == HeldIsRemovable /\ BridgeIsHeld /\ ListedIsHeld

\* "An idle-but-connected stream is fresh: no events means nothing changed, so
\* the index is authoritative" (internal/httpapi/service.go, StreamFreshForEngines).
IdleFreshIsAuthoritative ==
    \A e \in Engines :
        /\ Fresh(e)
        /\ pc[e] = "live"
        /\ sub[e]
        /\ wire[e] = << >> /\ queue[e] = << >> /\ todo[e] = << >>
        => Indexed(e) = Plain(e)

\* The listeners drive the index through its own operations, with lists of the
\* form ResidencyIndex takes them to have (successive links of one chain, as
\* many as the event has blocks), so what is proved there holds here.  An
\* indexer that restarts begins with an empty one.
DrivesTheIndex == Init /\ [][Next \/ Init']_vars

\* Every batch is ingested and the stream is connected.
Delivered(e) == connected[e] /\ ingested[e] = 0..(nextSeq[e] - 1)

\* What nothing brings back: batches published before the first connection,
\* or dropped, when there is no replay.
Missed(e) == ~setup.replay /\ ("dropped" \in happened \/ ingested[e] # 0..(nextSeq[e] - 1))

Exact(e) ==
    \/ Missed(e)
    \/ /\ Fresh(e)
       /\ RepeatsOffloads \/ "connLost" \in happened \/ Indexed(e) = Plain(e)

\* Once engine and faults are at rest, a listener that replays has ingested
\* every batch and is connected: reconnecting loses nothing (replayBuffered,
\* trackSeq).  And the index is right, unless a broken connection cut a
\* repetition short or batches were lost that nothing repeats: repeated
\* batches, parents resolved through the bridge and tokenless stores neither
\* lose nor invent a block (kvevents/listener.go, residency/index.go).
Converges == \A e \in Engines : <>[]((setup.replay => Delivered(e)) /\ Exact(e))

=============================================================================
