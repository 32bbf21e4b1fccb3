# The KV indexer, specified

TLA+ modules for the parts of this repository that decide something, TLC runs
that check them on small instances, and TLAPS proofs of what matters most for
every instance. Paths are relative to the repository.

- [The system](#the-system): components, state, operations, what is hard
- [The modules](#the-modules): which module models what, and how it corresponds
- [The runs](#the-runs): what each checks, its bounds, what it shows
- [The proofs](#the-proofs): what holds for all values of the constants
- [Where the code and its words differ](#where-the-code-and-its-words-differ)
- [What is not modelled](#what-is-not-modelled) and [the plan](#the-plan)

`PROJECT.json` lists components, runs, theorems and hazards, maps every
definition to its source lines, and names for every checked property a mistaken
form of the code (the definitions whose comment begins with "Mistake:") that
the property finds.

    tlc -workers 2 -config MCRouting.cfg MCRouting
    tlapm RoutingProofs.tla

## The system

A fleet of inference engines publishes what enters and leaves its prefix caches.
`kvindexer` follows these event streams, knows which engine holds which prefix
block, and answers, for a chat request, whether to admit it and where to send it.
`kvgateway` stands in front of several indexers, one per cluster. A web console
shows and edits what both of them have.

    engine --ZMQ PUB, replay--> listener --channel--> residency index
                                   |                        ^
                                   v health                 | query
    config store <--CRUD--  HTTP API: freshness --> evaluation --> admission verdict, target
        | snapshot                                      ^
        v                                               | token ids, proxied requests
    mongo / sqlite / file        gateway --> local tokenizer (sidecar), connection store (mongo)
                                    ^
                                    | polls, writes, live events
                                 web console

| Component | State | Operations | What is hard |
| --- | --- | --- | --- |
| Residency index (`internal/residency`) | `byRequestKey`, `bridge`, `byEngine` | store, tokenless store, remove, clear, query | three maps that must say the same; several engine keys of one block; tiers |
| Listener (`internal/kvevents/listener.go`) | sequence, gaps, connected, channel | dial, replay, receive, apply, stop | lost, repeated and undecodable batches; reconnection; restarts on both sides |
| Config store (`internal/config`) | entities, profiles, version, audit, snapshot | upsert, patch, remove, load, seed | crashes between mutation and save, boot, namespaces that change under the index |
| Service (`internal/httpapi/service.go`) | listeners, decisions, event buffer | sync listeners, freshness | a judgment made on streams that change meanwhile |
| Evaluation (`internal/httpapi/route.go`) | none of its own | resolve, list, tokenize, query, judge, log | five reads under different locks and up to 8 s between them |
| Admission (`internal/admission`) | none | best hit, rules, outcome | ties, uncertainty, thresholds |
| Gateway store (`internal/gateway/store.go`) | connections, virtual configuration, tokenizer assets | upsert, delete, reload, edit | read-modify-write, several writes per operation |
| Gateway (`internal/gateway/gateway.go`) | its own decisions | select, fan out, merge, proxy | partial answers, answers of different moments |
| Local tokenizer (`local_tokenizer.go`, `sidecars/tokenizer/server.py`) | assets, marks of what is loaded, loaded tokenizers | upload, register, tokenize | belief about another process that restarts |
| Console: lists (`web/lib/cluster.tsx`, every page) | selection, cached answers | select, poll, write, invalidate | answers that are out of date when they arrive |
| Console: forms (`profiles`, `policies`, `engines`, `simulator` pages) | form, what it was filled from, calls under way | edit, save, move, register, preview, run | forms that follow polled lists; two calls of which one fails; what the gateway fills in |
| Console: logs (`streams`, `decisions` pages) | merged rows | poll, receive, filter, turn pages | two sources of one list; merging by the text of a timestamp |

What makes each correct: the index never reports a block that a removal or a
clear took away, and always reports the longest prefix; a listener that lost
something says so; a stream that says nothing is wrong leaves an exact index;
the configuration is always explained by its audit log and survives as one
moment; a request is rejected only for what was really known; a document never
loses its zip; and the console neither shows for long what is not so nor changes
what its operator did not touch.

## The modules

| Module | Models | Correspondence |
| --- | --- | --- |
| `ResidencyIndex` | `internal/residency/index.go` | One variable per map, one action per operation under `ix.mu`. The loop of a removal is in closed form: a key is seen as the loop sees it if no earlier one of the list led to the same block. |
| `ResidencyQuery` | `Query` of the same file | Operators on top of the index: the run of the loop over the blocks as a recursive function, the hits it reports, and the longest held prefix to compare them with. |
| `ResidencyPromise` | what the index promises | A set of facts "resident holds block". Implemented by `ResidencyIndex` (`ImplementsPromise`). |
| `KVListener` | `internal/kvevents/listener.go`, decoding, registration | Extends `ResidencyIndex`, so a batch is ingested through its actions (`DrivesTheIndex`). Engine, publisher and connection are external: modelled from what the listener expects of them. One program counter per listener: `dial, request, replay, live, drain, stopped`. |
| `ApplyQueue` | `run`, `subscribeLoop`, `applyLoop` of the listener | The same two goroutines with one step per shared access: channel, depth counter, close, drain, cancel. `KVListener` takes larger steps. |
| `ConfigStore` | `internal/config`, boot in `cmd/kvindexer/main.go` | One action per kind of mutation, each with its bump, audit entry and save; `LoadStored`, `StartEmpty`, `SeedNext`, `Crash` for the life of the process. |
| `Admission` | `internal/admission/admission.go` | Operators only. Ratios are exact fractions scaled to integers; weights 1, 0.75 and 0.25 are quarters of a token. |
| `Routing` | `internal/httpapi/route.go`, freshness, decision log | One action per read of the evaluation; between any two of them `Environment` changes configuration, streams and caches. Extends `Admission` for the verdict. |
| `LocalTokenizer` | `internal/gateway/local_tokenizer.go`, assets in `store.go`, the sidecar | One step per call to store or sidecar and per critical section of the loaded map; handlers overlap, calls fail, gateway and sidecar restart. |
| `ConsoleQuery` | `web/lib/cluster.tsx`, the queries of the list pages | Selection, its fallback, one cached answer per selection; a fetch is asked, answered and installed in three steps. A list is the number of its changes. |
| `ProfileEditor` | `web/app/profiles/page.tsx` | Rows and form of one model, saves that outlive the sheet, a move as save and deletion; the store's and the gateway's side of a save is in the step. The sidecar has one tokenizer for the model, whichever cluster it came from, and the profile is stored with the hash that it answers; requests load assets and the sidecar restarts in between. |
| `PolicyRules` | conditions, actions and verdicts of `internal/admission`, as the page needs them | Operators only: texts, numbers, lists and booleans as the form writes and the judge compares them. |
| `PolicyEditor` | `web/app/policies/page.tsx` | Extends `PolicyRules`. Taking a rule apart, editing, putting it together, creating, switching, deleting. |
| `RulePreview` | the preview of the policies page | Extends `PolicyRules`. The form that follows the selection and the models, the question and its answer. |
| `ConnectionPanel` | connections of `web/app/engines/page.tsx`, handlers and store of the gateway | A handler is a read, a merge and a write of the registry and of the virtual configuration, one step each; handlers overlap and fail. |
| `RegisterForm` | registration in `web/app/engines/page.tsx` | Three queries and the form's effects that follow them; the indexer's part is in the step of a registration. |
| `EventFeed` | `web/app/streams/page.tsx`, ring and fan-out of `service.go` | Polled and live events, subscriber queue, filter, pages, sheet. Each indexer of a selection is asked at a moment of its own or fails; an indexer answers the end of its ring in the order of time, a gateway what it was answered by the text of the times. |
| `Simulator` | `web/app/simulator/page.tsx` | Up to three calls of a run, each taking the inputs of the moment it is sent. |
| `DecisionLog` | `web/app/decisions/page.tsx`, the latest rows of `web/app/page.tsx`, merging in `gateway.go` | One ring per process, each asked at a moment of its own, some failing; sorting by the text of the times. |
| `ListFilter` | the filters and sorts of those two | What a list has at a set of positions, in its order; a stable sort, by time or by the text of the time. |
| `Console` | the pages together | Instances of the modules above in one state space, one page shown in each behaviour; their properties. |

`MC*` modules give constants and, where it is sound, symmetry: engines, request
keys and engine keys of the index, and handlers, clusters and zips of the local
tokenizer are interchangeable (no operator orders them, the configurations give
them model values, and no liveness is checked there). How an engine and its
faults are set up is a variable of `KVListener`, chosen at the start from the
constant `Setups`, so that one run covers several. `Console` puts the pages of
the console in one state space, one of them shown in each behaviour: the pages
share nothing but the cluster selection, which each page models as far as it
reads it, so what the pages do together is what each does alone. `MCConsole`
gives it constants and lets a page that is not shown rest.
`*Proofs` modules hold theorems only. No module has a RECURSIVE operator.

Choices that hold everywhere: a critical section is one step; a history
variable is marked so in its declaration and never guards an action of the
code; a hash is injective, so a request key is the chain of chunks it is the
hash of; texts, timestamps, logs and metrics are left out unless a decision
reads them. In the console modules a query's attempts that the library repeats
are one fetch that stays under way, and an `...Fails` action is its last
attempt; the query library itself (`@tanstack/react-query`) is modelled from how
the pages use it.

## The runs

Eight runs pass. Deadlock is checked except where the system may really stop:
an index without an applicable event, listeners whose engines have reached the
bound of their batches, a stopped pair of goroutines, a configuration at its
version bound, a page whose bound of events is used up. A request and a local
tokenizer handler can always go on.

| Run | Question | Bounds, and why they are enough |
| --- | --- | --- |
| `index` | Do the three maps agree after any mix of events, and keep the promise? | 2 engines, 2 request keys, 2 engine keys, 2 tiers, lists up to 2: two keys of one block, two blocks of one event, a removal that misses, both tiers of one block. The state space is complete: nothing is counted. |
| `listener` | Is what was lost told, and is a listener that caught up exact? | A channel of 1 and two of eight kinds of fault, each once. With 3 batches, 2 of them kept for replay: two of the six kinds that should be told, or two of an engine restart, a missing profile and a dropped batch. With 2 batches, 1 kept: any two. A replay shorter than the loss, a full channel, a fault during the recovery from another. |
| `listener_setups` | Is everything delivered in the end, and is the index then right, also with tokenless events and two tiers? | With replay: 3 batches, all kept, two of: lost connection, indexer restart, registration again. Offloading: 5 batches (store, offload, evict from one tier, evict from the other, store again) and a dropped one. With a replay five batches are enough for the exception `RepeatsOffloads`. |
| `apply_queue` | Are batches applied once, in order, and the depth exact? | Channel of 2, 6 batches, 2 failures: a full channel and a failure with batches in it, twice. |
| `config_store` | Does the audit log explain the configuration, is the snapshot one moment, is seeding harmless? | 6 versions: the 3 seeded ones and 3 more; 1 failing save and 2 crashes, so that a crash follows a failed save and another comes in the seeding after it. |
| `routing` | Is a verdict justified by what held during the request, and does the judgment keep its promises? | 2 engines, 3 changes under a request: enough to disable, disconnect and bump, in any order, between two reads. The judgment is compared over all signals and all prefixes of 4 tokens in 3 tiers for two engines and every subset of three rules. |
| `local_tokenizer` | Does a document keep its zip, does a handler left alone recover, does the sidecar get back what was uploaded? | 2 clusters, 2 overlapping handlers, 2 uploads, 2 faults. |
| `console` | Do the pages show what is so and keep what was not touched? | Per page 2 events of its own kind (changes by others, edits, failures, switches; 3 in the simulator; the feed has 1 failure or switch and 1 click besides 3 events of engines; the decision log 3 decisions and 1 failure), polls unbounded but for the decision log; two backends. See below. |

The bounds of the console's pages: a second save, move or handler while one is
under way needs two; a condition with two values and one without tell lists
from texts; the feed's list and answers have 2 events instead of 100 and pages of 1 instead
of 10, so that a burst of 3 overtakes a list and fills more than a page (the ring
is longer, 200, and has all 3); its times are .10 and .11 of a second, whose texts
are in the other order, and the third event of the ring may be older than the
second; the
decision log has rings of 2 and the times .10, .11 and .20 of a second, of which
two are written with two digits and one with one. Behind a gateway the feed starts
at one cluster, otherwise at all of them, and switches. The pages together have
1.2 million states, which takes about four minutes. Three clusters would add
nothing that two, one of them removed or failing, and "all" do not have.

The properties:

- `IndexConsistent`: no empty entry, everything held is listed under its engine,
  bridges belong to listed engines. `QueryIsLongestHeldPrefix`. `ImplementsPromise`:
  the index is a set of facts. `BridgesGoWithBlocks`: a bridge does not outlive the
  block it leads to, which bounds the bridges by what is held. It has two
  exceptions: a clear of one tier, after which the block is still listed and so
  within reach of a full clear, and several keys of one block, of which a removal
  drops at least one. This is the only run with several keys of one block: a
  removal of the listener carries one key.
- `LossIsTold`: without a counted gap the batches ingested are an interval up
  to the last number, and a stream whose row says idle or up has ingested every
  batch that it took, undecodable ones included, from some batch on. An event that is left out of a
  batch which otherwise decodes (`decode.go:174-184`) is told by nothing and is
  outside the model.
  `CaughtUpIsExact`: having ingested all, the index has exactly the engine's
  blocks. Both name their exceptions (below). `BridgesAndHoldingsAgree`: bridge,
  lists and holdings name the same blocks, so every block can be removed and
  bridges do not pile up. `Converges`, under fairness: connected, complete
  and exact in the end. `DrivesTheIndex`: the listener changes the index by its
  operations only, with lists of the form they are made for, or starts it anew.
- `HandedOver` (channel discipline, exact depth, order) and, under fairness,
  `StopEnds`, `ReceivedIsApplied`, `BreakIsReported`.
- `AuditExplainsConfig`, `SnapshotIsAMoment`, `ForwardNamespaceHasOneMeaning`,
  `SeedingNeverClobbers`.
- `FreshnessIsHonoured`: a verdict by hit ratio had a healthy stream at some
  moment, a fallback for stale events had none at some moment of each.
  `VersionCoversReads`, `TargetWasEligible` for the reads of the configuration.
  `MoreResidencyNeverRejects`, `TiesDoNotDecide`, `UncertaintyRejectsOnDemand`
  for the judgment; they look at constants, so one look at the start is enough.
- `AssetHasItsZip`, `LoneHandlersSucceed`, `UploadSurvivesRestart`.
- Lists: `ReadYourWrites`, no trusted row is older than an answered write;
  `EventuallyFresh`, a page left alone shows the lists as they are.
- Profiles: `ProfileSurvives`, a profile is somewhere whatever fails in a move;
  `NoSilentBump`, a new, empty namespace was announced by the form, if it compared
  with what the store keeps and the profile's hash is that of its own cluster's
  template.
- Policies: `UntouchedKeepsVerdicts`, opening and saving a rule changes no
  verdict; `CreatedDecides`, a new rule is stored where it decides something;
  `PreviewTells`, a preview beside its form is what requests meet.
- Engines: `TokenSurvives`, `ConfigSurvives`, tokens and virtual configurations
  outlive pages that do not know them; `RegisteredFits`, an engine is
  registered in a cluster of its indexer.
- Logs and simulator: `OnlySelected` and `EventuallyShown` for the event list (a return to a selection
  with an answer takes two switches, one more than the run has: the theorem covers it),
  `NewestFirst` for the merged decisions, `OneInput` for the simulator's cards.

Exceptions that `LossIsTold`, `CaughtUpIsExact` and `Converges` name,
each a behaviour of the code: a restarted engine numbers from 0 and `trackSeq`
ignores lower numbers; batches that arrive while no profile resolves are
tracked but not indexed; a replay repeats batches, and one that is cut short
leaves an old store applied over a newer removal. And without any fault: a
block stored in GPU, offloaded, evicted from CPU, offloaded again and evicted
from GPU is in CPU. If the last three of these batches arrive both with the
replay and live, the repeated eviction from CPU removes the block's last
holding and its bridge, and the repeated tokenless store finds neither
(`RepeatsOffloads`; `IdleFreshIsAuthoritative` fails so in a setup with `offload` and
`replay`, five batches and no faults).

The properties of the console name theirs in their comments; the history
variables `crossed`, `overtaken`, `blind`, `late`, `leftOver`, `failed` and
`clean` record that one of them happened. They are listed with the differences
below.

### Fairness

`ApplyQueue` and `KVListener` state weak fairness of the two goroutines of each
listener: the Go scheduler runs a goroutine that can run. For the receiver it
covers that `Recv` fails once the context is cancelled (the socket is opened
with it) and that dialling succeeds in the end, which the listener's endless
retry with a pause assumes; an indexer that is never registered with an engine
again has no listener to speak of, hence fairness of `Register`. The engine and
all faults have none: they may stop at any time.

`LocalTokenizer` states none: its properties of recovery speak of what a handler
that runs alone has done when it ends.

The lists and the event feed have weak fairness of what the page and the query
library do by themselves: the interval timers poll, a fetch is answered or
fails, an answer is installed, the query of the clusters is repeated, a message
of the live stream is delivered, and the browser's `EventSource` reconnects by
itself. Failures are bounded, so from some moment on nothing fails; operators
and other changes have no fairness and are bounded too. In `Console` these
fairness conditions are joined by the page that is shown: no other can act, so
a condition on "this action of this page" is the same.

## The proofs

tlapm proves every obligation of eight modules. They hold for all values of the
constants, so for any number of engines, blocks, rules, clusters, tabs or
handlers, and for behaviours of any length: the bounds of the runs (`Max...`) are
constants too and any number is one.

`ResidencyIndexProofs`, for any engines, ranks, tiers, keys and lists:

- `IndexInvariant`: `Spec => []IndexConsistent`, together with the types. The
  invariant is inductive with the types: a removal deletes an entry when its
  last holder goes, and a bridge stays only for a listed engine.
- `ClearingIsComplete`, an action property, from the same invariant: after a
  clear without a tier nothing in any map names the engine, and
  the early return of `ClearEngine` for an engine without a list is harmless
  because nothing is held or bridged that is not listed.
- `IndexImplementsPromise`: every step of the index is one of the promise, or
  leaves its facts alone.
- `BridgesGo`: of the keys in a removal that lead to a block which goes, the first
  one's bridge goes too (`FirstPosition`, a least element of the positions;
  `RemovalDropsABridge`), stores take no block away (`StoresKeepLeading`), and what
  a clear leaves bridged without a holding it leaves listed.

`ResidencyQueryProofs`: `QueriesAreRight`, for lists of keys up to any length.
The run of the loop is a recursive function; `RunIsHoldAll` shows that it has
one solution, the engines that hold each of the first blocks, by writing that
solution down and looking at the first block where another would differ. The
hits are then counted: a prefix is a set of blocks, and the blocks of each tier
are among the matched ones.

`ApplyQueueProofs`, for any capacity: `QueueInvariant` (types, and `HandedOver`:
channel discipline, exact depth and order, inductive only together: the depth
needs that a drained channel is empty, the order that there is one applier) and
`DepthIsBounded`: never negative, at most the capacity and two.

`KVListenerProofs`, for any engines, blocks, setups and faults. The types follow
events from the engine to the index: an event is one of the forms in `Events`,
wherever it is on its way. On top of them stand two invariants of their own:

- `NumbersInv` for `LossIsToldAlways`. That the ingested numbers are an interval
  is inductive only with where it ends (at `lastSeq`, unless a gap was counted),
  and that a stream has heard what it tracked only as long as nothing failed to
  decode. No invariant of the channel is needed: a batch that arrives late or
  twice has a number that is already in the interval, whatever is on the way.
- `IndexFits` for `BridgesAgree`. To the index's own invariant it adds that a
  bridge leads from a block's key to that block (`Faithful`), that held blocks
  are bridged, and that nothing bridged or listed is not held: the last is what a
  removal of a key whose block is held in two tiers relies on.
  `ListenersDriveTheIndex` follows from `Faithful`: the parent that a bridge
  resolves is the event's parent, so the keys of a store are successive links of
  one chain. A step of the listener is thus a step of `ResidencyIndex`, and
  `IndexInvariant`'s lemmas are used as they are.

The third result stands on both: `CaughtUpExact`, that a listener which ingested
everything leaves the index with exactly what its engine holds. What the engine
published, event by event, is a *story* (`Tale`, `Told`): `E[i]` is the i-th event
since the engine started, `F[i]` the plain blocks held before it, batch `j` tells
`E[at[j]]` to `E[at[j + 1] - 1]`. No variable holds the story; `ExactInv` says that
one exists, and where the listener is in it (`Follows`): the first batch `a` still
on the wire, the next batch `c` to take, the next event `k` to ingest, and the end
`top` of the batches under way. Wire, queue, replay response and the rest of the
batch in hand are then stretches of the story (`Placed`), and

- `Sure`: where the index differs from `F[k]`, an event between `k` and `top` speaks
  of the block. This is what holds while a replay repeats batches over an index
  that is ahead of it: the listener is back at an earlier place, and all that is
  wrong there is about to be told again. It is claimed while nothing was missed
  (`Whole`: all batches decode and the numbers ingested start at 0).
- `Grounded`: the index says nothing of the engine that no event spoke of, which is
  why a replay from batch 0 over any old index is right again in the end.

That an event makes nothing wrong that the rest of the story does not set right
(`IngestLearns`) has one hard case, a store that is skipped because the bridge of
its parent is gone. Then the parent is one of the blocks still to be spoken of,
and since engines evict children before parents, so is every block that continues
it (`FamilyTouched`). That every batch published continues the story is
`EngineTells`, and that two places differ only in blocks spoken of between them
`ChangedIsTouched`. The replay that ends, or fails, and jumps to the first live
batch is `SureFromEarlier`. TLC checked the invariant beforehand with the story
in history variables; it is not a run, since the theorem says it for all values.
The exceptions of `CaughtUpIsExact` are `InScope`: a step out of them is never
undone (`ScopeStays`), so nothing is assumed of behaviours that stay within.

`ConfigStoreProofs`, for any entities, models, bootstrap and number of failures:

- `ConfigurationSound` and `AuditExplains`. A snapshot is loaded as it was saved,
  so `SoundInv` claims the same of the saved configuration as of the one in
  memory.
- `NamespaceHasOneMeaning`. Of a namespace that was used one must know that its
  version is not past the profile's and, if it is the profile's, that the meaning
  is; a profile that goes forward then cannot meet an old namespace.
- `SnapshotMoment` and `SeedingIsHarmless` assume that loading does not fail
  (`Failures["load"] = 0`): the run `load_error` shows that they fail otherwise.
  `MomentInv` says that the saved log is a prefix of the log in memory, and of a
  store being seeded that its log is the part of the bootstrap that was done;
  `SeedingIsHarmless` assumes that the bootstrap names no entity twice.

`RoutingProofs`, for any engines, rules, held prefixes and number of changes:

- `FreshnessHonoured`, `VersionCovers`, `TargetEligible`, `RoutingTyped`. The
  invariant `IInv` relates what a request has read to the history it lived
  through: the history only grows (`Watched`), so what was true at a read is
  still in it at the answer (`FreshnessRead`, `EnginesRead`), and versions only
  grow (`VersionRead`). The rest is what `Judge` may answer (`JudgedByReason`)
  and that `PickTarget` returns one of the engines it is given (`TargetIsGiven`,
  by well-foundedness of the order on ids).
- `UncertaintyIsNoReason`, `TiesAreHarmless`, `ResidencyHelps`: the judgment for
  every input. The first matching rule is found among finitely many
  (`FirstRule`); equal signals match the same rules (`SameRulesMatch`); and more
  held tokens give no less credit (`MoreHoldingsMoreCredit`, `CreditGrows`,
  `CreditBounded`), through the weights of the tiers, the truncation and the
  cap, which an accepted ratio survives (`MoreCreditIsAccepted`).

`LocalTokenizerProofs`, for any clusters, handlers, zips and templates and any
number of uploads and faults:

- `AssetsKeepTheirZips` and `LocalTokenizerTyped`. That a document's file is in
  the store is not inductive: what a handler is about to drop must be no one's.
  `IInv` adds that no two documents share a file, that a file about to be put in
  a document is stored and in no other, and that the file a handler will drop is
  not in any document but the one it replaces.
- `LoneHandlersDoNotFail` and `UploadsSurviveRestarts`. `LoneInv` follows a
  handler that is alone through its steps: what it read is still so, and the
  second attempt to tokenize finds the sidecar registered, because the first
  one's failure cleared the mark (`LoneRequest`, `LoneUpload`). Between handlers,
  `ExpectationHolds` says that a restarted sidecar has nothing loaded but what
  was uploaded last.

`ConsoleProofs` proves properties of `ConsoleSpec`, one invariant per page:

- `WritesAreRead` (`ListsInv`). Cached rows get their content from answers under
  way, and those get theirs from the backends, so all three have what was
  answered: an answered change is in the list of its backend, an answer that was
  not overtaken has every answered write of the clusters it covers, and so has a
  cached one that is neither stale nor overtaken. A write's answer makes every
  other one stale or overtaken.
- `ProfilesSurvive` (`ProfileInv`). That some row is stored is not inductive:
  several moves may be about to delete theirs. Some row is stored that no save is
  about to delete (`SomeRowIsSafe`), since a deletion follows a save elsewhere
  and, unless two moves crossed, no other deletes what that save wrote.
  `BumpsAreAnnounced`, an action property, needs of each save what its form
  foretold (`Foretold`) and that rows are as the store normalizes them; and that a
  save without files, of a profile whose hash is its cluster's own
  (`HashIsOwn`), is answered that same hash, whatever the sidecar has loaded
  (`RegistersAsset`).
- `ProfilesStayWithConnection` and `TokensOutlivePages` (`ConnectionsInv`). As
  long as requests do not overlap, what the one under way has read is what is
  stored (`UpToDate`), and a virtual connection without configuration has a
  request that is about to write one (`ConfigKept`).
- `RegistrationsFit` (`EnginesInv`): after each of the form's effects the cluster
  shown is one that is offered for the target (`HasSettled`), what is offered was
  seen, and what was seen is still so.
- `FeedIsOfSelection` (`FeedInv`): whatever the list is next made of is of its
  selection already, namely every cached answer and every one under way, part by
  part, of the selection it was asked for, and what the open stream has queued of
  the selection shown, since it is closed when that changes. Sorting, tagging and
  merging leave a list its elements (`ObservedOfScope`, `TaggedOfScope`,
  `MergedOfScope`).
- `DecisionsAreInOrder` (`DecisionsInv`). What was answered of an indexer is a
  stretch of its ring (`PartsAreStretches`), which it stays however much is
  recorded until the others answer; so is what the page shows of each source
  (`DataIsStretches`), and as a decision is recorded once, at its source
  (`RecordedOnce`), nothing between two shown rows is missing. The order is that
  of a number that each time has among the texts (`Place`, `TextOrder`).
- `UntouchedKeepsVerdicts` and `CreatedDecides`, action properties, are proved as
  `UntouchedRulesKeepVerdicts` and `CreatedRulesDecide` (`PolicyInv`). A condition
  means what it meant after it was shown and sent (`ScalarSurvives`,
  `ListSurvives`, by field and operator), and the scope and the remaining
  conditions are together those of the rule (`ScopeTaken`). So a form sends the
  verdicts of the rule it was opened with as long as only its switch was touched,
  and a new rule decides something as long as its conditions were left alone
  (`FormKept`); a call has what its form had (`CallKept`), and brings that however
  late it arrives and whatever the page did since.
- `FeedIsOfSelection` and `DecisionsAreInOrder` rest on lemmas about lists: the ranks of an ordered finite set are the
  numbers below its size (`RanksAll`), which gives what a filter (`PickedFacts`)
  and a stable sort by any order that goes by a number (`Sliced`) return; and the concatenation of a list of lists has
  the elements of all of them (`Flattened`), where there is no first length for
  which it has not.
- `PreviewIsWhatRequestsMeet` (`PreviewInv`): while nothing changed, what is under
  way is the form as it is, asked of the indexers of its cluster, and what was
  answered is the verdict of the only one of them. The lemma `SameRequest`
  relates what the preview evaluates to what a request meets.
- `CardsAreOfOneInput` (`SimulatorInv`) follows the run from card to card.

They rest on the assumptions named in the modules, which TLC evaluates in the
runs: bounds are numbers, sets of rules and tiers are finite, ids are numbers,
blocks are non-empty sequences, initial rows and bootstrap entries have their
types, and a marker of absence is nothing that can be present
(`NoneIsNothing`, a hypothesis of `PreviewIsWhatRequestsMeet`,
`ConnectionsAssumption`, `SimulatorAssumption`); in `DecisionsAssumption` a
selection is of finitely many known indexers, the gateway is none of them, and
times are those of one second, as in the model. In `PoliciesAssumption` the rules
that are there at first are well written (`WellWritten`), as those of the page
are: a list is for "in" or "not_in", which take a list or a single value, and a
boolean is "true" or "false". It is needed: a list for "eq", which only a client
of the API can write, matches nothing until the form sends it as a scalar. The
types of the modules are
proved with these theorems and not checked again in runs.

What stays with TLC, and why:

- Liveness (`Converges`, `StopEnds`, `ReceivedIsApplied`, `BreakIsReported`,
  `EventuallyFresh`, `EventuallyShown`): the prover does not do it.
- `Exact`, of `Converges`, is a liveness property; what it says of a listener that
  has caught up is `CaughtUpIsExact`, which is proved, within its exceptions.
- Induction over data is not available; where a recursive function or a finite set
  allows it, a first counterexample or a least element does instead
  (`QueriesAreRight`, `FirstRule`, `FirstPosition`, `Flattened`).

## Where the code and its words differ

Four runs check one property each that a comment or document states, and TLC
finds it violated by what the code does.

| Run | Says | Does |
| --- | --- | --- |
| `idle_fresh` | `internal/httpapi/service.go:218`: an idle, connected stream is fresh, so the index is authoritative | While no profile resolves, batches are tracked without being indexed; afterwards the stream is connected, gapless and idle, and the blocks are missing. The same property also fails in setups with the fault `connLost` or `engineRestarts`. |
| `wrong_reject` | `internal/httpapi/service.go:216`: a disconnected or gapped stream must never lead to a 429 on a low hit | Freshness asks for one healthy stream of the model; a request is rejected although an engine whose stream is down holds the whole prompt. |
| `load_error` | `internal/config/bootstrap.go:174`: seeding never clobbers live runtime state | A snapshot that cannot be loaded is taken for an empty store and seeded over. |
| `shared_tokenizer` | The virtual clusters design: two clusters can upload different tokenizers for one model id | The sidecar has one tokenizer per model id, the gateway one mark per cluster and model: one handler, no fault, and a request is tokenized with the other cluster's. |

Met on the way, without a run:

- A profile removed and created again starts over at version 1, in the namespace
  of the removed one (`ConfigStore`; `ForwardNamespaceHasOneMeaning` excepts it).
- `docs/scaling.md:299` says a removal removes resident and bridge entries; of
  several keys of one block in one event, the first removes the entry and its
  own bridge, the others find no entry and keep theirs (`index.go:221`;
  `BridgesGoWithBlocks` excepts them).
- `docs/scaling.md:308-317` and `:405-416` say replay is never dialed;
  `listener.go:308-362` does.
- A stream counts as connected while its channel is drained, before the failure
  is reported.
- A crash in the middle of seeding leaves a store with a version, which is never
  seeded again (`bootstrap.go:188`).
- The sidecar keeps a loaded tokenizer when the model is registered with another
  zip and no new template (`server.py:371-380`): an upload takes effect at its
  next restart. `UploadSurvivesRestart` speaks of the time after that.
- An upload marks a timestamp in nanoseconds, the store keeps milliseconds: the
  next request usually registers again. Overlapping uploads leak zips; two
  overlapping handlers can leave the mark new and the sidecar old.

In the console, each an exception of the property that would otherwise fail:

- The first load of a selection is shared by the refetch after a write, so the
  rows may be older than the write until the next poll (`ReadYourWrites`,
  `overtaken`).
- Two moves of a profile in opposite directions delete what each other wrote
  (`ProfileSurvives`, `crossed`). The warning of a new version compares with the
  row of the list, which may be another backend's or older; and a form that was
  filled before the profile was deleted and made again asks for its old, later
  version and gets it without a warning (`NoSilentBump`).
- A profile without a template of its own takes the hash of the one that another
  cluster has loaded for the model (`server.py:371-380`), so that saving it
  unchanged starts a new namespace without a warning, and another one when the
  sidecar has restarted (`NoSilentBump`, `HashIsOwn`).
- A rule without conditions is a catch-all (`config/model.go:145`) until it is
  opened and saved, which gives it the conditions of a new rule; an absent
  threshold is saved as a number (`UntouchedKeepsVerdicts`, `Shown`).
- The preview of a form without a cluster is evaluated with an empty cluster id,
  which no request has (`PreviewTells`).
- Requests about one connection that overlap in the gateway write back what they
  read; one that fails between its two writes leaves a virtual connection
  without configuration (`TokenSurvives`, `ConfigSurvives`).
- A register form that knows no cluster of its target takes any
  (`RegisteredFits`, `blind`).
- Behind a gateway a polled event and the same event live have two keys and are
  shown twice, until a poll replaces the list; a burst longer than the list
  stays out of order (`EventuallyShown`, `late`). The answer is in the order of the
  text of the times, from the clocks of different hosts (`gateway.go:1149-1153`):
  the newest event need not be the last one, and of all clusters it may be cut off
  (`streams/page.tsx:90`).
- Decisions are sorted by the text of RFC 3339 times without zeros at the end:
  of two in the same tenth of a second the one written shorter comes later
  (`NewestFirst`, `NotOlder`).
- When the lookup of a run fails and its routing succeeds, the error is taken
  away and the card of an earlier prompt stays (`OneInput`, `clean`).

## What is not modelled

- The durable log of events of the mongo store (`internal/mongostore`): a bounded
  queue that drops when full. With `-store=mongo` the recent events are merged from
  it and the ring (`service.go:101-130`); `EventFeed` has the ring alone, as with
  the other stores. The log keeps milliseconds, so an event of both is not
  recognized as one and is answered twice. The same store is the persister of the
  configuration, of which `ConfigStore` models what it does of any: one save of a
  whole snapshot, which may fail, and one load of it; the collections it mirrors
  the entities to afterwards are not read again.
- The overlap of two listeners of one engine after `Stop` gives up waiting
  (2 s), and a listener kept although its engine's endpoint changed.
- Which lists of keys an engine sends with null blocks in between
  (`index.go:150`): not decided in this repository.
- Protocol normalization (`internal/normalize`): a stateless translation of
  texts. The tokenizer client, OpenAPI description, shared types: I/O and data.
- In the gateway: authorization, forwarding of bodies, seeding from the
  environment, the token-only admission after a local tokenization.
- In the console: the health check of a connection, whose result stays on the
  screen; names, priorities and tenants of rules; the statistics of streams; the
  tiles and the chart of the overview; the audit page, which is the log of
  `ConfigStore` in reverse; API description, texts and widgets; filters of the
  recent events and several subscribers of one indexer; processes that write
  their times in different zones.
- Images, Kubernetes manifests and scripts: no decisions of their own.

## The plan

Built, in this order: the index and its promise; the listener on top of it; the
hand-off between its goroutines; the configuration store; admission and the
evaluation; the local tokenizer; the console with the parts of the gateway and
the indexer behind each page; proofs of the index, the hand-off, the evaluation
and the local tokenizer; of the listener, the configuration store, the judgment
and the pages that keep something.

Next, most important first:

1. `ListenerSet`: SyncListeners, Stop's time-out and the overlap of two listeners
   of one engine on one index.
2. The gateway's registry for several connections with its reload, and seeding
   from the environment, as an extension of `ConnectionPanel`. Abstract
   specification: an atomic map of clusters, to see which operations implement
   it.
3. The token-only policies evaluated in the gateway against those of the
   indexer (`Admission` has both sides' operators).
4. The durable log of events beside the ring, with the key by which an event of both
   should be recognized.
