----------------------------- MODULE ConsoleProofs -----------------------------
(***************************************************************************)
(* The pages of the console, for any clusters, models, rules, texts and    *)
(* answers, and any number of edits, writes, failures and switches.  A     *)
(* page has an invariant of its own: a step of the console is a step of    *)
(* one page, or of none, and leaves the others as they are.  Fairness is   *)
(* not used.                                                               *)
(***************************************************************************)
EXTENDS Console, ListFilter, FiniteSetTheorems, SequenceTheorems, WellFoundedInduction, TLAPS

-----------------------------------------------------------------------------
(* What the console does is what its pages do.                             *)

\* A step of the console is one of the profiles or leaves them alone.
LEMMA ProfilesStep == ASSUME [ConsoleNext]_consoleVars PROVE [Next]_vars
BY DEF ConsoleNext, Step, consoleVars

\* A step of the console is one of the lists or leaves them alone.
LEMMA ListsStep == ASSUME [ConsoleNext]_consoleVars PROVE [Lists!Next]_listsVars
BY DEF ConsoleNext, Step, consoleVars

\* A step of the console is one of the preview or leaves it alone.
LEMMA PreviewStep == ASSUME [ConsoleNext]_consoleVars PROVE [Preview!Next]_previewVars
BY DEF ConsoleNext, Step, consoleVars

\* A step of the console is one of the simulator or leaves it alone.
LEMMA SimulatorStep == ASSUME [ConsoleNext]_consoleVars PROVE [Simulation!Next]_simulatorVars
BY DEF ConsoleNext, Step, consoleVars

\* A step of the console is one of the connections or leaves them alone.
LEMMA ConnectionsStep == ASSUME [ConsoleNext]_consoleVars PROVE [Connections!Next]_connectionsVars
BY DEF ConsoleNext, Step, consoleVars

\* A step of the console is one of the engines or leaves them alone.
LEMMA EnginesStep == ASSUME [ConsoleNext]_consoleVars PROVE [Engines!Next]_enginesVars
BY DEF ConsoleNext, Step, consoleVars

\* A step of the console is one of the event list or leaves it alone.
LEMMA FeedStep == ASSUME [ConsoleNext]_consoleVars PROVE [Feed!Next]_feedVars
BY DEF ConsoleNext, Step, consoleVars

\* A step of the console is one of the decisions or leaves them alone.
LEMMA DecisionsStep == ASSUME [ConsoleNext]_consoleVars PROVE [Decisions!Next]_decisionsVars
BY DEF ConsoleNext, Step, consoleVars

\* A step of the console is one of the policies or leaves them alone.
LEMMA PoliciesStep == ASSUME [ConsoleNext]_consoleVars PROVE [Policies!Next]_policiesVars
BY DEF ConsoleNext, Step, consoleVars

-----------------------------------------------------------------------------
(* The lists.  ReadYourWrites speaks of the cached rows.  The invariant    *)
(* says the same of the answers that are on their way, and bounds what was *)
(* answered by what the backends have: an answer that is formed after a    *)
(* write was answered has it, and an answered write spoils all others, the *)
(* cached ones by stale and those under way by overtaken.                  *)

\* The backends have every change that a write made.
Counted ==
    /\ lChanges \in [KVClusters -> Nat] /\ lAcked \in [KVClusters -> Nat]
    /\ \A c \in KVClusters : lAcked[c] <= lChanges[c]
    /\ lWrite # Idle =>
          /\ lWrite.cluster \in KVClusters /\ lWrite.change \in Nat
          /\ lWrite.change <= lChanges[lWrite.cluster]
    /\ lRegistry \subseteq KVClusters

HasWrites(answer) == \A c \in DOMAIN answer : answer[c] >= lAcked[c]

\* An answer under way that was not overtaken.
Underway(f) ==
    f # Idle =>
        /\ f = [answer |-> f.answer, overtaken |-> f.overtaken]
        /\ f.overtaken \in BOOLEAN
        /\ f.answer # NoData /\ ~f.overtaken => HasWrites(f.answer)

\* A cached answer that can be trusted.
Cached(d) ==
    /\ d = [data |-> d.data, failed |-> d.failed, stale |-> d.stale, overtaken |-> d.overtaken]
    /\ d.failed \in BOOLEAN /\ d.stale \in BOOLEAN /\ d.overtaken \in BOOLEAN
    /\ d.data # NoData /\ ~d.stale /\ ~d.overtaken => HasWrites(d.data)

ListsInv ==
    /\ Counted
    /\ lFlight = [k \in Lists!Keys |-> lFlight[k]] /\ \A k \in Lists!Keys : Underway(lFlight[k])
    /\ lCache = [k \in Lists!Keys |-> lCache[k]] /\ \A k \in Lists!Keys : Cached(lCache[k])

\* A fetch that was only asked has no answer yet.
LEMMA AskedIsUnderway == Underway(Lists!Asked) /\ Underway(Lists!Asked)'
BY DEF Underway, Lists!Asked

\* No fetch says nothing.
LEMMA IdleIsUnderway == Underway(Idle) /\ Underway(Idle)'
BY DEF Underway

\* What an update of one field leaves of a cached answer.
LEMMA FailedField ==
    ASSUME NEW d,
           d = [data |-> d.data, failed |-> d.failed, stale |-> d.stale, overtaken |-> d.overtaken]
    PROVE  [d EXCEPT !.failed = TRUE] =
             [data |-> d.data, failed |-> TRUE, stale |-> d.stale, overtaken |-> d.overtaken]
<1>1. ASSUME NEW v, NEW e,
             e = [data |-> d.data, failed |-> v, stale |-> d.stale, overtaken |-> d.overtaken]
      PROVE  [d EXCEPT !.failed = v] = e
  BY <1>1
<1> QED
  BY <1>1, Zenon

\* The same for the mark of an invalidation.
LEMMA StaleField ==
    ASSUME NEW v, NEW d, NEW e,
           d = [data |-> d.data, failed |-> d.failed, stale |-> d.stale, overtaken |-> d.overtaken],
           e = [data |-> d.data, failed |-> d.failed, stale |-> v, overtaken |-> d.overtaken]
    PROVE  [d EXCEPT !.stale = v] = e
OBVIOUS

\* The same for the mark of a fetch.
LEMMA OvertakenField ==
    ASSUME NEW v, NEW f, NEW g, f = [answer |-> f.answer, overtaken |-> f.overtaken],
           g = [answer |-> f.answer, overtaken |-> v]
    PROVE  [f EXCEPT !.overtaken = v] = g
OBVIOUS

\* The page starts without data.
LEMMA ListsStart == Lists!Init => ListsInv
<1> SUFFICES ASSUME Lists!Init PROVE ListsInv
  OBVIOUS
<1>1. Counted
  BY DEF Lists!Init, Counted
<1>2. \A k \in Lists!Keys : Underway(lFlight[k])
  BY AskedIsUnderway DEF Lists!Init, Underway
<1>3. \A k \in Lists!Keys : Cached(lCache[k])
  BY DEF Lists!Init, Cached
<1> QED
  BY <1>1, <1>2, <1>3 DEF Lists!Init, ListsInv

\* Where neither the answered writes nor the cache changes, an invariant that
\* holds of the fetches is kept.
LEMMA FetchesKept ==
    ASSUME ListsInv, UNCHANGED <<lChanges, lAcked, lWrite, lCache>>, lRegistry' \subseteq KVClusters,
           lFlight' = [k \in Lists!Keys |-> lFlight'[k]],
           \A k \in Lists!Keys : lFlight'[k] \in {lFlight[k], Lists!Asked}
    PROVE  ListsInv'
<1>1. \A f : Underway(f) => Underway(f)'
  BY DEF Underway, HasWrites
<1>2. ASSUME NEW k \in Lists!Keys PROVE Underway(lFlight[k])'
  <2>1. CASE lFlight'[k] = Lists!Asked
    BY <2>1, AskedIsUnderway
  <2>2. CASE lFlight'[k] = lFlight[k]
    BY <2>2 DEF ListsInv, Underway, HasWrites
  <2> QED
    BY <2>1, <2>2
<1>3. \A k \in Lists!Keys : Cached(lCache[k])'
  BY DEF ListsInv, Cached, HasWrites
<1>4. Counted'
  BY DEF ListsInv, Counted
<1> QED
  BY <1>2, <1>3, <1>4 DEF ListsInv

\* Another selection on screen asks at most for one more fetch.
LEMMA MountAsks ==
    ASSUME ListsInv, Lists!Mount(lFlight)
    PROVE  /\ lFlight' = [k \in Lists!Keys |-> lFlight'[k]]
           /\ \A k \in Lists!Keys : lFlight'[k] \in {lFlight[k], Lists!Asked}
<1> DEFINE e == Lists!Exposed'
<1> HIDE DEF e
<1>1. lFlight' \in {lFlight, [lFlight EXCEPT ![e] = Lists!Asked]}
  BY DEF Lists!Mount, e
<1> QED
  BY <1>1 DEF ListsInv

\* Every step keeps the invariant.
LEMMA ListsKept == ASSUME ListsInv, [Lists!Next]_listsVars PROVE ListsInv'
<1>1. CASE Lists!HealthAnswered
  BY <1>1, MountAsks, FetchesKept DEF Lists!HealthAnswered, ListsInv, Counted
<1>2. CASE Lists!HealthFails
  BY <1>2, MountAsks, FetchesKept DEF Lists!HealthFails, ListsInv, Counted
<1>3. CASE \E k \in Lists!Keys : Lists!SetCluster(k)
  BY <1>3, MountAsks, FetchesKept DEF Lists!SetCluster, ListsInv, Counted
<1>4. CASE Lists!Reload
  <2>1. Counted'
    BY <1>4 DEF Lists!Reload, ListsInv, Counted
  <2>2. \A k \in Lists!Keys : Underway(lFlight[k])'
    BY <1>4, AskedIsUnderway DEF Lists!Reload, Underway
  <2>3. \A k \in Lists!Keys : Cached(lCache[k])'
    BY <1>4 DEF Lists!Reload, Cached
  <2> QED
    BY <1>4, <2>1, <2>2, <2>3 DEF Lists!Reload, ListsInv
<1>5. ASSUME NEW c \in KVClusters, Lists!RegistryChange(c) PROVE ListsInv'
  BY <1>5, FetchesKept DEF Lists!RegistryChange, ListsInv, Counted
<1>6. CASE Lists!Poll
  BY <1>6, FetchesKept DEF Lists!Poll, ListsInv, Counted
<1>7. ASSUME NEW k \in Lists!Keys, Lists!Answer(k) PROVE ListsInv'
  <2>1. lAcked' = lAcked /\ lChanges' = lChanges /\ lRegistry' = lRegistry /\ lWrite' = lWrite /\ lCache' = lCache
    BY <1>7 DEF Lists!Answer
  <2>2. PICK answer : answer = [c \in Lists!Scope(k) |-> lChanges[c]]
    OBVIOUS
  <2>3. HasWrites(answer)
    BY <2>2 DEF ListsInv, Counted, Lists!Scope, HasWrites
  <2>4. PICK f : f = [answer |-> answer, overtaken |-> lFlight[k].overtaken]
    OBVIOUS
  <2>5. [lFlight[k] EXCEPT !.answer = answer] = f
    BY <1>7, <2>4 DEF Lists!Answer, ListsInv, Underway
  <2>6. lFlight[k].overtaken \in BOOLEAN
    BY <1>7 DEF Lists!Answer, ListsInv, Underway
  <2>7. Underway(f)
    BY <2>3, <2>4, <2>6 DEF Underway
  <2>8. lFlight' = [j \in Lists!Keys |-> IF j = k THEN f ELSE lFlight[j]]
    BY <1>7, <2>2, <2>5 DEF Lists!Answer, ListsInv
  <2>9. ASSUME NEW j \in Lists!Keys PROVE Underway(lFlight[j])'
    <3>1. Underway(lFlight'[j])
      BY <2>7, <2>8 DEF ListsInv
    <3> QED
      BY <2>1, <3>1 DEF Underway, HasWrites
  <2>10. ASSUME NEW j \in Lists!Keys PROVE Cached(lCache[j])'
    BY <2>1 DEF ListsInv, Cached, HasWrites
  <2> QED
    BY <2>1, <2>8, <2>9, <2>10 DEF ListsInv, Counted
<1>8. ASSUME NEW k \in Lists!Keys, Lists!Install(k) PROVE ListsInv'
  <2>1. lAcked' = lAcked /\ lChanges' = lChanges /\ lRegistry' = lRegistry /\ lWrite' = lWrite
    BY <1>8 DEF Lists!Install
  <2>2. PICK d : d = [data |-> lFlight[k].answer, failed |-> FALSE, stale |-> FALSE,
                      overtaken |-> lFlight[k].overtaken]
    OBVIOUS
  <2>3. /\ lCache' = [j \in Lists!Keys |-> IF j = k THEN d ELSE lCache[j]]
        /\ lFlight' = [j \in Lists!Keys |-> IF j = k THEN Idle ELSE lFlight[j]]
    BY <1>8, <2>2 DEF Lists!Install, ListsInv
  <2>4. /\ lFlight[k].overtaken \in BOOLEAN
        /\ ~lFlight[k].overtaken => HasWrites(lFlight[k].answer)
    BY <1>8 DEF Lists!Install, ListsInv, Underway
  <2>5. Cached(d)
    BY <2>2, <2>4 DEF Cached
  <2>6. ASSUME NEW j \in Lists!Keys PROVE Cached(lCache[j])'
    <3>1. Cached(lCache'[j])
      BY <2>3, <2>5 DEF ListsInv
    <3> QED
      BY <2>1, <3>1 DEF Cached, HasWrites
  <2>7. ASSUME NEW j \in Lists!Keys PROVE Underway(lFlight[j])'
    <3>1. Underway(lFlight'[j])
      BY <2>3, IdleIsUnderway DEF ListsInv
    <3> QED
      BY <2>1, <3>1 DEF Underway, HasWrites
  <2> QED
    BY <2>1, <2>3, <2>6, <2>7 DEF ListsInv, Counted
<1>9. ASSUME NEW k \in Lists!Keys, Lists!FetchFails(k) PROVE ListsInv'
  <2>1. lAcked' = lAcked /\ lChanges' = lChanges /\ lRegistry' = lRegistry /\ lWrite' = lWrite
    BY <1>9 DEF Lists!FetchFails
  <2>2. Cached(lCache[k])
    BY DEF ListsInv
  <2>3. PICK d : d = [data |-> lCache[k].data, failed |-> TRUE, stale |-> lCache[k].stale,
                      overtaken |-> lCache[k].overtaken]
    OBVIOUS
  <2>4. [lCache[k] EXCEPT !.failed = TRUE] = d
    <3>1. lCache[k] = [data |-> lCache[k].data, failed |-> lCache[k].failed,
                      stale |-> lCache[k].stale, overtaken |-> lCache[k].overtaken]
      BY <2>2 DEF Cached
    <3>2. [lCache[k] EXCEPT !.failed = TRUE] =
            [data |-> lCache[k].data, failed |-> TRUE, stale |-> lCache[k].stale,
             overtaken |-> lCache[k].overtaken]
      BY <3>1, FailedField, Zenon
    <3> QED
      BY <2>3, <3>2, Zenon
  <2>5. Cached(d)
    BY <2>2, <2>3 DEF Cached
  <2>6. /\ lCache' = [j \in Lists!Keys |-> IF j = k THEN d ELSE lCache[j]]
        /\ lFlight' = [j \in Lists!Keys |-> IF j = k THEN Idle ELSE lFlight[j]]
    BY <1>9, <2>4 DEF Lists!FetchFails, ListsInv
  <2>7. ASSUME NEW j \in Lists!Keys PROVE Cached(lCache[j])'
    <3>1. Cached(lCache'[j])
      BY <2>5, <2>6 DEF ListsInv
    <3> QED
      BY <2>1, <3>1 DEF Cached, HasWrites
  <2>8. ASSUME NEW j \in Lists!Keys PROVE Underway(lFlight[j])'
    <3>1. Underway(lFlight'[j])
      BY <2>6, IdleIsUnderway DEF ListsInv
    <3> QED
      BY <2>1, <3>1 DEF Underway, HasWrites
  <2> QED
    BY <2>1, <2>6, <2>7, <2>8 DEF ListsInv, Counted
<1>10. ASSUME NEW c \in KVClusters, Lists!Change(c), UNCHANGED <<lRegistry, lCache, lFlight, lAcked>>,
              lWrite' = lWrite \/ lWrite' = [cluster |-> c, change |-> lChanges'[c]]
       PROVE  ListsInv'
  <2>1. Counted'
    BY <1>10 DEF Lists!Change, ListsInv, Counted
  <2>2. \A j \in Lists!Keys : Cached(lCache[j])' /\ Underway(lFlight[j])'
    BY <1>10 DEF ListsInv, Cached, Underway, HasWrites
  <2> QED
    BY <1>10, <2>1, <2>2 DEF ListsInv
<1>11. CASE \E c \in KVClusters : Lists!OtherWrites(c)
  BY <1>10, <1>11 DEF Lists!OtherWrites
<1>12. CASE \E c \in KVClusters : Lists!Write(c)
  BY <1>10, <1>12 DEF Lists!Write
<1>13. CASE Lists!WriteAnswered
  <2>1. Counted'
    BY <1>13 DEF Lists!WriteAnswered, ListsInv, Counted
  <2>2. ASSUME NEW k \in Lists!Keys PROVE Cached(lCache[k])'
    <3>1. Cached(lCache[k])
      BY DEF ListsInv
    <3>2. lCache'[k] = [data |-> lCache[k].data, failed |-> lCache[k].failed, stale |-> TRUE,
                       overtaken |-> lCache[k].overtaken]
      <4>1. lCache[k] = [data |-> lCache[k].data, failed |-> lCache[k].failed,
                        stale |-> lCache[k].stale, overtaken |-> lCache[k].overtaken]
        BY <3>1 DEF Cached
      <4>2. lCache'[k] = [lCache[k] EXCEPT !.stale = TRUE]
        BY <1>13 DEF Lists!WriteAnswered, Lists!Invalidated
      <4> QED
        BY <4>1, <4>2, StaleField, Zenon
    <3> QED
      BY <3>1, <3>2 DEF Cached
  <2>3. ASSUME NEW k \in Lists!Keys PROVE Underway(lFlight[k])'
    <3>1. lFlight'[k] = Lists!Overtaken(k)
      BY <1>13 DEF Lists!WriteAnswered
    <3>2. CASE lFlight[k] # Idle /\ (k # Lists!Exposed \/ lCache[k].data = NoData)
      <4>1. [lFlight[k] EXCEPT !.overtaken = TRUE] = [answer |-> lFlight[k].answer, overtaken |-> TRUE]
        <5>1. lFlight[k] = [answer |-> lFlight[k].answer, overtaken |-> lFlight[k].overtaken]
          BY <3>2 DEF ListsInv, Underway
        <5> QED
          BY <5>1, OvertakenField, Zenon
      <4>2. lFlight'[k] = [answer |-> lFlight[k].answer, overtaken |-> TRUE]
        BY <3>1, <3>2, <4>1 DEF Lists!Overtaken
      <4> QED
        BY <4>2 DEF Underway
    <3>3. CASE ~(lFlight[k] # Idle /\ (k # Lists!Exposed \/ lCache[k].data = NoData)) /\ k = Lists!Exposed
      BY <3>1, <3>3, AskedIsUnderway DEF Lists!Overtaken
    <3>4. CASE ~(lFlight[k] # Idle /\ (k # Lists!Exposed \/ lCache[k].data = NoData)) /\ k # Lists!Exposed
      BY <3>1, <3>4 DEF Lists!Overtaken, Underway
    <3> QED
      BY <3>2, <3>3, <3>4
  <2> QED
    BY <1>13, <2>1, <2>2, <2>3 DEF Lists!WriteAnswered, Lists!Invalidated, ListsInv
<1>14. CASE UNCHANGED listsVars
  BY <1>14 DEF listsVars, ListsInv, Counted, Cached, Underway, HasWrites
<1> QED
  BY <1>1, <1>2, <1>3, <1>4, <1>5, <1>6, <1>7, <1>8, <1>9, <1>11, <1>12, <1>13, <1>14 DEF Lists!Next

\* Rows that are shown are cached.
LEMMA RowsAreCached == ListsInv => Lists!ReadYourWrites
BY DEF ListsInv, Cached, HasWrites, Lists!ReadYourWrites, Lists!View

\* Rows that a page shows and trusts have every change whose write was answered,
\* for any clusters and any number of changes, writes, failures and switches
\* (web/lib/cluster.tsx, and onSuccess of the mutations of every page).
THEOREM WritesAreRead == ConsoleSpec => []ReadYourWrites
<1>1. ConsoleInit => ListsInv
  BY ListsStart DEF ConsoleInit
<1>2. ListsInv /\ [ConsoleNext]_consoleVars => ListsInv'
  BY ListsKept, ListsStep
<1>3. ListsInv => ReadYourWrites
  BY RowsAreCached DEF ReadYourWrites
<1> QED
  BY <1>1, <1>2, <1>3, PTL DEF ConsoleSpec

-----------------------------------------------------------------------------
(* The preview of the rules.  PreviewTells speaks of the answer on screen. *)
(* The invariant follows the question: as long as nothing changed, what is *)
(* under way is the form as it is, asked of the indexers of its cluster;   *)
(* and the answer is that of the only one of them, by the rules it still   *)
(* has.                                                                    *)

\* None is neither a question nor an answer.
NoneIsNothing ==
    /\ \A s, to : None # [scope |-> s, to |-> to]
    /\ \A s, decision : None # [scope |-> s, decision |-> decision]

PreviewAsked == vCurrent /\ vSent # None => vSent.scope = vScope /\ vSent.to = Preview!Selects(<<Preview!Target>>)

PreviewTold ==
    vCurrent /\ vSent = None =>
        /\ vPreview # None /\ vPreview.scope = vScope /\ ~vErr
        /\ \E b \in Preview!Indexers : Preview!Selects(<<Preview!Target>>) = {b} /\ vPreview.decision = Preview!Evaluated(vScope, b)

PreviewInv == vCurrent \in BOOLEAN /\ vErr \in BOOLEAN /\ PreviewAsked /\ PreviewTold

\* There is no preview at first.
LEMMA PreviewStarts == Preview!Init => PreviewInv
BY DEF Preview!Init, PreviewInv, PreviewAsked, PreviewTold

\* Every step keeps the invariant: what changes something that the preview
\* depends on says so in current.
LEMMA PreviewKept ==
    ASSUME NoneIsNothing, PreviewInv, [Preview!Next]_previewVars
    PROVE  PreviewInv'
<1> USE DEF PreviewInv, PreviewAsked, PreviewTold, Preview!Target
<1>1. ASSUME NEW s, Preview!Edit(s)
      PROVE  PreviewInv'
  BY <1>1 DEF Preview!Edit
<1>2. CASE \E m \in Models : Preview!SetModel(m)
  BY <1>1, <1>2 DEF Preview!SetModel
<1>3. CASE \E c \in Options \cup {Preview!AnyCluster} : Preview!SetCluster(c)
  BY <1>1, <1>3 DEF Preview!SetCluster
<1>4. CASE \E n \in DOMAIN Number : Preview!SetTokens(n)
  BY <1>1, <1>4 DEF Preview!SetTokens
<1>5. CASE \E r \in Ratios : Preview!SetRatio(r)
  BY <1>1, <1>5 DEF Preview!SetRatio
<1>6. CASE Preview!FallBack
  BY <1>6 DEF Preview!FallBack
<1>7. ASSUME NEW has \in SUBSET Models, Preview!ModelsAnswered(has)
      PROVE  PreviewInv'
  <2>1. CASE has = {} \/ vScope.model \in has
    BY <1>7, <2>1 DEF Preview!ModelsAnswered, Preview!Evaluated
  <2>2. CASE ~(has = {} \/ vScope.model \in has)
    BY <1>7, <2>2 DEF Preview!ModelsAnswered
  <2> QED
    BY <2>1, <2>2
<1>8. CASE Preview!Run
  BY <1>8 DEF Preview!Run, NoneIsNothing
<1>9. CASE Preview!Answered
  <2>1. PICK b \in vSent.to :
          vSent.to = {b} /\ vPreview' = [scope |-> vSent.scope, decision |-> Preview!Evaluated(vSent.scope, b)]
    BY <1>9 DEF Preview!Answered
  <2>2. b \in Preview!Indexers \/ ~vCurrent
    BY <1>9, <2>1 DEF Preview!Answered, Preview!Selects
  <2> QED
    BY <1>9, <2>1, <2>2 DEF Preview!Answered, NoneIsNothing, Preview!Evaluated
<1>10. CASE Preview!Refused
  BY <1>10 DEF Preview!Refused, Preview!Ends
<1>11. CASE Preview!Fails
  BY <1>11 DEF Preview!Fails, Preview!Ends
<1>12. CASE \E b \in Preview!Indexers, l \in Changed : Preview!RulesChange(b, l)
  BY <1>12 DEF Preview!RulesChange
<1>13. CASE UNCHANGED previewVars
  BY <1>13 DEF previewVars, Preview!Evaluated
<1> QED
  BY <1>2, <1>3, <1>4, <1>5, <1>6, <1>7, <1>8, <1>9, <1>10, <1>11, <1>12, <1>13 DEF Preview!Next

\* A tokenized request that has what is in the form is the one the preview is
\* computed for.
LEMMA SameRequest ==
    ASSUME NEW s, NEW b \in Preview!Indexers, NEW q \in Preview!Requests(b),
           q.cluster_id = s.cluster_id, q.input_tokens = s.input_tokens,
           q.ratio = s.ratio, q.tokenized = "true"
    PROVE  q = [cluster_id |-> s.cluster_id, input_tokens |-> s.input_tokens, tokenized |-> "true",
                ratio |-> s.ratio]
BY DEF Preview!Requests

\* The only indexer of the cluster in the form is the one such a request goes
\* to.
LEMMA InvariantTells == PreviewInv => Preview!PreviewTells
<1> SUFFICES ASSUME PreviewInv, vCurrent, vSent = None
             PROVE  /\ vPreview # None /\ vPreview.scope = vScope /\ ~vErr
                    /\ vScope.cluster_id # Preview!AnyCluster =>
                          \A b \in Preview!Indexers : \A q \in Preview!Requests(b) :
                              /\ q.cluster_id = vScope.cluster_id /\ q.input_tokens = vScope.input_tokens
                              /\ q.ratio = vScope.ratio /\ q.tokenized = "true"
                              => Preview!Decide(q, vRules[b]) = vPreview.decision
  BY DEF Preview!PreviewTells
<1>1. vPreview # None /\ vPreview.scope = vScope /\ ~vErr
  BY DEF PreviewInv, PreviewTold
<1>2. PICK only \in Preview!Indexers : Preview!Selects(<<Preview!Target>>) = {only} /\ vPreview.decision = Preview!Evaluated(vScope, only)
  BY DEF PreviewInv, PreviewTold
<1>3. ASSUME NEW b \in Preview!Indexers, NEW q \in Preview!Requests(b), vScope.cluster_id # Preview!AnyCluster,
             q.cluster_id = vScope.cluster_id, q.input_tokens = vScope.input_tokens,
             q.ratio = vScope.ratio, q.tokenized = "true"
      PROVE  Preview!Decide(q, vRules[b]) = vPreview.decision
  <2>1. ClusterOf[b] = vScope.cluster_id /\ Preview!Target = vScope.cluster_id
    BY <1>3 DEF Preview!Requests, Preview!Target
  <2>2. b = only
    BY <1>2, <2>1 DEF Preview!Selects
  <2>3. q = [cluster_id |-> vScope.cluster_id, input_tokens |-> vScope.input_tokens, tokenized |-> "true",
             ratio |-> vScope.ratio]
    BY <1>3, SameRequest
  <2> QED
    BY <1>2, <2>2, <2>3 DEF Preview!Evaluated
<1> QED
  BY <1>1, <1>3

\* A preview beside the form it was asked with is what requests meet, for any
\* clusters, rules and forms, and whatever was selected, edited and failed
\* before (policies/page.tsx:545-588, query.go:208-258).
THEOREM PreviewIsWhatRequestsMeet ==
    ASSUME NoneIsNothing
    PROVE  ConsoleSpec => []PreviewTells
<1>1. ConsoleInit => PreviewInv
  BY PreviewStarts DEF ConsoleInit
<1>2. PreviewInv /\ [ConsoleNext]_consoleVars => PreviewInv'
  BY PreviewKept, PreviewStep
<1>3. PreviewInv => PreviewTells
  BY InvariantTells DEF PreviewTells
<1> QED
  BY <1>1, <1>2, <1>3, PTL DEF ConsoleSpec

-----------------------------------------------------------------------------
(* The simulator.  OneInput speaks of the moment after a run.  The         *)
(* invariant follows the run: while it is under way and nothing was        *)
(* edited, the inputs are still those it started with, so what is sent and *)
(* what comes back is of them; each step adds one card of the run, and     *)
(* before the last one the cards of the tokens and the hits have been      *)
(* replaced or taken down.                                                 *)

Steps == {"tokenize", "query", "judge"}

SimulatorTypes ==
    /\ sStep \in Steps \cup {None}
    /\ sRunsAll \in BOOLEAN /\ sIsLocal \in BOOLEAN
    /\ sErr \in BOOLEAN /\ sClean \in BOOLEAN

\* The run, as far as it got.
RunSoFar ==
    /\ sClean => sRunsAll /\ ~sErr
    /\ sClean /\ sStep # None => sInput = sRan /\ sSent = sRan
    /\ sClean /\ sStep \in {"query", "judge"} => sTok = sRan
    /\ sClean /\ sStep = "judge" => sHits \in {None, sRan}
    /\ sClean /\ sStep = None => sTok \in {None, sRan} /\ sHits \in {None, sRan} /\ sRoute \in {None, sRan}

SimulatorInv == SimulatorTypes /\ RunSoFar

\* The page starts without a run.
LEMMA SimulatorStarts == Simulation!Init => SimulatorInv
BY Zenon DEF Simulation!Init, SimulatorInv, SimulatorTypes, RunSoFar

\* Every step keeps the invariant, if None is none of the requests.
LEMMA SimulatorKept ==
    ASSUME None \notin Steps, SimulatorInv, [Simulation!Next]_simulatorVars
    PROVE  SimulatorInv'
<1> USE DEF SimulatorInv, SimulatorTypes, RunSoFar, Steps
<1>1. ASSUME NEW i, Simulation!Edit(i), UNCHANGED <<sProfiles, sStep, sRunsAll, sIsLocal, sSent, sTok, sHits, sRoute, sErr, sRan>>
      PROVE  SimulatorInv'
  BY <1>1 DEF Simulation!Edit, Simulation!Edited
<1>2. CASE \E m \in Models : Simulation!SetModel(m)
  BY <1>1, <1>2 DEF Simulation!SetModel
<1>3. CASE \E x \in Texts : Simulation!SetText(x)
  BY <1>1, <1>3 DEF Simulation!SetText
<1>4. CASE \E c \in SimulatorClusters \cup {Simulation!All} : Simulation!SetCluster(c)
  BY <1>1, <1>4 DEF Simulation!SetCluster
<1>5. ASSUME NEW modes \in ProfileAnswers, Simulation!ProfilesAnswered(modes)
      PROVE  SimulatorInv'
  <2> DEFINE has == {m \in Models : modes[m] # None}
  <2>1. CASE has = {} \/ sInput.model \in has
    BY <1>5, <2>1 DEF Simulation!ProfilesAnswered
  <2>2. CASE ~(has = {} \/ sInput.model \in has)
    BY <1>5, <2>2 DEF Simulation!ProfilesAnswered, Simulation!Edited
  <2> QED
    BY <2>1, <2>2
<1>6. CASE Simulation!RunAll
  BY <1>6 DEF Simulation!RunAll, Simulation!Send
<1>7. CASE Simulation!Tokenize
  BY <1>7 DEF Simulation!Tokenize, Simulation!Send
<1>8. CASE Simulation!Tokenized
  BY <1>8 DEF Simulation!Tokenized, Simulation!LookUp, Simulation!Send
<1>9. CASE Simulation!TokenizeFails
  BY <1>9 DEF Simulation!TokenizeFails, Simulation!LookUp, Simulation!Send
<1>10. CASE Simulation!Queried
  BY <1>10 DEF Simulation!Queried, Simulation!Send
<1>11. CASE Simulation!QueryFails
  BY <1>11 DEF Simulation!QueryFails, Simulation!Send
<1>12. CASE Simulation!Judged
  BY <1>12 DEF Simulation!Judged, Simulation!Send
<1>13. CASE Simulation!JudgeFails
  BY <1>13 DEF Simulation!JudgeFails, Simulation!Send
<1>14. CASE UNCHANGED simulatorVars
  BY <1>14 DEF simulatorVars
<1> QED
  BY <1>2, <1>3, <1>4, <1>5, <1>6, <1>7, <1>8, <1>9, <1>10, <1>11, <1>12, <1>13, <1>14
     DEF Simulation!Next

\* What is known after a run is what is promised of its cards.
LEMMA CardsFollow == SimulatorInv => Simulation!OneInput
BY Zenon DEF SimulatorInv, SimulatorTypes, RunSoFar, Simulation!OneInput, Simulation!Cards

\* The cards that stand side by side after a run that was not edited and did
\* not fail are of the run's prompt, and no error is shown: for any clusters,
\* models, texts and profile lists, and any number of runs and edits before and
\* afterwards (simulator/page.tsx:99-151).
THEOREM CardsAreOfOneInput == ConsoleSpec => []OneInput
<1>1. ConsoleInit => SimulatorInv
  BY SimulatorStarts DEF ConsoleInit
<1>2. SimulatorInv /\ [ConsoleNext]_consoleVars => SimulatorInv'
  BY SimulatorKept, SimulatorStep, SimulatorAssumption DEF Steps
<1>3. SimulatorInv => OneInput
  BY CardsFollow DEF OneInput
<1> QED
  BY <1>1, <1>2, <1>3, PTL DEF ConsoleSpec

-----------------------------------------------------------------------------
(* The profiles.  A move deletes the row of its source after it wrote the  *)
(* one of its target, and other saves write and delete in between.  Not    *)
(* the target of a move is safe, but always some row: as long as nothing   *)
(* crossed, there is one that no save is about to delete.                  *)

Forms == [creating : BOOLEAN, initial : Backends \cup {None}, target : Backends, row : Row,
          upload : Upload]

Mutations == [phase : {"post", "delete"}, tab : Tabs, target : Backends,
              source : Backends \cup {None}, payload : Row, upload : Upload,
              announced : BOOLEAN, existing : Row \cup {None}]

ProfileTypes ==
    /\ rows \in Rows
    /\ assets \in [Backends -> Asset \cup {None}]
    /\ sidecar \in Asset \cup {None}
    /\ list \in [Tabs -> Rows]
    /\ form \in [Tabs -> Forms \cup {None}]
    /\ save \in [Saves -> Mutations \cup {NotStarted, Ended}]
    /\ crossed \in BOOLEAN

\* The rows that a save is about to delete.
Doomed == {b \in Backends : \E j \in Saves : save[j].phase = "delete" /\ save[j].source = b}

\* A move ends elsewhere.
Moves == \A j \in Saves : save[j] \in Mutations => save[j].source # save[j].target

SomeRowIsSafe == crossed \/ \E b \in Backends \ Doomed : rows[b] # None

\* A save that announces no new version stores the namespace of the row it
\* compared with.
Foretold(m) ==
    m.existing # None /\ m.upload = NoUpload /\ ~m.announced =>
        /\ m.payload.mode = m.existing.mode /\ m.payload.settings = m.existing.settings
        /\ m.payload.mode = "remote" => m.payload.endpoint = m.existing.endpoint

Announcements ==
    \A j \in Saves : save[j] \in Mutations => Foretold(save[j]) /\ AsSaved(save[j].payload)

ProfileInv ==
    /\ ProfileTypes /\ Moves /\ SomeRowIsSafe /\ Announcements
    /\ \A b \in Backends : AsSaved(rows[b])

\* A set of numbers has a least one.
LEMMA LeastExists ==
    ASSUME NEW S, S \subseteq Nat, S # {}
    PROVE  \E x \in S : \A y \in S : x <= y
<1> DEFINE R == OpToRel(<, Nat)
<1>1. PICK x \in S : \A y \in S : <<y, x>> \notin R
  <2>1. IsWellFoundedOn(R, Nat)
    BY NatLessThanWellFounded
  <2> HIDE DEF R
  <2> QED
    BY <2>1, WFMin
<1>2. ASSUME NEW y \in S PROVE x <= y
  <2>1. <<y, x>> \notin R
    BY <1>1
  <2> QED
    BY <2>1 DEF OpToRel
<1> QED
  BY <1>2

\* What a save's record is while it is under way.
LEMMA UnderWayIsMutation ==
    ASSUME ProfileTypes, NEW j \in Saves, save[j].phase \in {"post", "delete"}
    PROVE  save[j] \in Mutations
<1>1. save[j] \in Mutations \cup {NotStarted, Ended}
  BY DEF ProfileTypes
<1>2. NotStarted.phase = "not started" /\ Ended.phase = "ended"
  BY DEF NotStarted, Ended
<1> QED
  BY <1>1, <1>2

\* What the updates of the page and the store make of a row.
LEMMA RowUpdated ==
    ASSUME NEW p \in Row
    PROVE  /\ \A n \in Nat : LET r == [p EXCEPT !.version = n] IN
                r \in Row /\ r.version = n /\ r.mode = p.mode /\ r.endpoint = p.endpoint
                /\ r.sha = p.sha /\ r.settings = p.settings
           /\ \A h \in Templates \cup {None} : LET r == [p EXCEPT !.sha = h] IN
                r \in Row /\ r.version = p.version /\ r.mode = p.mode /\ r.endpoint = p.endpoint
                /\ r.sha = h /\ r.settings = p.settings
           /\ \A e \in Endpoints \cup {None} : LET r == [p EXCEPT !.endpoint = e] IN
                r \in Row /\ r.version = p.version /\ r.mode = p.mode /\ r.endpoint = e
                /\ r.sha = p.sha /\ r.settings = p.settings
           /\ \A m \in Modes : [p EXCEPT !.mode = m] \in Row
           /\ \A s \in Settings : [p EXCEPT !.settings = s] \in Row
BY DEF Row

\* The store keeps what is saved, under some version.
LEMMA UpsertedIsSaved ==
    ASSUME NEW old \in Row \cup {None}, NEW p \in Row
    PROVE  LET r == Upserted(old, p) IN
           /\ r \in Row
           /\ r.mode = p.mode /\ r.endpoint = p.endpoint /\ r.sha = p.sha /\ r.settings = p.settings
           /\ old # None /\ ~AffectsHashNamespace(old, p) => r.version \in {old.version, p.version}
<1>1. \A n \in Nat : LET r == [p EXCEPT !.version = n] IN
         r \in Row /\ r.version = n /\ r.mode = p.mode /\ r.endpoint = p.endpoint
         /\ r.sha = p.sha /\ r.settings = p.settings
  BY RowUpdated
<1>2. p.version \in Nat /\ (old # None => old.version \in Nat /\ old.version + 1 \in Nat)
  BY DEF Row
<1>3. PICK n \in Nat :
         /\ Upserted(old, p) = [p EXCEPT !.version = n]
         /\ old # None /\ ~AffectsHashNamespace(old, p) => n \in {old.version, p.version}
  <2>1. CASE old = None
    BY <1>2, <2>1 DEF Upserted
  <2>2. CASE old # None /\ AffectsHashNamespace(old, p)
    BY <1>2, <2>2 DEF Upserted
  <2>3. CASE old # None /\ ~AffectsHashNamespace(old, p)
    BY <1>2, <2>3 DEF Upserted
  <2> QED
    BY <2>1, <2>2, <2>3
<1> QED
  BY <1>1, <1>3

\* What the sidecar is given and answers is a template, or none.
LEMMA RegistersAsset ==
    ASSUME ProfileInv, NEW j \in Saves, Register(j)
    PROVE  /\ save[j] \in Mutations
           /\ TemplateFor(j) \in Templates \cup {None}
           /\ sidecar' \in Asset \cup {None}
           /\ save[j].payload.mode = "local" =>
                 sidecar' \in Asset /\ sidecar'.template \in Templates \cup {None}
<1>1. save[j] \in Mutations
  BY UnderWayIsMutation DEF Register, ProfileInv
<1>2. /\ save[j].target \in Backends /\ save[j].source \in Backends \cup {None}
      /\ save[j].upload \in Upload
      /\ assets \in [Backends -> Asset \cup {None}] /\ sidecar \in Asset \cup {None}
  BY <1>1 DEF Mutations, ProfileInv, ProfileTypes
<1>3. \A a \in Asset : a.template \in Templates \cup {None}
  BY DEF Asset
<1>4. TemplateFor(j) \in Templates \cup {None}
  <2>1. save[j].upload.template \in Templates \cup {None}
    BY <1>2 DEF Upload
  <2>2. \A b \in Backends : assets[b] # None => assets[b].template \in Templates \cup {None}
    BY <1>2, <1>3
  <2> QED
    BY <1>2, <2>1, <2>2, Zenon DEF TemplateFor
<1>5. Registered(TemplateFor(j)) \in Asset
  BY <1>2, <1>4 DEF Registered, Asset, AssetOf
<1> QED
  BY <1>1, <1>2, <1>3, <1>4, <1>5, Zenon DEF Register

\* The asset that is stored has what the sidecar was given.
LEMMA StoresAsset ==
    ASSUME ProfileInv, NEW j \in Saves, StoreAsset(j)
    PROVE  assets' \in [Backends -> Asset \cup {None}]
<1>1. TemplateFor(j) \in Templates \cup {None}
  BY RegistersAsset DEF StoreAsset
<1>2. AssetOf(TemplateFor(j)) \in Asset
  BY <1>1 DEF Asset, AssetOf
<1>3. assets \in [Backends -> Asset \cup {None}]
  BY DEF ProfileInv, ProfileTypes
<1> QED
  BY <1>2, <1>3, Zenon DEF StoreAsset

\* A save stores a row at its target, as the page saves them, and notices if
\* another save is about to delete it.
LEMMA Stores ==
    ASSUME ProfileInv, NEW j \in Saves, PostApplies(j)
    PROVE  /\ save[j] \in Mutations
           /\ \E r \in Row :
                 /\ AsSaved(r) /\ rows' = [rows EXCEPT ![save[j].target] = r]
                 /\ LET p == save[j].payload IN
                    r = Upserted(rows[save[j].target],
                                 IF p.mode = "local" THEN [p EXCEPT !.sha = sidecar'.template] ELSE p)
           /\ assets' \in [Backends -> Asset \cup {None}]
           /\ sidecar' \in Asset \cup {None}
           /\ crossed' \in BOOLEAN
           /\ ~crossed' => ~crossed /\ save[j].target \notin Doomed
<1>1. save[j] \in Mutations /\ sidecar' \in Asset \cup {None}
  BY RegistersAsset DEF PostApplies, StoreAsset
<1> DEFINE b == save[j].target
           p == save[j].payload
           q == IF p.mode = "local" THEN [p EXCEPT !.sha = sidecar'.template] ELSE p
           r == Upserted(rows[b], q)
<1>2. b \in Backends /\ p \in Row
  BY <1>1 DEF Mutations
<1>3. p.mode = "local" => sidecar'.template \in Templates \cup {None}
  BY RegistersAsset DEF PostApplies, StoreAsset
<1>4. rows \in [Backends -> Row \cup {None}]
  BY DEF ProfileInv, ProfileTypes, Rows
<1>5. q \in Row /\ AsSaved(q)
  <2>1. AsSaved(p)
    BY <1>1 DEF ProfileInv, Announcements
  <2>2. None \notin Row
    BY StartAssumption
  <2>3. p.mode = "local" =>
          LET s == [p EXCEPT !.sha = sidecar'.template] IN
          s \in Row /\ s.mode = p.mode /\ s.endpoint = p.endpoint
    BY <1>2, <1>3, RowUpdated
  <2>4. CASE p.mode = "local"
    <3>1. q = [p EXCEPT !.sha = sidecar'.template]
      BY <2>4
    <3> HIDE DEF q
    <3> QED
      BY <1>2, <2>1, <2>2, <2>3, <2>4, <3>1 DEF AsSaved
  <2>5. CASE p.mode # "local"
    BY <1>2, <2>1, <2>5
  <2> QED
    BY <2>4, <2>5
<1>6. r \in Row /\ r.mode = q.mode /\ r.endpoint = q.endpoint /\ r.sha = q.sha
  <2>1. rows[b] \in Row \cup {None}
    BY <1>2, <1>4
  <2> HIDE DEF q
  <2> QED
    BY <1>5, <2>1, UpsertedIsSaved
<1>7. AsSaved(r)
  <2> HIDE DEF q, r
  <2> QED
    BY <1>5, <1>6, StartAssumption DEF AsSaved
<1>8. rows' = [rows EXCEPT ![b] = r]
  BY DEF PostApplies
<1>9. assets' \in [Backends -> Asset \cup {None}]
  BY StoresAsset DEF PostApplies
<1>10. crossed' \in BOOLEAN
  BY DEF PostApplies, ProfileInv, ProfileTypes
<1>11. ~crossed' => ~crossed /\ b \notin Doomed
  BY <1>2 DEF PostApplies, Doomed
<1> QED
  BY <1>1, <1>6, <1>7, <1>8, <1>9, <1>10, <1>11

\* The same of a form.
LEMMA FormUpdated ==
    ASSUME NEW f \in Forms
    PROVE  /\ \A b \in Backends : [f EXCEPT !.target = b] \in Forms
           /\ [f EXCEPT !.upload.zip = TRUE] \in Forms
           /\ \A h \in Templates : [f EXCEPT !.upload.template = h] \in Forms
           /\ \A m \in Modes : [f EXCEPT !.row.mode = m] \in Forms
           /\ \A s \in Settings : [f EXCEPT !.row.settings = s] \in Forms
           /\ \A e \in Endpoints : [f EXCEPT !.row.endpoint = e] \in Forms
<1>1. f.row \in Row
  BY DEF Forms
<1>2. \A r \in Row : [f EXCEPT !.row = r] \in Forms
  BY DEF Forms
<1>3. \A b \in Backends : [f EXCEPT !.target = b] \in Forms
  BY DEF Forms
<1>4. [f EXCEPT !.upload.zip = TRUE] \in Forms /\ \A h \in Templates : [f EXCEPT !.upload.template = h] \in Forms
  <2>1. f.upload \in Upload
    BY DEF Forms
  <2>2. [f.upload EXCEPT !.zip = TRUE] \in Upload /\ \A h \in Templates : [f.upload EXCEPT !.template = h] \in Upload
    BY <2>1 DEF Upload
  <2>3. \A u \in Upload : [f EXCEPT !.upload = u] \in Forms
    BY DEF Forms
  <2> QED
    BY <2>2, <2>3
<1>5. ASSUME NEW m \in Modes PROVE [f EXCEPT !.row.mode = m] \in Forms
  <2>1. [f.row EXCEPT !.mode = m] \in Row
    BY <1>1, RowUpdated
  <2> QED
    BY <1>2, <2>1
<1>6. ASSUME NEW s \in Settings PROVE [f EXCEPT !.row.settings = s] \in Forms
  <2>1. [f.row EXCEPT !.settings = s] \in Row
    BY <1>1, RowUpdated
  <2> QED
    BY <1>2, <2>1
<1>7. ASSUME NEW e \in Endpoints PROVE [f EXCEPT !.row.endpoint = e] \in Forms
  <2>1. [f.row EXCEPT !.endpoint = e] \in Row
    BY <1>1, RowUpdated
  <2> QED
    BY <1>2, <2>1
<1> QED
  BY <1>3, <1>4, <1>5, <1>6, <1>7

\* The target decides over the mode.
LEMMA ForcedIsForm == ASSUME NEW f \in Forms PROVE Forced(f) \in Forms
<1>1. "local" \in Modes
  BY DEF Modes
<1> QED
  BY <1>1, FormUpdated DEF Forced

\* The row the page takes for the stored one is a row.
LEMMA ExistingIsRow ==
    ASSUME ProfileTypes, NEW t \in Tabs
    PROVE  Existing(t) \in Row \cup {None}
<1> DEFINE of == {b \in Backends : list[t][b] # None}
<1>1. CASE form[t].creating \/ of = {}
  BY <1>1 DEF Existing
<1>2. CASE ~(form[t].creating \/ of = {})
  <2>1. of \subseteq Nat
    BY ProfileAssumption
  <2>2. PICK x \in of : \A y \in of : x <= y
    <3> HIDE DEF of
    <3> QED
      BY <1>2, <2>1, LeastExists
  <2>3. (CHOOSE b \in of : \A c \in of : b <= c) \in of
    <3> HIDE DEF of
    <3> QED
      BY <2>2
  <2>4. Existing(t) = list[t][CHOOSE b \in of : \A c \in of : b <= c]
    BY <1>2 DEF Existing
  <2>5. list[t] \in [Backends -> Row \cup {None}]
    BY DEF ProfileTypes, Rows
  <2>6. (CHOOSE b \in of : \A c \in of : b <= c) \in Backends
    BY <2>3
  <2> QED
    BY <2>4, <2>5, <2>6
<1> QED
  BY <1>1, <1>2

\* What only concerns the lists and the forms keeps the invariant.
LEMMA OnlyForms ==
    ASSUME ProfileInv, UNCHANGED <<rows, assets, sidecar, save, crossed>>,
           list' \in [Tabs -> Rows], form' \in [Tabs -> Forms \cup {None}]
    PROVE  ProfileInv'
<1>1. ProfileTypes'
  BY DEF ProfileInv, ProfileTypes
<1>2. (Moves /\ SomeRowIsSafe /\ Announcements)'
  BY DEF ProfileInv, Moves, SomeRowIsSafe, Announcements, Doomed, Foretold
<1>3. \A b \in Backends : AsSaved(rows[b])'
  BY DEF ProfileInv, AsSaved
<1> QED
  BY <1>1, <1>2, <1>3 DEF ProfileInv

\* The page edits its form.
LEMMA EditKeeps ==
    ASSUME ProfileInv, NEW t \in Tabs, NEW f \in Forms, Edit(t, f)
    PROVE  ProfileInv'
<1>1. Forced(f) \in Forms
  BY ForcedIsForm
<1>2. list' \in [Tabs -> Rows] /\ form' \in [Tabs -> Forms \cup {None}]
  BY <1>1 DEF Edit, ProfileInv, ProfileTypes
<1> QED
  BY <1>2, OnlyForms DEF Edit

\* The list and the sheet.
LEMMA FormsKeep ==
    ASSUME ProfileInv, NEW t \in Tabs, FormNext(t), ~\E j \in Saves : Save(t, j)
    PROVE  ProfileInv'
<1>1. /\ rows \in [Backends -> Row \cup {None}]
      /\ list \in [Tabs -> Rows] /\ form \in [Tabs -> Forms \cup {None}]
      /\ list[t] \in [Backends -> Row \cup {None}]
  BY DEF ProfileInv, ProfileTypes, Rows
<1>2. CASE Poll(t)
  BY <1>1, <1>2, OnlyForms DEF Poll, Rows
<1>3. ASSUME NEW b \in Backends, PollWithout(t, b) PROVE ProfileInv'
  <2>1. [rows EXCEPT ![b] = None] \in Rows
    BY <1>1 DEF Rows
  <2> QED
    BY <1>1, <1>3, <2>1, OnlyForms DEF PollWithout
<1>4. ASSUME NEW b \in Backends, EditRow(t, b) PROVE ProfileInv'
  <2> DEFINE f == [creating |-> FALSE, initial |-> b, target |-> b, row |-> list[t][b],
                 upload |-> NoUpload]
  <2>1. list[t][b] \in Row
    BY <1>1, <1>4 DEF EditRow
  <2>2. f \in Forms
    BY <2>1 DEF Forms, Upload, NoUpload
  <2>3. Forced(f) \in Forms
    <3> HIDE DEF f
    <3> QED
      BY <2>2, ForcedIsForm
  <2>4. form' = [form EXCEPT ![t] = Forced(f)] /\ list' = list /\ UNCHANGED <<rows, assets, sidecar, save, crossed>>
    BY <1>4 DEF EditRow
  <2> HIDE DEF f
  <2> QED
    BY <1>1, <2>3, <2>4, OnlyForms
<1>5. ASSUME NEW b \in Backends, NEW v \in Settings, NewProfile(t, b, v) PROVE ProfileInv'
  <2> DEFINE f == [creating |-> TRUE, initial |-> None, target |-> b, row |-> Blank(v),
                 upload |-> NoUpload]
  <2>1. Blank(v) \in Row
    BY DEF Blank, Row, Modes
  <2>2. f \in Forms
    BY <2>1 DEF Forms, Upload, NoUpload
  <2>3. Forced(f) \in Forms
    <3> HIDE DEF f
    <3> QED
      BY <2>2, ForcedIsForm
  <2>4. form' = [form EXCEPT ![t] = Forced(f)] /\ list' = list /\ UNCHANGED <<rows, assets, sidecar, save, crossed>>
    BY <1>5 DEF NewProfile
  <2> HIDE DEF f
  <2> QED
    BY <1>1, <2>3, <2>4, OnlyForms
<1>6. CASE Cancel(t)
  BY <1>1, <1>6, OnlyForms DEF Cancel
<1>7. ASSUME NEW b \in Backends, SelectTarget(t, b) PROVE ProfileInv'
  BY <1>1, <1>7, FormUpdated, EditKeeps DEF SelectTarget
<1>8. ASSUME NEW v \in Settings, EditSettings(t, v) PROVE ProfileInv'
  BY <1>1, <1>8, FormUpdated, EditKeeps DEF EditSettings
<1>9. ASSUME NEW m \in Modes, EditMode(t, m) PROVE ProfileInv'
  BY <1>1, <1>9, FormUpdated, EditKeeps DEF EditMode
<1>10. ASSUME NEW e \in Endpoints, EditEndpoint(t, e) PROVE ProfileInv'
  BY <1>1, <1>10, FormUpdated, EditKeeps DEF EditEndpoint
<1>11. CASE ChooseZip(t)
  BY <1>1, <1>11, FormUpdated, EditKeeps DEF ChooseZip
<1>12. ASSUME NEW h \in Templates, ChooseTemplate(t, h) PROVE ProfileInv'
  BY <1>1, <1>12, FormUpdated, EditKeeps DEF ChooseTemplate
<1> QED
  BY <1>2, <1>3, <1>4, <1>5, <1>6, <1>7, <1>8, <1>9, <1>10, <1>11, <1>12, Zenon DEF FormNext

\* What is sent is the form's row in the shape that is stored.
LEMMA PayloadOfForm ==
    ASSUME NEW f \in Forms
    PROVE  /\ Payload(f) \in Row /\ AsSaved(Payload(f))
           /\ Payload(f).mode = f.row.mode /\ Payload(f).settings = f.row.settings
           /\ f.row.mode = "remote" => Payload(f).endpoint = f.row.endpoint
           /\ f.row.mode # "local" \/ f.upload = NoUpload => Payload(f).version = f.row.version
<1> DEFINE p == ProfileForSave(f.row)
<1>1. f.row \in Row /\ None \in Endpoints \cup {None} /\ None \in Templates \cup {None} /\ 0 \in Nat
  BY DEF Forms
<1>2. f.row.mode \in {"remote", "local"}
  BY <1>1 DEF Row, Modes
<1>3. /\ p \in Row /\ AsSaved(p) /\ p.mode = f.row.mode /\ p.settings = f.row.settings
      /\ f.row.mode = "remote" => p.endpoint = f.row.endpoint
      /\ p.version = f.row.version
  <2>1. CASE f.row.mode = "local"
    <3>1. p = [f.row EXCEPT !.endpoint = None]
      BY <2>1 DEF ProfileForSave
    <3> HIDE DEF p
    <3> QED
      BY <1>1, <2>1, <3>1, RowUpdated DEF AsSaved
  <2>2. CASE f.row.mode # "local"
    <3>1. p = [f.row EXCEPT !.sha = None]
      BY <2>2 DEF ProfileForSave
    <3> HIDE DEF p
    <3> QED
      BY <1>1, <2>2, <3>1, RowUpdated DEF AsSaved
  <2> QED
    BY <2>1, <2>2
<1>4. CASE f.row.mode = "local" /\ f.upload # NoUpload
  <2>1. Payload(f) = [p EXCEPT !.version = 0]
    BY <1>4 DEF Payload
  <2> HIDE DEF p
  <2> QED
    BY <1>1, <1>3, <1>4, <2>1, RowUpdated, StartAssumption DEF AsSaved
<1>5. CASE ~(f.row.mode = "local" /\ f.upload # NoUpload)
  <2>1. Payload(f) = p
    BY <1>5 DEF Payload
  <2> HIDE DEF p
  <2> QED
    BY <1>3, <2>1
<1> QED
  BY <1>4, <1>5

\* A save is started with what the form has.
LEMMA SaveKeeps ==
    ASSUME ProfileInv, NEW t \in Tabs, NEW j \in Saves, Save(t, j)
    PROVE  ProfileInv'
<1> DEFINE f == form[t]
           source == IF MovingProfile(t) THEN f.initial ELSE None
           upload == IF f.row.mode = "local" THEN f.upload ELSE NoUpload
           m == [phase |-> "post", tab |-> t, target |-> f.target, source |-> source,
                 payload |-> Payload(f), upload |-> upload,
                 announced |-> WillBump(t), existing |-> Existing(t)]
<1>1. save' = [save EXCEPT ![j] = m] /\ UNCHANGED <<rows, assets, sidecar, list, form, crossed>>
  BY DEF Save
<1>2. f \in Forms
  BY DEF Save, ProfileInv, ProfileTypes
<1>3. Existing(t) \in Row \cup {None}
  BY ExistingIsRow DEF ProfileInv
<1>4. source \in Backends \cup {None} /\ source # f.target
  <2>1. CASE MovingProfile(t)
    BY <1>2, <2>1 DEF MovingProfile, Forms
  <2>2. CASE ~MovingProfile(t)
    BY <1>2, <2>2, ProfileAssumption DEF Forms
  <2> QED
    BY <2>1, <2>2
<1>5. upload \in Upload /\ WillBump(t) \in BOOLEAN
  BY <1>2 DEF Forms, WillBump, Upload, NoUpload
<1>6. Payload(f) \in Row /\ AsSaved(Payload(f))
  BY <1>2, PayloadOfForm
<1>7. m \in Mutations
  <2> HIDE DEF source, upload
  <2>1. f.target \in Backends
    BY <1>2 DEF Forms
  <2> HIDE DEF f
  <2> QED
    BY <1>3, <1>4, <1>5, <1>6, <2>1 DEF Mutations
<1>8. Foretold(m)
  <2> SUFFICES ASSUME Existing(t) # None, upload = NoUpload, ~WillBump(t)
               PROVE  /\ Payload(f).mode = Existing(t).mode /\ Payload(f).settings = Existing(t).settings
                      /\ Payload(f).mode = "remote" => Payload(f).endpoint = Existing(t).endpoint
    <3> HIDE DEF f, source, upload
    <3> QED
      BY DEF Foretold
  <2>1. ~AffectsHashNamespace(Existing(t), f.row)
    BY DEF WillBump
  <2> QED
    BY <1>2, <2>1, PayloadOfForm DEF AffectsHashNamespace
<1> HIDE DEF m
<1>9. ProfileTypes'
  BY <1>1, <1>7 DEF ProfileInv, ProfileTypes
<1>10. m.phase = "post" /\ m.source # m.target /\ m.payload = Payload(f)
  BY <1>4 DEF m
<1>11. \A i \in Saves : save'[i] = IF i = j THEN m ELSE save[i]
  BY <1>1 DEF ProfileInv, ProfileTypes
<1>12. Moves'
  BY <1>10, <1>11 DEF ProfileInv, Moves
<1>13. Announcements'
  BY <1>6, <1>8, <1>10, <1>11 DEF ProfileInv, Announcements
<1>14. Doomed' \subseteq Doomed
  BY <1>10, <1>11 DEF Doomed
<1>15. SomeRowIsSafe'
  BY <1>1, <1>14 DEF ProfileInv, SomeRowIsSafe
<1> QED
  BY <1>1, <1>9, <1>12, <1>13, <1>15 DEF ProfileInv

\* A save that ends endangers nothing.
LEMMA EndIsSafe ==
    ASSUME ProfileInv, NEW j \in Saves, save' = [save EXCEPT ![j] = Ended]
    PROVE  /\ save' \in [Saves -> Mutations \cup {NotStarted, Ended}]
           /\ Moves' /\ Announcements' /\ Doomed' \subseteq Doomed
<1>1. \A i \in Saves : save'[i] = IF i = j THEN Ended ELSE save[i]
  BY DEF ProfileInv, ProfileTypes
<1>2. Ended.phase = "ended" /\ Ended \notin Mutations
  BY DEF Ended, Mutations
<1>3. Moves'
  BY <1>1, <1>2 DEF ProfileInv, Moves
<1>4. Announcements'
  BY <1>1, <1>2 DEF ProfileInv, Announcements
<1>5. Doomed' \subseteq Doomed
  BY <1>1, <1>2 DEF Doomed
<1> QED
  BY <1>3, <1>4, <1>5 DEF ProfileInv, ProfileTypes

\* A row that was just stored is safe, if no deletion is waiting for it.
LEMMA StoredIsSafe ==
    ASSUME ProfileInv, NEW j \in Saves, PostApplies(j), Doomed' \subseteq Doomed \cup {save[j].source},
           save[j] \in Mutations
    PROVE  SomeRowIsSafe' /\ rows' \in Rows /\ \A b \in Backends : AsSaved(rows'[b])
<1>1. PICK r \in Row : AsSaved(r) /\ rows' = [rows EXCEPT ![save[j].target] = r]
  BY Stores
<1>2. rows \in [Backends -> Row \cup {None}] /\ save[j].target \in Backends
  BY DEF ProfileInv, ProfileTypes, Rows, Mutations
<1>3. rows'[save[j].target] # None
  BY <1>1, <1>2, StartAssumption
<1>4. ~crossed' => save[j].target \notin Doomed'
  BY Stores DEF ProfileInv, Moves
<1>5. SomeRowIsSafe'
  BY <1>2, <1>3, <1>4 DEF SomeRowIsSafe
<1>6. \A b \in Backends : AsSaved(rows'[b])
  BY <1>1, <1>2 DEF ProfileInv
<1> QED
  BY <1>1, <1>2, <1>5, <1>6 DEF Rows

\* The sheet of a save is closed.
LEMMA FormClosed ==
    ASSUME ProfileInv, NEW t
    PROVE  [form EXCEPT ![t] = None] \in [Tabs -> Forms \cup {None}]
BY DEF ProfileInv, ProfileTypes

\* A save is answered.
LEMMA PostedKeeps ==
    ASSUME ProfileInv, NEW j \in Saves, Posted(j)
    PROVE  ProfileInv'
<1>1. PostApplies(j) /\ UNCHANGED list
  BY DEF Posted
<1>2. /\ save[j] \in Mutations /\ crossed' \in BOOLEAN
      /\ assets' \in [Backends -> Asset \cup {None}] /\ sidecar' \in Asset \cup {None}
  BY <1>1, Stores
<1>3. CASE save[j].source = None
  <2>1. save' = [save EXCEPT ![j] = Ended] /\ form' = [form EXCEPT ![save[j].tab] = None]
    BY <1>3 DEF Posted, Done
  <2>2. /\ save' \in [Saves -> Mutations \cup {NotStarted, Ended}]
        /\ Moves' /\ Announcements' /\ Doomed' \subseteq Doomed
    BY <2>1, EndIsSafe
  <2>3. SomeRowIsSafe' /\ rows' \in Rows /\ \A b \in Backends : AsSaved(rows'[b])
    BY <1>1, <1>2, <2>2, StoredIsSafe
  <2>4. form' \in [Tabs -> Forms \cup {None}]
    BY <2>1, FormClosed
  <2> QED
    BY <1>1, <1>2, <2>2, <2>3, <2>4 DEF ProfileInv, ProfileTypes
<1>4. CASE save[j].source # None
  <2> DEFINE m == [save[j] EXCEPT !.phase = "delete"]
  <2>1. save' = [save EXCEPT ![j] = m] /\ form' = form
    BY <1>4 DEF Posted
  <2>2. /\ m \in Mutations /\ m.phase = "delete" /\ m.source = save[j].source
        /\ m.target = save[j].target /\ m.payload = save[j].payload /\ m.upload = save[j].upload
        /\ m.existing = save[j].existing /\ m.announced = save[j].announced
    BY <1>2 DEF Mutations
  <2> HIDE DEF m
  <2>3. \A i \in Saves : save'[i] = IF i = j THEN m ELSE save[i]
    BY <2>1 DEF ProfileInv, ProfileTypes
  <2>4. save' \in [Saves -> Mutations \cup {NotStarted, Ended}]
    BY <2>1, <2>2 DEF ProfileInv, ProfileTypes
  <2>5. Moves'
    BY <1>2, <2>2, <2>3 DEF ProfileInv, Moves
  <2>6. Announcements'
    <3>1. Foretold(m) /\ AsSaved(m.payload)
      BY <1>2, <2>2 DEF ProfileInv, Announcements, Foretold
    <3> QED
      BY <2>3, <3>1 DEF ProfileInv, Announcements
  <2>7. Doomed' \subseteq Doomed \cup {save[j].source}
    BY <2>2, <2>3 DEF Doomed
  <2>8. SomeRowIsSafe' /\ rows' \in Rows /\ \A b \in Backends : AsSaved(rows'[b])
    BY <1>1, <1>2, <2>7, StoredIsSafe
  <2> QED
    BY <1>1, <1>2, <2>1, <2>4, <2>5, <2>6, <2>8 DEF ProfileInv, ProfileTypes
<1> QED
  BY <1>3, <1>4

\* A save is answered with an error, whatever of it was done.
LEMMA PostFailsKeeps ==
    ASSUME ProfileInv, NEW j \in Saves, PostFails(j)
    PROVE  ProfileInv'
<1>1. save' = [save EXCEPT ![j] = Ended] /\ form' = form /\ list' = list
  BY DEF PostFails, Fails
<1>2. /\ save' \in [Saves -> Mutations \cup {NotStarted, Ended}]
      /\ Moves' /\ Announcements' /\ Doomed' \subseteq Doomed
  BY <1>1, EndIsSafe
<1>3. save[j] \in Mutations
  BY UnderWayIsMutation DEF PostFails, ProfileInv
<1>4. CASE /\ UNCHANGED <<rows, crossed>>
           /\ assets' \in [Backends -> Asset \cup {None}] /\ sidecar' \in Asset \cup {None}
  <2>1. SomeRowIsSafe'
    BY <1>2, <1>4 DEF ProfileInv, SomeRowIsSafe
  <2> QED
    BY <1>1, <1>2, <1>4, <2>1 DEF ProfileInv, ProfileTypes
<1>5. CASE UNCHANGED <<rows, assets, sidecar, crossed>>
  BY <1>4, <1>5 DEF ProfileInv, ProfileTypes
<1>6. CASE Register(j) /\ UNCHANGED <<rows, assets, crossed>>
  BY <1>4, <1>6, RegistersAsset DEF ProfileInv, ProfileTypes
<1>7. CASE StoreAsset(j) /\ UNCHANGED <<rows, crossed>>
  <2>1. Register(j)
    BY <1>7 DEF StoreAsset
  <2> QED
    BY <1>4, <1>7, <2>1, StoresAsset, RegistersAsset
<1>8. CASE PostApplies(j)
  <2>1. SomeRowIsSafe' /\ rows' \in Rows /\ \A b \in Backends : AsSaved(rows'[b])
    BY <1>2, <1>3, <1>8, StoredIsSafe
  <2>2. assets' \in [Backends -> Asset \cup {None}] /\ sidecar' \in Asset \cup {None} /\ crossed' \in BOOLEAN
    BY <1>8, Stores
  <2> QED
    BY <1>1, <1>2, <2>1, <2>2 DEF ProfileInv, ProfileTypes
<1> QED
  BY <1>5, <1>6, <1>7, <1>8 DEF PostFails

\* The row of the source is deleted, or is not.
LEMMA DeletionKeeps ==
    ASSUME ProfileInv, NEW j \in Saves, Deleted(j) \/ DeleteFails(j)
    PROVE  ProfileInv'
<1>1. /\ save' = [save EXCEPT ![j] = Ended]
      /\ form' = form \/ form' = [form EXCEPT ![save[j].tab] = None]
      /\ UNCHANGED <<assets, sidecar, list, crossed>>
      /\ rows' = rows \/ rows' = [rows EXCEPT ![save[j].source] = None]
      /\ save[j].phase = "delete"
  BY DEF Deleted, DeleteFails, Done, Fails
<1>2. /\ save' \in [Saves -> Mutations \cup {NotStarted, Ended}]
      /\ Moves' /\ Announcements' /\ Doomed' \subseteq Doomed
  BY <1>1, EndIsSafe
<1>3. form' \in [Tabs -> Forms \cup {None}]
  BY <1>1, FormClosed DEF ProfileInv, ProfileTypes
<1>4. rows \in [Backends -> Row \cup {None}]
  BY DEF ProfileInv, ProfileTypes, Rows
<1>5. rows' \in Rows /\ \A b \in Backends : AsSaved(rows'[b])
  BY <1>1, <1>4 DEF ProfileInv, AsSaved, Rows
<1>6. SomeRowIsSafe'
  <2>1. \A b \in Backends \ Doomed : rows'[b] = rows[b]
    BY <1>1, <1>4 DEF Doomed
  <2> QED
    BY <1>1, <1>2, <2>1 DEF ProfileInv, SomeRowIsSafe
<1> QED
  BY <1>1, <1>2, <1>3, <1>5, <1>6 DEF ProfileInv, ProfileTypes

\* What the sidecar has loaded concerns no one else.
LEMMA SidecarKeeps ==
    ASSUME ProfileInv, SidecarNext
    PROVE  ProfileInv'
<1>1. UNCHANGED <<rows, assets, list, form, save, crossed>>
  BY DEF SidecarNext, SidecarRestarts, Request
<1>2. sidecar' \in Asset \cup {None}
  <2>1. CASE SidecarRestarts
    BY <2>1 DEF SidecarRestarts
  <2>2. ASSUME NEW b \in Backends, Request(b) PROVE sidecar' \in Asset \cup {None}
    <3>1. assets[b] \in Asset /\ sidecar \in Asset \cup {None}
      BY <2>2 DEF Request, ProfileInv, ProfileTypes
    <3>2. AssetOf(assets[b].template) \in Asset
      BY <3>1 DEF Asset, AssetOf
    <3> QED
      BY <2>2, <3>1, <3>2, Zenon DEF Request, Registered
  <2> QED
    BY <2>1, <2>2 DEF SidecarNext
<1>3. ProfileTypes'
  BY <1>1, <1>2 DEF ProfileInv, ProfileTypes
<1>4. (Moves /\ SomeRowIsSafe /\ Announcements)'
  BY <1>1 DEF ProfileInv, Moves, SomeRowIsSafe, Announcements, Doomed, Foretold
<1>5. \A b \in Backends : AsSaved(rows[b])'
  BY <1>1 DEF ProfileInv, AsSaved
<1> QED
  BY <1>3, <1>4, <1>5 DEF ProfileInv

\* Every step of the page, of the store, of the sidecar and of the network
\* keeps the invariant.
LEMMA ProfileKept == ASSUME ProfileInv, [Next]_vars PROVE ProfileInv'
<1>1. CASE \E t \in Tabs : FormNext(t)
  BY <1>1, FormsKeep, SaveKeeps
<1>2. CASE \E j \in Saves : SaveNext(j)
  BY <1>2, PostedKeeps, PostFailsKeeps, DeletionKeeps, Zenon DEF SaveNext
<1>3. CASE UNCHANGED vars
  BY <1>3, OnlyForms DEF vars, ProfileInv, ProfileTypes
<1>4. CASE SidecarNext
  BY <1>4, SidecarKeeps
<1> QED
  BY <1>1, <1>2, <1>3, <1>4 DEF Next

\* The page starts with what the backends have.
LEMMA ProfileStarts == Init => ProfileInv
<1> SUFFICES ASSUME Init PROVE ProfileInv
  OBVIOUS
<1>1. /\ rows \in [Backends -> Row \cup {None}] /\ \A b \in Backends : AsSaved(rows[b])
      /\ \E b \in Backends : rows[b] # None
  BY StartAssumption DEF Init, Rows
<1>2. assets \in [Backends -> Asset \cup {None}] /\ sidecar = None
  BY <1>1 DEF Init, Row, Asset, AssetOf
<1>3. \A j \in Saves : save[j].phase = "not started" /\ save[j] \notin Mutations
  BY DEF Init, NotStarted, Mutations
<1>4. SomeRowIsSafe
  BY <1>1, <1>3 DEF SomeRowIsSafe, Doomed
<1>5. ProfileTypes
  BY <1>1, <1>2 DEF Init, ProfileTypes, Rows
<1> QED
  BY <1>1, <1>3, <1>4, <1>5 DEF ProfileInv, Moves, Announcements

\* A profile survives: for any backends, tabs and saves, and any number of
\* edits and failures, the profile has a row on some backend, unless a save
\* wrote where another one was about to delete (profiles/page.tsx:313-320).
THEOREM ProfilesSurvive == ConsoleSpec => []ProfileSurvives
<1>1. ConsoleInit => ProfileInv
  BY ProfileStarts DEF ConsoleInit
<1>2. ProfileInv /\ [ConsoleNext]_consoleVars => ProfileInv'
  BY ProfileKept, ProfilesStep
<1>3. ProfileInv => ProfileSurvives
  BY DEF ProfileInv, SomeRowIsSafe, ProfileSurvives
<1> QED
  BY <1>1, <1>2, <1>3, PTL DEF ConsoleSpec

\* What NoSilentBump says of one save and one backend.
BumpAnnounced(j, b) ==
    /\ save[j].phase = "post" /\ save'[j] # save[j] /\ save[j].target = b
    /\ rows[b] # None /\ save[j].existing = rows[b]
    /\ save[j].source = None /\ save[j].upload = NoUpload
    /\ rows[b].mode = "local" => HashIsOwn(b)
    /\ save[j].payload.version <= rows[b].version
    /\ rows'[b].version > rows[b].version
    => save[j].announced

\* The step that stores what a save announced no new version for leaves the
\* version.
LEMMA StoreAnnounces ==
    ASSUME ProfileInv, NEW j \in Saves, NEW b \in Backends, PostApplies(j)
    PROVE  BumpAnnounced(j, b)
<1> SUFFICES ASSUME save[j].target = b, rows[b] # None, save[j].existing = rows[b],
                    save[j].source = None, save[j].upload = NoUpload,
                    rows[b].mode = "local" => HashIsOwn(b),
                    save[j].payload.version <= rows[b].version,
                    ~save[j].announced
             PROVE  ~(rows'[b].version > rows[b].version)
  BY DEF BumpAnnounced
<1> DEFINE p == save[j].payload
           q == IF p.mode = "local" THEN [p EXCEPT !.sha = sidecar'.template] ELSE p
<1>1. PICK r \in Row : rows' = [rows EXCEPT ![b] = r] /\ r = Upserted(rows[b], q)
  BY Stores
<1>2. save[j] \in Mutations /\ rows \in [Backends -> Row \cup {None}]
  BY Stores DEF ProfileInv, ProfileTypes, Rows
<1>3. p \in Row /\ rows[b] \in Row /\ AsSaved(p) /\ AsSaved(rows[b]) /\ Foretold(save[j])
  BY <1>2 DEF Mutations, ProfileInv, Announcements
<1>4. /\ p.mode = rows[b].mode /\ p.settings = rows[b].settings
      /\ p.mode = "remote" => p.endpoint = rows[b].endpoint
  BY <1>3 DEF Foretold
<1>5. p # None /\ p.mode \in {"remote", "local"}
  BY <1>3, StartAssumption DEF Row, Modes
<1>6. q \in Row /\ q.version = p.version /\ ~AffectsHashNamespace(rows[b], q)
  <2>1. CASE p.mode = "local"
    <3>1. sidecar'.template = rows[b].sha
      <4>1. TemplateFor(j) = rows[b].sha /\ HashIsOwn(b)
        BY <1>4, <2>1 DEF TemplateFor, HashIsOwn, NoUpload
      <4>2. sidecar' = Registered(rows[b].sha)
        BY <2>1, <4>1 DEF PostApplies, StoreAsset, Register
      <4> QED
        BY <4>1, <4>2 DEF HashIsOwn, Registered, AssetOf
    <3>2. rows[b].sha \in Templates \cup {None}
      BY <1>3 DEF Row
    <3>3. q = [p EXCEPT !.sha = sidecar'.template]
      BY <2>1
    <3> HIDE DEF q
    <3>4. /\ q \in Row /\ q.version = p.version /\ q.mode = p.mode /\ q.endpoint = p.endpoint
          /\ q.sha = rows[b].sha /\ q.settings = p.settings
      BY <1>3, <3>1, <3>2, <3>3, RowUpdated
    <3> QED
      BY <1>3, <1>4, <1>5, <2>1, <3>4 DEF AffectsHashNamespace, AsSaved
  <2>2. CASE p.mode = "remote"
    <3>1. q = p
      BY <2>2
    <3> HIDE DEF q
    <3> QED
      BY <1>3, <1>4, <1>5, <2>2, <3>1 DEF AffectsHashNamespace, AsSaved
  <2> QED
    BY <1>5, <2>1, <2>2
<1>7. r.version \in {rows[b].version, p.version}
  <2> HIDE DEF q
  <2> QED
    BY <1>1, <1>3, <1>6, UpsertedIsSaved
<1>8. rows'[b] = r /\ rows[b].version \in Nat /\ p.version \in Nat
  BY <1>1, <1>2, <1>3 DEF Row
<1> QED
  BY <1>7, <1>8

\* No step of the page stores a version that no form announced.
LEMMA StepAnnounces ==
    ASSUME ProfileInv, [Next]_vars, NEW j \in Saves, NEW b \in Backends
    PROVE  BumpAnnounced(j, b)
<1> SUFFICES ASSUME save[j].phase = "post", save'[j] # save[j], rows' # rows
             PROVE  PostApplies(j)
  <2>1. CASE PostApplies(j)
    BY <2>1, StoreAnnounces
  <2>2. CASE rows' = rows
    <3>1. rows[b] # None => rows[b].version \in Nat
      BY DEF ProfileInv, ProfileTypes, Rows, Row
    <3> QED
      BY <2>2, <3>1 DEF BumpAnnounced
  <2> QED
    BY <2>1, <2>2 DEF BumpAnnounced
<1>1. ASSUME NEW t \in Tabs, FormNext(t) PROVE rows' = rows
  BY <1>1 DEF FormNext, Poll, PollWithout, EditRow, NewProfile, Cancel, SelectTarget, EditSettings,
              EditMode, EditEndpoint, ChooseZip, ChooseTemplate, Edit, Save
<1>2. PICK i \in Saves : SaveNext(i)
  BY <1>1 DEF Next, vars, SidecarNext, SidecarRestarts, Request
<1>3. \E v : save' = [save EXCEPT ![i] = v]
  BY <1>2 DEF SaveNext, Posted, PostFails, Deleted, DeleteFails, Done, Fails
<1>4. i = j
  BY <1>3 DEF ProfileInv, ProfileTypes
<1>5. ~Deleted(i) /\ ~DeleteFails(i)
  BY <1>4 DEF Deleted, DeleteFails
<1> QED
  BY <1>2, <1>4, <1>5 DEF SaveNext, Posted, PostFails

\* No silent bump: for any backends, tabs, saves, settings and templates,
\* however often the form is edited, whatever fails, and whatever other
\* clusters' tokenizers the sidecar is given or forgets meanwhile, a save that
\* moves the row it was compared with to a new namespace had announced it; of a
\* local profile this says that its template is its own (profiles/page.tsx:330-341,
\* UpsertModelProfile, local_tokenizer.go:449-458, server.py:371-380).
THEOREM BumpsAreAnnounced == ConsoleSpec => NoSilentBump
<1>1. ConsoleInit => ProfileInv
  BY ProfileStarts DEF ConsoleInit
<1>2. ProfileInv /\ [ConsoleNext]_consoleVars => ProfileInv'
  BY ProfileKept, ProfilesStep
<1>3. ProfileInv /\ [ConsoleNext]_consoleVars =>
        [\A j \in Saves : \A b \in Backends :
          /\ save[j].phase = "post" /\ save'[j] # save[j] /\ save[j].target = b
          /\ rows[b] # None /\ save[j].existing = rows[b]
          /\ save[j].source = None /\ save[j].upload = NoUpload
          /\ rows[b].mode = "local" => HashIsOwn(b)
          /\ save[j].payload.version <= rows[b].version
          /\ rows'[b].version > rows[b].version
          => save[j].announced]_vars
  BY StepAnnounces, ProfilesStep DEF BumpAnnounced
<1> QED
  BY <1>1, <1>2, <1>3, PTL DEF ConsoleSpec, NoSilentBump

-----------------------------------------------------------------------------
(* The connections.  As long as no two requests overlap in the gateway,    *)
(* what the one that is under way read is still what is stored: a save has *)
(* the connection it merges with, and a write of the configuration the one *)
(* it adds to.  A virtual connection without configuration has a request   *)
(* that is about to write one.                                             *)

SaveButtons == {"save", "toggle"}

RequestsOf(k) ==
    IF k \in SaveButtons THEN Connections!Upserts
    ELSE IF k = "remove" THEN Connections!Removals ELSE Connections!ProfileWrites

Shown == [kind : {"backend", "virtual"}, url : Urls \cup {None}, name : Names \cup {None},
          enabled : BOOLEAN]

ConnectionTypes ==
    /\ cConn \in Connections!Connection \cup {None}
    /\ cConfig \in Connections!Config
    /\ cList \in [Tabs -> Shown \cup {None}]
    /\ cForm \in [Tabs -> Connections!Connection \cup {None}]
    /\ cCall = [t \in Tabs |-> [k \in Connections!Buttons |-> cCall[t][k]]]
    /\ \A t \in Tabs, k \in Connections!Buttons : cCall[t][k] \in RequestsOf(k) \cup {Idle}
    /\ cSaved \subseteq Profiles
    /\ cCrossed \in BOOLEAN /\ cFailed \in BOOLEAN

\* No other request than this one is under way.
Alone(t, k) ==
    \A u \in Tabs, l \in Connections!Buttons :
        <<u, l>> # <<t, k>> => ~Connections!UnderWay(u, l)

\* What a request knows is so.
UpToDate(t, k) ==
    LET request == cCall[t][k] IN
    Connections!UnderWay(t, k) =>
        /\ k \in SaveButtons /\ request.phase = "store" => request.existing = cConn
        /\ k \in SaveButtons /\ request.phase = "put" => request.config = cConfig
        /\ k = "profile" => request.config = cConfig /\ cConfig # None
        /\ k = "remove" => cConn = None /\ cSaved = {}

EnsuresConfig(t, k) ==
    /\ k \in SaveButtons /\ Connections!UnderWay(t, k)
    /\ cCall[t][k].phase \in {"ensure", "put"}

ConfigKept ==
    /\ cSaved \subseteq Connections!Ensured(cConfig)
    /\ cConn # None /\ cConn.kind = "virtual" /\ cConfig = None =>
          \E t \in Tabs, k \in Connections!Buttons : EnsuresConfig(t, k)

ConnectionsInv ==
    /\ ConnectionTypes
    /\ \A t \in Tabs, k \in Connections!Buttons :
          ~cCrossed /\ Connections!UnderWay(t, k) => Alone(t, k) /\ UpToDate(t, k)
    /\ ~cCrossed /\ ~cFailed => ConfigKept

\* What an edit makes of a form.
LEMMA DraftUpdated ==
    ASSUME NEW d \in Connections!Connection, NEW e \in BOOLEAN
    PROVE  /\ \A n \in Names \cup {None} : [d EXCEPT !.name = n, !.enabled = e] \in Connections!Connection
           /\ \A u \in Urls, k \in Tokens \cup {None} :
                 [d EXCEPT !.url = u, !.token = k, !.enabled = e] \in Connections!Connection
<1>1. ASSUME NEW n \in Names \cup {None}
      PROVE  [d EXCEPT !.name = n, !.enabled = e] \in Connections!Connection
  BY DEF Connections!Connection
<1>2. ASSUME NEW u \in Urls, NEW k \in Tokens \cup {None}
      PROVE  [d EXCEPT !.url = u, !.token = k, !.enabled = e] \in Connections!Connection
  BY DEF Connections!Connection
<1> QED
  BY <1>1, <1>2

\* One of the requests becomes r, the others stay as they are.
Becomes(t, k, r) ==
    /\ cCall' = [u \in Tabs |-> [l \in Connections!Buttons |-> cCall'[u][l]]]
    /\ cCall'[t][k] = r
    /\ \A u \in Tabs, l \in Connections!Buttons : <<u, l>> # <<t, k>> => cCall'[u][l] = cCall[u][l]
    /\ \A u \in Tabs, l \in Connections!Buttons : cCall'[u][l] \in RequestsOf(l) \cup {Idle}

\* A request that is sent or ended replaces the one of its button.
LEMMA RequestGoes ==
    ASSUME ConnectionTypes, NEW t \in Tabs, NEW k \in Connections!Buttons,
           NEW r \in RequestsOf(k) \cup {Idle}, cCall' = [cCall EXCEPT ![t][k] = r]
    PROVE  Becomes(t, k, r)
<1>1. cCall = [u \in Tabs |-> [l \in Connections!Buttons |-> cCall[u][l]]]
  BY DEF ConnectionTypes
<1>2. \A u \in Tabs, l \in Connections!Buttons :
         cCall'[u][l] = IF u = t /\ l = k THEN r ELSE cCall[u][l]
  BY <1>1
<1>3. cCall' = [u \in Tabs |-> [l \in Connections!Buttons |-> cCall'[u][l]]]
  BY <1>1
<1>4. \A u \in Tabs, l \in Connections!Buttons : cCall'[u][l] \in RequestsOf(l) \cup {Idle}
  BY <1>2 DEF ConnectionTypes
<1> QED
  BY <1>2, <1>3, <1>4 DEF Becomes

\* The pages and the network, which leave what the gateway stores: requests
\* come and go, but none of them is under way before or afterwards, or nothing
\* is promised any more.
LEMMA OutsideKeeps ==
    ASSUME ConnectionsInv, ConnectionTypes', UNCHANGED <<cConn, cConfig, cSaved, cCrossed>>,
           cFailed => cFailed',
           \A u \in Tabs, l \in Connections!Buttons :
               /\ Connections!UnderWay(u, l)' => Connections!UnderWay(u, l) /\ cCall'[u][l] = cCall[u][l]
               /\ Connections!UnderWay(u, l) /\ ~cFailed' => Connections!UnderWay(u, l)' /\ cCall'[u][l] = cCall[u][l]
    PROVE  ConnectionsInv'
<1>1. ASSUME NEW t \in Tabs, NEW k \in Connections!Buttons, ~cCrossed', Connections!UnderWay(t, k)'
      PROVE  Alone(t, k)' /\ UpToDate(t, k)'
  <2>1. Connections!UnderWay(t, k) /\ cCall'[t][k] = cCall[t][k]
    BY <1>1
  <2>2. Alone(t, k) /\ UpToDate(t, k)
    BY <1>1, <2>1 DEF ConnectionsInv
  <2>3. Alone(t, k)'
    BY <2>2 DEF Alone
  <2>4. UpToDate(t, k)'
    BY <2>1, <2>2 DEF UpToDate
  <2> QED
    BY <2>3, <2>4
<1>2. ASSUME ~cCrossed', ~cFailed' PROVE ConfigKept'
  <2>1. ConfigKept
    BY <1>2 DEF ConnectionsInv
  <2>2. \A t \in Tabs, k \in Connections!Buttons : EnsuresConfig(t, k) => EnsuresConfig(t, k)'
    BY <1>2 DEF EnsuresConfig
  <2> QED
    BY <2>1, <2>2 DEF ConfigKept, Connections!Ensured
<1> QED
  BY <1>1, <1>2 DEF ConnectionsInv

\* A request goes on in the gateway: alone, or it says that it was not.
LEMMA GatewayKeeps ==
    ASSUME ConnectionsInv, ConnectionTypes', NEW t \in Tabs, NEW k \in Connections!Buttons,
           \A u \in Tabs, l \in Connections!Buttons : <<u, l>> # <<t, k>> => cCall'[u][l] = cCall[u][l],
           ~cCrossed' => Alone(t, k) /\ UpToDate(t, k)',
           ~cCrossed' /\ ~cFailed' => ConfigKept'
    PROVE  ConnectionsInv'
<1>1. ASSUME NEW u \in Tabs, NEW l \in Connections!Buttons, ~cCrossed', Connections!UnderWay(u, l)'
      PROVE  Alone(u, l)' /\ UpToDate(u, l)'
  <2>1. \A v \in Tabs, m \in Connections!Buttons : <<v, m>> # <<t, k>> => ~Connections!UnderWay(v, m)'
    BY <1>1 DEF Alone, Connections!UnderWay
  <2>2. u = t /\ l = k
    BY <1>1, <2>1
  <2> QED
    BY <1>1, <2>1, <2>2 DEF Alone
<1> QED
  BY <1>1 DEF ConnectionsInv

\* The page changes its list or its form.
LEMMA SheetKeeps ==
    ASSUME ConnectionsInv, UNCHANGED <<cConn, cConfig, cCall, cSaved, cCrossed, cFailed>>,
           cList' \in [Tabs -> Shown \cup {None}],
           cForm' \in [Tabs -> Connections!Connection \cup {None}]
    PROVE  ConnectionsInv'
<1>1. ConnectionTypes'
  BY DEF ConnectionsInv, ConnectionTypes
<1>2. \A u \in Tabs, l \in Connections!Buttons :
         Connections!UnderWay(u, l)' <=> Connections!UnderWay(u, l)
  BY DEF Connections!UnderWay
<1> QED
  BY <1>1, <1>2, OutsideKeeps

\* The page shows another draft.
LEMMA DraftKeeps ==
    ASSUME ConnectionsInv, NEW t \in Tabs, NEW d \in Connections!Connection \cup {None},
           Connections!Sheet(t, d)
    PROVE  ConnectionsInv'
<1>1. cForm' \in [Tabs -> Connections!Connection \cup {None}] /\ cList' \in [Tabs -> Shown \cup {None}]
  BY DEF Connections!Sheet, ConnectionsInv, ConnectionTypes
<1> QED
  BY <1>1, SheetKeeps DEF Connections!Sheet

\* The page sends a request, which waits for the gateway.
LEMMA SendKeeps ==
    ASSUME ConnectionsInv, NEW t \in Tabs, NEW k \in Connections!Buttons, NEW r \in RequestsOf(k),
           r.phase \in Connections!Waiting, Connections!Send(t, k, r)
    PROVE  ConnectionsInv'
<1>1. /\ cCall[t][k] = Idle /\ cCall' = [cCall EXCEPT ![t][k] = r]
      /\ UNCHANGED <<cConn, cConfig, cList, cForm, cSaved, cCrossed, cFailed>>
  BY DEF Connections!Send
<1>2. Becomes(t, k, r)
  <2>1. r \in RequestsOf(k) \cup {Idle} /\ ConnectionTypes
    BY DEF ConnectionsInv
  <2> QED
    BY <1>1, <2>1, RequestGoes, Zenon
<1>3. ConnectionTypes'
  BY <1>1, <1>2 DEF ConnectionsInv, ConnectionTypes, Becomes
<1>4. \A u \in Tabs, l \in Connections!Buttons :
         /\ Connections!UnderWay(u, l)' <=> Connections!UnderWay(u, l)
         /\ Connections!UnderWay(u, l) => cCall'[u][l] = cCall[u][l]
  BY <1>1, <1>2 DEF Connections!UnderWay, Becomes
<1> QED
  BY <1>1, <1>3, <1>4, OutsideKeeps

\* What is sent for a form or a row.
LEMMA Sendable ==
    ASSUME NEW b \in Connections!Connection
    PROVE  Connections!Upsert(b) \in Connections!Upserts /\ Connections!Upsert(b).phase = "read"
<1>1. None \in Connections!Connection \cup {None} /\ None \in Connections!Config
  BY DEF Connections!Config
<1> QED
  BY <1>1 DEF Connections!Upsert, Connections!Upserts

\* Everything the pages do.
LEMMA PanelKeeps ==
    ASSUME ConnectionsInv, NEW t \in Tabs, Connections!PanelNext(t)
    PROVE  ConnectionsInv'
<1>1. /\ cConn \in Connections!Connection \cup {None}
      /\ cList \in [Tabs -> Shown \cup {None}] /\ cForm \in [Tabs -> Connections!Connection \cup {None}]
      /\ UNCHANGED <<cList, cForm>> => cList' \in [Tabs -> Shown \cup {None}]
  BY DEF ConnectionsInv, ConnectionTypes
<1>2. CASE Connections!Poll(t)
  <2>1. Connections!View(cConn) \in Shown \cup {None}
    BY <1>1 DEF Connections!View, Shown, Connections!Connection
  <2> QED
    BY <1>1, <1>2, <2>1, SheetKeeps DEF Connections!Poll
<1>3. ASSUME NEW kind \in {"backend", "virtual"}, NEW u \in Urls, Connections!OpenNew(t, kind, u)
      PROVE  ConnectionsInv'
  <2> DEFINE d == [kind |-> kind, url |-> u, name |-> None, token |-> None, enabled |-> TRUE]
  <2>1. d \in Connections!Connection
    BY DEF Connections!Connection
  <2>2. Connections!Sheet(t, d)
    BY <1>3 DEF Connections!OpenNew
  <2> HIDE DEF d
  <2> QED
    BY <2>1, <2>2, DraftKeeps
<1>4. CASE Connections!OpenEdit(t)
  <2> DEFINE d == [kind |-> cList[t].kind, url |-> cList[t].url, name |-> cList[t].name, token |-> None,
                   enabled |-> cList[t].enabled]
  <2>1. cList[t] \in Shown
    BY <1>1, <1>4 DEF Connections!OpenEdit
  <2>2. d \in Connections!Connection
    BY <2>1 DEF Shown, Connections!Connection
  <2>3. Connections!Sheet(t, d)
    BY <1>4 DEF Connections!OpenEdit
  <2> HIDE DEF d
  <2> QED
    BY <2>2, <2>3, DraftKeeps
<1>5. CASE Connections!EditDraft(t)
  <2>1. cForm[t] \in Connections!Connection
    BY <1>1, <1>5 DEF Connections!EditDraft
  <2>2. PICK u \in Urls, k \in Tokens \cup {None}, n \in Names \cup {None}, e \in BOOLEAN :
          Connections!Sheet(t, IF cForm[t].kind = "virtual" THEN [cForm[t] EXCEPT !.name = n, !.enabled = e]
                               ELSE [cForm[t] EXCEPT !.url = u, !.token = k, !.enabled = e])
    BY <1>5 DEF Connections!EditDraft
  <2>3. \E d \in Connections!Connection : Connections!Sheet(t, d)
    <3>1. /\ [cForm[t] EXCEPT !.name = n, !.enabled = e] \in Connections!Connection
          /\ [cForm[t] EXCEPT !.url = u, !.token = k, !.enabled = e] \in Connections!Connection
      BY <2>1, DraftUpdated
    <3>2. CASE cForm[t].kind = "virtual"
      BY <2>2, <3>1, <3>2
    <3>3. CASE cForm[t].kind # "virtual"
      BY <2>2, <3>1, <3>3
    <3> QED
      BY <3>2, <3>3
  <2> QED
    BY <2>3, DraftKeeps
<1>6. CASE Connections!Close(t)
  BY <1>6, DraftKeeps DEF Connections!Close
<1>7. CASE Connections!Submit(t)
  <2> DEFINE b == Connections!Body(cForm[t])
  <2>1. cForm[t] \in Connections!Connection
    BY <1>1, <1>7 DEF Connections!Submit
  <2>2. b \in Connections!Connection
    BY <2>1 DEF Connections!Body, Connections!Connection
  <2>3. Connections!Send(t, "save", Connections!Upsert(b))
    BY <1>7 DEF Connections!Submit
  <2> HIDE DEF b
  <2> QED
    BY <2>2, <2>3, Sendable, SendKeeps DEF RequestsOf, SaveButtons, Connections!Buttons,
       Connections!Waiting
<1>8. CASE Connections!Toggle(t)
  <2> DEFINE b == [kind |-> cList[t].kind, enabled |-> ~cList[t].enabled, name |-> cList[t].name,
                   url |-> IF cList[t].kind = "virtual" THEN None ELSE cList[t].url, token |-> None]
  <2>1. cList[t] \in Shown
    BY <1>1, <1>8 DEF Connections!Toggle
  <2>2. b \in Connections!Connection
    BY <2>1 DEF Shown, Connections!Connection
  <2>3. Connections!Send(t, "toggle", Connections!Upsert(b))
    BY <1>8 DEF Connections!Toggle
  <2> HIDE DEF b
  <2> QED
    BY <2>2, <2>3, Sendable, SendKeeps DEF RequestsOf, SaveButtons, Connections!Buttons,
       Connections!Waiting
<1>9. CASE Connections!Remove(t)
  <2>1. [phase |-> "delete"] \in RequestsOf("remove") /\ "remove" \in Connections!Buttons
        /\ "delete" \in Connections!Waiting
    BY DEF RequestsOf, SaveButtons, Connections!Removals, Connections!Buttons, Connections!Waiting
  <2> QED
    BY <1>9, <2>1, SendKeeps DEF Connections!Remove
<1>10. ASSUME NEW p \in Profiles, Connections!SaveProfile(t, p)
       PROVE  ConnectionsInv'
  <2> DEFINE r == [phase |-> "get", profile |-> p, config |-> None]
  <2>1. r \in RequestsOf("profile") /\ r.phase \in Connections!Waiting /\ "profile" \in Connections!Buttons
    <3>1. None \in Connections!Config
      BY DEF Connections!Config
    <3>2. r \in Connections!ProfileWrites
      BY <3>1 DEF Connections!ProfileWrites
    <3>3. r.phase = "get"
      OBVIOUS
    <3> HIDE DEF r
    <3> QED
      BY <3>2, <3>3 DEF RequestsOf, SaveButtons, Connections!Buttons, Connections!Waiting
  <2>2. Connections!Send(t, "profile", r)
    BY <1>10 DEF Connections!SaveProfile
  <2> HIDE DEF r
  <2> QED
    BY <2>1, <2>2, SendKeeps
<1> QED
  BY <1>2, <1>3, <1>4, <1>5, <1>6, <1>7, <1>8, <1>9, <1>10, Zenon DEF Connections!PanelNext

\* A request that begins is alone, or says so.
LEMMA BeginsAlone ==
    ASSUME cCrossed \in BOOLEAN, NEW t \in Tabs, NEW k \in Connections!Buttons, Connections!Begins(t, k)
    PROVE  /\ cCrossed' \in BOOLEAN
           /\ ~cCrossed' => ~cCrossed /\ Alone(t, k)
BY DEF Connections!Begins, Alone

\* The gateway reads the connection that a save is merged with.
LEMMA ReadKeeps ==
    ASSUME ConnectionsInv, NEW t \in Tabs, NEW k \in Connections!Buttons, Connections!ReadExisting(t, k)
    PROVE  ConnectionsInv'
<1>0. PICK r : r = [cCall[t][k] EXCEPT !.phase = "store", !.existing = cConn]
  OBVIOUS
<1>1. /\ k \in SaveButtons /\ cCall[t][k] # Idle /\ cCall' = [cCall EXCEPT ![t][k] = r]
      /\ cCall[t][k].phase = "read"
      /\ Connections!Begins(t, k) /\ UNCHANGED <<cConn, cConfig, cList, cForm, cSaved, cFailed>>
  BY <1>0 DEF Connections!ReadExisting, Connections!Goes, SaveButtons
<1>2. cCall[t][k] \in Connections!Upserts /\ cConn \in Connections!Connection \cup {None}
  BY <1>1 DEF ConnectionsInv, ConnectionTypes, RequestsOf
<1>3. r \in Connections!Upserts /\ r.phase = "store" /\ r.existing = cConn
  BY <1>0, <1>2 DEF Connections!Upserts
<1>4. r \in RequestsOf(k) \cup {Idle}
  BY <1>1, <1>3 DEF RequestsOf
<1>5. Becomes(t, k, r)
  <2>1. ConnectionTypes /\ cCall' = [cCall EXCEPT ![t][k] = r]
    BY <1>1 DEF ConnectionsInv
  <2> QED
    BY <1>4, <2>1, RequestGoes, Zenon
<1>6. cCrossed' \in BOOLEAN /\ (~cCrossed' => ~cCrossed /\ Alone(t, k))
  BY <1>1, BeginsAlone DEF ConnectionsInv, ConnectionTypes
<1>7. ConnectionTypes'
  BY <1>1, <1>5, <1>6 DEF ConnectionsInv, ConnectionTypes, Becomes
<1>8. UpToDate(t, k)'
  BY <1>1, <1>3, <1>5 DEF UpToDate, SaveButtons, Becomes
<1>9. ASSUME ~cCrossed', ~cFailed' PROVE ConfigKept'
  <2>1. ConfigKept /\ Alone(t, k)
    BY <1>1, <1>6, <1>9 DEF ConnectionsInv
  <2>2. ~EnsuresConfig(t, k)
    BY <1>1 DEF EnsuresConfig
  <2>3. \A u \in Tabs, l \in Connections!Buttons : ~EnsuresConfig(u, l)
    BY <2>1, <2>2 DEF Alone, EnsuresConfig
  <2> QED
    BY <1>1, <2>1, <2>3 DEF ConfigKept, Connections!Ensured
<1> QED
  BY <1>5, <1>6, <1>7, <1>8, <1>9, GatewayKeeps DEF Becomes
\* A request that is under way is alone and knows what is so, or it is told.
LEMMA UnderWayAlone ==
    ASSUME ConnectionsInv, NEW t \in Tabs, NEW k \in Connections!Buttons,
           Connections!UnderWay(t, k), UNCHANGED cCrossed, ~cCrossed'
    PROVE  Alone(t, k) /\ UpToDate(t, k)
BY DEF ConnectionsInv

\* The answer to a request, and what the page does with it.
LEMMA Answered ==
    ASSUME ConnectionsInv, NEW t \in Tabs, NEW k \in Connections!Buttons, Connections!Answers(t, k)
    PROVE  Becomes(t, k, Idle) /\ cForm' \in [Tabs -> Connections!Connection \cup {None}]
<1>1. ConnectionTypes /\ cCall' = [cCall EXCEPT ![t][k] = Idle] /\ Idle \in RequestsOf(k) \cup {Idle}
  BY DEF ConnectionsInv, Connections!Answers, Connections!Goes
<1>2. Becomes(t, k, Idle)
  BY <1>1, RequestGoes, Zenon
<1>3. cForm' \in [Tabs -> Connections!Connection \cup {None}]
  BY <1>1 DEF ConnectionTypes, Connections!Answers
<1> QED
  BY <1>2, <1>3

\* The connection that is stored is one.
LEMMA MergedIsConnection ==
    ASSUME NEW b \in Connections!Connection, NEW e \in Connections!Connection \cup {None}
    PROVE  Connections!Merged(b, e) \in Connections!Connection
<1>1. CASE e = None
  BY <1>1 DEF Connections!Merged, Connections!Or, Connections!Connection
<1>2. CASE e \in Connections!Connection
  <2>1. e # None
    BY <1>2, ConnectionsAssumption
  <2> QED
    BY <1>2, <2>1 DEF Connections!Merged, Connections!Or, Connections!Connection
<1> QED
  BY <1>1, <1>2

\* The gateway stores the connection, with a configuration to come if it is
\* virtual.
LEMMA StoreKeeps ==
    ASSUME ConnectionsInv, NEW t \in Tabs, NEW k \in Connections!Buttons, Connections!StoreConnection(t, k)
    PROVE  ConnectionsInv'
<1>1. PICK c : c = Connections!Merged(cCall[t][k].body, cCall[t][k].existing)
  OBVIOUS
<1>2. /\ k \in SaveButtons /\ cCall[t][k] # Idle /\ Connections!UnderWay(t, k) /\ cConn' = c
      /\ UNCHANGED <<cConfig, cList, cSaved, cCrossed, cFailed>>
  BY <1>1 DEF Connections!StoreConnection, Connections!UnderWay, SaveButtons
<1>3. cCall[t][k] \in Connections!Upserts
  BY <1>2 DEF ConnectionsInv, ConnectionTypes, RequestsOf
<1>4. c \in Connections!Connection
  <2>1. cCall[t][k].body \in Connections!Connection /\ cCall[t][k].existing \in Connections!Connection \cup {None}
    BY <1>3 DEF Connections!Upserts
  <2> QED
    BY <1>1, <2>1, MergedIsConnection
<1>5. ~cCrossed' => Alone(t, k)
  BY <1>2, UnderWayAlone
<1>6. ASSUME ~cCrossed', ~cFailed' PROVE cSaved' \subseteq Connections!Ensured(cConfig)'
  BY <1>2, <1>6 DEF ConnectionsInv, ConfigKept, Connections!Ensured
<1>7. CASE c.kind = "virtual"
  <2>1. PICK r : r = [cCall[t][k] EXCEPT !.phase = "ensure"]
    OBVIOUS
  <2>2. r \in Connections!Upserts /\ r.phase = "ensure"
    BY <1>3, <2>1 DEF Connections!Upserts
  <2>3. r \in RequestsOf(k) \cup {Idle} /\ ConnectionTypes
    BY <1>2, <2>2 DEF RequestsOf, ConnectionsInv
  <2>4. cCall' = [cCall EXCEPT ![t][k] = r] /\ cForm' = cForm
    BY <1>1, <1>7, <2>1 DEF Connections!StoreConnection, Connections!Goes
  <2>5. Becomes(t, k, r)
    BY <2>3, <2>4, RequestGoes, Zenon
  <2>6. ConnectionTypes'
    BY <1>2, <1>4, <2>4, <2>5 DEF ConnectionsInv, ConnectionTypes, Becomes
  <2>7. UpToDate(t, k)'
    BY <1>2, <2>2, <2>5 DEF UpToDate, Becomes, SaveButtons
  <2>8. EnsuresConfig(t, k)'
    <3>1. r # Idle
      BY <2>2, ConnectionsAssumption
    <3> QED
      BY <1>2, <2>2, <2>5, <3>1 DEF EnsuresConfig, Becomes, Connections!UnderWay, Connections!Waiting
  <2> QED
    BY <1>5, <1>6, <2>5, <2>6, <2>7, <2>8, GatewayKeeps DEF Becomes, ConfigKept
<1>8. CASE c.kind # "virtual"
  <2>1. Becomes(t, k, Idle) /\ cForm' \in [Tabs -> Connections!Connection \cup {None}]
    <3>1. Connections!Answers(t, k)
      BY <1>1, <1>8 DEF Connections!StoreConnection
    <3> QED
      BY <3>1, Answered
  <2>2. ConnectionTypes'
    BY <1>2, <1>4, <2>1 DEF ConnectionsInv, ConnectionTypes, Becomes
  <2>3. UpToDate(t, k)'
    BY <2>1 DEF UpToDate, Becomes, Connections!UnderWay
  <2> QED
    BY <1>2, <1>5, <1>6, <1>8, <2>1, <2>2, <2>3, GatewayKeeps DEF Becomes, ConfigKept
<1> QED
  BY <1>7, <1>8

\* The gateway reads the configuration that it is about to write back.
LEMMA EnsureReadsKeeps ==
    ASSUME ConnectionsInv, NEW t \in Tabs, NEW k \in Connections!Buttons, Connections!EnsureReads(t, k)
    PROVE  ConnectionsInv'
<1>0. PICK r : r = [cCall[t][k] EXCEPT !.phase = "put", !.config = cConfig]
  OBVIOUS
<1>1. /\ k \in SaveButtons /\ cCall[t][k] # Idle /\ Connections!UnderWay(t, k)
      /\ cCall' = [cCall EXCEPT ![t][k] = r]
      /\ UNCHANGED <<cConn, cConfig, cList, cForm, cSaved, cCrossed, cFailed>>
  BY <1>0 DEF Connections!EnsureReads, Connections!Goes, Connections!UnderWay, SaveButtons
<1>2. cCall[t][k] \in Connections!Upserts /\ cConfig \in Connections!Config
  BY <1>1 DEF ConnectionsInv, ConnectionTypes, RequestsOf
<1>3. r \in Connections!Upserts /\ r.phase = "put" /\ r.config = cConfig
  BY <1>0, <1>2 DEF Connections!Upserts
<1>4. r \in RequestsOf(k) \cup {Idle} /\ ConnectionTypes
  BY <1>1, <1>3 DEF RequestsOf, ConnectionsInv
<1>5. Becomes(t, k, r)
  BY <1>1, <1>4, RequestGoes, Zenon
<1>6. ConnectionTypes'
  BY <1>1, <1>5 DEF ConnectionsInv, ConnectionTypes, Becomes
<1>7. ~cCrossed' => Alone(t, k)
  BY <1>1, UnderWayAlone
<1>8. UpToDate(t, k)'
  BY <1>1, <1>3, <1>5 DEF UpToDate, Becomes, SaveButtons
<1>9. EnsuresConfig(t, k)'
  <2>1. r # Idle
    BY <1>3, ConnectionsAssumption
  <2> QED
    BY <1>1, <1>3, <1>5, <2>1 DEF EnsuresConfig, Becomes, Connections!UnderWay, Connections!Waiting
<1>10. ~cCrossed' /\ ~cFailed' => ConfigKept'
  BY <1>1, <1>9 DEF ConnectionsInv, ConfigKept, Connections!Ensured
<1> QED
  BY <1>5, <1>6, <1>7, <1>8, <1>10, GatewayKeeps DEF Becomes

\* The gateway writes back the configuration it read.
LEMMA EnsurePutsKeeps ==
    ASSUME ConnectionsInv, NEW t \in Tabs, NEW k \in Connections!Buttons, Connections!EnsurePuts(t, k)
    PROVE  ConnectionsInv'
<1>1. /\ k \in SaveButtons /\ cCall[t][k] # Idle /\ Connections!UnderWay(t, k) /\ cCall[t][k].phase = "put"
      /\ cConfig' = Connections!Ensured(cCall[t][k].config) /\ Connections!Answers(t, k)
      /\ UNCHANGED <<cConn, cList, cSaved, cCrossed, cFailed>>
  BY DEF Connections!EnsurePuts, Connections!UnderWay, SaveButtons
<1>2. cCall[t][k] \in Connections!Upserts
  BY <1>1 DEF ConnectionsInv, ConnectionTypes, RequestsOf
<1>3. cConfig' \in SUBSET Profiles
  BY <1>1, <1>2 DEF Connections!Upserts, Connections!Ensured, Connections!Config
<1>4. Becomes(t, k, Idle) /\ cForm' \in [Tabs -> Connections!Connection \cup {None}]
  BY <1>1, Answered
<1>5. ConnectionTypes'
  BY <1>1, <1>3, <1>4 DEF ConnectionsInv, ConnectionTypes, Becomes, Connections!Config
<1>6. ~cCrossed' => Alone(t, k) /\ UpToDate(t, k)
  BY <1>1, UnderWayAlone
<1>7. UpToDate(t, k)'
  BY <1>4 DEF UpToDate, Becomes, Connections!UnderWay
<1>8. ASSUME ~cCrossed', ~cFailed' PROVE ConfigKept'
  <2>1. cCall[t][k].config = cConfig
    BY <1>1, <1>6, <1>8 DEF UpToDate
  <2>2. cConfig' = Connections!Ensured(cConfig) /\ cConfig' # None
    BY <1>1, <1>3, <2>1, ConnectionsAssumption
  <2>3. cSaved \subseteq Connections!Ensured(cConfig)
    BY <1>1, <1>8 DEF ConnectionsInv, ConfigKept
  <2> QED
    BY <1>1, <2>2, <2>3 DEF ConfigKept, Connections!Ensured
<1> QED
  BY <1>4, <1>5, <1>6, <1>7, <1>8, GatewayKeeps DEF Becomes

\* The connection is removed, and then its configuration.
LEMMA DeleteConnectionKeeps ==
    ASSUME ConnectionsInv, NEW t \in Tabs, Connections!DeleteConnection(t)
    PROVE  ConnectionsInv'
<1>1. /\ cConn' = None /\ cSaved' = {} /\ cCall' = [cCall EXCEPT ![t]["remove"] = [phase |-> "config"]]
      /\ Connections!Begins(t, "remove") /\ UNCHANGED <<cConfig, cList, cForm, cFailed>>
      /\ "remove" \in Connections!Buttons
  BY DEF Connections!DeleteConnection, Connections!Goes, Connections!Buttons
<1>2. [phase |-> "config"] \in RequestsOf("remove") \cup {Idle} /\ ConnectionTypes
  BY DEF RequestsOf, SaveButtons, Connections!Removals, ConnectionsInv
<1>3. Becomes(t, "remove", [phase |-> "config"])
  BY <1>1, <1>2, RequestGoes, Zenon
<1>4. cCrossed' \in BOOLEAN /\ (~cCrossed' => ~cCrossed /\ Alone(t, "remove"))
  BY <1>1, <1>2, BeginsAlone DEF ConnectionTypes
<1>5. ConnectionTypes'
  BY <1>1, <1>2, <1>3, <1>4 DEF ConnectionTypes, Becomes
<1>6. UpToDate(t, "remove")'
  BY <1>1 DEF UpToDate, SaveButtons
<1>7. ConfigKept'
  BY <1>1 DEF ConfigKept
<1> QED
  BY <1>1, <1>3, <1>4, <1>5, <1>6, <1>7, GatewayKeeps DEF Becomes

\* The configuration goes with its connection.
LEMMA DeleteConfigKeeps ==
    ASSUME ConnectionsInv, NEW t \in Tabs, Connections!DeleteConfig(t)
    PROVE  ConnectionsInv'
<1>1. /\ Connections!UnderWay(t, "remove") /\ cConfig' = None /\ Connections!Answers(t, "remove")
      /\ UNCHANGED <<cConn, cList, cSaved, cCrossed, cFailed>> /\ "remove" \in Connections!Buttons
  BY DEF Connections!DeleteConfig, Connections!Buttons
<1>2. Becomes(t, "remove", Idle) /\ cForm' \in [Tabs -> Connections!Connection \cup {None}]
  BY <1>1, Answered
<1>3. ConnectionTypes'
  BY <1>1, <1>2 DEF ConnectionsInv, ConnectionTypes, Becomes, Connections!Config
<1>4. ~cCrossed' => Alone(t, "remove") /\ UpToDate(t, "remove")
  BY <1>1, UnderWayAlone
<1>5. UpToDate(t, "remove")'
  BY <1>2 DEF UpToDate, Becomes, Connections!UnderWay
<1>6. ASSUME ~cCrossed', ~cFailed' PROVE ConfigKept'
  <2>1. cConn = None /\ cSaved = {}
    BY <1>1, <1>4, <1>6 DEF UpToDate
  <2> QED
    BY <1>1, <2>1 DEF ConfigKept
<1> QED
  BY <1>1, <1>2, <1>3, <1>4, <1>5, <1>6, GatewayKeeps DEF Becomes

\* A write of the configuration reads it first.
LEMMA GetConfigKeeps ==
    ASSUME ConnectionsInv, NEW t \in Tabs, Connections!GetConfig(t)
    PROVE  ConnectionsInv'
<1>0. PICK r : r = [cCall[t]["profile"] EXCEPT !.phase = "put", !.config = cConfig]
  OBVIOUS
<1>1. /\ cCall[t]["profile"] # Idle /\ cConfig # None /\ cCall' = [cCall EXCEPT ![t]["profile"] = r]
      /\ Connections!Begins(t, "profile") /\ "profile" \in Connections!Buttons
      /\ UNCHANGED <<cConn, cConfig, cList, cForm, cSaved, cFailed>>
  BY <1>0 DEF Connections!GetConfig, Connections!Goes, Connections!Buttons
<1>2. cCall[t]["profile"] \in Connections!ProfileWrites /\ cConfig \in SUBSET Profiles
  BY <1>1 DEF ConnectionsInv, ConnectionTypes, RequestsOf, SaveButtons, Connections!Config
<1>3. r \in Connections!ProfileWrites /\ r.phase = "put" /\ r.config = cConfig
  BY <1>0, <1>2 DEF Connections!ProfileWrites
<1>4. r \in RequestsOf("profile") \cup {Idle} /\ ConnectionTypes
  BY <1>3 DEF RequestsOf, SaveButtons, ConnectionsInv
<1>5. Becomes(t, "profile", r)
  BY <1>1, <1>4, RequestGoes, Zenon
<1>6. cCrossed' \in BOOLEAN /\ (~cCrossed' => ~cCrossed /\ Alone(t, "profile"))
  BY <1>1, <1>4, BeginsAlone DEF ConnectionTypes
<1>7. ConnectionTypes'
  BY <1>1, <1>4, <1>5, <1>6 DEF ConnectionTypes, Becomes
<1>8. UpToDate(t, "profile")'
  BY <1>1, <1>3, <1>5 DEF UpToDate, Becomes, SaveButtons
<1>9. ~cCrossed' /\ ~cFailed' => ConfigKept'
  BY <1>1, <1>6 DEF ConnectionsInv, ConfigKept, Connections!Ensured
<1> QED
  BY <1>1, <1>5, <1>6, <1>7, <1>8, <1>9, GatewayKeeps DEF Becomes

\* It writes it back with a profile more.
LEMMA PutConfigKeeps ==
    ASSUME ConnectionsInv, NEW t \in Tabs, Connections!PutConfig(t)
    PROVE  ConnectionsInv'
<1>0. PICK r : r = cCall[t]["profile"]
  OBVIOUS
<1>1. /\ Connections!UnderWay(t, "profile") /\ r # Idle /\ r.phase \notin Connections!Waiting
      /\ cConfig' = r.config \cup {r.profile} /\ cSaved' = cSaved \cup {r.profile}
      /\ Connections!Answers(t, "profile") /\ "profile" \in Connections!Buttons
      /\ UNCHANGED <<cConn, cList, cCrossed, cFailed>>
  BY <1>0 DEF Connections!PutConfig, Connections!Buttons, Connections!UnderWay
<1>2. r \in Connections!ProfileWrites
  BY <1>0, <1>1 DEF ConnectionsInv, ConnectionTypes, RequestsOf, SaveButtons
<1>3. r.profile \in Profiles /\ r.config \in SUBSET Profiles
  BY <1>1, <1>2 DEF Connections!ProfileWrites, Connections!Waiting
<1>4. Becomes(t, "profile", Idle) /\ cForm' \in [Tabs -> Connections!Connection \cup {None}]
  BY <1>1, Answered
<1>5. cConfig' \in SUBSET Profiles /\ cConfig' # None
  BY <1>1, <1>3, ConnectionsAssumption
<1>6. ConnectionTypes'
  BY <1>1, <1>3, <1>4, <1>5 DEF ConnectionsInv, ConnectionTypes, Becomes, Connections!Config
<1>7. ~cCrossed' => Alone(t, "profile") /\ UpToDate(t, "profile")
  BY <1>1, UnderWayAlone
<1>8. UpToDate(t, "profile")'
  BY <1>4 DEF UpToDate, Becomes, Connections!UnderWay
<1>9. ASSUME ~cCrossed', ~cFailed' PROVE ConfigKept'
  <2>1. r.config = cConfig /\ cConfig # None
    BY <1>0, <1>1, <1>7, <1>9 DEF UpToDate
  <2>2. cSaved \subseteq cConfig
    BY <1>1, <1>9, <2>1 DEF ConnectionsInv, ConfigKept, Connections!Ensured
  <2> QED
    BY <1>1, <1>5, <2>1, <2>2 DEF ConfigKept, Connections!Ensured
<1> QED
  BY <1>1, <1>4, <1>6, <1>7, <1>8, <1>9, GatewayKeeps DEF Becomes

\* A request fails.
LEMMA FailsKeeps ==
    ASSUME ConnectionsInv, NEW t \in Tabs, NEW k \in Connections!Buttons, Connections!Fails(t, k)
    PROVE  ConnectionsInv'
<1>1. /\ cCall' = [cCall EXCEPT ![t][k] = Idle] /\ Idle \in RequestsOf(k) \cup {Idle} /\ ConnectionTypes
      /\ cFailed' = (cFailed \/ Connections!UnderWay(t, k))
      /\ UNCHANGED <<cConn, cConfig, cList, cForm, cSaved, cCrossed>>
  BY DEF Connections!Fails, Connections!Goes, ConnectionsInv
<1>2. Becomes(t, k, Idle)
  BY <1>1, RequestGoes, Zenon
<1>3. cFailed' \in BOOLEAN /\ (cFailed => cFailed') /\ (Connections!UnderWay(t, k) => cFailed')
  BY <1>1 DEF ConnectionTypes
<1>4. ConnectionTypes'
  BY <1>1, <1>2, <1>3 DEF ConnectionTypes, Becomes
<1>5. \A u \in Tabs, l \in Connections!Buttons :
         /\ Connections!UnderWay(u, l)' => Connections!UnderWay(u, l) /\ cCall'[u][l] = cCall[u][l]
         /\ Connections!UnderWay(u, l) /\ ~cFailed' =>
               Connections!UnderWay(u, l)' /\ cCall'[u][l] = cCall[u][l]
  BY <1>2, <1>3 DEF Connections!UnderWay, Becomes
<1> QED
  BY <1>1, <1>3, <1>4, <1>5, OutsideKeeps

\* Every step of the connections keeps the invariant.
LEMMA ConnectionsKept ==
    ASSUME ConnectionsInv, [Connections!Next]_connectionsVars PROVE ConnectionsInv'
<1>1. CASE UNCHANGED connectionsVars
  <2>1. /\ UNCHANGED <<cConn, cConfig, cCall, cSaved, cCrossed, cFailed, cList, cForm>>
        /\ cList \in [Tabs -> Shown \cup {None}] /\ cForm \in [Tabs -> Connections!Connection \cup {None}]
    BY <1>1 DEF connectionsVars, ConnectionsInv, ConnectionTypes
  <2> QED
    BY <2>1, SheetKeeps
<1>2. ASSUME NEW t \in Tabs, Connections!GatewayNext(t) PROVE ConnectionsInv'
  BY <1>2, ReadKeeps, StoreKeeps, EnsureReadsKeeps, EnsurePutsKeeps, DeleteConnectionKeeps,
     DeleteConfigKeeps,
     GetConfigKeeps, PutConfigKeeps, FailsKeeps, Zenon DEF Connections!GatewayNext
<1> QED
  BY <1>1, <1>2, PanelKeeps, Zenon DEF Connections!Next

\* The connections start without requests.
LEMMA ConnectionsStart == Connections!Init => ConnectionsInv
<1> SUFFICES ASSUME Connections!Init PROVE ConnectionsInv
  OBVIOUS
<1>1. cConn \in Connections!Connection \cup {None}
  BY DEF Connections!Init, Connections!Connection
<1>2. cConfig \in Connections!Config
  BY DEF Connections!Init, Connections!Config
<1>3. Connections!View(cConn) \in Shown \cup {None}
  BY <1>1 DEF Connections!View, Shown, Connections!Connection
<1>4. \A t \in Tabs, k \in Connections!Buttons : cCall[t][k] = Idle
  BY DEF Connections!Init
<1>5. cCall = [t \in Tabs |-> [k \in Connections!Buttons |-> cCall[t][k]]]
  BY DEF Connections!Init
<1>6. ConnectionTypes
  BY <1>1, <1>2, <1>3, <1>4, <1>5 DEF Connections!Init, ConnectionTypes
<1>7. ConfigKept
  <2>1. \A s \in SUBSET Profiles : s # None
    BY ConnectionsAssumption
  <2>2. cConn # None /\ cConn.kind = "virtual" => cConfig # None
    BY <2>1 DEF Connections!Init
  <2> QED
    BY <2>2 DEF Connections!Init, ConfigKept
<1> QED
  BY <1>4, <1>6, <1>7 DEF ConnectionsInv, Connections!UnderWay

\* A virtual connection has a configuration, with every profile that was saved
\* on it, once the gateway is done with what it was asked: for any connections
\* and profiles, any number of tabs, and any edits, switches, removals and
\* writes, as long as no two requests overlap and none fails between its steps
\* (store.go:255-277, 345-352; engines/page.tsx).
THEOREM ProfilesStayWithConnection == ConsoleSpec => []ConfigSurvives
<1>1. ConsoleInit => ConnectionsInv
  BY ConnectionsStart DEF ConsoleInit
<1>2. ConnectionsInv /\ [ConsoleNext]_consoleVars => ConnectionsInv'
  BY ConnectionsKept, ConnectionsStep
<1>3. ConnectionsInv => ConfigSurvives
  <2> SUFFICES ASSUME ConnectionsInv, cConn # None, cConn.kind = "virtual", ~cCrossed, ~cFailed,
                      \A t \in Tabs, k \in Connections!Buttons : ~Connections!UnderWay(t, k)
               PROVE  cConfig # None /\ cSaved \subseteq cConfig
    BY DEF ConfigSurvives, Connections!ConfigSurvives
  <2>1. ConfigKept
    BY DEF ConnectionsInv
  <2>2. cConfig # None
    BY <2>1 DEF ConfigKept, EnsuresConfig
  <2> QED
    BY <2>1, <2>2 DEF ConfigKept, Connections!Ensured
<1> QED
  BY <1>1, <1>2, <1>3, PTL DEF ConsoleSpec

\* The token of what is stored, or why it is another one.
TokenKept ==
    \/ cConn = None \/ cConn' = None \/ cConn'.token = cConn.token \/ cConn'.kind = "virtual" \/ cCrossed
    \/ \E t \in Tabs, k \in Connections!Buttons :
          /\ Connections!UnderWay(t, k) /\ cCall'[t][k] # cCall[t][k] /\ cCall[t][k].phase = "store"
          /\ cCall[t][k].body.token = cConn'.token /\ cConn'.token \in Tokens

\* A connection is stored with the token that TokenKept asks for.
LEMMA StoreKeepsToken ==
    ASSUME ConnectionsInv, NEW t \in Tabs, NEW k \in Connections!Buttons, Connections!StoreConnection(t, k)
    PROVE  TokenKept
<1> SUFFICES ASSUME cConn # None, cConn'.kind # "virtual", ~cCrossed, cConn'.token # cConn.token
             PROVE  TokenKept
  BY DEF TokenKept
<1>0. PICK r : r = cCall[t][k]
  OBVIOUS
<1>1. /\ k \in SaveButtons /\ r # Idle /\ Connections!UnderWay(t, k) /\ r.phase = "store"
      /\ cConn' = Connections!Merged(r.body, r.existing)
      /\ UNCHANGED cCrossed
  BY <1>0 DEF Connections!StoreConnection, Connections!UnderWay, SaveButtons
<1>2. Connections!Answers(t, k)
  BY <1>0, <1>1 DEF Connections!StoreConnection
<1>3. r.existing = cConn
  BY <1>0, <1>1, UnderWayAlone DEF UpToDate
<1>4. r.body \in Connections!Connection
  BY <1>0, <1>1 DEF ConnectionsInv, ConnectionTypes, RequestsOf, Connections!Upserts
<1>5. r.body.token # None /\ cConn'.token = r.body.token
  BY <1>1, <1>3 DEF Connections!Merged, Connections!Or
<1>6. cConn'.token \in Tokens
  BY <1>4, <1>5 DEF Connections!Connection
<1>7. cCall'[t][k] = Idle
  BY <1>2, Answered DEF Becomes
<1> QED
  BY <1>0, <1>1, <1>5, <1>6, <1>7 DEF TokenKept

\* Nothing else brings another token.
LEMMA StepKeepsToken ==
    ASSUME ConnectionsInv, [Connections!Next]_connectionsVars PROVE TokenKept
<1>1. CASE UNCHANGED cConn
  BY <1>1 DEF TokenKept
<1>2. CASE cConn' = None
  BY <1>2 DEF TokenKept
<1>3. ASSUME NEW t \in Tabs, Connections!PanelNext(t) PROVE UNCHANGED cConn
  BY <1>3 DEF Connections!PanelNext, Connections!Poll, Connections!OpenNew, Connections!OpenEdit,
              Connections!EditDraft, Connections!Close, Connections!Submit, Connections!Toggle,
              Connections!Remove, Connections!SaveProfile, Connections!Sheet, Connections!Send
<1>4. ASSUME NEW t \in Tabs, Connections!GatewayNext(t) PROVE TokenKept
  <2>1. ASSUME NEW k \in Connections!Buttons,
               \/ Connections!ReadExisting(t, k) \/ Connections!EnsureReads(t, k)
               \/ Connections!EnsurePuts(t, k) \/ Connections!Fails(t, k)
        PROVE  UNCHANGED cConn
    BY <2>1 DEF Connections!ReadExisting, Connections!EnsureReads, Connections!EnsurePuts,
       Connections!Fails
  <2>2. CASE Connections!DeleteConnection(t)
    BY <2>2, <1>2 DEF Connections!DeleteConnection
  <2>3. ASSUME Connections!DeleteConfig(t) \/ Connections!GetConfig(t) \/ Connections!PutConfig(t)
        PROVE  UNCHANGED cConn
    BY <2>3 DEF Connections!DeleteConfig, Connections!GetConfig, Connections!PutConfig
  <2> QED
    BY <1>1, <1>4, <2>1, <2>2, <2>3, StoreKeepsToken, Zenon DEF Connections!GatewayNext
<1>5. CASE UNCHANGED connectionsVars
  BY <1>1, <1>5 DEF connectionsVars
<1> QED
  BY <1>1, <1>3, <1>4, <1>5, Zenon DEF Connections!Next

\* The token of a connection is another one only if one was entered, or if the
\* id was given to a virtual connection, or requests overlapped: for any
\* connections and tokens, and any number of tabs and changes by pages that
\* never know the token (gateway.go:1068-1075 and 1107-1112).
THEOREM TokensOutlivePages == ConsoleSpec => TokenSurvives
<1>1. ConsoleInit => ConnectionsInv
  BY ConnectionsStart DEF ConsoleInit
<1>2. ConnectionsInv /\ [ConsoleNext]_consoleVars => ConnectionsInv'
  BY ConnectionsKept, ConnectionsStep
<1>3. ConnectionsInv /\ [ConsoleNext]_consoleVars => [TokenKept]_connectionsVars
  BY StepKeepsToken, ConnectionsStep
<1> QED
  BY <1>1, <1>2, <1>3, PTL DEF ConsoleSpec, TokenSurvives, Connections!TokenSurvives, TokenKept,
                               connectionsVars, Connections!vars

-----------------------------------------------------------------------------
(* The engines.  Whatever the queries answer while the form is open, it    *)
(* settles on a target with a cluster of its own, if it knows one; and     *)
(* what the page knows of an indexer's clusters stays true, since none is  *)
(* removed.  A registration goes to the target that it names, or to the    *)
(* only indexer there is.                                                  *)

Knowledge == [clusters : [Backends -> SUBSET ClusterIds], connections : SUBSET Backends,
              registry : BOOLEAN, infos : SUBSET Backends, multi : BOOLEAN]

RegisterForms == [target : Backends \cup {None}, cluster : ClusterIds \cup {None}]

Registrations == [id : Ids, backend : Backends \cup {None}, cluster : ClusterIds, blind : BOOLEAN]

EngineTypes ==
    /\ rGateway \in BOOLEAN
    /\ rEnabled \subseteq Backends
    /\ rClusters \in [Backends -> SUBSET ClusterIds]
    /\ rEngines \in [Backends -> [Ids -> [cluster : ClusterIds, blind : BOOLEAN] \cup {None}]]
    /\ rSeen \in Knowledge
    /\ rForm \in RegisterForms \cup {None}
    /\ rRequest \in Registrations \cup {None}

\* Without a gateway there is one indexer to be reached.
SeenIsSo ==
    /\ rSeen.registry \/ rSeen.multi => rGateway
    /\ ~rGateway => rEnabled = {Engines!Least(Backends)}
    /\ \A b \in Backends : rSeen.clusters[b] \subseteq rClusters[b]
    /\ ~rGateway => \A b \in Backends : b # Engines!Least(Backends) => rSeen.clusters[b] = {}

\* The form shows a cluster that is offered for its target.
HasSettled(s, f) ==
    Engines!ClusterOptions(s, f.target) = {} \/ f.cluster \in Engines!ClusterOptions(s, f.target)

RequestFits ==
    rRequest # None /\ ~rRequest.blind =>
        IF rGateway THEN rRequest.backend \in Backends /\ rRequest.cluster \in rClusters[rRequest.backend]
        ELSE rRequest.cluster \in rClusters[Engines!Least(Backends)]

EnginesInv ==
    /\ EngineTypes
    /\ SeenIsSo
    /\ rForm # None => HasSettled(rSeen, rForm)
    /\ RequestFits
    /\ Engines!RegisteredFits

\* The least of some numbers is one of them.
LEMMA LeastIsIn == ASSUME NEW S, S \subseteq Nat, S # {} PROVE Engines!Least(S) \in S
<1>1. PICK x \in S : \A y \in S : x <= y
  BY LeastExists
<1> QED
  BY <1>1 DEF Engines!Least

\* The options of a target are clusters.
LEMMA OptionsAreClusters ==
    ASSUME NEW s \in Knowledge, NEW b \in Backends \cup {None}
    PROVE  Engines!ClusterOptions(s, b) \subseteq ClusterIds
<1>1. \A x \in Backends : s.clusters[x] \subseteq ClusterIds
  BY DEF Knowledge
<1>2. Engines!KnownClusters(s) \subseteq ClusterIds
  BY <1>1 DEF Engines!KnownClusters
<1>3. UNION {s.clusters[x] : x \in {y \in Backends : Home[y] = Home[b]}} \subseteq ClusterIds
  BY <1>1
<1> QED
  BY <1>1, <1>2, <1>3 DEF Engines!ClusterOptions

\* The form settles on an option, if there is one.
LEMMA FollowsOptions ==
    ASSUME NEW options, options \subseteq ClusterIds, NEW c \in ClusterIds \cup {None}
    PROVE  /\ Engines!FollowOptions(options, c) \in ClusterIds \cup {None}
           /\ options = {} \/ Engines!FollowOptions(options, c) \in options
<1>1. options # {} => Engines!Least(options) \in options
  BY LeastIsIn, EnginesAssumption
<1> QED
  BY <1>1 DEF Engines!FollowOptions

\* The form settles.
LEMMA Settles ==
    ASSUME NEW s \in Knowledge, NEW f \in RegisterForms
    PROVE  Engines!Settled(s, f) \in RegisterForms /\ HasSettled(s, Engines!Settled(s, f))
<1>1. PICK before : before = Engines!FollowOptions(Engines!ClusterOptions(s, f.target), f.cluster)
  OBVIOUS
<1>2. PICK target : target = Engines!FollowTargets(s, f.target)
  OBVIOUS
<1>3. PICK cluster : cluster = Engines!FollowOptions(Engines!ClusterOptions(s, target), before)
  OBVIOUS
<1>4. f.target \in Backends \cup {None} /\ f.cluster \in ClusterIds \cup {None}
  BY DEF RegisterForms
<1>5. before \in ClusterIds \cup {None}
  BY <1>1, <1>4, OptionsAreClusters, FollowsOptions
<1>6. target \in Backends \cup {None}
  <2>1. Engines!Targets(s) \subseteq Backends
    BY DEF Engines!Targets, Knowledge
  <2>2. Engines!Targets(s) # {} => Engines!Least(Engines!Targets(s)) \in Engines!Targets(s)
    BY <2>1, LeastIsIn, ProfileAssumption
  <2> QED
    BY <1>2, <1>4, <2>1, <2>2 DEF Engines!FollowTargets
<1>7. /\ cluster \in ClusterIds \cup {None}
      /\ Engines!ClusterOptions(s, target) = {} \/ cluster \in Engines!ClusterOptions(s, target)
  BY <1>3, <1>5, <1>6, OptionsAreClusters, FollowsOptions
<1>8. Engines!Settled(s, f) = [target |-> target, cluster |-> cluster]
  BY <1>1, <1>2, <1>3 DEF Engines!Settled
<1> QED
  BY <1>6, <1>7, <1>8 DEF RegisterForms, HasSettled

\* The page learns something, or its form is edited.
LEMMA RenderKeeps ==
    ASSUME EnginesInv, NEW s \in Knowledge, NEW f \in RegisterForms \cup {None}, Engines!Render(s, f),
           UNCHANGED <<rGateway, rEnabled, rClusters, rEngines, rRequest>>,
           s.registry \/ s.multi => rGateway,
           \A b \in Backends : s.clusters[b] \subseteq rClusters[b],
           ~rGateway => \A b \in Backends : b # Engines!Least(Backends) => s.clusters[b] = {}
    PROVE  EnginesInv'
<1>1. rSeen' = s
  BY DEF Engines!Render
<1>2. rForm' \in RegisterForms \cup {None} /\ (rForm' # None => HasSettled(s, rForm'))
  <2>1. CASE f = None
    BY <2>1 DEF Engines!Render
  <2>2. CASE f # None
    BY <2>2, Settles DEF Engines!Render
  <2> QED
    BY <2>1, <2>2
<1>3. EngineTypes'
  BY <1>1, <1>2 DEF EnginesInv, EngineTypes
<1>4. SeenIsSo'
  BY <1>1 DEF EnginesInv, SeenIsSo
<1>5. RequestFits'
  BY DEF EnginesInv, RequestFits
<1>6. Engines!RegisteredFits'
  BY DEF EnginesInv, Engines!RegisteredFits
<1>7. rForm' # None => HasSettled(rSeen, rForm)'
  BY <1>1, <1>2 DEF HasSettled, Engines!ClusterOptions, Engines!KnownClusters, Engines!RequiresBackend,
     Engines!Targets
<1> QED
  BY <1>3, <1>4, <1>5, <1>6, <1>7 DEF EnginesInv

\* The form is opened, edited and closed.
LEMMA FormSettles ==
    ASSUME EnginesInv,
           \/ Engines!Open \/ Engines!Cancel
           \/ \E b \in Backends : Engines!SetTarget(b)
           \/ \E c \in ClusterIds : Engines!SetCluster(c)
    PROVE  EnginesInv'
<1>1. /\ rSeen \in Knowledge
      /\ rSeen.registry \/ rSeen.multi => rGateway
      /\ \A b \in Backends : rSeen.clusters[b] \subseteq rClusters[b]
      /\ ~rGateway => \A b \in Backends : b # Engines!Least(Backends) => rSeen.clusters[b] = {}
  BY DEF EnginesInv, EngineTypes, SeenIsSo
<1>2. ASSUME NEW f \in RegisterForms, Engines!Render(rSeen, f),
             UNCHANGED <<rGateway, rEnabled, rClusters, rEngines, rRequest>>
      PROVE  EnginesInv'
  BY <1>1, <1>2, RenderKeeps
<1>3. CASE Engines!Open
  <2>1. [target |-> None, cluster |-> None] \in RegisterForms
    BY DEF RegisterForms
  <2> QED
    BY <1>2, <1>3, <2>1 DEF Engines!Open
<1>4. CASE Engines!Cancel
  <2>1. rForm' = None /\ UNCHANGED <<rGateway, rEnabled, rClusters, rEngines, rSeen, rRequest>>
    BY <1>4 DEF Engines!Cancel
  <2> QED
    BY <2>1 DEF EnginesInv, EngineTypes, SeenIsSo, RequestFits, Engines!RegisteredFits
<1>5. ASSUME NEW b \in Backends, Engines!SetTarget(b) PROVE EnginesInv'
  <2>1. PICK f : f = [rForm EXCEPT !.target = b]
    OBVIOUS
  <2>2. f \in RegisterForms
    BY <1>5, <2>1 DEF EnginesInv, EngineTypes, RegisterForms, Engines!SetTarget
  <2> QED
    BY <1>2, <1>5, <2>1, <2>2 DEF Engines!SetTarget
<1>6. ASSUME NEW c \in ClusterIds, Engines!SetCluster(c) PROVE EnginesInv'
  <2>1. PICK f : f = [rForm EXCEPT !.cluster = c]
    OBVIOUS
  <2>2. f \in RegisterForms
    BY <1>6, <2>1 DEF EnginesInv, EngineTypes, RegisterForms, Engines!SetCluster
  <2> QED
    BY <1>2, <1>6, <2>1, <2>2 DEF Engines!SetCluster
<1> QED
  BY <1>3, <1>4, <1>5, <1>6

\* A query is answered or fails.
LEMMA AnsweredKeeps ==
    ASSUME EnginesInv, NEW s \in Knowledge, Engines!Answered(s),
           s.registry \/ s.multi => rGateway,
           \A b \in Backends : s.clusters[b] \subseteq rClusters[b],
           ~rGateway => \A b \in Backends : b # Engines!Least(Backends) => s.clusters[b] = {}
    PROVE  EnginesInv'
<1>1. rForm \in RegisterForms \cup {None} /\ Engines!Render(s, rForm)
      /\ UNCHANGED <<rGateway, rEnabled, rClusters, rEngines, rRequest>>
  BY DEF EnginesInv, EngineTypes, Engines!Answered
<1> QED
  BY <1>1, RenderKeeps

\* What the queries answer keeps the invariant.
LEMMA QueriesKeep ==
    ASSUME EnginesInv,
           \/ \E reachable \in SUBSET rEnabled : Engines!ClustersAnswered(reachable)
           \/ Engines!RegistryAnswered \/ Engines!RegistryFails
           \/ Engines!InfosAnswered \/ Engines!InfosFail
    PROVE  EnginesInv'
<1>1. /\ rSeen \in Knowledge /\ rEnabled \subseteq Backends
      /\ rClusters \in [Backends -> SUBSET ClusterIds]
      /\ rSeen.registry \/ rSeen.multi => rGateway
      /\ ~rGateway => rEnabled = {Engines!Least(Backends)}
      /\ \A b \in Backends : rSeen.clusters[b] \subseteq rClusters[b]
      /\ ~rGateway => \A b \in Backends : b # Engines!Least(Backends) => rSeen.clusters[b] = {}
  BY DEF EnginesInv, EngineTypes, SeenIsSo
<1>2. ASSUME NEW reachable \in SUBSET rEnabled, Engines!ClustersAnswered(reachable)
      PROVE  EnginesInv'
  <2>1. PICK known : known = [b \in Backends |-> IF b \in reachable THEN rClusters[b] ELSE {}]
    OBVIOUS
  <2>2. PICK s : s = [rSeen EXCEPT !.clusters = known]
    OBVIOUS
  <2>3. known \in [Backends -> SUBSET ClusterIds]
    BY <1>1, <2>1
  <2>4. s \in Knowledge /\ s.registry = rSeen.registry /\ s.multi = rSeen.multi /\ s.clusters = known
    BY <1>1, <2>2, <2>3 DEF Knowledge
  <2>5. Engines!Answered(s)
    BY <1>2, <2>1, <2>2 DEF Engines!ClustersAnswered
  <2>6. \A b \in Backends : known[b] \subseteq rClusters[b]
    BY <2>1
  <2>7. ~rGateway => \A b \in Backends : b # Engines!Least(Backends) => known[b] = {}
    BY <1>1, <2>1
  <2> QED
    BY <1>1, <2>4, <2>5, <2>6, <2>7, AnsweredKeeps
<1>3. ASSUME NEW s, Engines!Answered(s), s \in Knowledge, s.clusters = rSeen.clusters,
             s.registry \/ s.multi => rGateway
      PROVE  EnginesInv'
  BY <1>1, <1>3, AnsweredKeeps
<1>4. CASE Engines!RegistryAnswered
  <2>1. PICK s : s = [rSeen EXCEPT !.connections = rEnabled, !.registry = TRUE]
    OBVIOUS
  <2>2. s \in Knowledge /\ s.clusters = rSeen.clusters
    BY <1>1, <2>1 DEF Knowledge
  <2> QED
    BY <1>3, <1>4, <2>1, <2>2 DEF Engines!RegistryAnswered
<1>5. CASE Engines!RegistryFails
  <2>1. PICK s : s = [rSeen EXCEPT !.registry = FALSE]
    OBVIOUS
  <2>2. s \in Knowledge /\ s.clusters = rSeen.clusters
    BY <1>1, <2>1 DEF Knowledge
  <2>3. rGateway
    BY <1>1, <1>5 DEF Engines!RegistryFails
  <2> QED
    BY <1>3, <1>5, <2>1, <2>2, <2>3 DEF Engines!RegistryFails
<1>6. CASE Engines!InfosAnswered
  <2>1. PICK s : s = [rSeen EXCEPT !.infos = rEnabled, !.multi = rEnabled # {}]
    OBVIOUS
  <2>2. s \in Knowledge /\ s.clusters = rSeen.clusters
    BY <1>1, <2>1 DEF Knowledge
  <2> QED
    BY <1>3, <1>6, <2>1, <2>2 DEF Engines!InfosAnswered
<1>7. CASE Engines!InfosFail
  <2>1. PICK s : s = [rSeen EXCEPT !.multi = FALSE]
    OBVIOUS
  <2>2. s \in Knowledge /\ s.clusters = rSeen.clusters
    BY <1>1, <2>1 DEF Knowledge
  <2>3. rGateway
    BY <1>1, <1>7 DEF Engines!InfosFail
  <2> QED
    BY <1>3, <1>7, <2>1, <2>2, <2>3 DEF Engines!InfosFail
<1> QED
  BY <1>2, <1>4, <1>5, <1>6, <1>7

\* What a settled form sends is of its target, or of the only indexer, unless
\* it knew no cluster there.
LEMMA SubmitFits ==
    ASSUME EnginesInv, NEW i \in Ids, Engines!Submit(i)
    PROVE  EnginesInv'
<1>1. PICK to : to = IF Engines!RequiresBackend(rSeen) THEN rForm.target ELSE None
  OBVIOUS
<1>2. PICK blind : blind = IF to # None THEN rSeen.clusters[to] = {}
                           ELSE rGateway \/ Engines!KnownClusters(rSeen) = {}
  OBVIOUS
<1>3. /\ rForm # None /\ rForm.cluster # None
      /\ Engines!RequiresBackend(rSeen) => rForm.target # None
      /\ rRequest' = [id |-> i, backend |-> to, cluster |-> rForm.cluster, blind |-> blind]
      /\ UNCHANGED <<rGateway, rEnabled, rClusters, rEngines, rSeen, rForm>>
  BY <1>1, <1>2 DEF Engines!Submit
<1>4. /\ rForm.target \in Backends \cup {None} /\ rForm.cluster \in ClusterIds
      /\ rGateway \in BOOLEAN /\ HasSettled(rSeen, rForm)
  BY <1>3 DEF EnginesInv, EngineTypes, RegisterForms
<1>5. to \in Backends \cup {None} /\ blind \in BOOLEAN
  BY <1>1, <1>2, <1>4
<1>6. ASSUME ~blind
      PROVE  IF rGateway THEN to \in Backends /\ rForm.cluster \in rClusters[to]
             ELSE rForm.cluster \in rClusters[Engines!Least(Backends)]
  <2>1. CASE to # None
    <3>1. rForm.target = to /\ to \in Backends /\ rGateway
      BY <1>1, <1>5, <2>1 DEF Engines!RequiresBackend, EnginesInv, SeenIsSo
    <3>2. Engines!ClusterOptions(rSeen, to) = rSeen.clusters[to] /\ rSeen.clusters[to] # {}
      BY <1>1, <1>2, <1>6, <2>1, <3>1 DEF Engines!ClusterOptions
    <3>3. rForm.cluster \in rSeen.clusters[to]
      BY <1>4, <3>1, <3>2 DEF HasSettled
    <3> QED
      BY <3>1, <3>3 DEF EnginesInv, SeenIsSo
  <2>2. CASE to = None
    <3>1. ~Engines!RequiresBackend(rSeen) /\ ~rGateway /\ Engines!KnownClusters(rSeen) # {}
      BY <1>1, <1>2, <1>3, <1>4, <1>6, <2>2
    <3>2. rForm.cluster \in Engines!KnownClusters(rSeen)
      BY <1>4, <3>1 DEF HasSettled, Engines!ClusterOptions
    <3>3. PICK b \in Backends : rForm.cluster \in rSeen.clusters[b]
      BY <3>2 DEF Engines!KnownClusters
    <3>4. b = Engines!Least(Backends)
      BY <3>1, <3>3 DEF EnginesInv, SeenIsSo
    <3> QED
      BY <3>1, <3>3, <3>4 DEF EnginesInv, SeenIsSo
  <2> QED
    BY <2>1, <2>2
<1>7. rRequest' \in Registrations
  BY <1>3, <1>4, <1>5 DEF Registrations
<1>8. EngineTypes' /\ SeenIsSo' /\ Engines!RegisteredFits'
  BY <1>3, <1>7 DEF EnginesInv, EngineTypes, SeenIsSo, Engines!RegisteredFits
<1>9. RequestFits'
  BY <1>3, <1>6 DEF RequestFits
<1>10. rForm' # None => HasSettled(rSeen, rForm)'
  BY <1>3 DEF EnginesInv, HasSettled, Engines!ClusterOptions, Engines!KnownClusters,
     Engines!RequiresBackend,
     Engines!Targets
<1> QED
  BY <1>8, <1>9, <1>10 DEF EnginesInv

\* The backend that a registration reaches has its cluster.
LEMMA RegisteredInCluster ==
    ASSUME EnginesInv, Engines!Registered, UNCHANGED rClusters
    PROVE  /\ rEngines' \in [Backends -> [Ids -> [cluster : ClusterIds, blind : BOOLEAN] \cup {None}]]
           /\ Engines!RegisteredFits'
<1>1. PICK b : b = Engines!Receiver(rRequest.backend)
  OBVIOUS
<1>2. PICK e : e = Engines!NewEngine(rRequest.cluster, rRequest.blind)
  OBVIOUS
<1>3. rRequest # None /\ b # None /\ rEngines' = [rEngines EXCEPT ![b][rRequest.id] = e]
  BY <1>1, <1>2 DEF Engines!Registered
<1>4. rRequest \in Registrations
  BY <1>3 DEF EnginesInv, EngineTypes
<1>5. e \in [cluster : ClusterIds, blind : BOOLEAN] /\ e.cluster = rRequest.cluster /\ e.blind = rRequest.blind
  BY <1>2, <1>4 DEF Registrations, Engines!NewEngine
<1>6. ASSUME b \in Backends, ~rRequest.blind PROVE rRequest.cluster \in rClusters[b]
  <2>1. CASE rGateway
    <3>1. rRequest.backend \in Backends /\ rRequest.cluster \in rClusters[rRequest.backend]
      BY <1>3, <1>6, <2>1 DEF EnginesInv, RequestFits
    <3>2. b = rRequest.backend
      BY <1>1, <1>3, <2>1, <3>1, ProfileAssumption DEF Engines!Receiver
    <3> QED
      BY <3>1, <3>2
  <2>2. CASE ~rGateway
    BY <1>1, <1>3, <1>6, <2>2 DEF EnginesInv, RequestFits, Engines!Receiver
  <2> QED
    BY <2>1, <2>2
<1>7. /\ rEngines \in [Backends -> [Ids -> [cluster : ClusterIds, blind : BOOLEAN] \cup {None}]]
      /\ rRequest.id \in Ids
  BY <1>4 DEF EnginesInv, EngineTypes, Registrations
<1>8. ASSUME NEW c \in Backends, NEW i \in Ids
      PROVE  rEngines'[c][i] = IF c = b /\ i = rRequest.id THEN e ELSE rEngines[c][i]
  BY <1>3, <1>7
<1>9. rEngines' \in [Backends -> [Ids -> [cluster : ClusterIds, blind : BOOLEAN] \cup {None}]]
  BY <1>3, <1>5, <1>7
<1>10. Engines!RegisteredFits'
  <2> SUFFICES ASSUME NEW c \in Backends, NEW i \in Ids, rEngines'[c][i] # None, ~rEngines'[c][i].blind
               PROVE  rEngines'[c][i].cluster \in rClusters[c]
    BY DEF Engines!RegisteredFits
  <2>1. CASE c = b /\ i = rRequest.id
    BY <1>5, <1>6, <1>8, <2>1
  <2>2. CASE ~(c = b /\ i = rRequest.id)
    BY <1>8, <2>2 DEF EnginesInv, Engines!RegisteredFits
  <2> QED
    BY <2>1, <2>2
<1> QED
  BY <1>9, <1>10

\* The registration ends.
LEMMA RegistrationKeeps ==
    ASSUME EnginesInv, Engines!SubmitAnswered \/ Engines!SubmitFails
    PROVE  EnginesInv'
<1>1. /\ Engines!Registered \/ rEngines' = rEngines
      /\ rRequest' = None /\ (rForm' = None \/ rForm' = rForm)
      /\ UNCHANGED <<rGateway, rEnabled, rClusters, rSeen>>
  BY DEF Engines!SubmitAnswered, Engines!SubmitFails
<1>2. /\ rEngines' \in [Backends -> [Ids -> [cluster : ClusterIds, blind : BOOLEAN] \cup {None}]]
      /\ Engines!RegisteredFits'
  <2>1. CASE Engines!Registered
    BY <1>1, <2>1, RegisteredInCluster
  <2>2. CASE rEngines' = rEngines
    BY <1>1, <2>2 DEF EnginesInv, EngineTypes, Engines!RegisteredFits
  <2> QED
    BY <1>1, <2>1, <2>2
<1>3. EngineTypes' /\ SeenIsSo' /\ RequestFits'
  BY <1>1, <1>2 DEF EnginesInv, EngineTypes, SeenIsSo, RequestFits
<1>4. rForm' # None => HasSettled(rSeen, rForm)'
  BY <1>1 DEF EnginesInv, HasSettled, Engines!ClusterOptions, Engines!KnownClusters,
     Engines!RequiresBackend,
     Engines!Targets
<1> QED
  BY <1>2, <1>3, <1>4 DEF EnginesInv

\* Clusters are added, and connections switched, behind the page's back.
LEMMA WorldKeeps ==
    ASSUME EnginesInv,
           \/ \E b \in Backends, c \in ClusterIds : Engines!ClusterAdded(b, c)
           \/ \E b \in Backends : Engines!ConnectionToggled(b)
    PROVE  EnginesInv'
<1>1. UNCHANGED <<rGateway, rEngines, rSeen, rForm, rRequest>>
  BY DEF Engines!ClusterAdded, Engines!ConnectionToggled
<1>2. /\ rClusters' \in [Backends -> SUBSET ClusterIds]
      /\ \A b \in Backends : rClusters[b] \subseteq rClusters'[b]
  <2>1. rClusters \in [Backends -> SUBSET ClusterIds]
    BY DEF EnginesInv, EngineTypes
  <2> QED
    BY <2>1 DEF Engines!ClusterAdded, Engines!ConnectionToggled
<1>3. rEnabled' \subseteq Backends /\ (~rGateway => rEnabled' = rEnabled)
  BY DEF Engines!ClusterAdded, Engines!ConnectionToggled, EnginesInv, EngineTypes
<1>4. Engines!Least(Backends) \in Backends
  BY LeastIsIn, ProfileAssumption, EnginesAssumption
<1>5. EngineTypes' /\ SeenIsSo'
  BY <1>1, <1>2, <1>3 DEF EnginesInv, EngineTypes, SeenIsSo
<1>6. RequestFits'
  BY <1>1, <1>2, <1>4 DEF EnginesInv, RequestFits
<1>7. Engines!RegisteredFits'
  BY <1>1, <1>2 DEF EnginesInv, Engines!RegisteredFits
<1>8. rForm' # None => HasSettled(rSeen, rForm)'
  BY <1>1 DEF EnginesInv, HasSettled, Engines!ClusterOptions, Engines!KnownClusters,
     Engines!RequiresBackend,
     Engines!Targets
<1> QED
  BY <1>5, <1>6, <1>7, <1>8 DEF EnginesInv

\* Every step of the engines keeps the invariant.
LEMMA EnginesKept == ASSUME EnginesInv, [Engines!Next]_enginesVars PROVE EnginesInv'
<1>1. CASE UNCHANGED enginesVars
  <2>1. UNCHANGED <<rGateway, rEnabled, rClusters, rEngines, rSeen, rForm, rRequest>>
    BY <1>1 DEF enginesVars
  <2>2. EngineTypes' /\ SeenIsSo' /\ RequestFits'
    BY <2>1 DEF EnginesInv, EngineTypes, SeenIsSo, RequestFits
  <2>3. Engines!RegisteredFits'
    BY <2>1 DEF EnginesInv, Engines!RegisteredFits
  <2>4. rForm' # None => HasSettled(rSeen, rForm)'
    BY <2>1 DEF EnginesInv, HasSettled, Engines!ClusterOptions, Engines!KnownClusters,
       Engines!RequiresBackend,
       Engines!Targets
  <2> QED
    BY <2>2, <2>3, <2>4 DEF EnginesInv
<1> QED
  BY <1>1, FormSettles, QueriesKeep, SubmitFits, RegistrationKeeps, WorldKeeps, Zenon DEF Engines!Next

\* At first no engine is registered, and the page has seen nothing.
LEMMA EnginesStart == Engines!Init => EnginesInv
<1> SUFFICES ASSUME Engines!Init PROVE EnginesInv
  OBVIOUS
<1>1. Engines!Least(Backends) \in Backends
  BY LeastIsIn, ProfileAssumption, EnginesAssumption
<1>2. rSeen \in Knowledge
  BY DEF Engines!Init, Knowledge
<1>3. EngineTypes
  BY <1>1, <1>2, EnginesAssumption DEF Engines!Init, EngineTypes
<1>4. SeenIsSo
  BY DEF Engines!Init, SeenIsSo
<1>5. RequestFits /\ Engines!RegisteredFits /\ rForm = None
  BY DEF Engines!Init, RequestFits, Engines!RegisteredFits
<1> QED
  BY <1>3, <1>4, <1>5 DEF EnginesInv

\* An engine is registered in a cluster that its indexer has, unless the form
\* knew none of its target: for any indexers and clusters, and whatever the
\* queries answer, in whatever order, while the form is open
\* (engines/page.tsx:697-743, 745-784).
THEOREM RegistrationsFit == ConsoleSpec => []RegisteredFits
<1>1. ConsoleInit => EnginesInv
  BY EnginesStart DEF ConsoleInit
<1>2. EnginesInv /\ [ConsoleNext]_consoleVars => EnginesInv'
  BY EnginesKept, EnginesStep
<1>3. EnginesInv => RegisteredFits
  BY DEF EnginesInv, RegisteredFits
<1> QED
  BY <1>1, <1>2, <1>3, PTL DEF ConsoleSpec

-----------------------------------------------------------------------------
(* Lists. The members of an ordered set have as their ranks the numbers    *)
(* less than its size, each once. So a filter, which puts at n what has    *)
(* rank n - 1 among the positions picked, leaves out nothing else and      *)
(* keeps the order; a list of lists is flattened by a function that        *)
(* exists, since there is no first length at which it does not.            *)

\* R orders the set strictly and totally.
Orders(R, I) ==
    /\ \A i \in I : <<i, i>> \notin R
    /\ \A i, j \in I : i # j => <<i, j>> \in R \/ <<j, i>> \in R
    /\ \A i, j, k \in I : <<i, j>> \in R /\ <<j, k>> \in R => <<i, k>> \in R

Below(R, I, i) == {j \in I : <<j, i>> \in R}
Rank(R, I) == [i \in I |-> Cardinality(Below(R, I, i))]

\* The ranks of the elements of an ordered set are in their order, and every
\* number less than the number of elements is one.
LEMMA RanksOrdered ==
    ASSUME NEW I, IsFiniteSet(I), NEW R, Orders(R, I), NEW i \in I, NEW j \in I, <<i, j>> \in R
    PROVE  Rank(R, I)[i] < Rank(R, I)[j]
<1>1. /\ IsFiniteSet(Below(R, I, i)) /\ Cardinality(Below(R, I, i)) \in Nat
      /\ IsFiniteSet(Below(R, I, j)) /\ Cardinality(Below(R, I, j)) \in Nat
  BY FS_Subset, FS_CardinalityType DEF Below
<1>2. i \notin Below(R, I, i) /\ Below(R, I, i) \cup {i} \in SUBSET Below(R, I, j)
  BY DEF Orders, Below
<1>3. Cardinality(Below(R, I, i) \cup {i}) = Cardinality(Below(R, I, i)) + 1
  BY <1>1, <1>2, FS_AddElement
<1>4. Cardinality(Below(R, I, i) \cup {i}) <= Cardinality(Below(R, I, j))
  BY <1>1, <1>2, FS_Subset
<1>5. QED
  BY <1>1, <1>3, <1>4 DEF Rank

\* Every number less than the size of an ordered set is the rank of a member.
LEMMA RanksAll ==
    ASSUME NEW I, IsFiniteSet(I), NEW R, Orders(R, I)
    PROVE  /\ Rank(R, I) \in [I -> 0..(Cardinality(I) - 1)]
           /\ \A n \in 0..(Cardinality(I) - 1) : \E i \in I : Rank(R, I)[i] = n
<1> DEFINE T == 0..(Cardinality(I) - 1)
           f == Rank(R, I)
<1>1. Cardinality(I) \in Nat
  BY FS_CardinalityType
<1>2. f \in [I -> T]
  <2> SUFFICES ASSUME NEW i \in I PROVE Cardinality(Below(R, I, i)) \in T
    BY DEF Rank
  <2>1. Below(R, I, i) \in SUBSET (I \ {i})
    BY DEF Orders, Below
  <2>2. IsFiniteSet(I \ {i}) /\ Cardinality(I \ {i}) = Cardinality(I) - 1
    BY FS_RemoveElement
  <2>3. /\ IsFiniteSet(Below(R, I, i)) /\ Cardinality(Below(R, I, i)) <= Cardinality(I) - 1
    BY <2>1, <2>2, FS_Subset
  <2>4. Cardinality(Below(R, I, i)) \in Nat
    BY <2>3, FS_CardinalityType
  <2>5. QED
    BY <1>1, <2>3, <2>4
<1>3. \A i, j \in I : f[i] = f[j] => i = j
  <2> SUFFICES ASSUME NEW i \in I, NEW j \in I, i # j PROVE f[i] # f[j]
    OBVIOUS
  <2>1. f[i] \in Int /\ f[j] \in Int
    BY <1>1, <1>2
  <2>2. CASE <<i, j>> \in R
    BY <2>1, <2>2, RanksOrdered
  <2>3. CASE <<j, i>> \in R
    BY <2>1, <2>3, RanksOrdered
  <2>4. QED
    BY <2>2, <2>3 DEF Orders
<1>4. IsFiniteSet(T) /\ Cardinality(T) = Cardinality(I)
  BY <1>1, FS_Interval
<1>5. f \in Injection(I, T)
  BY <1>2, <1>3 DEF Injection, IsInjective
<1>6. f \in Surjection(I, T)
  BY <1>4, <1>5, FS_Injection
<1>7. QED
  BY <1>2, <1>6 DEF Surjection

\* Filtering keeps the elements at the positions picked, and their order.
LEMMA PickedFacts ==
    ASSUME NEW S, NEW l \in Seq(S), NEW I \in SUBSET DOMAIN l
    PROVE  \E at \in [1..Cardinality(I) -> I] :
              /\ Picked(l, I) = [n \in 1..Cardinality(I) |-> l[at[n]]]
              /\ \A n, m \in 1..Cardinality(I) : n < m => at[n] < at[m]
              /\ \A i \in I : \E n \in 1..Cardinality(I) : at[n] = i
<1> DEFINE R == {p \in I \X I : p[1] < p[2]}
           f == Rank(R, I)
           C == Cardinality(I)
           place(n) == CHOOSE i \in I : Cardinality({j \in I : j < i}) = n - 1
           at == [n \in 1..C |-> place(n)]
<1>1. I \in SUBSET Nat /\ IsFiniteSet(I) /\ C \in Nat
  <2>1. Len(l) \in Nat /\ DOMAIN l = 1..Len(l)
    OBVIOUS
  <2>2. IsFiniteSet(1..Len(l))
    BY <2>1, FS_Interval
  <2>3. IsFiniteSet(I)
    BY <2>1, <2>2, FS_Subset
  <2>4. QED
    BY <2>1, <2>3, FS_CardinalityType
<1>2. \A i, j \in I : <<i, j>> \in R <=> i < j
  OBVIOUS
<1>3. Orders(R, I)
  BY <1>1, <1>2 DEF Orders
<1>4. \A i \in I : f[i] = Cardinality({j \in I : j < i})
  <2> SUFFICES ASSUME NEW i \in I PROVE f[i] = Cardinality({j \in I : j < i})
    OBVIOUS
  <2>1. Below(R, I, i) = {j \in I : j < i}
    BY <1>2 DEF Below
  <2>2. QED
    BY <2>1 DEF Rank
<1>5. Picked(l, I) = [n \in 1..C |-> l[at[n]]]
  <2>1. Picked(l, I) = [n \in 1..C |-> l[place(n)]]
    BY DEF Picked
  <2> HIDE DEF place
  <2>2. QED
    BY <2>1
<1> HIDE DEF R, f
<1>6. /\ f \in [I -> 0..(C - 1)] /\ \A n \in 0..(C - 1) : \E i \in I : f[i] = n
      /\ \A i, j \in I : i < j => f[i] < f[j]
  <2>1. f \in [I -> 0..(C - 1)] /\ \A n \in 0..(C - 1) : \E i \in I : f[i] = n
    BY <1>1, <1>3, RanksAll DEF f
  <2>2. \A i, j \in I : i < j => f[i] < f[j]
    BY <1>1, <1>2, <1>3, RanksOrdered DEF f
  <2>3. QED
    BY <2>1, <2>2
<1>7. \A n \in 1..C : at[n] \in I /\ f[at[n]] = n - 1
  <2> SUFFICES ASSUME NEW n \in 1..C PROVE at[n] \in I /\ f[at[n]] = n - 1
    OBVIOUS
  <2>1. n - 1 \in 0..(C - 1)
    BY <1>1
  <2>2. \E i \in I : Cardinality({j \in I : j < i}) = n - 1
    BY <1>4, <1>6, <2>1
  <2>3. place(n) \in I /\ Cardinality({j \in I : j < place(n)}) = n - 1
    BY <2>2
  <2> HIDE DEF place
  <2>4. QED
    BY <1>4, <2>3
<1>8. at \in [1..C -> I]
  BY <1>7
<1> HIDE DEF at
<1>9. \A n, m \in 1..C : n < m => at[n] < at[m]
  <2> SUFFICES ASSUME NEW n \in 1..C, NEW m \in 1..C, n < m PROVE at[n] < at[m]
    OBVIOUS
  <2>1. /\ at[n] \in I /\ at[m] \in I /\ f[at[n]] = n - 1 /\ f[at[m]] = m - 1
        /\ n \in Nat /\ m \in Nat /\ at[n] \in Nat /\ at[m] \in Nat
    BY <1>1, <1>7
  <2>2. at[m] < at[n] => f[at[m]] < f[at[n]]
    BY <1>6, <2>1
  <2>3. QED
    BY <2>1, <2>2
<1>10. \A i \in I : \E n \in 1..C : at[n] = i
  <2> SUFFICES ASSUME NEW i \in I PROVE \E n \in 1..C : at[n] = i
    OBVIOUS
  <2>1. f[i] \in 0..(C - 1) /\ f[i] + 1 \in 1..C
    BY <1>1, <1>6
  <2> DEFINE n == f[i] + 1
  <2>2. n \in 1..C /\ at[n] \in I /\ f[at[n]] = f[i]
    BY <1>1, <1>7, <2>1
  <2>3. f[at[n]] \in Nat /\ at[n] \in Nat /\ i \in Nat
    BY <1>1, <1>6, <2>2
  <2>4. at[n] = i
    BY <1>6, <2>2, <2>3
  <2>5. QED
    BY <2>2, <2>4
<1>11. QED
  BY <1>5, <1>8, <1>9, <1>10 DEF C

\* What is picked is of the kind of what stands at the positions.
LEMMA PickedIs ==
    ASSUME NEW S, NEW l \in Seq(S), NEW I \in SUBSET DOMAIN l, NEW V, \A i \in I : l[i] \in V
    PROVE  Picked(l, I) \in Seq(V)
<1>1. PICK at \in [1..Cardinality(I) -> I] : Picked(l, I) = [n \in 1..Cardinality(I) |-> l[at[n]]]
  BY PickedFacts
<1>2. Cardinality(I) \in Nat
  <2>1. IsFiniteSet(1..Len(l)) /\ DOMAIN l = 1..Len(l)
    BY FS_Interval
  <2>2. QED
    BY <2>1, FS_Subset, FS_CardinalityType
<1>3. \A n \in 1..Cardinality(I) : l[at[n]] \in V
  BY <1>1
<1>4. Picked(l, I) \in [1..Cardinality(I) -> V]
  BY <1>1, <1>3
<1>5. QED
  BY <1>2, <1>4, SeqDef

Elements(l) == {l[i] : i \in DOMAIN l}

\* A set as a list: every element is somewhere.
LEMMA SetAsList ==
    ASSUME NEW S, IsFiniteSet(S)
    PROVE  LET order == Decisions!SetToSeq(S)
           IN  /\ order \in Seq(S)
               /\ \A x \in S : \E i \in DOMAIN order : order[i] = x
<1> DEFINE n == Cardinality(S)
           order == Decisions!SetToSeq(S)
<1>1. n \in Nat /\ ExistsBijection(1..n, S)
  BY FS_CardinalityType
<1>2. order = CHOOSE f \in [1..n -> S] : \A i, j \in 1..n : f[i] = f[j] => i = j
  <2>1. Decisions!Cardinality(S) = n
    BY DEF Decisions!Cardinality, Cardinality
  <2>2. \A f \in [1..n -> S] : Decisions!IsInjective(f) <=> \A i, j \in 1..n : f[i] = f[j] => i = j
    BY DEF Decisions!IsInjective
  <2>3. order = CHOOSE f \in [1..n -> S] : Decisions!IsInjective(f)
    BY <2>1 DEF Decisions!SetToSeq
  <2>4. QED
    BY <2>2, <2>3
<1>3. \E f \in [1..n -> S] : \A i, j \in 1..n : f[i] = f[j] => i = j
  BY <1>1 DEF ExistsBijection, Bijection, Injection, IsInjective
<1>4. order \in [1..n -> S] /\ \A i, j \in 1..n : order[i] = order[j] => i = j
  BY <1>2, <1>3
<1> HIDE DEF order
<1>5. order \in Injection(1..n, S)
  BY <1>4 DEF Injection, IsInjective
<1>6. IsFiniteSet(1..n) /\ Cardinality(1..n) = n
  BY <1>1, FS_Interval
<1>7. order \in Surjection(1..n, S)
  BY <1>5, <1>6, FS_Injection
<1>8. QED
  BY <1>1, <1>4, <1>7, SeqDef DEF Surjection, order

\* Two lists, one behind the other, have the elements of both.
LEMMA ElementsOfBoth ==
    ASSUME NEW S, NEW s \in Seq(S), NEW t \in Seq(S)
    PROVE  s \o t \in Seq(S) /\ Elements(s \o t) = Elements(s) \cup Elements(t)
<1> DEFINE c == s \o t
<1>1. c \in Seq(S) /\ Len(c) = Len(s) + Len(t) /\ Len(s) \in Nat /\ Len(t) \in Nat
  OBVIOUS
<1>2. \A i \in 1..Len(s) : i \in 1..Len(c) /\ c[i] = s[i]
  OBVIOUS
<1>3. \A i \in 1..Len(t) : Len(s) + i \in 1..Len(c) /\ c[Len(s) + i] = t[i]
  OBVIOUS
<1>4. \A i \in 1..Len(c) : \/ i \in 1..Len(s) /\ c[i] = s[i]
                           \/ i - Len(s) \in 1..Len(t) /\ c[i] = t[i - Len(s)]
  OBVIOUS
<1> HIDE DEF c
<1>5. \A x : x \in Elements(c) => x \in Elements(s) \cup Elements(t)
  BY <1>1, <1>4 DEF Elements
<1>6. \A x : x \in Elements(s) => x \in Elements(c)
  BY <1>1, <1>2 DEF Elements
<1>7. ASSUME NEW x \in Elements(t) PROVE x \in Elements(c)
  <2>1. PICK i \in 1..Len(t) : x = t[i]
    BY DEF Elements
  <2>2. DOMAIN c = 1..Len(c)
    BY <1>1
  <2>3. Len(s) + i \in DOMAIN c /\ c[Len(s) + i] = x
    BY <1>3, <2>1, <2>2
  <2>4. QED
    BY <2>3, Zenon DEF Elements
<1>8. QED
  BY <1>1, <1>5, <1>6, <1>7 DEF c

\* What the recursion of FlattenSeq asks of a function, up to n.
Flattens(seqs, n, f) ==
    f = [i \in 1..n |-> IF i = 1 THEN seqs[i] ELSE f[i - 1] \o seqs[i]]

\* Such a function is continued by one more list.
LEMMA FlattensMore ==
    ASSUME NEW seqs, NEW n \in Nat, n > 1, NEW f, Flattens(seqs, n - 1, f)
    PROVE  \E g : Flattens(seqs, n, g)
<1> DEFINE G(i) == IF i = n THEN f[n - 1] \o seqs[n] ELSE f[i]
           g == [i \in 1..n |-> G(i)]
           h == [i \in 1..n |-> IF i = 1 THEN seqs[i] ELSE g[i - 1] \o seqs[i]]
<1>1. \A i \in 1..(n - 1) : f[i] = IF i = 1 THEN seqs[i] ELSE f[i - 1] \o seqs[i]
  BY DEF Flattens
<1>2. \A i \in 1..(n - 1) : g[i] = f[i]
  OBVIOUS
<1>3. g[n] = f[n - 1] \o seqs[n]
  <2>1. n \in 1..n
    OBVIOUS
  <2>2. g[n] = G(n)
    BY <2>1
  <2>3. QED
    BY <2>2
<1>4. g = [i \in 1..n |-> g[i]]
  <2> HIDE DEF G
  <2>1. QED
    OBVIOUS
<1> HIDE DEF g
<1>5. ASSUME NEW i \in 1..n PROVE g[i] = h[i]
  <2>1. CASE i = 1
    <3>1. 1 \in 1..(n - 1)
      OBVIOUS
    <3>2. g[1] = seqs[1]
      BY <1>1, <1>2, <3>1
    <3>3. QED
      BY <2>1, <3>2
  <2>2. CASE i # 1 /\ i < n
    <3>1. i \in 1..(n - 1) /\ i - 1 \in 1..(n - 1)
      BY <2>2
    <3>2. g[i] = f[i - 1] \o seqs[i] /\ g[i - 1] = f[i - 1]
      BY <1>1, <1>2, <2>2, <3>1
    <3>3. QED
      BY <2>2, <3>2
  <2>3. CASE i = n
    <3>1. n - 1 \in 1..(n - 1) /\ n # 1
      OBVIOUS
    <3>2. g[n - 1] = f[n - 1]
      BY <1>2, <3>1
    <3>3. QED
      BY <1>3, <2>3, <3>1, <3>2
  <2>4. QED
    BY <2>1, <2>2, <2>3
<1>6. g = h
  <2> HIDE DEF h
  <2>1. h = [i \in 1..n |-> h[i]]
    BY DEF h
  <2>2. QED
    BY <1>4, <1>5, <2>1
<1>7. QED
  BY <1>6 DEF Flattens

\* There is such a function: else there is a first number without.
LEMMA FlattensExists ==
    ASSUME NEW seqs, NEW n \in Nat, n > 0
    PROVE  \E f : Flattens(seqs, n, f)
<1> DEFINE without == {m \in Nat : m > 0 /\ ~\E f : Flattens(seqs, m, f)}
<1> SUFFICES ASSUME without # {} PROVE FALSE
  OBVIOUS
<1>1. PICK m \in without : \A k \in without : m <= k
  <2>1. without \subseteq Nat
    OBVIOUS
  <2> HIDE DEF without
  <2>2. QED
    BY <2>1, LeastExists
<1>2. m # 1
  <2>1. Flattens(seqs, 1, [i \in 1..1 |-> seqs[i]])
    BY DEF Flattens
  <2>2. QED
    BY <2>1
<1>3. m \in Nat /\ m > 1 /\ m - 1 \in Nat /\ m - 1 > 0 /\ ~(m <= m - 1)
  BY <1>2
<1>4. \E f : Flattens(seqs, m - 1, f)
  BY <1>1, <1>3
<1>5. \E f : Flattens(seqs, m, f)
  BY <1>3, <1>4, FlattensMore
<1>6. QED
  BY <1>5

\* A list of lists, one behind the other, has the elements of all of them.
LEMMA Flattened ==
    ASSUME NEW S, NEW seqs \in Seq(Seq(S))
    PROVE  /\ Decisions!FlattenSeq(seqs) \in Seq(S)
           /\ \A x : x \in Elements(Decisions!FlattenSeq(seqs)) <=> \E i \in DOMAIN seqs : x \in Elements(seqs[i])
<1> DEFINE N == Len(seqs)
           flat == Decisions!FlattenSeq(seqs)
           f == CHOOSE g : Flattens(seqs, N, g)
<1>1. N \in Nat /\ DOMAIN seqs = 1..N
  OBVIOUS
<1>2. CASE N = 0
  <2>1. flat = seqs /\ seqs = << >>
    BY <1>2 DEF Decisions!FlattenSeq
  <2>2. Elements(<< >>) = {} /\ << >> \in Seq(S) /\ DOMAIN << >> = {}
    BY DEF Elements
  <2>3. QED
    BY <2>1, <2>2
<1>3. CASE N # 0
  <2>1. flat = f[N]
    BY <1>3, Zenon DEF Decisions!FlattenSeq, Flattens
  <2>2. Flattens(seqs, N, f)
    <3>1. \E g : Flattens(seqs, N, g)
      <4>1. N \in Nat /\ N > 0
        BY <1>1, <1>3
      <4> HIDE DEF N
      <4>2. QED
        BY <4>1, FlattensExists
    <3>2. QED
      BY <3>1
  <2> HIDE DEF f, flat
  <2> DEFINE Good(n) == /\ f[n] \in Seq(S)
                        /\ \A x : x \in Elements(f[n]) <=> \E i \in 1..n : x \in Elements(seqs[i])
             bad == {n \in 1..N : ~Good(n)}
  <2>3. bad = {}
    <3> SUFFICES ASSUME bad # {} PROVE FALSE
      OBVIOUS
    <3>1. PICK n \in bad : \A k \in bad : n <= k
      <4>1. bad \subseteq Nat
        BY <1>1
      <4> HIDE DEF bad
      <4>2. QED
        BY <4>1, LeastExists
    <3>2. n \in 1..N /\ f[n] = IF n = 1 THEN seqs[n] ELSE f[n - 1] \o seqs[n]
      BY <2>2 DEF Flattens
    <3>3. seqs[n] \in Seq(S)
      BY <3>2
    <3>4. CASE n = 1
      <4>1. f[1] = seqs[1] /\ 1..1 = {1}
        BY <3>2, <3>4
      <4>2. Good(1)
        BY <3>3, <3>4, <4>1
      <4>3. QED
        BY <3>4, <4>2
    <3>5. CASE n # 1
      <4>1. n - 1 \in 1..N /\ ~(n <= n - 1)
        BY <1>1, <3>2, <3>5
      <4>2. Good(n - 1)
        BY <3>1, <4>1
      <4>3. f[n] = f[n - 1] \o seqs[n]
        BY <3>2, <3>5
      <4>4. f[n] \in Seq(S) /\ Elements(f[n]) = Elements(f[n - 1]) \cup Elements(seqs[n])
        BY <3>3, <4>2, <4>3, ElementsOfBoth
      <4>5. \A i : i \in 1..n <=> i \in 1..(n - 1) \/ i = n
        BY <1>1, <3>2, <3>5
      <4>6. Good(n)
        BY <4>2, <4>4, <4>5
      <4>7. QED
        BY <4>6
    <3>6. QED
      BY <3>4, <3>5
  <2>4. Good(N)
    <3>1. N \in 1..N
      BY <1>1, <1>3
    <3> HIDE DEF Good
    <3>2. QED
      BY <2>3, <3>1
  <2>5. /\ f[N] \in Seq(S)
        /\ \A x : x \in Elements(f[N]) <=> \E i \in 1..N : x \in Elements(seqs[i])
    BY <2>4
  <2> HIDE DEF N
  <2>6. QED
    BY <1>1, <2>1, <2>5 DEF flat
<1>4. QED
  BY <1>2, <1>3

-----------------------------------------------------------------------------
(* Sorted lists. A time has a place among the texts, which the gateway's   *)
(* sorting goes by.                                                        *)

\* The texts of times in their order, "Z" being above the digits.
Place(t) ==
    IF t = 0 THEN 110 ELSE IF t % 10 = 0 THEN 11 * (t \div 10) + 10 ELSE 11 * (t \div 10) + (t % 10)

\* The two digits of a time.
LEMMA Digits ==
    ASSUME NEW t \in 0..99
    PROVE  t \div 10 \in 0..9 /\ t % 10 \in 0..9 /\ t % 10 = t - 10 * (t \div 10)
<1>1. t \div 10 \in Int /\ t \div 10 >= 0 /\ t \div 10 <= 9
  BY SMT
<1>2. t % 10 = t - 10 * (t \div 10)
  BY SMT
<1>3. t % 10 \in 0..9
  BY SMT
<1>4. QED
  BY <1>1, <1>2, <1>3

\* A time is written with no digit, one or two.
LEMMA WrittenAs ==
    ASSUME NEW t \in 0..99
    PROVE  \E d \in 0..9, r \in 0..9 :
              /\ t = 10 * d + r
              /\ \/ t = 0 /\ Written(t) = << >> /\ Place(t) = 110
                 \/ t # 0 /\ r = 0 /\ Written(t) = <<d>> /\ Place(t) = 11 * d + 10
                 \/ r # 0 /\ Written(t) = <<d, r>> /\ Place(t) = 11 * d + r
<1> DEFINE d == t \div 10
           r == t % 10
<1>1. d \in 0..9 /\ r \in 0..9 /\ r = t - 10 * d
  BY Digits
<1>2. /\ Written(t) = IF t = 0 THEN << >> ELSE IF r = 0 THEN <<d>> ELSE <<d, r>>
      /\ Place(t) = IF t = 0 THEN 110 ELSE IF r = 0 THEN 11 * d + 10 ELSE 11 * d + r
  <2>1. Written(t) = IF t = 0 THEN << >> ELSE IF r = 0 THEN <<d>> ELSE <<d, r>>
    BY DEF Written
  <2>2. Place(t) = IF t = 0 THEN 110 ELSE IF r = 0 THEN 11 * d + 10 ELSE 11 * d + r
    BY DEF Place
  <2>3. QED
    BY <2>1, <2>2
<1> HIDE DEF d, r
<1>3. t = 10 * d + r
  BY <1>1
<1>4. r # 0 => t # 0
  BY <1>1, <1>3
<1>5. QED
  BY <1>1, <1>2, <1>3, <1>4

\* Places are numbers.
LEMMA PlaceIsNumber == ASSUME NEW t \in 0..99 PROVE Place(t) \in 0..110
<1>1. PICK d \in 0..9, r \in 0..9 :
              /\ t = 10 * d + r
              /\ \/ t = 0 /\ Written(t) = << >> /\ Place(t) = 110
                 \/ t # 0 /\ r = 0 /\ Written(t) = <<d>> /\ Place(t) = 11 * d + 10
                 \/ r # 0 /\ Written(t) = <<d, r>> /\ Place(t) = 11 * d + r
  BY WrittenAs
<1>2. Place(t) = 110 \/ Place(t) = 11 * d + 10 \/ Place(t) = 11 * d + r
  BY <1>1
<1>3. QED
  BY <1>2

\* Which of two texts is before the other.
LEMMA TextOrder ==
    ASSUME NEW t \in 0..99, NEW u \in 0..99
    PROVE  TextBefore(t, u) <=> Place(t) < Place(u)
<1>1. PICK d \in 0..9, r \in 0..9 :
              /\ t = 10 * d + r
              /\ \/ t = 0 /\ Written(t) = << >> /\ Place(t) = 110
                 \/ t # 0 /\ r = 0 /\ Written(t) = <<d>> /\ Place(t) = 11 * d + 10
                 \/ r # 0 /\ Written(t) = <<d, r>> /\ Place(t) = 11 * d + r
  BY WrittenAs
<1>2. PICK x \in 0..9, y \in 0..9 :
              /\ u = 10 * x + y
              /\ \/ u = 0 /\ Written(u) = << >> /\ Place(u) = 110
                 \/ u # 0 /\ y = 0 /\ Written(u) = <<x>> /\ Place(u) = 11 * x + 10
                 \/ y # 0 /\ Written(u) = <<x, y>> /\ Place(u) = 11 * x + y
  BY WrittenAs
<1> DEFINE a == Written(t)
           b == Written(u)
           Goes(i) == /\ \A j \in 1..(i - 1) : j \in DOMAIN b /\ a[j] = b[j]
                      /\ i <= Len(a) /\ (i > Len(b) \/ a[i] < b[i])
<1>3. TextBefore(t, u) <=> \E i \in 1..(Len(a) + 1) : Goes(i)
  BY DEF TextBefore
<1>4. CASE a = << >> /\ Place(t) = 110
  <2>1. ~ \E i \in 1..(Len(a) + 1) : Goes(i)
    BY <1>4
  <2>2. ~(Place(t) < Place(u))
    <3>1. Place(u) \in 0..110 /\ Place(t) = 110
      BY <1>4, PlaceIsNumber, Zenon
    <3>2. QED
      BY <3>1
  <2>3. ~TextBefore(t, u)
    BY <1>3, <2>1
  <2>4. QED
    BY <2>2, <2>3
<1>5. CASE a = <<d>> /\ Place(t) = 11 * d + 10
  <2>1. (\E i \in 1..(Len(a) + 1) : Goes(i)) <=> Goes(1)
    BY <1>5
  <2>2. CASE b = << >> /\ Place(u) = 110
    BY <1>3, <1>5, <2>1, <2>2
  <2>3. CASE b = <<x>> /\ Place(u) = 11 * x + 10
    BY <1>3, <1>5, <2>1, <2>3
  <2>4. CASE b = <<x, y>> /\ y # 0 /\ Place(u) = 11 * x + y
    BY <1>3, <1>5, <2>1, <2>4
  <2>5. QED
    BY <1>2, <2>2, <2>3, <2>4
<1>6. CASE a = <<d, r>> /\ r # 0 /\ Place(t) = 11 * d + r
  <2>1. (\E i \in 1..(Len(a) + 1) : Goes(i)) <=> Goes(1) \/ Goes(2)
    BY <1>6
  <2>2. CASE b = << >> /\ Place(u) = 110
    BY <1>3, <1>6, <2>1, <2>2
  <2>3. CASE b = <<x>> /\ Place(u) = 11 * x + 10
    BY <1>3, <1>6, <2>1, <2>3
  <2>4. CASE b = <<x, y>> /\ y # 0 /\ Place(u) = 11 * x + y
    <3>1. Goes(1) <=> d < x
      BY <1>6, <2>4
    <3>2. Goes(2) <=> d = x /\ r < y
      BY <1>6, <2>4
    <3>3. QED
      BY <1>3, <1>6, <2>1, <2>4, <3>1, <3>2
  <2>5. QED
    BY <1>2, <2>2, <2>3, <2>4
<1>7. QED
  BY <1>1, <1>4, <1>5, <1>6

\* The pairs of positions whose first is to be before the second.
Precedence(l, Less) ==
    {p \in (DOMAIN l) \X (DOMAIN l) :
        \/ <<l[p[1]].time, l[p[2]].time>> \in Less
        \/ <<l[p[2]].time, l[p[1]].time>> \notin Less /\ p[1] < p[2]}

\* The order of the times is that of a number each position has.
GoesBy(l, Less, key) ==
    /\ key \in [DOMAIN l -> Int]
    /\ \A i, j \in DOMAIN l : <<l[i].time, l[j].time>> \in Less <=> key[i] < key[j]

\* Sorting goes by a strict and total order of the positions.
LEMMA EntriesOrdered ==
    ASSUME NEW S, NEW l \in Seq(S), NEW Less, NEW key, GoesBy(l, Less, key)
    PROVE  Orders(Precedence(l, Less), DOMAIN l)
<1> DEFINE I == DOMAIN l
           R == Precedence(l, Less)
<1>1. \A i \in I : i \in Nat /\ key[i] \in Int
  BY DEF GoesBy
<1>2. \A i, j \in I : <<i, j>> \in R <=> key[i] < key[j] \/ (key[i] = key[j] /\ i < j)
  <2> SUFFICES ASSUME NEW i \in I, NEW j \in I
               PROVE  <<i, j>> \in R <=> key[i] < key[j] \/ (key[i] = key[j] /\ i < j)
    OBVIOUS
  <2>1. <<i, j>> \in R <=> key[i] < key[j] \/ (~(key[j] < key[i]) /\ i < j)
    BY DEF GoesBy, Precedence
  <2> HIDE DEF R
  <2>2. QED
    BY <1>1, <2>1
<1> HIDE DEF R
<1>3. \A i \in I : <<i, i>> \notin R
  BY <1>1, <1>2
<1>4. \A i, j \in I : i # j => <<i, j>> \in R \/ <<j, i>> \in R
  BY <1>1, <1>2
<1>5. ASSUME NEW i \in I, NEW j \in I, NEW k \in I, <<i, j>> \in R, <<j, k>> \in R
      PROVE  <<i, k>> \in R
  <2>1. key[i] < key[j] \/ (key[i] = key[j] /\ i < j)
    BY <1>2, <1>5
  <2>2. key[j] < key[k] \/ (key[j] = key[k] /\ j < k)
    BY <1>2, <1>5
  <2>3. key[i] < key[k] \/ (key[i] = key[k] /\ i < k)
    BY <1>1, <2>1, <2>2
  <2>4. QED
    BY <1>2, <2>3
<1>6. QED
  BY <1>3, <1>4, <1>5 DEF Orders, R

\* Sorting neither loses nor invents an entry, and puts the lower numbers first.
LEMMA Sliced ==
    ASSUME NEW S, NEW l \in Seq(S), NEW Less, NEW key, GoesBy(l, Less, key)
    PROVE  LET sorted == SliceStable(l, Less)
           IN  /\ sorted \in Seq(S) /\ DOMAIN sorted = DOMAIN l
               /\ Elements(sorted) = Elements(l)
               /\ \E at \in [DOMAIN l -> DOMAIN l] :
                     /\ \A k \in DOMAIN l : sorted[k] = l[at[k]]
                     /\ \A i, j \in DOMAIN l : i < j => key[at[i]] <= key[at[j]]
<1> DEFINE I == DOMAIN l
           N == Len(l)
           R == Precedence(l, Less)
           f == Rank(R, I)
           Before(i, j) ==
               \/ <<l[i].time, l[j].time>> \in Less
               \/ <<l[j].time, l[i].time>> \notin Less /\ i < j
           found(k) == CHOOSE i \in I : Cardinality({j \in I : Before(j, i)}) = k - 1
           sorted == SliceStable(l, Less)
<1>1. N \in Nat /\ I = 1..N /\ IsFiniteSet(I) /\ Cardinality(I) = N
  <2>1. N \in Nat /\ I = 1..N
    OBVIOUS
  <2>2. IsFiniteSet(1..N) /\ Cardinality(1..N) = IF 1 > N THEN 0 ELSE N - 1 + 1
    <3>1. 1 \in Int /\ N \in Int
      BY <2>1
    <3>2. QED
      BY <3>1, FS_Interval, Zenon
  <2>3. QED
    BY <2>1, <2>2
<1>2. Orders(R, I)
  BY EntriesOrdered
<1>3. \A i \in I : f[i] = Cardinality({j \in I : Before(j, i)})
  <2> SUFFICES ASSUME NEW i \in I PROVE f[i] = Cardinality({j \in I : Before(j, i)})
    OBVIOUS
  <2>1. Below(R, I, i) = {j \in I : Before(j, i)}
    BY DEF Below, Precedence
  <2>2. QED
    BY <2>1 DEF Rank
<1>4. sorted = [k \in I |-> l[found(k)]]
  BY DEF SliceStable
<1> HIDE DEF R, f, sorted
<1>5. /\ f \in [I -> 0..(N - 1)] /\ \A n \in 0..(N - 1) : \E i \in I : f[i] = n
      /\ \A i, j \in I : <<i, j>> \in R => f[i] < f[j]
  <2>1. f \in [I -> 0..(N - 1)] /\ \A n \in 0..(N - 1) : \E i \in I : f[i] = n
    <3>1. /\ Rank(R, I) \in [I -> 0..(Cardinality(I) - 1)]
          /\ \A n \in 0..(Cardinality(I) - 1) : \E i \in I : Rank(R, I)[i] = n
      BY <1>1, <1>2, RanksAll, Zenon
    <3> HIDE DEF I, N
    <3>2. QED
      BY <1>1, <3>1 DEF f
  <2>2. \A i, j \in I : <<i, j>> \in R => f[i] < f[j]
    BY <1>1, <1>2, RanksOrdered DEF f
  <2>3. QED
    BY <2>1, <2>2
<1>6. \A k \in I : found(k) \in I /\ f[found(k)] = k - 1
  <2> SUFFICES ASSUME NEW k \in I PROVE found(k) \in I /\ f[found(k)] = k - 1
    OBVIOUS
  <2>1. k - 1 \in 0..(N - 1)
    BY <1>1
  <2>2. \E i \in I : Cardinality({j \in I : Before(j, i)}) = k - 1
    BY <1>3, <1>5, <2>1
  <2> HIDE DEF Before
  <2>3. found(k) \in I /\ Cardinality({j \in I : Before(j, found(k))}) = k - 1
    BY <2>2
  <2> HIDE DEF found
  <2>4. QED
    BY <1>3, <2>3
<1> HIDE DEF Before, found
<1>7. \A i \in I : \E k \in I : found(k) = i
  <2> SUFFICES ASSUME NEW i \in I PROVE \E k \in I : found(k) = i
    OBVIOUS
  <2> DEFINE k == f[i] + 1
  <2>1. f[i] \in 0..(N - 1) /\ k \in I /\ k - 1 = f[i]
    BY <1>1, <1>5
  <2>2. found(k) \in I /\ f[found(k)] = f[i]
    BY <1>6, <2>1
  <2>3. f[found(k)] \in Nat
    BY <1>1, <1>5, <2>2
  <2> HIDE DEF k
  <2>4. found(k) = i
    <3>1. found(k) # i => <<found(k), i>> \in R \/ <<i, found(k)>> \in R
      BY <1>2, <2>2 DEF Orders
    <3>2. QED
      BY <1>5, <2>1, <2>2, <2>3, <3>1
  <2>5. QED
    BY <2>1, <2>4
<1>8. sorted \in Seq(S) /\ DOMAIN sorted = I
  <2>1. sorted \in [1..N -> S]
    BY <1>1, <1>4, <1>6
  <2>2. QED
    BY <1>1, <2>1, SeqDef
<1>9. Elements(sorted) = Elements(l)
  <2>1. \A x : x \in Elements(sorted) <=> \E k \in I : x = l[found(k)]
    BY <1>4, <1>8 DEF Elements
  <2>2. \A x : x \in Elements(l) <=> \E i \in I : x = l[i]
    BY DEF Elements
  <2>3. QED
    BY <1>6, <1>7, <2>1, <2>2
<1>10. ASSUME NEW i \in I, NEW j \in I, i < j
       PROVE  key[found(i)] <= key[found(j)]
  <2> DEFINE x == found(i)
             y == found(j)
  <2>1. x \in I /\ y \in I /\ f[x] = i - 1 /\ f[y] = j - 1
    BY <1>6
  <2> HIDE DEF x, y
  <2>2. i \in Nat /\ j \in Nat
    BY <1>1
  <2>3. <<y, x>> \notin R
    BY <1>5, <1>10, <2>1, <2>2
  <2>4. <<l[y].time, l[x].time>> \notin Less
    BY <2>1, <2>3 DEF R, Precedence
  <2>5. ~(key[y] < key[x]) /\ key[x] \in Int /\ key[y] \in Int
    BY <2>1, <2>4 DEF GoesBy
  <2>6. QED
    BY <2>5 DEF x, y
<1> DEFINE at == [k \in I |-> found(k)]
<1>11. at \in [I -> I] /\ \A k \in I : sorted[k] = l[at[k]]
  BY <1>4, <1>6
<1>12. \A i, j \in I : i < j => key[at[i]] <= key[at[j]]
  BY <1>10
<1> HIDE DEF at
<1>13. QED
  BY <1>8, <1>9, <1>11, <1>12 DEF sorted

\* A place among the times is a number.
LEMMA TimesAreNumbers == \A n \in 0..110 : n \in Int
  OBVIOUS

\* By the text of the times.
LEMMA Sorted ==
    ASSUME NEW S, \A d \in S : d.time \in 0..99, NEW l \in Seq(S)
    PROVE  LET sorted == SliceStable(l, ByText)
           IN  /\ sorted \in Seq(S)
               /\ Elements(sorted) = Elements(l)
               /\ \A i, j \in DOMAIN sorted : i < j => Place(sorted[i].time) <= Place(sorted[j].time)
<1> DEFINE I == DOMAIN l
           key == [i \in I |-> Place(l[i].time)]
           sorted == SliceStable(l, ByText)
<1>1. ASSUME NEW i \in I PROVE l[i].time \in 0..99 /\ key[i] \in Int
  <2>1. l[i].time \in 0..99
    OBVIOUS
  <2>2. Place(l[i].time) \in 0..110
    BY <2>1, PlaceIsNumber, Zenon
  <2>3. key[i] = Place(l[i].time)
    OBVIOUS
  <2>4. Place(l[i].time) \in Int
    BY <2>2, TimesAreNumbers, Zenon
  <2>5. QED
    BY <2>1, <2>3, <2>4, Zenon
<1>2. ASSUME NEW i \in I, NEW j \in I PROVE <<l[i].time, l[j].time>> \in ByText <=> key[i] < key[j]
  <2> DEFINE t == l[i].time
             u == l[j].time
  <2>1. t \in 0..99 /\ u \in 0..99 /\ key[i] = Place(t) /\ key[j] = Place(u)
    BY <1>1
  <2> HIDE DEF t, u, key
  <2>2. TextBefore(t, u) <=> Place(t) < Place(u)
    BY <2>1, TextOrder, Zenon
  <2>3. <<t, u>> \in ByText <=> TextBefore(t, u)
    BY <2>1 DEF ByText, Fractions
  <2>4. <<t, u>> \in ByText <=> key[i] < key[j]
    BY <2>1, <2>2, <2>3
  <2>5. QED
    BY <2>4 DEF t, u
<1>3. key = [i \in I |-> key[i]]
  OBVIOUS
<1> HIDE DEF key
<1>4. GoesBy(l, ByText, key)
  <2>1. \A i \in I : key[i] \in Int
    BY <1>1, Zenon
  <2>2. key \in [I -> Int]
    BY <1>3, <2>1
  <2>3. QED
    BY <1>2, <2>2 DEF GoesBy
<1>5. /\ sorted \in Seq(S) /\ DOMAIN sorted = I
      /\ Elements(sorted) = Elements(l)
      /\ \E at \in [I -> I] :
            /\ \A k \in I : sorted[k] = l[at[k]]
            /\ \A i, j \in I : i < j => key[at[i]] <= key[at[j]]
  BY <1>4, Sliced
<1> HIDE DEF sorted
<1>6. PICK at \in [I -> I] :
            /\ \A k \in I : sorted[k] = l[at[k]]
            /\ \A i, j \in I : i < j => key[at[i]] <= key[at[j]]
  BY <1>5
<1>7. \A k \in I : Place(sorted[k].time) = key[at[k]]
  BY <1>6 DEF key
<1>8. \A i, j \in DOMAIN sorted : i < j => Place(sorted[i].time) <= Place(sorted[j].time)
  BY <1>5, <1>6, <1>7
<1>9. QED
  BY <1>5, <1>8 DEF sorted

\* By the times themselves.
LEMMA SortedByTime ==
    ASSUME NEW S, \A d \in S : d.time \in 0..99, NEW l \in Seq(S)
    PROVE  SliceStable(l, ByTime) \in Seq(S)
<1> DEFINE key == [i \in DOMAIN l |-> l[i].time]
<1>1. \A i \in DOMAIN l : l[i].time \in 0..99 /\ key[i] = l[i].time
  OBVIOUS
<1>2. \A t, u \in 0..99 : <<t, u>> \in ByTime <=> t < u
  BY DEF ByTime, Fractions
<1>3. key = [i \in DOMAIN l |-> key[i]]
  OBVIOUS
<1> HIDE DEF key
<1>4. \A i, j \in DOMAIN l : <<l[i].time, l[j].time>> \in ByTime <=> key[i] < key[j]
  BY <1>1, <1>2
<1>5. key \in [DOMAIN l -> Int]
  BY <1>1, <1>3
<1>6. GoesBy(l, ByTime, key)
  BY <1>4, <1>5 DEF GoesBy
<1>7. QED
  BY <1>6, Sliced

-----------------------------------------------------------------------------
(* The event list. OnlySelected speaks of the list and of the sheet.       *)
(* Whatever the list is next made of is of its selection already: what is  *)
(* cached of it, what each indexer answered for it, and what its stream    *)
(* has sent.                                                               *)

AllKinds == UNION {Kinds[i] : i \in DOMAIN Kinds}

ListedEvents ==
    [cluster : {kind[1] : kind \in AllKinds}, n : Nat, time : {kind[3] : kind \in AllKinds},
     indexed : {kind[2] : kind \in AllKinds}, tagged : BOOLEAN]

\* The events of a selection.
Scoped(k) == {e \in ListedEvents : Feed!InScope(k, e)}

FeedTypes ==
    /\ fGateway \in BOOLEAN
    /\ fHappened \in Seq(ListedEvents)
    /\ fSelection \in Feed!Keys
    /\ fData \in [Feed!Keys -> Seq(ListedEvents) \cup {NoData}]
    /\ DOMAIN fFlight = Feed!Keys
    /\ \A k \in Feed!Keys : fFlight[k] # Idle => DOMAIN fFlight[k] = Feed!Sources(k)
    /\ fLive \in Seq(ListedEvents)
    /\ fStream \in [of : {Idle, fSelection}, queue : Seq(Scoped(fSelection))]

AnswersOfScope ==
    \A k \in Feed!Keys :
        /\ fData[k] # NoData => fData[k] \in Seq(Scoped(k))
        /\ fFlight[k] # Idle =>
              \A s \in Feed!Sources(k) : fFlight[k][s] # NoData => fFlight[k][s] \in Seq(Scoped(k))

ListOfScope == fData[fSelection] # NoData => fLive \in Seq(Scoped(fSelection))

SheetOfScope == fDetail # Idle => fDetail.leftOver \/ Feed!InScope(fSelection, fDetail.event)

\* Without a gateway there is one selection.
OneSelection ==
    fGateway \/ (fSelection = Feed!All /\ \A k \in Feed!Keys : fFlight[k] # Idle => k = Feed!All)

FeedInv == FeedTypes /\ OneSelection /\ AnswersOfScope /\ ListOfScope /\ SheetOfScope

\* The newest entries of a list are of its kind (appendEvent, streams/page.tsx).
LEMMA NewestOf ==
    ASSUME NEW S, NEW s \in Seq(S)
    PROVE  Feed!Newest(s) \in Seq(S)
<1> DEFINE first == IF Len(s) > FeedCap THEN Len(s) - FeedCap + 1 ELSE 1
<1>1. Len(s) \in Nat /\ FeedCap \in Nat
  BY FeedAssumption
<1>2. first \in 1..(Len(s) + 1)
  BY <1>1
<1> HIDE DEF first
<1>3. SubSeq(s, first, Len(s)) \in Seq(S)
  BY <1>1, <1>2
<1>4. QED
  BY <1>3 DEF Feed!Newest, first

\* The page filters as anyone does.
LEMMA FeedPicks == ASSUME NEW l, NEW I PROVE Feed!Picked(l, I) = Picked(l, I)
BY DEF Feed!Picked, Picked, Feed!Cardinality, Cardinality

\* Lists of the events of a selection.
LEMMA SubScope ==
    ASSUME NEW k, NEW s \in Seq(Scoped(k))
    PROVE  s \in Seq(ListedEvents) /\ \A i \in DOMAIN s : Feed!InScope(k, s[i])
<1>1. Scoped(k) \subseteq ListedEvents
  BY DEF Scoped
<1>2. QED
  BY <1>1 DEF Scoped

\* The gateway and the indexers sort as anyone does.
LEMMA FeedSorts ==
    /\ \A l : Feed!SliceStable(l, Feed!ByTime) = SliceStable(l, ByTime)
    /\ \A l : Feed!SortByObservedAtAsc(l) = SliceStable(l, ByText)
<1>1. \A t : Feed!Written(t) = Written(t)
  BY DEF Feed!Written, Written
<1>2. \A t, u : Feed!TextBefore(t, u) <=> TextBefore(t, u)
  BY <1>1 DEF Feed!TextBefore, TextBefore
<1>3. Feed!ByText = ByText /\ Feed!ByTime = ByTime
  BY <1>2 DEF Feed!ByText, ByText, Feed!ByTime, ByTime, Feed!Fractions, Fractions
<1>4. \A S : Feed!Cardinality(S) = Cardinality(S)
  BY DEF Feed!Cardinality, Cardinality
<1>5. ASSUME NEW l, NEW Less PROVE Feed!SliceStable(l, Less) = SliceStable(l, Less)
  <2> DEFINE Before(i, j) ==
                 \/ <<l[i].time, l[j].time>> \in Less
                 \/ <<l[j].time, l[i].time>> \notin Less /\ i < j
  <2>1. Feed!SliceStable(l, Less) =
           [k \in DOMAIN l |->
               l[CHOOSE i \in DOMAIN l : Feed!Cardinality({j \in DOMAIN l : Before(j, i)}) = k - 1]]
    BY DEF Feed!SliceStable
  <2>2. SliceStable(l, Less) =
           [k \in DOMAIN l |-> l[CHOOSE i \in DOMAIN l : Cardinality({j \in DOMAIN l : Before(j, i)}) = k - 1]]
    BY DEF SliceStable
  <2> HIDE DEF Before
  <2>3. QED
    BY <1>4, <2>1, <2>2
<1>6. QED
  BY <1>3, <1>5 DEF Feed!SortByObservedAtAsc

\* The times of events are in the second.
LEMMA EventTimes == \A k : \A e \in Scoped(k) : e.time \in 0..99
<1>1. \A i \in DOMAIN Kinds : Kinds[i] \in SUBSET (KVClusters \X BOOLEAN \X (0..99))
  BY FeedAssumption DEF Feed!Fractions
<1>2. \A kind \in AllKinds : kind[3] \in 0..99
  <2>1. \A kind \in AllKinds : kind \in KVClusters \X BOOLEAN \X (0..99)
    BY <1>1 DEF AllKinds
  <2>2. QED
    BY <2>1
<1>3. QED
  BY <1>2 DEF Scoped, ListedEvents

\* What an indexer answers for a selection is of the selection.
LEMMA ObservedOfScope ==
    ASSUME FeedTypes, NEW k \in Feed!Keys, NEW s \in Feed!Sources(k)
    PROVE  Feed!Observed(s) \in Seq(Scoped(k))
<1> DEFINE I == {i \in DOMAIN fHappened : Feed!InScope(s, fHappened[i])}
           newest == Feed!Newest(Feed!Ring(s))
<1>1. \A i \in I : fHappened[i] \in Scoped(k)
  <2>1. \A e : Feed!InScope(s, e) => Feed!InScope(k, e)
    BY DEF Feed!Sources, Feed!InScope
  <2>2. QED
    BY <2>1 DEF FeedTypes, Scoped
<1>2. Feed!Ring(s) \in Seq(Scoped(k))
  <2>1. fHappened \in Seq(ListedEvents) /\ I \in SUBSET DOMAIN fHappened
    BY DEF FeedTypes
  <2>2. Feed!Ring(s) = Picked(fHappened, I)
    BY FeedPicks DEF Feed!Ring
  <2> HIDE DEF I
  <2>3. QED
    BY <1>1, <2>1, <2>2, PickedIs
<1>3. newest \in Seq(Scoped(k))
  BY <1>2, NewestOf
<1> HIDE DEF newest
<1>4. SliceStable(newest, ByTime) \in Seq(Scoped(k))
  BY <1>3, EventTimes, SortedByTime
<1>5. QED
  BY <1>4, FeedSorts DEF Feed!Observed, newest

\* The gateway's tag takes no event out of its selection.
LEMMA TaggedOfScope ==
    ASSUME NEW k, NEW l \in Seq(Scoped(k))
    PROVE  Feed!Tagged(l) \in Seq(Scoped(k))
<1>1. ASSUME NEW i \in 1..Len(l) PROVE [l[i] EXCEPT !.tagged = TRUE] \in Scoped(k)
  <2>1. l[i] \in Scoped(k)
    OBVIOUS
  <2>2. QED
    BY <2>1 DEF Scoped, ListedEvents, Feed!InScope
<1>2. DOMAIN l = 1..Len(l) /\ Len(l) \in Nat
  OBVIOUS
<1>3. Feed!Tagged(l) \in [1..Len(l) -> Scoped(k)]
  BY <1>1, <1>2 DEF Feed!Tagged
<1>4. QED
  BY <1>2, <1>3, SeqDef

\* The answers of the indexers, put together, are of the selection.
LEMMA MergedOfScope ==
    ASSUME NEW k \in Feed!Keys, fGateway \/ k = Feed!All, NEW parts, DOMAIN parts = Feed!Sources(k),
           \A s \in Feed!Sources(k) : parts[s] \in Seq(Scoped(k))
    PROVE  Feed!Merged(parts) \in Seq(Scoped(k))
<1> DEFINE order == Feed!SetToSeq(DOMAIN parts)
           seqs == [i \in DOMAIN order |-> Feed!Tagged(parts[order[i]])]
           flat == Feed!FlattenSeq(seqs)
<1>1. CASE ~fGateway
  <2>1. Feed!Sources(k) = {k}
    BY <1>1 DEF Feed!Sources
  <2>2. k = Feed!All
    BY <1>1
  <2>3. QED
    BY <1>1, <2>1, <2>2 DEF Feed!Merged
<1>2. CASE fGateway
  <2>1. IsFiniteSet(Feed!Sources(k))
    BY FeedAssumption, FS_Singleton DEF Feed!Sources
  <2>2. order = Decisions!SetToSeq(DOMAIN parts)
    BY DEF Feed!SetToSeq, Decisions!SetToSeq, Feed!Cardinality, Decisions!Cardinality,
           Feed!IsInjective, Decisions!IsInjective
  <2>3. order \in Seq(Feed!Sources(k))
    BY <2>1, <2>2, SetAsList
  <2> HIDE DEF order
  <2>4. \A i \in 1..Len(order) : Feed!Tagged(parts[order[i]]) \in Seq(Scoped(k))
    BY <2>3, TaggedOfScope
  <2>5. DOMAIN order = 1..Len(order) /\ Len(order) \in Nat
    BY <2>3
  <2>6. seqs \in [1..Len(order) -> Seq(Scoped(k))]
    BY <2>4, <2>5
  <2>7. seqs \in Seq(Seq(Scoped(k)))
    BY <2>5, <2>6, SeqDef
  <2> HIDE DEF seqs
  <2>8. flat = Decisions!FlattenSeq(seqs)
    BY DEF Feed!FlattenSeq, Decisions!FlattenSeq
  <2>9. flat \in Seq(Scoped(k))
    BY <2>7, <2>8, Flattened
  <2> HIDE DEF flat
  <2>10. SliceStable(flat, ByText) \in Seq(Scoped(k))
    BY <2>9, EventTimes, Sorted
  <2>11. Feed!Merged(parts) = Feed!SortByObservedAtAsc(flat)
    BY <1>2 DEF Feed!Merged, flat, seqs, order
  <2>12. QED
    BY <2>10, <2>11, FeedSorts
<1>3. QED
  BY <1>1, <1>2

\* What the page shows is in its list.
LEMMA OnScreenIsListed ==
    ASSUME FeedTypes, NEW e \in Feed!OnScreen
    PROVE  \E i \in DOMAIN fLive : e = fLive[i]
<1> DEFINE I == {i \in DOMAIN fLive : fFilter = "all" \/ fLive[i].indexed = (fFilter = "yes")}
           V == {fLive[i] : i \in DOMAIN fLive}
           l == Feed!Filtered(fLive)
<1>1. l \in Seq(V)
  <2>1. fLive \in Seq(ListedEvents) /\ I \in SUBSET DOMAIN fLive /\ \A i \in I : fLive[i] \in V
    BY DEF FeedTypes
  <2>2. l = Picked(fLive, I)
    BY FeedPicks DEF Feed!Filtered
  <2> HIDE DEF I, V, l
  <2>3. QED
    BY <2>1, <2>2, PickedIs
<1> HIDE DEF l
<1>2. \A i \in DOMAIN Feed!Reverse(l) : Feed!Reverse(l)[i] \in V
  <2> HIDE DEF V
  <2> SUFFICES ASSUME NEW i \in 1..Len(l) PROVE l[(Len(l) - i) + 1] \in V
    BY DEF Feed!Reverse
  <2>1. (Len(l) - i) + 1 \in 1..Len(l)
    BY <1>1
  <2>2. QED
    BY <1>1, <2>1
<1>3. e \in V
  BY <1>2 DEF Feed!OnScreen, Feed!PagedEvents, l
<1>4. QED
  BY <1>3

\* The page starts with nothing of anyone.
LEMMA FeedStarts == Feed!Init => FeedInv
<1> SUFFICES ASSUME Feed!Init PROVE FeedInv
  OBVIOUS
<1>1. fSelection \in Feed!Keys
  BY DEF Feed!Init, Feed!Keys
<1>2. << >> \in Seq(ListedEvents) /\ << >> \in Seq(Scoped(fSelection))
  OBVIOUS
<1>3. fStream \in [of : {Idle, fSelection}, queue : Seq(Scoped(fSelection))]
  BY <1>2 DEF Feed!Init, Feed!Opened, Feed!Closed
<1>4. fFlight = [k \in Feed!Keys |-> IF k = fSelection THEN Feed!Asked(k) ELSE Idle]
  BY DEF Feed!Init
<1>5. FeedTypes /\ OneSelection
  BY <1>1, <1>2, <1>3, <1>4 DEF Feed!Init, FeedTypes, OneSelection, Feed!Asked
<1>6. AnswersOfScope
  <2>1. \A k \in Feed!Keys : fData[k] = NoData
    BY DEF Feed!Init
  <2>2. \A k \in Feed!Keys : fFlight[k] # Idle => \A s \in Feed!Sources(k) : fFlight[k][s] = NoData
    BY <1>4 DEF Feed!Asked
  <2>3. QED
    BY <2>1, <2>2 DEF AnswersOfScope
<1>7. ListOfScope /\ SheetOfScope
  BY <1>1 DEF Feed!Init, ListOfScope, SheetOfScope
<1>8. QED
  BY <1>5, <1>6, <1>7 DEF FeedInv

\* An event is recorded.
LEMMA RecordKeeps ==
    ASSUME FeedInv, Len(fHappened) + 1 \in DOMAIN Kinds, NEW kind \in Kinds[Len(fHappened) + 1],
           Feed!RecordKVEvent(kind[1], kind[2], kind[3])
    PROVE  FeedInv'
<1> DEFINE e == [cluster |-> kind[1], n |-> Len(fHappened) + 1, time |-> kind[3], indexed |-> kind[2],
                 tagged |-> FALSE]
           q == fStream.queue
<1>1. e \in ListedEvents
  <2>1. kind \in AllKinds /\ Len(fHappened) + 1 \in Nat
    BY DEF AllKinds, FeedInv, FeedTypes
  <2>2. QED
    BY <2>1 DEF ListedEvents
<1>2. /\ fHappened' = Append(fHappened, e)
      /\ \/ fStream' = fStream
         \/ /\ fStream.of # Idle /\ Feed!InScope(fStream.of, e)
            /\ fStream' = [fStream EXCEPT !.queue = Append(@, e)]
      /\ UNCHANGED <<fGateway, fSelection, fData, fFlight, fLive, fDetail>>
  BY DEF Feed!RecordKVEvent
<1> HIDE DEF e
<1>3. fHappened' \in Seq(ListedEvents)
  BY <1>1, <1>2 DEF FeedInv, FeedTypes
<1>4. fStream' \in [of : {Idle, fSelection}, queue : Seq(Scoped(fSelection))]
  <2>1. CASE fStream' = fStream
    BY <2>1 DEF FeedInv, FeedTypes
  <2>2. CASE /\ fStream.of # Idle /\ Feed!InScope(fStream.of, e)
             /\ fStream' = [fStream EXCEPT !.queue = Append(@, e)]
    <3>1. q \in Seq(Scoped(fSelection)) /\ fStream.of = fSelection
      BY <2>2 DEF FeedInv, FeedTypes
    <3>2. e \in Scoped(fSelection)
      BY <1>1, <2>2, <3>1 DEF Scoped
    <3>3. Append(q, e) \in Seq(Scoped(fSelection))
      BY <3>1, <3>2
    <3>4. QED
      BY <2>2, <3>3 DEF FeedInv, FeedTypes
  <2>3. QED
    BY <1>2, <2>1, <2>2
<1>5. FeedTypes' /\ OneSelection' /\ AnswersOfScope' /\ ListOfScope' /\ SheetOfScope'
  BY <1>2, <1>3, <1>4 DEF FeedInv, FeedTypes, OneSelection, AnswersOfScope, ListOfScope, SheetOfScope, Scoped,
                          Feed!InScope, Feed!Keys, Feed!Sources, Feed!All
<1>6. QED
  BY <1>5 DEF FeedInv

\* Events are opened and closed, pages turned, filters chosen.
LEMMA ViewKeeps ==
    ASSUME FeedInv,
           \/ \E p \in 1..FeedCap : Feed!TurnPage(p)
           \/ \E f \in Feed!Filters : Feed!SetFilter(f)
           \/ \E e \in Feed!OnScreen : Feed!OpenDetail(e)
           \/ Feed!CloseDetail
    PROVE  FeedInv'
<1>1. /\ UNCHANGED <<fGateway, fHappened, fSelection, fData, fFlight, fLive, fStream>>
      /\ \/ fDetail' = fDetail
         \/ fDetail' = Idle
         \/ \E e \in Feed!OnScreen : fDetail' = [event |-> e, leftOver |-> fData[fSelection] = NoData]
  BY DEF Feed!TurnPage, Feed!SetFilter, Feed!OpenDetail, Feed!CloseDetail
<1>2. FeedTypes' /\ OneSelection' /\ AnswersOfScope' /\ ListOfScope'
  BY <1>1 DEF FeedInv, FeedTypes, OneSelection, AnswersOfScope, ListOfScope, Scoped, Feed!InScope, Feed!Keys,
              Feed!Sources, Feed!All
<1>3. SheetOfScope'
  <2>1. CASE fDetail' = fDetail \/ fDetail' = Idle
    BY <1>1, <2>1 DEF FeedInv, SheetOfScope, Feed!InScope
  <2>2. ASSUME NEW e \in Feed!OnScreen, fDetail' = [event |-> e, leftOver |-> fData[fSelection] = NoData]
        PROVE  SheetOfScope'
    <3>1. PICK i \in DOMAIN fLive : e = fLive[i]
      BY OnScreenIsListed DEF FeedInv
    <3>2. fData[fSelection] # NoData => Feed!InScope(fSelection, e)
      BY <3>1, SubScope DEF FeedInv, ListOfScope
    <3>3. fDetail'.event = e /\ (fDetail'.leftOver <=> fData[fSelection] = NoData)
      BY <2>2
    <3>4. QED
      BY <1>1, <3>2, <3>3 DEF SheetOfScope, Feed!InScope
  <2>3. QED
    BY <1>1, <2>1, <2>2
<1>4. QED
  BY <1>2, <1>3 DEF FeedInv

\* A poll of a selection is another one, or gone.
LEMMA FlightKeeps ==
    ASSUME FeedInv, NEW k \in Feed!Keys, fGateway \/ k = Feed!All, NEW flight,
           \/ flight = Idle
           \/ /\ DOMAIN flight = Feed!Sources(k)
              /\ \A s \in Feed!Sources(k) : flight[s] # NoData => flight[s] \in Seq(Scoped(k)),
           fFlight' = [fFlight EXCEPT ![k] = flight],
           UNCHANGED <<fGateway, fHappened, fSelection, fData, fLive, fDetail, fStream>>
    PROVE  FeedInv'
<1>1. /\ DOMAIN fFlight' = Feed!Keys /\ fFlight'[k] = flight
      /\ \A x \in Feed!Keys : x # k => fFlight'[x] = fFlight[x]
  BY DEF FeedInv, FeedTypes
<1>2. \A x \in Feed!Keys : fFlight'[x] # Idle =>
         /\ DOMAIN fFlight'[x] = Feed!Sources(x)
         /\ \A s \in Feed!Sources(x) : fFlight'[x][s] # NoData => fFlight'[x][s] \in Seq(Scoped(x))
         /\ fGateway \/ x = Feed!All
  <2> SUFFICES ASSUME NEW x \in Feed!Keys, fFlight'[x] # Idle
               PROVE  /\ DOMAIN fFlight'[x] = Feed!Sources(x)
                      /\ \A s \in Feed!Sources(x) : fFlight'[x][s] # NoData => fFlight'[x][s] \in Seq(Scoped(x))
                      /\ fGateway \/ x = Feed!All
    OBVIOUS
  <2>1. CASE x = k
    BY <1>1, <2>1
  <2>2. CASE x # k
    <3>1. fFlight'[x] = fFlight[x]
      BY <1>1, <2>2
    <3>2. QED
      BY <3>1 DEF FeedInv, FeedTypes, OneSelection, AnswersOfScope
  <2>3. QED
    BY <2>1, <2>2
<1>3. FeedTypes' /\ OneSelection' /\ AnswersOfScope'
  <2>1. \A x : Scoped(x)' = Scoped(x) /\ Feed!Sources(x)' = Feed!Sources(x)
    BY DEF Scoped, Feed!InScope, Feed!Sources
  <2>2. FeedTypes'
    BY <1>1, <1>2, <2>1 DEF FeedInv, FeedTypes, Feed!Keys
  <2>3. OneSelection'
    BY <1>2 DEF FeedInv, OneSelection, Feed!Keys, Feed!All
  <2>4. AnswersOfScope'
    BY <1>2, <2>1 DEF FeedInv, AnswersOfScope, Feed!Keys
  <2>5. QED
    BY <2>2, <2>3, <2>4
<1>4. ListOfScope' /\ SheetOfScope'
  BY DEF FeedInv, ListOfScope, SheetOfScope, Scoped, Feed!InScope, Feed!Keys
<1>5. QED
  BY <1>3, <1>4 DEF FeedInv

\* What is asked has no answer yet.
LEMMA AskedIs ==
    ASSUME NEW k
    PROVE  /\ DOMAIN Feed!Asked(k) = Feed!Sources(k)
           /\ \A s \in Feed!Sources(k) : Feed!Asked(k)[s] = NoData
BY DEF Feed!Asked

\* An indexer answers, or is left out.
LEMMA PartKeeps ==
    ASSUME FeedInv, NEW k \in Feed!Keys, NEW s \in Feed!Keys,
           Feed!GetList(k, s) \/ Feed!GetListFails(k, s)
    PROVE  FeedInv'
<1>1. /\ fFlight[k] # Idle /\ s \in DOMAIN fFlight[k]
      /\ \E part \in {Feed!Observed(s), << >>} : fFlight' = [fFlight EXCEPT ![k][s] = part]
      /\ UNCHANGED <<fGateway, fHappened, fSelection, fData, fLive, fDetail, fStream>>
  BY DEF Feed!GetList, Feed!GetListFails, Feed!Asks
<1>2. PICK part \in {Feed!Observed(s), << >>} : fFlight' = [fFlight EXCEPT ![k][s] = part]
  BY <1>1
<1>3. DOMAIN fFlight[k] = Feed!Sources(k) /\ (fGateway \/ k = Feed!All)
  BY <1>1 DEF FeedInv, FeedTypes, OneSelection
<1>4. part \in Seq(Scoped(k))
  <2>1. Feed!Observed(s) \in Seq(Scoped(k))
    BY <1>1, <1>3, ObservedOfScope DEF FeedInv
  <2>2. << >> \in Seq(Scoped(k))
    OBVIOUS
  <2>3. QED
    BY <1>2, <2>1, <2>2
<1> DEFINE flight == [fFlight[k] EXCEPT ![s] = part]
<1>5. \A x \in Feed!Sources(k) : fFlight[k][x] # NoData => fFlight[k][x] \in Seq(Scoped(k))
  BY <1>1 DEF FeedInv, AnswersOfScope
<1>6. /\ DOMAIN flight = Feed!Sources(k)
      /\ \A x \in Feed!Sources(k) : flight[x] # NoData => flight[x] \in Seq(Scoped(k))
  <2>1. DOMAIN flight = Feed!Sources(k) /\ flight[s] = part
    BY <1>1, <1>3
  <2>2. \A x \in Feed!Sources(k) : x # s => flight[x] = fFlight[k][x]
    BY <1>3
  <2> HIDE DEF flight
  <2>3. QED
    BY <1>4, <1>5, <2>1, <2>2
<1>7. fFlight' = [fFlight EXCEPT ![k] = flight]
  BY <1>2
<1> HIDE DEF flight
<1>8. QED
  BY <1>1, <1>3, <1>6, <1>7, FlightKeeps

\* Polls and their failures.
LEMMA FetchKeeps ==
    ASSUME FeedInv,
           \/ Feed!Poll
           \/ Feed!Query
           \/ \E k \in Feed!Keys : Feed!FetchFails(k)
    PROVE  FeedInv'
<1>1. UNCHANGED <<fGateway, fHappened, fSelection, fData, fLive, fDetail, fStream>>
  BY DEF Feed!Poll, Feed!Query, Feed!FetchFails
<1>2. CASE Feed!Poll \/ Feed!Query
  <2>1. fSelection \in Feed!Keys /\ (fGateway \/ fSelection = Feed!All)
    BY DEF FeedInv, FeedTypes, OneSelection
  <2>2. fFlight' = [fFlight EXCEPT ![fSelection] = Feed!Asked(fSelection)]
    BY <1>2 DEF Feed!Poll, Feed!Query
  <2>3. QED
    BY <1>1, <2>1, <2>2, AskedIs, FlightKeeps
<1>3. CASE \E k \in Feed!Keys : Feed!FetchFails(k)
  <2>1. PICK k \in Feed!Keys : Feed!FetchFails(k)
    BY <1>3
  <2>2. fFlight[k] # Idle /\ fFlight' = [fFlight EXCEPT ![k] = Idle]
    BY <2>1 DEF Feed!FetchFails
  <2>3. fGateway \/ k = Feed!All
    BY <2>2 DEF FeedInv, OneSelection
  <2>4. QED
    BY <1>1, <2>2, <2>3, FlightKeeps
<1>4. QED
  BY <1>2, <1>3

\* An answer becomes the list, unless it is the one before.
LEMMA InstallKeeps ==
    ASSUME FeedInv, NEW k \in Feed!Keys, Feed!Install(k)
    PROVE  FeedInv'
<1> DEFINE answer == Feed!Merged(fFlight[k])
<1>1. answer \in Seq(Scoped(k))
  <2>1. fFlight[k] # Idle /\ \A s \in DOMAIN fFlight[k] : fFlight[k][s] # NoData
    BY DEF Feed!Install
  <2>2. DOMAIN fFlight[k] = Feed!Sources(k) /\ (fGateway \/ k = Feed!All)
    BY <2>1 DEF FeedInv, FeedTypes, OneSelection
  <2>3. \A s \in Feed!Sources(k) : fFlight[k][s] \in Seq(Scoped(k))
    BY <2>1, <2>2 DEF FeedInv, AnswersOfScope
  <2>4. QED
    BY <2>2, <2>3, MergedOfScope
<1>2. /\ UNCHANGED <<fGateway, fHappened, fSelection, fDetail, fStream>>
      /\ fData' = [fData EXCEPT ![k] = answer] /\ fFlight' = [fFlight EXCEPT ![k] = Idle]
      /\ \/ k = fSelection /\ fLive' = Feed!Newest(fData'[k])
         \/ ~(k = fSelection /\ fData'[k] # fData[k]) /\ fLive' = fLive
  BY DEF Feed!Install, Feed!Show
<1> HIDE DEF answer
<1>3. /\ answer \in Seq(ListedEvents)
      /\ fData' \in [Feed!Keys -> Seq(ListedEvents) \cup {NoData}] /\ fData'[k] = answer
      /\ \A x \in Feed!Keys : x # k => fData'[x] = fData[x]
      /\ DOMAIN fFlight' = Feed!Keys
      /\ \A x \in Feed!Keys : fFlight'[x] # Idle => fFlight'[x] = fFlight[x] /\ fFlight[x] # Idle
  <2>1. answer \in Seq(ListedEvents)
    BY <1>1, SubScope
  <2>2. QED
    BY <1>2, <2>1 DEF FeedInv, FeedTypes
<1>4. \A x : Scoped(x)' = Scoped(x) /\ Feed!Sources(x)' = Feed!Sources(x)
  BY <1>2 DEF Scoped, Feed!InScope, Feed!Sources
<1>5. AnswersOfScope'
  <2>1. \A x \in Feed!Keys : fData'[x] # NoData => fData'[x] \in Seq(Scoped(x))
    BY <1>1, <1>3 DEF FeedInv, AnswersOfScope
  <2>2. \A x \in Feed!Keys : fFlight'[x] # Idle =>
           \A s \in Feed!Sources(x) : fFlight'[x][s] # NoData => fFlight'[x][s] \in Seq(Scoped(x))
    BY <1>3 DEF FeedInv, AnswersOfScope
  <2>3. QED
    BY <1>4, <2>1, <2>2 DEF AnswersOfScope, Feed!Keys
<1>6. fLive' \in Seq(ListedEvents) /\ (fData'[fSelection] # NoData => fLive' \in Seq(Scoped(fSelection)))
  <2>1. CASE k = fSelection /\ fLive' = Feed!Newest(fData'[k])
    <3>1. fLive' \in Seq(Scoped(fSelection))
      BY <1>1, <1>3, <2>1, NewestOf
    <3>2. QED
      BY <3>1, SubScope
  <2>2. CASE ~(k = fSelection /\ fData'[k] # fData[k]) /\ fLive' = fLive
    <3>1. fData'[fSelection] = fData[fSelection]
      BY <1>3, <2>2 DEF FeedInv, FeedTypes
    <3>2. QED
      BY <2>2, <3>1 DEF FeedInv, FeedTypes, ListOfScope
  <2>3. QED
    BY <1>2, <2>1, <2>2
<1>7. ListOfScope' /\ SheetOfScope'
  BY <1>2, <1>4, <1>6 DEF FeedInv, ListOfScope, SheetOfScope, Feed!InScope
<1>8. FeedTypes' /\ OneSelection'
  <2>1. \A x \in Feed!Keys : fFlight'[x] # Idle => DOMAIN fFlight'[x] = Feed!Sources(x)
    BY <1>3 DEF FeedInv, FeedTypes
  <2>2. FeedTypes'
    BY <1>2, <1>3, <1>4, <1>6, <2>1 DEF FeedInv, FeedTypes, Feed!Keys
  <2>3. OneSelection'
    BY <1>2, <1>3 DEF FeedInv, OneSelection, Feed!Keys, Feed!All
  <2>4. QED
    BY <2>2, <2>3
<1>9. QED
  BY <1>5, <1>7, <1>8 DEF FeedInv

\* A live event is appended to the list, unless it is there.
LEMMA AppendedIs ==
    ASSUME NEW S, NEW l \in Seq(S), NEW e \in S
    PROVE  Feed!AppendEvent(l, e) \in Seq(S)
<1>1. Append(l, e) \in Seq(S)
  OBVIOUS
<1>2. QED
  BY <1>1, NewestOf DEF Feed!AppendEvent

\* The stream hands over an event.
LEMMA MessageKeeps == ASSUME FeedInv, Feed!Message PROVE FeedInv'
<1> DEFINE q == fStream.queue
<1>1. /\ q # << >> /\ fLive' = Feed!AppendEvent(fLive, Head(q))
      /\ fStream' = [fStream EXCEPT !.queue = Tail(@)]
      /\ UNCHANGED <<fGateway, fHappened, fSelection, fData, fFlight, fDetail>>
  BY DEF Feed!Message, Feed!Show
<1>2. q \in Seq(Scoped(fSelection)) /\ fLive \in Seq(ListedEvents)
  BY DEF FeedInv, FeedTypes
<1>3. Head(q) \in Scoped(fSelection) /\ Tail(q) \in Seq(Scoped(fSelection)) /\ Head(q) \in ListedEvents
  BY <1>1, <1>2 DEF Scoped
<1>4. fLive' \in Seq(ListedEvents)
  BY <1>1, <1>2, <1>3, AppendedIs
<1>5. fData[fSelection] # NoData => fLive' \in Seq(Scoped(fSelection))
  BY <1>1, <1>3, AppendedIs DEF FeedInv, ListOfScope
<1>6. fStream' \in [of : {Idle, fSelection}, queue : Seq(Scoped(fSelection))]
  BY <1>1, <1>3 DEF FeedInv, FeedTypes
<1>7. FeedTypes' /\ OneSelection' /\ AnswersOfScope'
  BY <1>1, <1>4, <1>6 DEF FeedInv, FeedTypes, OneSelection, AnswersOfScope, Scoped, Feed!InScope, Feed!Keys,
                          Feed!Sources, Feed!All
<1>8. ListOfScope' /\ SheetOfScope'
  BY <1>1, <1>5 DEF FeedInv, ListOfScope, SheetOfScope, Scoped, Feed!InScope
<1>9. QED
  BY <1>7, <1>8 DEF FeedInv

\* A stream that is closed or just opened has nothing on its way.
LEMMA StreamsStart ==
    ASSUME NEW k, NEW S
    PROVE  /\ Feed!Closed \in [of : {Idle, k}, queue : Seq(S)]
           /\ Feed!Opened(k) \in [of : {Idle, k}, queue : Seq(S)]
<1>1. << >> \in Seq(S)
  OBVIOUS
<1>2. QED
  BY <1>1 DEF Feed!Closed, Feed!Opened

\* The stream breaks and is opened again.
LEMMA StreamKeeps == ASSUME FeedInv, Feed!StreamBreaks \/ Feed!Reconnects PROVE FeedInv'
<1>1. /\ fStream' = Feed!Closed \/ fStream' = Feed!Opened(fSelection)
      /\ UNCHANGED <<fGateway, fHappened, fSelection, fData, fFlight, fLive, fDetail>>
  BY DEF Feed!StreamBreaks, Feed!Reconnects
<1>2. fStream' \in [of : {Idle, fSelection}, queue : Seq(Scoped(fSelection))]
  BY <1>1, StreamsStart
<1>3. FeedTypes' /\ OneSelection' /\ AnswersOfScope' /\ ListOfScope' /\ SheetOfScope'
  BY <1>1, <1>2 DEF FeedInv, FeedTypes, OneSelection, AnswersOfScope, ListOfScope, SheetOfScope, Scoped,
                    Feed!InScope, Feed!Keys, Feed!Sources, Feed!All
<1>4. QED
  BY <1>3 DEF FeedInv

\* Another selection: the list, the sheet and the stream go with it.
LEMMA SelectKeeps == ASSUME FeedInv, NEW k \in Feed!Keys, Feed!Select(k) PROVE FeedInv'
<1>1. /\ fSelection' = k /\ fDetail' = Idle
      /\ fStream' = Feed!Closed \/ fStream' = Feed!Opened(k)
      /\ UNCHANGED <<fGateway, fHappened, fData>> /\ fGateway
      /\ fFlight' = fFlight \/ fFlight' = [fFlight EXCEPT ![k] = Feed!Asked(k)]
  BY DEF Feed!Select, Feed!NewStream
<1>2. /\ fData[k] = NoData => fLive' = fLive \/ fLive' = << >>
      /\ fData[k] # NoData => fLive' = Feed!Newest(fData[k])
  BY DEF Feed!Select, Feed!Show
<1>3. fStream' \in [of : {Idle, k}, queue : Seq(Scoped(k))]
  BY <1>1, StreamsStart
<1>4. fLive' \in Seq(ListedEvents) /\ (fData[k] # NoData => fLive' \in Seq(Scoped(k)))
  <2>1. CASE fData[k] = NoData
    <3>1. << >> \in Seq(ListedEvents)
      OBVIOUS
    <3>2. QED
      BY <1>2, <2>1, <3>1 DEF FeedInv, FeedTypes
  <2>2. CASE fData[k] # NoData
    <3>1. fData[k] \in Seq(Scoped(k))
      BY <2>2 DEF FeedInv, AnswersOfScope
    <3>2. fLive' \in Seq(Scoped(k))
      BY <1>2, <2>2, <3>1, NewestOf
    <3>3. QED
      BY <3>2, SubScope
  <2>3. QED
    BY <2>1, <2>2
<1>5. \A x : Scoped(x)' = Scoped(x) /\ Feed!Sources(x)' = Feed!Sources(x)
  BY <1>1 DEF Scoped, Feed!InScope, Feed!Sources
<1>6. \A x \in Feed!Keys : fFlight'[x] # Idle =>
         /\ DOMAIN fFlight'[x] = Feed!Sources(x)
         /\ \A s \in Feed!Sources(x) : fFlight'[x][s] # NoData => fFlight'[x][s] \in Seq(Scoped(x))
  <2> SUFFICES ASSUME NEW x \in Feed!Keys, fFlight'[x] # Idle
               PROVE  /\ DOMAIN fFlight'[x] = Feed!Sources(x)
                      /\ \A s \in Feed!Sources(x) : fFlight'[x][s] # NoData => fFlight'[x][s] \in Seq(Scoped(x))
    OBVIOUS
  <2>1. fFlight'[x] = fFlight[x] \/ (x = k /\ fFlight'[x] = Feed!Asked(k))
    BY <1>1 DEF FeedInv, FeedTypes
  <2>2. QED
    BY <2>1, AskedIs DEF FeedInv, FeedTypes, AnswersOfScope
<1>7. FeedTypes' /\ OneSelection'
  <2>1. DOMAIN fFlight' = Feed!Keys
    BY <1>1 DEF FeedInv, FeedTypes
  <2>2. QED
    BY <1>1, <1>3, <1>4, <1>5, <1>6, <2>1 DEF FeedInv, FeedTypes, OneSelection, Feed!Keys
<1>8. AnswersOfScope'
  BY <1>1, <1>5, <1>6 DEF FeedInv, AnswersOfScope, Feed!Keys
<1>9. ListOfScope' /\ SheetOfScope'
  BY <1>1, <1>4 DEF ListOfScope, SheetOfScope, Scoped, Feed!InScope
<1>10. QED
  BY <1>7, <1>8, <1>9 DEF FeedInv

\* Every step of the event list keeps the invariant.
LEMMA FeedKept == ASSUME FeedInv, [Feed!Next]_feedVars PROVE FeedInv'
<1>1. CASE UNCHANGED feedVars
  <2>1. UNCHANGED <<fGateway, fHappened, fSelection, fData, fFlight, fLive, fDetail, fStream>>
    BY <1>1 DEF feedVars
  <2>2. QED
    BY <2>1 DEF FeedInv, FeedTypes, OneSelection, AnswersOfScope, ListOfScope, SheetOfScope, Scoped,
                Feed!InScope, Feed!Keys, Feed!Sources, Feed!All
<1>2. CASE Feed!Next
  <2>1. Len(fHappened) < Len(Kinds) => Len(fHappened) + 1 \in DOMAIN Kinds
    <3>1. Len(fHappened) \in Nat /\ DOMAIN Kinds = 1..Len(Kinds) /\ Len(Kinds) \in Nat
      BY FeedAssumption DEF FeedInv, FeedTypes
    <3>2. QED
      BY <3>1
  <2>2. QED
    BY <1>2, <2>1, RecordKeeps, ViewKeeps, FetchKeeps, PartKeeps, InstallKeeps, MessageKeeps, StreamKeeps,
       SelectKeeps, Zenon
       DEF Feed!Next
<1>3. QED
  BY <1>1, <1>2

\* What is of the selection is what is to be shown.
LEMMA ScopeIsSelected == FeedInv => Feed!OnlySelected
<1> SUFFICES ASSUME FeedInv PROVE Feed!OnlySelected
  OBVIOUS
<1>1. fData[fSelection] # NoData => \A i \in DOMAIN fLive : Feed!InScope(fSelection, fLive[i])
  BY SubScope DEF FeedInv, ListOfScope
<1>2. QED
  BY <1>1 DEF FeedInv, SheetOfScope, Feed!OnlySelected

\* The list and the sheet are of the selection, whatever was polled, streamed
\* or under way when it changed: for any clusters, events, limits of the list
\* and of a subscriber, and any number of failures and switches
\* (streams/page.tsx:79-141).
THEOREM FeedIsOfSelection == ConsoleSpec => []OnlySelected
<1>1. ConsoleInit => FeedInv
  BY FeedStarts DEF ConsoleInit
<1>2. FeedInv /\ [ConsoleNext]_consoleVars => FeedInv'
  BY FeedKept, FeedStep
<1>3. FeedInv => OnlySelected
  BY ScopeIsSelected DEF OnlySelected
<1> QED
  BY <1>1, <1>2, <1>3, PTL DEF ConsoleSpec

-----------------------------------------------------------------------------
(* The decisions. NewestFirst speaks of the rows and of what is missing    *)
(* between them. What is on its way of an indexer is a stretch of what it  *)
(* recorded, and stays one while it records more.                          *)

\* The gateway sorts and writes the times as anyone does.
LEMMA DecisionsSort ==
    /\ \A items : Decisions!SortByTimestampAsc(items) = SliceStable(items, ByText)
    /\ \A t : Decisions!Written(t) = Written(t)
<1>1. \A t : Decisions!Written(t) = Written(t)
  BY DEF Decisions!Written, Written
<1>2. \A t, u : Decisions!TextBefore(t, u) <=> TextBefore(t, u)
  BY <1>1 DEF Decisions!TextBefore, TextBefore
<1>3. Decisions!ByText = ByText
  BY <1>2 DEF Decisions!ByText, ByText, Decisions!Fractions, Fractions
<1>4. \A S : Decisions!Cardinality(S) = Cardinality(S)
  BY DEF Decisions!Cardinality, Cardinality
<1>5. ASSUME NEW l, NEW Less PROVE Decisions!SliceStable(l, Less) = SliceStable(l, Less)
  <2> DEFINE Before(i, j) ==
                 \/ <<l[i].time, l[j].time>> \in Less
                 \/ <<l[j].time, l[i].time>> \notin Less /\ i < j
  <2>1. Decisions!SliceStable(l, Less) =
           [k \in DOMAIN l |->
               l[CHOOSE i \in DOMAIN l : Decisions!Cardinality({j \in DOMAIN l : Before(j, i)}) = k - 1]]
    BY DEF Decisions!SliceStable
  <2>2. SliceStable(l, Less) =
           [k \in DOMAIN l |-> l[CHOOSE i \in DOMAIN l : Cardinality({j \in DOMAIN l : Before(j, i)}) = k - 1]]
    BY DEF SliceStable
  <2> HIDE DEF Before
  <2>3. QED
    BY <1>4, <2>1, <2>2
<1>6. QED
  BY <1>1, <1>3, <1>5 DEF Decisions!SortByTimestampAsc

\* A text that is not before the other belongs to a time that is not older, as
\* far as the pages can tell.
LEMMA LaterIsNotOlder ==
    ASSUME NEW d, NEW e, d.time \in 0..99, e.time \in 0..99, Place(e.time) <= Place(d.time)
    PROVE  Decisions!NotOlder(d, e)
<1> DEFINE t == d.time
           u == e.time
<1>1. PICK x \in 0..9, r \in 0..9 :
              /\ t = 10 * x + r
              /\ \/ t = 0 /\ Written(t) = << >> /\ Place(t) = 110
                 \/ t # 0 /\ r = 0 /\ Written(t) = <<x>> /\ Place(t) = 11 * x + 10
                 \/ r # 0 /\ Written(t) = <<x, r>> /\ Place(t) = 11 * x + r
  BY WrittenAs
<1>2. PICK y \in 0..9, s \in 0..9 :
              /\ u = 10 * y + s
              /\ \/ u = 0 /\ Written(u) = << >> /\ Place(u) = 110
                 \/ u # 0 /\ s = 0 /\ Written(u) = <<y>> /\ Place(u) = 11 * y + 10
                 \/ s # 0 /\ Written(u) = <<y, s>> /\ Place(u) = 11 * y + s
  BY WrittenAs
<1> SUFFICES t >= u \/ Decisions!IsPrefix(Written(t), Written(u))
  BY DecisionsSort DEF Decisions!NotOlder
<1> HIDE DEF t, u
<1>3. CASE Written(t) = << >>
  <2>1. Written(u) \in Seq(0..9)
    <3>1. << >> \in Seq(0..9) /\ <<y>> \in Seq(0..9) /\ <<y, s>> \in Seq(0..9)
      OBVIOUS
    <3>2. QED
      BY <1>2, <3>1
  <2>2. QED
    BY <1>3, <2>1 DEF Decisions!IsPrefix
<1>4. CASE t # 0 /\ r = 0 /\ Written(t) = <<x>> /\ Place(t) = 11 * x + 10
  <2>1. CASE y = x /\ s # 0 /\ Written(u) = <<y, s>>
    BY <1>4, <2>1 DEF Decisions!IsPrefix
  <2>2. CASE ~(y = x /\ s # 0 /\ Written(u) = <<y, s>>)
    <3>1. t >= u
      BY <1>1, <1>2, <1>4, <2>2 DEF t, u
    <3>2. QED
      BY <3>1
  <2>3. QED
    BY <2>1, <2>2
<1>5. CASE r # 0 /\ Place(t) = 11 * x + r
  <2>1. t >= u
    BY <1>1, <1>2, <1>5 DEF t, u
  <2>2. QED
    BY <2>1
<1>6. QED
  BY <1>1, <1>3, <1>4, <1>5

Decided ==
    [source : Decisions!Sources, backend : KVClusters, time : Times,
     outcome : UNION {Judgments[s] : s \in Decisions!Sources}]

\* An indexer decides for itself.
Own(d) == d.source \in KVClusters => d.backend = d.source

DecisionTypes ==
    /\ dGateway \in BOOLEAN /\ dSelected \in Selections
    /\ dJudged \subseteq Decided
    /\ dRecorded \in [Decisions!Sources -> Seq(Decided)]
    /\ dParts # None => dParts \in [dSelected -> Seq(Decided) \cup {None}]
    /\ dData \in Seq(Decided)

\* A decision is recorded once, at its source.
RecordedOnce ==
    /\ \A d \in dJudged : Own(d) /\ d \notin Elements(dRecorded[d.source])
    /\ \A s \in Decisions!Sources :
          /\ \A i \in DOMAIN dRecorded[s] : dRecorded[s][i].source = s /\ Own(dRecorded[s][i])
          /\ \A i, j \in DOMAIN dRecorded[s] : dRecorded[s][i] = dRecorded[s][j] => i = j

\* What a list has after its first a entries, up to entry b.
Between(l, a, b) == {l[i] : i \in (a + 1)..b}

\* E is what a stretch of the list has.
IsStretch(l, E) == \E a \in Nat : \E b \in 0..Len(l) : E = Between(l, a, b)

PartsAreStretches ==
    dParts # None => \A s \in dSelected : dParts[s] # None => IsStretch(dRecorded[s], Elements(dParts[s]))

\* What is shown of a source is a stretch of its decisions, less what is of
\* clusters that are not selected.
ShownOf(E, s) == \A d : d \in Elements(dData) /\ d.source = s <=> d \in E /\ d.backend \in dSelected

DataIsStretches == \A s \in Decisions!Sources : \E E : IsStretch(dRecorded[s], E) /\ ShownOf(E, s)

DataInOrder ==
    dGateway => \A i, j \in DOMAIN dData : i < j => Place(dData[i].time) <= Place(dData[j].time)

DecisionsInv == DecisionTypes /\ RecordedOnce /\ PartsAreStretches /\ DataIsStretches /\ DataInOrder

\* Nothing is a stretch.
LEMMA NothingIsStretch == ASSUME NEW S, NEW l \in Seq(S) PROVE IsStretch(l, {})
<1>1. Between(l, 0, 0) = {}
  BY DEF Between
<1>2. 0 \in Nat /\ 0 \in 0..Len(l)
  OBVIOUS
<1>3. QED
  BY <1>1, <1>2 DEF IsStretch

\* A stretch remains one when more is recorded.
LEMMA StretchStays ==
    ASSUME NEW S, NEW l \in Seq(S), NEW d \in S, NEW E, IsStretch(l, E)
    PROVE  IsStretch(Append(l, d), E)
<1>1. PICK a \in Nat, b \in 0..Len(l) : E = Between(l, a, b)
  BY DEF IsStretch
<1>2. /\ b \in 0..Len(Append(l, d))
      /\ \A i \in (a + 1)..b : Append(l, d)[i] = l[i]
  OBVIOUS
<1>3. E = Between(Append(l, d), a, b)
  BY <1>1, <1>2 DEF Between
<1>4. QED
  BY <1>2, <1>3 DEF IsStretch

\* The newest entries of a list are those after some first ones.
LEMMA NewestIs ==
    ASSUME NEW S, NEW l \in Seq(S), NEW n \in Nat
    PROVE  /\ Decisions!Newest(l, n) \in Seq(S)
           /\ \E a \in 0..Len(l) :
                 /\ Len(Decisions!Newest(l, n)) = Len(l) - a
                 /\ \A i \in 1..(Len(l) - a) : Decisions!Newest(l, n)[i] = l[a + i]
<1> DEFINE N == Len(l)
<1>1. N \in Nat
  OBVIOUS
<1>2. CASE N > n
  <2> DEFINE sub == SubSeq(l, N - n + 1, N)
  <2>1. N - n \in 0..N /\ N - n + 1 \in 1..(N + 1)
    BY <1>1, <1>2
  <2>2. Decisions!Newest(l, n) = sub
    BY <1>2 DEF Decisions!Newest
  <2>3. /\ sub \in Seq(S) /\ Len(sub) = N - (N - n)
        /\ \A i \in 1..(N - (N - n)) : sub[i] = l[(N - n) + i]
    BY <1>1, <1>2, <2>1
  <2> HIDE DEF sub
  <2>4. QED
    BY <2>1, <2>2, <2>3
<1>3. CASE ~(N > n)
  <2>1. Decisions!Newest(l, n) = l
    BY <1>3 DEF Decisions!Newest
  <2>2. 0 \in 0..N /\ N = N - 0 /\ \A i \in 1..(N - 0) : l[i] = l[0 + i]
    BY <1>1
  <2>3. QED
    BY <2>1, <2>2
<1>4. QED
  BY <1>2, <1>3

\* They are a stretch of it.
LEMMA NewestIsStretch ==
    ASSUME NEW S, NEW l \in Seq(S), NEW n \in Nat
    PROVE  Decisions!Newest(l, n) \in Seq(S) /\ IsStretch(l, Elements(Decisions!Newest(l, n)))
<1> DEFINE N == Len(l)
           newest == Decisions!Newest(l, n)
<1>1. PICK a \in 0..N : newest \in Seq(S) /\ Len(newest) = N - a /\ \A i \in 1..(N - a) : newest[i] = l[a + i]
  BY NewestIs
<1> HIDE DEF newest
<1>2. N \in Nat /\ N \in 0..N /\ a \in Nat /\ DOMAIN newest = 1..(N - a)
  BY <1>1
<1>3. \A x : x \in Elements(newest) => x \in Between(l, a, N)
  <2> SUFFICES ASSUME NEW i \in 1..(N - a) PROVE newest[i] \in Between(l, a, N)
    BY <1>2 DEF Elements
  <2>1. a + i \in (a + 1)..N /\ newest[i] = l[a + i]
    BY <1>1, <1>2
  <2>2. QED
    BY <2>1 DEF Between
<1>4. \A x : x \in Between(l, a, N) => x \in Elements(newest)
  <2> SUFFICES ASSUME NEW i \in (a + 1)..N PROVE l[i] \in Elements(newest)
    BY DEF Between
  <2> DEFINE j == i - a
  <2>1. j \in DOMAIN newest /\ newest[j] = l[i]
    BY <1>1, <1>2
  <2> HIDE DEF j
  <2>2. QED
    BY <2>1 DEF Elements
<1>5. Elements(newest) = Between(l, a, N)
  BY <1>3, <1>4
<1>6. QED
  BY <1>1, <1>2, <1>5 DEF IsStretch, newest

\* At first nothing is decided, and nothing shown.
LEMMA DecisionsStart == Decisions!Init => DecisionsInv
<1> SUFFICES ASSUME Decisions!Init PROVE DecisionsInv
  OBVIOUS
<1>1. DecisionTypes
  <2>1. << >> \in Seq(Decided)
    OBVIOUS
  <2>2. QED
    BY <2>1 DEF Decisions!Init, DecisionTypes
<1>2. RecordedOnce /\ PartsAreStretches /\ DataInOrder
  BY DEF Decisions!Init, RecordedOnce, PartsAreStretches, DataInOrder
<1>3. DataIsStretches
  <2>1. \A d : d \notin Elements(dData)
    BY DEF Decisions!Init, Elements
  <2>2. \A s \in Decisions!Sources : IsStretch(dRecorded[s], {})
    BY <1>1, NothingIsStretch DEF DecisionTypes
  <2>3. QED
    BY <2>1, <2>2 DEF DataIsStretches, ShownOf
<1>4. QED
  BY <1>1, <1>2, <1>3 DEF DecisionsInv

\* A decision gets its time.
LEMMA JudgeKeeps ==
    ASSUME DecisionsInv, NEW s \in Decisions!Sources, NEW b \in KVClusters, NEW t \in Times,
           NEW outcome \in Judgments[s], Decisions!Judge(s, b, t, outcome)
    PROVE  DecisionsInv'
<1> DEFINE d == [source |-> s, backend |-> b, time |-> t, outcome |-> outcome]
<1>1. /\ dJudged' = dJudged \cup {d} /\ Decisions!Judges(s, b) /\ ~Decisions!Contains(dRecorded[s], d)
      /\ UNCHANGED <<dGateway, dSelected, dRecorded, dParts, dData>>
  BY DEF Decisions!Judge
<1>2. d \in Decided
  BY DEF Decided
<1>3. Own(d)
  BY <1>1, DecisionsAssumption DEF Own, Decisions!Judges
<1>4. d.source = s /\ d \notin Elements(dRecorded[s])
  <2>1. DOMAIN dRecorded[s] = 1..Len(dRecorded[s])
    BY DEF DecisionsInv, DecisionTypes
  <2>2. QED
    BY <1>1, <2>1 DEF Decisions!Contains, Elements
<1> HIDE DEF d
<1>5. DecisionTypes'
  BY <1>1, <1>2 DEF DecisionsInv, DecisionTypes
<1>6. RecordedOnce'
  BY <1>1, <1>3, <1>4 DEF DecisionsInv, RecordedOnce, Own, Elements
<1>7. PartsAreStretches' /\ DataIsStretches' /\ DataInOrder'
  BY <1>1 DEF DecisionsInv, PartsAreStretches, DataIsStretches, ShownOf, DataInOrder
<1>8. QED
  BY <1>5, <1>6, <1>7 DEF DecisionsInv

\* A decision is recorded.
LEMMA DecisionKeeps ==
    ASSUME DecisionsInv, NEW d \in dJudged, Decisions!Record(d)
    PROVE  DecisionsInv'
<1> DEFINE s == d.source
           l == dRecorded[s]
<1>1. /\ dJudged' = dJudged \ {d} /\ dRecorded' = [dRecorded EXCEPT ![s] = Append(l, d)]
      /\ UNCHANGED <<dGateway, dSelected, dParts, dData>>
  BY DEF Decisions!Record
<1>2. d \in Decided /\ s \in Decisions!Sources /\ Own(d) /\ d \notin Elements(l) /\ l \in Seq(Decided)
  BY DEF DecisionsInv, DecisionTypes, RecordedOnce, Decided
<1>3. /\ dRecorded'[s] = Append(l, d)
      /\ \A x \in Decisions!Sources : x # s => dRecorded'[x] = dRecorded[x]
  BY <1>1, <1>2 DEF DecisionsInv, DecisionTypes
<1> HIDE DEF l
<1>4. Append(l, d) \in Seq(Decided)
  BY <1>2
<1>5. DecisionTypes'
  BY <1>1, <1>4 DEF DecisionsInv, DecisionTypes
<1>6. RecordedOnce'
  <2>1. ASSUME NEW e \in dJudged' PROVE Own(e) /\ e \notin Elements(dRecorded'[e.source])
    <3>1. e \in dJudged /\ e # d /\ Own(e) /\ e \notin Elements(dRecorded[e.source]) /\ e.source \in Decisions!Sources
      BY <1>1 DEF DecisionsInv, RecordedOnce, DecisionTypes, Decided
    <3>2. CASE e.source = s
      <4>1. Elements(Append(l, d)) \subseteq Elements(l) \cup {d}
        BY <1>2 DEF Elements
      <4>2. QED
        BY <1>3, <3>1, <3>2, <4>1 DEF l
    <3>3. CASE e.source # s
      BY <1>3, <3>1, <3>3
    <3>4. QED
      BY <3>2, <3>3, <3>1
  <2>2. ASSUME NEW x \in Decisions!Sources
        PROVE  /\ \A i \in DOMAIN dRecorded'[x] : dRecorded'[x][i].source = x /\ Own(dRecorded'[x][i])
               /\ \A i, j \in DOMAIN dRecorded'[x] : dRecorded'[x][i] = dRecorded'[x][j] => i = j
    <3>1. /\ \A i \in DOMAIN dRecorded[x] : dRecorded[x][i].source = x /\ Own(dRecorded[x][i])
          /\ \A i, j \in DOMAIN dRecorded[x] : dRecorded[x][i] = dRecorded[x][j] => i = j
      BY DEF DecisionsInv, RecordedOnce
    <3>2. CASE x = s
      <4>1. \A i \in 1..(Len(l) + 1) : \/ i \in 1..Len(l) /\ Append(l, d)[i] = l[i] /\ l[i] # d
                                       \/ i = Len(l) + 1 /\ Append(l, d)[i] = d
        BY <1>2 DEF Elements
      <4>2. DOMAIN Append(l, d) = 1..(Len(l) + 1) /\ DOMAIN l = 1..Len(l)
        BY <1>2
      <4>3. \A i \in DOMAIN Append(l, d) : Append(l, d)[i].source = x /\ Own(Append(l, d)[i])
        BY <1>2, <3>1, <3>2, <4>1, <4>2 DEF l
      <4>4. \A i, j \in DOMAIN Append(l, d) : Append(l, d)[i] = Append(l, d)[j] => i = j
        BY <3>1, <3>2, <4>1, <4>2 DEF l
      <4>5. QED
        BY <1>3, <3>2, <4>3, <4>4
    <3>3. CASE x # s
      BY <1>3, <3>1, <3>3
    <3>4. QED
      BY <3>2, <3>3
  <2>3. QED
    BY <2>1, <2>2 DEF RecordedOnce, Own, Elements
<1>7. ASSUME NEW x \in Decisions!Sources, NEW E, IsStretch(dRecorded[x], E)
      PROVE  IsStretch(dRecorded'[x], E)
  BY <1>2, <1>3, <1>7, StretchStays DEF l
<1>8. PartsAreStretches'
  <2>1. dSelected \subseteq Decisions!Sources
    BY DecisionsAssumption DEF DecisionsInv, DecisionTypes, Decisions!Sources
  <2>2. QED
    BY <1>1, <1>7, <2>1 DEF DecisionsInv, PartsAreStretches
<1>9. DataIsStretches' /\ DataInOrder'
  BY <1>1, <1>7 DEF DecisionsInv, DataIsStretches, ShownOf, DataInOrder
<1>10. QED
  BY <1>5, <1>6, <1>8, <1>9 DEF DecisionsInv

\* A stretch of a list has entries of it.
LEMMA OfStretch ==
    ASSUME NEW S, NEW l \in Seq(S), NEW E, IsStretch(l, E), NEW x \in E
    PROVE  \E i \in DOMAIN l : x = l[i]
<1>1. PICK a \in Nat, b \in 0..Len(l) : E = Between(l, a, b)
  BY DEF IsStretch
<1>2. PICK i \in (a + 1)..b : x = l[i]
  BY <1>1 DEF Between
<1>3. i \in DOMAIN l
  BY <1>1
<1>4. QED
  BY <1>2, <1>3

\* The page asks the indexers.
LEMMA AskKeeps ==
    ASSUME DecisionsInv,
           \/ Decisions!Ask
           \/ \E s \in KVClusters : Decisions!GetList(s)
           \/ \E s \in KVClusters : Decisions!GetListFails(s)
    PROVE  DecisionsInv'
<1>1. /\ UNCHANGED <<dGateway, dSelected, dJudged, dRecorded, dData>>
      /\ \/ dParts' = [s \in dSelected |-> None]
         \/ \E s \in dSelected : \E answer \in {<< >>, Decisions!Ring(s)} :
               dParts # None /\ dParts' = [dParts EXCEPT ![s] = answer]
  BY DEF Decisions!Ask, Decisions!GetList, Decisions!GetListFails, Decisions!Asks, DecisionsInv, DecisionTypes
<1>2. RecordedOnce' /\ DataIsStretches' /\ DataInOrder'
  BY <1>1 DEF DecisionsInv, RecordedOnce, Own, Elements, DataIsStretches, ShownOf, DataInOrder
<1>3. (dParts' # None => dParts' \in [dSelected -> Seq(Decided) \cup {None}]) /\ PartsAreStretches'
  <2>1. CASE dParts' = [s \in dSelected |-> None]
    BY <1>1, <2>1 DEF PartsAreStretches
  <2>2. ASSUME NEW s \in dSelected, NEW answer \in {<< >>, Decisions!Ring(s)},
               dParts # None, dParts' = [dParts EXCEPT ![s] = answer]
        PROVE  (dParts' # None => dParts' \in [dSelected -> Seq(Decided) \cup {None}]) /\ PartsAreStretches'
    <3>1. s \in Decisions!Sources /\ dRecorded[s] \in Seq(Decided) /\ DecisionCap \in Nat
      BY DecisionsAssumption DEF DecisionsInv, DecisionTypes, Decisions!Sources
    <3>2. answer \in Seq(Decided) /\ IsStretch(dRecorded[s], Elements(answer))
      <4>1. CASE answer = << >>
        <5>1. Elements(<< >>) = {} /\ << >> \in Seq(Decided)
          BY DEF Elements
        <5>2. QED
          BY <3>1, <4>1, <5>1, NothingIsStretch
      <4>2. CASE answer = Decisions!Ring(s)
        BY <3>1, <4>2, NewestIsStretch DEF Decisions!Ring
      <4>3. QED
        BY <4>1, <4>2
    <3>3. dParts' \in [dSelected -> Seq(Decided) \cup {None}]
      BY <2>2, <3>2 DEF DecisionsInv, DecisionTypes
    <3>4. \A x \in dSelected : dParts'[x] # None => IsStretch(dRecorded[x], Elements(dParts'[x]))
      BY <2>2, <3>2 DEF DecisionsInv, DecisionTypes, PartsAreStretches
    <3>5. QED
      BY <1>1, <3>3, <3>4 DEF PartsAreStretches
  <2>3. QED
    BY <1>1, <2>1, <2>2
<1>4. DecisionTypes'
  BY <1>1, <1>3 DEF DecisionsInv, DecisionTypes
<1>5. QED
  BY <1>2, <1>3, <1>4 DEF DecisionsInv

\* What is left of a list has the elements at the positions picked.
LEMMA PickedElements ==
    ASSUME NEW S, NEW l \in Seq(S), NEW I \in SUBSET DOMAIN l
    PROVE  Decisions!Picked(l, I) \in Seq(S) /\ Elements(Decisions!Picked(l, I)) = {l[i] : i \in I}
<1>1. Decisions!Picked(l, I) = Picked(l, I)
  BY DEF Decisions!Picked, Picked, Decisions!Cardinality, Cardinality
<1>2. Picked(l, I) \in Seq(S)
  <2>1. \A i \in I : l[i] \in S
    OBVIOUS
  <2>2. QED
    BY <2>1, PickedIs
<1>3. PICK at \in [1..Cardinality(I) -> I] :
              /\ Picked(l, I) = [n \in 1..Cardinality(I) |-> l[at[n]]]
              /\ \A i \in I : \E n \in 1..Cardinality(I) : at[n] = i
  BY PickedFacts
<1>4. Elements(Picked(l, I)) = {l[i] : i \in I}
  BY <1>3 DEF Elements
<1>5. QED
  BY <1>1, <1>2, <1>4

\* The gateway's own decisions, of clusters that are selected.
LEMMA LocalIs ==
    ASSUME DecisionsInv
    PROVE  /\ Decisions!LocalDecisions \in Seq(Decided)
           /\ \E E : /\ IsStretch(dRecorded[Decisions!Local], E)
                     /\ \A d : d \in Elements(Decisions!LocalDecisions) <=> d \in E /\ d.backend \in dSelected
<1> DEFINE s == Decisions!Local
           ring == Decisions!Ring(s)
           I == {i \in DOMAIN ring : ring[i].backend \in dSelected}
<1>1. dRecorded[s] \in Seq(Decided)
  BY DEF DecisionsInv, DecisionTypes, Decisions!Sources
<1>2. CASE dGateway
  <2>1. ring \in Seq(Decided) /\ IsStretch(dRecorded[s], Elements(ring))
    BY <1>1, NewestIsStretch, DecisionsAssumption DEF Decisions!Ring
  <2>2. Decisions!LocalDecisions = Decisions!Picked(ring, I)
    BY <1>2 DEF Decisions!LocalDecisions
  <2> HIDE DEF ring
  <2>3. I \in SUBSET DOMAIN ring
    OBVIOUS
  <2>4. {ring[i] : i \in I} = {d \in Elements(ring) : d.backend \in dSelected}
    BY DEF Elements
  <2> HIDE DEF I
  <2>5. /\ Decisions!LocalDecisions \in Seq(Decided)
        /\ Elements(Decisions!LocalDecisions) = {d \in Elements(ring) : d.backend \in dSelected}
    BY <2>1, <2>2, <2>3, <2>4, PickedElements
  <2>6. QED
    BY <2>1, <2>5
<1>3. CASE ~dGateway
  <2>1. Decisions!LocalDecisions = << >>
    BY <1>3 DEF Decisions!LocalDecisions
  <2>2. << >> \in Seq(Decided) /\ Elements(<< >>) = {}
    BY DEF Elements
  <2>3. IsStretch(dRecorded[s], {})
    BY <1>1, NothingIsStretch
  <2>4. QED
    BY <2>1, <2>2, <2>3
<1>4. QED
  BY <1>2, <1>3

\* The answers of the indexers, one behind the other.
LEMMA FlatIs ==
    ASSUME DecisionsInv, dParts # None, \A s \in DOMAIN dParts : dParts[s] # None
    PROVE  LET order == Decisions!SetToSeq(DOMAIN dParts)
               flat == Decisions!FlattenSeq([i \in DOMAIN order |-> dParts[order[i]]])
           IN  /\ flat \in Seq(Decided)
               /\ \A x : x \in Elements(flat) <=> \E s \in dSelected : x \in Elements(dParts[s])
<1> DEFINE order == Decisions!SetToSeq(DOMAIN dParts)
           lists == [i \in DOMAIN order |-> dParts[order[i]]]
           flat == Decisions!FlattenSeq(lists)
<1>1. DOMAIN dParts = dSelected /\ \A s \in dSelected : dParts[s] \in Seq(Decided)
  BY DEF DecisionsInv, DecisionTypes
<1>2. IsFiniteSet(dSelected)
  BY DecisionsAssumption DEF DecisionsInv, DecisionTypes
<1>3. order \in Seq(dSelected) /\ \A x \in dSelected : \E i \in DOMAIN order : order[i] = x
  BY <1>1, <1>2, SetAsList
<1> HIDE DEF order
<1>4. /\ DOMAIN order = 1..Len(order) /\ Len(order) \in Nat
      /\ \A i \in DOMAIN order : order[i] \in dSelected
  BY <1>3
<1>5. lists \in Seq(Seq(Decided))
  <2>1. lists \in [1..Len(order) -> Seq(Decided)]
    BY <1>1, <1>4
  <2> HIDE DEF lists
  <2>2. QED
    BY <1>4, <2>1, SeqDef
<1>6. /\ flat \in Seq(Decided)
      /\ \A x : x \in Elements(flat) <=> \E i \in DOMAIN lists : x \in Elements(lists[i])
  <2> HIDE DEF lists
  <2>1. QED
    BY <1>5, Flattened
<1> HIDE DEF flat
<1>7. \A x : x \in Elements(flat) <=> \E s \in dSelected : x \in Elements(dParts[s])
  <2>1. \A i \in DOMAIN order : lists[i] = dParts[order[i]]
    OBVIOUS
  <2>2. DOMAIN lists = DOMAIN order
    OBVIOUS
  <2> HIDE DEF lists
  <2>3. QED
    BY <1>3, <1>4, <1>6, <2>1, <2>2
<1>8. QED
  BY <1>6, <1>7 DEF flat, order

\* The answers are put together.
LEMMA MergeKeeps == ASSUME DecisionsInv, Decisions!Merge PROVE DecisionsInv'
<1> DEFINE order == Decisions!SetToSeq(DOMAIN dParts)
           flat == Decisions!FlattenSeq([i \in DOMAIN order |-> dParts[order[i]]])
           own == Decisions!LocalDecisions
           merged == flat \o own
<1>1. /\ dParts # None /\ \A s \in DOMAIN dParts : dParts[s] # None
      /\ dData' = IF dGateway THEN Decisions!SortByTimestampAsc(merged) ELSE merged
      /\ dParts' = None
      /\ UNCHANGED <<dGateway, dSelected, dJudged, dRecorded>>
  BY DEF Decisions!Merge
<1>2. /\ flat \in Seq(Decided)
      /\ \A x : x \in Elements(flat) <=> \E s \in dSelected : x \in Elements(dParts[s])
  BY <1>1, FlatIs
<1>3. own \in Seq(Decided)
  BY LocalIs
<1> HIDE DEF flat, own
<1>4. merged \in Seq(Decided) /\ Elements(merged) = Elements(flat) \cup Elements(own)
  BY <1>2, <1>3, ElementsOfBoth
<1> HIDE DEF merged
<1>5. \A d \in Decided : d.time \in 0..99
  BY DecisionsAssumption DEF Decided
<1>6. dData' \in Seq(Decided) /\ Elements(dData') = Elements(merged)
  BY <1>1, <1>4, <1>5, Sorted, DecisionsSort
<1>7. dGateway => \A i, j \in DOMAIN dData' : i < j => Place(dData'[i].time) <= Place(dData'[j].time)
  BY <1>1, <1>4, <1>5, Sorted, DecisionsSort
<1>8. DecisionTypes'
  BY <1>1, <1>6 DEF DecisionsInv, DecisionTypes
<1>9. RecordedOnce' /\ PartsAreStretches' /\ DataInOrder'
  BY <1>1, <1>7 DEF DecisionsInv, RecordedOnce, Own, Elements, PartsAreStretches, DataInOrder
<1>10. \A d : d \in Elements(dData') <=> d \in Elements(own) \/ \E s \in dSelected : d \in Elements(dParts[s])
  BY <1>2, <1>4, <1>6
<1>11. dSelected \subseteq KVClusters /\ Decisions!Local \notin KVClusters
  BY DecisionsAssumption DEF DecisionsInv, DecisionTypes
<1>12. ASSUME NEW s \in Decisions!Sources, NEW E, IsStretch(dRecorded[s], E), NEW d \in E
       PROVE  d.source = s /\ Own(d)
  <2>1. PICK i \in DOMAIN dRecorded[s] : d = dRecorded[s][i]
    BY <1>12, OfStretch DEF DecisionsInv, DecisionTypes
  <2>2. QED
    BY <2>1 DEF DecisionsInv, RecordedOnce
<1>13. ASSUME NEW s \in dSelected
       PROVE  /\ IsStretch(dRecorded[s], Elements(dParts[s]))
              /\ \A d \in Elements(dParts[s]) : d.source = s /\ d.backend = s
  <2>1. s \in Decisions!Sources /\ s \in DOMAIN dParts /\ s \in KVClusters
    BY <1>1, <1>11 DEF DecisionsInv, DecisionTypes, Decisions!Sources
  <2>2. IsStretch(dRecorded[s], Elements(dParts[s]))
    BY <1>1, <2>1 DEF DecisionsInv, PartsAreStretches
  <2>3. QED
    BY <1>12, <2>1, <2>2 DEF Own
<1>14. PICK F : /\ IsStretch(dRecorded[Decisions!Local], F)
                /\ \A d : d \in Elements(own) <=> d \in F /\ d.backend \in dSelected
  BY LocalIs DEF own
<1>15. \A d \in F : d.source = Decisions!Local
  BY <1>12, <1>14 DEF Decisions!Sources
<1>16. ASSUME NEW s \in Decisions!Sources
       PROVE  \E E : /\ IsStretch(dRecorded[s], E)
                     /\ \A d : d \in Elements(dData') /\ d.source = s <=> d \in E /\ d.backend \in dSelected
  <2>1. CASE s \in dSelected
    <3>1. s # Decisions!Local
      BY <1>11, <2>1
    <3>2. \A d : d \in Elements(dData') /\ d.source = s <=> d \in Elements(dParts[s]) /\ d.backend \in dSelected
      BY <1>10, <1>13, <1>14, <1>15, <2>1, <3>1
    <3>3. QED
      BY <1>13, <2>1, <3>2
  <2>2. CASE s = Decisions!Local
    <3>1. \A d : d \in Elements(dData') /\ d.source = s <=> d \in F /\ d.backend \in dSelected
      BY <1>10, <1>11, <1>13, <1>14, <1>15, <2>2
    <3>2. QED
      BY <1>14, <2>2, <3>1
  <2>3. CASE s \notin dSelected /\ s # Decisions!Local
    <3>1. \A d : ~(d \in Elements(dData') /\ d.source = s)
      BY <1>10, <1>13, <1>14, <1>15, <2>3
    <3>2. IsStretch(dRecorded[s], {})
      BY NothingIsStretch DEF DecisionsInv, DecisionTypes
    <3>3. QED
      BY <3>1, <3>2
  <2>4. QED
    BY <2>1, <2>2, <2>3
<1>17. DataIsStretches'
  BY <1>1, <1>16 DEF DataIsStretches, ShownOf
<1>18. QED
  BY <1>8, <1>9, <1>17 DEF DecisionsInv

\* Every step of the decisions keeps the invariant.
LEMMA DecisionsKept == ASSUME DecisionsInv, [Decisions!Next]_decisionsVars PROVE DecisionsInv'
<1>1. CASE UNCHANGED decisionsVars
  <2>1. UNCHANGED <<dGateway, dSelected, dJudged, dRecorded, dParts, dData>>
    BY <1>1 DEF decisionsVars
  <2>2. DecisionTypes' /\ RecordedOnce'
    BY <2>1 DEF DecisionsInv, DecisionTypes, RecordedOnce, Own, Elements
  <2>3. PartsAreStretches' /\ DataIsStretches' /\ DataInOrder'
    BY <2>1 DEF DecisionsInv, PartsAreStretches, DataIsStretches, ShownOf, DataInOrder
  <2>4. QED
    BY <2>2, <2>3 DEF DecisionsInv
<1>2. CASE Decisions!Next
  BY <1>2, JudgeKeeps, DecisionKeeps, AskKeeps, MergeKeeps, Zenon DEF Decisions!Next
<1>3. QED
  BY <1>1, <1>2

\* A list the other way round.
LEMMA ReverseIs ==
    ASSUME NEW S, NEW l \in Seq(S)
    PROVE  /\ Decisions!Reverse(l) \in Seq(S) /\ Len(Decisions!Reverse(l)) = Len(l)
           /\ \A i \in 1..Len(l) : /\ Len(l) - i + 1 \in 1..Len(l)
                                   /\ Decisions!Reverse(l)[i] = l[Len(l) - i + 1]
<1> DEFINE N == Len(l)
           reverse == Decisions!Reverse(l)
<1>1. N \in Nat /\ \A i \in 1..N : N - i + 1 \in 1..N /\ l[N - i + 1] \in S
  OBVIOUS
<1>2. reverse = [i \in 1..N |-> l[N - i + 1]]
  BY DEF Decisions!Reverse
<1> HIDE DEF reverse
<1>3. reverse \in [1..N -> S]
  BY <1>1, <1>2
<1>4. reverse \in Seq(S) /\ Len(reverse) = N
  BY <1>1, <1>3, SeqDef
<1>5. QED
  BY <1>1, <1>2, <1>4 DEF reverse

\* Later in the answer is not older.
LEMMA DataNotOlder ==
    ASSUME DecisionsInv, dGateway, NEW i \in DOMAIN dData, NEW j \in DOMAIN dData, j < i
    PROVE  Decisions!NotOlder(dData[i], dData[j])
<1>1. dData[i].time \in 0..99 /\ dData[j].time \in 0..99
  <2>1. dData[i] \in Decided /\ dData[j] \in Decided
    BY DEF DecisionsInv, DecisionTypes
  <2>2. dData[i].time \in Times /\ dData[j].time \in Times
    BY <2>1 DEF Decided
  <2>3. QED
    BY <2>2, DecisionsAssumption
<1>2. Place(dData[j].time) <= Place(dData[i].time)
  BY DEF DecisionsInv, DataInOrder
<1>3. QED
  BY <1>1, <1>2, LaterIsNotOlder

\* The rows are in the order of time, whatever is filtered.
LEMMA RowsInOrder ==
    ASSUME DecisionsInv, dGateway, NEW f \in Decisions!Filters,
           NEW i \in DOMAIN Decisions!Rows(f), NEW j \in DOMAIN Decisions!Rows(f), i < j
    PROVE  Decisions!NotOlder(Decisions!Rows(f)[i], Decisions!Rows(f)[j])
<1> DEFINE N == Len(dData)
           reverse == Decisions!Reverse(dData)
           I == {x \in DOMAIN reverse : f = "all" \/ reverse[x].outcome = f}
           C == Cardinality(I)
<1>1. dData \in Seq(Decided) /\ N \in Nat /\ DOMAIN dData = 1..N
  BY DEF DecisionsInv, DecisionTypes
<1>2. /\ reverse \in Seq(Decided) /\ DOMAIN reverse = 1..N
      /\ \A x \in 1..N : N - x + 1 \in 1..N /\ reverse[x] = dData[N - x + 1]
  BY <1>1, ReverseIs
<1>3. Decisions!Rows(f) = Picked(reverse, I)
  <2>1. Decisions!Rows(f) = Decisions!Picked(reverse, I)
    BY DEF Decisions!Rows
  <2> HIDE DEF reverse, I
  <2>2. Decisions!Picked(reverse, I) = Picked(reverse, I)
    BY DEF Decisions!Picked, Picked, Decisions!Cardinality, Cardinality
  <2>3. QED
    BY <2>1, <2>2
<1> HIDE DEF reverse
<1>4. I \in SUBSET DOMAIN reverse
  OBVIOUS
<1> HIDE DEF I
<1>5. PICK at \in [1..C -> I] :
              /\ Picked(reverse, I) = [n \in 1..C |-> reverse[at[n]]]
              /\ \A n, m \in 1..C : n < m => at[n] < at[m]
  BY <1>2, <1>4, PickedFacts
<1>6. i \in 1..C /\ j \in 1..C /\ at[i] < at[j] /\ at[i] \in 1..N /\ at[j] \in 1..N
  BY <1>2, <1>3, <1>4, <1>5
<1> DEFINE x == N - at[i] + 1
           y == N - at[j] + 1
<1>7. x \in DOMAIN dData /\ y \in DOMAIN dData /\ y < x
  BY <1>1, <1>6
<1>8. Decisions!Rows(f)[i] = dData[x] /\ Decisions!Rows(f)[j] = dData[y]
  BY <1>2, <1>3, <1>5, <1>6
<1> HIDE DEF x, y
<1>9. QED
  BY <1>7, <1>8, DataNotOlder

\* The overview leaves out what is not newer than what it shows.
LEMMA LatestInOrder ==
    ASSUME DecisionsInv, dGateway, NEW i \in DOMAIN Decisions!LatestRows, NEW j \in DOMAIN dData
    PROVE  \/ dData[j] \in Decisions!ToSet(Decisions!LatestRows)
           \/ Decisions!NotOlder(Decisions!LatestRows[i], dData[j])
<1> DEFINE N == Len(dData)
           newest == Decisions!Newest(dData, Latest)
           shown == Decisions!LatestRows
<1>1. dData \in Seq(Decided) /\ N \in Nat /\ DOMAIN dData = 1..N /\ Latest \in Nat
  BY DecisionsAssumption DEF DecisionsInv, DecisionTypes
<1>2. PICK a \in 0..N : newest \in Seq(Decided) /\ Len(newest) = N - a
                        /\ \A k \in 1..(N - a) : newest[k] = dData[a + k]
  BY <1>1, NewestIs
<1>3. shown = Decisions!Reverse(newest)
  BY DEF Decisions!LatestRows
<1> HIDE DEF newest, shown
<1>4. /\ DOMAIN shown = 1..(N - a)
      /\ \A k \in 1..(N - a) : ((N - a) - k) + 1 \in 1..(N - a) /\ shown[k] = newest[((N - a) - k) + 1]
  <2>1. shown \in Seq(Decided) /\ Len(shown) = N - a
    BY <1>2, <1>3, ReverseIs
  <2>2. \A k \in 1..Len(newest) :
           Len(newest) - k + 1 \in 1..Len(newest) /\ shown[k] = newest[Len(newest) - k + 1]
    BY <1>2, <1>3, ReverseIs
  <2>3. QED
    BY <1>1, <1>2, <2>1, <2>2
<1>5. \A k \in 1..(N - a) : (N - k) + 1 \in 1..N /\ shown[k] = dData[(N - k) + 1]
  <2> SUFFICES ASSUME NEW k \in 1..(N - a) PROVE (N - k) + 1 \in 1..N /\ shown[k] = dData[(N - k) + 1]
    OBVIOUS
  <2>1. a + (((N - a) - k) + 1) = (N - k) + 1
    BY <1>1
  <2>2. shown[k] = dData[a + (((N - a) - k) + 1)]
    BY <1>2, <1>4
  <2>3. QED
    BY <1>1, <2>1, <2>2
<1>6. CASE j > a
  <2> DEFINE k == (N - j) + 1
  <2>1. k \in 1..(N - a) /\ (N - k) + 1 = j
    BY <1>1, <1>6
  <2> HIDE DEF k
  <2>2. shown[k] = dData[j] /\ k \in DOMAIN shown
    BY <1>4, <1>5, <2>1
  <2>3. QED
    BY <2>2 DEF Decisions!ToSet, shown
<1>7. CASE ~(j > a)
  <2> DEFINE x == (N - i) + 1
  <2>1. i \in 1..(N - a)
    BY <1>4 DEF shown
  <2>2. x \in DOMAIN dData /\ j < x
    BY <1>1, <1>7, <2>1
  <2>3. shown[i] = dData[x]
    BY <1>5, <2>1
  <2> HIDE DEF x
  <2>4. Decisions!NotOlder(dData[x], dData[j])
    BY <2>2, DataNotOlder
  <2>5. QED
    BY <2>3, <2>4 DEF shown
<1>8. QED
  BY <1>6, <1>7

\* Between two decisions that are shown none of the selection is missing.
LEMMA NoneMissing ==
    ASSUME DecisionsInv, NEW s \in Decisions!Sources,
           NEW i \in DOMAIN dRecorded[s], NEW j \in DOMAIN dRecorded[s], NEW k \in DOMAIN dRecorded[s],
           i < j, j < k, {dRecorded[s][i], dRecorded[s][k]} \subseteq Elements(dData),
           dRecorded[s][j].backend \in dSelected
    PROVE  dRecorded[s][j] \in Elements(dData)
<1> DEFINE l == dRecorded[s]
<1>1. PICK E : IsStretch(l, E) /\ ShownOf(E, s)
  BY DEF DecisionsInv, DataIsStretches
<1>2. PICK a \in Nat, b \in 0..Len(l) : E = Between(l, a, b)
  BY <1>1 DEF IsStretch
<1>3. /\ l \in Seq(Decided) /\ Len(l) \in Nat /\ DOMAIN l = 1..Len(l)
      /\ \A x \in DOMAIN l : l[x].source = s
      /\ \A x, y \in DOMAIN l : l[x] = l[y] => x = y
  BY DEF DecisionsInv, DecisionTypes, RecordedOnce
<1>4. \A x \in DOMAIN l : l[x] \in E => x \in (a + 1)..b
  <2> SUFFICES ASSUME NEW x \in DOMAIN l, l[x] \in E PROVE x \in (a + 1)..b
    OBVIOUS
  <2>1. PICK y \in (a + 1)..b : l[x] = l[y]
    BY <1>2 DEF Between
  <2>2. y \in DOMAIN l
    BY <1>2, <1>3
  <2>3. QED
    BY <1>3, <2>1, <2>2
<1>5. l[i] \in E /\ l[k] \in E
  BY <1>1, <1>3 DEF ShownOf
<1>6. i \in (a + 1)..b /\ k \in (a + 1)..b
  BY <1>4, <1>5
<1>7. j \in (a + 1)..b
  BY <1>2, <1>3, <1>6
<1>8. l[j] \in E
  BY <1>2, <1>7 DEF Between
<1>9. QED
  BY <1>1, <1>8 DEF ShownOf

\* The invariant is what the property asks for.
LEMMA OrderIsTimes == DecisionsInv => Decisions!NewestFirst
<1> SUFFICES ASSUME DecisionsInv PROVE Decisions!NewestFirst
  OBVIOUS
<1>1. \A l : Decisions!ToSet(l) = Elements(l)
  BY DEF Decisions!ToSet, Elements
<1>2. ASSUME dGateway
      PROVE  /\ \A f \in Decisions!Filters : \A i, j \in DOMAIN Decisions!Rows(f) :
                   i < j => Decisions!NotOlder(Decisions!Rows(f)[i], Decisions!Rows(f)[j])
             /\ \A i \in DOMAIN Decisions!LatestRows, j \in DOMAIN dData :
                   \/ dData[j] \in Decisions!ToSet(Decisions!LatestRows)
                   \/ Decisions!NotOlder(Decisions!LatestRows[i], dData[j])
  BY <1>2, RowsInOrder, LatestInOrder
<1>3. ASSUME NEW s \in Decisions!Sources, NEW i \in DOMAIN dRecorded[s], NEW j \in DOMAIN dRecorded[s],
             NEW k \in DOMAIN dRecorded[s],
             i < j, j < k, {dRecorded[s][i], dRecorded[s][k]} \subseteq Decisions!ToSet(dData),
             dRecorded[s][j].backend \in dSelected
      PROVE  dRecorded[s][j] \in Decisions!ToSet(dData)
  <2>1. {dRecorded[s][i], dRecorded[s][k]} \subseteq Elements(dData)
    BY <1>1, <1>3, Zenon
  <2>2. dRecorded[s][j] \in Elements(dData)
    BY <1>3, <2>1, NoneMissing
  <2>3. QED
    BY <1>1, <2>2, Zenon
<1>4. QED
  BY <1>2, <1>3, Zenon DEF Decisions!NewestFirst

\* The rows of several indexers are in the order of time, as far as its text
\* tells, the overview leaves out no newer one, and of no source is one missing
\* between two that are shown: for any indexers, selections, numbers of
\* decisions, lengths of the rings and failures, and decisions whose recording
\* overtakes each other or comes between the answers of a request
\* (gateway.go:375-407, 1143-1147, decisions/page.tsx:37-167).
THEOREM DecisionsAreInOrder == ConsoleSpec => []NewestFirst
<1>1. ConsoleInit => DecisionsInv
  BY DecisionsStart DEF ConsoleInit
<1>2. DecisionsInv /\ [ConsoleNext]_consoleVars => DecisionsInv'
  BY DecisionsKept, DecisionsStep
<1>3. DecisionsInv => NewestFirst
  BY OrderIsTimes DEF NewestFirst
<1> QED
  BY <1>1, <1>2, <1>3, PTL DEF ConsoleSpec

-----------------------------------------------------------------------------
(* The policies. UntouchedKeepsVerdicts and CreatedDecides speak of the    *)
(* rule that a call brings. A condition means what it meant after it was   *)
(* shown and sent, whatever its field and operator are, and the scope and  *)
(* the other conditions together are those of the rule; so a form whose    *)
(* conditions were left alone still has the verdicts of the rule it was    *)
(* opened with, or is as a new one was, and so has the call that it was    *)
(* sent with, whatever happens until the call arrives.                     *)

\* A condition of a rule as the form shows it, and one of the form as it is sent.
Drafted(c) == Policies!Condition(c.field, c.op, c.value.parts)
Parsed(c) == [field |-> c.field, op |-> c.op, value |-> Policies!ParseConditionValue(c.field, c.op, c.text)]

\* The operators of a condition.
LEMMA MatchesIs ==
    ASSUME NEW q, NEW c
    PROVE  /\ c.op = "eq" => (Policies!Matches(q, c) <=> Policies!Equals(q[c.field], c.value))
           /\ c.op = "neq" => (Policies!Matches(q, c) <=> ~Policies!Equals(q[c.field], c.value))
           /\ c.op = "in" => (Policies!Matches(q, c) <=> Policies!ListContains(c.value, q[c.field]))
           /\ c.op = "not_in" => (Policies!Matches(q, c) <=> ~Policies!ListContains(c.value, q[c.field]))
           /\ c.op \in Policies!Ordered =>
                 (Policies!Matches(q, c) <=> Policies!CompareNumeric(q[c.field], c.value, c.op))
<1>1. CASE c.op = "eq"
  BY <1>1 DEF Policies!Matches, Policies!Ordered
<1>2. CASE c.op = "neq"
  BY <1>2 DEF Policies!Matches, Policies!Ordered
<1>3. CASE c.op = "in"
  BY <1>3 DEF Policies!Matches, Policies!Ordered
<1>4. CASE c.op = "not_in"
  BY <1>4 DEF Policies!Matches, Policies!Ordered
<1>5. CASE c.op \in Policies!Ordered
  BY <1>5 DEF Policies!Matches, Policies!Ordered
<1>6. QED
  BY <1>1, <1>2, <1>3, <1>4, <1>5

\* A condition with the same field, operator and value.
LEMMA MatchesSame ==
    ASSUME NEW q, NEW c, NEW d, c.op \in Policies!Ops, d.field = c.field, d.op = c.op, d.value = c.value
    PROVE  Policies!Matches(q, d) <=> Policies!Matches(q, c)
<1>1. c.op \in {"eq", "neq", "in", "not_in"} \cup Policies!Ordered
  BY DEF Policies!Ops
<1>2. QED
  BY <1>1, MatchesIs

\* A number as it is sent.
LEMMA NumberSent ==
    ASSUME NEW text
    PROVE  Policies!ParseSingleValue("input_tokens", text) =
              IF text = << >> THEN <<"0">>
              ELSE IF Len(text) = 1 /\ text[1] \in DOMAIN Number THEN text ELSE << >>
<1>1. Policies!NumericField("input_tokens") /\ ~Policies!BooleanField("input_tokens")
  BY DEF Policies!NumericField, Policies!BooleanField
<1>2. QED
  BY <1>1, Zenon DEF Policies!ParseSingleValue

\* A scalar means what it meant after it was shown and sent.
LEMMA ScalarSurvives ==
    ASSUME NEW c \in PolicyConditions, c.field = "cluster_id" \/ c.value.parts # << >>,
           c.op \notin {"in", "not_in"}, NEW b \in DOMAIN ClusterOf, NEW q \in Policies!Requests(b)
    PROVE  Policies!Matches(q, Parsed(Drafted(c))) <=> Policies!Matches(q, c)
<1> DEFINE d == Parsed(Drafted(c))
           text == c.value.parts
           single == Policies!ParseSingleValue(c.field, text)
<1>1. /\ c.field \in Policies!Fields /\ c.op \in Policies!Ops /\ text \in Seq(PolicyParts) /\ c.value.list = FALSE
      /\ Policies!BooleanField(c.field) => Len(text) = 1 /\ text[1] \in {"true", "false"}
  BY DEF PolicyConditions, WellWritten
<1>2. d.field = c.field /\ d.op = c.op /\ d.value = [list |-> FALSE, parts |-> single]
  BY DEF Parsed, Drafted, Policies!Condition, Policies!ParseConditionValue
<1>3. c.value = [list |-> FALSE, parts |-> text]
  BY <1>1 DEF PolicyConditions
<1> DEFINE actual == q[c.field]
<1>4. c.field = "input_tokens" => actual \in DOMAIN Number
  BY DEF Policies!Requests
<1> HIDE DEF d, single
<1>5. CASE single = text
  BY <1>1, <1>2, <1>3, <1>5, MatchesSame DEF d
<1>6. CASE c.field = "input_tokens" /\ single = << >> /\ ~(Len(text) = 1 /\ text[1] \in DOMAIN Number)
  <2>1. ~Policies!Equals(actual, c.value) /\ ~Policies!Equals(actual, d.value)
    <3>1. text # <<actual>> /\ << >> # <<actual>>
      <4>1. actual \in DOMAIN Number
        BY <1>4, <1>6
      <4> HIDE DEF text, actual
      <4>2. Len(<<actual>>) = 1 /\ <<actual>>[1] = actual /\ Len(<< >>) = 0
        OBVIOUS
      <4>3. text # <<actual>>
        BY <1>6, <4>1, <4>2
      <4>4. QED
        BY <4>2, <4>3
    <3>2. d.value.parts = << >>
      BY <1>2, <1>6
    <3> HIDE DEF text, actual
    <3>3. QED
      BY <3>1, <3>2 DEF Policies!Equals, text
  <2>2. \A op : ~Policies!CompareNumeric(actual, c.value, op) /\ ~Policies!CompareNumeric(actual, d.value, op)
    <3>1. d.value.parts = << >> /\ Len(<< >>) # 1
      BY <1>2, <1>6
    <3>2. \A v, op : Policies!CompareNumeric(actual, v, op) => Len(v.parts) = 1 /\ v.parts[1] \in DOMAIN Number
      <4> HIDE DEF actual
      <4>1. QED
        BY DEF Policies!CompareNumeric
    <3>3. QED
      BY <1>6, <3>1, <3>2
  <2>3. c.op \in {"eq", "neq"} \cup Policies!Ordered
    BY <1>1 DEF Policies!Ops
  <2>4. QED
    BY <1>2, <2>1, <2>2, <2>3, MatchesIs DEF d
<1>7. single = text \/ (c.field = "input_tokens" /\ single = << >> /\ ~(Len(text) = 1 /\ text[1] \in DOMAIN Number))
  <2>1. CASE c.field = "cluster_id"
    BY <2>1 DEF single, Policies!ParseSingleValue, Policies!NumericField, Policies!BooleanField
  <2>2. CASE c.field = "input_tokens"
    <3>1. text # << >>
      BY <2>2
    <3>2. single = IF Len(text) = 1 /\ text[1] \in DOMAIN Number THEN text ELSE << >>
      BY <2>2, <3>1, NumberSent DEF single
    <3>3. QED
      BY <2>2, <3>2
  <2>3. CASE c.field = "tokenized"
    <3>1. Len(text) = 1 /\ text[1] \in {"true", "false"}
      BY <1>1, <2>3 DEF Policies!BooleanField
    <3>2. text = <<"true">> \/ text = <<"false">>
      BY <1>1, <3>1
    <3>3. single = IF text = <<"true">> THEN text ELSE <<"false">>
      BY <2>3 DEF single, Policies!ParseSingleValue, Policies!NumericField, Policies!BooleanField
    <3>4. QED
      BY <3>2, <3>3
  <2>4. QED
    BY <1>1, <2>1, <2>2, <2>3 DEF Policies!Fields
<1>8. QED
  BY <1>5, <1>6, <1>7 DEF d

\* The elements of a list are what it contains.
LEMMA ContainsIsElement ==
    ASSUME NEW S, NEW l \in Seq(S), NEW x
    PROVE  Policies!Contains(l, x) <=> x \in Elements(l)
<1>1. DOMAIN l = 1..Len(l)
  OBVIOUS
<1>2. QED
  BY <1>1 DEF Policies!Contains, Elements

\* One part of a list, sent by itself.
LEMMA PartSent ==
    ASSUME NEW x \in PolicyParts, NEW field \in Policies!Fields
    PROVE  LET single == Policies!ParseSingleValue(field, <<x>>)
           IN  /\ single \in Seq(PolicyParts)
               /\ field = "cluster_id" => single = <<x>>
               /\ field = "input_tokens" => single = IF x \in DOMAIN Number THEN <<x>> ELSE << >>
               /\ field = "tokenized" => single = IF x = "true" THEN <<"true">> ELSE <<"false">>
<1>1. /\ <<x>> # << >> /\ Len(<<x>>) = 1 /\ <<x>>[1] = x /\ (<<x>> = <<"true">> <=> x = "true")
      /\ <<x>> \in Seq(PolicyParts) /\ << >> \in Seq(PolicyParts)
  OBVIOUS
<1>2. "false" \in PolicyParts /\ <<"false">> \in Seq(PolicyParts)
  BY DEF PolicyParts
<1>3. CASE field = "cluster_id"
  BY <1>1, <1>3 DEF Policies!ParseSingleValue, Policies!NumericField, Policies!BooleanField
<1>4. CASE field = "input_tokens"
  BY <1>1, <1>4, NumberSent
<1>5. CASE field = "tokenized"
  BY <1>1, <1>2, <1>5 DEF Policies!ParseSingleValue, Policies!NumericField, Policies!BooleanField
<1>6. QED
  BY <1>3, <1>4, <1>5 DEF Policies!Fields

\* A list is sent part by part.
LEMMA ListSent ==
    ASSUME NEW field \in Policies!Fields, NEW op \in {"in", "not_in"}, NEW text \in Seq(PolicyParts), text # << >>
    PROVE  LET v == Policies!ParseConditionValue(field, op, text)
           IN  /\ v.list = TRUE /\ v.parts \in Seq(PolicyParts)
               /\ v = [list |-> v.list, parts |-> v.parts]
               /\ \A x : x \in Elements(v.parts) <=>
                           \E i \in DOMAIN text : x \in Elements(Policies!ParseSingleValue(field, <<text[i]>>))
<1> DEFINE seqs == [i \in DOMAIN text |-> Policies!ParseSingleValue(field, <<text[i]>>)]
           flat == Policies!FlattenSeq(seqs)
<1>1. Policies!ParseConditionValue(field, op, text) = [list |-> TRUE, parts |-> flat]
  BY DEF Policies!ParseConditionValue
<1>2. seqs \in Seq(Seq(PolicyParts))
  <2>1. Len(text) \in Nat /\ DOMAIN text = 1..Len(text) /\ \A i \in DOMAIN text : text[i] \in PolicyParts
    OBVIOUS
  <2>2. \A i \in DOMAIN text : Policies!ParseSingleValue(field, <<text[i]>>) \in Seq(PolicyParts)
    BY <2>1, PartSent
  <2>3. seqs \in [1..Len(text) -> Seq(PolicyParts)]
    BY <2>1, <2>2
  <2> HIDE DEF seqs
  <2>4. QED
    BY <2>1, <2>3, SeqDef
<1>3. \A i \in DOMAIN text : seqs[i] = Policies!ParseSingleValue(field, <<text[i]>>)
  OBVIOUS
<1>4. DOMAIN seqs = DOMAIN text
  OBVIOUS
<1> HIDE DEF seqs
<1>5. flat = Decisions!FlattenSeq(seqs)
  BY DEF Policies!FlattenSeq, Decisions!FlattenSeq
<1>6. flat \in Seq(PolicyParts) /\ \A x : x \in Elements(flat) <=> \E i \in DOMAIN seqs : x \in Elements(seqs[i])
  BY <1>2, <1>5, Flattened
<1> HIDE DEF flat
<1> DEFINE v == Policies!ParseConditionValue(field, op, text)
<1>7. v.list = TRUE /\ v.parts = flat /\ v = [list |-> v.list, parts |-> v.parts]
  BY <1>1
<1> HIDE DEF v
<1>8. \A x : x \in Elements(v.parts) <=>
                \E i \in DOMAIN text : x \in Elements(Policies!ParseSingleValue(field, <<text[i]>>))
  BY <1>3, <1>4, <1>6, <1>7
<1>9. QED
  BY <1>6, <1>7, <1>8 DEF v

\* A list means what it meant after it was shown and sent.
LEMMA ListSurvives ==
    ASSUME NEW c \in PolicyConditions, c.field = "cluster_id" \/ c.value.parts # << >>,
           c.op \in {"in", "not_in"}, NEW b \in DOMAIN ClusterOf, NEW q \in Policies!Requests(b)
    PROVE  Policies!Matches(q, Parsed(Drafted(c))) <=> Policies!Matches(q, c)
<1> DEFINE d == Parsed(Drafted(c))
           text == c.value.parts
           actual == q[c.field]
<1>1. /\ c.field \in Policies!Fields /\ text \in Seq(PolicyParts) /\ c.value.list \in BOOLEAN
      /\ c.value.list \/ Len(text) <= 1
      /\ Policies!BooleanField(c.field) => \A i \in DOMAIN text : text[i] \in {"true", "false"}
  BY DEF PolicyConditions, WellWritten
<1>2. d.field = c.field /\ d.op = c.op /\ d.value = Policies!ParseConditionValue(c.field, c.op, text)
  BY DEF Parsed, Drafted, Policies!Condition
<1>3. c.field = "input_tokens" => actual \in DOMAIN Number
  BY DEF Policies!Requests
<1> HIDE DEF d
<1>4. d.value.list = TRUE /\ (Policies!Contains(d.value.parts, actual) <=> actual \in Elements(text))
  <2>1. CASE text = << >>
    <3>1. c.field = "cluster_id"
      BY <2>1
    <3>2. d.value = [list |-> TRUE, parts |-> text]
      BY <1>2, <2>1, <3>1 DEF Policies!ParseConditionValue, Policies!ParseSingleValue, Policies!NumericField,
                              Policies!BooleanField
    <3>3. QED
      BY <1>1, <3>2, ContainsIsElement
  <2>2. CASE text # << >>
    <3> DEFINE parts == d.value.parts
               sent(i) == Policies!ParseSingleValue(c.field, <<text[i]>>)
    <3>1. /\ d.value.list = TRUE /\ parts \in Seq(PolicyParts)
          /\ \A x : x \in Elements(parts) <=> \E i \in DOMAIN text : x \in Elements(sent(i))
      <4> DEFINE v == Policies!ParseConditionValue(c.field, c.op, text)
      <4>1. /\ v.list = TRUE /\ v.parts \in Seq(PolicyParts)
            /\ \A x : x \in Elements(v.parts) <=> \E i \in DOMAIN text : x \in Elements(sent(i))
        <5> HIDE DEF text
        <5>1. QED
          BY <1>1, <2>2, ListSent
      <4> HIDE DEF v
      <4>2. d.value = v
        BY <1>2 DEF v
      <4>3. QED
        BY <4>1, <4>2
    <3>2. \A i \in DOMAIN text : actual \in Elements(sent(i)) <=> actual = text[i]
      <4> SUFFICES ASSUME NEW i \in DOMAIN text PROVE actual \in Elements(sent(i)) <=> actual = text[i]
        OBVIOUS
      <4>1. text[i] \in PolicyParts
        BY <1>1
      <4>2. \A y : Elements(<<y>>) = {y}
        BY DEF Elements
      <4>3. Elements(<< >>) = {}
        BY DEF Elements
      <4>4. CASE c.field = "cluster_id"
        BY <1>1, <4>1, <4>2, <4>4, PartSent
      <4>5. CASE c.field = "input_tokens"
        <5>1. sent(i) = IF text[i] \in DOMAIN Number THEN <<text[i]>> ELSE << >>
          BY <1>1, <4>1, <4>5, PartSent
        <5>2. QED
          BY <1>3, <4>2, <4>3, <4>5, <5>1
      <4>6. CASE c.field = "tokenized"
        <5>1. sent(i) = IF text[i] = "true" THEN <<"true">> ELSE <<"false">>
          BY <1>1, <4>1, <4>6, PartSent
        <5>2. text[i] \in {"true", "false"}
          BY <1>1, <4>6 DEF Policies!BooleanField
        <5>3. QED
          BY <4>2, <5>1, <5>2
      <4>7. QED
        BY <1>1, <4>4, <4>5, <4>6 DEF Policies!Fields
    <3> HIDE DEF parts, sent, actual
    <3>3. actual \in Elements(parts) <=> actual \in Elements(text)
      BY <3>1, <3>2 DEF Elements
    <3>4. QED
      BY <3>1, <3>3, ContainsIsElement DEF parts
  <2>3. QED
    BY <2>1, <2>2
<1>5. Policies!ListContains(d.value, actual) <=> actual \in Elements(text)
  BY <1>4 DEF Policies!ListContains, Policies!Equals
<1>6. Policies!ListContains(c.value, actual) <=> actual \in Elements(text)
  <2>1. CASE c.value.list
    BY <1>1, <2>1, ContainsIsElement DEF Policies!ListContains, Policies!Equals
  <2>2. CASE ~c.value.list
    <3> HIDE DEF text, actual
    <3>1. text = << >> \/ text = <<text[1]>>
      <4>1. Len(text) = 0 \/ Len(text) = 1
        <5>1. Len(text) <= 1
          BY <1>1, <2>2, Zenon
        <5>2. Len(text) \in Nat
          BY <1>1
        <5>3. \A n \in Nat : n <= 1 => n = 0 \/ n = 1
          OBVIOUS
        <5>4. QED
          BY <5>1, <5>2, <5>3, Zenon
      <4>2. Len(text) = 0 => text = << >>
        BY <1>1
      <4>3. Len(text) = 1 => text = <<text[1]>>
        BY <1>1
      <4>4. QED
        BY <4>1, <4>2, <4>3
    <3>2. (text = <<actual>>) <=> actual \in Elements(text)
      <4>1. \A y : (<<y>> = <<actual>> <=> y = actual) /\ << >> # <<actual>>
        OBVIOUS
      <4>2. Elements(<< >>) = {} /\ \A y : Elements(<<y>>) = {y}
        BY DEF Elements
      <4>3. QED
        BY <3>1, <4>1, <4>2
    <3>3. QED
      BY <2>2, <3>2 DEF Policies!ListContains, Policies!Equals, text
  <2>3. QED
    BY <2>1, <2>2
<1>7. QED
  BY <1>2, <1>5, <1>6 DEF Policies!Matches, d

\* A condition means what it meant after it was shown and sent.
LEMMA ConditionSurvives ==
    ASSUME NEW c \in PolicyConditions, c.field = "cluster_id" \/ c.value.parts # << >>,
           NEW b \in DOMAIN ClusterOf, NEW q \in Policies!Requests(b)
    PROVE  Policies!Matches(q, Parsed(Drafted(c))) <=> Policies!Matches(q, c)
<1>1. CASE c.op \in {"in", "not_in"}
  BY <1>1, ListSurvives
<1>2. CASE c.op \notin {"in", "not_in"}
  BY <1>2, ScalarSurvives
<1>3. QED
  BY <1>1, <1>2

\* Conditions of the form, and its states.
Drafts == [field : Policies!Fields, op : Policies!Ops, text : Seq(PolicyParts)]

FormStates ==
    [scope : Seq(PolicyParts), conditions : Seq(Drafts), action : PolicyActions, enabled : BOOLEAN]

\* What a condition of the form is sent as.
LEMMA ParsedIsCondition ==
    ASSUME NEW c \in Drafts
    PROVE  Parsed(c) \in PolicyConditions
<1> DEFINE v == Policies!ParseConditionValue(c.field, c.op, c.text)
           text == c.text
           single == Policies!ParseSingleValue(c.field, text)
<1>1. c.field \in Policies!Fields /\ c.op \in Policies!Ops /\ text \in Seq(PolicyParts)
  BY DEF Drafts
<1>2. "0" \in PolicyParts /\ "true" \in PolicyParts /\ "false" \in PolicyParts
  BY DEF PolicyParts
<1>3. /\ single \in Seq(PolicyParts)
      /\ Policies!BooleanField(c.field) => single = <<"true">> \/ single = <<"false">>
  <2>1. << >> \in Seq(PolicyParts) /\ <<"0">> \in Seq(PolicyParts) /\ <<"false">> \in Seq(PolicyParts)
    BY <1>2
  <2>2. CASE c.field = "cluster_id"
    BY <1>1, <2>1, <2>2 DEF Policies!ParseSingleValue, Policies!NumericField, Policies!BooleanField
  <2>3. CASE c.field = "input_tokens"
    <3>1. single = IF text = << >> THEN <<"0">>
                   ELSE IF Len(text) = 1 /\ text[1] \in DOMAIN Number THEN text ELSE << >>
      BY <2>3, NumberSent
    <3>2. ~Policies!BooleanField(c.field)
      BY <2>3 DEF Policies!BooleanField
    <3> HIDE DEF single, text
    <3>3. QED
      BY <1>1, <2>1, <3>1, <3>2
  <2>4. CASE c.field = "tokenized"
    <3>1. single = IF text = <<"true">> THEN text ELSE <<"false">>
      BY <2>4 DEF Policies!ParseSingleValue, Policies!NumericField, Policies!BooleanField
    <3> HIDE DEF single, text
    <3>2. QED
      BY <1>1, <2>1, <3>1
  <2>5. QED
    BY <1>1, <2>2, <2>3, <2>4 DEF Policies!Fields
<1> HIDE DEF single, v
<1>4. /\ v = [list |-> v.list, parts |-> v.parts] /\ v.parts \in Seq(PolicyParts)
      /\ v.list \in BOOLEAN /\ (v.list <=> c.op \in {"in", "not_in"})
      /\ Policies!BooleanField(c.field) =>
            /\ \A i \in DOMAIN v.parts : v.parts[i] \in {"true", "false"}
            /\ v.list \/ Len(v.parts) = 1
  <2>1. CASE c.op \notin {"in", "not_in"}
    <3>1. v = [list |-> FALSE, parts |-> single]
      BY <2>1 DEF v, Policies!ParseConditionValue, single
    <3>2. v.list = FALSE /\ v.parts = single /\ v = [list |-> v.list, parts |-> v.parts]
      BY <3>1
    <3>3. ASSUME Policies!BooleanField(c.field)
          PROVE  /\ \A i \in DOMAIN single : single[i] \in {"true", "false"}
                 /\ Len(single) = 1
      BY <1>3, <3>3
    <3>4. QED
      BY <1>3, <2>1, <3>2, <3>3
  <2>2. CASE c.op \in {"in", "not_in"} /\ text = << >>
    <3>1. v = [list |-> TRUE, parts |-> single]
      BY <2>2 DEF v, Policies!ParseConditionValue, single
    <3>2. v.list = TRUE /\ v.parts = single /\ v = [list |-> v.list, parts |-> v.parts]
      BY <3>1
    <3>3. ASSUME Policies!BooleanField(c.field)
          PROVE  \A i \in DOMAIN single : single[i] \in {"true", "false"}
      BY <1>3, <3>3
    <3>4. QED
      BY <1>3, <2>2, <3>2, <3>3
  <2>3. CASE c.op \in {"in", "not_in"} /\ text # << >>
    <3>1. /\ v.list = TRUE /\ v.parts \in Seq(PolicyParts)
          /\ v = [list |-> v.list, parts |-> v.parts]
          /\ \A x : x \in Elements(v.parts) <=>
                      \E i \in DOMAIN text : x \in Elements(Policies!ParseSingleValue(c.field, <<text[i]>>))
      <4> HIDE DEF text
      <4>1. QED
        BY <1>1, <2>3, ListSent DEF v, text
    <3>2. ASSUME Policies!BooleanField(c.field), NEW i \in DOMAIN v.parts
          PROVE  v.parts[i] \in {"true", "false"}
      <4>1. v.parts[i] \in Elements(v.parts)
        BY DEF Elements
      <4>2. PICK j \in DOMAIN text : v.parts[i] \in Elements(Policies!ParseSingleValue(c.field, <<text[j]>>))
        BY <3>1, <4>1
      <4>3. text[j] \in PolicyParts /\ c.field = "tokenized"
        BY <1>1, <3>2 DEF Policies!BooleanField
      <4>4. \/ Policies!ParseSingleValue(c.field, <<text[j]>>) = <<"true">>
            \/ Policies!ParseSingleValue(c.field, <<text[j]>>) = <<"false">>
        BY <1>1, <4>3, PartSent
      <4>5. \A y : Elements(<<y>>) = {y}
        BY DEF Elements
      <4>6. QED
        BY <4>2, <4>4, <4>5
    <3>3. QED
      BY <2>3, <3>1, <3>2
  <2>4. QED
    BY <2>1, <2>2, <2>3
<1>5. Parsed(c) = [field |-> c.field, op |-> c.op, value |-> v]
  BY DEF Parsed, v
<1>6. v \in [list : BOOLEAN, parts : Seq(PolicyParts)]
  BY <1>4
<1> HIDE DEF text
<1>7. Parsed(c).field = c.field /\ Parsed(c).op = c.op /\ Parsed(c).value = v
  BY <1>5
<1>8. Parsed(c) \in [field : Policies!Fields, op : Policies!Ops, value : [list : BOOLEAN, parts : Seq(PolicyParts)]]
  BY <1>1, <1>5, <1>6
<1>9. WellWritten(Parsed(c))
  BY <1>4, <1>7 DEF WellWritten
<1>10. QED
  BY <1>8, <1>9 DEF PolicyConditions

\* How a rule's condition is shown.
LEMMA DraftedIsDraft ==
    ASSUME NEW c \in PolicyConditions
    PROVE  Drafted(c) \in Drafts
BY DEF PolicyConditions, Drafts, Drafted, Policies!Condition

\* What is left, and what was taken.
LEMMA RemovedAt ==
    ASSUME NEW S, NEW l \in Seq(S), NEW i \in DOMAIN l
    PROVE  /\ Policies!RemoveAt(l, i) \in Seq(S)
           /\ \A x : x \in Elements(l) <=> x = l[i] \/ x \in Elements(Policies!RemoveAt(l, i))
<1> DEFINE r == Policies!RemoveAt(l, i)
           n == Len(l)
<1>1. n \in Nat /\ i \in 1..n /\ DOMAIN l = 1..n /\ \A j \in 1..n : l[j] \in S
  OBVIOUS
<1>2. /\ r \in Seq(S) /\ Len(r) = n - 1
      /\ \A j \in 1..(n - 1) : r[j] = IF j < i THEN l[j] ELSE l[j + 1]
  <2> DEFINE a == SubSeq(l, 1, i - 1)
             z == SubSeq(l, i + 1, n)
  <2>1. /\ a \in Seq(S) /\ Len(a) = i - 1
        /\ \A j \in 1..(i - 1) : a[j] = l[j]
    BY <1>1
  <2>2. z \in Seq(S) /\ Len(z) = n - i
    BY <1>1
  <2>3. \A j \in 1..(n - i) : z[j] = l[i + j]
    BY <1>1
  <2>4. r = a \o z
    BY DEF Policies!RemoveAt
  <2> HIDE DEF a, z, r
  <2>5. /\ r \in Seq(S) /\ Len(r) = Len(a) + Len(z)
        /\ \A j \in 1..(Len(a) + Len(z)) : r[j] = IF j <= Len(a) THEN a[j] ELSE z[j - Len(a)]
    BY <2>1, <2>2, <2>4, ConcatProperties, Zenon
  <2>6. ASSUME NEW j \in 1..(n - 1) PROVE r[j] = IF j < i THEN l[j] ELSE l[j + 1]
    <3>1. CASE j < i
      BY <1>1, <2>1, <2>2, <2>5, <3>1
    <3>2. CASE ~(j < i)
      <4>1. j - (i - 1) \in 1..(n - i) /\ i + (j - (i - 1)) = j + 1
        BY <1>1, <3>2
      <4>2. r[j] = z[j - (i - 1)]
        BY <1>1, <2>1, <2>2, <2>5, <3>2
      <4>3. QED
        BY <2>3, <3>2, <4>1, <4>2
    <3>3. QED
      BY <3>1, <3>2
  <2>7. QED
    BY <1>1, <2>1, <2>2, <2>5, <2>6
<1>3. DOMAIN r = 1..(n - 1)
  BY <1>2
<1> HIDE DEF r
<1>4. ASSUME NEW x \in Elements(l) PROVE x = l[i] \/ x \in Elements(r)
  <2>1. PICK j \in 1..n : x = l[j]
    BY <1>1, <1>4 DEF Elements
  <2>2. CASE j < i
    <3>1. j \in 1..(n - 1) /\ r[j] = x
      BY <1>1, <1>2, <2>1, <2>2
    <3>2. QED
      BY <1>3, <3>1 DEF Elements
  <2>3. CASE j > i
    <3>1. j - 1 \in 1..(n - 1) /\ ~(j - 1 < i) /\ (j - 1) + 1 = j
      BY <1>1, <2>3
    <3>2. r[j - 1] = x
      BY <1>2, <2>1, <3>1
    <3>3. QED
      BY <1>3, <3>1, <3>2 DEF Elements
  <2>4. QED
    BY <1>1, <2>1, <2>2, <2>3
<1>5. ASSUME NEW x \in Elements(r) PROVE x \in Elements(l)
  <2>1. PICK j \in 1..(n - 1) : x = r[j]
    BY <1>3, <1>5 DEF Elements
  <2>2. j \in 1..n /\ j + 1 \in 1..n
    BY <1>1
  <2>3. QED
    BY <1>1, <1>2, <2>1, <2>2 DEF Elements
<1>6. l[i] \in Elements(l)
  BY DEF Elements
<1>7. QED
  BY <1>2, <1>4, <1>5, <1>6 DEF r

\* The scope as a condition.
ScopeCondition(scope) == Policies!Condition("cluster_id", "eq", scope)

\* The conditions are the scope and those that are left.
LEMMA ScopeTaken ==
    ASSUME NEW l \in Seq(Drafts)
    PROVE  LET e == Policies!ExtractScopeCluster(l)
           IN  /\ e.scope \in Seq(PolicyParts) /\ e.conditions \in Seq(Drafts)
               /\ \A x : x \in Elements(l) <=> \/ e.scope # << >> /\ x = ScopeCondition(e.scope)
                                               \/ x \in Elements(e.conditions)
<1> DEFINE I == {i \in 1..Len(l) : Policies!NamesCluster(l[i])}
           first == IF I # {} THEN Policies!Min(I) ELSE 0
           e == Policies!ExtractScopeCluster(l)
<1>1. e = [scope |-> IF first = 0 THEN << >> ELSE l[first].text,
           conditions |-> IF first = 0 THEN l ELSE Policies!RemoveAt(l, first)]
  BY DEF Policies!ExtractScopeCluster, Policies!SelectInSeq
<1>2. /\ e.scope = IF first = 0 THEN << >> ELSE l[first].text
      /\ e.conditions = IF first = 0 THEN l ELSE Policies!RemoveAt(l, first)
  <2> HIDE DEF e, first
  <2>1. QED
    BY <1>1
<1>3. first = 0 \/ first \in I
  <2>1. CASE I # {}
    <3>1. I \subseteq Nat
      OBVIOUS
    <3> HIDE DEF I
    <3>2. \E x \in I : \A y \in I : x <= y
      BY <2>1, <3>1, LeastExists
    <3>3. QED
      BY <2>1, <3>2 DEF Policies!Min
  <2>2. QED
    BY <2>1
<1> HIDE DEF e, first
<1>4. CASE first = 0
  <2>1. << >> \in Seq(PolicyParts)
    OBVIOUS
  <2>2. QED
    BY <1>2, <1>4, <2>1 DEF e
<1>5. CASE first # 0
  <2>1. first \in DOMAIN l /\ Policies!NamesCluster(l[first]) /\ l[first] \in Drafts
    BY <1>3, <1>5
  <2>2. /\ l[first] = ScopeCondition(l[first].text)
        /\ l[first].text # << >> /\ l[first].text \in Seq(PolicyParts)
    BY <2>1 DEF Policies!NamesCluster, Drafts, ScopeCondition, Policies!Condition
  <2>3. e.scope = l[first].text /\ e.conditions = Policies!RemoveAt(l, first)
    BY <1>2, <1>5
  <2>4. QED
    BY <2>1, <2>2, <2>3, RemovedAt DEF e
<1>6. QED
  BY <1>4, <1>5

\* What the form is sent as: its scope and its conditions.
LEMMA PayloadIs ==
    ASSUME NEW f \in FormStates
    PROVE  LET p == Policies!PayloadFromForm(f)
           IN  /\ p \in PolicyRule
               /\ \A x : x \in Elements(p.conditions) <=>
                           \/ f.scope # << >> /\ x = Parsed(ScopeCondition(f.scope))
                           \/ \E d \in Elements(f.conditions) : x = Parsed(d)
               /\ p.action = IF f.action.type = "require_cache_hit" THEN f.action
                             ELSE Policies!Absent(f.action.type)
               /\ p.enabled = f.enabled
<1> DEFINE p == Policies!PayloadFromForm(f)
           in == Parsed(ScopeCondition(f.scope))
           others == [i \in DOMAIN f.conditions |-> Parsed(f.conditions[i])]
           all == IF f.scope = << >> THEN others ELSE <<in>> \o others
           action == IF f.action.type = "require_cache_hit" THEN f.action ELSE Policies!Absent(f.action.type)
<1>1. /\ f.scope \in Seq(PolicyParts) /\ f.conditions \in Seq(Drafts)
      /\ f.action \in PolicyActions /\ f.enabled \in BOOLEAN
  BY DEF FormStates
<1>2. p = [conditions |-> all, action |-> action, enabled |-> f.enabled]
  BY DEF Policies!PayloadFromForm, Parsed, ScopeCondition
<1>3. others \in Seq(PolicyConditions) /\ Elements(others) = {Parsed(d) : d \in Elements(f.conditions)}
  <2>1. \A i \in DOMAIN f.conditions : f.conditions[i] \in Drafts
    BY <1>1
  <2>2. \A i \in DOMAIN f.conditions : Parsed(f.conditions[i]) \in PolicyConditions
    BY <2>1, ParsedIsCondition
  <2>3. Len(f.conditions) \in Nat /\ DOMAIN f.conditions = 1..Len(f.conditions)
    BY <1>1
  <2>4. others \in [1..Len(f.conditions) -> PolicyConditions]
    BY <2>2, <2>3
  <2>5. DOMAIN others = DOMAIN f.conditions /\ \A i \in DOMAIN f.conditions : others[i] = Parsed(f.conditions[i])
    OBVIOUS
  <2> HIDE DEF others
  <2>6. others \in Seq(PolicyConditions)
    BY <2>3, <2>4, SeqDef
  <2>7. QED
    BY <2>5, <2>6 DEF Elements
<1>4. f.scope # << >> => in \in PolicyConditions
  <2>1. ScopeCondition(f.scope) \in Drafts
    BY <1>1 DEF ScopeCondition, Policies!Condition, Drafts, Policies!Fields, Policies!Ops
  <2>2. QED
    BY <2>1, ParsedIsCondition
<1> HIDE DEF others, in
<1>5. /\ all \in Seq(PolicyConditions)
      /\ \A x : x \in Elements(all) <=> \/ f.scope # << >> /\ x = in
                                        \/ x \in Elements(others)
  <2>1. CASE f.scope = << >>
    BY <1>3, <2>1
  <2>2. CASE f.scope # << >>
    <3> DEFINE head == <<in>>
    <3>1. head \in Seq(PolicyConditions)
      BY <1>4, <2>2
    <3>2. Elements(head) = {in}
      BY DEF Elements
    <3>3. all = head \o others
      BY <2>2
    <3> HIDE DEF all, head
    <3>4. /\ head \o others \in Seq(PolicyConditions)
          /\ Elements(head \o others) = Elements(head) \cup Elements(others)
      <4>1. others \in Seq(PolicyConditions)
        BY <1>3
      <4>2. QED
        BY <3>1, <4>1, ElementsOfBoth
    <3>5. QED
      BY <2>2, <3>2, <3>3, <3>4
  <2>3. QED
    BY <2>1, <2>2
<1>6. action \in PolicyActions
  <2>1. CASE f.action.type = "require_cache_hit"
    BY <1>1, <2>1
  <2>2. CASE f.action.type # "require_cache_hit"
    <3>1. f.action.type \in Policies!ActionTypes
      BY <1>1 DEF PolicyActions
    <3>2. Policies!Absent(f.action.type) \in PolicyActions
      BY <3>1 DEF Policies!Absent, PolicyActions
    <3>3. QED
      BY <2>2, <3>2
  <2>3. QED
    BY <2>1, <2>2
<1> HIDE DEF all, action
<1>7. p \in PolicyRule /\ p.conditions = all /\ p.action = action /\ p.enabled = f.enabled
  <2> HIDE DEF p
  <2>1. QED
    BY <1>1, <1>2, <1>5, <1>6 DEF PolicyRule
<1>8. \A x : x \in Elements(all) <=> \/ f.scope # << >> /\ x = Parsed(ScopeCondition(f.scope))
                                     \/ \E d \in Elements(f.conditions) : x = Parsed(d)
  BY <1>3, <1>5 DEF in
<1> HIDE DEF p
<1>9. QED
  BY <1>7, <1>8 DEF p, action

\* A rule is what its conditions are.
LEMMA VerdictIs ==
    ASSUME NEW q, NEW rule
    PROVE  Policies!Verdict(q, rule) =
              IF ~rule.enabled \/ \E c \in Elements(rule.conditions) : ~Policies!Matches(q, c)
              THEN "none" ELSE Policies!ApplyAction(q, rule.action)
BY DEF Policies!Verdict, Elements

\* The rule that is sent decides as the one that was seen, but for the switch.
SameVerdicts(body, seen) ==
    \A b \in DOMAIN ClusterOf : \A q \in Policies!Requests(b) :
        Policies!Verdict(q, [body EXCEPT !.enabled = seen.enabled]) = Policies!Verdict(q, seen)

\* An action as the form shows it.
Defaulted(action) ==
    [type |-> action.type, minHitRatio |-> Policies!Or(action.minHitRatio, 50),
     onLowHit |-> Policies!Or(action.onLowHit, "reject"),
     onUncertain |-> Policies!Or(action.onUncertain, "fallback_accept")]

\* The conditions of a new rule are of the form.
LEMMA DefaultsAreDrafts ==
    ASSUME NEW cluster \in Policies!Clusters \cup {"all"}
    PROVE  Policies!DefaultCondition \in Drafts /\ Policies!DefaultConditions(cluster) \in Seq(Drafts)
<1>1. Policies!DefaultCondition \in Drafts
  BY DEF Policies!DefaultCondition, Policies!Condition, Drafts, Policies!Fields, Policies!Ops,
         Policies!Ordered, PolicyParts
<1>2. CASE cluster = "all"
  BY <1>1, <1>2 DEF Policies!DefaultConditions
<1>3. CASE cluster # "all"
  <2>1. cluster \in PolicyParts
    BY <1>3 DEF PolicyParts
  <2>2. ScopeCondition(<<cluster>>) \in Drafts
    BY <2>1 DEF ScopeCondition, Policies!Condition, Drafts, Policies!Fields, Policies!Ops, Policies!Ordered
  <2>3. Policies!DefaultConditions(cluster) = <<ScopeCondition(<<cluster>>), Policies!DefaultCondition>>
    BY <1>3 DEF Policies!DefaultConditions, ScopeCondition
  <2>4. QED
    BY <1>1, <2>2, <2>3
<1>4. QED
  BY <1>1, <1>2, <1>3

\* An action with its defaults is one.
LEMMA DefaultedIsAction ==
    ASSUME NEW action \in PolicyActions
    PROVE  Defaulted(action) \in PolicyActions
<1>1. /\ action.type \in Policies!ActionTypes
      /\ action.minHitRatio \in Nat \cup {None}
      /\ action.onLowHit \in Policies!Outcomes \cup {None}
      /\ action.onUncertain \in Policies!Outcomes \cup {None}
  BY DEF PolicyActions
<1>2. /\ Policies!Or(action.minHitRatio, 50) \in Nat \cup {None}
      /\ Policies!Or(action.onLowHit, "reject") \in Policies!Outcomes \cup {None}
      /\ Policies!Or(action.onUncertain, "fallback_accept") \in Policies!Outcomes \cup {None}
  BY <1>1 DEF Policies!Or, Policies!Outcomes
<1>3. QED
  BY <1>1, <1>2 DEF Defaulted, PolicyActions

\* The form of a rule.
LEMMA FormOfRule ==
    ASSUME NEW rule \in PolicyRule, rule # None, NEW cluster \in Policies!Clusters \cup {"all"}
    PROVE  LET s == Policies!FormStateFromPolicy(rule, cluster)
           IN  /\ s \in FormStates /\ s.enabled = rule.enabled /\ s.action = Defaulted(rule.action)
               /\ rule.conditions # << >> =>
                     \A x : (\E c \in Elements(rule.conditions) : x = Drafted(c)) <=>
                               \/ s.scope # << >> /\ x = ScopeCondition(s.scope)
                               \/ x \in Elements(s.conditions)
<1> DEFINE s == Policies!FormStateFromPolicy(rule, cluster)
           drafts == [i \in DOMAIN rule.conditions |-> Drafted(rule.conditions[i])]
           of == IF rule.conditions = << >> THEN Policies!DefaultConditions(cluster) ELSE drafts
           e == Policies!ExtractScopeCluster(of)
<1>1. rule.conditions \in Seq(PolicyConditions) /\ rule.action \in PolicyActions /\ rule.enabled \in BOOLEAN
  BY DEF PolicyRule
<1>2. s = [scope |-> e.scope, conditions |-> e.conditions, action |-> Defaulted(rule.action),
           enabled |-> rule.enabled]
  <2>1. s = [scope |-> e.scope, conditions |-> e.conditions, action |-> Defaulted(rule.action),
             enabled |-> rule = None \/ rule.enabled]
    BY DEF Policies!FormStateFromPolicy, Drafted, Defaulted
  <2>2. (rule = None \/ rule.enabled) = rule.enabled
    BY <1>1
  <2> HIDE DEF s, e
  <2>3. QED
    BY <2>1, <2>2
<1>3. drafts \in Seq(Drafts) /\ \A x : x \in Elements(drafts) <=> \E c \in Elements(rule.conditions) : x = Drafted(c)
  <2>1. Len(rule.conditions) \in Nat /\ DOMAIN rule.conditions = 1..Len(rule.conditions)
        /\ \A i \in DOMAIN rule.conditions : rule.conditions[i] \in PolicyConditions
    BY <1>1
  <2>2. drafts \in [1..Len(rule.conditions) -> Drafts]
    BY <2>1, DraftedIsDraft
  <2>3. DOMAIN drafts = DOMAIN rule.conditions /\ \A i \in DOMAIN drafts : drafts[i] = Drafted(rule.conditions[i])
    OBVIOUS
  <2> HIDE DEF drafts
  <2>4. drafts \in Seq(Drafts)
    BY <2>1, <2>2, SeqDef
  <2>5. QED
    BY <2>3, <2>4 DEF Elements
<1> HIDE DEF drafts
<1>4. of \in Seq(Drafts)
  BY <1>3, DefaultsAreDrafts
<1>5. rule.conditions # << >> => of = drafts
  OBVIOUS
<1> HIDE DEF of
<1>6. /\ e.scope \in Seq(PolicyParts) /\ e.conditions \in Seq(Drafts)
      /\ \A x : x \in Elements(of) <=> \/ e.scope # << >> /\ x = ScopeCondition(e.scope)
                                       \/ x \in Elements(e.conditions)
  BY <1>4, ScopeTaken
<1> HIDE DEF e, s
<1>7. /\ s.scope = e.scope /\ s.conditions = e.conditions
      /\ s.action = Defaulted(rule.action) /\ s.enabled = rule.enabled
  BY <1>2
<1>8. s \in FormStates
  BY <1>1, <1>2, <1>6, DefaultedIsAction DEF FormStates
<1>9. QED
  BY <1>3, <1>5, <1>6, <1>7, <1>8 DEF s

\* A rule that the form can show survives it.
LEMMA RuleSurvives ==
    ASSUME NEW rule \in PolicyRule, rule # None, NEW cluster \in Policies!Clusters \cup {"all"},
           Policies!Shown(rule)
    PROVE  SameVerdicts(Policies!PayloadFromForm(Policies!FormStateFromPolicy(rule, cluster)), rule)
<1> DEFINE s == Policies!FormStateFromPolicy(rule, cluster)
           p == Policies!PayloadFromForm(s)
           body == [p EXCEPT !.enabled = rule.enabled]
<1>1. /\ rule.conditions # << >>
      /\ \A c \in Elements(rule.conditions) : c.field = "cluster_id" \/ c.value.parts # << >>
      /\ rule.action.type = "require_cache_hit" => rule.action.minHitRatio # None
  BY DEF Policies!Shown, Elements
<1>2. rule.conditions \in Seq(PolicyConditions) /\ rule.action \in PolicyActions /\ rule.enabled \in BOOLEAN
  BY DEF PolicyRule
<1>3. /\ s \in FormStates /\ s.action = Defaulted(rule.action)
      /\ \A x : (\E c \in Elements(rule.conditions) : x = Drafted(c)) <=>
                   \/ s.scope # << >> /\ x = ScopeCondition(s.scope)
                   \/ x \in Elements(s.conditions)
  BY <1>1, FormOfRule
<1> HIDE DEF s
<1>4. /\ p \in PolicyRule
      /\ \A x : x \in Elements(p.conditions) <=> \/ s.scope # << >> /\ x = Parsed(ScopeCondition(s.scope))
                                                 \/ \E d \in Elements(s.conditions) : x = Parsed(d)
      /\ p.action = IF s.action.type = "require_cache_hit" THEN s.action ELSE Policies!Absent(s.action.type)
  BY <1>3, PayloadIs
<1> HIDE DEF p
<1>5. body.conditions = p.conditions /\ body.action = p.action /\ body.enabled = rule.enabled
  BY <1>4 DEF PolicyRule
<1> HIDE DEF body
<1>6. \A x : x \in Elements(p.conditions) <=> \E c \in Elements(rule.conditions) : x = Parsed(Drafted(c))
  <2>1. ASSUME NEW x \in Elements(p.conditions)
        PROVE  \E c \in Elements(rule.conditions) : x = Parsed(Drafted(c))
    <3>1. \E d : x = Parsed(d) /\ ((s.scope # << >> /\ d = ScopeCondition(s.scope)) \/ d \in Elements(s.conditions))
      BY <1>4
    <3>2. PICK d : x = Parsed(d) /\ ((s.scope # << >> /\ d = ScopeCondition(s.scope)) \/ d \in Elements(s.conditions))
      BY <3>1
    <3>3. \E c \in Elements(rule.conditions) : d = Drafted(c)
      BY <1>3, <3>2
    <3>4. QED
      BY <3>2, <3>3
  <2>2. ASSUME NEW c \in Elements(rule.conditions)
        PROVE  Parsed(Drafted(c)) \in Elements(p.conditions)
    <3>1. \/ s.scope # << >> /\ Drafted(c) = ScopeCondition(s.scope)
          \/ Drafted(c) \in Elements(s.conditions)
      BY <1>3
    <3>2. QED
      BY <1>4, <3>1
  <2>3. QED
    BY <2>1, <2>2
<1>7. \A c \in Elements(rule.conditions) : c \in PolicyConditions
  BY <1>2 DEF Elements
<1> SUFFICES ASSUME NEW b \in DOMAIN ClusterOf, NEW q \in Policies!Requests(b)
             PROVE  Policies!Verdict(q, body) = Policies!Verdict(q, rule)
  BY DEF SameVerdicts, body, p, s
<1>8. (\E x \in Elements(body.conditions) : ~Policies!Matches(q, x))
         <=> \E c \in Elements(rule.conditions) : ~Policies!Matches(q, c)
  <2>1. \A c \in Elements(rule.conditions) :
           Policies!Matches(q, Parsed(Drafted(c))) <=> Policies!Matches(q, c)
    <3> SUFFICES ASSUME NEW c \in Elements(rule.conditions)
                 PROVE  Policies!Matches(q, Parsed(Drafted(c))) <=> Policies!Matches(q, c)
      OBVIOUS
    <3>1. c \in PolicyConditions /\ (c.field = "cluster_id" \/ c.value.parts # << >>)
      BY <1>1, <1>7
    <3>2. QED
      BY <3>1, ConditionSurvives
  <2>2. QED
    BY <1>5, <1>6, <2>1
<1>9. Policies!ApplyAction(q, body.action) = Policies!ApplyAction(q, rule.action)
  <2>1. body.action = IF rule.action.type = "require_cache_hit" THEN Defaulted(rule.action)
                      ELSE Policies!Absent(rule.action.type)
    BY <1>3, <1>4, <1>5 DEF Defaulted
  <2>2. CASE rule.action.type # "require_cache_hit"
    BY <2>1, <2>2 DEF Policies!ApplyAction, Policies!Absent
  <2>3. CASE rule.action.type = "require_cache_hit"
    <3>1. body.action.type = "require_cache_hit"
          /\ body.action.minHitRatio = rule.action.minHitRatio
          /\ body.action.onLowHit = Policies!Or(rule.action.onLowHit, "reject")
          /\ body.action.onUncertain = Policies!Or(rule.action.onUncertain, "fallback_accept")
      <4>1. body.action = Defaulted(rule.action)
        BY <2>1, <2>3
      <4>2. /\ Defaulted(rule.action).type = rule.action.type
            /\ Defaulted(rule.action).minHitRatio = Policies!Or(rule.action.minHitRatio, 50)
            /\ Defaulted(rule.action).onLowHit = Policies!Or(rule.action.onLowHit, "reject")
            /\ Defaulted(rule.action).onUncertain = Policies!Or(rule.action.onUncertain, "fallback_accept")
        BY DEF Defaulted
      <4>3. Policies!Or(rule.action.minHitRatio, 50) = rule.action.minHitRatio
        BY <1>1, <2>3 DEF Policies!Or
      <4>4. QED
        BY <2>3, <4>1, <4>2, <4>3
    <3>2. /\ Policies!Or(body.action.onLowHit, "reject") = Policies!Or(rule.action.onLowHit, "reject")
          /\ Policies!Or(body.action.onUncertain, "fallback_accept")
                = Policies!Or(rule.action.onUncertain, "fallback_accept")
      BY <3>1 DEF Policies!Or
    <3>3. QED
      BY <2>3, <3>1, <3>2 DEF Policies!ApplyAction
  <2>4. QED
    BY <2>2, <2>3
<1>10. QED
  BY <1>5, <1>8, <1>9, VerdictIs

\* The scopes that can be chosen.
Scopes == {<< >>} \cup {<<c>> : c \in Policies!Clusters \ {"all"}}

\* The form of a new rule.
LEMMA FormOfNew ==
    ASSUME NEW cluster \in Policies!Clusters \cup {"all"}
    PROVE  LET s == Policies!FormStateFromPolicy(None, cluster)
           IN  /\ s \in FormStates /\ s.scope \in Scopes
               /\ s.conditions = <<Policies!DefaultCondition>> /\ s.enabled
<1> DEFINE s == Policies!FormStateFromPolicy(None, cluster)
           of == Policies!DefaultConditions(cluster)
           e == Policies!ExtractScopeCluster(of)
           action == Defaulted(Policies!Absent("require_cache_hit"))
           default == Policies!DefaultCondition
           I == {i \in 1..Len(of) : Policies!NamesCluster(of[i])}
           first == IF I # {} THEN Policies!Min(I) ELSE 0
<1>1. s = [scope |-> e.scope, conditions |-> e.conditions, action |-> action, enabled |-> TRUE]
  BY DEF Policies!FormStateFromPolicy, Defaulted
<1>2. action \in PolicyActions
  <2>1. Policies!Absent("require_cache_hit") \in PolicyActions
    BY DEF Policies!Absent, PolicyActions, Policies!ActionTypes
  <2>2. QED
    BY <2>1, DefaultedIsAction
<1>3. of \in Seq(Drafts) /\ default \in Drafts
  BY DefaultsAreDrafts
<1>4. e.scope \in Seq(PolicyParts) /\ e.conditions \in Seq(Drafts)
  BY <1>3, ScopeTaken
<1>5. /\ e.scope = IF first = 0 THEN << >> ELSE of[first].text
      /\ e.conditions = IF first = 0 THEN of ELSE Policies!RemoveAt(of, first)
  <2>1. e = [scope |-> IF first = 0 THEN << >> ELSE of[first].text,
             conditions |-> IF first = 0 THEN of ELSE Policies!RemoveAt(of, first)]
    BY DEF Policies!ExtractScopeCluster, Policies!SelectInSeq
  <2> HIDE DEF e, first
  <2>2. QED
    BY <2>1
<1>6. ~Policies!NamesCluster(default)
  BY DEF Policies!NamesCluster, Policies!DefaultCondition, Policies!Condition
<1> HIDE DEF s, e, action, default
<1>7. e.scope \in Scopes /\ e.conditions = <<default>>
  <2>1. CASE cluster = "all"
    <3>1. of = <<default>>
      BY <2>1 DEF Policies!DefaultConditions, default
    <3> HIDE DEF of
    <3>2. I = {}
      BY <1>6, <3>1
    <3>3. first = 0
      BY <3>2
    <3> HIDE DEF first
    <3>4. QED
      BY <1>5, <3>1, <3>3 DEF Scopes
  <2>2. CASE cluster # "all"
    <3>1. of = <<ScopeCondition(<<cluster>>), default>>
      BY <2>2 DEF Policies!DefaultConditions, default, ScopeCondition
    <3>2. Policies!NamesCluster(ScopeCondition(<<cluster>>)) /\ ScopeCondition(<<cluster>>).text = <<cluster>>
      BY DEF Policies!NamesCluster, ScopeCondition, Policies!Condition
    <3> HIDE DEF of
    <3>3. I = {1}
      <4>1. Len(of) = 2 /\ of[1] = ScopeCondition(<<cluster>>) /\ of[2] = default
        BY <3>1
      <4>2. QED
        BY <1>6, <3>2, <4>1
    <3> HIDE DEF I
    <3>4. first = 1
      BY <3>3 DEF Policies!Min
    <3> HIDE DEF first
    <3>5. e.scope = <<cluster>> /\ e.conditions = Policies!RemoveAt(of, 1)
      BY <1>5, <3>1, <3>2, <3>4
    <3>6. Policies!RemoveAt(of, 1) = <<default>>
      <4>1. Len(of) = 2 /\ SubSeq(of, 1, 0) = << >> /\ SubSeq(of, 2, 2) = <<default>>
        <5>1. of \in Seq(Drafts) /\ Len(of) = 2 /\ of[2] = default
          BY <1>3, <3>1 DEF of, default
        <5>2. SubSeq(of, 1, 0) \in Seq(Drafts) /\ Len(SubSeq(of, 1, 0)) = 0
          BY <5>1
        <5>3. /\ SubSeq(of, 2, 2) \in Seq(Drafts) /\ Len(SubSeq(of, 2, 2)) = 1
              /\ SubSeq(of, 2, 2)[1] = default
          BY <5>1
        <5>4. /\ \A a \in Seq(Drafts) : Len(a) = 0 => a = << >>
              /\ \A a \in Seq(Drafts) : Len(a) = 1 /\ a[1] = default => a = <<default>>
          OBVIOUS
        <5>5. QED
          BY <5>1, <5>2, <5>3, <5>4, Zenon
      <4>2. << >> \o <<default>> = <<default>> /\ 1 - 1 = 0 /\ 1 + 1 = 2
        OBVIOUS
      <4>3. QED
        BY <4>1, <4>2, Zenon DEF Policies!RemoveAt
    <3>7. QED
      BY <2>2, <3>5, <3>6 DEF Scopes
  <2>3. QED
    BY <2>1, <2>2
<1>8. s.scope = e.scope /\ s.conditions = e.conditions /\ s.enabled
  BY <1>1
<1>9. s \in FormStates
  BY <1>1, <1>2, <1>4 DEF FormStates
<1>10. QED
  BY <1>7, <1>8, <1>9 DEF s, default

\* A new rule whose conditions and switch were left alone decides something
\* where it goes.
LEMMA NewRuleDecides ==
    ASSUME NEW s \in FormStates, s.scope \in Scopes, s.conditions = <<Policies!DefaultCondition>>, s.enabled,
           NEW b \in DOMAIN ClusterOf, s.scope # << >> => b \in Policies!Selects(s.scope)
    PROVE  \E q \in Policies!Requests(b) : Policies!Verdict(q, Policies!PayloadFromForm(s)) # "none"
<1> DEFINE p == Policies!PayloadFromForm(s)
           default == Policies!DefaultCondition
<1>1. PICK r \in Ratios : TRUE
  BY PoliciesAssumption
<1> DEFINE q == [cluster_id |-> ClusterOf[b], input_tokens |-> "256", tokenized |-> "true", ratio |-> r]
<1>2. q \in Policies!Requests(b)
  BY PoliciesAssumption DEF Policies!Requests
<1>3. /\ p \in PolicyRule /\ p.enabled
      /\ \A x : x \in Elements(p.conditions) <=> \/ s.scope # << >> /\ x = Parsed(ScopeCondition(s.scope))
                                                 \/ \E d \in Elements(s.conditions) : x = Parsed(d)
  BY PayloadIs
<1> HIDE DEF p
<1>4. Policies!Matches(q, Parsed(default))
  <2>1. Parsed(default) = [field |-> "input_tokens", op |-> "gte", value |-> [list |-> FALSE, parts |-> <<"256">>]]
    <3>1. /\ default.field = "input_tokens" /\ default.op = "gte" /\ default.text = <<"256">>
      BY DEF Policies!DefaultCondition, Policies!Condition
    <3>2. Policies!ParseSingleValue("input_tokens", <<"256">>) = <<"256">>
      <4>1. Len(<<"256">>) = 1 /\ <<"256">>[1] = "256" /\ <<"256">> # << >>
        OBVIOUS
      <4>2. QED
        BY <4>1, NumberSent, PoliciesAssumption
    <3>3. Policies!ParseConditionValue("input_tokens", "gte", <<"256">>) = [list |-> FALSE, parts |-> <<"256">>]
      BY <3>2 DEF Policies!ParseConditionValue
    <3>4. QED
      BY <3>1, <3>3 DEF Parsed
  <2>2. q.input_tokens = "256" /\ Number["256"] \in Nat
    BY PoliciesAssumption
  <2> HIDE DEF q
  <2> DEFINE v == [list |-> FALSE, parts |-> <<"256">>]
  <2>3. v.list = FALSE /\ v.parts = <<"256">> /\ Len(v.parts) = 1 /\ v.parts[1] = "256"
    OBVIOUS
  <2> HIDE DEF v
  <2>4. Policies!CompareNumeric("256", v, "gte")
    BY <2>2, <2>3, PoliciesAssumption DEF Policies!CompareNumeric
  <2>5. /\ Parsed(default).field = "input_tokens" /\ Parsed(default).op = "gte" /\ Parsed(default).value = v
    BY <2>1 DEF v
  <2>6. QED
    BY <2>2, <2>4, <2>5, MatchesIs DEF Policies!Ordered
<1>5. s.scope # << >> => Policies!Matches(q, Parsed(ScopeCondition(s.scope)))
  <2> SUFFICES ASSUME s.scope # << >> PROVE Policies!Matches(q, Parsed(ScopeCondition(s.scope)))
    OBVIOUS
  <2>1. PICK c \in Policies!Clusters \ {"all"} : s.scope = <<c>>
    BY DEF Scopes
  <2>2. <<c>> = <<"all">> \/ <<c>> = <<ClusterOf[b]>>
    BY <2>1 DEF Policies!Selects
  <2>3. s.scope = <<ClusterOf[b]>>
    BY <2>1, <2>2
  <2>4. Parsed(ScopeCondition(s.scope)) =
           [field |-> "cluster_id", op |-> "eq", value |-> [list |-> FALSE, parts |-> s.scope]]
    BY DEF Parsed, ScopeCondition, Policies!Condition, Policies!ParseConditionValue, Policies!ParseSingleValue,
           Policies!NumericField, Policies!BooleanField
  <2>5. q.cluster_id = ClusterOf[b]
    OBVIOUS
  <2> HIDE DEF q
  <2>6. QED
    BY <2>3, <2>4, <2>5, MatchesIs DEF Policies!Equals
<1>6. Policies!ApplyAction(q, p.action) # "none"
  <2>1. p.action \in PolicyActions
    BY <1>3 DEF PolicyRule
  <2>2. /\ p.action.type \in Policies!ActionTypes
        /\ p.action.onLowHit \in Policies!Outcomes \cup {None}
    BY <2>1 DEF PolicyActions
  <2>3. Policies!Or(p.action.onLowHit, "reject") \in Policies!Outcomes
    BY <2>2 DEF Policies!Or, Policies!Outcomes
  <2>4. q.tokenized = "true"
    OBVIOUS
  <2> HIDE DEF q
  <2>5. QED
    BY <2>2, <2>3, <2>4 DEF Policies!ApplyAction, Policies!ActionTypes, Policies!Outcomes
<1> HIDE DEF q, default
<1>7. \A x \in Elements(p.conditions) : Policies!Matches(q, x)
  <2>1. Elements(<<default>>) = {default}
    BY DEF Elements
  <2>2. QED
    BY <1>3, <1>4, <1>5, <2>1 DEF default
<1>8. Policies!Verdict(q, p) # "none"
  BY <1>3, <1>6, <1>7, VerdictIs
<1>9. QED
  BY <1>2, <1>8 DEF p


FormParts == {"scope", "conditions", "action", "enabled"}

PolicyForms ==
    [id : Nat \ {0}, initial : DOMAIN ClusterOf \cup {None}, seen : PolicyRule \cup {None},
     touched : SUBSET FormParts, state : FormStates]

\* The form still has what it was opened with, as long as that was not edited.
FormKept(f) ==
    /\ f \in PolicyForms
    /\ f.initial = None =>
          /\ f.state.scope \in Scopes
          /\ f.touched \cap {"conditions", "enabled"} = {} =>
                f.state.conditions = <<Policies!DefaultCondition>> /\ f.state.enabled
    /\ f.initial # None /\ f.touched \subseteq {"enabled"} /\ Policies!Shown(f.seen) =>
          SameVerdicts(Policies!PayloadFromForm(f.state), f.seen)

\* And so has the call that it was sent with.
CallKept(c) ==
    /\ c.body \in PolicyRule \cup {None}
    /\ c.kind = "patch" /\ c.touched \subseteq {"enabled"} /\ (c.form = 0 \/ Policies!Shown(c.seen)) =>
          SameVerdicts(c.body, c.seen)
    /\ c.kind = "post" /\ c.touched \cap {"conditions", "enabled"} = {} =>
          \A b \in DOMAIN ClusterOf : c.to = {b} =>
             \E q \in Policies!Requests(b) : Policies!Verdict(q, c.body) # "none"

RulesStored == [DOMAIN ClusterOf -> PolicyRule \cup {None}]

PolicyTypes ==
    /\ pRules \in RulesStored
    /\ pList \in [Tabs -> RulesStored]
    /\ pForm = [t \in Tabs |-> pForm[t]]
    /\ pSelected \in [Tabs -> Policies!Clusters \cup {"all"}]
    /\ pOpened \in Nat

FormsKept == \A t \in Tabs : pForm[t] # None => FormKept(pForm[t])
CallsKept == \A c \in pCalls : CallKept(c)

PolicyInv == PolicyTypes /\ FormsKept /\ CallsKept

\* The rules start well written, without forms and calls.
LEMMA PoliciesStart == Policies!Init => PolicyInv
<1> SUFFICES ASSUME Policies!Init PROVE PolicyInv
  OBVIOUS
<1>1. pRules \in RulesStored
  BY PoliciesAssumption DEF Policies!Init, RulesStored
<1>2. PolicyTypes
  BY <1>1 DEF Policies!Init, PolicyTypes, Policies!Clusters
<1>3. FormsKept /\ CallsKept
  BY DEF Policies!Init, FormsKept, CallsKept
<1>4. QED
  BY <1>2, <1>3 DEF PolicyInv

\* A form that replaces another.
LEMMA FormReplaced ==
    ASSUME PolicyInv, NEW t \in Tabs, NEW f, pForm' = [pForm EXCEPT ![t] = f],
           f # None => FormKept(f), PolicyTypes' \/ UNCHANGED <<pRules, pList, pSelected, pOpened>>,
           UNCHANGED pCalls
    PROVE  PolicyInv'
<1>1. /\ pForm' = [u \in Tabs |-> pForm'[u]]
      /\ \A u \in Tabs : pForm'[u] = IF u = t THEN f ELSE pForm[u]
  BY DEF PolicyInv, PolicyTypes
<1>2. PolicyTypes'
  BY <1>1 DEF PolicyInv, PolicyTypes
<1>3. FormsKept'
  BY <1>1 DEF PolicyInv, FormsKept
<1>4. CallsKept'
  BY DEF PolicyInv, CallsKept
<1>5. QED
  BY <1>2, <1>3, <1>4 DEF PolicyInv

\* A form opens for a rule, or for a new one.
LEMMA OpenKeeps ==
    ASSUME PolicyInv, NEW t \in Tabs, NEW b \in DOMAIN ClusterOf \cup {None}, NEW rule \in PolicyRule \cup {None},
           (b = None) <=> (rule = None), Policies!Open(t, b, rule)
    PROVE  PolicyInv'
<1> DEFINE cluster == pSelected[t]
           s == Policies!FormStateFromPolicy(rule, cluster)
           f == [id |-> pOpened', initial |-> b, seen |-> rule, touched |-> {}, state |-> s]
<1>1. cluster \in Policies!Clusters \cup {"all"} /\ pOpened \in Nat
  BY DEF PolicyInv, PolicyTypes
<1>2. pForm' = [pForm EXCEPT ![t] = f] /\ pOpened' = pOpened + 1 /\ UNCHANGED <<pRules, pList, pCalls, pSelected>>
  BY DEF Policies!Open
<1>3. pForm' = [u \in Tabs |-> pForm'[u]]
  BY <1>2 DEF PolicyInv, PolicyTypes
<1>4. PolicyTypes'
  BY <1>1, <1>2, <1>3 DEF PolicyInv, PolicyTypes
<1>5. s \in FormStates
  BY <1>1, FormOfRule, FormOfNew
<1>6. pOpened' \in Nat \ {0}
  BY <1>1, <1>2
<1> HIDE DEF s, cluster
<1>7. f \in PolicyForms
  BY <1>5, <1>6 DEF PolicyForms
<1>8. b = None => /\ s.scope \in Scopes
                  /\ s.conditions = <<Policies!DefaultCondition>> /\ s.enabled
  BY <1>1, FormOfNew DEF s
<1>9. b # None /\ Policies!Shown(rule) => SameVerdicts(Policies!PayloadFromForm(s), rule)
  BY <1>1, RuleSurvives DEF s
<1>10. FormKept(f)
  BY <1>7, <1>8, <1>9 DEF FormKept
<1> HIDE DEF f
<1>11. QED
  BY <1>2, <1>4, <1>10, FormReplaced

\* The switch of the form is the switch of what it sends.
LEMMA SwitchedPayload ==
    ASSUME NEW s \in FormStates, NEW e \in BOOLEAN, NEW seen,
           SameVerdicts(Policies!PayloadFromForm(s), seen)
    PROVE  SameVerdicts(Policies!PayloadFromForm([s EXCEPT !.enabled = e]), seen)
<1> DEFINE z == [s EXCEPT !.enabled = e]
           p == Policies!PayloadFromForm(s)
           r == Policies!PayloadFromForm(z)
<1>1. z.scope = s.scope /\ z.conditions = s.conditions /\ z.action = s.action /\ z.enabled = e /\ z \in FormStates
  BY DEF FormStates
<1> HIDE DEF z
<1>2. \A x : [r EXCEPT !.enabled = x] = [p EXCEPT !.enabled = x]
  <2>1. PICK conditions, action : /\ p = [conditions |-> conditions, action |-> action, enabled |-> s.enabled]
                                  /\ r = [conditions |-> conditions, action |-> action, enabled |-> e]
    BY <1>1 DEF Policies!PayloadFromForm
  <2> HIDE DEF p, r
  <2>2. QED
    BY <2>1
<1> HIDE DEF p, r
<1>3. QED
  BY <1>2 DEF SameVerdicts, p, r, z

\* An edit of a part of the form leaves the others.
LEMMA EditKeepsForm ==
    ASSUME PolicyInv, NEW t \in Tabs, pForm[t] # None, NEW part \in FormParts, NEW state \in FormStates,
           Policies!Edit(t, part, state),
           pForm[t].state.scope \in Scopes => state.scope \in Scopes,
           part \notin {"conditions", "enabled"} => /\ state.conditions = pForm[t].state.conditions
                                                    /\ state.enabled = pForm[t].state.enabled,
           part = "enabled" => \E e \in BOOLEAN : state = [pForm[t].state EXCEPT !.enabled = e]
    PROVE  PolicyInv'
<1> DEFINE f == pForm[t]
           g == [f EXCEPT !.state = state, !.touched = @ \cup {part}]
<1>1. pForm' = [pForm EXCEPT ![t] = g] /\ UNCHANGED <<pRules, pList, pCalls, pSelected, pOpened>>
  BY DEF Policies!Edit, PolicyInv, PolicyTypes
<1>2. FormKept(f)
  BY DEF PolicyInv, FormsKept
<1>3. /\ f.initial \in DOMAIN ClusterOf \cup {None} /\ f.touched \in SUBSET FormParts /\ f.state \in FormStates
      /\ g \in PolicyForms
      /\ g.initial = f.initial /\ g.seen = f.seen /\ g.state = state /\ g.touched = f.touched \cup {part}
  BY <1>2 DEF FormKept, PolicyForms
<1> HIDE DEF g
<1>4. f.initial = None =>
         /\ state.scope \in Scopes
         /\ (f.touched \cup {part}) \cap {"conditions", "enabled"} = {} =>
               state.conditions = <<Policies!DefaultCondition>> /\ state.enabled
  BY <1>2 DEF FormKept
<1>5. ASSUME f.initial # None, (f.touched \cup {part}) \subseteq {"enabled"}, Policies!Shown(f.seen)
      PROVE  SameVerdicts(Policies!PayloadFromForm(state), f.seen)
  <2>1. part = "enabled" /\ f.touched \subseteq {"enabled"}
    BY <1>5
  <2>2. SameVerdicts(Policies!PayloadFromForm(f.state), f.seen)
    BY <1>2, <1>5, <2>1 DEF FormKept
  <2>3. PICK e \in BOOLEAN : state = [f.state EXCEPT !.enabled = e]
    BY <2>1
  <2>4. QED
    BY <1>3, <2>2, <2>3, SwitchedPayload
<1>6. FormKept(g)
  BY <1>3, <1>4, <1>5 DEF FormKept
<1>7. QED
  BY <1>1, <1>6, FormReplaced

\* Another scope.
LEMMA SetScopeKeeps ==
    ASSUME PolicyInv, NEW t \in Tabs, NEW c \in Policies!Clusters \cup {"all"},
           Policies!SetScope(t, IF c = "all" THEN << >> ELSE <<c>>)
    PROVE  PolicyInv'
<1> DEFINE scope == IF c = "all" THEN << >> ELSE <<c>>
           s == pForm[t].state
           state == [s EXCEPT !.scope = scope]
<1>1. pForm[t] # None /\ Policies!Edit(t, "scope", state)
  BY DEF Policies!SetScope
<1>2. s \in FormStates
  BY <1>1 DEF PolicyInv, FormsKept, FormKept, PolicyForms
<1>3. scope \in Scopes /\ scope \in Seq(PolicyParts)
  <2>1. CASE c = "all"
    BY <2>1 DEF Scopes
  <2>2. CASE c # "all"
    <3>1. c \in PolicyParts
      BY <2>2 DEF PolicyParts
    <3>2. QED
      BY <2>2, <3>1 DEF Scopes
  <2>3. QED
    BY <2>1, <2>2
<1> HIDE DEF scope
<1>4. /\ state \in FormStates /\ state.scope = scope
      /\ state.conditions = s.conditions /\ state.enabled = s.enabled
  BY <1>2, <1>3 DEF FormStates
<1> HIDE DEF state
<1>5. QED
  BY <1>1, <1>3, <1>4, EditKeepsForm DEF FormParts

\* Other conditions.
LEMMA ConditionsKeep ==
    ASSUME PolicyInv, NEW t \in Tabs, pForm[t] # None, NEW l \in Seq(Drafts),
           Policies!Edit(t, "conditions", [pForm[t].state EXCEPT !.conditions = l])
    PROVE  PolicyInv'
<1> DEFINE s == pForm[t].state
           state == [s EXCEPT !.conditions = l]
<1>1. s \in FormStates
  BY DEF PolicyInv, FormsKept, FormKept, PolicyForms
<1>2. state \in FormStates /\ state.scope = s.scope
  BY <1>1 DEF FormStates
<1>3. Policies!Edit(t, "conditions", state)
  OBVIOUS
<1> HIDE DEF state
<1>4. QED
  BY <1>2, <1>3, EditKeepsForm DEF FormParts

\* The edits of the form but its scope.
LEMMA EditsKeep ==
    ASSUME PolicyInv, NEW t \in Tabs,
           \/ Policies!AddCondition(t) \/ Policies!RemoveCondition(t) \/ Policies!SetCondition(t)
           \/ Policies!SetAction(t) \/ Policies!SetEnabled(t)
    PROVE  PolicyInv'
<1> DEFINE s == pForm[t].state
           l == s.conditions
<1>1. pForm[t] # None
  BY DEF Policies!AddCondition, Policies!RemoveCondition, Policies!SetCondition,
         Policies!SetAction, Policies!SetEnabled
<1>2. s \in FormStates
  BY <1>1 DEF PolicyInv, FormsKept, FormKept, PolicyForms
<1>3. l \in Seq(Drafts) /\ s.action \in PolicyActions /\ s.enabled \in BOOLEAN
  BY <1>2 DEF FormStates
<1>4. Policies!DefaultCondition \in Drafts
  BY DefaultsAreDrafts
<1>5. CASE Policies!AddCondition(t)
  <2>1. Append(l, Policies!DefaultCondition) \in Seq(Drafts)
    BY <1>3, <1>4
  <2>2. Policies!Edit(t, "conditions", [s EXCEPT !.conditions = Append(l, Policies!DefaultCondition)])
    BY <1>5, <1>2 DEF Policies!AddCondition, FormStates
  <2>3. QED
    BY <1>1, <2>1, <2>2, ConditionsKeep
<1>6. CASE Policies!RemoveCondition(t)
  <2>1. PICK i \in DOMAIN l : Policies!Edit(t, "conditions", [s EXCEPT !.conditions = Policies!RemoveAt(@, i)])
    BY <1>6 DEF Policies!RemoveCondition
  <2>2. Policies!RemoveAt(l, i) \in Seq(Drafts)
    BY <1>3, RemovedAt
  <2>3. [s EXCEPT !.conditions = Policies!RemoveAt(@, i)] = [s EXCEPT !.conditions = Policies!RemoveAt(l, i)]
    BY <1>2 DEF FormStates
  <2>4. Policies!Edit(t, "conditions", [s EXCEPT !.conditions = Policies!RemoveAt(l, i)])
    BY <2>1, <2>3
  <2>5. QED
    BY <1>1, <2>2, <2>4, ConditionsKeep
<1>7. CASE Policies!SetCondition(t)
  <2> DEFINE Edited(c) == {Policies!OfField(f) : f \in Policies!Fields}
                             \cup {Policies!WithOp(c, op) : op \in Policies!Ops}
                             \cup {Policies!WithValue(c, text) : text \in {<< >>, <<"256">>, <<"true">>}}
  <2>1. PICK i \in DOMAIN l : \E d \in Edited(l[i]) :
            Policies!Edit(t, "conditions", [s EXCEPT !.conditions[i] = d])
    BY <1>7 DEF Policies!SetCondition
  <2>2. PICK d \in Edited(l[i]) : Policies!Edit(t, "conditions", [s EXCEPT !.conditions[i] = d])
    BY <2>1
  <2>3. l[i] \in Drafts
    BY <1>3
  <2>4. \A text \in {<< >>, <<"256">>, <<"true">>} : text \in Seq(PolicyParts)
    <3>1. "256" \in PolicyParts /\ "true" \in PolicyParts
      BY DEF PolicyParts
    <3>2. << >> \in Seq(PolicyParts) /\ <<"256">> \in Seq(PolicyParts) /\ <<"true">> \in Seq(PolicyParts)
      BY <3>1
    <3>3. QED
      BY <3>2, Zenon
  <2>5. \A f \in Policies!Fields : Policies!OfField(f) \in Drafts
    BY <2>4 DEF Policies!OfField, Policies!Condition, Drafts, Policies!DefaultOpForField,
               Policies!DefaultValueForField, Policies!Ops, Policies!Ordered
  <2>6. \A op \in Policies!Ops : Policies!WithOp(l[i], op) \in Drafts
    BY <2>3 DEF Policies!WithOp, Policies!Condition, Drafts
  <2>7. \A text \in {<< >>, <<"256">>, <<"true">>} : Policies!WithValue(l[i], text) \in Drafts
    BY <2>3, <2>4 DEF Policies!WithValue, Policies!Condition, Drafts
  <2>8. d \in Drafts
    BY <2>5, <2>6, <2>7
  <2> HIDE DEF Edited
  <2>9. [l EXCEPT ![i] = d] \in Seq(Drafts)
    BY <1>3, <2>8
  <2>10. [s EXCEPT !.conditions[i] = d] = [s EXCEPT !.conditions = [l EXCEPT ![i] = d]]
    BY <1>2 DEF FormStates
  <2>11. Policies!Edit(t, "conditions", [s EXCEPT !.conditions = [l EXCEPT ![i] = d]])
    BY <2>2, <2>10
  <2>12. QED
    BY <1>1, <2>9, <2>11, ConditionsKeep
<1>8. CASE Policies!SetAction(t)
  <2>1. PICK type \in Policies!ActionTypes, low \in Policies!Outcomes, uncertain \in Policies!Outcomes :
           Policies!Edit(t, "action", [s EXCEPT !.action =
                  [@ EXCEPT !.type = type, !.onLowHit = low, !.onUncertain = uncertain]])
    BY <1>8 DEF Policies!SetAction
  <2> DEFINE action == [s.action EXCEPT !.type = type, !.onLowHit = low, !.onUncertain = uncertain]
             state == [s EXCEPT !.action =
                  [@ EXCEPT !.type = type, !.onLowHit = low, !.onUncertain = uncertain]]
  <2>2. action \in PolicyActions
    BY <1>3 DEF PolicyActions
  <2>3. state = [s EXCEPT !.action = action]
    BY <1>2 DEF FormStates
  <2> HIDE DEF action
  <2>4. /\ state \in FormStates /\ state.scope = s.scope
        /\ state.conditions = s.conditions /\ state.enabled = s.enabled
    BY <1>2, <2>2, <2>3 DEF FormStates
  <2>5. Policies!Edit(t, "action", state)
    BY <2>1
  <2> HIDE DEF state
  <2>6. QED
    BY <1>1, <2>4, <2>5, EditKeepsForm DEF FormParts
<1>9. CASE Policies!SetEnabled(t)
  <2> DEFINE state == [s EXCEPT !.enabled = ~@]
  <2>1. state = [s EXCEPT !.enabled = ~s.enabled] /\ (~s.enabled) \in BOOLEAN
    <3>1. state = [s EXCEPT !.enabled = ~s.enabled]
      BY <1>2 DEF FormStates
    <3>2. (~s.enabled) \in BOOLEAN
      OBVIOUS
    <3>3. QED
      BY <3>1, <3>2, Zenon
  <2>2. state \in FormStates /\ state.scope = s.scope
    BY <1>2, <2>1 DEF FormStates
  <2>3. Policies!Edit(t, "enabled", state)
    BY <1>9 DEF Policies!SetEnabled
  <2> HIDE DEF state
  <2>4. QED
    BY <1>1, <2>1, <2>2, <2>3, EditKeepsForm DEF FormParts
<1>10. QED
  BY <1>5, <1>6, <1>7, <1>8, <1>9

\* A call that is sent.
LEMMA CallAdded ==
    ASSUME PolicyInv, NEW c, CallKept(c), pCalls' = pCalls \cup {c},
           UNCHANGED <<pRules, pList, pForm, pSelected, pOpened>>
    PROVE  PolicyInv'
<1>1. PolicyTypes'
  BY DEF PolicyInv, PolicyTypes
<1>2. FormsKept' /\ CallsKept'
  BY DEF PolicyInv, FormsKept, CallsKept
<1>3. QED
  BY <1>1, <1>2 DEF PolicyInv

\* A new rule is sent.
LEMMA SaveNewKeeps ==
    ASSUME PolicyInv, NEW t \in Tabs, Policies!SaveNew(t)
    PROVE  PolicyInv'
<1> DEFINE f == pForm[t]
           p == Policies!PayloadFromForm(f.state)
           target(multiCluster) == Policies!CreateTargetCluster(f.state.scope,
                                       IF multiCluster THEN pSelected[t] ELSE "all", multiCluster)
           call(multiCluster) == [kind |-> "post", tab |-> t, form |-> f.id,
                                  to |-> Policies!Selects(target(multiCluster)),
                                  body |-> p, seen |-> None, touched |-> f.touched]
<1>1. /\ f # None /\ f.initial = None
      /\ \E multiCluster \in BOOLEAN : pCalls' = pCalls \cup {call(multiCluster)}
      /\ UNCHANGED <<pRules, pList, pForm, pSelected, pOpened>>
  BY DEF Policies!SaveNew, Policies!CanSave
<1>2. PICK m \in BOOLEAN : pCalls' = pCalls \cup {call(m)}
  BY <1>1
<1>3. FormKept(f)
  BY <1>1 DEF PolicyInv, FormsKept
<1>4. f.state \in FormStates /\ p \in PolicyRule
  BY <1>3, PayloadIs DEF FormKept, PolicyForms
<1>5. f.state.scope # << >> => target(m) = f.state.scope
  BY DEF Policies!CreateTargetCluster
<1> DEFINE c == call(m)
<1>6. /\ c.kind = "post" /\ c.to = Policies!Selects(target(m)) /\ c.body = p /\ c.touched = f.touched
  OBVIOUS
<1> HIDE DEF c, p, target
<1>7. ASSUME c.touched \cap {"conditions", "enabled"} = {}, NEW b \in DOMAIN ClusterOf, c.to = {b}
      PROVE  \E q \in Policies!Requests(b) : Policies!Verdict(q, c.body) # "none"
  <2>1. f.state.scope \in Scopes /\ f.state.conditions = <<Policies!DefaultCondition>> /\ f.state.enabled
    BY <1>1, <1>3, <1>6, <1>7 DEF FormKept
  <2>2. f.state.scope # << >> => b \in Policies!Selects(f.state.scope)
    BY <1>5, <1>6, <1>7
  <2>3. QED
    BY <1>4, <1>6, <2>1, <2>2, NewRuleDecides DEF p
<1>8. CallKept(c)
  BY <1>4, <1>6, <1>7 DEF CallKept
<1>9. pCalls' = pCalls \cup {c}
  BY <1>2 DEF c, p, target
<1>10. QED
  BY <1>1, <1>8, <1>9, CallAdded

\* An edited rule is sent.
LEMMA SaveEditedKeeps ==
    ASSUME PolicyInv, NEW t \in Tabs, Policies!SaveEdited(t)
    PROVE  PolicyInv'
<1> DEFINE f == pForm[t]
           p == Policies!PayloadFromForm(f.state)
           c == [kind |-> "patch", tab |-> t, form |-> f.id, to |-> {f.initial}, body |-> p, seen |-> f.seen,
                 touched |-> f.touched]
<1>1. /\ f # None /\ f.initial # None /\ pCalls' = pCalls \cup {c}
      /\ UNCHANGED <<pRules, pList, pForm, pSelected, pOpened>>
  BY DEF Policies!SaveEdited, Policies!CanSave
<1>2. FormKept(f)
  BY <1>1 DEF PolicyInv, FormsKept
<1>3. f.state \in FormStates /\ p \in PolicyRule /\ f.id # 0
  BY <1>2, PayloadIs DEF FormKept, PolicyForms
<1>4. c.kind = "patch" /\ c.form = f.id /\ c.body = p /\ c.seen = f.seen /\ c.touched = f.touched
  OBVIOUS
<1> HIDE DEF c, p
<1>5. CallKept(c)
  BY <1>1, <1>2, <1>3, <1>4 DEF CallKept, FormKept, p
<1>6. QED
  BY <1>1, <1>5, CallAdded

\* A row is toggled or deleted: the rule that it shows is sent.
LEMMA RowsKeep ==
    ASSUME PolicyInv, NEW t \in Tabs, NEW b \in DOMAIN ClusterOf,
           Policies!TogglePolicy(t, b) \/ Policies!DeletePolicy(t, b)
    PROVE  PolicyInv'
<1> DEFINE rule == pList[t][b]
<1>1. rule # None
  BY DEF Policies!TogglePolicy, Policies!DeletePolicy, Policies!Row
<1>2. rule \in PolicyRule
  BY <1>1 DEF PolicyInv, PolicyTypes, RulesStored
<1>3. CASE Policies!TogglePolicy(t, b)
  <2> DEFINE body == [rule EXCEPT !.enabled = ~@]
             c == [kind |-> "patch", tab |-> t, form |-> 0, to |-> {b}, seen |-> rule, body |-> body,
                   touched |-> {"enabled"}]
  <2>1. pCalls' = pCalls \cup {c} /\ UNCHANGED <<pRules, pList, pForm, pSelected, pOpened>>
    BY <1>3 DEF Policies!TogglePolicy
  <2>2. body \in PolicyRule /\ [body EXCEPT !.enabled = rule.enabled] = rule
    BY <1>2 DEF PolicyRule
  <2>3. c.kind = "patch" /\ c.body = body /\ c.seen = rule
    OBVIOUS
  <2> HIDE DEF c, body
  <2>4. SameVerdicts(body, rule)
    BY <2>2 DEF SameVerdicts
  <2>5. CallKept(c)
    BY <2>2, <2>3, <2>4 DEF CallKept
  <2>6. QED
    BY <2>1, <2>5, CallAdded
<1>4. CASE Policies!DeletePolicy(t, b)
  <2> DEFINE c == [kind |-> "delete", tab |-> t, form |-> 0, to |-> {b}, seen |-> rule, body |-> None,
                   touched |-> {}]
  <2>1. pCalls' = pCalls \cup {c} /\ UNCHANGED <<pRules, pList, pForm, pSelected, pOpened>>
    BY <1>4 DEF Policies!DeletePolicy
  <2>2. c.kind = "delete" /\ c.body = None
    OBVIOUS
  <2> HIDE DEF c
  <2>3. CallKept(c)
    BY <2>2 DEF CallKept
  <2>4. QED
    BY <2>1, <2>3, CallAdded
<1>5. QED
  BY <1>3, <1>4

\* A rule that arrives.
LEMMA AppliedIsTyped ==
    ASSUME PolicyInv, NEW c \in pCalls, UNCHANGED pRules \/ Policies!Applies(c)
    PROVE  pRules' \in RulesStored
<1>1. pRules \in RulesStored /\ c.body \in PolicyRule \cup {None}
  BY DEF PolicyInv, PolicyTypes, CallsKept, CallKept
<1>2. QED
  BY <1>1 DEF Policies!Applies, Policies!Indexers, RulesStored

\* A call is answered or fails, and may have arrived.
LEMMA AnswersKeep ==
    ASSUME PolicyInv, NEW c \in pCalls, Policies!Answered(c) \/ Policies!Fails(c)
    PROVE  PolicyInv'
<1>1. /\ UNCHANGED pRules \/ Policies!Applies(c)
      /\ pCalls' = pCalls \ {c}
      /\ pForm' = pForm \/ pForm' = [pForm EXCEPT ![c.tab] = None]
      /\ UNCHANGED <<pList, pSelected, pOpened>>
  BY DEF Policies!Answered, Policies!Fails
<1>2. /\ pForm' = [t \in Tabs |-> pForm'[t]]
      /\ \A t \in Tabs : pForm'[t] = pForm[t] \/ pForm'[t] = None
  BY <1>1 DEF PolicyInv, PolicyTypes
<1>3. pRules' \in RulesStored
  BY <1>1, AppliedIsTyped
<1>4. PolicyTypes'
  BY <1>1, <1>2, <1>3 DEF PolicyInv, PolicyTypes
<1>5. FormsKept'
  BY <1>2 DEF PolicyInv, FormsKept
<1>6. CallsKept'
  BY <1>1 DEF PolicyInv, CallsKept
<1>7. QED
  BY <1>4, <1>5, <1>6 DEF PolicyInv

\* The list is polled, a form closed, another cluster selected.
LEMMA OthersKeep ==
    ASSUME PolicyInv, NEW t \in Tabs,
           \/ Policies!Poll(t) \/ Policies!Cancel(t)
           \/ \E c \in Policies!Clusters \cup {"all"} : Policies!Select(t, c)
    PROVE  PolicyInv'
<1>1. CASE Policies!Cancel(t)
  <2>1. pForm' = [pForm EXCEPT ![t] = None] /\ UNCHANGED <<pRules, pList, pCalls, pSelected, pOpened>>
    BY <1>1 DEF Policies!Cancel
  <2>2. QED
    BY <2>1, FormReplaced
<1>2. CASE Policies!Poll(t) \/ \E c \in Policies!Clusters \cup {"all"} : Policies!Select(t, c)
  <2>1. UNCHANGED <<pRules, pForm, pCalls, pOpened>>
    BY <1>2 DEF Policies!Poll, Policies!Select
  <2>2. /\ pList' \in [Tabs -> RulesStored]
        /\ pSelected' \in [Tabs -> Policies!Clusters \cup {"all"}]
    BY <1>2 DEF Policies!Poll, Policies!Select, PolicyInv, PolicyTypes
  <2>3. PolicyTypes'
    BY <2>1, <2>2 DEF PolicyInv, PolicyTypes
  <2>4. FormsKept' /\ CallsKept'
    BY <2>1 DEF PolicyInv, FormsKept, CallsKept
  <2>5. QED
    BY <2>3, <2>4 DEF PolicyInv
<1>3. QED
  BY <1>1, <1>2

\* Every step of the policies keeps the invariant.
LEMMA PolicyKept == ASSUME PolicyInv, [Policies!Next]_policiesVars PROVE PolicyInv'
<1>1. CASE UNCHANGED policiesVars
  BY <1>1 DEF policiesVars, PolicyInv, PolicyTypes, FormsKept, CallsKept
<1>2. ASSUME NEW t \in Tabs, Policies!TabNext(t) PROVE PolicyInv'
  <2>1. CASE Policies!NewRule(t)
    <3>1. Policies!Open(t, None, None)
      BY <2>1 DEF Policies!NewRule
    <3>2. QED
      BY <3>1, OpenKeeps
  <2>2. CASE \E b \in Policies!Indexers : Policies!EditRule(t, b)
    <3>1. PICK b \in DOMAIN ClusterOf : pList[t][b] # None /\ Policies!Open(t, b, pList[t][b])
      BY <2>2 DEF Policies!EditRule, Policies!Indexers
    <3>2. pList[t][b] \in PolicyRule \cup {None} /\ b # None
      BY PoliciesAssumption DEF PolicyInv, PolicyTypes, RulesStored
    <3>3. QED
      BY <3>1, <3>2, OpenKeeps
  <2>3. CASE Policies!Poll(t) \/ Policies!Cancel(t) \/ \E c \in Policies!Clusters \cup {"all"} : Policies!Select(t, c)
    BY <2>3, OthersKeep
  <2>4. CASE \E c \in Policies!Clusters \cup {"all"} : Policies!SetScope(t, IF c = "all" THEN << >> ELSE <<c>>)
    BY <2>4, SetScopeKeeps
  <2>5. CASE \/ Policies!AddCondition(t) \/ Policies!RemoveCondition(t) \/ Policies!SetCondition(t)
             \/ Policies!SetAction(t) \/ Policies!SetEnabled(t)
    BY <2>5, EditsKeep
  <2>6. CASE Policies!SaveNew(t)
    BY <2>6, SaveNewKeeps
  <2>7. CASE Policies!SaveEdited(t)
    BY <2>7, SaveEditedKeeps
  <2>8. CASE \/ \E b \in Policies!Indexers : Policies!TogglePolicy(t, b)
             \/ \E b \in Policies!Indexers : Policies!DeletePolicy(t, b)
    BY <2>8, RowsKeep DEF Policies!Indexers
  <2>9. QED
    BY <1>2, <2>1, <2>2, <2>3, <2>4, <2>5, <2>6, <2>7, <2>8 DEF Policies!TabNext
<1>3. QED
  BY <1>1, <1>2, AnswersKeep DEF Policies!Next

\* What a call brings is what is stored.
LEMMA CallArrives ==
    ASSUME PolicyInv, NEW c \in pCalls, NEW b \in DOMAIN ClusterOf, Policies!Applies(c), c.to = {b}
    PROVE  pRules'[b] = c.body /\ CallKept(c)
BY DEF Policies!Applies, Policies!Indexers, PolicyInv, CallsKept

\* A rule that is opened and saved without an edit, or only switched, decides
\* every request as before, unless it changed since it was read or the form
\* cannot show it: for any clusters, rules of any well-written conditions in any
\* order, tabs, and calls that arrive late and in any order
\* (formStateFromPolicy, payloadFromForm, policies/page.tsx:1191-1263).
THEOREM UntouchedRulesKeepVerdicts == ConsoleSpec => UntouchedKeepsVerdicts
<1>1. ConsoleInit => PolicyInv
  BY PoliciesStart DEF ConsoleInit
<1>2. PolicyInv /\ [ConsoleNext]_consoleVars => PolicyInv'
  BY PolicyKept, PoliciesStep
<1>3. PolicyInv /\ [ConsoleNext]_consoleVars =>
        [\A c \in pCalls, b \in Policies!Indexers :
          /\ Policies!Applies(c) /\ c.kind = "patch" /\ c.touched \subseteq {"enabled"}
          /\ c.to = {b} /\ pRules[b] = c.seen
          /\ c.form = 0 \/ Policies!Shown(c.seen)
          => \A q \in Policies!Requests(b) :
                Policies!Verdict(q, [pRules'[b] EXCEPT !.enabled = c.seen.enabled])
                   = Policies!Verdict(q, c.seen)]_policiesVars
  BY CallArrives DEF CallKept, SameVerdicts, Policies!Indexers
<1> QED
  BY <1>1, <1>2, <1>3, PTL DEF ConsoleSpec, UntouchedKeepsVerdicts,
                               Policies!UntouchedKeepsVerdicts, Policies!vars, policiesVars

\* A new rule whose conditions and switch were left alone decides a request of
\* the backend that it goes to, for any clusters, selections when it is opened
\* and saved, and scopes (createTargetCluster, policies/page.tsx:1281-1289).
THEOREM CreatedRulesDecide == ConsoleSpec => CreatedDecides
<1>1. ConsoleInit => PolicyInv
  BY PoliciesStart DEF ConsoleInit
<1>2. PolicyInv /\ [ConsoleNext]_consoleVars => PolicyInv'
  BY PolicyKept, PoliciesStep
<1>3. PolicyInv /\ [ConsoleNext]_consoleVars =>
        [\A c \in pCalls, b \in Policies!Indexers :
          /\ Policies!Applies(c) /\ c.kind = "post"
          /\ c.touched \cap {"conditions", "enabled"} = {} /\ c.to = {b}
          => \E q \in Policies!Requests(b) : Policies!Verdict(q, pRules'[b]) # "none"]_policiesVars
  BY CallArrives DEF CallKept, Policies!Indexers
<1> QED
  BY <1>1, <1>2, <1>3, PTL DEF ConsoleSpec, CreatedDecides, Policies!CreatedDecides,
                               Policies!vars, policiesVars

=============================================================================
