---------------------------- MODULE MCKVListener ----------------------------
(***************************************************************************)
(* Instances of KVListener for TLC.  Prefix blocks are chains of chunks.   *)
(***************************************************************************)
EXTENDS KVListener

\* A block, its continuation, and another block.
MCBlocks == {<<1>>, <<1, 2>>, <<3>>}
MCPair == {<<1>>, <<1, 2>>}
MCOne == {<<1>>}

MCKeys(lora) == {Key(b, FALSE) : b \in MCBlocks} \cup {Key(b, TRUE) : b \in lora}
MCEngineKeys == MCKeys(MCOne)

MCReplaying == [loraBlocks |-> {}, offload |-> FALSE, replay |-> TRUE, maxSeq |-> 3, replayCap |-> 3,
                faults |-> {}, maxFaults |-> 2]

\* A replay that keeps too little, under any two faults that should be told, and
\* under those that are not; with a batch less, under any two of all.
MCSilent == {"engineRestarts", "profileGone"}
MCFaulty ==
    {[MCReplaying EXCEPT !.replayCap = 2, !.faults = kinds] :
        kinds \in {FaultKinds \ MCSilent, MCSilent \cup {"dropped"}}}
    \cup {[MCReplaying EXCEPT !.maxSeq = 2, !.replayCap = 1, !.faults = FaultKinds]}

\* Replays that make up for what was lost, and an engine that offloads to its
\* cpu tier, without a replay but with longer runs.
MCSetups ==
    {[MCReplaying EXCEPT !.loraBlocks = MCOne, !.faults = {"connLost", "indexerRestarts", "reregistered"}],
     [MCReplaying EXCEPT !.offload = TRUE, !.replay = FALSE, !.maxSeq = 5, !.replayCap = 4,
                         !.faults = {"dropped"}, !.maxFaults = 1]}

MCIdle == {[MCReplaying EXCEPT !.maxSeq = 4, !.replayCap = 4, !.faults = {"profileGone"}, !.maxFaults = 1]}

=============================================================================
