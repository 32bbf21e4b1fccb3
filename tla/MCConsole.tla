------------------------------ MODULE MCConsole ------------------------------
(***************************************************************************)
(* The web console for TLC.                                                *)
(***************************************************************************)
EXTENDS Console, TLC

\* Two clusters; the profile is on one of the backends, or on both with a chat
\* template on one of them only.
MCRemote == [Blank("s1") EXCEPT !.version = 1]
MCLocal == [MCRemote EXCEPT !.mode = "local", !.sha = "h1"]
MCPlain == [MCLocal EXCEPT !.sha = None]
MCProfiles == {<<MCRemote, None>>, <<MCLocal, None>>, <<MCPlain, MCLocal>>}

\* Rules with every form of condition the form takes apart: a list of numbers,
\* a scope, another condition on the cluster, a boolean, and no condition.
MCValue(list1, parts) == [list |-> list1, parts |-> parts]
MCIs(field, op, value) == [field |-> field, op |-> op, value |-> value]
MCHit == [type |-> "require_cache_hit", minHitRatio |-> 30, onLowHit |-> None, onUncertain |-> "reject"]
MCScoped ==
    [conditions |-> <<MCIs("input_tokens", "in", MCValue(TRUE, <<"0", "300">>)),
                      MCIs("cluster_id", "eq", MCValue(FALSE, <<"a">>)),
                      MCIs("cluster_id", "neq", MCValue(FALSE, <<"b">>))>>,
     action |-> MCHit, enabled |-> TRUE]
MCCatchAll == [conditions |-> <<>>, action |-> [MCHit EXCEPT !.type = "reject"], enabled |-> TRUE]
MCUnscoped ==
    [conditions |-> <<MCIs("cluster_id", "in", MCValue(TRUE, <<"a", "b">>)),
                      MCIs("cluster_id", "neq", MCValue(FALSE, <<"b">>)),
                      MCIs("tokenized", "eq", MCValue(FALSE, <<"true">>))>>,
     action |-> [MCHit EXCEPT !.type = "accept"], enabled |-> TRUE]

MCClusterOf == <<"a", "b">>
MCNumber == "0" :> 0 @@ "256" :> 256 @@ "300" :> 300
MCPolicyStart == {<<MCScoped, MCCatchAll>>, <<MCUnscoped, MCUnscoped>>}

\* The two clusters differ in their rules.
MCPreviewStart == {<< <<MCScoped, MCCatchAll>>, <<MCUnscoped, MCScoped>> >>}
MCChanged == {<<MCCatchAll>>}

\* The text of 11 is before that of 10, and the ring takes the events of a
\* cluster in the order of time or not.
MCEarly == {<<"a", TRUE, 10>>, <<"b", FALSE, 11>>}
MCKinds == <<MCEarly, {<<"a", TRUE, 11>>, <<"b", FALSE, 10>>}, MCEarly>>

\* Two indexers of one home, whose name is also that of a cluster.
MCHome == <<1, 1>>
MCEngineStart == {<<{2}, {}>>}

MCOutcomes == "a" :> {"accept"} @@ "b" :> {"reject"} @@ "gateway" :> {"fallback"}
MCAnswers == {<<"remote", "local">>, <<"local", "local">>, <<None, "remote">>}

\* A page that is not shown rests in one of its initial states.  The event
\* list treats its clusters alike.
MCInit ==
    /\ page \in Pages
    /\ page # "profiles" => rows = <<MCRemote, None>>
    /\ page # "lists" => lSelection = "all"
    /\ page # "connections" => cConn = None
    /\ page # "feed" => fGateway = FALSE
    /\ page # "engines" => rGateway = FALSE
    /\ page # "decisions" => dGateway = FALSE /\ dSelected = {"a"}
    /\ page # "preview" => vScope = [cluster_id |-> "a", model |-> 1, input_tokens |-> "0", ratio |-> 0]
    /\ page # "simulator" => sInput = [cluster |-> "a", model |-> 1, text |-> "p"]
    /\ ConsoleInit
    /\ page # "policies" => pRules[2] = MCUnscoped /\ pSelected[1] = "all"
    /\ fSelection = IF fGateway THEN "a" ELSE "all"

MCSpec == MCInit /\ [][ConsoleNext]_consoleVars /\ ConsoleFairness

=============================================================================
