--------------------------- MODULE MCConfigStore ---------------------------
(***************************************************************************)
(* Instances of ConfigStore for TLC: an engine, which can be removed, a    *)
(* cluster, which cannot, and a model.                                     *)
(***************************************************************************)
EXTENDS ConfigStore, TLC

CONSTANTS cluster, engine, model

MCSeed == <<[id |-> cluster, value |-> "seed"], [id |-> engine, value |-> "seed"],
            [id |-> model, value |-> "seed"]>>

Failing(save, load, crash) == [save |-> save, load |-> load, crash |-> crash]
SavesAndCrashes == Failing(1, 0, 2)
OneLoadError == Failing(0, 1, 1)
NoFailures == Failing(0, 0, 0)

=============================================================================
