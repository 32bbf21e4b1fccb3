-------------------------- MODULE MCResidencyIndex --------------------------
(***************************************************************************)
(* The residency index and its queries on small sets.                      *)
(*                                                                         *)
(* Queries have three keys: of three blocks two are the same here, which   *)
(* Query does not care about, and a run with a hole needs three.           *)
(***************************************************************************)
EXTENDS ResidencyQuery, TLC

Keys == Permutations(Engines) \cup Permutations(RequestKeys) \cup Permutations(EngineKeys)

=============================================================================
