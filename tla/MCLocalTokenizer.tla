-------------------------- MODULE MCLocalTokenizer --------------------------
(***************************************************************************)
(* Two clusters with a profile of the same model, two handlers, two        *)
(* tokenizers and one chat template.  Handlers, clusters and tokenizers    *)
(* are interchangeable.                                                    *)
(***************************************************************************)
EXTENDS LocalTokenizer, TLC

Symmetry == Permutations(Handlers) \cup Permutations(Clusters) \cup Permutations(Zips)

=============================================================================
