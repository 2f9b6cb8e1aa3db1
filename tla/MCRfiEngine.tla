----------------------------- MODULE MCRfiEngine -----------------------------
(***************************************************************************)
(* Instances of RfiEngine small enough for TLC.                            *)
(***************************************************************************)
EXTENDS RfiEngine, TLC

Symmetry == Permutations(Tasks) \cup Permutations(Clicks) \cup Permutations(Fills)
===============================================================================
