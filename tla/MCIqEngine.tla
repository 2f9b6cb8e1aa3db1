------------------------------ MODULE MCIqEngine ------------------------------
(***************************************************************************)
(* Instances of IqEngine small enough for TLC.                             *)
(***************************************************************************)
EXTENDS IqEngine, TLC

Symmetry == Permutations(Tasks) \cup Permutations(Clicks)
===============================================================================
