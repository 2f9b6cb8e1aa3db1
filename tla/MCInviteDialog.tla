---------------------------- MODULE MCInviteDialog -----------------------------
(***************************************************************************)
(* Instances of InviteDialog small enough for TLC.                         *)
(***************************************************************************)
EXTENDS InviteDialog, TLC

CONSTANTS ann, bob

\* One item or both, one person or both; ann is known from the directory only.
SomePicks ==
    {(1 :> {bob} @@ 2 :> {}), (1 :> {ann, bob} @@ 2 :> {}), (1 :> {ann} @@ 2 :> {bob}),
     (1 :> {} @@ 2 :> {ann, bob})}

Symmetry == Permutations(Requests) \cup Permutations(Calls)
================================================================================
