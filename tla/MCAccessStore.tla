---------------------------- MODULE MCAccessStore ----------------------------
(***************************************************************************)
(* Instances of AccessStore small enough for TLC.                          *)
(***************************************************************************)
EXTENDS AccessStore, TLC

CONSTANTS alice, example, audit, i1, i2, r1, r2

MCDomainOf == [u \in Users |-> example]
MCRestricted == [c \in Commands |-> "restricted"]
MCOpen == [c \in Commands |-> "open"]

Symmetry == Permutations(Instances) \cup Permutations(Requests)
===============================================================================
