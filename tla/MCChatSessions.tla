---------------------------- MODULE MCChatSessions ----------------------------
(***************************************************************************)
(* Instances of ChatSessions small enough for TLC.                         *)
(***************************************************************************)
EXTENDS ChatSessions, TLC

Symmetry == Permutations(Requests)
===============================================================================
