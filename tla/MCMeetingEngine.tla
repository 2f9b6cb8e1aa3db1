---------------------------- MODULE MCMeetingEngine ----------------------------
(***************************************************************************)
(* Instances of MeetingEngine small enough for TLC.                        *)
(***************************************************************************)
EXTENDS MeetingEngine, TLC

Symmetry == Permutations(Tasks) \cup Permutations(Clicks)
================================================================================
