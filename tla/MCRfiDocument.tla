---------------------------- MODULE MCRfiDocument ----------------------------
(***************************************************************************)
(* An instance of RfiDocument small enough for TLC.                        *)
(***************************************************************************)
EXTENDS RfiDocument
===============================================================================
