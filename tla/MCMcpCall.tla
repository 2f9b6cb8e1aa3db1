------------------------------- MODULE MCMcpCall -------------------------------
(***************************************************************************)
(* The instance of McpCall that the code is: three attempts.               *)
(***************************************************************************)
EXTENDS McpCall
================================================================================
