------------------------------ MODULE CallPromise ------------------------------
(***************************************************************************)
(* What a caller of call_context_tool or call_action_tool may rely on:     *)
(* an answer that the work was done is given only when it was; it may be   *)
(* done as often as there are attempts, and also after the call has ended; *)
(* an exception tells nothing; and the call ends.                          *)
(***************************************************************************)
EXTENDS Naturals

CONSTANT Attempts       \* _MCP_MAX_ATTEMPTS

VARIABLES
    effects,    \* how often the tool has done its work
    outcome     \* what the caller was told

promiseVars == <<effects, outcome>>

Outcomes == {"pending", "done", "refused", "raised"}

PromiseInit == effects = 0 /\ outcome = "pending"

DoWork ==
    /\ effects < Attempts
    /\ effects' = effects + 1
    /\ UNCHANGED outcome

\* "refused" is a text too: the tool's soft error.
Tell(what) ==
    /\ outcome = "pending"
    /\ what = "done" => effects > 0
    /\ outcome' = what
    /\ UNCHANGED effects

PromiseNext == DoWork \/ \E what \in {"done", "refused", "raised"} : Tell(what)

PromiseSafety == PromiseInit /\ [][PromiseNext]_promiseVars

PromiseSpec == PromiseSafety /\ <>(outcome # "pending")
================================================================================
