-------------------------------- MODULE McpCall --------------------------------
(***************************************************************************)
(* One call of a tool by mcp_client.py: an MCP session for every attempt,  *)
(* what the attempts set going on the tool servers, and _with_transport_   *)
(* retry around them.  The connection may drop and the client's patience   *)
(* end while the server is still at work, or before it was asked.          *)
(***************************************************************************)
EXTENDS Integers, FiniteSets

CONSTANT Attempts       \* _MCP_MAX_ATTEMPTS

ASSUME AttemptsAssumption == Attempts \in Nat \ {0}

VARIABLES
    retryOnTimeout,  \* the call's parameter: a client-side timeout is transient
    pc,              \* the client: "open", "wait", "failed", "returned", "raised"
    attempt,         \* the attempt under way
    errors,          \* the exceptions in the group the last attempt raised
    text,            \* the text returned: "done", the tool's soft error, or none yet
    server,          \* server[i]: what attempt i has set going
    dropped          \* history: a connection has dropped

vars == <<retryOnTimeout, pc, attempt, errors, text, server, dropped>>
client == <<retryOnTimeout, pc, attempt, errors, text, dropped>>

Rounds == 1 .. Attempts

\* "drop": a connection error, a terminated session; "broken": any other failure of the
\* transport; "tool": the RuntimeError for a result that is marked an error.
Losses == {"drop", "broken"}
Kinds == Losses \cup {"timeout", "tool"}

Init ==
    /\ retryOnTimeout \in BOOLEAN
    /\ pc = "open" /\ attempt = 1 /\ errors = {} /\ text = "none"
    /\ server = [i \in Rounds |-> "none"]
    /\ dropped = FALSE

-------------------------------------------------------------------------------
\* The servers

\* A tool works, answers with an error text, or fails; or the instance is recycled
\* under it.
Work(i) ==
    /\ server[i] = "running"
    /\ \E how \in {"done", "refused", "failed", "gone"} : server' = [server EXCEPT ![i] = how]
    /\ UNCHANGED client

-------------------------------------------------------------------------------
\* The client

Raises(kinds) ==
    /\ pc' = "failed"
    /\ errors' = kinds
    /\ dropped' = (dropped \/ "drop" \in kinds)
    /\ UNCHANGED <<retryOnTimeout, attempt, text>>

\* A session is opened and the tool called; the connection may fail on either side
\* of that.
Open ==
    /\ pc = "open"
    /\ \/ /\ server' = [server EXCEPT ![attempt] = "running"]
          /\ pc' = "wait"
          /\ UNCHANGED <<retryOnTimeout, attempt, errors, text, dropped>>
       \/ \E kinds \in (SUBSET (Losses \cup {"timeout"})) \ {{}} :
             Raises(kinds) /\ UNCHANGED server

\* A slip: an answer is a success.
AnswerAny(how) == IF how = "failed" THEN "none" ELSE "done"

\* The text of an answer that is not marked an error, whatever it says.
AnswerText(how) == IF how \in {"done", "refused"} THEN how ELSE "none"

\* The answer arrives.
Receive ==
    /\ pc = "wait"
    /\ server[attempt] \in {"done", "refused"}
    /\ pc' = "returned"
    /\ text' = AnswerText(server[attempt])
    /\ UNCHANGED <<retryOnTimeout, attempt, errors, server, dropped>>

\* A result that is marked an error is raised, and the sessions may drop as they
\* are closed on it.
ReceiveError ==
    /\ pc = "wait"
    /\ server[attempt] = "failed"
    /\ \E others \in SUBSET Losses : Raises({"tool"} \cup others)
    /\ UNCHANGED server

\* No answer: the connection drops or breaks, of itself ...
Drop ==
    /\ pc = "wait"
    /\ \E how \in Losses : Raises({how})
    /\ UNCHANGED server

\* ... or the time is up, with what else that tears down.
TimeUp ==
    /\ pc = "wait"
    /\ \E others \in SUBSET Losses : Raises({"timeout"} \cup others)
    /\ UNCHANGED server

\* A slip: a timeout is always worth another attempt.
AnyIsTransient(kinds) == kinds \cap {"drop", "timeout"} # {}

\* Of a group of exceptions one is enough.
IsTransient(kinds) == "drop" \in kinds \/ ("timeout" \in kinds /\ retryOnTimeout)

IsLast == attempt = Attempts

\* After a delay the next attempt opens a session of its own.
Retry ==
    /\ pc = "failed"
    /\ IsTransient(errors) /\ ~IsLast
    /\ pc' = "open" /\ attempt' = attempt + 1 /\ errors' = {}
    /\ UNCHANGED <<retryOnTimeout, text, server, dropped>>

GiveUp ==
    /\ pc = "failed"
    /\ ~IsTransient(errors) \/ IsLast
    /\ pc' = "raised"
    /\ UNCHANGED <<retryOnTimeout, attempt, errors, text, server, dropped>>

Client == Open \/ Receive \/ ReceiveError \/ TimeUp \/ Retry \/ GiveUp

Next == Client \/ Drop \/ \E i \in Rounds : Work(i)

Spec == Init /\ [][Next]_vars

\* The client goes on, if need be because its time is up; nothing makes a server
\* finish, or a connection drop.
FairSpec == Spec /\ WF_vars(Client)

-------------------------------------------------------------------------------
\* Properties

\* "A slow-but-healthy call isn't retried into a second concurrent server-side
\* write": without retries on a timeout, two attempts are at work at once only
\* after a connection has dropped.
NoConcurrentRerun ==
    \A i, j \in Rounds :
        ~retryOnTimeout /\ i # j /\ server[i] = "running" /\ server[j] = "running" => dropped

\* The call keeps the promise that the engines' tool calls are made of: "done" is
\* never said of work that was not done, no attempt goes beyond the bound, and the
\* caller is not left waiting, however long the servers take.
Promise == INSTANCE CallPromise WITH
    effects <- Cardinality({i \in Rounds : server[i] = "done"}),
    outcome <- CASE pc = "returned" -> text
                 [] pc = "raised" -> "raised"
                 [] OTHER -> "pending"

ImplementsPromise == Promise!PromiseSpec
================================================================================
