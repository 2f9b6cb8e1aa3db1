----------------------------- MODULE AccessPromise -----------------------------
(***************************************************************************)
(* What the access store promises its callers, with no cache and no        *)
(* processes: the table changes at any time, and an answer is what         *)
(* authorize() says of a content the table held after the request began or *)
(* less than TTL before the answer.                                        *)
(***************************************************************************)
EXTENDS Integers, AccessPolicy

CONSTANTS Requests, TTL, MaxClock

VARIABLES
    clock,      \* seconds
    table,      \* table[c]: the rows of command c
    lastHeld,   \* lastHeld[c][rows]: when the table last held exactly rows
    call        \* call[r]: no call, a pending one, or the latest answer

promiseVars == <<clock, table, lastHeld, call>>

NoCall == [pc |-> "none"]

Times == 0 .. MaxClock
Never == -1 - TTL

\* rows is recent enough to answer at the present time a request begun at start.
Recent(c, rows, start) ==
    lastHeld[c][rows] >= start \/ lastHeld[c][rows] > clock - TTL

PromiseInit ==
    /\ clock = 0
    /\ table \in [Commands -> SUBSET Rows]
    /\ lastHeld = [c \in Commands |->
                     [rows \in SUBSET Rows |-> IF rows = table[c] THEN 0 ELSE Never]]
    /\ call = [r \in Requests |-> NoCall]

PromiseTick ==
    /\ clock < MaxClock
    /\ clock' = clock + 1
    /\ lastHeld' = [c \in Commands |-> [lastHeld[c] EXCEPT ![table[c]] = clock + 1]]
    /\ UNCHANGED <<table, call>>

PromiseWrite(c) ==
    /\ \E rows \in SUBSET Rows : table' = [table EXCEPT ![c] = rows]
    /\ lastHeld' = [lastHeld EXCEPT ![c][table'[c]] = clock]
    /\ UNCHANGED <<clock, call>>

PromiseBegin(r, c, u) ==
    /\ call[r].pc # "pending"
    /\ call' = [call EXCEPT ![r] = [pc |-> "pending", cmd |-> c, user |-> u, start |-> clock]]
    /\ UNCHANGED <<clock, table, lastHeld>>

Answered(c, u, start, rows) ==
    [pc |-> "answered", cmd |-> c, user |-> u, start |-> start,
     allowed |-> Authorize(Compile(rows), DefaultMode[c], u)]

\* A request is answered in one step, or some time after it began.
PromiseAnswer(r, c, u, start) ==
    /\ IF call[r].pc = "pending"
       THEN call[r] = [pc |-> "pending", cmd |-> c, user |-> u, start |-> start]
       ELSE start = clock
    /\ \E rows \in SUBSET Rows :
          /\ Recent(c, rows, start)
          /\ call' = [call EXCEPT ![r] = Answered(c, u, start, rows)]
    /\ UNCHANGED <<clock, table, lastHeld>>

\* The request is lost: an exception of the database, or the process died.
PromiseForget ==
    /\ \E lost \in SUBSET Requests :
          call' = [r \in Requests |-> IF r \in lost THEN NoCall ELSE call[r]]
    /\ UNCHANGED <<clock, table, lastHeld>>

PromiseNext ==
    \/ PromiseTick
    \/ \E c \in Commands : PromiseWrite(c)
    \/ PromiseForget
    \/ \E r \in Requests, c \in Commands, u \in Users :
          \/ PromiseBegin(r, c, u)
          \/ \E start \in Times : PromiseAnswer(r, c, u, start)

PromiseSpec == PromiseInit /\ [][PromiseNext]_promiseVars
===============================================================================
