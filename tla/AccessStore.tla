------------------------------ MODULE AccessStore ------------------------------
(***************************************************************************)
(* access_store.py and authorize() of access.py: every Cloud Run instance  *)
(* runs its own AccessStore, a TTL cache over the shared                   *)
(* workflow_access_rules table.  A load that misses the cache awaits the   *)
(* database between reading the clock, reading the rows and storing the    *)
(* policy; /grant and /revoke commit first and drop the cached entry of    *)
(* their own instance afterwards; the break-glass CLI is one more process, *)
(* whose writes drop nobody's entry.                                       *)
(***************************************************************************)
EXTENDS Integers, AccessPolicy

CONSTANTS
    Instances,   \* Cloud Run instances
    Requests,    \* concurrent authorize() calls
    Admins,      \* concurrent /grant and /revoke commands
    TTL,         \* ACCESS_CACHE_TTL_SECONDS
    MaxClock     \* bound on the clock

ASSUME StoreAssumption == TTL \in Nat /\ MaxClock \in Nat

VARIABLES
    clock,       \* time.time()
    table,       \* table[c]: the rows of command c
    lastHeld,    \* history: when the table last held exactly these rows
    cache,       \* cache[i][c]: AccessStore._cache of instance i
    req,         \* req[r]: an authorize() call
    admin        \* admin[a]: a write between its commit and its cache drop

vars == <<clock, table, lastHeld, cache, req, admin>>

Times == 0 .. MaxClock
Never == -1 - TTL

\* No entry and an expired one are the same to every reader of the cache.
NoEntry == [policy |-> [emails |-> {}, domains |-> {}], expiry |-> 0]

\* Slips the checks must notice: an entry served at its expiry, and one never expired.
LiveAtExpiry(i, c) == cache[i][c].expiry >= clock
LiveForever(i, c) == cache[i][c] # NoEntry

Live(i, c) == cache[i][c].expiry > clock

Idle == [pc |-> "idle"]

Awaiting(i, c, u) == [pc |-> "read", inst |-> i, cmd |-> c, user |-> u, start |-> clock]

Decided(i, c, u, start, policy) ==
    [pc |-> "done", inst |-> i, cmd |-> c, user |-> u, start |-> start,
     allowed |-> Authorize(policy, DefaultMode[c], u)]

Finished(r) == req[r].pc \in {"idle", "done"}

Init ==
    /\ clock = 0
    /\ table \in [Commands -> SUBSET Rows]
    /\ lastHeld = [c \in Commands |->
                     [rows \in SUBSET Rows |-> IF rows = table[c] THEN 0 ELSE Never]]
    /\ cache = [i \in Instances |-> [c \in Commands |-> NoEntry]]
    /\ req = [r \in Requests |-> Idle]
    /\ admin = [a \in Admins |-> Idle]

Tick ==
    /\ clock < MaxClock
    /\ clock' = clock + 1
    /\ lastHeld' = [c \in Commands |-> [lastHeld[c] EXCEPT ![table[c]] = clock + 1]]
    /\ UNCHANGED <<table, cache, req, admin>>

-------------------------------------------------------------------------------
\* authorize() and load()

\* The cached entry is still good: load() and authorize() return without an await.
LoadHit(r, i, c, u) ==
    /\ Finished(r)
    /\ Live(i, c)
    /\ req' = [req EXCEPT ![r] = Decided(i, c, u, clock, cache[i][c].policy)]
    /\ UNCHANGED <<clock, table, lastHeld, cache, admin>>

LoadMiss(r, i, c, u) ==
    /\ Finished(r)
    /\ ~Live(i, c)
    /\ req' = [req EXCEPT ![r] = Awaiting(i, c, u)]
    /\ UNCHANGED <<clock, table, lastHeld, cache, admin>>

ReadRows(r) ==
    /\ req[r].pc = "read"
    /\ req' = [req EXCEPT ![r] = [pc |-> "fill", inst |-> req[r].inst, cmd |-> req[r].cmd,
                                  user |-> req[r].user, start |-> req[r].start,
                                  policy |-> Compile(table[req[r].cmd])]]
    /\ UNCHANGED <<clock, table, lastHeld, cache, admin>>

\* Slips: the clock read again after the database answered, and a TTL in milliseconds.
EntryFromFill(call) == [policy |-> call.policy, expiry |-> clock + TTL]
EntryInMillis(call) == [policy |-> call.policy, expiry |-> call.start + 1000 * TTL]

\* The entry that load() stores: it lives TTL from the call's start, not from the fill.
Entry(call) == [policy |-> call.policy, expiry |-> call.start + TTL]

StoreAndDecide(r) ==
    /\ req[r].pc = "fill"
    /\ cache' = [cache EXCEPT ![req[r].inst][req[r].cmd] = Entry(req[r])]
    /\ req' = [req EXCEPT ![r] = Decided(req[r].inst, req[r].cmd, req[r].user,
                                         req[r].start, req[r].policy)]
    /\ UNCHANGED <<clock, table, lastHeld, admin>>

\* The database raises: the exception leaves authorize() and nothing is cached.
LoadFails(r) ==
    /\ req[r].pc \in {"read", "fill"}
    /\ req' = [req EXCEPT ![r] = Idle]
    /\ UNCHANGED <<clock, table, lastHeld, cache, admin>>

-------------------------------------------------------------------------------
\* grant(), revoke(), invalidate(), the CLI, and an instance that dies

\* What a committed write does to the table.
SetRows(c, rows) ==
    /\ table' = [table EXCEPT ![c] = rows]
    /\ lastHeld' = [lastHeld EXCEPT ![c][rows] = clock]

\* An insert that conflicts changes no row, and the cached entry is dropped all the same.
Grant(a, i, c, row) ==
    /\ admin[a] = Idle
    /\ SetRows(c, table[c] \cup {row})
    /\ admin' = [admin EXCEPT ![a] = [pc |-> "drop", inst |-> i, cmd |-> c]]
    /\ UNCHANGED <<clock, cache, req>>

\* A revoke that removes no row returns without dropping the entry.
Revoke(a, i, c, row) ==
    /\ admin[a] = Idle
    /\ row \in table[c]
    /\ SetRows(c, table[c] \ {row})
    /\ admin' = [admin EXCEPT ![a] = [pc |-> "drop", inst |-> i, cmd |-> c]]
    /\ UNCHANGED <<clock, cache, req>>

DropEntry(a) ==
    /\ admin[a] # Idle
    /\ cache' = [cache EXCEPT ![admin[a].inst][admin[a].cmd] = NoEntry]
    /\ admin' = [admin EXCEPT ![a] = Idle]
    /\ UNCHANGED <<clock, table, lastHeld, req>>

CliWrite(c, row) ==
    /\ \/ SetRows(c, table[c] \cup {row})
       \/ SetRows(c, table[c] \ {row})
    /\ UNCHANGED <<clock, cache, req, admin>>

Invalidate(i, cmds) ==
    /\ cache' = [cache EXCEPT ![i] = [c \in Commands |-> IF c \in cmds THEN NoEntry ELSE @[c]]]
    /\ UNCHANGED <<clock, table, lastHeld, req, admin>>

\* The process dies with its cache and the calls it was serving; a fresh one starts.
Restart(i) ==
    /\ cache' = [cache EXCEPT ![i] = [c \in Commands |-> NoEntry]]
    /\ req' = [r \in Requests |->
                 IF ~Finished(r) /\ req[r].inst = i THEN Idle ELSE req[r]]
    /\ admin' = [a \in Admins |->
                   IF admin[a] # Idle /\ admin[a].inst = i THEN Idle ELSE admin[a]]
    /\ UNCHANGED <<clock, table, lastHeld>>

Next ==
    \/ Tick
    \/ \E r \in Requests :
          \/ \E i \in Instances, c \in Commands, u \in Users :
                LoadHit(r, i, c, u) \/ LoadMiss(r, i, c, u)
          \/ ReadRows(r)
          \/ StoreAndDecide(r)
          \/ LoadFails(r)
    \/ \E a \in Admins :
          \/ \E i \in Instances, c \in Commands, row \in GrantableRows :
                Grant(a, i, c, row) \/ Revoke(a, i, c, row)
          \/ DropEntry(a)
    \/ \E c \in Commands, row \in GrantableRows : CliWrite(c, row)
    \/ \E i \in Instances :
          \/ \E cmds \in {{c} : c \in Commands} \cup {Commands} : Invalidate(i, cmds)
          \/ Restart(i)

Spec == Init /\ [][Next]_vars

-------------------------------------------------------------------------------
\* Properties

Entries == [policy: Policies, expiry: 0 .. (MaxClock + TTL)]

Calls ==
    {Idle}
    \cup [pc: {"read"}, inst: Instances, cmd: Commands, user: Users, start: Times]
    \cup [pc: {"fill"}, inst: Instances, cmd: Commands, user: Users, start: Times,
          policy: Policies]
    \cup [pc: {"done"}, inst: Instances, cmd: Commands, user: Users, start: Times,
          allowed: BOOLEAN]

Drops == [pc: {"drop"}, inst: Instances, cmd: Commands]

\* Type correctness of the table's history, the caches, the calls and the writes.
TypeOK ==
    /\ clock \in Times
    /\ table \in [Commands -> SUBSET Rows]
    /\ lastHeld \in [Commands -> [SUBSET Rows -> Never .. MaxClock]]
    /\ cache \in [Instances -> [Commands -> Entries]]
    /\ req \in [Requests -> Calls]
    /\ admin \in [Admins -> {Idle} \cup Drops]

\* The history variable is exact about the present and says nothing of the future.
HistoryExact ==
    \A c \in Commands :
        /\ lastHeld[c][table[c]] = clock
        /\ \A rows \in SUBSET Rows : lastHeld[c][rows] <= clock

\* No call began in the future.
StartedBefore == \A r \in Requests : req[r] # Idle => req[r].start <= clock

\* Some rows the table held at or after `since` compile to this policy.
HeldSince(c, policy, since) ==
    \E rows \in SUBSET Rows : Compile(rows) = policy /\ lastHeld[c][rows] >= since

\* However loads, writes, drops and restarts interleave, what an instance has
\* cached was in the table less than TTL before the entry expires: an entry
\* stored late, after the drop of a concurrent write, is stale but not for long.
CacheBacked ==
    \A i \in Instances, c \in Commands :
        cache[i][c] = NoEntry \/ HeldSince(c, cache[i][c].policy, cache[i][c].expiry - TTL)

\* A policy a load is about to store was in the table after the load began.
FillBacked ==
    \A r \in Requests : req[r].pc = "fill" => HeldSince(req[r].cmd, req[r].policy, req[r].start)

\* access_store.py's promise, "visible on peer instances after at most
\* ACCESS_CACHE_TTL_SECONDS": every decision is the one authorize() makes for a
\* content the table held after the call began, or less than TTL before it.
DecisionFresh ==
    \A r \in Requests :
        req[r].pc = "done" =>
            \E rows \in SUBSET Rows :
                /\ req[r].allowed = Authorize(Compile(rows), DefaultMode[req[r].cmd], req[r].user)
                /\ \/ lastHeld[req[r].cmd][rows] >= req[r].start
                   \/ lastHeld[req[r].cmd][rows] > req[r].start - TTL

\* access.py: "DB rules are always authoritative when present; default_mode only
\* chooses the empty-table behaviour": a decision is the docstring's matrix, read on
\* the rules a /grant can make that the table held within the same window. Rows of an
\* unknown type beside them change no decision, and are no rules where they are alone.
RulesAuthoritative ==
    \A r \in Requests :
        req[r].pc = "done" =>
            \E rows \in SUBSET Rows :
                /\ req[r].allowed = MatrixAllows(rows \cap GrantableRows,
                                                DefaultMode[req[r].cmd], req[r].user)
                /\ \/ lastHeld[req[r].cmd][rows] >= req[r].start
                   \/ lastHeld[req[r].cmd][rows] > req[r].start - TTL

\* What every step preserves: the history is exact, and both places a
\* policy waits in (an entry, a load about to store) are backed by the table.
Inv == TypeOK /\ HistoryExact /\ StartedBefore /\ CacheBacked /\ FillBacked /\ DecisionFresh

-------------------------------------------------------------------------------
\* Refinement: hide the caches, the instances and the stages of a load

CallOf(r) ==
    CASE req[r].pc = "idle" -> [pc |-> "none"]
      [] req[r].pc \in {"read", "fill"} ->
            [pc |-> "pending", cmd |-> req[r].cmd, user |-> req[r].user, start |-> req[r].start]
      [] OTHER ->
            [pc |-> "answered", cmd |-> req[r].cmd, user |-> req[r].user,
             start |-> req[r].start, allowed |-> req[r].allowed]

Promise == INSTANCE AccessPromise WITH call <- [r \in Requests |-> CallOf(r)]

\* The store implements AccessPromise: with its caches, processes and lost calls
\* hidden, it only ever answers from recent contents of the table.
ImplementsPromise == Promise!PromiseSpec
===============================================================================
