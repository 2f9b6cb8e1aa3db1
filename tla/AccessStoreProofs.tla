--------------------------- MODULE AccessStoreProofs ---------------------------
(***************************************************************************)
(* Proofs about AccessStore for any number of instances, calls, writers,   *)
(* commands and principals, and any TTL.                                   *)
(***************************************************************************)
EXTENDS AccessStore, TLAPS

\* Compiling rows gives a policy.
LEMMA CompileType == \A rows : Compile(rows) \in Policies
BY DEF Compile, Policies

\* Deciding gives a Boolean.
LEMMA AuthorizeType == \A policy, mode, user : Authorize(policy, mode, user) \in BOOLEAN
BY DEF Authorize

\* A dropped entry is well typed.
LEMMA NoEntryType == NoEntry \in Entries
BY StoreAssumption DEF NoEntry, Entries, Policies

\* A write keeps the table, its history and the history's exactness.
LEMMA SetRowsKeepsHistory ==
    ASSUME TypeOK, HistoryExact, NEW c \in Commands, NEW rows \in SUBSET Rows, SetRows(c, rows)
    PROVE  /\ table' \in [Commands -> SUBSET Rows]
           /\ lastHeld' \in [Commands -> [SUBSET Rows -> Never .. MaxClock]]
           /\ \A d \in Commands : lastHeld'[d][table'[d]] = clock
           /\ \A d \in Commands, s \in SUBSET Rows :
                 lastHeld'[d][s] >= lastHeld[d][s] /\ lastHeld'[d][s] <= clock
<1>1. clock \in Never .. MaxClock /\ clock \in Int
  BY StoreAssumption DEF TypeOK, Times, Never
<1>2. \A d \in Commands : lastHeld[d] \in [SUBSET Rows -> Never .. MaxClock]
  BY DEF TypeOK
<1>3. \A d \in Commands, s \in SUBSET Rows :
         lastHeld[d][s] \in Int /\ lastHeld[d][s] <= clock
  BY <1>2, StoreAssumption DEF HistoryExact, Never
<1>4. table' \in [Commands -> SUBSET Rows]
  BY DEF TypeOK, SetRows
<1>5. lastHeld' = [lastHeld EXCEPT ![c] = [lastHeld[c] EXCEPT ![rows] = clock]]
  BY DEF SetRows
<1>6. [lastHeld[c] EXCEPT ![rows] = clock] \in [SUBSET Rows -> Never .. MaxClock]
  BY <1>1, <1>2
<1>7. lastHeld' \in [Commands -> [SUBSET Rows -> Never .. MaxClock]]
  BY <1>5, <1>6 DEF TypeOK
<1>8. \A d \in Commands, s \in SUBSET Rows :
         lastHeld'[d][s] = IF d = c /\ s = rows THEN clock ELSE lastHeld[d][s]
  BY <1>2, <1>5 DEF TypeOK
<1>9. \A d \in Commands : table'[d] = IF d = c THEN rows ELSE table[d]
  BY DEF TypeOK, SetRows
<1>10. \A d \in Commands : lastHeld'[d][table'[d]] = clock
  <2> TAKE d \in Commands
  <2>1. table[d] \in SUBSET Rows /\ lastHeld[d][table[d]] = clock
    BY DEF TypeOK, HistoryExact
  <2> QED BY <1>8, <1>9, <2>1
<1>11. \A d \in Commands, s \in SUBSET Rows :
          lastHeld'[d][s] >= lastHeld[d][s] /\ lastHeld'[d][s] <= clock
  BY <1>1, <1>3, <1>8
<1> QED BY <1>4, <1>7, <1>10, <1>11

\* One instant passes: every history moves to the new time.
LEMMA TickKeepsHistory ==
    ASSUME TypeOK, HistoryExact, Tick
    PROVE  /\ clock' \in Times /\ clock' = clock + 1
           /\ lastHeld' \in [Commands -> [SUBSET Rows -> Never .. MaxClock]]
           /\ \A d \in Commands : lastHeld'[d][table'[d]] = clock'
           /\ \A d \in Commands, s \in SUBSET Rows :
                 lastHeld'[d][s] >= lastHeld[d][s] /\ lastHeld'[d][s] <= clock'
<1>1. clock' = clock + 1 /\ clock \in Int /\ clock' \in Times /\ clock' \in Never .. MaxClock
  BY StoreAssumption DEF TypeOK, Times, Never, Tick
<1>2. \A d \in Commands : lastHeld[d] \in [SUBSET Rows -> Never .. MaxClock]
  BY DEF TypeOK
<1>3. \A d \in Commands, s \in SUBSET Rows :
         lastHeld[d][s] \in Int /\ lastHeld[d][s] <= clock
  BY <1>2, StoreAssumption DEF HistoryExact, Never
<1>4. \A d \in Commands : lastHeld'[d] = [lastHeld[d] EXCEPT ![table[d]] = clock']
  BY DEF Tick
<1>5. \A d \in Commands : lastHeld'[d] \in [SUBSET Rows -> Never .. MaxClock]
  BY <1>1, <1>2, <1>4
<1>6. lastHeld' \in [Commands -> [SUBSET Rows -> Never .. MaxClock]]
  BY <1>5 DEF Tick
<1>7. \A d \in Commands, s \in SUBSET Rows :
         lastHeld'[d][s] = IF s = table[d] THEN clock' ELSE lastHeld[d][s]
  BY <1>2, <1>4
<1>8. \A d \in Commands : table'[d] = table[d] /\ table[d] \in SUBSET Rows
  BY DEF TypeOK, Tick
<1>9. \A d \in Commands : lastHeld'[d][table'[d]] = clock'
  BY <1>7, <1>8
<1>10. \A d \in Commands, s \in SUBSET Rows :
          lastHeld'[d][s] >= lastHeld[d][s] /\ lastHeld'[d][s] <= clock'
  BY <1>1, <1>3, <1>7
<1> QED BY <1>1, <1>6, <1>9, <1>10

\* The rows a write leaves behind are rows.
LEMMA WrittenRows ==
    ASSUME TypeOK, NEW c \in Commands, NEW row \in GrantableRows
    PROVE  table[c] \cup {row} \in SUBSET Rows /\ table[c] \ {row} \in SUBSET Rows
BY DEF TypeOK, GrantableRows, Rows

\* Every step keeps the table and its history typed and exact, and no content
\* of the table is ever held less recently than it was.
LEMMA HistoryStep ==
    ASSUME TypeOK, HistoryExact, [Next]_vars
    PROVE  /\ clock' \in Times
           /\ table' \in [Commands -> SUBSET Rows]
           /\ lastHeld' \in [Commands -> [SUBSET Rows -> Never .. MaxClock]]
           /\ HistoryExact'
           /\ \A d \in Commands, s \in SUBSET Rows : lastHeld'[d][s] >= lastHeld[d][s]
<1>1. CASE Tick
  BY <1>1, TickKeepsHistory DEF Tick, HistoryExact, TypeOK
<1>2. ASSUME NEW c \in Commands, NEW rows \in SUBSET Rows, SetRows(c, rows), UNCHANGED clock
      PROVE  /\ clock' \in Times
             /\ table' \in [Commands -> SUBSET Rows]
             /\ lastHeld' \in [Commands -> [SUBSET Rows -> Never .. MaxClock]]
             /\ HistoryExact'
             /\ \A d \in Commands, s \in SUBSET Rows : lastHeld'[d][s] >= lastHeld[d][s]
  BY <1>2, SetRowsKeepsHistory DEF HistoryExact, TypeOK
<1>3. CASE UNCHANGED <<clock, table, lastHeld>>
  <2>1. \A d \in Commands, s \in SUBSET Rows : lastHeld[d][s] \in Int
    BY StoreAssumption DEF TypeOK, Never
  <2>2. HistoryExact'
    BY <1>3 DEF HistoryExact
  <2>3. \A d \in Commands, s \in SUBSET Rows : lastHeld'[d][s] >= lastHeld[d][s]
    BY <1>3, <2>1
  <2> QED BY <1>3, <2>2, <2>3 DEF TypeOK
<1>4. ASSUME NEW a \in Admins, NEW i \in Instances, NEW c \in Commands, NEW row \in GrantableRows,
             Grant(a, i, c, row) \/ Revoke(a, i, c, row)
      PROVE  \E rows \in SUBSET Rows : SetRows(c, rows) /\ UNCHANGED clock
  BY <1>4, WrittenRows DEF Grant, Revoke
<1>5. ASSUME NEW c \in Commands, NEW row \in GrantableRows, CliWrite(c, row)
      PROVE  \E rows \in SUBSET Rows : SetRows(c, rows) /\ UNCHANGED clock
  BY <1>5, WrittenRows DEF CliWrite
<1> QED
  BY <1>1, <1>2, <1>3, <1>4, <1>5
  DEF Next, vars, LoadHit, LoadMiss, ReadRows, StoreAndDecide, LoadFails, DropEntry,
      Invalidate, Restart

\* Restart and invalidate leave nothing but dropped or unchanged entries behind.
LEMMA DroppedEntries ==
    ASSUME TypeOK, NEW i \in Instances, NEW cmds \in SUBSET Commands,
           cache' = [cache EXCEPT ![i] = [c \in Commands |-> IF c \in cmds THEN NoEntry ELSE @[c]]]
    PROVE  /\ cache' \in [Instances -> [Commands -> Entries]]
           /\ \A j \in Instances, d \in Commands :
                 cache'[j][d] = NoEntry \/ cache'[j][d] = cache[j][d]
BY NoEntryType DEF TypeOK

\* The entry a load stores is well typed.
LEMMA EntryType ==
    ASSUME NEW x, x \in [pc: {"fill"}, inst: Instances, cmd: Commands, user: Users,
                         start: Times, policy: Policies]
    PROVE  Entry(x) \in Entries
BY StoreAssumption DEF Entry, Entries, Times

\* Every step leaves well-typed caches.
LEMMA CacheStep ==
    ASSUME TypeOK, [Next]_vars
    PROVE  cache' \in [Instances -> [Commands -> Entries]]
<1>1. ASSUME NEW r \in Requests, StoreAndDecide(r)
      PROVE  cache' \in [Instances -> [Commands -> Entries]]
  <2>1. req[r] \in [pc: {"fill"}, inst: Instances, cmd: Commands, user: Users,
                    start: Times, policy: Policies]
    BY <1>1 DEF StoreAndDecide, TypeOK, Calls, Idle
  <2>2. Entry(req[r]) \in Entries
    BY <2>1, EntryType
  <2> QED BY <1>1, <2>1, <2>2 DEF StoreAndDecide, TypeOK
<1>2. ASSUME NEW a \in Admins, DropEntry(a)
      PROVE  cache' \in [Instances -> [Commands -> Entries]]
  <2>1. admin[a].inst \in Instances /\ admin[a].cmd \in Commands
    BY <1>2 DEF DropEntry, TypeOK, Drops
  <2> QED BY <1>2, <2>1, NoEntryType DEF DropEntry, TypeOK
<1>3. ASSUME NEW i \in Instances, NEW cmds \in SUBSET Commands, Invalidate(i, cmds)
      PROVE  cache' \in [Instances -> [Commands -> Entries]]
  BY <1>3, DroppedEntries DEF Invalidate
<1>4. ASSUME NEW i \in Instances, Restart(i)
      PROVE  cache' \in [Instances -> [Commands -> Entries]]
  BY <1>4, NoEntryType DEF Restart, TypeOK
<1>5. CASE UNCHANGED cache
  BY <1>5 DEF TypeOK
<1> QED
  BY <1>1, <1>2, <1>3, <1>4, <1>5
  DEF Next, vars, Tick, LoadHit, LoadMiss, ReadRows, LoadFails, Grant, Revoke, CliWrite

\* Every step leaves well-typed calls and pending writes.
LEMMA CallStep ==
    ASSUME TypeOK, [Next]_vars
    PROVE  req' \in [Requests -> Calls] /\ admin' \in [Admins -> {Idle} \cup Drops]
<1> USE DEF TypeOK
<1>1. ASSUME NEW r \in Requests, NEW i \in Instances, NEW c \in Commands, NEW u \in Users,
             LoadHit(r, i, c, u)
      PROVE  req' \in [Requests -> Calls]
  BY <1>1, AuthorizeType DEF LoadHit, Decided, Calls
<1>2. ASSUME NEW r \in Requests, NEW i \in Instances, NEW c \in Commands, NEW u \in Users,
             LoadMiss(r, i, c, u)
      PROVE  req' \in [Requests -> Calls]
  BY <1>2 DEF LoadMiss, Awaiting, Calls
<1>3. ASSUME NEW r \in Requests, ReadRows(r)
      PROVE  req' \in [Requests -> Calls]
  BY <1>3, CompileType DEF ReadRows, Calls, Idle
<1>4. ASSUME NEW r \in Requests, StoreAndDecide(r)
      PROVE  req' \in [Requests -> Calls]
  BY <1>4, AuthorizeType DEF StoreAndDecide, Decided, Calls, Idle
<1>5. ASSUME NEW r \in Requests, LoadFails(r)
      PROVE  req' \in [Requests -> Calls]
  BY <1>5 DEF LoadFails, Calls
<1>6. ASSUME NEW i \in Instances, Restart(i)
      PROVE  req' \in [Requests -> Calls] /\ admin' \in [Admins -> {Idle} \cup Drops]
  BY <1>6 DEF Restart, Calls
<1>7. ASSUME NEW a \in Admins, NEW i \in Instances, NEW c \in Commands, NEW row \in GrantableRows,
             Grant(a, i, c, row) \/ Revoke(a, i, c, row)
      PROVE  admin' \in [Admins -> {Idle} \cup Drops]
  BY <1>7 DEF Grant, Revoke, Drops
<1>8. ASSUME NEW a \in Admins, DropEntry(a)
      PROVE  admin' \in [Admins -> {Idle} \cup Drops]
  BY <1>8 DEF DropEntry
<1> DEFINE Goal == req' \in [Requests -> Calls] /\ admin' \in [Admins -> {Idle} \cup Drops]
<1>9. req \in [Requests -> Calls] /\ admin \in [Admins -> {Idle} \cup Drops]
  OBVIOUS
<1>10. ASSUME NEW r \in Requests,
              \/ \E i \in Instances, c \in Commands, u \in Users : LoadHit(r, i, c, u) \/ LoadMiss(r, i, c, u)
              \/ ReadRows(r) \/ StoreAndDecide(r) \/ LoadFails(r)
       PROVE  Goal
  <2>1. UNCHANGED admin
    BY <1>10 DEF LoadHit, LoadMiss, ReadRows, StoreAndDecide, LoadFails
  <2>2. req' \in [Requests -> Calls]
    BY <1>1, <1>2, <1>3, <1>4, <1>5, <1>10
  <2> QED BY <1>9, <2>1, <2>2
<1>11. ASSUME NEW a \in Admins,
              \/ \E i \in Instances, c \in Commands, row \in GrantableRows :
                    Grant(a, i, c, row) \/ Revoke(a, i, c, row)
              \/ DropEntry(a)
       PROVE  Goal
  <2>1. UNCHANGED req
    BY <1>11 DEF Grant, Revoke, DropEntry
  <2>2. admin' \in [Admins -> {Idle} \cup Drops]
    BY <1>7, <1>8, <1>11
  <2> QED BY <1>9, <2>1, <2>2
<1>12. CASE UNCHANGED <<req, admin>>
  BY <1>9, <1>12
<1>13. ASSUME \/ Tick \/ UNCHANGED vars
              \/ \E c \in Commands, row \in GrantableRows : CliWrite(c, row)
              \/ \E i \in Instances : \E cmds : Invalidate(i, cmds)
       PROVE  UNCHANGED <<req, admin>>
  BY <1>13 DEF Tick, vars, CliWrite, Invalidate
<1> HIDE DEF Goal
<1>14. Goal
  BY <1>6, <1>10, <1>11, <1>12, <1>13 DEF Next, Goal
<1> QED BY <1>14 DEF Goal

\* What a step does to one cached entry: nothing, drop it, or store a finished load.
LEMMA CacheShape ==
    ASSUME TypeOK, [Next]_vars, NEW i \in Instances, NEW c \in Commands
    PROVE  \/ cache'[i][c] = cache[i][c]
           \/ cache'[i][c] = NoEntry
           \/ \E r \in Requests : /\ req[r].pc = "fill" /\ req[r].cmd = c
                                  /\ cache'[i][c] = Entry(req[r])
<1> DEFINE Shape == \/ cache'[i][c] = cache[i][c]
                    \/ cache'[i][c] = NoEntry
                    \/ \E r \in Requests : /\ req[r].pc = "fill" /\ req[r].cmd = c
                                           /\ cache'[i][c] = Entry(req[r])
<1>1. ASSUME NEW r \in Requests, StoreAndDecide(r)
      PROVE  Shape
  BY <1>1 DEF StoreAndDecide, TypeOK
<1>2. ASSUME NEW a \in Admins, DropEntry(a)
      PROVE  Shape
  BY <1>2 DEF DropEntry, TypeOK
<1>3. ASSUME NEW j \in Instances, NEW cmds \in SUBSET Commands, Invalidate(j, cmds)
      PROVE  Shape
  BY <1>3, DroppedEntries DEF Invalidate
<1>4. ASSUME NEW j \in Instances, Restart(j)
      PROVE  Shape
  BY <1>4 DEF Restart, TypeOK
<1>5. CASE UNCHANGED cache
  BY <1>5
<1> QED
  BY <1>1, <1>2, <1>3, <1>4, <1>5
  DEF Next, vars, Tick, LoadHit, LoadMiss, ReadRows, LoadFails, Grant, Revoke, CliWrite

\* What a step does to one call.
LEMMA CallShape ==
    ASSUME TypeOK, [Next]_vars, NEW r \in Requests
    PROVE  \/ req'[r] = req[r]
           \/ req'[r] = Idle
           \/ \E i \in Instances, c \in Commands, u \in Users :
                 req'[r] = Awaiting(i, c, u) \/ LoadHit(r, i, c, u)
           \/ ReadRows(r)
           \/ StoreAndDecide(r)
<1> DEFINE Shape == \/ req'[r] = req[r]
                    \/ req'[r] = Idle
                    \/ \E i \in Instances, c \in Commands, u \in Users :
                          req'[r] = Awaiting(i, c, u) \/ LoadHit(r, i, c, u)
                    \/ ReadRows(r)
                    \/ StoreAndDecide(r)
<1>1. ASSUME NEW q \in Requests, NEW i \in Instances, NEW c \in Commands, NEW u \in Users,
             LoadHit(q, i, c, u)
      PROVE  Shape
  BY <1>1 DEF LoadHit, TypeOK
<1>2. ASSUME NEW q \in Requests, NEW i \in Instances, NEW c \in Commands, NEW u \in Users,
             LoadMiss(q, i, c, u)
      PROVE  Shape
  BY <1>2 DEF LoadMiss, TypeOK
<1>3. ASSUME NEW q \in Requests, ReadRows(q)
      PROVE  Shape
  BY <1>3 DEF ReadRows, TypeOK
<1>4. ASSUME NEW q \in Requests, StoreAndDecide(q)
      PROVE  Shape
  BY <1>4 DEF StoreAndDecide, TypeOK
<1>5. ASSUME NEW q \in Requests, LoadFails(q)
      PROVE  Shape
  BY <1>5 DEF LoadFails, TypeOK
<1>6. ASSUME NEW i \in Instances, Restart(i)
      PROVE  Shape
  BY <1>6 DEF Restart, TypeOK
<1>7. CASE UNCHANGED req
  BY <1>7
<1> QED
  BY <1>1, <1>2, <1>3, <1>4, <1>5, <1>6, <1>7
  DEF Next, vars, Tick, Grant, Revoke, DropEntry, CliWrite, Invalidate

\* Time does not run backwards.
LEMMA ClockStep ==
    ASSUME TypeOK, [Next]_vars
    PROVE  clock' >= clock
<1>1. clock \in Int
  BY StoreAssumption DEF TypeOK, Times
<1>2. CASE Tick
  BY <1>1, <1>2 DEF Tick
<1>3. CASE UNCHANGED clock
  BY <1>1, <1>3
<1> QED
  BY <1>2, <1>3
  DEF Next, vars, LoadHit, LoadMiss, ReadRows, StoreAndDecide, LoadFails,
      Grant, Revoke, DropEntry, CliWrite, Invalidate, Restart

\* No step puts the start of a call in the future.
LEMMA StartedStep ==
    ASSUME TypeOK, TypeOK', StartedBefore, [Next]_vars
    PROVE  StartedBefore'
<1> SUFFICES ASSUME NEW r \in Requests, req'[r] # Idle
             PROVE  req'[r].start <= clock'
  BY DEF StartedBefore
<1>1. clock \in Int /\ clock' \in Int /\ clock' >= clock
  <2>1. clock' >= clock
    BY ClockStep
  <2> QED BY <2>1, StoreAssumption DEF TypeOK, Times
<1>2. req[r] # Idle => req[r].start \in Int /\ req[r].start <= clock
  BY StoreAssumption DEF TypeOK, Calls, Times, StartedBefore
<1>3. CASE req'[r] = req[r]
  BY <1>1, <1>2, <1>3
<1>4. ASSUME NEW i \in Instances, NEW c \in Commands, NEW u \in Users,
             req'[r] = Awaiting(i, c, u) \/ LoadHit(r, i, c, u)
      PROVE  req'[r].start <= clock'
  BY <1>1, <1>4 DEF Awaiting, LoadHit, Decided, TypeOK
<1>5. CASE ReadRows(r) \/ StoreAndDecide(r)
  BY <1>1, <1>2, <1>5 DEF ReadRows, StoreAndDecide, Decided, TypeOK, Idle
<1> QED BY <1>3, <1>4, <1>5, CallShape

\* What the table held, it has still held after a step.
LEMMA HeldStays ==
    ASSUME TypeOK, HistoryExact, [Next]_vars, NEW c \in Commands, NEW since \in Int
    PROVE  \A rows \in SUBSET Rows : lastHeld[c][rows] >= since => lastHeld'[c][rows] >= since
<1>1. \A rows \in SUBSET Rows :
         lastHeld[c][rows] \in Int /\ lastHeld'[c][rows] \in Int
  <2>1. /\ lastHeld \in [Commands -> [SUBSET Rows -> Never .. MaxClock]]
        /\ lastHeld' \in [Commands -> [SUBSET Rows -> Never .. MaxClock]]
    BY HistoryStep DEF TypeOK
  <2> QED BY <2>1
<1>2. \A rows \in SUBSET Rows : lastHeld'[c][rows] >= lastHeld[c][rows]
  BY HistoryStep
<1> QED BY <1>1, <1>2

\* A load that is about to store read rows the table held after the load began.
LEMMA FillStep ==
    ASSUME Inv, TypeOK', [Next]_vars
    PROVE  FillBacked'
<1> USE DEF Inv
<1> SUFFICES ASSUME NEW r \in Requests, req'[r].pc = "fill"
             PROVE  \E rows \in SUBSET Rows : /\ Compile(rows) = req'[r].policy
                                              /\ lastHeld'[req'[r].cmd][rows] >= req'[r].start
  BY DEF FillBacked, HeldSince
<1>1. CASE req'[r] = req[r]
  <2>1. req[r].cmd \in Commands /\ req[r].start \in Int
    BY <1>1, StoreAssumption DEF TypeOK, Calls, Idle, Times
  <2> QED BY <1>1, <2>1, HeldStays DEF FillBacked, HeldSince
<1>2. CASE ReadRows(r)
  <2>1. req[r].cmd \in Commands /\ req[r].start \in Int /\ req[r].start <= clock
    BY <1>2, StoreAssumption DEF ReadRows, TypeOK, Calls, Idle, Times, StartedBefore
  <2>2. /\ req'[r].cmd = req[r].cmd
        /\ req'[r].start = req[r].start
        /\ req'[r].policy = Compile(table[req[r].cmd])
    BY <1>2 DEF ReadRows, TypeOK
  <2>3. table[req[r].cmd] \in SUBSET Rows /\ lastHeld'[req[r].cmd][table[req[r].cmd]] = clock
    BY <1>2, <2>1 DEF ReadRows, TypeOK, HistoryExact
  <2> QED BY <2>1, <2>2, <2>3
<1>3. ASSUME NEW i \in Instances, NEW c \in Commands, NEW u \in Users,
             req'[r] = Awaiting(i, c, u) \/ LoadHit(r, i, c, u)
      PROVE  FALSE
  BY <1>3 DEF Awaiting, LoadHit, Decided, TypeOK
<1>4. CASE StoreAndDecide(r)
  BY <1>4 DEF StoreAndDecide, Decided, TypeOK
<1> QED BY <1>1, <1>2, <1>3, <1>4, CallShape DEF Idle

\* What a cache holds was in the table less than TTL before it expires.
LEMMA BackedStep ==
    ASSUME Inv, [Next]_vars
    PROVE  CacheBacked'
<1> USE DEF Inv
<1> SUFFICES ASSUME NEW i \in Instances, NEW c \in Commands, cache'[i][c] # NoEntry
             PROVE  \E rows \in SUBSET Rows :
                       /\ Compile(rows) = cache'[i][c].policy
                       /\ lastHeld'[c][rows] >= cache'[i][c].expiry - TTL
  BY DEF CacheBacked, HeldSince
<1>1. CASE cache'[i][c] = cache[i][c]
  <2>1. cache[i][c].expiry - TTL \in Int
    BY StoreAssumption DEF TypeOK, Entries
  <2> QED BY <1>1, <2>1, HeldStays DEF CacheBacked, HeldSince
<1>2. ASSUME NEW r \in Requests, req[r].pc = "fill", req[r].cmd = c,
             cache'[i][c] = Entry(req[r])
      PROVE  \E rows \in SUBSET Rows :
                /\ Compile(rows) = cache'[i][c].policy
                /\ lastHeld'[c][rows] >= cache'[i][c].expiry - TTL
  <2>1. req[r].start \in Int
    BY <1>2, StoreAssumption DEF TypeOK, Calls, Idle, Times
  <2>2. PICK rows \in SUBSET Rows : Compile(rows) = req[r].policy /\ lastHeld[c][rows] >= req[r].start
    BY <1>2 DEF FillBacked, HeldSince
  <2>3. lastHeld'[c][rows] >= req[r].start
    BY <2>1, <2>2, HeldStays
  <2>4. cache'[i][c].expiry - TTL = req[r].start /\ cache'[i][c].policy = req[r].policy
    BY <1>2, <2>1, StoreAssumption DEF Entry
  <2> QED BY <2>2, <2>3, <2>4
<1> QED BY <1>1, <1>2, CacheShape

\* A new decision is backed; an old one stays so.
LEMMA DecisionStep ==
    ASSUME Inv, [Next]_vars
    PROVE  DecisionFresh'
<1> USE DEF Inv
<1> DEFINE Fresh(call, held) ==
             \E rows \in SUBSET Rows :
                /\ call.allowed = Authorize(Compile(rows), DefaultMode[call.cmd], call.user)
                /\ held[call.cmd][rows] >= call.start \/ held[call.cmd][rows] > call.start - TTL
<1> SUFFICES ASSUME NEW r \in Requests, req'[r].pc = "done"
             PROVE  Fresh(req'[r], lastHeld')
  BY DEF DecisionFresh
<1>1. \A c \in Commands, rows \in SUBSET Rows :
         /\ lastHeld[c][rows] \in Int /\ lastHeld'[c][rows] \in Int
         /\ lastHeld'[c][rows] >= lastHeld[c][rows]
  <2>1. /\ lastHeld \in [Commands -> [SUBSET Rows -> Never .. MaxClock]]
        /\ lastHeld' \in [Commands -> [SUBSET Rows -> Never .. MaxClock]]
        /\ \A c \in Commands, rows \in SUBSET Rows : lastHeld'[c][rows] >= lastHeld[c][rows]
    BY HistoryStep DEF TypeOK
  <2> QED BY <2>1
<1>2. CASE req'[r] = req[r]
  <2>1. req[r].cmd \in Commands /\ req[r].start \in Int
    BY <1>2, StoreAssumption DEF TypeOK, Calls, Idle, Times
  <2>2. Fresh(req[r], lastHeld)
    BY <1>2 DEF DecisionFresh
  <2> QED BY <1>1, <1>2, <2>1, <2>2, StoreAssumption
<1>3. ASSUME NEW i \in Instances, NEW c \in Commands, NEW u \in Users, LoadHit(r, i, c, u)
      PROVE  Fresh(req'[r], lastHeld')
  <2>1. /\ req'[r].cmd = c /\ req'[r].user = u /\ req'[r].start = clock
        /\ req'[r].allowed = Authorize(cache[i][c].policy, DefaultMode[c], u)
        /\ lastHeld' = lastHeld
    BY <1>3 DEF LoadHit, Decided, TypeOK
  <2>2. cache[i][c].expiry \in Int /\ clock \in Int /\ cache[i][c].expiry > clock
        /\ cache[i][c] # NoEntry
    BY <1>3, StoreAssumption DEF LoadHit, Live, NoEntry, TypeOK, Entries, Times
  <2>3. PICK rows \in SUBSET Rows : /\ Compile(rows) = cache[i][c].policy
                                    /\ lastHeld[c][rows] >= cache[i][c].expiry - TTL
    BY <2>2 DEF CacheBacked, HeldSince
  <2>4. lastHeld[c][rows] > clock - TTL
    BY <1>1, <2>2, <2>3, StoreAssumption
  <2> QED BY <2>1, <2>3, <2>4
<1>4. CASE StoreAndDecide(r)
  <2>1. /\ req'[r].cmd = req[r].cmd /\ req'[r].user = req[r].user
        /\ req'[r].start = req[r].start
        /\ req'[r].allowed = Authorize(req[r].policy, DefaultMode[req[r].cmd], req[r].user)
        /\ lastHeld' = lastHeld
    BY <1>4 DEF StoreAndDecide, Decided, TypeOK
  <2>2. PICK rows \in SUBSET Rows : Compile(rows) = req[r].policy
                                    /\ lastHeld[req[r].cmd][rows] >= req[r].start
    BY <1>4 DEF StoreAndDecide, FillBacked, HeldSince
  <2> QED BY <2>1, <2>2
<1>5. ASSUME NEW i \in Instances, NEW c \in Commands, NEW u \in Users, req'[r] = Awaiting(i, c, u)
      PROVE  FALSE
  BY <1>5 DEF Awaiting
<1>6. CASE ReadRows(r)
  BY <1>6 DEF ReadRows, TypeOK
<1> QED BY <1>2, <1>3, <1>4, <1>5, <1>6, CallShape DEF Idle

\* The first state.
LEMMA InitInv == Init => Inv
<1> SUFFICES ASSUME Init PROVE Inv
  OBVIOUS
<1> USE DEF Init
<1>1. 0 \in Times /\ 0 \in Never .. MaxClock /\ Never \in Never .. MaxClock /\ Never <= 0
  BY StoreAssumption DEF Times, Never
<1>2. \A c \in Commands : lastHeld[c] \in [SUBSET Rows -> Never .. MaxClock]
  BY <1>1
<1>3. TypeOK
  BY <1>1, <1>2, NoEntryType DEF TypeOK, Calls
<1>4. HistoryExact
  <2>1. \A c \in Commands, rows \in SUBSET Rows :
           lastHeld[c][rows] = IF rows = table[c] THEN 0 ELSE Never
    OBVIOUS
  <2>2. \A c \in Commands : table[c] \in SUBSET Rows
    OBVIOUS
  <2>3. clock = 0 /\ Never <= 0 /\ 0 <= 0
    BY <1>1
  <2> HIDE DEF Init
  <2>4. \A c \in Commands : lastHeld[c][table[c]] = clock
    BY <2>1, <2>2, <2>3
  <2>5. \A c \in Commands, rows \in SUBSET Rows : lastHeld[c][rows] <= clock
    BY <2>1, <2>3
  <2> QED BY <2>4, <2>5 DEF HistoryExact
<1>5. StartedBefore /\ CacheBacked
  BY DEF StartedBefore, CacheBacked
<1>6. FillBacked /\ DecisionFresh
  BY DEF FillBacked, DecisionFresh, Idle
<1> QED BY <1>3, <1>4, <1>5, <1>6 DEF Inv

\* The inductive invariant of the access store.
THEOREM Invariance == Spec => []Inv
<1>1. Init => Inv
  BY InitInv
<1>2. Inv /\ [Next]_vars => Inv'
  <2> SUFFICES ASSUME Inv, [Next]_vars PROVE Inv'
    OBVIOUS
  <2>1. TypeOK /\ HistoryExact /\ StartedBefore
    BY DEF Inv
  <2>2. TypeOK' /\ HistoryExact'
    BY <2>1, HistoryStep, CacheStep, CallStep DEF TypeOK
  <2>3. StartedBefore'
    BY <2>1, <2>2, StartedStep
  <2>4. CacheBacked' /\ FillBacked' /\ DecisionFresh'
    BY <2>2, BackedStep, FillStep, DecisionStep
  <2> QED BY <2>2, <2>3, <2>4 DEF Inv
<1> QED BY <1>1, <1>2, PTL DEF Spec

\* Type correctness, for every number of instances, calls and writers.
THEOREM TypeCorrect == Spec => []TypeOK
BY Invariance, PTL DEF Inv

\* No instance keeps a policy the table has not held for TTL seconds.
THEOREM CachesAreBacked == Spec => []CacheBacked
BY Invariance, PTL DEF Inv

\* Every authorization decision is authorize()'s on a content the table held
\* after the call began or less than TTL before it, whatever the interleaving.
THEOREM DecisionsAreFresh == Spec => []DecisionFresh
BY Invariance, PTL DEF Inv

\* authorize() decides by its docstring's matrix, read on the rules a /grant can make:
\* whatever rows of an earlier schema stand beside them.
LEMMA AuthorizeIsMatrix ==
    ASSUME NEW rows \in SUBSET Rows, NEW mode, NEW user \in Users
    PROVE  Authorize(Compile(rows), mode, user)
              = MatrixAllows(rows \cap GrantableRows, mode, user)
<1> DEFINE rules == rows \cap GrantableRows
<1>1. \A row \in rules :
         \/ \E u \in Users : row = [type |-> "email", principal |-> u]
         \/ \E d \in Domains : row = [type |-> "domain", principal |-> d]
  BY DEF GrantableRows, EmailRows, DomainRows
<1>2. /\ \A u \in Users : [type |-> "email", principal |-> u] \in rows
                            => [type |-> "email", principal |-> u] \in rules
      /\ \A d \in Domains : [type |-> "domain", principal |-> d] \in rows
                              => [type |-> "domain", principal |-> d] \in rules
  BY DEF GrantableRows, EmailRows, DomainRows
<1>3. IsOpen(Compile(rows)) <=> rules = {}
  BY <1>1, <1>2 DEF IsOpen, Compile
<1>4. user \in Compile(rows).emails <=> [type |-> "email", principal |-> user] \in rules
  BY <1>2 DEF Compile
<1>5. DomainOf[user] \in Compile(rows).domains
         <=> [type |-> "domain", principal |-> DomainOf[user]] \in rules
  BY <1>2, PolicyAssumption DEF Compile
<1> HIDE DEF rules
<1>6. Authorize(Compile(rows), mode, user) = MatrixAllows(rules, mode, user)
  BY <1>3, <1>4, <1>5 DEF Authorize, MatrixAllows
<1> QED BY <1>6 DEF rules

\* "DB rules are always authoritative when present": every decision is the matrix's on
\* rules the table held within the window, whatever rows of an earlier schema are there.
THEOREM RulesDecide == Spec => []RulesAuthoritative
<1>1. Inv => RulesAuthoritative
  <2> SUFFICES ASSUME Inv, NEW r \in Requests, req[r].pc = "done"
               PROVE  \E rows \in SUBSET Rows :
                         /\ req[r].allowed = MatrixAllows(rows \cap GrantableRows,
                                                DefaultMode[req[r].cmd], req[r].user)
                         /\ \/ lastHeld[req[r].cmd][rows] >= req[r].start
                            \/ lastHeld[req[r].cmd][rows] > req[r].start - TTL
    BY DEF RulesAuthoritative
  <2>1. req[r].user \in Users
    BY DEF Inv, TypeOK, Calls, Idle
  <2> QED BY <2>1, AuthorizeIsMatrix DEF Inv, DecisionFresh
<1> QED BY <1>1, Invariance, PTL

-------------------------------------------------------------------------------
\* The promise

\* What a caller sees of the calls.
Answers == [r \in Requests |-> CallOf(r)]

\* What a caller sees of a call, by the stage it is in.
LEMMA CallStages ==
    ASSUME NEW r \in Requests
    PROVE  /\ req[r].pc = "idle" => CallOf(r) = [pc |-> "none"]
           /\ req[r].pc \in {"read", "fill"} =>
                 CallOf(r) = [pc |-> "pending", cmd |-> req[r].cmd, user |-> req[r].user,
                              start |-> req[r].start]
           /\ req[r].pc = "done" =>
                 CallOf(r) = [pc |-> "answered", cmd |-> req[r].cmd, user |-> req[r].user,
                              start |-> req[r].start, allowed |-> req[r].allowed]
BY DEF CallOf

\* A call is pending to its caller exactly while it is under way.
LEMMA PendingStages ==
    ASSUME TypeOK, NEW r \in Requests
    PROVE  CallOf(r).pc = "pending" <=> ~Finished(r)
BY DEF TypeOK, Calls, Idle, CallOf, Finished

\* A step that touches one call shows in that call only.
LEMMA OneAnswer ==
    ASSUME TypeOK, NEW r \in Requests, NEW x, req' = [req EXCEPT ![r] = x]
    PROVE  /\ req'[r] = x
           /\ Answers' = [Answers EXCEPT ![r] = CallOf(r)']
<1>1. \A q \in Requests : q # r => CallOf(q)' = CallOf(q)
  BY DEF TypeOK, CallOf
<1> QED BY <1>1 DEF Answers, TypeOK

\* The promise's policy is the store's.
LEMMA SamePolicy ==
    /\ Promise!Rows = Rows
    /\ \A rows : Promise!Compile(rows) = Compile(rows)
    /\ \A policy, mode, user : Promise!Authorize(policy, mode, user) = Authorize(policy, mode, user)
<1>1. Promise!Rows = Rows
  BY DEF Promise!Rows, Rows, Promise!EmailRows, EmailRows, Promise!DomainRows, DomainRows,
         Promise!LegacyRows, LegacyRows
<1>2. \A rows : Promise!Compile(rows) = Compile(rows)
  BY DEF Promise!Compile, Compile
<1>3. \A policy, mode, user : Promise!Authorize(policy, mode, user) = Authorize(policy, mode, user)
  BY DEF Promise!Authorize, Authorize, Promise!IsOpen, IsOpen
<1> QED BY <1>1, <1>2, <1>3

\* A decision on a policy some rows compile to is an answer from those rows.
LEMMA DecidedShows ==
    ASSUME NEW r \in Requests, NEW i, NEW c, NEW u, NEW start, NEW rows,
           req'[r] = Decided(i, c, u, start, Compile(rows))
    PROVE  CallOf(r)' = Promise!Answered(c, u, start, rows)
<1>1. PICK allowed : allowed = Authorize(Compile(rows), DefaultMode[c], u)
  OBVIOUS
<1>2. req'[r] = [pc |-> "done", inst |-> i, cmd |-> c, user |-> u, start |-> start,
                 allowed |-> allowed]
  BY <1>1 DEF Decided
<1>3. CallOf(r)' = [pc |-> "answered", cmd |-> c, user |-> u, start |-> start,
                    allowed |-> allowed]
  BY <1>2 DEF CallOf
<1>4. Promise!Answered(c, u, start, rows)
         = [pc |-> "answered", cmd |-> c, user |-> u, start |-> start, allowed |-> allowed]
  BY <1>1, SamePolicy DEF Promise!Answered
<1> QED BY <1>3, <1>4

\* The first state is one of the promise's.
LEMMA InitPromise == Init => Promise!PromiseInit
<1> SUFFICES ASSUME Init PROVE Promise!PromiseInit
  OBVIOUS
<1>1. \A r \in Requests : CallOf(r) = [pc |-> "none"]
  BY DEF Init, Idle, CallOf
<1> QED BY <1>1, SamePolicy DEF Init, Promise!PromiseInit, Promise!NoCall, Promise!Never, Never

\* A write to the table, whoever makes it.
LEMMA WritePromise ==
    ASSUME TypeOK, NEW c \in Commands, NEW rows \in SUBSET Rows, SetRows(c, rows),
           UNCHANGED <<clock, req>>
    PROVE  Promise!PromiseWrite(c)
<1>1. table' = [table EXCEPT ![c] = rows] /\ table'[c] = rows
  BY DEF SetRows, TypeOK
<1>2. lastHeld' = [lastHeld EXCEPT ![c][table'[c]] = clock]
  BY <1>1 DEF SetRows
<1>3. Answers' = Answers
  BY DEF Answers, CallOf
<1> QED BY <1>1, <1>2, <1>3, SamePolicy DEF Promise!PromiseWrite, Answers

\* A call that returns from the cache.
LEMMA HitPromise ==
    ASSUME Inv, NEW r \in Requests, NEW i \in Instances, NEW c \in Commands, NEW u \in Users,
           LoadHit(r, i, c, u)
    PROVE  Promise!PromiseAnswer(r, c, u, clock)
<1> USE DEF Inv
<1>1. /\ req' = [req EXCEPT ![r] = Decided(i, c, u, clock, cache[i][c].policy)]
      /\ UNCHANGED <<clock, table, lastHeld>> /\ Finished(r)
  BY DEF LoadHit
<1>2. /\ cache[i][c].expiry \in Int /\ clock \in Int /\ cache[i][c].expiry > clock
      /\ cache[i][c] # NoEntry
  BY StoreAssumption DEF LoadHit, Live, NoEntry, TypeOK, Entries, Times
<1>3. PICK rows \in SUBSET Rows : /\ Compile(rows) = cache[i][c].policy
                                  /\ lastHeld[c][rows] >= cache[i][c].expiry - TTL
  BY <1>2 DEF CacheBacked, HeldSince
<1>4. lastHeld[c][rows] \in Int
  BY StoreAssumption DEF TypeOK, Never
<1>5. lastHeld[c][rows] > clock - TTL
  BY <1>2, <1>3, <1>4, StoreAssumption
<1>6. CallOf(r)' = Promise!Answered(c, u, clock, rows)
  <2>1. req'[r] = Decided(i, c, u, clock, Compile(rows))
    BY <1>1, <1>3 DEF TypeOK
  <2> QED BY <2>1, DecidedShows
<1>7. Answers' = [Answers EXCEPT ![r] = Promise!Answered(c, u, clock, rows)]
  BY <1>1, <1>6, OneAnswer
<1>8. Answers[r].pc # "pending"
  BY <1>1, PendingStages DEF Answers
<1> QED BY <1>1, <1>5, <1>7, <1>8, SamePolicy DEF Promise!PromiseAnswer, Promise!Recent, Answers

\* A load that has the rows answers from them.
LEMMA FillPromise ==
    ASSUME Inv, NEW r \in Requests, StoreAndDecide(r)
    PROVE  /\ req[r].cmd \in Commands /\ req[r].user \in Users /\ req[r].start \in Times
           /\ Promise!PromiseAnswer(r, req[r].cmd, req[r].user, req[r].start)
<1> USE DEF Inv
<1>1. /\ req[r].pc = "fill"
      /\ req' = [req EXCEPT ![r] = Decided(req[r].inst, req[r].cmd, req[r].user, req[r].start,
                                           req[r].policy)]
      /\ UNCHANGED <<clock, table, lastHeld>>
  BY DEF StoreAndDecide
<1>2. req[r].cmd \in Commands /\ req[r].user \in Users /\ req[r].start \in Times
  BY <1>1 DEF TypeOK, Calls, Idle
<1>3. PICK rows \in SUBSET Rows : /\ Compile(rows) = req[r].policy
                                  /\ lastHeld[req[r].cmd][rows] >= req[r].start
  BY <1>1 DEF FillBacked, HeldSince
<1>4. CallOf(r)' = Promise!Answered(req[r].cmd, req[r].user, req[r].start, rows)
  <2>1. req'[r] = Decided(req[r].inst, req[r].cmd, req[r].user, req[r].start, Compile(rows))
    BY <1>1, <1>3 DEF TypeOK
  <2> QED BY <2>1, DecidedShows
<1>5. Answers' = [Answers EXCEPT ![r] = Promise!Answered(req[r].cmd, req[r].user, req[r].start, rows)]
  BY <1>1, <1>4, OneAnswer
<1>6. Answers[r] = [pc |-> "pending", cmd |-> req[r].cmd, user |-> req[r].user,
                    start |-> req[r].start]
  BY <1>1, CallStages DEF Answers
<1>7. Promise!Recent(req[r].cmd, rows, req[r].start)
  BY <1>3 DEF Promise!Recent
<1>8. Answers[r].pc = "pending"
  BY <1>6
<1>9. rows \in SUBSET Promise!Rows
  BY SamePolicy
<1> QED BY <1>1, <1>2, <1>5, <1>6, <1>7, <1>8, <1>9 DEF Promise!PromiseAnswer, Answers

\* A call that misses the cache begins; reading the rows does not show.
LEMMA MissPromise ==
    ASSUME Inv, NEW r \in Requests
    PROVE  /\ \A i \in Instances, c \in Commands, u \in Users :
                 LoadMiss(r, i, c, u) => Promise!PromiseBegin(r, c, u)
           /\ ReadRows(r) => UNCHANGED <<clock, table, lastHeld, Answers>>
<1> USE DEF Inv
<1>1. ASSUME NEW i \in Instances, NEW c \in Commands, NEW u \in Users, LoadMiss(r, i, c, u)
      PROVE  Promise!PromiseBegin(r, c, u)
  <2>1. /\ req' = [req EXCEPT ![r] = Awaiting(i, c, u)] /\ Finished(r)
        /\ UNCHANGED <<clock, table, lastHeld>>
    BY <1>1 DEF LoadMiss
  <2>2. CallOf(r)' = [pc |-> "pending", cmd |-> c, user |-> u, start |-> clock]
    BY <2>1 DEF Awaiting, CallOf, TypeOK
  <2>3. Answers' = [Answers EXCEPT ![r] = [pc |-> "pending", cmd |-> c, user |-> u, start |-> clock]]
    BY <2>1, <2>2, OneAnswer
  <2>4. Answers[r].pc # "pending"
    BY <2>1, PendingStages DEF Answers
  <2> QED BY <2>1, <2>3, <2>4 DEF Promise!PromiseBegin, Answers
<1>2. ASSUME ReadRows(r)
      PROVE  UNCHANGED <<clock, table, lastHeld, Answers>>
  <2>1. CallOf(r)' = CallOf(r)
    BY <1>2 DEF ReadRows, CallOf, TypeOK
  <2>2. \A q \in Requests : CallOf(q)' = CallOf(q)
    BY <1>2, <2>1 DEF ReadRows, CallOf, TypeOK
  <2> QED BY <1>2, <2>2 DEF ReadRows, Answers
<1> QED BY <1>1, <1>2

\* A failed load and a process that dies lose calls.
LEMMA LostPromise ==
    ASSUME Inv
    PROVE  /\ \A r \in Requests : LoadFails(r) => Promise!PromiseForget
           /\ \A i \in Instances : Restart(i) => Promise!PromiseForget
<1> USE DEF Inv
<1>1. ASSUME NEW r \in Requests, LoadFails(r)
      PROVE  Promise!PromiseForget
  <2>1. Answers' = [q \in Requests |-> IF q \in {r} THEN [pc |-> "none"] ELSE Answers[q]]
    BY <1>1 DEF LoadFails, Answers, CallOf, TypeOK, Idle
  <2> QED BY <1>1, <2>1 DEF LoadFails, Promise!PromiseForget, Promise!NoCall, Answers
<1>2. ASSUME NEW i \in Instances, Restart(i)
      PROVE  Promise!PromiseForget
  <2> DEFINE lost == {q \in Requests : ~Finished(q) /\ req[q].inst = i}
  <2>1. Answers' = [q \in Requests |-> IF q \in lost THEN [pc |-> "none"] ELSE Answers[q]]
    BY <1>2 DEF Restart, Answers, CallOf, TypeOK, Idle
  <2> QED BY <1>2, <2>1 DEF Restart, Promise!PromiseForget, Promise!NoCall, Answers
<1> QED BY <1>1, <1>2

\* Every step of the store is one of the promise's, or none to its callers.
LEMMA StepPromise ==
    ASSUME Inv, [Next]_vars
    PROVE  [Promise!PromiseNext]_(Promise!promiseVars)
<1> USE DEF Inv
<1>1. CASE Tick
  BY <1>1 DEF Tick, Promise!PromiseTick, Promise!PromiseNext, CallOf
<1>2. ASSUME NEW a \in Admins, NEW i \in Instances, NEW c \in Commands, NEW row \in GrantableRows,
             Grant(a, i, c, row) \/ Revoke(a, i, c, row)
      PROVE  Promise!PromiseNext
  BY <1>2, WrittenRows, WritePromise DEF Grant, Revoke, Promise!PromiseNext
<1>3. ASSUME NEW c \in Commands, NEW row \in GrantableRows, CliWrite(c, row)
      PROVE  Promise!PromiseNext
  BY <1>3, WrittenRows, WritePromise DEF CliWrite, Promise!PromiseNext
<1>4. ASSUME NEW r \in Requests, NEW i \in Instances, NEW c \in Commands, NEW u \in Users,
             LoadHit(r, i, c, u) \/ LoadMiss(r, i, c, u)
      PROVE  Promise!PromiseNext
  BY <1>4, HitPromise, MissPromise DEF Promise!PromiseNext, Promise!Times, TypeOK, Times
<1>5. ASSUME NEW r \in Requests, StoreAndDecide(r) \/ LoadFails(r)
      PROVE  Promise!PromiseNext
  BY <1>5, FillPromise, LostPromise DEF Promise!PromiseNext, Promise!Times, Times
<1>6. ASSUME NEW i \in Instances, Restart(i)
      PROVE  Promise!PromiseNext
  BY <1>6, LostPromise DEF Promise!PromiseNext
<1>7. ASSUME NEW r \in Requests, ReadRows(r)
      PROVE  UNCHANGED Promise!promiseVars
  BY <1>7, MissPromise DEF Promise!promiseVars, Answers
<1>8. CASE UNCHANGED <<clock, table, lastHeld, req>>
  BY <1>8 DEF Promise!promiseVars, CallOf
<1> QED
  BY <1>1, <1>2, <1>3, <1>4, <1>5, <1>6, <1>7, <1>8 DEF Next, DropEntry, Invalidate, vars

\* The store implements AccessPromise: with its caches, instances and the stages of
\* a load hidden, it answers only from recent contents of the table.
THEOREM KeepsPromise == Spec => ImplementsPromise
BY InitPromise, StepPromise, Invariance, PTL DEF Spec, ImplementsPromise, Promise!PromiseSpec
===============================================================================
