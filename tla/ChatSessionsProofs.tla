-------------------------- MODULE ChatSessionsProofs --------------------------
(***************************************************************************)
(* Proofs about ChatSessions for any number of users, threads, workflows   *)
(* and overlapping requests, any TTL and any set of faults.                *)
(***************************************************************************)
EXTENDS ChatSessions, TLAPS

\* Under way in a thread; and not yet done with resolve() or clear().
Begun(r) == req[r].pc \in {"get", "delete", "create", "load", "run"}
Resolving(r) == req[r].pc \in {"get", "delete", "create"}

\* An idle slot runs nothing, and what is under way has a user and an opened thread.
Placed ==
    \A r \in Requests :
        /\ req[r].pc = "idle" => req[r].work = "default" /\ ~req[r].fresh
        /\ req[r].pc = "anchor" => req[r].kind = "slash" /\ req[r].user \in Users
        /\ Begun(r) => /\ req[r].user \in Users /\ req[r].thread \in opened
                       /\ req[r].kind # "none"

\* Sessions are in opened threads, and of a session that is dropped nothing is left.
Stored == \A k \in Keys : IF store[k].up THEN k[2] \in opened ELSE store[k] = NoSession

\* Only a slash command brings a workflow along.
PlainStartsDefault ==
    \A r \in Requests :
        Resolving(r) /\ req[r].kind # "slash" => req[r].work = "default"

\* A stored session's workflow was allowed to its user.
StoreAuthorized ==
    \A k \in Keys : store[k].active \in Workflows => <<k[1], store[k].active>> \in cleared

\* A copy that may still be appended from is one of the session that is stored.
FreshIsOwn == \A r \in Requests : req[r].fresh => req[r].own

\* Every slash command has a thread of its own.
SlashAlone ==
    \A q, r \in Requests :
        /\ q # r /\ Begun(q) /\ Begun(r)
        /\ req[q].kind = "slash" /\ req[r].kind = "slash"
        => req[q].thread # req[r].thread

\* Until its session is created there is no other workflow's in that thread, no
\* time passes, and nobody is about to drop an expired session there.
SlashFirst ==
    \A r \in Requests :
        Resolving(r) /\ req[r].kind = "slash" =>
            /\ store[KeyOf(req[r])].active \notin Workflows
            /\ store[KeyOf(req[r])].idle = 0
            /\ \A q \in Requests :
                  req[q].pc = "delete" /\ req[q].kind = "plain" => KeyOf(req[q]) # KeyOf(req[r])

\* Who is about to append has a session that has not expired.
RunsAreLive ==
    \A r \in Requests :
        /\ req[r].pc = "load" => store[KeyOf(req[r])].idle <= TTL
        /\ req[r].fresh => /\ req[r].pc = "run"
                           /\ store[KeyOf(req[r])].up /\ store[KeyOf(req[r])].idle <= TTL

\* A plain message drops an expired session, or one that runs no workflow.
PlainDropsExpired ==
    \A r \in Requests :
        req[r].pc = "delete" /\ req[r].kind = "plain" =>
            \/ store[KeyOf(req[r])].idle > TTL
            \/ store[KeyOf(req[r])].active \notin Workflows

Shape == TypeOK /\ Placed /\ Stored
Rightful == PlainStartsDefault /\ RunsAuthorized /\ StoreAuthorized
Unmixed == FreshIsOwn /\ NothingCarriedOver
Ordered == SlashAlone /\ SlashFirst /\ RunsAreLive /\ PlainDropsExpired

\* The inductive invariant.
Inv == Shape /\ Rightful /\ Unmixed /\ Ordered

-------------------------------------------------------------------------------
\* What a step does to a request and to a session

\* The request did not take part in the step, or its copy was made stale.
Kept(q) ==
    \/ req'[q] = req[q]
    \/ req'[q] = [req[q] EXCEPT !.fresh = FALSE]
    \/ req'[q] = [req[q] EXCEPT !.fresh = FALSE, !.own = FALSE]

\* The session is left alone, aged, dropped, created, or gets an event.
SessionKept(k) == store'[k] = store[k]

SessionAged(k) == Tick /\ store[k].up /\ store'[k] = Aged(store[k])

SessionDropped(k, r) ==
    /\ Delete(r) /\ KeyOf(req[r]) = k /\ store'[k] = NoSession
    /\ \A q \in Requests : KeyOf(req[q]) = k => ~req'[q].fresh

SessionCreated(k, r) ==
    /\ Create(r) /\ KeyOf(req[r]) = k /\ ~store[k].up /\ store'[k] = NewSession(req[r].work)

SessionAppended(k, r) ==
    /\ AppendEvent(r) /\ KeyOf(req[r]) = k /\ store[k].up /\ req[r].fresh
    /\ store'[k] = [store[k] EXCEPT !.idle = 0, !.mixed = @ \/ ~req[r].own]

\* One request acts, or there is an /grant or /revoke, a tick, or a crash.
LEMMA StepCases ==
    ASSUME Next
    PROVE  \/ \E r \in Requests :
                 \/ \E u \in Users, t \in Threads : PlainMessage(r, u, t) \/ ExitCommand(r, u, t)
                 \/ \E u \in Users, w \in Workflows : SlashCommand(r, u, w)
                 \/ Step(r)
           \/ \E u, v \in Users, w \in Workflows : AdminCommand(u, v, w)
           \/ Tick
           \/ Crash
BY DEF Next

\* The key of a request that has begun is one of the store's.
LEMMA BegunKey ==
    ASSUME TypeOK, Placed, NEW r \in Requests, Begun(r)
    PROVE  /\ KeyOf(req[r]) = <<req[r].user, req[r].thread>>
           /\ req[r].user \in Users /\ req[r].thread \in Threads
           /\ KeyOf(req[r]) \in Keys
BY DEF TypeOK, Placed, KeyOf, SessionKey, Keys

\* What the sessions of the type are.
Sessions == [up: BOOLEAN, active: Works, idle: 0 .. (TTL + 1), mixed: BOOLEAN]

\* No session, and a new one.
LEMMA SessionTypes ==
    /\ NoSession \in Sessions
    /\ ~NoSession.up /\ NoSession.active = "default" /\ NoSession.idle = 0 /\ ~NoSession.mixed
    /\ \A w \in Works :
          /\ NewSession(w) \in Sessions
          /\ NewSession(w).up /\ NewSession(w).active = w
          /\ NewSession(w).idle = 0 /\ ~NewSession(w).mixed
<1>1. "default" \in Works /\ 0 \in 0 .. (TTL + 1)
  BY SessionsAssumption DEF Works
<1>2. NoSession \in Sessions
  BY <1>1 DEF NoSession, Sessions
<1>3. ~NoSession.up /\ NoSession.active = "default" /\ NoSession.idle = 0 /\ ~NoSession.mixed
  BY DEF NoSession
<1>4. ASSUME NEW w \in Works
      PROVE  /\ NewSession(w) \in Sessions
             /\ NewSession(w).up /\ NewSession(w).active = w
             /\ NewSession(w).idle = 0 /\ ~NewSession(w).mixed
  <2>1. PICK n, s : n = NewSession(w) /\ s = NoSession
    OBVIOUS
  <2>2. n = [s EXCEPT !.up = TRUE, !.active = w]
    BY <2>1 DEF NewSession
  <2>3. s \in Sessions /\ ~s.mixed /\ s.idle = 0
    BY <1>2, <1>3, <2>1
  <2>4. n \in Sessions /\ n.up /\ n.active = w /\ n.idle = s.idle /\ ~n.mixed
    BY <2>2, <2>3 DEF Sessions
  <2> QED BY <2>1, <2>3, <2>4
<1> QED BY <1>2, <1>3, <1>4

\* A session that ages is the same but for its idle time, which takes it past the
\* TTL only from the TTL.
LEMMA AgedType ==
    ASSUME NEW s \in Sessions
    PROVE  /\ Aged(s) \in Sessions
           /\ Aged(s).up = s.up /\ Aged(s).active = s.active /\ Aged(s).mixed = s.mixed
           /\ Aged(s).idle >= s.idle
           /\ s.idle < TTL => Aged(s).idle <= TTL
BY SessionsAssumption DEF Aged, Sessions

\* What a step does to one request.
LEMMA RequestShape ==
    ASSUME TypeOK, [Next]_vars, NEW q \in Requests
    PROVE  \/ Kept(q)
           \/ req'[q] = Idle
           \/ \E u \in Users, t \in Threads : PlainMessage(q, u, t) \/ ExitCommand(q, u, t)
           \/ \E u \in Users, w \in Workflows : SlashCommand(q, u, w)
           \/ Step(q)
<1> DEFINE Goal == \/ Kept(q)
                   \/ req'[q] = Idle
                   \/ \E u \in Users, t \in Threads : PlainMessage(q, u, t) \/ ExitCommand(q, u, t)
                   \/ \E u \in Users, w \in Workflows : SlashCommand(q, u, w)
                   \/ Step(q)
<1>1. ASSUME NEW r \in Requests, r # q,
             \/ \E u \in Users, t \in Threads : PlainMessage(r, u, t) \/ ExitCommand(r, u, t)
             \/ \E u \in Users, w \in Workflows : SlashCommand(r, u, w)
             \/ Anchor(r) \/ Get(r) \/ Load(r) \/ EndRun(r) \/ Create(r)
      PROVE  req'[q] = req[q]
  BY <1>1
  DEF TypeOK, PlainMessage, ExitCommand, SlashCommand, Anchor, Get, Load, EndRun, Create, Finish
<1>2. ASSUME NEW r \in Requests, r # q, Delete(r)
      PROVE  Kept(q)
  BY <1>2 DEF TypeOK, Delete, Dropped, Finish, Kept
<1>3. ASSUME NEW r \in Requests, r # q, AppendEvent(r)
      PROVE  Kept(q)
  BY <1>3 DEF TypeOK, AppendEvent, Finish, Kept
<1>4. CASE Crash
  BY <1>4 DEF Crash
<1>5. CASE UNCHANGED req
  BY <1>5 DEF Kept
<1> HIDE DEF Goal
<1>6. ASSUME NEW r \in Requests, r # q, Step(r)
      PROVE  Kept(q)
  BY <1>1, <1>2, <1>3, <1>6 DEF Step, Kept
<1>7. ASSUME NEW r \in Requests,
             \/ \E u \in Users, t \in Threads : PlainMessage(r, u, t) \/ ExitCommand(r, u, t)
             \/ \E u \in Users, w \in Workflows : SlashCommand(r, u, w)
             \/ Step(r)
      PROVE  Goal
  BY <1>1, <1>6, <1>7 DEF Goal, Kept
<1>8. CASE ~Next \/ Tick \/ \E u, v \in Users, w \in Workflows : AdminCommand(u, v, w)
  BY <1>5, <1>8 DEF Goal, Tick, AdminCommand, vars
<1> QED BY <1>4, <1>7, <1>8, StepCases DEF Goal

\* What a step does to one session.
LEMMA SessionShape ==
    ASSUME TypeOK, [Next]_vars, NEW k \in Keys
    PROVE  \/ SessionKept(k)
           \/ SessionAged(k)
           \/ \E r \in Requests : \/ SessionDropped(k, r)
                                  \/ SessionCreated(k, r)
                                  \/ SessionAppended(k, r)
<1>1. CASE Tick
  BY <1>1 DEF Tick, SessionAged, SessionKept
<1>2. ASSUME NEW r \in Requests, Delete(r)
      PROVE  SessionKept(k) \/ SessionDropped(k, r)
  <2>1. CASE "db" \in Faults /\ Finish(r) /\ UNCHANGED store
    BY <2>1 DEF SessionKept
  <2>2. CASE KeyOf(req[r]) # k
    BY <1>2, <2>2 DEF Delete, TypeOK, SessionKept
  <2>3. CASE /\ KeyOf(req[r]) = k
             /\ store' = [store EXCEPT ![k] = NoSession]
             /\ req' = [Dropped(k) EXCEPT
                       ![r] = IF req[r].kind = "exit" THEN Idle ELSE [@ EXCEPT !.pc = "create"]]
    <3>1. \A q \in Requests : KeyOf(req[q]) = k => ~req'[q].fresh
      BY <2>3 DEF Dropped, TypeOK, Idle
    <3>2. store'[k] = NoSession
      BY <2>3 DEF TypeOK
    <3> QED BY <1>2, <2>3, <3>1, <3>2 DEF SessionDropped
  <2> QED BY <1>2, <2>1, <2>2, <2>3 DEF Delete
<1>3. ASSUME NEW r \in Requests, Create(r)
      PROVE  SessionKept(k) \/ SessionCreated(k, r)
  BY <1>3 DEF Create, SessionKept, SessionCreated, TypeOK
<1>4. ASSUME NEW r \in Requests, AppendEvent(r)
      PROVE  SessionKept(k) \/ SessionAppended(k, r)
  <2>1. CASE UNCHANGED store
    BY <2>1 DEF SessionKept
  <2>2. CASE /\ CanAppend(req[r])
             /\ store' = [store EXCEPT ![KeyOf(req[r])].idle = 0,
                                      ![KeyOf(req[r])].mixed = @ \/ ~req[r].own]
    <3>1. req[r].fresh /\ store[KeyOf(req[r])].up
      BY <2>2 DEF CanAppend
    <3>2. DOMAIN store = Keys
      BY DEF TypeOK
    <3>3. CASE KeyOf(req[r]) # k
      BY <2>2, <3>2, <3>3 DEF SessionKept
    <3>4. CASE KeyOf(req[r]) = k
      <4>1. store'[k] = [store[k] EXCEPT !.idle = 0, !.mixed = store[k].mixed \/ ~req[r].own]
        BY <2>2, <3>2, <3>4
      <4> QED BY <1>4, <3>1, <3>4, <4>1 DEF SessionAppended
    <3> QED BY <3>3, <3>4
  <2> QED BY <1>4, <2>1, <2>2 DEF AppendEvent
<1>5. CASE UNCHANGED store
  BY <1>5 DEF SessionKept
<1>6. ASSUME NEW r \in Requests, Anchor(r) \/ Get(r) \/ Load(r) \/ EndRun(r)
      PROVE  UNCHANGED store
  BY <1>6 DEF Anchor, Get, Load, EndRun
<1>7. ASSUME NEW r \in Requests, NEW u \in Users, NEW t \in Threads,
             PlainMessage(r, u, t) \/ ExitCommand(r, u, t)
      PROVE  UNCHANGED store
  BY <1>7 DEF PlainMessage, ExitCommand
<1>8. ASSUME NEW r \in Requests, NEW u \in Users, NEW w \in Workflows, SlashCommand(r, u, w)
      PROVE  UNCHANGED store
  BY <1>8 DEF SlashCommand
<1>9. CASE ~Next \/ Crash \/ \E u, v \in Users, w \in Workflows : AdminCommand(u, v, w)
  BY <1>5, <1>9 DEF Crash, AdminCommand, vars
<1> QED
  BY <1>1, <1>2, <1>3, <1>4, <1>5, <1>6, <1>7, <1>8, <1>9, StepCases DEF Step

-------------------------------------------------------------------------------
\* The shape of the state

\* What the requests of the type are.
Jobs ==
    [pc: {"idle", "anchor", "get", "delete", "create", "load", "run"},
     kind: {"none", "plain", "exit", "slash"}, user: Users \cup {"none"},
     thread: Threads \cup {"none"}, work: Works, fresh: BOOLEAN, own: BOOLEAN]

\* Every step keeps the rules and the threads; what was once allowed or opened stays so.
LEMMA RulesStep ==
    ASSUME TypeOK, [Next]_vars
    PROVE  /\ allowed' \subseteq Rights /\ cleared' \subseteq Rights
           /\ opened' \subseteq Threads
           /\ cleared \subseteq cleared' /\ opened \subseteq opened'
<1> USE DEF TypeOK
<1>1. ASSUME NEW r \in Requests, NEW u \in Users, NEW t \in Threads,
             PlainMessage(r, u, t) \/ ExitCommand(r, u, t)
      PROVE  opened' \subseteq Threads /\ opened \subseteq opened' /\ UNCHANGED <<allowed, cleared>>
  BY <1>1 DEF PlainMessage, ExitCommand
<1>2. ASSUME NEW r \in Requests, NEW u \in Users, NEW w \in Workflows, SlashCommand(r, u, w)
      PROVE  cleared' \subseteq Rights /\ cleared \subseteq cleared' /\ UNCHANGED <<allowed, opened>>
  BY <1>2 DEF SlashCommand
<1>3. ASSUME NEW u \in Users, NEW v \in Users, NEW w \in Workflows, AdminCommand(u, v, w)
      PROVE  allowed' \subseteq Rights /\ UNCHANGED <<opened, cleared>>
  BY <1>3 DEF AdminCommand, Rights
<1>4. ASSUME NEW r \in Requests, Anchor(r)
      PROVE  opened' \subseteq Threads /\ opened \subseteq opened' /\ UNCHANGED <<allowed, cleared>>
  BY <1>4 DEF Anchor
<1>5. ASSUME NEW r \in Requests,
             Get(r) \/ Delete(r) \/ Create(r) \/ Load(r) \/ AppendEvent(r) \/ EndRun(r)
      PROVE  UNCHANGED <<allowed, opened, cleared>>
  BY <1>5 DEF Get, Delete, Create, Load, AppendEvent, EndRun
<1>6. CASE Tick \/ Crash \/ UNCHANGED vars
  BY <1>6 DEF Tick, Crash, vars
<1> QED BY <1>1, <1>2, <1>3, <1>4, <1>5, <1>6, StepCases DEF Step

\* Every step keeps the store typed, and dropped sessions empty.
LEMMA StoreStep ==
    ASSUME TypeOK, Placed, Stored, [Next]_vars
    PROVE  store' \in [Keys -> Sessions] /\ Stored'
<1>1. \A k \in Keys : store[k] \in Sessions
  BY DEF TypeOK, Sessions
<1>2. \A k \in Keys : store'[k] \in Sessions /\ IF store'[k].up THEN k[2] \in opened' ELSE store'[k] = NoSession
  <2> TAKE k \in Keys
  <2>1. opened \subseteq opened' /\ (store[k].up => k[2] \in opened)
    BY RulesStep DEF Stored
  <2>2. CASE SessionKept(k)
    BY <1>1, <2>1, <2>2 DEF SessionKept, Stored
  <2>3. CASE SessionAged(k)
    BY <1>1, <2>1, <2>3, AgedType DEF SessionAged
  <2>4. ASSUME NEW r \in Requests, SessionDropped(k, r)
        PROVE  store'[k] \in Sessions /\ store'[k] = NoSession /\ ~store'[k].up
    BY <2>4, SessionTypes DEF SessionDropped
  <2>5. ASSUME NEW r \in Requests, SessionCreated(k, r)
        PROVE  store'[k] \in Sessions /\ store'[k].up /\ k[2] \in opened'
    <3>1. req[r].work \in Works /\ Begun(r) /\ k = <<req[r].user, req[r].thread>>
      BY <2>5 DEF SessionCreated, Create, Begun, KeyOf, SessionKey, TypeOK
    <3> QED BY <2>1, <2>5, <3>1, SessionTypes DEF SessionCreated, Placed
  <2>6. ASSUME NEW r \in Requests, SessionAppended(k, r)
        PROVE  store'[k] \in Sessions /\ store'[k].up /\ k[2] \in opened'
    <3>1. store[k] \in Sessions /\ 0 \in 0 .. (TTL + 1) /\ req[r].own \in BOOLEAN
      BY <1>1, SessionsAssumption DEF TypeOK
    <3> QED BY <2>1, <2>6, <3>1 DEF SessionAppended, Sessions
  <2> QED BY <2>2, <2>3, <2>4, <2>5, <2>6, SessionShape
<1>3. store' = [k \in Keys |-> store'[k]]
  <2>1. ASSUME NEW r \in Requests, Delete(r) \/ Create(r) \/ AppendEvent(r)
        PROVE  store' = [k \in Keys |-> store'[k]]
    BY <2>1 DEF Delete, Create, AppendEvent, TypeOK
  <2>2. CASE Tick
    BY <2>2 DEF Tick
  <2>3. CASE UNCHANGED store
    BY <2>3 DEF TypeOK
  <2> QED BY <2>1, <2>2, <2>3, StepCases
          DEF Step, PlainMessage, ExitCommand, SlashCommand, AdminCommand, Anchor, Get, Load,
              EndRun, Crash, vars
<1> QED BY <1>2, <1>3 DEF Stored

\* A message, a command and a step of a request leave it well placed.
LEMMA ArrivalShape ==
    ASSUME TypeOK, NEW q \in Requests, NEW u \in Users
    PROVE  /\ \A t \in Threads : PlainMessage(q, u, t) =>
                 /\ req'[q] \in Jobs /\ t \in opened'
                 /\ req'[q].pc = "get" /\ req'[q].kind = "plain" /\ req'[q].user = u
                 /\ req'[q].thread = t /\ req'[q].work = "default"
                 /\ ~req'[q].fresh
           /\ \A t \in Threads : ExitCommand(q, u, t) =>
                 /\ req'[q] \in Jobs /\ t \in opened'
                 /\ req'[q].pc = "get" /\ req'[q].kind = "exit" /\ req'[q].user = u
                 /\ req'[q].thread = t /\ req'[q].work = "default"
                 /\ ~req'[q].fresh
           /\ \A w \in Workflows : SlashCommand(q, u, w) =>
                 /\ req'[q] \in Jobs
                 /\ req'[q].pc = "anchor" /\ req'[q].kind = "slash" /\ req'[q].user = u
                 /\ req'[q].work = w /\ <<u, w>> \in cleared'
                 /\ ~req'[q].fresh
<1>1. "default" \in Works /\ Workflows \subseteq Works
  BY DEF Works
<1>2. ASSUME NEW t \in Threads, NEW kind \in {"plain", "exit"}, NEW n,
             n = Request(kind, u, t)
      PROVE  /\ n \in Jobs
             /\ n.pc = "get" /\ n.kind = kind /\ n.user = u
             /\ n.thread = t /\ n.work = "default" /\ ~n.fresh
  BY <1>1, <1>2 DEF Request, Idle, Jobs
<1>3. ASSUME NEW t \in Threads, PlainMessage(q, u, t)
      PROVE  req'[q] = Request("plain", u, t) /\ t \in opened'
  BY <1>3 DEF PlainMessage, TypeOK
<1>4. ASSUME NEW t \in Threads, ExitCommand(q, u, t)
      PROVE  req'[q] = Request("exit", u, t) /\ t \in opened'
  BY <1>4 DEF ExitCommand, TypeOK
<1>5. ASSUME NEW w \in Workflows, SlashCommand(q, u, w)
      PROVE  /\ req'[q] \in Jobs
             /\ req'[q].pc = "anchor" /\ req'[q].kind = "slash" /\ req'[q].user = u
             /\ req'[q].work = w /\ <<u, w>> \in cleared'
             /\ ~req'[q].fresh
  BY <1>1, <1>5 DEF SlashCommand, Idle, Jobs, TypeOK, Authorized
<1> QED BY <1>2, <1>3, <1>4, <1>5

\* What a request's own steps make of it.
LEMMA OwnStep ==
    ASSUME TypeOK, Placed, NEW q \in Requests, Step(q), req'[q] # Idle
    PROVE  /\ req'[q] \in Jobs
           /\ req'[q].kind = req[q].kind /\ req'[q].user = req[q].user
           /\ req'[q].kind # "none" /\ req'[q].user \in Users
           /\ req'[q].pc \notin {"idle", "anchor"}
           /\ req'[q].thread \in opened'
           /\ ~Anchor(q) => req'[q].thread = req[q].thread
           /\ ~Get(q) => req'[q].work = req[q].work
           /\ ~Load(q) => (req'[q].fresh => req[q].fresh)
           /\ ~Load(q) => (req'[q].own <=> req[q].own) \/ ~req'[q].fresh
           /\ \/ Anchor(q) /\ req[q].pc = "anchor" /\ req'[q].pc = "get"
              \/ Get(q) /\ req[q].pc = "get" /\ req'[q].pc \in {"load", "delete", "create"}
              \/ Delete(q) /\ req[q].pc = "delete" /\ req'[q].pc = "create"
                 /\ req[q].kind # "exit"
              \/ Create(q) /\ req[q].pc = "create" /\ req'[q].pc = "load"
              \/ Load(q) /\ req[q].pc = "load" /\ req'[q].pc = "run"
              \/ AppendEvent(q) /\ req[q].pc = "run" /\ req'[q].pc = "run"
<1> USE DEF TypeOK, Jobs, Finish
<1>1. \A k \in Keys : store[k].active \in Works
  OBVIOUS
<1>2. CASE Anchor(q)
  BY <1>2 DEF Anchor, Placed
<1>3. CASE Get(q)
  <2>1. Begun(q)
    BY <1>3 DEF Get, Begun
  <2>2. KeyOf(req[q]) \in Keys
    BY <2>1, BegunKey
  <2> QED BY <1>1, <1>3, <2>1, <2>2 DEF Get, Placed
<1>4. CASE Create(q)
  BY <1>4 DEF Create, Placed, Begun
<1>5. CASE Load(q) \/ EndRun(q)
  BY <1>5 DEF Load, EndRun, Placed, Begun
<1>6. CASE Delete(q)
  <2>1. PICK job : job = Dropped(KeyOf(req[q]))[q]
    OBVIOUS
  <2>2. /\ job \in Jobs /\ job.kind = req[q].kind /\ job.user = req[q].user
        /\ job.thread = req[q].thread /\ job.work = req[q].work /\ ~job.fresh /\ ~job.own
    BY <2>1 DEF Dropped
  <2>3. req'[q] = [job EXCEPT !.pc = "create"]
    BY <1>6, <2>1 DEF Delete, Dropped
  <2>4. req[q].pc = "delete" /\ req[q].kind # "exit" /\ opened' = opened
    BY <1>6 DEF Delete, Dropped
  <2>5. req[q].user \in Users /\ req[q].thread \in opened /\ req[q].kind # "none"
    BY <2>4 DEF Placed, Begun
  <2> QED BY <1>6, <2>2, <2>3, <2>4, <2>5
<1>7. CASE AppendEvent(q)
  BY <1>7 DEF AppendEvent, Placed, Begun
<1> QED BY <1>2, <1>3, <1>4, <1>5, <1>6, <1>7 DEF Step

\* Every step leaves typed, well placed requests.
LEMMA RequestStep ==
    ASSUME TypeOK, Placed, [Next]_vars
    PROVE  req' \in [Requests -> Jobs] /\ Placed'
<1>1. \A q \in Requests : req[q] \in Jobs
  BY DEF TypeOK, Jobs
<1>2. Idle \in Jobs /\ Idle.pc = "idle" /\ Idle.work = "default" /\ ~Idle.fresh
  BY DEF Idle, Jobs, Works
<1>3. ASSUME NEW q \in Requests
      PROVE  /\ req'[q] \in Jobs
             /\ req'[q].pc = "idle" => req'[q].work = "default" /\ ~req'[q].fresh
             /\ req'[q].pc = "anchor" => req'[q].kind = "slash" /\ req'[q].user \in Users
             /\ req'[q].pc \in {"get", "delete", "create", "load", "run"} =>
                   req'[q].user \in Users /\ req'[q].thread \in opened' /\ req'[q].kind # "none"
  <2>1. CASE Kept(q)
    <3>1. /\ req'[q] \in Jobs
          /\ req'[q].pc = req[q].pc /\ req'[q].kind = req[q].kind /\ req'[q].user = req[q].user
          /\ req'[q].thread = req[q].thread
      BY <1>1, <2>1 DEF Kept, Jobs
    <3>2. req[q].pc = "idle" => req'[q].work = "default" /\ ~req'[q].fresh
      BY <1>1, <2>1 DEF Kept, Placed, Jobs
    <3> QED BY <3>1, <3>2, RulesStep DEF Placed, Begun
  <2>2. CASE req'[q] = Idle
    BY <1>2, <2>2
  <2>3. ASSUME NEW u \in Users, NEW t \in Threads, PlainMessage(q, u, t) \/ ExitCommand(q, u, t)
        PROVE  /\ req'[q] \in Jobs /\ req'[q].pc = "get" /\ req'[q].user \in Users
               /\ req'[q].thread \in opened' /\ req'[q].kind # "none"
    BY <2>3, ArrivalShape
  <2>4. ASSUME NEW u \in Users, NEW w \in Workflows, SlashCommand(q, u, w)
        PROVE  /\ req'[q] \in Jobs /\ req'[q].pc = "anchor" /\ req'[q].kind = "slash"
               /\ req'[q].user \in Users
    BY <2>4, ArrivalShape
  <2>5. CASE Step(q) /\ req'[q] # Idle
    BY <2>5, OwnStep
  <2> QED BY <2>1, <2>2, <2>3, <2>4, <2>5, RequestShape
<1>4. req' = [q \in Requests |-> req'[q]]
  <2>1. ASSUME NEW r \in Requests, Step(r)
        PROVE  req' = [q \in Requests |-> req'[q]]
    BY <2>1 DEF Step, Anchor, Get, Delete, Create, Load, AppendEvent, EndRun, Finish, Dropped, TypeOK
  <2>2. ASSUME NEW r \in Requests, NEW u \in Users, NEW t \in Threads,
               PlainMessage(r, u, t) \/ ExitCommand(r, u, t)
        PROVE  req' = [q \in Requests |-> req'[q]]
    BY <2>2 DEF PlainMessage, ExitCommand, TypeOK
  <2>3. ASSUME NEW r \in Requests, NEW u \in Users, NEW w \in Workflows, SlashCommand(r, u, w)
        PROVE  req' = [q \in Requests |-> req'[q]]
    BY <2>3 DEF SlashCommand, TypeOK
  <2>4. CASE Crash \/ UNCHANGED req
    BY <2>4 DEF Crash, TypeOK
  <2> QED BY <2>1, <2>2, <2>3, <2>4, StepCases DEF Tick, AdminCommand, vars
<1> QED BY <1>3, <1>4 DEF Placed, Begun

\* The shape of the state is kept.
LEMMA ShapeStep ==
    ASSUME Shape, [Next]_vars
    PROVE  Shape'
BY RulesStep, StoreStep, RequestStep DEF Shape, TypeOK, Sessions, Jobs

-------------------------------------------------------------------------------
\* Who may run what

\* A request that is Kept keeps everything but its copy.
LEMMA KeptFields ==
    ASSUME TypeOK, NEW q \in Requests, Kept(q)
    PROVE  /\ req'[q].pc = req[q].pc /\ req'[q].kind = req[q].kind
           /\ req'[q].user = req[q].user /\ req'[q].thread = req[q].thread
           /\ req'[q].work = req[q].work
           /\ KeyOf(req'[q]) = KeyOf(req[q])
           /\ req'[q].fresh => req'[q] = req[q]
BY DEF TypeOK, Kept, KeyOf, SessionKey

\* An empty slot.
LEMMA IdleFields ==
    /\ Idle.pc = "idle" /\ Idle.kind = "none" /\ Idle.work = "default"
    /\ ~Idle.fresh /\ ~Idle.own
BY DEF Idle

\* What is to be run comes from a slash command that was authorized, or from the
\* user's own session.
LEMMA RightfulStep ==
    ASSUME Shape, Rightful, [Next]_vars
    PROVE  Rightful'
<1> USE DEF Shape, Rightful
<1>0. TypeOK' /\ Placed' /\ cleared \subseteq cleared' /\ "default" \notin Workflows
  BY ShapeStep, RulesStep, SessionsAssumption
<1>1. ASSUME NEW q \in Requests
      PROVE  /\ Resolving(q)' /\ req'[q].kind # "slash" => req'[q].work = "default"
             /\ req'[q].work \in Workflows => <<req'[q].user, req'[q].work>> \in cleared'
  <2>1. CASE Kept(q)
    BY <1>0, <2>1, KeptFields DEF PlainStartsDefault, RunsAuthorized, Resolving
  <2>2. CASE req'[q] = Idle
    BY <1>0, <2>2, IdleFields DEF Resolving
  <2>3. ASSUME NEW u \in Users, NEW t \in Threads, PlainMessage(q, u, t) \/ ExitCommand(q, u, t)
        PROVE  req'[q].work = "default"
    BY <2>3, ArrivalShape
  <2>4. ASSUME NEW u \in Users, NEW w \in Workflows, SlashCommand(q, u, w)
        PROVE  /\ req'[q].kind = "slash" /\ <<req'[q].user, req'[q].work>> \in cleared'
    BY <2>4, ArrivalShape
  <2>5. CASE Step(q) /\ req'[q] # Idle /\ ~Get(q)
    <3>1. /\ req'[q].kind = req[q].kind /\ req'[q].user = req[q].user
          /\ req'[q].work = req[q].work
      BY <2>5, OwnStep
    <3>2. Resolving(q)' => Resolving(q) \/ req[q].kind = "slash"
      BY <2>5, OwnStep DEF Resolving, Placed
    <3> QED BY <1>0, <3>1, <3>2 DEF PlainStartsDefault, RunsAuthorized
  <2>6. CASE Get(q) /\ req'[q] # Idle
    <3>1. Begun(q) /\ Resolving(q) /\ KeyOf(req[q]) \in Keys /\ KeyOf(req[q])[1] = req[q].user
      BY <2>6, BegunKey DEF Get, Begun, Resolving
    <3>2. CASE req'[q].work = req[q].work
      BY <1>0, <2>6, <3>1, <3>2 DEF Get, Finish, PlainStartsDefault, RunsAuthorized, TypeOK
    <3>3. CASE /\ req'[q].work = store[KeyOf(req[q])].active /\ req'[q].pc = "load"
               /\ req'[q].user = req[q].user
      BY <1>0, <3>1, <3>3 DEF StoreAuthorized, Resolving
    <3> QED BY <2>6, <3>2, <3>3 DEF Get, Finish, TypeOK
  <2> QED BY <1>0, <2>1, <2>2, <2>3, <2>4, <2>5, <2>6, RequestShape
<1>2. ASSUME NEW k \in Keys
      PROVE  store'[k].active \in Workflows => <<k[1], store'[k].active>> \in cleared'
  <2>1. store[k] \in Sessions
    BY DEF TypeOK, Sessions
  <2>2. CASE SessionKept(k) \/ SessionAged(k)
    BY <1>0, <2>1, <2>2, AgedType DEF SessionKept, SessionAged, StoreAuthorized
  <2>3. ASSUME NEW r \in Requests, SessionDropped(k, r)
        PROVE  store'[k].active = "default"
    BY <2>3, SessionTypes DEF SessionDropped
  <2>4. ASSUME NEW r \in Requests, SessionCreated(k, r)
        PROVE  store'[k].active \in Workflows => <<k[1], store'[k].active>> \in cleared'
    <3>1. Begun(r) /\ req[r].work \in Works /\ k[1] = req[r].user
      BY <2>4, BegunKey DEF SessionCreated, Create, Begun, TypeOK
    <3>2. store'[k].active = req[r].work
      BY <2>4, <3>1, SessionTypes DEF SessionCreated
    <3> QED BY <1>0, <3>1, <3>2 DEF RunsAuthorized
  <2>5. ASSUME NEW r \in Requests, SessionAppended(k, r)
        PROVE  store'[k].active = store[k].active
    BY <2>1, <2>5 DEF SessionAppended, Sessions
  <2> QED BY <1>0, <2>2, <2>3, <2>4, <2>5, SessionShape DEF StoreAuthorized
<1> QED BY <1>1, <1>2 DEF PlainStartsDefault, RunsAuthorized, StoreAuthorized

\* A copy that can be appended from is never one of a session that was dropped.
LEMMA UnmixedStep ==
    ASSUME Shape, Unmixed, [Next]_vars
    PROVE  Unmixed'
<1> USE DEF Shape, Unmixed
<1>1. ASSUME NEW q \in Requests, req'[q].fresh
      PROVE  req'[q].own
  <2>1. CASE Kept(q)
    BY <1>1, <2>1, KeptFields DEF FreshIsOwn
  <2>2. CASE req'[q] = Idle
    BY <1>1, <2>2, IdleFields
  <2>3. ASSUME NEW u \in Users, NEW t \in Threads, PlainMessage(q, u, t) \/ ExitCommand(q, u, t)
        PROVE  FALSE
    BY <1>1, <2>3, ArrivalShape
  <2>4. ASSUME NEW u \in Users, NEW w \in Workflows, SlashCommand(q, u, w)
        PROVE  FALSE
    BY <1>1, <2>4, ArrivalShape
  <2>5. CASE Step(q) /\ req'[q] # Idle /\ ~Load(q)
    BY <1>1, <2>5, OwnStep DEF FreshIsOwn
  <2>6. CASE Load(q) /\ req'[q] # Idle
    BY <2>6 DEF Load, Finish, TypeOK
  <2> QED BY <2>1, <2>2, <2>3, <2>4, <2>5, <2>6, RequestShape
<1>2. ASSUME NEW k \in Keys
      PROVE  ~store'[k].mixed
  <2>1. store[k] \in Sessions /\ ~store[k].mixed
    BY DEF TypeOK, Sessions, NothingCarriedOver
  <2>2. CASE SessionKept(k) \/ SessionAged(k)
    BY <2>1, <2>2, AgedType DEF SessionKept, SessionAged
  <2>3. ASSUME NEW r \in Requests, SessionDropped(k, r)
        PROVE  ~store'[k].mixed
    BY <2>3, SessionTypes DEF SessionDropped
  <2>4. ASSUME NEW r \in Requests, SessionCreated(k, r)
        PROVE  ~store'[k].mixed
    BY <2>4, SessionTypes DEF SessionCreated, TypeOK
  <2>5. ASSUME NEW r \in Requests, SessionAppended(k, r)
        PROVE  ~store'[k].mixed
    BY <2>1, <2>5 DEF SessionAppended, Sessions, FreshIsOwn, TypeOK
  <2> QED BY <2>2, <2>3, <2>4, <2>5, SessionShape
<1> QED BY <1>1, <1>2 DEF FreshIsOwn, NothingCarriedOver

-------------------------------------------------------------------------------
\* Who drops what

\* The requests that stand in the way of time passing.
LEMMA TickWaits ==
    ASSUME Tick, NEW r \in Requests
    PROVE  /\ ~Resolving(r) /\ req[r].pc # "load"
           /\ req[r].pc = "run" /\ req[r].fresh => store[KeyOf(req[r])].idle < TTL
BY DEF Tick, Resolving

\* A slash command in a thread was there before, or has just opened it.
LEMMA SlashBegun ==
    ASSUME Shape, [Next]_vars, NEW q \in Requests, Begun(q)', req'[q].kind = "slash"
    PROVE  /\ req[q].kind = "slash" /\ req'[q].user = req[q].user
           /\ \/ /\ Begun(q) /\ req'[q].thread = req[q].thread
                 /\ Resolving(q)' => Resolving(q)
              \/ Anchor(q) /\ req'[q].thread \in Threads \ opened /\ req'[q].pc = "get"
<1> USE DEF Shape
<1>1. CASE Kept(q)
  BY <1>1, KeptFields DEF Begun, Resolving
<1>2. CASE req'[q] = Idle
  BY <1>2, IdleFields DEF Begun
<1>3. ASSUME NEW u \in Users, NEW t \in Threads, PlainMessage(q, u, t) \/ ExitCommand(q, u, t)
      PROVE  FALSE
  BY <1>3, ArrivalShape
<1>4. ASSUME NEW u \in Users, NEW w \in Workflows, SlashCommand(q, u, w)
      PROVE  FALSE
  BY <1>4, ArrivalShape DEF Begun
<1>5. CASE Step(q) /\ req'[q] # Idle
  <2>1. Anchor(q) => req'[q].thread \in Threads \ opened /\ req[q].pc = "anchor"
    BY <1>5 DEF Anchor, Finish, TypeOK
  <2>2. req'[q].kind = req[q].kind /\ req'[q].user = req[q].user
    BY <1>5, OwnStep
  <2>3. CASE req[q].pc = "anchor"
    BY <1>5, <2>1, <2>2, <2>3, OwnStep
  <2>4. CASE req[q].pc # "anchor"
    <3>1. req'[q].thread = req[q].thread
      BY <1>5, <2>1, <2>4, OwnStep
    <3>2. Begun(q) /\ (Resolving(q)' => Resolving(q))
      BY <1>5, <2>4, OwnStep DEF Begun, Resolving
    <3> QED BY <2>2, <3>1, <3>2
  <2> QED BY <2>3, <2>4
<1> QED BY <1>1, <1>2, <1>3, <1>4, <1>5, RequestShape

\* Two slash commands never share a thread.
LEMMA SlashAloneStep ==
    ASSUME Shape, SlashAlone, [Next]_vars
    PROVE  SlashAlone'
<1> SUFFICES ASSUME NEW q \in Requests, NEW r \in Requests, q # r, Begun(q)', Begun(r)',
                    req'[q].kind = "slash", req'[r].kind = "slash"
             PROVE  req'[q].thread # req'[r].thread
  BY DEF SlashAlone
<1>1. ASSUME NEW x \in Requests, NEW y \in Requests, x # y, Anchor(x)
      PROVE  req'[y] = req[y]
  BY <1>1 DEF Anchor, Finish, Shape, TypeOK
<1>2. Begun(q) => req[q].thread \in opened
  BY DEF Shape, Placed
<1>3. Begun(r) => req[r].thread \in opened
  BY DEF Shape, Placed
<1>4. ~(Anchor(q) /\ Anchor(r))
  BY <1>1 DEF Anchor, Begun
<1> QED BY <1>2, <1>3, <1>4, SlashBegun DEF SlashAlone

\* A slash command's thread holds no workflow session of the user's before its own.
LEMMA SlashFirstStep ==
    ASSUME Inv, [Next]_vars
    PROVE  SlashFirst'
<1> USE DEF Inv, Shape, Rightful, Ordered
<1> SUFFICES ASSUME NEW r \in Requests, Resolving(r)', req'[r].kind = "slash"
             PROVE  /\ store'[KeyOf(req'[r])].active \notin Workflows
                    /\ store'[KeyOf(req'[r])].idle = 0
                    /\ \A q \in Requests :
                          req'[q].pc = "delete" /\ req'[q].kind = "plain" =>
                             KeyOf(req'[q]) # KeyOf(req'[r])
  BY DEF SlashFirst
<1> DEFINE k == KeyOf(req'[r])
<1>0. TypeOK' /\ Placed' /\ "default" \notin Workflows /\ "default" \in Works
  BY ShapeStep, SessionsAssumption DEF Works
<1>1. Begun(r)'
  BY DEF Resolving, Begun
<1>2. k \in Keys /\ k = <<req'[r].user, req'[r].thread>>
  BY <1>0, <1>1 DEF TypeOK, Placed, Begun, KeyOf, SessionKey, Keys
<1>3. CASE Anchor(r) /\ req'[r].thread \in Threads \ opened /\ req'[r].pc = "get"
  <2>1. store[k] = NoSession /\ store' = store
    BY <1>2, <1>3 DEF Stored, Anchor
  <2>2. ASSUME NEW q \in Requests, req'[q].pc = "delete"
        PROVE  KeyOf(req'[q]) # k
    <3>1. req'[q] = req[q]
      BY <1>3, <2>2 DEF Anchor, Finish, TypeOK
    <3>2. Begun(q) /\ req[q].thread \in opened
      BY <2>2, <3>1 DEF Begun, Placed
    <3> QED BY <1>2, <1>3, <3>1, <3>2 DEF KeyOf, SessionKey
  <2> QED BY <1>0, <2>1, <2>2, SessionTypes
<1>4. CASE /\ Resolving(r) /\ Begun(r) /\ req'[r].thread = req[r].thread
           /\ req[r].kind = "slash" /\ req'[r].user = req[r].user
  <2>1. KeyOf(req[r]) = k
    BY <1>4 DEF KeyOf, SessionKey
  <2>2. /\ store[k].active \notin Workflows /\ store[k].idle = 0
        /\ \A q \in Requests :
              req[q].pc = "delete" /\ req[q].kind = "plain" => KeyOf(req[q]) # k
    BY <1>4, <2>1 DEF SlashFirst
  <2>3. store'[k].active \notin Workflows /\ store'[k].idle = 0
    <3>1. CASE SessionKept(k)
      BY <2>2, <3>1 DEF SessionKept
    <3>2. CASE SessionAged(k)
      BY <1>4, <3>2, TickWaits DEF SessionAged
    <3>3. ASSUME NEW x \in Requests, SessionDropped(k, x)
          PROVE  store'[k].active \notin Workflows /\ store'[k].idle = 0
      BY <1>0, <3>3, SessionTypes DEF SessionDropped
    <3>4. ASSUME NEW x \in Requests, SessionCreated(k, x)
          PROVE  store'[k].active \notin Workflows /\ store'[k].idle = 0
      <4>1. Begun(x) /\ Resolving(x) /\ KeyOf(req[x]) = k /\ req[x].pc = "create"
        BY <3>4 DEF SessionCreated, Create, Begun, Resolving
      <4>2. x # r
        <5>1. Create(r) => req'[r] = Idle \/ req'[r].pc = "load"
          BY DEF Create, Finish, TypeOK
        <5> QED BY <3>4, <5>1, IdleFields DEF SessionCreated, Resolving
      <4>3. req[x].kind # "slash"
        BY <1>4, <2>1, <4>1, <4>2 DEF SlashAlone, KeyOf, SessionKey
      <4>4. req[x].work = "default"
        BY <4>1, <4>3 DEF PlainStartsDefault
      <4> QED BY <1>0, <3>4, <4>4, SessionTypes DEF SessionCreated
    <3>5. ASSUME NEW x \in Requests, SessionAppended(k, x)
          PROVE  store'[k].active \notin Workflows /\ store'[k].idle = 0
      BY <1>2, <2>2, <3>5 DEF SessionAppended, TypeOK
    <3> QED BY <1>2, <3>1, <3>2, <3>3, <3>4, <3>5, SessionShape
  <2>4. ASSUME NEW q \in Requests, req'[q].pc = "delete", req'[q].kind = "plain"
        PROVE  KeyOf(req'[q]) # k
    <3>1. CASE Kept(q)
      BY <2>2, <2>4, <3>1, KeptFields
    <3>2. CASE Step(q) /\ req'[q] # Idle
      <4>1. Get(q) /\ req[q].kind = "plain" /\ KeyOf(req'[q]) = KeyOf(req[q])
        BY <2>4, <3>2, OwnStep DEF Anchor, Get, KeyOf, SessionKey
      <4>2. store[KeyOf(req[q])].idle > TTL
        BY <2>4, <4>1 DEF Get, IsExpired, Finish, Idle, TypeOK
      <4>3. ~(0 > TTL)
        BY SessionsAssumption
      <4> QED BY <2>2, <4>1, <4>2, <4>3
    <3> QED BY <2>4, <3>1, <3>2, RequestShape, ArrivalShape, IdleFields
  <2> QED BY <2>3, <2>4
<1> QED BY <1>1, <1>3, <1>4, SlashBegun

\* What is about to append has a session that has not expired.
LEMMA RunsAreLiveStep ==
    ASSUME Inv, [Next]_vars
    PROVE  RunsAreLive'
<1> USE DEF Inv, Shape, Rightful, Ordered
<1>0. TTL \in Nat /\ 0 <= TTL /\ "default" \in Works
  BY SessionsAssumption DEF Works
<1>1. ASSUME NEW k \in Keys, store[k].idle <= TTL, ~Tick
      PROVE  store'[k].idle <= TTL
  <2>1. ASSUME NEW x \in Requests, SessionDropped(k, x)
        PROVE  store'[k].idle = 0
    BY <2>1, SessionTypes DEF SessionDropped
  <2>2. ASSUME NEW x \in Requests, SessionCreated(k, x)
        PROVE  store'[k].idle = 0
    BY <2>2, SessionTypes DEF SessionCreated, TypeOK
  <2>3. ASSUME NEW x \in Requests, SessionAppended(k, x)
        PROVE  store'[k].idle = 0
    BY <2>3 DEF SessionAppended, TypeOK
  <2> QED BY <1>0, <1>1, <2>1, <2>2, <2>3, SessionShape DEF SessionKept, SessionAged
<1>2. ASSUME NEW r \in Requests, req'[r].pc = "load"
      PROVE  store'[KeyOf(req'[r])].idle <= TTL
  <2>1. CASE Kept(r)
    <3>1. req[r].pc = "load" /\ KeyOf(req'[r]) = KeyOf(req[r])
      BY <1>2, <2>1, KeptFields
    <3>2. KeyOf(req[r]) \in Keys
      BY <3>1, BegunKey DEF Begun
    <3>3. ~Tick
      BY <3>1, TickWaits
    <3> QED BY <1>1, <3>1, <3>2, <3>3 DEF RunsAreLive
  <2>2. CASE Step(r) /\ req'[r] # Idle
    <3>1. Get(r) \/ Create(r)
      BY <1>2, <2>2, OwnStep
    <3>2. Begun(r) /\ KeyOf(req'[r]) = KeyOf(req[r])
      BY <2>2, <3>1, OwnStep DEF Get, Create, Anchor, Begun, KeyOf, SessionKey
    <3>3. KeyOf(req[r]) \in Keys
      BY <3>2, BegunKey
    <3>4. CASE Get(r)
      <4>1. store[KeyOf(req[r])].idle \in Int
        BY <3>3 DEF TypeOK
      <4>2. ~(store[KeyOf(req[r])].idle > TTL) /\ store' = store
        BY <1>2, <3>4 DEF Get, IsExpired, Finish, Idle, TypeOK
      <4> QED BY <1>0, <3>2, <4>1, <4>2
    <3>5. CASE Create(r)
      <4>1. store'[KeyOf(req[r])] = NewSession(req[r].work)
        BY <1>2, <3>3, <3>5 DEF Create, Finish, Idle, TypeOK
      <4> QED BY <1>0, <3>2, <4>1, SessionTypes DEF TypeOK
    <3> QED BY <3>1, <3>4, <3>5
  <2> QED BY <1>2, <2>1, <2>2, RequestShape, ArrivalShape, IdleFields
<1>3. ASSUME NEW r \in Requests, req'[r].fresh
      PROVE  /\ req'[r].pc = "run"
             /\ store'[KeyOf(req'[r])].up /\ store'[KeyOf(req'[r])].idle <= TTL
  <2>1. CASE Load(r)
    <3>1. Begun(r) /\ KeyOf(req[r]) \in Keys /\ req[r].pc = "load"
      BY <2>1, BegunKey DEF Load, Begun
    <3>2. /\ req'[r].pc = "run" /\ KeyOf(req'[r]) = KeyOf(req[r])
          /\ store[KeyOf(req[r])].up /\ store' = store
      BY <1>3, <2>1 DEF Load, Finish, Idle, TypeOK, KeyOf, SessionKey
    <3> QED BY <3>1, <3>2 DEF RunsAreLive
  <2>2. CASE ~Load(r)
    <3>1. req[r].fresh /\ req'[r].pc = "run" /\ KeyOf(req'[r]) = KeyOf(req[r])
      <4>1. CASE Kept(r)
        BY <1>3, <4>1, KeptFields DEF RunsAreLive
      <4>2. CASE Step(r) /\ req'[r] # Idle
        <5>1. req[r].fresh
          BY <1>3, <2>2, <4>2, OwnStep
        <5> QED BY <2>2, <4>2, <5>1, OwnStep DEF RunsAreLive, Anchor, KeyOf, SessionKey
      <4> QED BY <1>3, <4>1, <4>2, RequestShape, ArrivalShape, IdleFields
    <3> DEFINE k == KeyOf(req[r])
    <3>2. /\ req[r].pc = "run" /\ store[k].up /\ store[k].idle <= TTL /\ k \in Keys
          /\ store[k] \in Sessions
      <4>1. req[r].pc = "run" /\ store[k].up /\ store[k].idle <= TTL
        BY <3>1 DEF RunsAreLive
      <4>2. k \in Keys
        BY <4>1, BegunKey DEF Begun
      <4> QED BY <4>1, <4>2 DEF TypeOK, Sessions
    <3>3. store'[k].idle <= TTL
      <4>1. CASE Tick
        BY <3>1, <3>2, <4>1, TickWaits, AgedType DEF Tick
      <4> QED BY <1>1, <3>2, <4>1
    <3>4. store'[k].up
      <4>1. CASE SessionKept(k) \/ SessionAged(k)
        BY <3>2, <4>1, AgedType DEF SessionKept, SessionAged
      <4>2. ASSUME NEW x \in Requests, SessionDropped(k, x)
            PROVE  FALSE
        BY <1>3, <4>2 DEF SessionDropped
      <4>3. ASSUME NEW x \in Requests, SessionCreated(k, x)
            PROVE  FALSE
        BY <3>2, <4>3 DEF SessionCreated
      <4>4. ASSUME NEW x \in Requests, SessionAppended(k, x)
            PROVE  store'[k].up
        BY <3>2, <4>4 DEF SessionAppended, Sessions
      <4> QED BY <3>2, <4>1, <4>2, <4>3, <4>4, SessionShape
    <3> QED BY <3>1, <3>3, <3>4
  <2> QED BY <2>1, <2>2
<1> QED BY <1>2, <1>3 DEF RunsAreLive

\* What a plain message is about to drop stays expired, or without a workflow.
LEMMA PlainDropsExpiredStep ==
    ASSUME Inv, [Next]_vars
    PROVE  PlainDropsExpired'
<1> USE DEF Inv, Shape, Rightful, Ordered
<1> SUFFICES ASSUME NEW r \in Requests, req'[r].pc = "delete", req'[r].kind = "plain"
             PROVE  \/ store'[KeyOf(req'[r])].idle > TTL
                    \/ store'[KeyOf(req'[r])].active \notin Workflows
  BY DEF PlainDropsExpired
<1>0. "default" \notin Workflows /\ TTL \in Nat
  BY SessionsAssumption
<1>1. CASE Kept(r)
  <2> DEFINE k == KeyOf(req[r])
  <2>1. req[r].pc = "delete" /\ req[r].kind = "plain" /\ KeyOf(req'[r]) = k
    BY <1>1, KeptFields
  <2>2. k \in Keys /\ store[k] \in Sessions
    BY <2>1, BegunKey DEF Begun, TypeOK, Sessions
  <2>3. store[k].idle > TTL \/ store[k].active \notin Workflows
    BY <2>1 DEF PlainDropsExpired
  <2>4. ~Tick
    BY <2>1, TickWaits DEF Resolving
  <2>5. CASE SessionKept(k)
    BY <2>1, <2>3, <2>5 DEF SessionKept
  <2>6. ASSUME NEW x \in Requests, SessionDropped(k, x)
        PROVE  store'[k].active \notin Workflows
    BY <1>0, <2>6, SessionTypes DEF SessionDropped
  <2>7. ASSUME NEW x \in Requests, SessionCreated(k, x)
        PROVE  store'[k].active \notin Workflows
    <3>1. Resolving(x) /\ KeyOf(req[x]) = k
      BY <2>7 DEF SessionCreated, Create, Resolving
    <3>2. req[x].kind # "slash"
      BY <2>1, <3>1 DEF SlashFirst
    <3>3. req[x].work = "default" /\ "default" \in Works
      BY <3>1, <3>2 DEF PlainStartsDefault, Works
    <3> QED BY <1>0, <2>7, <3>3, SessionTypes DEF SessionCreated
  <2>8. ASSUME NEW x \in Requests, SessionAppended(k, x)
        PROVE  store'[k].active \notin Workflows
    <3>1. store[k].idle <= TTL /\ store[k].idle \in Int
      BY <2>2, <2>8 DEF SessionAppended, RunsAreLive, Sessions
    <3>2. store[k].active \notin Workflows
      BY <1>0, <2>3, <3>1
    <3> QED BY <2>2, <2>8, <3>2 DEF SessionAppended, Sessions
  <2> QED BY <2>1, <2>2, <2>4, <2>5, <2>6, <2>7, <2>8, SessionShape DEF SessionAged
<1>2. CASE Step(r) /\ req'[r] # Idle
  <2>1. Get(r) /\ req[r].kind = "plain" /\ KeyOf(req'[r]) = KeyOf(req[r])
    BY <1>2, OwnStep DEF Anchor, Get, KeyOf, SessionKey
  <2>2. store[KeyOf(req[r])].idle > TTL /\ store' = store
    BY <2>1 DEF Get, IsExpired, Finish, Idle, TypeOK
  <2> QED BY <2>1, <2>2
<1> QED BY <1>1, <1>2, RequestShape, ArrivalShape, IdleFields

-------------------------------------------------------------------------------
\* The theorems

\* The first state.
LEMMA InitInv == Init => Inv
<1> SUFFICES ASSUME Init PROVE Inv
  OBVIOUS
<1> USE DEF Init
<1>1. "default" \in Works /\ "default" \notin Workflows /\ TTL \in Nat
  BY SessionsAssumption DEF Works
<1>2. \A r \in Requests : req[r] = Idle
  OBVIOUS
<1>3. \A k \in Keys : store[k] = NoSession
  OBVIOUS
<1>4. Idle \in Jobs
  BY <1>1 DEF Idle, Jobs
<1>5. TypeOK
  BY <1>4, SessionTypes DEF TypeOK, Jobs, Sessions
<1>6. Placed /\ Stored
  BY <1>2, <1>3, IdleFields, SessionTypes DEF Placed, Stored, Begun
<1> HIDE DEF Init
<1>7. Rightful
  BY <1>1, <1>2, <1>3, IdleFields, SessionTypes
  DEF Rightful, PlainStartsDefault, RunsAuthorized, StoreAuthorized, Resolving
<1>8. Unmixed
  BY <1>2, <1>3, IdleFields, SessionTypes DEF Unmixed, FreshIsOwn, NothingCarriedOver
<1>9. Ordered
  BY <1>2, IdleFields
  DEF Ordered, SlashAlone, SlashFirst, RunsAreLive, PlainDropsExpired, Begun, Resolving
<1> QED BY <1>5, <1>6, <1>7, <1>8, <1>9 DEF Inv, Shape

\* A step keeps the invariant.
LEMMA InvStep == Inv /\ [Next]_vars => Inv'
<1> SUFFICES ASSUME Inv, [Next]_vars PROVE Inv'
  OBVIOUS
<1>1. Shape' /\ Rightful' /\ Unmixed'
  BY ShapeStep, RightfulStep, UnmixedStep DEF Inv
<1>2. Ordered'
  BY SlashAloneStep, SlashFirstStep, RunsAreLiveStep, PlainDropsExpiredStep DEF Inv, Ordered
<1> QED BY <1>1, <1>2 DEF Inv

\* A session with a workflow is dropped by its user's /exit or once it has expired.
LEMMA KeptUnlessExit ==
    ASSUME Inv, [Next]_vars, NEW k \in Keys,
           store[k].up, store[k].active \in Workflows, ~store'[k].up
    PROVE  \/ store[k].idle > TTL
           \/ \E r \in Requests : /\ req[r].pc = "delete" /\ req[r].kind = "exit"
                                  /\ req[r].user = k[1] /\ req[r].thread = k[2]
<1> USE DEF Inv, Shape, Ordered
<1>1. store[k] \in Sessions
  BY DEF TypeOK, Sessions
<1>2. CASE SessionKept(k) \/ SessionAged(k)
  BY <1>1, <1>2, AgedType DEF SessionKept, SessionAged
<1>3. ASSUME NEW r \in Requests, SessionDropped(k, r)
      PROVE  \/ store[k].idle > TTL
             \/ req[r].pc = "delete" /\ req[r].kind = "exit"
                /\ req[r].user = k[1] /\ req[r].thread = k[2]
  <2>1. Begun(r) /\ Resolving(r) /\ req[r].pc = "delete" /\ KeyOf(req[r]) = k
    BY <1>3 DEF SessionDropped, Delete, Begun, Resolving
  <2>2. k = <<req[r].user, req[r].thread>> /\ req[r].kind # "none"
    BY <2>1, BegunKey DEF Placed
  <2>3. req[r].kind # "slash"
    BY <2>1 DEF SlashFirst
  <2>4. req[r].kind \in {"plain", "exit"}
    BY <2>2, <2>3 DEF TypeOK
  <2> QED BY <2>1, <2>2, <2>4 DEF PlainDropsExpired
<1>4. ASSUME NEW r \in Requests, SessionCreated(k, r)
      PROVE  FALSE
  BY <1>4 DEF SessionCreated
<1>5. ASSUME NEW r \in Requests, SessionAppended(k, r)
      PROVE  FALSE
  BY <1>1, <1>5 DEF SessionAppended, Sessions
<1> QED BY <1>2, <1>3, <1>4, <1>5, SessionShape

\* The inductive invariant of the session store and the requests at it.
THEOREM Invariance == Spec => []Inv
BY InitInv, InvStep, PTL DEF Spec

\* Type correctness, for every number of users, threads and requests.
THEOREM TypeCorrect == Spec => []TypeOK
BY Invariance, PTL DEF Inv, Shape

\* A workflow is run only for a user authorize() let start it, however requests,
\* expiries, /exits and crashes overlap.
THEOREM RunsAreAuthorized == Spec => []RunsAuthorized
BY Invariance, PTL DEF Inv, Rightful

\* No session ever gets an event of a run that loaded an earlier one.
THEOREM NothingIsCarriedOver == Spec => []NothingCarriedOver
BY Invariance, PTL DEF Inv, Unmixed

\* A user's workflow session is dropped by nothing but their /exit in that thread and
\* its expiry.
THEOREM WorkflowIsKept == Spec => WorkflowKept
<1>1. Inv /\ [Next]_vars =>
        [\A k \in Keys :
          store[k].up /\ store[k].active \in Workflows /\ ~store'[k].up =>
              \/ store[k].idle > TTL
              \/ \E r \in Requests : /\ req[r].pc = "delete" /\ req[r].kind = "exit"
                                     /\ req[r].user = k[1] /\ req[r].thread = k[2]]_vars
  BY KeptUnlessExit
<1> QED BY <1>1, Invariance, PTL DEF Spec, WorkflowKept
===============================================================================
