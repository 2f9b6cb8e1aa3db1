----------------------------- MODULE ChatSessions -----------------------------
(***************************************************************************)
(* chat/dispatch.py, chat/reserved.py and sessions.py together: who may    *)
(* start which workflow, and which session a message, an /exit or a slash  *)
(* command finds, drops and creates.  resolve() and clear() read, delete   *)
(* and create in transactions of their own, so requests interleave between *)
(* them, and with the runs they schedule.  What a run does to its session  *)
(* is the business of RfiEngine, MeetingEngine and IqEngine; here it loads *)
(* the session and appends events to it.                                   *)
(***************************************************************************)
EXTENDS Integers, FiniteSets

CONSTANTS
    Users, Admins,    \* everyone, and the bootstrap admins
    Workflows,        \* the registered ones that may be started
    Threads,
    Requests,         \* requests, with the runs they schedule, under way at once
    TTL,              \* session_ttl_seconds, in the steps the time is counted in
    Faults            \* what may go wrong: "db", "post", "crash"

ASSUME SessionsAssumption ==
    /\ Admins \subseteq Users
    /\ "default" \notin Workflows
    /\ TTL \in Nat \ {0}
    /\ Faults \subseteq {"db", "post", "crash"}

VARIABLES
    allowed,    \* <<u, w>>: whom the access rules allow what
    opened,     \* the threads there are
    store,      \* store[u, t]: the session of user u in thread t
    req,        \* the requests and their runs
    cleared     \* history: <<u, w>> once authorize() let u start w

vars == <<allowed, opened, store, req, cleared>>

Rights == Users \X Workflows
Keys == Users \X Threads

\* active_workflow_id, the idle time, and whether it holds an event that was meant
\* for an earlier session of the thread.
NoSession == [up |-> FALSE, active |-> "default", idle |-> 0, mixed |-> FALSE]

NewSession(workflow) == [NoSession EXCEPT !.up = TRUE, !.active = workflow]

\* work: the workflow to run; fresh: the loaded copy is the stored session; own:
\* the session it loaded has not been dropped.
Idle == [pc |-> "idle", kind |-> "none", user |-> "none", thread |-> "none",
         work |-> "default", fresh |-> FALSE, own |-> FALSE]

Request(kind, u, t) == [Idle EXCEPT !.pc = "get", !.kind = kind, !.user = u, !.thread = t]

\* A slip: a thread has one session, whoever writes in it.
ThreadKey(u, t) == <<CHOOSE v \in Users : TRUE, t>>

\* Sessions are looked up by the user and a hash of the thread.
SessionKey(u, t) == <<u, t>>

KeyOf(job) == SessionKey(job.user, job.thread)

\* A slip: idle as long as the TTL is idle longer than it.
IsExpiredEarly(session) == session.idle >= TTL

IsExpired(session) == session.idle > TTL

Init ==
    /\ allowed \in SUBSET Rights
    /\ opened = {}
    /\ store = [k \in Keys |-> NoSession]
    /\ req = [r \in Requests |-> Idle]
    /\ cleared = {}

-------------------------------------------------------------------------------
\* The person writes

\* A message opens a thread of its own, or continues one.
PlainMessage(r, u, t) ==
    /\ req[r] = Idle
    /\ req' = [req EXCEPT ![r] = Request("plain", u, t)]
    /\ opened' = opened \cup {t}
    /\ UNCHANGED <<allowed, store, cleared>>

ExitCommand(r, u, t) ==
    /\ req[r] = Idle /\ t \in opened
    /\ req' = [req EXCEPT ![r] = Request("exit", u, t)]
    /\ UNCHANGED <<allowed, opened, store, cleared>>

Authorized(u, w) == <<u, w>> \in allowed

\* A slash command is authorized and scheduled; otherwise the denial is all.
SlashCommand(r, u, w) ==
    /\ req[r] = Idle /\ Authorized(u, w)
    /\ req' = [req EXCEPT ![r] = [Idle EXCEPT !.pc = "anchor", !.kind = "slash",
                                              !.user = u, !.work = w]]
    /\ cleared' = cleared \cup (allowed \cap {<<u, w>>})
    /\ UNCHANGED <<allowed, opened, store>>

\* /grant and /revoke of a rule for one user, by a bootstrap admin.
AdminCommand(u, v, w) ==
    /\ u \in Admins
    /\ allowed' \in {allowed \cup {<<v, w>>}, allowed \ {<<v, w>>}}
    /\ UNCHANGED <<opened, store, req, cleared>>

-------------------------------------------------------------------------------
\* resolve() and clear()

\* The request ends, with an answer or an error message.
Finish(r) == req' = [req EXCEPT ![r] = Idle]

\* The anchor message opens a new thread, which everyone sees from then on; if it
\* cannot be posted the command is given up.
Anchor(r) ==
    /\ req[r].pc = "anchor"
    /\ \/ \E t \in Threads \ opened :
             /\ req' = [req EXCEPT ![r].pc = "get", ![r].thread = t]
             /\ opened' = opened \cup {t}
       \/ "post" \in Faults /\ Finish(r) /\ UNCHANGED opened
    /\ UNCHANGED <<allowed, store, cleared>>

\* What the session found leads to: a plain message continues one that has not
\* expired, an /exit without one is over, and everyone else drops what there is
\* first.
Get(r) ==
    /\ req[r].pc = "get"
    /\ LET found == store[KeyOf(req[r])]
           continues == req[r].kind = "plain" /\ found.up /\ ~IsExpired(found)
       IN \/ /\ continues
             /\ req' = [req EXCEPT ![r].pc = "load", ![r].work = found.active]
          \/ /\ ~continues /\ found.up
             /\ req' = [req EXCEPT ![r].pc = "delete"]
          \/ /\ ~found.up /\ req[r].kind # "exit"
             /\ req' = [req EXCEPT ![r].pc = "create"]
          \/ /\ ~found.up /\ req[r].kind = "exit"
             /\ Finish(r)
          \/ /\ "db" \in Faults
             /\ Finish(r)
    /\ UNCHANGED <<allowed, opened, store, cleared>>

\* The runs in a session that is dropped keep a copy of it.
Dropped(k) ==
    [x \in Requests |-> IF KeyOf(req[x]) = k
                        THEN [req[x] EXCEPT !.fresh = FALSE, !.own = FALSE] ELSE req[x]]

Delete(r) ==
    /\ req[r].pc = "delete"
    /\ \/ /\ store' = [store EXCEPT ![KeyOf(req[r])] = NoSession]
          /\ req' = [Dropped(KeyOf(req[r])) EXCEPT
                       ![r] = IF req[r].kind = "exit" THEN Idle ELSE [@ EXCEPT !.pc = "create"]]
       \/ "db" \in Faults /\ Finish(r) /\ UNCHANGED store
    /\ UNCHANGED <<allowed, opened, cleared>>

\* A session is created for the workflow to be run, unless there is one by now.
Create(r) ==
    /\ req[r].pc = "create"
    /\ LET k == KeyOf(req[r]) IN
       \/ /\ ~store[k].up
          /\ store' = [store EXCEPT ![k] = NewSession(req[r].work)]
          /\ req' = [req EXCEPT ![r].pc = "load"]
       \/ /\ store[k].up \/ "db" \in Faults
          /\ Finish(r) /\ UNCHANGED store
    /\ UNCHANGED <<allowed, opened, cleared>>

-------------------------------------------------------------------------------
\* _run_agent

\* The run loads whatever session the thread has by then; it fails without one.
Load(r) ==
    /\ req[r].pc = "load"
    /\ \/ /\ store[KeyOf(req[r])].up
          /\ req' = [req EXCEPT ![r].pc = "run", ![r].fresh = TRUE, ![r].own = TRUE]
       \/ /\ ~store[KeyOf(req[r])].up \/ "db" \in Faults
          /\ Finish(r)
    /\ UNCHANGED <<allowed, opened, store, cleared>>

\* A slip: whoever appends last wins.
CanAlwaysAppend(job) == store[KeyOf(job)].up

\* A copy that the stored session has outrun is refused.
CanAppend(job) == store[KeyOf(job)].up /\ job.fresh

\* An event of the run is appended, which makes every other copy stale; refused,
\* the run is over.
AppendEvent(r) ==
    /\ req[r].pc = "run"
    /\ LET k == KeyOf(req[r]) IN
       \/ /\ CanAppend(req[r])
          /\ store' = [store EXCEPT ![k].idle = 0, ![k].mixed = @ \/ ~req[r].own]
          /\ req' = [x \in Requests |-> IF x # r /\ KeyOf(req[x]) = k
                                        THEN [req[x] EXCEPT !.fresh = FALSE] ELSE req[x]]
       \/ /\ ~CanAppend(req[r]) \/ "db" \in Faults
          /\ Finish(r) /\ UNCHANGED store
    /\ UNCHANGED <<allowed, opened, cleared>>

\* The run has no more events, and its reply is posted.
EndRun(r) ==
    /\ req[r].pc = "run"
    /\ Finish(r)
    /\ UNCHANGED <<allowed, opened, store, cleared>>

-------------------------------------------------------------------------------
\* A slip: idle times are not cut off.
AgedOn(session) == [session EXCEPT !.idle = @ + 1]

\* Beyond the TTL all idle times are the same.
Aged(session) == [session EXCEPT !.idle = IF @ > TTL THEN @ ELSE @ + 1]

\* Time passes in steps that are long for a request, which takes seconds, and short
\* for the TTL: no run is without an event for as long as that.
Tick ==
    /\ \A r \in Requests :
          \/ req[r].pc \in {"idle", "anchor"}
          \/ req[r].pc = "run" /\ (req[r].fresh => store[KeyOf(req[r])].idle < TTL)
    /\ store' = [k \in Keys |-> IF store[k].up THEN Aged(store[k]) ELSE store[k]]
    /\ UNCHANGED <<allowed, opened, req, cleared>>

\* The instance dies: requests and runs are in memory only.
Crash ==
    /\ "crash" \in Faults
    /\ req' = [r \in Requests |-> Idle]
    /\ UNCHANGED <<allowed, opened, store, cleared>>

Step(r) ==
    \/ Anchor(r) \/ Get(r) \/ Delete(r) \/ Create(r) \/ Load(r) \/ AppendEvent(r) \/ EndRun(r)

Next ==
    \/ \E r \in Requests :
          \/ \E u \in Users :
                \/ \E t \in Threads : PlainMessage(r, u, t) \/ ExitCommand(r, u, t)
                \/ \E w \in Workflows : SlashCommand(r, u, w)
          \/ Step(r)
    \/ \E u, v \in Users, w \in Workflows : AdminCommand(u, v, w)
    \/ Tick
    \/ Crash

Spec == Init /\ [][Next]_vars

-------------------------------------------------------------------------------
\* Properties

Works == Workflows \cup {"default"}

\* Type correctness of the rules, the sessions and the requests.
TypeOK ==
    /\ allowed \subseteq Rights /\ cleared \subseteq Rights
    /\ opened \subseteq Threads
    /\ store \in [Keys -> [up: BOOLEAN, active: Works, idle: 0 .. (TTL + 1), mixed: BOOLEAN]]
    /\ req \in [Requests ->
          [pc: {"idle", "anchor", "get", "delete", "create", "load", "run"},
           kind: {"none", "plain", "exit", "slash"}, user: Users \cup {"none"},
           thread: Threads \cup {"none"}, work: Works, fresh: BOOLEAN, own: BOOLEAN]]

\* A workflow is run for a user, by a message that continues a thread as well, only
\* if authorize() let that user start it at some time: nobody continues in a
\* workflow that someone else was let start.
RunsAuthorized ==
    \A r \in Requests :
        req[r].work \in Workflows => <<req[r].user, req[r].work>> \in cleared

\* "Plain follow-ups stay inside the active workflow until they expire or the user
\* types /exit": a user's workflow session is dropped by nothing else, whatever
\* requests of theirs and of others overlap.
WorkflowKept ==
    [][\A k \in Keys :
          store[k].up /\ store[k].active \in Workflows /\ ~store'[k].up =>
              \/ store[k].idle > TTL
              \/ \E r \in Requests : /\ req[r].pc = "delete" /\ req[r].kind = "exit"
                                     /\ req[r].user = k[1] /\ req[r].thread = k[2]]_vars

\* "Conversation cleared. I'll start fresh next time": a session never gets an
\* event of a run that loaded an earlier one of the thread.
NothingCarriedOver == \A k \in Keys : ~store[k].mixed
===============================================================================
