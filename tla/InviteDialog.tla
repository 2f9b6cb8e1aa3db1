----------------------------- MODULE InviteDialog ------------------------------
(***************************************************************************)
(* The invite dialog of a completed /meeting thread: its submissions run   *)
(* in the background (chat/cards/meeting.py, _apply_invites) and patch the *)
(* reminders by update_calendar_event_attendees calls to the context       *)
(* server, which reads an event, merges the attendees and writes it back.  *)
(***************************************************************************)
EXTENDS Integers, FiniteSets

CONSTANTS
    Items,        \* the action items of the meeting, by number
    Recorded,     \* those with an id in MTG_CALENDAR_EVENT_IDS
    People,       \* addresses that may be invited
    Org,          \* those picked from the directory, to be resolved first
    Picks,        \* what may be chosen in the dialog: people for each item
    Requests,     \* submissions of the dialog
    Calls,        \* update calls the server may be working on at once
    Attempts,     \* _MCP_MAX_ATTEMPTS
    Faults        \* what may go wrong: "exit", "org", "lost", "api"

ASSUME DialogAssumption ==
    /\ Items \subseteq Nat /\ Recorded \subseteq Items /\ Org \subseteq People
    /\ Picks \subseteq [Items -> SUBSET People]
    /\ Attempts \in Nat \ {0}
    /\ Faults \subseteq {"exit", "org", "lost", "api"}

VARIABLES
    open,       \* the thread's session is stored
    event,      \* event[i]: the attendees of item i's reminder
    request,    \* how far the work on each submission is
    call,       \* update calls on the context server
    chosen,     \* history: the invitations submitted, as <<item, person>>
    refused,    \* history: those an update the calendar refused was to add
    invited,    \* history: those the thread was told of
    clash,      \* history: items where updates that add different people have met,
                \* until none is at work there
    overrun     \* history: those taken off a reminder by an update in a clash

vars == <<open, event, request, call, chosen, refused, invited, clash, overrun>>

\* sel: the people chosen per item; left: the items still to do; emails: those to
\* add to the event of the next one; done: what will be reported.
NoneChosen == [i \in Items |-> {}]
IdleRequest == [pc |-> "idle", sel |-> NoneChosen, left |-> {}, emails |-> {}, tries |-> 0,
                done |-> {}]

EndedRequest == [IdleRequest EXCEPT !.pc = "done"]

\* waiting: the request that still waits for the answer, if any; item 0: no call.
IdleCall == [pc |-> "idle", waiting |-> {}, item |-> 0, add |-> {}, seen |-> {}]

Init ==
    /\ open = TRUE
    /\ event = [i \in Items |-> {}]
    /\ request = [r \in Requests |-> IdleRequest]
    /\ call = [c \in Calls |-> IdleCall]
    /\ chosen = {} /\ refused = {} /\ invited = {} /\ clash = {} /\ overrun = {}

-------------------------------------------------------------------------------
\* The dialog and its background task

\* The dialog is opened on the recorded events; a submission that chooses nobody
\* is answered at once, any other is scheduled.
SubmitInvites(r, sel) ==
    /\ open /\ request[r] = IdleRequest
    /\ \A i \in Items \ Recorded : sel[i] = {}
    /\ sel # NoneChosen
    /\ request' = [request EXCEPT ![r] = [IdleRequest EXCEPT !.pc = "load", !.sel = sel]]
    /\ chosen' = chosen \cup {pair \in Items \X People : pair[2] \in sel[pair[1]]}
    /\ UNCHANGED <<open, event, call, refused, invited, clash, overrun>>

\* The thread is left by /exit, or idle past its TTL.
Leave ==
    /\ "exit" \in Faults /\ open
    /\ open' = FALSE
    /\ UNCHANGED <<event, request, call, chosen, refused, invited, clash, overrun>>

\* Without a session the thread is told so; else the chosen items with an id are next.
Load(r) ==
    /\ request[r].pc = "load"
    /\ LET picked == {i \in Recorded : request[r].sel[i] # {}} IN
       request' = [request EXCEPT ![r] =
          IF open THEN [request[r] EXCEPT !.pc = "item", !.left = picked] ELSE EndedRequest]
    /\ UNCHANGED <<open, event, call, chosen, refused, invited, clash, overrun>>

NextItem(left) == CHOOSE i \in left : \A j \in left : i <= j

\* The request goes on to its next item.
Onward(job) ==
    [job EXCEPT !.pc = "item", !.left = job.left \ {NextItem(job.left)}, !.tries = 0]

\* A slip: the addresses of one item are carried over to the next.
EmailsCarried(job, resolved) == job.emails \cup resolved

\* Every item starts with a set of its own.
Emails(job, resolved) == resolved

\* People picked from the directory are resolved to addresses; those that are not are
\* left out, and the others are invited all the same.
Resolve(r) ==
    /\ request[r].pc = "item" /\ request[r].left # {}
    /\ LET sel == request[r].sel[NextItem(request[r].left)] IN
       \E unknown \in IF "org" \in Faults THEN SUBSET (sel \cap Org) ELSE {{}} :
          LET emails == Emails(request[r], sel \ unknown) IN
          request' = [request EXCEPT ![r] =
             IF emails = {} THEN Onward(request[r])
             ELSE [request[r] EXCEPT !.pc = "call", !.emails = emails]]
    /\ UNCHANGED <<open, event, call, chosen, refused, invited, clash, overrun>>

\* The calls on the event of an item, from their start to their answer.
AtWork(i) == {c \in Calls : call[c].pc # "idle" /\ call[c].item = i}

CallUpdate(r, c) ==
    /\ request[r].pc = "call" /\ call[c] = IdleCall
    /\ LET i == NextItem(request[r].left)
           others == {d \in AtWork(i) : call[d].add # request[r].emails}
       IN  clash' = IF others = {} THEN clash ELSE clash \cup {i}
    /\ call' = [call EXCEPT ![c] = [pc |-> "get", waiting |-> {r}, seen |-> {},
                                    item |-> NextItem(request[r].left), add |-> request[r].emails]]
    /\ request' = [request EXCEPT ![r].pc = "wait"]
    /\ UNCHANGED <<open, event, chosen, refused, invited, overrun>>

GivesUp(failed) == failed = Attempts

\* The answer is lost or late: the transport calls again, and gives up in the end.
\* The server works on.
LoseCall(r) ==
    /\ "lost" \in Faults /\ request[r].pc = "wait"
    /\ call' = [c \in Calls |-> [call[c] EXCEPT !.waiting = call[c].waiting \ {r}]]
    /\ LET failed == request[r].tries + 1 IN
       request' = [request EXCEPT ![r] =
          IF GivesUp(failed) THEN Onward(request[r])
          ELSE [request[r] EXCEPT !.pc = "call", !.tries = failed]]
    /\ UNCHANGED <<open, event, chosen, refused, invited, clash, overrun>>

\* A slip: everyone chosen is reported, resolved to an address or not.
ReportedChosen(job) == {NextItem(job.left)} \X job.sel[NextItem(job.left)]

\* The result's line: "invited", and the addresses of the call.
Reported(job) == {NextItem(job.left)} \X job.emails

\* The results are posted to the thread.
Report(r) ==
    /\ request[r].pc = "item" /\ request[r].left = {}
    /\ invited' = invited \cup request[r].done
    /\ request' = [request EXCEPT ![r] = EndedRequest]
    /\ UNCHANGED <<open, event, call, chosen, refused, clash, overrun>>

-------------------------------------------------------------------------------
\* update_calendar_event_attendees on the context server

Get(c) ==
    /\ call[c].pc = "get"
    /\ call' = [call EXCEPT ![c].pc = "patch", ![c].seen = event[call[c].item]]
    /\ UNCHANGED <<open, event, request, chosen, refused, invited, clash, overrun>>

\* A slip: the addresses to add taken for the whole list.
MergedOver(seen, add) == add

Merged(seen, add) == seen \cup add

Patch(c) ==
    /\ call[c].pc = "patch"
    /\ LET i == call[c].item
           merged == Merged(call[c].seen, call[c].add)
       IN  /\ event' = [event EXCEPT ![i] = merged]
           /\ overrun' = overrun \cup ((clash \cap {i}) \X (event[i] \ merged))
    /\ call' = [call EXCEPT ![c].pc = "answer", ![c].seen = {}]
    /\ UNCHANGED <<open, request, chosen, refused, invited, clash>>

\* The tool returns a text, also when the calendar refused to read or to write: the
\* task does not look at it.
Answer(c) ==
    /\ \/ /\ call[c].pc = "answer"
          /\ UNCHANGED refused
       \/ /\ call[c].pc \in {"get", "patch"} /\ "api" \in Faults
          /\ refused' = refused \cup ({call[c].item} \X call[c].add)
    /\ clash' = IF AtWork(call[c].item) = {c} THEN clash \ {call[c].item} ELSE clash
    /\ call' = [call EXCEPT ![c] = IdleCall]
    /\ request' = [r \in Requests |->
          IF r \in call[c].waiting
          THEN [Onward(request[r]) EXCEPT !.done = request[r].done \cup Reported(request[r])]
          ELSE request[r]]
    /\ UNCHANGED <<open, event, chosen, invited, overrun>>

Serve(c) == Get(c) \/ Patch(c) \/ Answer(c)

Work(r) == Load(r) \/ Resolve(r) \/ (\E c \in Calls : CallUpdate(r, c)) \/ LoseCall(r) \/ Report(r)

Next ==
    \/ \E r \in Requests : Work(r) \/ \E sel \in Picks : SubmitInvites(r, sel)
    \/ \E c \in Calls : Serve(c)
    \/ Leave

Spec == Init /\ [][Next]_vars

-------------------------------------------------------------------------------
\* Properties

\* artifacts.py: "/meeting never adds anyone to an event without the user choosing
\* to", whatever calls are repeated, and whatever they find there.
OnlyTheChosen == \A i \in Items : \A p \in event[i] : <<i, p>> \in chosen

\* update_calendar_event_attendees: "existing attendees are preserved". Two updates that
\* both read an event before either writes it do not keep that.
AttendeesPreserved == [][\A i \in Items : event[i] \subseteq event'[i]]_vars

\* What that comes to, with a read and a write that are two calls: an update takes an
\* attendee off only where updates that add different people have met. Submissions that
\* follow one another never do, nor does the repeat of a lost call beside that call,
\* nor an update that was refused, nor one of another item.
DroppedOnlyInClash == [][\A i \in Items \ clash : event[i] \subseteq event'[i]]_vars

\* "invited" is said only of people who are on the event, whose update the calendar
\* refused (the task takes the refusal for an answer), or who were overrun in a clash.
InvitedUnlessRefused ==
    \A pair \in invited \ (refused \cup overrun) : pair[2] \in event[pair[1]]
================================================================================
