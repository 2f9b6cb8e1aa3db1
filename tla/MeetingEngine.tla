----------------------------- MODULE MeetingEngine -----------------------------
(***************************************************************************)
(* One /meeting thread: the background tasks that run the pipeline over    *)
(* the thread's persisted session, the owner-assignment form and its       *)
(* submit handler (chat/cards/meeting.py), and the reminders the pipeline  *)
(* creates on the person's calendar.  As in RfiEngine, tasks and handlers  *)
(* work on a copy of the session they loaded, and the session service      *)
(* refuses to append to a session that has outrun the copy.                *)
(***************************************************************************)
EXTENDS Integers, FiniteSets, MeetingPipeline

CONSTANTS
    Tasks,        \* background tasks that may be running at once
    Clicks,       \* form submissions that may be handled at once
    Attempts,     \* _MCP_MAX_ATTEMPTS
    MaxEvents,    \* bound on the reminders of one item and due date
    Replies,      \* TRUE: the person may write plain messages in the thread
    Exits,        \* TRUE: the thread may be left, by /exit or idle past its TTL
    Faults        \* what may go wrong: "llm", "db", "call", "post", "crash"

FaultKinds == {"llm", "db", "call", "post", "crash"}

ASSUME EngineAssumption ==
    /\ Items \subseteq Nat
    /\ Attempts \in Nat \ {0} /\ MaxEvents \in Nat \ {0}
    /\ Replies \in BOOLEAN /\ Exits \in BOOLEAN
    /\ Faults \subseteq FaultKinds

VARIABLES
    begun,      \* /meeting was invoked: the anchor message opened the thread
    sess,       \* the stored session of the thread
    task,       \* background tasks
    click,      \* submit handlers between loading the session and appending
    form,       \* the owner form on display, if any
    calendar,   \* calendar[<<i, d>>]: reminders of item i on its found or typed due date
    asked,      \* history: the items a form has shown
    thanked,    \* history: the owners and dates "Processing your assignments" was said of
    told,       \* history: a submission was last answered by "Please try again"
    made        \* history: the items the assembler last made drafts and rows of

vars == <<begun, sess, task, click, form, calendar, asked, thanked, told, made>>
history == <<asked, thanked, told, made>>
outside == <<begun, form, calendar, history>>

Dated == Items \X {"found", "typed"}

NoForm == [up |-> FALSE, shown |-> {}]

Stages == {"start", "message", "parse", "gate", "owner", "fanout", "calendar", "record",
           "notes", "assemble", "say", "ended", "raised", "post", "show", "note", "idle"}

\* left, got, tries: the holds still to create a reminder for, those that have
\* one, and the failed attempts at the next.
IdleTask == [pc |-> "idle", kind |-> "none", work |-> "none", view |-> NoSession,
             fresh |-> FALSE, left |-> {}, got |-> {}, tries |-> 0]

IdleClick == [pc |-> "idle", typed |-> {}, view |-> NoSession, fresh |-> FALSE]

NewTask(kind, work) == [IdleTask EXCEPT !.pc = "start", !.kind = kind, !.work = work]

Init ==
    /\ begun = FALSE
    /\ sess = NoSession
    /\ task = [t \in Tasks |-> IdleTask]
    /\ click = [h \in Clicks |-> IdleClick]
    /\ form = NoForm
    /\ calendar = [d \in Dated |-> 0]
    /\ asked = {} /\ thanked = {} /\ told = FALSE /\ made = NoItems

-------------------------------------------------------------------------------
\* append_event() of the session service

\* Someone else's append makes every copy loaded before it stale.
Stale(copies) == [x \in DOMAIN copies |-> [copies[x] EXCEPT !.fresh = FALSE]]

\* A slip: whoever appends last wins.
CanAlwaysAppend(copy) == sess # NoSession

CanAppend(copy) == sess # NoSession /\ copy.fresh

\* A run that is over keeps only what it was for.
Over(job, how) == [IdleTask EXCEPT !.pc = how, !.kind = job.kind, !.work = job.work]

Raise(t) == task' = [task EXCEPT ![t] = Over(task[t], "raised")]

\* Task t's stage yields its event and the runner appends it; an append that is
\* refused leaves the run with an exception.
Emit(t, next, delta) ==
    \/ /\ CanAppend(task[t])
       /\ sess' = Applied(sess, delta)
       /\ LET job == [task[t] EXCEPT !.pc = next, !.view = Applied(@, delta)] IN
          task' = [Stale(task) EXCEPT ![t] = IF next = "ended" THEN Over(job, next) ELSE job]
       /\ click' = Stale(click)
    \/ /\ ~CanAppend(task[t]) \/ "db" \in Faults
       /\ Raise(t)
       /\ UNCHANGED <<sess, click>>

Goto(t, next) == task' = [task EXCEPT ![t].pc = next]

-------------------------------------------------------------------------------
\* What the person does

\* /meeting: post the anchor, create the session, schedule the run.
SlashMeeting(t) ==
    /\ ~begun /\ task[t] = IdleTask
    /\ begun' = TRUE
    /\ \/ /\ sess' = NewState("meeting")
          /\ task' = [task EXCEPT ![t] = NewTask("slash", "meeting")]
       \/ "db" \in Faults /\ UNCHANGED <<sess, task>>     \* resolve() raised
    /\ UNCHANGED <<click, form, calendar, history>>

\* A plain message continues the thread's session; without one, or past its TTL,
\* it runs the default workflow in a session of its own.
PlainMessage(t) ==
    /\ Replies /\ begun /\ task[t] = IdleTask
    /\ \/ /\ sess # NoSession
          /\ task' = [task EXCEPT ![t] = NewTask("plain", sess.active)]
          /\ UNCHANGED <<sess, click>>
       \/ /\ sess = NoSession \/ Exits
          /\ sess' = NewState("default")
          /\ task' = [Stale(task) EXCEPT ![t] = NewTask("plain", "default")]
          /\ click' = Stale(click)
    /\ UNCHANGED outside

Exit ==
    /\ Exits /\ sess # NoSession
    /\ sess' = NoSession
    /\ task' = Stale(task)
    /\ click' = Stale(click)
    /\ UNCHANGED outside

\* The form's handler loads the session; with nothing to submit to, it says so in
\* the card's place, else it goes on to append what was typed.
Submit(h, typed) ==
    /\ click[h] = IdleClick
    /\ form.up /\ typed \subseteq form.shown \X Fields
    /\ \/ /\ sess.gate = "PENDING" /\ sess.parsed.known
          /\ click' = [click EXCEPT ![h] =
                         [pc |-> "append", typed |-> typed, view |-> sess, fresh |-> TRUE]]
          /\ UNCHANGED <<form, told>>
       \/ /\ sess.gate # "PENDING" \/ ~sess.parsed.known
          /\ form' = NoForm /\ told' = FALSE
          /\ UNCHANGED click
    /\ UNCHANGED <<begun, sess, task, calendar, asked, thanked, made>>

\* A slip, the other forms' way: acknowledge and resume whether it was saved or not.
AcknowledgeAlways(h, t) ==
    /\ click[h] # IdleClick /\ task[t] = IdleTask
    /\ LET resume == NewTask("resume", click[h].view.active) IN
       IF CanAppend(click[h])
       THEN /\ sess' = Applied(sess, Assigned(click[h].view, click[h].typed))
            /\ task' = [Stale(task) EXCEPT ![t] = resume]
            /\ click' = [Stale(click) EXCEPT ![h] = IdleClick]
       ELSE /\ task' = [task EXCEPT ![t] = resume]
            /\ click' = [click EXCEPT ![h] = IdleClick]
            /\ UNCHANGED sess
    /\ thanked' = thanked \cup click[h].typed
    /\ form' = NoForm /\ told' = FALSE
    /\ UNCHANGED <<begun, calendar, asked, made>>

\* Saved: the acknowledgement takes the card's place and the resume is scheduled.
Acknowledge(h, t) ==
    /\ click[h] # IdleClick /\ task[t] = IdleTask
    /\ CanAppend(click[h])
    /\ sess' = Applied(sess, Assigned(click[h].view, click[h].typed))
    /\ task' = [Stale(task) EXCEPT ![t] = NewTask("resume", click[h].view.active)]
    /\ click' = [Stale(click) EXCEPT ![h] = IdleClick]
    /\ thanked' = thanked \cup click[h].typed
    /\ form' = NoForm /\ told' = FALSE
    /\ UNCHANGED <<begun, calendar, asked, made>>

\* Not saved: "Please try again" takes the card's place, and nothing is resumed.
TryAgain(h) ==
    /\ click[h] # IdleClick
    /\ ~CanAppend(click[h]) \/ "db" \in Faults
    /\ click' = [click EXCEPT ![h] = IdleClick]
    /\ form' = NoForm /\ told' = TRUE
    /\ UNCHANGED <<begun, sess, task, calendar, asked, thanked, made>>

-------------------------------------------------------------------------------
\* _run_agent: the pipeline's stages

\* Runner.run_async loads the session ...
Start(t) ==
    /\ task[t].pc = "start"
    /\ \/ /\ sess # NoSession
          /\ task' = [task EXCEPT ![t].pc = "message", ![t].view = sess, ![t].fresh = TRUE]
       \/ /\ sess = NoSession \/ "db" \in Faults
          /\ Raise(t)
    /\ UNCHANGED <<sess, click, outside>>

\* ... and appends the person's message to it.
Message(t) ==
    /\ task[t].pc = "message"
    /\ Emit(t, IF task[t].work = "meeting" THEN "parse" ELSE "say", NoDelta)
    /\ UNCHANGED outside

Parse(t) ==
    /\ task[t].pc = "parse"
    /\ \/ \E delta \in Parsed(task[t].view) : Emit(t, "gate", delta)
       \/ /\ ~task[t].view.parsed.known /\ "llm" \in Faults
          /\ Raise(t)
          /\ UNCHANGED <<sess, click>>
    /\ UNCHANGED outside

Gate(t) ==
    /\ task[t].pc = "gate"
    /\ Emit(t, "owner", Gated(task[t].view))
    /\ UNCHANGED outside

OwnerGate(t) ==
    /\ task[t].pc = "owner"
    /\ Emit(t, "fanout", OwnerGated(task[t].view))
    /\ UNCHANGED outside

\* The guard skips the whole fan-out, reminders and notes included, while the form
\* is pending.
FanOut(t) ==
    /\ task[t].pc = "fanout"
    /\ \/ task[t].view.gate = "PENDING" /\ Emit(t, "assemble", NoDelta)
       \/ task[t].view.gate # "PENDING" /\ Emit(t, "calendar", FannedOut(task[t].view))
    /\ UNCHANGED outside

\* meeting_calendar_creator: skip, return without a word, or start on the holds.
Reminders(t) ==
    /\ task[t].pc = "calendar"
    /\ LET view == task[t].view  due == RemindersDue(view) IN
       \/ due = {} /\ ~SaysNothing(view) /\ Emit(t, "notes", NoDelta)
       \/ due = {} /\ SaysNothing(view) /\ Goto(t, "notes") /\ UNCHANGED <<sess, click>>
       \/ /\ due # {}
          /\ task' = [task EXCEPT ![t].pc = "record", ![t].left = due]
          /\ UNCHANGED <<sess, click>>
    /\ UNCHANGED outside

NextHold(left) == CHOOSE i \in left : \A j \in left : i <= j

\* A slip: an attempt too many.
GivesUpLate(failed) == failed > Attempts

GivesUp(failed) == failed = Attempts

\* One create_calendar_event call, through _with_transport_retry: answered; lost
\* on either side of the insert and so repeated, or given up; or answered by an
\* error text.  A given-up item gets no id and does not stop the batch.
CreateReminder(t) ==
    /\ task[t].pc = "record" /\ task[t].left # {}
    /\ LET i    == NextHold(task[t].left)
           hold == <<i, task[t].view.artifacts[i].due>>
           Inserted == /\ calendar[hold] < MaxEvents
                       /\ calendar' = [calendar EXCEPT ![hold] = @ + 1]
           failed  == task[t].tries + 1
           Dropped == [task[t] EXCEPT !.left = task[t].left \ {i}, !.tries = 0]
           Lost == IF GivesUp(failed) THEN Dropped ELSE [task[t] EXCEPT !.tries = failed]
       IN \/ /\ Inserted
             /\ task' = [task EXCEPT ![t] = [Dropped EXCEPT !.got = task[t].got \cup {i}]]
          \/ /\ "call" \in Faults
             /\ Inserted \/ UNCHANGED calendar
             /\ task' = [task EXCEPT ![t] = Lost]
          \/ /\ "call" \in Faults
             /\ task' = [task EXCEPT ![t] = Dropped]
             /\ UNCHANGED calendar
    /\ UNCHANGED <<begun, sess, click, form, history>>

\* A slip: an id is expected of every hold.
RecordedAll(job) == Holds(job.view)

Recorded(job) == job.got

\* The one event at the end of the batch holds the ids.
RecordReminders(t) ==
    /\ task[t].pc = "record" /\ task[t].left = {}
    /\ Emit(t, "notes", [reminders |-> Recorded(task[t])])
    /\ UNCHANGED outside

Notes(t) ==
    /\ task[t].pc = "notes"
    /\ \/ Emit(t, "assemble", NoDelta)
       \/ "llm" \in Faults /\ Raise(t) /\ UNCHANGED <<sess, click>>
    /\ UNCHANGED outside

\* Modes 0, A and B reply and call no tool; the output key takes any reply, so the
\* reply to a completed thread overwrites the marker that it was completed; or the model
\* fails.
AssembleNothing(t) ==
    /\ task[t].pc = "assemble"
    /\ ~CreatesArtifacts(task[t].view)
    /\ \/ Emit(t, "ended", [done |-> FALSE])
       \/ "llm" \in Faults /\ Raise(t) /\ UNCHANGED <<sess, click>>
    /\ UNCHANGED outside

\* Mode E makes the drafts, the tracker and the notes, and reports the completion,
\* or else what went wrong.
Assemble(t) ==
    /\ task[t].pc = "assemble"
    /\ CreatesArtifacts(task[t].view)
    /\ made' = task[t].view.artifacts
    /\ \/ Emit(t, "ended", [done |-> TRUE])
       \/ "llm" \in Faults /\ Emit(t, "ended", [done |-> FALSE])
       \/ "llm" \in Faults /\ Raise(t) /\ UNCHANGED <<sess, click>>
    /\ UNCHANGED <<begun, form, calendar, asked, thanked, told>>

\* The default workflow: an event with a text and no state.
Say(t) ==
    /\ task[t].pc = "say"
    /\ Emit(t, "ended", NoDelta)
    /\ UNCHANGED outside

-------------------------------------------------------------------------------
\* After the run: what is posted

RunOver(t) == task[t].pc \in {"ended", "raised"}

\* A plain message's or a resume's text, and the generic failure of a slash run
\* that raised.  (The invite card some of them go with is InviteDialog's.)
PostReply(t) ==
    /\ RunOver(t)
    /\ task[t].kind # "slash" \/ task[t].pc = "raised"
    /\ task' = [task EXCEPT ![t] = IdleTask]
    /\ UNCHANGED <<sess, click, outside>>

\* post_default_result loads the session ...
LoadResult(t) ==
    /\ task[t].pc = "ended" /\ task[t].kind = "slash"
    /\ \/ task' = [task EXCEPT ![t].pc = "show", ![t].view = sess, ![t].fresh = TRUE]
       \/ "db" \in Faults /\ task' = [task EXCEPT ![t] = IdleTask]
    /\ UNCHANGED <<sess, click, outside>>

Shown(s) == Incomplete(s.parsed.items)

\* ... and posts the form it waits for ...
PostForm(t) ==
    /\ task[t].pc = "show"
    /\ task[t].view.gate = "PENDING" /\ task[t].view.parsed.known
    /\ form' = [up |-> TRUE, shown |-> Shown(task[t].view)]
    /\ asked' = asked \cup Shown(task[t].view)
    /\ Goto(t, "note")
    /\ UNCHANGED <<begun, sess, click, calendar, thanked, told, made>>

\* ... or else the reply; the generic failure if there is no parse to build the
\* form of.  Chat may refuse the message, which is logged and swallowed.
PostText(t) ==
    /\ task[t].pc = "show"
    /\ \/ task[t].view.gate # "PENDING" \/ ~task[t].view.parsed.known
       \/ "post" \in Faults
    /\ task' = [task EXCEPT ![t] = IdleTask]
    /\ UNCHANGED <<sess, click, outside>>

\* The append of the card's message name, best effort.
NoteForm(t) ==
    /\ task[t].pc = "note"
    /\ \/ /\ CanAppend(task[t])
          /\ task' = [Stale(task) EXCEPT ![t] = IdleTask]
          /\ click' = Stale(click)
       \/ /\ ~CanAppend(task[t]) \/ "db" \in Faults
          /\ task' = [task EXCEPT ![t] = IdleTask]
          /\ UNCHANGED click
    /\ UNCHANGED <<sess, outside>>

\* The instance dies: tasks and handlers are in memory only.
Crash ==
    /\ "crash" \in Faults
    /\ task' = [t \in Tasks |-> IdleTask]
    /\ click' = [h \in Clicks |-> IdleClick]
    /\ UNCHANGED <<sess, outside>>

Run(t) ==
    \/ Start(t) \/ Message(t) \/ Parse(t) \/ Gate(t) \/ OwnerGate(t) \/ FanOut(t)
    \/ Reminders(t) \/ CreateReminder(t) \/ RecordReminders(t)
    \/ Notes(t) \/ AssembleNothing(t) \/ Assemble(t) \/ Say(t)

Post(t) == PostReply(t) \/ LoadResult(t) \/ PostForm(t) \/ PostText(t) \/ NoteForm(t)

SubmitAny(h) == \E typed \in SUBSET (form.shown \X Fields) : Submit(h, typed)

Handle(h) == TryAgain(h) \/ \E t \in Tasks : Acknowledge(h, t)

Next ==
    \/ \E t \in Tasks : SlashMeeting(t) \/ PlainMessage(t) \/ Run(t) \/ Post(t)
    \/ \E h \in Clicks : SubmitAny(h) \/ Handle(h)
    \/ Exit
    \/ Crash

Spec == Init /\ [][Next]_vars

\* The tasks and handlers run on; the person starts the workflow and submits the
\* form shown.  Nothing makes the person write, leave, or the process crash.
Fairness ==
    /\ \A t \in Tasks : WF_vars(SlashMeeting(t)) /\ WF_vars(Run(t) \/ Post(t))
    /\ \A h \in Clicks : WF_vars(SubmitAny(h)) /\ WF_vars(Handle(h))

FairSpec == Spec /\ Fairness

-------------------------------------------------------------------------------
\* Properties

\* Type correctness of the session, the copies of it, the form and the calendar.
TypeOK ==
    /\ begun \in BOOLEAN
    /\ sess \in States
    /\ task \in [Tasks ->
          [pc: Stages, kind: {"none", "slash", "plain", "resume"},
           work: {"none", "default", "meeting"}, view: States, fresh: BOOLEAN,
           left: SUBSET Items, got: SUBSET Items, tries: 0 .. (Attempts - 1)]]
    /\ click \in [Clicks ->
          [pc: {"idle", "append"}, typed: SUBSET (Items \X Fields), view: States,
           fresh: BOOLEAN]]
    /\ form \in [up: BOOLEAN, shown: SUBSET Items]
    /\ calendar \in [Dated -> 0 .. MaxEvents]
    /\ asked \subseteq Items /\ thanked \subseteq Items \X Fields
    /\ told \in BOOLEAN /\ made \in ItemLists

Reminded(i) == calendar[<<i, "found">>] + calendar[<<i, "typed">>]

\* meeting_calendar_creator's docstring: "the side effect happens exactly once".
RemindersOnce == \A i \in Items : Reminded(i) <= 1

\* Its guard "never on a blocked run", and the fan-out's: whatever other runs and
\* the form have done meanwhile, a reminder is created only while the thread's
\* stored session neither waits for the form nor failed the gate.
RemindersOnlyWhenClear ==
    [][sess.active = "meeting" /\ calendar' # calendar => sess.gate # "PENDING" /\ ~sess.failed]_vars

\* No side effect precedes the form: an item made into a reminder, or completed
\* into drafts and rows, is one that lacked nothing or that a form has shown.
IncompleteWereAsked ==
    sess.active = "meeting" =>
        /\ \A d \in Dated : calendar[d] > 0 =>
              d[1] \notin Incomplete(sess.parsed.items) \/ d[1] \in asked
        /\ sess.done => Incomplete(sess.parsed.items) \subseteq asked

\* artifacts.py: "an owner or due-date supplied via the card form is always
\* reflected", in the reminders and in what a completed thread's assembler made.
FormIsReflected ==
    sess.active = "meeting" =>
        /\ \A d \in Dated : calendar[d] > 0 =>
              d[1] \in DOMAIN sess.parsed.items /\ sess.parsed.items[d[1]].due = d[2]
        /\ sess.done => made = sess.parsed.items

\* The ids the invite dialog will patch are ids of events on the calendar.
RecordedExist == \A i \in sess.reminders : Reminded(i) > 0

\* An owner or date whose assignment was acknowledged is in the session's parse,
\* whatever runs were under way when the form was submitted.
AssignmentsKept ==
    sess.active = "meeting" =>
        \A a \in thanked :
            a[1] \in DOMAIN sess.parsed.items /\ sess.parsed.items[a[1]][a[2]] = "typed"

\* Undisturbed, a thread whose transcript could be parsed ends completed, or
\* blocked by the gate, or with the person told to submit again.
MeetingEnds ==
    (sess.parsed.known /\ sess.active = "meeting") ~> (sess.done \/ sess.failed \/ told)
================================================================================
