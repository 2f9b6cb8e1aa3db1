------------------------------- MODULE RfiEngine -------------------------------
(***************************************************************************)
(* One /rfi thread: the background tasks that run the pipeline over the    *)
(* thread's persisted session (chat/runner.py), the two forms and their    *)
(* submit handlers (chat/cards/rfi.py), and the fill_rfi_answers calls the *)
(* action server is working on (action-mcp tools/rfi).  Tasks and handlers *)
(* work on a copy of the session they loaded, and their events are         *)
(* appended to the stored one, which refuses a copy it has outrun.         *)
(***************************************************************************)
EXTENDS Integers, FiniteSets, RfiPipeline

CONSTANTS
    Tasks,        \* background tasks that may be running at once
    Clicks,       \* form submissions that may be handled at once
    Fills,        \* fill_rfi_answers calls the server may be working on at once
    FormLimit,    \* questions shown in a gap form (20 in _build_rfi_gap_card)
    Attempts,     \* _RFI_RESUME_ATTEMPTS
    MaxForms,     \* bound on the forms on display or being submitted at once
    MaxFiles,     \* bound on the response files the Drive can hold
    Replies,      \* TRUE: the person may write plain messages in the thread
    Exits,        \* TRUE: the thread may be left, by /exit or idle past its TTL
    Faults        \* what may go wrong: "llm", "db", "fill", "post", "crash"

FaultKinds == {"llm", "db", "fill", "post", "crash"}

ASSUME EngineAssumption ==
    /\ Questions \subseteq Nat
    /\ FormLimit \in Nat \ {0} /\ Attempts \in Nat \ {0}
    /\ MaxForms \in Nat \ {0} /\ MaxFiles \in Nat \ {0}
    /\ Replies \in BOOLEAN /\ Exits \in BOOLEAN
    /\ Faults \subseteq FaultKinds

VARIABLES
    begun,      \* /rfi was invoked: the anchor message opened the thread
    sess,       \* the stored session of the thread
    task,       \* background tasks
    click,      \* submit handlers between loading the session and appending
    forms,      \* the form cards on display in the thread
    fill,       \* fill_rfi_answers calls on the action server
    drive,      \* drive[n]: the n-th response file, or NoFile
    asked,      \* history: the questions any form has asked the person
    thanked     \* history: the questions whose typed answers were acknowledged last

vars == <<begun, sess, task, click, forms, fill, drive, asked, thanked>>
history == <<asked, thanked>>

Files == 1 .. MaxFiles
NoFile == [q \in {} |-> "blank"]
Contents == [Questions -> {"ai", "draft", "human", "blank"}]

Stages == {"start", "message", "parse", "guidance", "research", "gap", "assemble", "fill",
           "record", "say", "ended", "raised", "post", "show", "note", "idle"}

\* kind: which of the runner's background tasks this is; work: the workflow it
\* was scheduled for; view: the session it works on, fresh while nobody else appended.
IdleTask == [pc |-> "idle", kind |-> "none", work |-> "none", view |-> NoSession,
             fresh |-> FALSE, attempt |-> 0]

IdleClick == [pc |-> "idle", form |-> 0, kind |-> "none", shown |-> {}, typed |-> {},
              view |-> NoSession, fresh |-> FALSE]

\* waiting: the task that still waits for the answer, if any.
IdleFill == [pc |-> "idle", waiting |-> {}, content |-> NoFile, found |-> 0]

NewTask(kind, work) ==
    [IdleTask EXCEPT !.pc = "start", !.kind = kind, !.work = work, !.attempt = 1]

Init ==
    /\ begun = FALSE
    /\ sess = NoSession
    /\ task = [t \in Tasks |-> IdleTask]
    /\ click = [h \in Clicks |-> IdleClick]
    /\ forms = {}
    /\ fill = [f \in Fills |-> IdleFill]
    /\ drive = [n \in Files |-> NoFile]
    /\ asked = {} /\ thanked = {}

-------------------------------------------------------------------------------
\* append_event() of the session service

\* Someone else's append makes every copy loaded before it stale.
Stale(copies) == [x \in DOMAIN copies |-> [copies[x] EXCEPT !.fresh = FALSE]]

CanAppend(copy) == sess # NoSession /\ copy.fresh

\* A run that is over keeps no copy.
Continue(job, next, view) ==
    IF next \in {"ended", "raised"}
    THEN [job EXCEPT !.pc = next, !.view = NoSession, !.fresh = FALSE]
    ELSE [job EXCEPT !.pc = next, !.view = view]

\* Task t's stage yields its event and the runner appends it; an append that is
\* refused leaves the run with an exception.
Emit(t, next, delta) ==
    \/ /\ CanAppend(task[t])
       /\ sess' = Applied(sess, delta)
       /\ task' = [Stale(task) EXCEPT ![t] =
                     Continue(task[t], next, Applied(task[t].view, delta))]
       /\ click' = Stale(click)
    \/ /\ ~CanAppend(task[t]) \/ "db" \in Faults
       /\ task' = [task EXCEPT ![t] = Continue(task[t], "raised", NoSession)]
       /\ UNCHANGED <<sess, click>>

Goto(t, next) == task' = [task EXCEPT ![t].pc = next]

-------------------------------------------------------------------------------
\* What the person does

\* /rfi: post the anchor, create the session, store the attachment, seed its id.
SlashRfi(t) ==
    /\ ~begun /\ task[t] = IdleTask
    /\ begun' = TRUE
    /\ \/ \E seeded \in IF "db" \in Faults THEN BOOLEAN ELSE {TRUE} :
             sess' = [NewState("rfi") EXCEPT !.file = seeded]
          /\ task' = [task EXCEPT ![t] = NewTask("slash", "rfi")]
       \/ /\ sess' = NewState("rfi")     \* prepare_rfi_file returned an error text
          /\ UNCHANGED task
       \/ "db" \in Faults /\ UNCHANGED <<sess, task>>     \* resolve() raised
    /\ UNCHANGED <<click, forms, fill, drive, history>>

\* A plain message continues the thread's session; without one, or past its TTL,
\* it runs the default workflow in a session of its own.
PlainMessage(t) ==
    /\ Replies /\ begun /\ task[t] = IdleTask
    /\ \/ /\ sess # NoSession
          /\ task' = [task EXCEPT ![t] = NewTask("plain", sess.active)]
          /\ UNCHANGED <<sess, click>>
       \/ /\ sess = NoSession \/ Exits
          /\ sess' = NewState("default")
          /\ task' = [Stale(task) EXCEPT ![t] = NewTask("plain", "default")]
          /\ click' = Stale(click)
    /\ UNCHANGED <<begun, forms, fill, drive, history>>

Exit ==
    /\ Exits /\ sess # NoSession
    /\ sess' = NoSession
    /\ task' = Stale(task)
    /\ click' = Stale(click)
    /\ UNCHANGED <<begun, forms, fill, drive, history>>

Awaited(kind) == (IF kind = "guidance" THEN sess.guidance ELSE sess.gap) = "PENDING"

\* The form's handler loads the session; with nothing to submit to, it says so
\* and the card is replaced, else it goes on to append what was typed.
Submit(h, form, typed) ==
    /\ click[h] = IdleClick
    /\ form \in forms /\ typed \subseteq form.shown
    /\ \/ /\ Awaited(form.kind)
          /\ click' = [click EXCEPT ![h] =
                [pc |-> "append", form |-> form.no, kind |-> form.kind, shown |-> form.shown,
                 typed |-> typed, view |-> sess, fresh |-> TRUE]]
          /\ UNCHANGED forms
       \/ /\ ~Awaited(form.kind)
          /\ forms' = forms \ {form}
          /\ UNCHANGED click
    /\ UNCHANGED <<begun, sess, task, fill, drive, history>>

Submitted(c) == IF c.kind = "guidance" THEN WithGuidance ELSE WithGapAnswers(c.view, c.typed)

\* A slip: a submission that could not be saved does not resume the workflow.
AcknowledgeIfSaved(h, t) ==
    /\ click[h] # IdleClick /\ task[t] = IdleTask
    /\ IF CanAppend(click[h])
       THEN /\ sess' = Applied(sess, Submitted(click[h]))
            /\ task' = [Stale(task) EXCEPT ![t] = NewTask("resume", click[h].view.active)]
            /\ click' = [Stale(click) EXCEPT ![h] = IdleClick]
       ELSE /\ click' = [click EXCEPT ![h] = IdleClick]
            /\ UNCHANGED <<sess, task>>
    /\ forms' = {f \in forms : f.no # click[h].form}
    /\ thanked' = (thanked \ click[h].shown) \cup click[h].typed
    /\ UNCHANGED <<begun, fill, drive, asked>>

\* _append_state is best effort: refused or failing, it is logged, the card is
\* replaced by the acknowledgement and the resume is scheduled all the same.
Acknowledge(h, t) ==
    /\ click[h] # IdleClick /\ task[t] = IdleTask
    /\ LET resume == NewTask("resume", click[h].view.active) IN
       \/ /\ CanAppend(click[h])
          /\ sess' = Applied(sess, Submitted(click[h]))
          /\ task' = [Stale(task) EXCEPT ![t] = resume]
          /\ click' = [Stale(click) EXCEPT ![h] = IdleClick]
       \/ /\ ~CanAppend(click[h]) \/ "db" \in Faults
          /\ task' = [task EXCEPT ![t] = resume]
          /\ click' = [click EXCEPT ![h] = IdleClick]
          /\ UNCHANGED sess
    /\ forms' = {f \in forms : f.no # click[h].form}
    /\ thanked' = (thanked \ click[h].shown) \cup click[h].typed
    /\ UNCHANGED <<begun, fill, drive, asked>>

-------------------------------------------------------------------------------
\* _run_agent: the pipeline's stages

\* Runner.run_async loads the session ...
Start(t) ==
    /\ task[t].pc = "start"
    /\ \/ /\ sess # NoSession
          /\ task' = [task EXCEPT ![t].pc = "message", ![t].view = sess, ![t].fresh = TRUE]
       \/ /\ sess = NoSession \/ "db" \in Faults
          /\ Goto(t, "raised")
    /\ UNCHANGED <<begun, sess, click, forms, fill, drive, history>>

\* ... and appends the person's message to it.
Message(t) ==
    /\ task[t].pc = "message"
    /\ Emit(t, IF task[t].work = "rfi" THEN "parse" ELSE "say", NoDelta)
    /\ UNCHANGED <<begun, forms, fill, drive, history>>

Parse(t) ==
    /\ task[t].pc = "parse"
    /\ \/ \E delta \in Parsed(task[t].view) : Emit(t, "guidance", delta)
       \/ /\ task[t].view.questions = "unparsed" /\ "llm" \in Faults
          /\ task' = [task EXCEPT ![t] = Continue(task[t], "raised", NoSession)]
          /\ UNCHANGED <<sess, click>>
    /\ UNCHANGED <<begun, forms, fill, drive, history>>

GuidanceStage(t) ==
    /\ task[t].pc = "guidance"
    /\ Emit(t, "research", GuidanceGated(task[t].view))
    /\ UNCHANGED <<begun, forms, fill, drive, history>>

\* Failing batches come back as gaps: the stage itself does not raise.
Research(t) ==
    /\ task[t].pc = "research"
    /\ \E delta \in Researched(task[t].view) : Emit(t, "gap", delta)
    /\ UNCHANGED <<begun, forms, fill, drive, history>>

\* RFIGate, whose verdict nobody waits for, and GapFillGate.
GapStage(t) ==
    /\ task[t].pc = "gap"
    /\ Emit(t, "assemble", GapGated(task[t].view))
    /\ UNCHANGED <<begun, forms, fill, drive, history>>

\* The assembler has nothing to write (or not yet), or it calls fill_rfi_answers.
AssembleNothing(t) ==
    /\ task[t].pc = "assemble"
    /\ ~ReadyToFill(task[t].view)
    /\ Emit(t, "ended", NoDelta)
    /\ UNCHANGED <<begun, forms, fill, drive, history>>

CallFill(t, f) ==
    /\ task[t].pc = "assemble"
    /\ ReadyToFill(task[t].view)
    /\ fill[f] = IdleFill
    /\ fill' = [fill EXCEPT ![f] = [pc |-> "find", waiting |-> {t},
                                    content |-> Filled(task[t].view), found |-> 0]]
    /\ Goto(t, "fill")
    /\ UNCHANGED <<begun, sess, click, forms, drive, history>>

\* The connection drops and the transport calls again, or the call times out and
\* the assembler reports it.  The server does not know: it works on.
LoseCall(t) ==
    /\ "fill" \in Faults
    /\ task[t].pc = "fill"
    /\ fill' = [f \in Fills |-> [fill[f] EXCEPT !.waiting = @ \ {t}]]
    /\ \E next \in {"assemble", "say"} : Goto(t, next)
    /\ UNCHANGED <<begun, sess, click, forms, drive, history>>

Record(t) ==
    /\ task[t].pc = "record"
    /\ Emit(t, "ended", [done |-> TRUE])
    /\ UNCHANGED <<begun, forms, fill, drive, history>>

\* An event with a text and no state: a failed fill, or the default workflow.
Say(t) ==
    /\ task[t].pc = "say"
    /\ Emit(t, "ended", NoDelta)
    /\ UNCHANGED <<begun, forms, fill, drive, history>>

-------------------------------------------------------------------------------
\* fill_rfi_answers on the action server

\* The answer f owes, if anyone still waits for it.
Answered(f, next) ==
    /\ fill' = [fill EXCEPT ![f] = IdleFill]
    /\ task' = [t \in Tasks |->
                  IF t \in fill[f].waiting THEN [task[t] EXCEPT !.pc = next] ELSE task[t]]

\* _upsert_bytes looks the response file up by its name ...
FindFile(f) ==
    /\ fill[f].pc = "find"
    /\ \/ \E n \in Files :
             /\ drive[n] # NoFile
             /\ fill' = [fill EXCEPT ![f].pc = "write", ![f].found = n]
       \/ /\ \A n \in Files : drive[n] = NoFile
          /\ fill' = [fill EXCEPT ![f].pc = "write"]
    /\ UNCHANGED <<begun, sess, task, click, forms, drive, history>>

Vacant == {n \in Files : drive[n] = NoFile}

\* ... and overwrites what it found, or else creates a file; a create whose answer
\* is lost on the way from the Drive is repeated by retry_on_transient.
WriteFile(f) ==
    /\ fill[f].pc = "write"
    /\ fill[f].found # 0 \/ Vacant # {}
    /\ LET n == IF fill[f].found # 0 THEN fill[f].found
                ELSE CHOOSE m \in Vacant : \A k \in Vacant : m <= k
       IN drive' = [drive EXCEPT ![n] = fill[f].content]
    /\ \/ fill' = [fill EXCEPT ![f].pc = "answer"]
       \/ "fill" \in Faults /\ UNCHANGED fill
    /\ UNCHANGED <<begun, sess, task, click, forms, history>>

\* The filled file's link: the assembler goes on to record the completion.
FillAnswers(f) ==
    /\ fill[f].pc = "answer"
    /\ Answered(f, "record")
    /\ UNCHANGED <<begun, sess, click, forms, drive, history>>

\* An error text, or a server that died: the assembler reports it, writing no state.
FillErrs(f) ==
    /\ "fill" \in Faults
    /\ fill[f] # IdleFill
    /\ Answered(f, "say")
    /\ UNCHANGED <<begun, sess, click, forms, drive, history>>

-------------------------------------------------------------------------------
\* After the run: the retry loop of a resume, and what is posted

RunOver(t) == task[t].pc \in {"ended", "raised"}

\* _run_plain_workflow posts the reply's text whatever the state; a slash run
\* that raised posts the generic failure.
PostReply(t) ==
    /\ RunOver(t)
    /\ task[t].kind = "plain" \/ (task[t].kind = "slash" /\ task[t].pc = "raised")
    /\ task' = [task EXCEPT ![t] = IdleTask]
    /\ UNCHANGED <<begun, sess, click, forms, fill, drive, history>>

SlashOver(t) ==
    /\ task[t].pc = "ended" /\ task[t].kind = "slash"
    /\ Goto(t, "post")
    /\ UNCHANGED <<begun, sess, click, forms, fill, drive, history>>

\* The resume runs again while the file is still to be written, Attempts times in all.
ResumeOver(t) ==
    /\ RunOver(t) /\ task[t].kind = "resume"
    /\ LET failed == AssemblyFailed(sess) IN
       task' = [task EXCEPT
          ![t].pc = IF failed /\ task[t].attempt < Attempts THEN "start" ELSE "post",
          ![t].attempt = IF failed THEN @ + 1 ELSE @]
    /\ UNCHANGED <<begun, sess, click, forms, fill, drive, history>>

\* The reply then ends in the hint that the answers are saved.
Exhausted(t) == task[t].attempt > Attempts

\* get_session() is not guarded: when it raises, the task ends without a post.
TaskDies(t) ==
    /\ "db" \in Faults
    /\ task[t].pc = "post" \/ (RunOver(t) /\ task[t].kind = "resume")
    /\ task' = [task EXCEPT ![t] = IdleTask]
    /\ UNCHANGED <<begun, sess, click, forms, fill, drive, history>>

\* post_rfi_result loads the session ...
LoadResult(t) ==
    /\ task[t].pc = "post"
    /\ task' = [task EXCEPT ![t].pc = "show", ![t].view = sess, ![t].fresh = TRUE]
    /\ UNCHANGED <<begun, sess, click, forms, fill, drive, history>>

\* The questions a gap form shows: the first ones in document order, up to the limit.
Shown(gaps) == {q \in gaps : Cardinality({p \in gaps : p < q}) < FormLimit}

FreeNos == (1 .. MaxForms) \ ({form.no : form \in forms} \cup {click[h].form : h \in Clicks})

\* ... and posts the form the loaded session waits for, or else the reply.
PostForm(t) ==
    /\ task[t].pc = "show" /\ FormsPending(task[t].view)
    /\ FreeNos # {}
    /\ LET kind  == IF task[t].view.guidance = "PENDING" THEN "guidance" ELSE "gap"
           shown == IF kind = "gap" THEN Shown(Gaps(task[t].view)) ELSE {}
           no    == CHOOSE n \in FreeNos : \A m \in FreeNos : n <= m
       IN /\ forms' = forms \cup {[no |-> no, kind |-> kind, shown |-> shown]}
          /\ asked' = asked \cup shown
    /\ Goto(t, "note")
    /\ UNCHANGED <<begun, sess, click, fill, drive, thanked>>

PostText(t) ==
    /\ task[t].pc = "show" /\ ~FormsPending(task[t].view)
    /\ task' = [task EXCEPT ![t] = IdleTask]
    /\ UNCHANGED <<begun, sess, click, forms, fill, drive, history>>

\* Chat refuses the message: logged and swallowed.
PostFails(t) ==
    /\ "post" \in Faults
    /\ task[t].pc = "show"
    /\ task' = [task EXCEPT ![t] = IdleTask]
    /\ UNCHANGED <<begun, sess, click, forms, fill, drive, history>>

\* _append_state of the card's message name, best effort.
NoteForm(t) ==
    /\ task[t].pc = "note"
    /\ \/ /\ CanAppend(task[t])
          /\ task' = [Stale(task) EXCEPT ![t] = IdleTask]
          /\ click' = Stale(click)
       \/ /\ ~CanAppend(task[t]) \/ "db" \in Faults
          /\ task' = [task EXCEPT ![t] = IdleTask]
          /\ UNCHANGED click
    /\ UNCHANGED <<begun, sess, forms, fill, drive, history>>

\* The instance dies: tasks and handlers are in memory only.
Crash ==
    /\ "crash" \in Faults
    /\ task' = [t \in Tasks |-> IdleTask]
    /\ click' = [h \in Clicks |-> IdleClick]
    /\ fill' = [f \in Fills |-> [fill[f] EXCEPT !.waiting = {}]]
    /\ UNCHANGED <<begun, sess, forms, drive, history>>

Run(t) ==
    \/ Start(t) \/ Message(t)
    \/ Parse(t) \/ GuidanceStage(t) \/ Research(t) \/ GapStage(t)
    \/ AssembleNothing(t) \/ \E f \in Fills : CallFill(t, f)
    \/ LoseCall(t) \/ Record(t) \/ Say(t)

Post(t) ==
    \/ PostReply(t) \/ SlashOver(t) \/ ResumeOver(t) \/ TaskDies(t)
    \/ LoadResult(t) \/ PostForm(t) \/ PostText(t) \/ PostFails(t) \/ NoteForm(t)

Serve(f) == FindFile(f) \/ WriteFile(f) \/ FillAnswers(f) \/ FillErrs(f)

SubmitAny(h) == \E form \in forms : \E typed \in SUBSET form.shown : Submit(h, form, typed)

AcknowledgeAny(h) == \E t \in Tasks : Acknowledge(h, t)

Next ==
    \/ \E t \in Tasks : SlashRfi(t) \/ PlainMessage(t) \/ Run(t) \/ Post(t)
    \/ \E f \in Fills : Serve(f)
    \/ \E h \in Clicks : SubmitAny(h) \/ AcknowledgeAny(h)
    \/ Exit
    \/ Crash

Spec == Init /\ [][Next]_vars

\* The server and the tasks run on; the person starts the workflow, submits the
\* forms shown, and does not forever do so in the instant between a card's post and
\* the note of its name.  Nothing makes the person write, leave, or the process crash.
Fairness ==
    /\ \A t \in Tasks : WF_vars(SlashRfi(t)) /\ WF_vars(Run(t) \/ Post(t))
    /\ \A f \in Fills : WF_vars(Serve(f))
    /\ \A h \in Clicks :
          /\ WF_vars(SubmitAny(h)) /\ WF_vars(AcknowledgeAny(h))
          /\ SF_vars(AcknowledgeAny(h) /\ CanAppend(click[h]))

FairSpec == Spec /\ Fairness

-------------------------------------------------------------------------------
\* Properties

Forms == [no: 1 .. MaxForms, kind: {"guidance", "gap"}, shown: SUBSET Questions]

\* Type correctness of the session, the tasks' and handlers' copies, and the Drive.
TypeOK ==
    /\ begun \in BOOLEAN
    /\ sess \in States
    /\ task \in [Tasks ->
          [pc: Stages, kind: {"none", "slash", "plain", "resume"}, work: {"none", "default", "rfi"},
           view: States, fresh: BOOLEAN, attempt: 0 .. (Attempts + 1)]]
    /\ click \in [Clicks ->
          [pc: {"idle", "append"}, form: 0 .. MaxForms, kind: {"none", "guidance", "gap"},
           shown: SUBSET Questions, typed: SUBSET Questions, view: States, fresh: BOOLEAN]]
    /\ fill \in [Fills ->
          [pc: {"idle", "find", "write", "answer"}, waiting: SUBSET Tasks,
           content: Contents \cup {NoFile}, found: 0 .. MaxFiles]]
    /\ forms \subseteq Forms
    /\ drive \in [Files -> Contents \cup {NoFile}]
    /\ asked \subseteq Questions /\ thanked \subseteq Questions

\* Nothing is running: only the person can make something happen.
Quiescent == (\A t \in Tasks : task[t] = IdleTask) /\ (\A h \in Clicks : click[h] = IdleClick)

FormShown(kind) == \E f \in forms : f.kind = kind

\* The two suspensions have a way out: a thread that waits for a form shows one.
PendingFormPosted ==
    Quiescent =>
        /\ sess.guidance = "PENDING" => FormShown("guidance")
        /\ sess.guidance # "PENDING" /\ sess.gap = "PENDING" => FormShown("gap")

\* The response file is written only from a state both forms are done with, even
\* though the writer works on a copy: while it writes, the stored session of the
\* thread asks the person for nothing.
NoFillWhilePending ==
    \A t \in Tasks : task[t].pc \in {"fill", "record"} => ~FormsPending(sess)

\* A completed thread's answers are in a response file, all that are not left
\* blank: neither a stale run nor a retried fill loses one.
CompletedFileHolds ==
    sess.done => \E n \in Files : drive[n] = Filled(sess)

Saved(q) == q \in DOMAIN sess.answers /\ sess.answers[q] = "human"

\* A typed answer the person was last thanked for is saved, or asked for again:
\* the gap form is pending with that question among the gaps.
ThankedSavedOrAsked ==
    Quiescent /\ sess.active = "rfi" =>
        \A q \in thanked : Saved(q) \/ (q \in Gaps(sess) /\ sess.gap = "PENDING")

\* What needs a human and was left blank, or as the research drafted it, was at
\* least put to the person before the thread completed (research.py: flagged "so
\* Form 2 catches it"), also when a batch returned no entry for a question.
GapsWereAsked ==
    sess.done => \A q \in Questions : Filled(sess)[q] \in {"blank", "draft"} => q \in asked

\* rfi.py: re-running the pipeline "can't duplicate work or files".
OneResponseFile == \A m, n \in Files : drive[m] # NoFile /\ drive[n] # NoFile => m = n

\* rfi.py's hint, "Your answers are saved": when it is posted, every answer the
\* person was thanked for is in the session.
HintIsTrue ==
    [][\A t \in Tasks :
          PostText(t) /\ Exhausted(t) /\ sess.active = "rfi" => \A q \in thanked : Saved(q)]_vars

\* No run throws away what a person typed, and a completed thread stays completed,
\* short of /exit and of a new session.
HumanWorkKept ==
    [][sess.active = "rfi" /\ sess'.active = "rfi" =>
          /\ \A q \in DOMAIN sess.answers : sess.answers[q] = "human" =>
                q \in DOMAIN sess'.answers /\ sess'.answers[q] = "human"
          /\ sess.done => sess'.done]_vars

\* Undisturbed, a /rfi run ends: the response file is written and recorded, or the
\* document held no questions.
Completes ==
    (\E t \in Tasks : task[t].kind = "slash") ~> (sess.done \/ sess.questions = "empty")
================================================================================
