------------------------------- MODULE IqEngine -------------------------------
(***************************************************************************)
(* One /iq thread: the background tasks that run the pipeline over the     *)
(* thread's persisted session, the tailoring form and its submit handler   *)
(* (chat/cards/iq.py), and the dossiers the assembler copies on the Shared *)
(* Drive and fills.  As in RfiEngine, tasks and handlers work on a copy of *)
(* the session they loaded, and the session service refuses to append to a *)
(* session that has outrun the copy.                                       *)
(***************************************************************************)
EXTENDS Integers, Sequences, IqPipeline

CONSTANTS
    Tasks,        \* background tasks that may be running at once
    Clicks,       \* form submissions that may be handled at once
    Attempts,     \* _MCP_MAX_ATTEMPTS
    Replies,      \* TRUE: the person may write plain messages in the thread
    Exits,        \* TRUE: the thread may be left, by /exit or idle past its TTL
    Faults        \* what may go wrong: "llm", "db", "call", "post", "crash"

FaultKinds == {"llm", "db", "call", "post", "crash"}

ASSUME EngineAssumption ==
    /\ Tailorings \cap {"skip", "defaults", "none"} = {}
    /\ Attempts \in Nat \ {0} /\ MaxDocs \in Nat \ {0}
    /\ Replies \in BOOLEAN /\ Exits \in BOOLEAN
    /\ Faults \subseteq FaultKinds

VARIABLES
    begun,      \* /iq was invoked: the anchor message opened the thread
    sess,       \* the stored session of the thread
    task,       \* background tasks
    click,      \* submit handlers between loading the session and appending
    form,       \* TRUE: a tailoring form is on display
    docs,       \* the dossiers on the Shared Drive: what each was filled with
    thanked     \* history: the choices "researching with ..." was said of

vars == <<begun, sess, task, click, form, docs, thanked>>
outside == <<begun, form, docs, thanked>>

\* A copied template before its placeholders are replaced.
Blank == NoProfile

Stages == {"seed", "start", "message", "gate", "research", "structure", "assemble", "copy",
           "failed", "fill", "record", "say", "ended", "raised", "show", "note", "idle"}

\* doc, tries: the dossier the assembler copied, and the failed attempts at the
\* tool call it is in.
IdleTask == [pc |-> "idle", kind |-> "none", work |-> "none", view |-> NoSession,
             fresh |-> FALSE, doc |-> 0, tries |-> 0]

IdleClick == [pc |-> "idle", choice |-> "none", view |-> NoSession, fresh |-> FALSE]

NewTask(kind, work) == [IdleTask EXCEPT !.pc = "start", !.kind = kind, !.work = work]

Init ==
    /\ begun = FALSE
    /\ sess = NoSession
    /\ task = [t \in Tasks |-> IdleTask]
    /\ click = [h \in Clicks |-> IdleClick]
    /\ form = FALSE
    /\ docs = <<>>
    /\ thanked = {}

-------------------------------------------------------------------------------
\* append_event() of the session service

\* Someone else's append makes every copy loaded before it stale.
Stale(copies) == [x \in DOMAIN copies |-> [copies[x] EXCEPT !.fresh = FALSE]]

\* A slip: whoever appends last wins.
CanAlwaysAppend(copy) == sess # NoSession

CanAppend(copy) == sess # NoSession /\ copy.fresh

\* A run that is over keeps only what it was for.
Over(job, how) == [IdleTask EXCEPT !.pc = how, !.kind = job.kind, !.work = job.work]

Raise(t) == task' = [task EXCEPT ![t] = Over(task[t], "raised")]

\* Task t's stage yields its event and the runner appends it; an append that is
\* refused leaves the run with an exception.
Emit(t, next, delta) ==
    \/ /\ CanAppend(task[t])
       /\ sess' = Applied(sess, delta)
       /\ LET job == [task[t] EXCEPT !.pc = next, !.view = Applied(@, delta)] IN
          task' = [Stale(task) EXCEPT ![t] = IF next = "ended" THEN Over(job, next) ELSE job]
       /\ click' = Stale(click)
    \/ /\ ~CanAppend(task[t]) \/ "db" \in Faults
       /\ Raise(t)
       /\ UNCHANGED <<sess, click>>

\* Task t goes on as "after" from an append whose failure is logged and swallowed.
AppendBestEffort(t, delta, after) ==
    \/ /\ CanAppend(task[t])
       /\ sess' = Applied(sess, delta)
       /\ task' = [Stale(task) EXCEPT ![t] = after]
       /\ click' = Stale(click)
    \/ /\ ~CanAppend(task[t]) \/ "db" \in Faults
       /\ task' = [task EXCEPT ![t] = after]
       /\ UNCHANGED <<sess, click>>

-------------------------------------------------------------------------------
\* What the person does

\* /iq: post the anchor and create the session; without a company the person is
\* asked for one, and nothing is run.
SlashIq(t) ==
    /\ ~begun /\ task[t] = IdleTask
    /\ begun' = TRUE
    /\ \/ /\ sess' = NewState("iq")
          /\ \/ task' = [task EXCEPT ![t] = [NewTask("slash", "iq") EXCEPT
                            !.pc = "seed", !.view = NewState("iq"), !.fresh = TRUE]]
             \/ UNCHANGED task
       \/ "db" \in Faults /\ UNCHANGED <<sess, task>>     \* resolve() raised
    /\ UNCHANGED <<click, form, docs, thanked>>

\* prepare_iq: the company goes into the state, best effort.
Seed(t) ==
    /\ task[t].pc = "seed"
    /\ AppendBestEffort(t, [company |-> TRUE], NewTask("slash", "iq"))
    /\ UNCHANGED outside

\* A plain message continues the thread's session; without one, or past its TTL,
\* it runs the default workflow in a session of its own.
PlainMessage(t) ==
    /\ Replies /\ begun /\ task[t] = IdleTask
    /\ \/ /\ sess # NoSession
          /\ task' = [task EXCEPT ![t] = NewTask("plain", sess.active)]
          /\ UNCHANGED <<sess, click>>
       \/ /\ sess = NoSession \/ Exits
          /\ sess' = NewState("default")
          /\ task' = [Stale(task) EXCEPT ![t] = NewTask("plain", "default")]
          /\ click' = Stale(click)
    /\ UNCHANGED outside

Exit ==
    /\ Exits /\ sess # NoSession
    /\ sess' = NoSession
    /\ task' = Stale(task)
    /\ click' = Stale(click)
    /\ UNCHANGED outside

\* The form's handler loads the session; with nothing to submit to, it says so in
\* the card's place, else it goes on to append what was chosen.
Submit(h, choice) ==
    /\ click[h] = IdleClick
    /\ form
    /\ \/ /\ sess.gate = "PENDING"
          /\ click' = [click EXCEPT ![h] =
                         [pc |-> "append", choice |-> choice, view |-> sess, fresh |-> TRUE]]
          /\ UNCHANGED form
       \/ /\ sess.gate # "PENDING"
          /\ form' = FALSE
          /\ UNCHANGED click
    /\ UNCHANGED <<begun, sess, task, docs, thanked>>

\* Saved or not, the acknowledgement takes the card's place and the resume is
\* scheduled, for the workflow of the session that was loaded.
Acknowledge(h, t) ==
    /\ click[h] # IdleClick /\ task[t] = IdleTask
    /\ LET resume == NewTask("resume", click[h].view.active) IN
       \/ /\ CanAppend(click[h])
          /\ sess' = Applied(sess, Tailored(click[h].choice))
          /\ task' = [Stale(task) EXCEPT ![t] = resume]
          /\ click' = [Stale(click) EXCEPT ![h] = IdleClick]
       \/ /\ ~CanAppend(click[h]) \/ "db" \in Faults
          /\ task' = [task EXCEPT ![t] = resume]
          /\ click' = [click EXCEPT ![h] = IdleClick]
          /\ UNCHANGED sess
    /\ thanked' = thanked \cup {click[h].choice}
    /\ form' = FALSE
    /\ UNCHANGED <<begun, docs>>

-------------------------------------------------------------------------------
\* _run_agent: the pipeline's stages

\* Runner.run_async loads the session ...
Start(t) ==
    /\ task[t].pc = "start"
    /\ \/ /\ sess # NoSession
          /\ task' = [task EXCEPT ![t].pc = "message", ![t].view = sess, ![t].fresh = TRUE]
       \/ /\ sess = NoSession \/ "db" \in Faults
          /\ Raise(t)
    /\ UNCHANGED <<sess, click, outside>>

\* ... and appends the person's message to it.
Message(t) ==
    /\ task[t].pc = "message"
    /\ Emit(t, IF task[t].work = "iq" THEN "gate" ELSE "say", NoDelta)
    /\ UNCHANGED outside

Gate(t) ==
    /\ task[t].pc = "gate"
    /\ Emit(t, "research", TailorGated(task[t].view))
    /\ UNCHANGED outside

\* An LLM stage behind the pending form: skipped, or its answer stored; an answer
\* without a text stores none, and the model may fail.
LlmStage(t, next, delta, emptied) ==
    \/ TailoringPending(task[t].view) /\ Emit(t, next, NoDelta)
    \/ ~TailoringPending(task[t].view) /\ Emit(t, next, delta)
    \/ /\ ~TailoringPending(task[t].view) /\ "llm" \in Faults
       /\ \/ Emit(t, next, emptied)
          \/ Raise(t) /\ UNCHANGED <<sess, click>>

\* It runs anew in every run past the form, that of a completed thread included.
Research(t) ==
    /\ task[t].pc = "research"
    /\ LlmStage(t, "structure", Researched(task[t].view), [brief |-> NoBrief])
    /\ UNCHANGED outside

\* With a schema to fill, no text is no answer, and the stored profile stays.
Structure(t) ==
    /\ task[t].pc = "structure"
    /\ LlmStage(t, "assemble", Structured(task[t].view), NoDelta)
    /\ UNCHANGED outside

\* Skipped, already complete, or no profile to fill a dossier from.
AssembleNothing(t) ==
    /\ task[t].pc = "assemble"
    /\ TailoringPending(task[t].view) \/ ~Copies(task[t].view)
    /\ Emit(t, "ended", NoDelta)
    /\ UNCHANGED outside

Assemble(t) ==
    /\ task[t].pc = "assemble"
    /\ ~TailoringPending(task[t].view) /\ Copies(task[t].view)
    /\ task' = [task EXCEPT ![t].pc = "copy"]
    /\ UNCHANGED <<sess, click, outside>>

\* A slip: an attempt too many.
GivesUpLate(failed) == failed > Attempts

\* A tool call through _with_transport_retry whose answer is lost: repeated, or
\* given up.
GivesUp(failed) == failed = Attempts

LostCall(t, after) ==
    LET failed == task[t].tries + 1 IN
    task' = [task EXCEPT ![t] = IF GivesUp(failed) THEN after
                                ELSE [task[t] EXCEPT !.tries = failed]]

\* copy_file: each attempt that reaches the Drive makes another copy.  Without an
\* id in the answer the assembler reports the failure and ends.
Copy(t) ==
    /\ task[t].pc = "copy"
    /\ LET Copied == Len(docs) < MaxDocs /\ docs' = Append(docs, Blank)
           Failed == [task[t] EXCEPT !.pc = "failed", !.tries = 0]
       IN \/ /\ Copied
             /\ task' = [task EXCEPT ![t].pc = "fill", ![t].doc = Len(docs'), ![t].tries = 0]
             /\ UNCHANGED <<sess, click>>
          \/ /\ "call" \in Faults
             /\ Copied \/ UNCHANGED docs
             /\ LostCall(t, Failed)
             /\ UNCHANGED <<sess, click>>
          \/ /\ "call" \in Faults       \* "Error copying file"
             /\ Emit(t, "ended", NoDelta)
             /\ UNCHANGED docs
    /\ UNCHANGED <<begun, form, thanked>>

\* The failed copy is reported.
CopyFailed(t) ==
    /\ task[t].pc = "failed"
    /\ Emit(t, "ended", NoDelta)
    /\ UNCHANGED outside

\* replace_text_batch: every placeholder in one update, which may be repeated.
\* Given up it leaves a warning in the summary, answered by an error text not even
\* that; the run goes on either way.
Fill(t) ==
    /\ task[t].pc = "fill"
    /\ LET Filled == docs' = [docs EXCEPT ![task[t].doc] = task[t].view.profile]
           Summary == [task[t] EXCEPT !.pc = "record", !.tries = 0]
       IN \/ Filled /\ task' = [task EXCEPT ![t] = Summary]
          \/ /\ "call" \in Faults
             /\ Filled \/ UNCHANGED docs
             /\ LostCall(t, Summary)
          \/ /\ "call" \in Faults       \* "Error replacing text"
             /\ task' = [task EXCEPT ![t] = Summary]
             /\ UNCHANGED docs
    /\ UNCHANGED <<begun, sess, click, form, thanked>>

Recorded(doc) == [link |-> doc, done |-> TRUE]

Record(t) ==
    /\ task[t].pc = "record"
    /\ Emit(t, "ended", Recorded(task[t].doc))
    /\ UNCHANGED outside

\* The default workflow: an event with a text and no state.
Say(t) ==
    /\ task[t].pc = "say"
    /\ Emit(t, "ended", NoDelta)
    /\ UNCHANGED outside

-------------------------------------------------------------------------------
\* After the run: what is posted

RunOver(job) == job.pc \in {"ended", "raised"}

\* A slip: after a resume only the run's text is posted.
ResultDueOnce(job) == job.kind = "slash" /\ job.pc = "ended"

\* post_iq_result follows a slash run that did not raise, and every resume.
ResultDue(job) ==
    \/ job.kind = "slash" /\ job.pc = "ended"
    \/ job.kind = "resume" /\ RunOver(job)

\* A plain message's reply, and the generic failure of it or of a slash run.
PostReply(t) ==
    /\ RunOver(task[t]) /\ ~ResultDue(task[t])
    /\ task' = [task EXCEPT ![t] = IdleTask]
    /\ UNCHANGED <<sess, click, outside>>

\* post_iq_result loads the session ...
LoadResult(t) ==
    /\ ResultDue(task[t])
    /\ \/ task' = [task EXCEPT ![t].pc = "show", ![t].view = sess, ![t].fresh = TRUE]
       \/ "db" \in Faults /\ task' = [task EXCEPT ![t] = IdleTask]
    /\ UNCHANGED <<sess, click, outside>>

\* ... and posts the form if it is still waited for ...
PostForm(t) ==
    /\ task[t].pc = "show"
    /\ task[t].view.gate = "PENDING"
    /\ form' = TRUE
    /\ task' = [task EXCEPT ![t].pc = "note"]
    /\ UNCHANGED <<begun, sess, click, docs, thanked>>

\* ... or else the reply.  Chat may refuse the message, which is logged and
\* swallowed.
PostText(t) ==
    /\ task[t].pc = "show"
    /\ task[t].view.gate # "PENDING" \/ "post" \in Faults
    /\ task' = [task EXCEPT ![t] = IdleTask]
    /\ UNCHANGED <<sess, click, outside>>

\* IQ_TAILOR_CARD_MSG, which nothing reads: an append with no key of the model.
NoteForm(t) ==
    /\ task[t].pc = "note"
    /\ AppendBestEffort(t, NoDelta, IdleTask)
    /\ UNCHANGED outside

\* The instance dies: tasks and handlers are in memory only.
Crash ==
    /\ "crash" \in Faults
    /\ task' = [t \in Tasks |-> IdleTask]
    /\ click' = [h \in Clicks |-> IdleClick]
    /\ UNCHANGED <<sess, outside>>

Run(t) ==
    \/ Seed(t) \/ Start(t) \/ Message(t) \/ Gate(t) \/ Research(t) \/ Structure(t)
    \/ AssembleNothing(t) \/ Assemble(t) \/ Copy(t) \/ CopyFailed(t) \/ Fill(t)
    \/ Record(t) \/ Say(t)

Post(t) == PostReply(t) \/ LoadResult(t) \/ PostForm(t) \/ PostText(t) \/ NoteForm(t)

SubmitAny(h) == \E choice \in Choices : Submit(h, choice)

Handle(h) == \E t \in Tasks : Acknowledge(h, t)

Next ==
    \/ \E t \in Tasks : SlashIq(t) \/ PlainMessage(t) \/ Run(t) \/ Post(t)
    \/ \E h \in Clicks : SubmitAny(h) \/ Handle(h)
    \/ Exit
    \/ Crash

Spec == Init /\ [][Next]_vars

\* The tasks and handlers run on; the person submits the form shown.  Nothing makes
\* the person start, write or leave, or the process crash.
Fairness ==
    /\ \A t \in Tasks : WF_vars(Run(t) \/ Post(t))
    /\ \A h \in Clicks : WF_vars(SubmitAny(h)) /\ WF_vars(Handle(h))

FairSpec == Spec /\ Fairness

-------------------------------------------------------------------------------
\* Properties

\* Type correctness of the session, the copies of it and the dossiers.
TypeOK ==
    /\ begun \in BOOLEAN /\ form \in BOOLEAN
    /\ sess \in States
    /\ task \in [Tasks ->
          [pc: Stages, kind: {"none", "slash", "plain", "resume"},
           work: {"none", "default", "iq"}, view: States, fresh: BOOLEAN,
           doc: 0 .. MaxDocs, tries: 0 .. (Attempts - 1)]]
    /\ click \in [Clicks ->
          [pc: {"idle", "append"}, choice: Choices \cup {"none"}, view: States,
           fresh: BOOLEAN]]
    /\ docs \in Seq(Profiles \cup {Blank}) /\ Len(docs) <= MaxDocs
    /\ thanked \subseteq Choices

\* "The LLM stages only run once the user has submitted (or skipped) the form": no
\* research is stored and no dossier copied before a submission was acknowledged.
FormFirst ==
    sess.brief # NoBrief \/ sess.profile # NoProfile \/ docs # <<>> => thanked # {}

\* An acknowledged choice may get lost, since its append is best effort; then the
\* thread still waits for the form, and never goes on with a tailoring that nobody
\* was thanked for.
TailoringKept ==
    sess.active = "iq" /\ thanked # {} => sess.gate = "PENDING" \/ sess.tailor \in thanked

\* What the completed thread links to was researched, if it was, and structured
\* under the tailoring the thread stores, whatever runs and submissions overlapped,
\* unless it was not filled at all.
DossierTailored ==
    sess.done =>
        /\ sess.link \in DOMAIN docs
        /\ \/ docs[sess.link] = Blank
           \/ /\ docs[sess.link].lens \in {Lens(sess.tailor), "none"}
              /\ docs[sess.link].framing = Lens(sess.tailor)

\* "A re-run in the same thread reports the existing doc": once completed, the
\* thread keeps the link it completed with until it is left.
LinkKept ==
    [][sess.done /\ sess'.active = "iq" => sess'.done /\ sess'.link = sess.link]_vars

\* Undisturbed, a thread that waits for the form shows one ...
FormFollows == (sess.gate = "PENDING") ~> (form \/ sess.gate = "RESOLVED")

\* ... and a submitted form ends in the dossier of the company, filled as tailored.
DossierFollows ==
    (sess.gate = "RESOLVED")
        ~> /\ sess.done
           /\ docs[sess.link] = [lens |-> Lens(sess.tailor), framing |-> Lens(sess.tailor),
                                 named |-> TRUE]
===============================================================================
