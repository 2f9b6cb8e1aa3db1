# Workspace Agent — a TLA+ verification project

Specifications, model-checking configurations and machine-checked proofs for the
Workspace Agent of this repository: a Google Chat back end (FastAPI, Google ADK)
that runs LLM workflows (`/meeting`, `/rfi`, `/iq`) over persisted sessions, and the
two MCP servers that act on Google Workspace for it.

    tlc -workers 2 -config RfiThread.cfg MCRfiEngine.tla     # one run
    tlapm RfiEngineProofs.tla                                # one module's proofs

`PROJECT.json` lists the runs, the mutants that show each property can fail, the
source lines every definition translates, the hazards and the theorems.

## 1. Inventory

| Part | State it keeps | Operations | Talks to |
|---|---|---|---|
| Chat dispatch (`chat/dispatch.py`, `events.py`, `main.py`) | none | route a webhook: reserved command, slash command (authorize, schedule), plain message (resolve session, schedule), card click | access store, session store, runner, card layer |
| Access control (`access.py`, `access_store.py`) | table `workflow_access_rules`; one TTL cache per instance | `load`, `grant`, `revoke`, `invalidate`, `authorize` | database |
| Access administration (`chat/reserved.py`, `manage_access.py`) | none | `/grant`, `/revoke`, `/list-access`, the break-glass CLI | access store |
| Session store (`sessions.py`) | one ADK session per (user, thread), with a time of last update | `resolve` (get, delete, create), `clear` | ADK session service |
| Background runner (`chat/runner.py`) | in-process background tasks | slash run, plain run, `_run_agent` | ADK, card layer, Chat |
| Card layer (`chat/cards/*`) | cards on display; state in the session | post a form, handle its submit, resume | session service, runner |
| RFI workflow (`workflows/rfi_engine`, `cards/rfi.py`) | session keys `RFI_*` | parse, scope form, research, gap form, assemble | action server |
| Meeting workflow (`workflows/meeting_engine`, `cards/meeting.py`) | session keys `MTG_*` | parse, owner form, fan-out to calendar and drafts, invites | both servers |
| IQ workflow (`workflows/iq_engine`, `cards/iq.py`) | session keys `IQ_*` | research, structure, copy and fill a dossier, tailoring form | action server |
| MCP client (`mcp_client.py`) | none | call a tool with up to three attempts | both servers |
| Action server (`mcp-servers/action-mcp`) | Drive files | upload, dump, fill, docs/sheets writes; `_retry.py` repeats transient failures | Google APIs |
| Context server (`mcp-servers/context-mcp`) | calendars, drafts | per-user reads, calendar events, drafts | Google APIs |

How they interact: a webhook returns at once and schedules a background task in the
same process. The task runs an ADK pipeline whose stages read the session loaded at
the run's start and append one event each, with the keys they set. A workflow that
needs the person sets a key to `PENDING` and lets its remaining stages skip; after
the run, whoever posts the result looks at the session and posts a form. The form's
handler loads the session, appends what was typed and schedules a resume, which runs
the whole pipeline again. Cloud Run may run several instances, and may kill any of
them.

What is hard in it, and what each part must get right:

- **Access**: a load reads the clock, then the table, then stores. Writes on the
  same instance, on a peer and from the CLI come in between. *Right* means that a
  decision is never older than the TTL.
- **Sessions**: get, delete and create are three awaits; a run, a click and a
  message work on copies of one session. *Right* means that no copy overwrites what
  another one appended, that nothing reaches a session from one that was dropped
  before it, and that only those run a workflow who were let start it.
- **RFI**: two suspensions, runs and submissions that overlap, fills that are lost,
  retried or fail after they wrote. *Right* means that nothing the person typed is
  lost, that the file holds what the session says, that nobody fills a template
  while a form is out, and that the thread ends.
- **Meeting, IQ**: the same pattern, with effects (calendar events, drafts, dossier
  copies) that are not idempotent. *Right* means at most one of each.
- **MCP client**: a retry after an ambiguous failure runs a tool twice. *Right*
  means that "done" is said only of what was done, and that a call ends.

- **Docs**: the end of a document is read in one call and written at in the next.
  *Right* means that a text reported as appended is there, once, in its styles.

`PROJECT.json` lists every hazard at its line, with the properties that look at it
or a note why none does.

## 2. Modules

| Module | Models |
|---|---|
| `AccessPolicy` | the pure part of authorization: rows to policy to decision |
| `AccessPromise` | what the store promises, with no cache and no processes |
| `AccessStore` | instances with caches, loads that await, `/grant`, `/revoke`, CLI, restarts; implements `AccessPromise` |
| `AccessStoreProofs` | theorems about `AccessStore` |
| `MCAccessStore` | its small instances |
| `RfiPipeline` | the stages of `/rfi` as functions of the session state |
| `RfiEngine` | one `/rfi` thread: tasks, clicks, forms, fills, files, faults |
| `RfiEngineProofs` | theorems about `RfiEngine` |
| `MCRfiEngine` | its small instances |
| `RfiDocument` | `RfiEngine` with the customer's document: where the response file has the answers |
| `MCRfiDocument` | its small instance |
| `MeetingPipeline` | the stages of `/meeting` as functions of the session state |
| `MeetingEngine` | one `/meeting` thread: tasks, the owner form, reminders, faults |
| `MeetingEngineProofs` | theorems about `MeetingEngine` |
| `MCMeetingEngine` | its small instances |
| `InviteDialog` | the invite dialog of a completed thread, and the server's attendee update |
| `InviteDialogProofs` | theorems about `InviteDialog` |
| `MCInviteDialog` | its small instances |
| `IqPipeline` | the stages of `/iq` as functions of the session state |
| `IqEngine` | one `/iq` thread: tasks, the tailoring form, dossiers, faults |
| `IqEngineProofs` | theorems about `IqEngine` |
| `MCIqEngine` | its small instances |
| `ChatSessions` | dispatch, access administration and the session store together: requests, their sessions and their runs |
| `ChatSessionsProofs` | theorems about `ChatSessions` |
| `MCChatSessions` | its small instance |
| `CallPromise` | what a caller may rely on of a tool call |
| `McpCall` | one tool call: attempts, the server's side, timeouts and drops; implements `CallPromise` |
| `McpCallProofs` | theorems about `McpCall` |
| `MCMcpCall` | its small instance |
| `DocAppend` | appends to one document: batches by index, styles, retries, the plain-text fallback |
| `DocAppendProofs` | theorems about `DocAppend` |
| `MCDocAppend` | its small instance |

The engines contain what they need of the two lower layers: a thread's session that
may be dropped or replaced at any time, and tool calls that keep `CallPromise`.
`ChatSessions` and `McpCall` look at these layers in full. `AccessStore` says when a
decision of `authorize()` may be stale; in `ChatSessions` it is taken from the
table.

### AccessStore

`table`, `cache` and `clock` are the table, `AccessStore._cache` of every instance
and `time.time()`. `req` is a call of `authorize()`; its stages are the awaits of
`load()`: the hit returns at once (`LoadHit`); a miss remembers the clock
(`LoadMiss`), reads the rows (`ReadRows`), and stores and decides in one step, since
nothing is awaited there (`StoreAndDecide`). `Grant` and `Revoke` are the commit;
`DropEntry` is the `pop` that follows it. Rows of an unknown type may be in the
table, since the code expects them there, and no operation can add or remove one. A
revoke that removes no row changes nothing and drops nothing. `CliWrite` is the CLI,
whose cache dies with its process. `Restart` is an instance that is killed.
`lastHeld` is a history variable: when the table last had exactly these rows.
Comparison of addresses and domains is by identity: trimming and lower case are left
out.

### RfiPipeline and RfiEngine

A session is the record `sess` of the keys the workflow reads. An answer is known by
where it came from: the research is sure of it (`"ai"`), drafted something but
flagged it (`"draft"`), found nothing (`"gap"`), or a person typed it (`"human"`).
`RfiPipeline` has one operator per stage that gives the keys the stage sets, so that
it says nothing about who runs it.

`RfiEngine` runs it. A task is one of the runner's background tasks: `slash` (the
first run), `plain` (a message in the thread) or `resume` (after a form). It holds
the copy of the session that the ADK runner loaded, `view`, and `fresh`, which
becomes false as soon as anyone else appends: the database session service of the
pinned ADK (2.1.0) refuses to append to a session that was modified in storage after
it was loaded. This refusal (`CanAppend`, `Stale`) is the one fact about a library
the model depends on. A refused or failing append in a stage raises out of the run;
in `_append_state` it is logged and forgotten (`Acknowledge`, `NoteForm`). `click`
is a submit handler between its load and its append. `fill` is a call of
`fill_rfi_answers` on the server: it looks the response file up, writes or creates,
and answers whoever still waits. `LoseCall` takes the waiting task away and leaves
the call running, as a dropped connection or a client timeout does; the model lets a
dropped call be repeated as often as there are `Fills` (the code: three attempts).
`drive` holds the response files. `asked` and `thanked` are history: the questions a
gap form has put to the person, and those whose typed answers were acknowledged by
the latest submission.

Faults are switched on by kind: `llm` (the parser raises), `db` (the database
fails), `fill` (calls are lost, fail or die; creates are repeated), `post` (Chat
refuses), `crash` (the instance dies with its tasks and handlers, while the server
works on).

Not in the model: the text of questions and answers, the order of research batches
(the stage returns an entry per question whatever they do), the advisory gate (its
verdict is stored and read by nobody), and the response file's name (two threads
with RFIs of one name share a file).

### RfiDocument

`RfiEngine` knows a response file by the answers it holds. `RfiDocument` says where
they are: `Response` is the customer's document after `fill_rfi_answers` has gone
through the payload, for any choice of anchors by the parser. The anchor of a
question is a cell of a sheet or table, a paragraph, perhaps beyond the last, or
nothing readable; paragraphs are counted in the document as the earlier answers have
left it. The state and the steps are those of `RfiEngine`. Left out are the stripping of
markdown, and a paragraph with a negative number, which Python counts from the end.

### MeetingPipeline and MeetingEngine

They are built like the RFI pair. `sess` has the keys the meeting workflow reads:
the parse, the gate's verdict on owners and dates (`verdict`) and on sources
(`failed`), the owner gate's state, what the fan-out derived from the parse, the
recorded reminder ids, and the marker of completion. An item is known by its owner
and due date: missing (`"none"`), found by the parser, or typed in the form. The
parser's answer is any list of items, or no parse. At most one form is out per
thread, since only the first run posts one, so `form` is a flag and the items shown.

`calendar` counts the reminders of an item by the kind of due date they were created
for, which tells a reminder from an outrun parse from one of the form's. Nobody
reads the calendar in this workflow, so one call is one step (`CreateReminder`),
with the outcomes its transport can have: answered; lost before or after the insert,
and then repeated or given up; answered by an error text. The items are done one
after the other, and one event at the end records the ids (`RecordReminders`). The
assembler is a language model with a set of tools and a prompt that divides its work
into modes; the model takes it to obey the mode (`AssembleNothing`, `Assemble`), and
to succeed, report a failure, or raise. `made` is history: the items its last
artifacts were made of. `asked`, `thanked` and `told` are history too: items a form
has shown, assignments acknowledged, and whether someone was answered "Please try
again".

### InviteDialog

A submission of the dialog is a background task: it loads the session, and then, for
every chosen item with a recorded id, resolves the people picked from the directory
and calls the server, which reads the event (`Get`), merges and writes it back
(`Patch`) and answers with a text. A lost call goes on at the server while the
transport repeats it. `Calls` bounds the calls the server works on at once, and
`Picks` what may be chosen in the dialog. Two history variables say where reads and
writes of one event got between each other: an item is in `clash` from when an update
meets another there that adds different people until none is at work on it, and
`overrun` has those an update took off in a clash. The module is apart from `MeetingEngine` because it needs of the thread only that it exists, and
which ids are recorded.

### IqPipeline and IqEngine

They are built like the RFI pair, with one form that every new thread waits for.
What the person chose in it steers the research and the structuring; the model calls
it the lens, and follows it: a research note is known by the lens it was made under
and whether the state named the company, a profile by those of its research note and
the lens it was structured under, and a dossier by the profile it was filled from.
"defaults" is the lens of a skipped form. `docs` are the copies of the template on
the Shared Drive; each attempt of `copy_file` that reaches the Drive makes one
(`Copy`), and `Fill` replaces all placeholders in one update or none. The run is
marked completed after `Fill`, however that ended (`Record`), since the code only
warns. `thanked` is history: the choices that "Researching with …" was said of.
Which stage runs on an event is decided from the view of that run. Left out: the
search agent's sub-calls, the texts, and the fields of a profile.

### ChatSessions

`req` is a request with the run it schedules: a plain message, an `/exit`, or a
slash command. `Get`, `Delete` and `Create` are the awaits of `resolve()` and
`clear()`, each a transaction; `Load`, `AppendEvent` and `EndRun` are the run.
`Finish` stands for an error reply as for an answer. `SlashCommand` has the
authorization, in the one step the code takes it in from this module's point of
view; `Anchor` posts the message that opens the thread of a slash command.
`AdminCommand` is `/grant` and `/revoke`. `mixed` and `own` tell whether an event
belongs to the session it is stored in; `cleared` remembers whom `authorize()` let
start what. Time passes in steps (`Tick`) that are long for a request and short for
the TTL; the step assumes that no run is without an event for a whole TTL (30
minutes by default). The engines do not assume it: there a session may be gone at
any time. Whether the anchor's thread has a session already cannot be excluded,
since anybody who sees it may write in it before the session is created. Clicks on
cards, which go on with a workflow by the thread they are in, are left to the engines.

### McpCall and CallPromise

`Open` opens an MCP session for the attempt and has the tool called, or fails on the
way. `server` is what each attempt set going; it works on when the client has left.
The client ends its wait by an answer, a lost connection or a timeout; some losses
are retried ("drop") and some are not ("broken"). Exceptions come in
groups, as the task groups of the client raise them, and the code takes a group for
transient if one member is (`IsTransient`). `CallPromise` is what callers have:
"done" is only said of work that was done, at most `Attempts` are made, an exception
says nothing, and the call ends.

### DocAppend

The document is a sequence of UTF-16 code units, which is what the service's indices
count; the code counts characters. A unit knows the call, line and character it
comes from. A paragraph's style is kept at the newline that ends it. `Batch` is one
`batchUpdate`: the insert at the index that was read, then styles over ranges
computed from the text alone; a refused batch changes nothing. Inserted text takes
after what it is put behind, as the service documents. Writes are repeated with the
same index (`Again`, `retry_on_transient`) and a refused styled batch falls back to
the raw text at an index read anew (`Fails`). Meanwhile the other call does the
same, and a person types or deletes at the top. What is external here is the
service: that batches are atomic, and how styles spread.

## 3. What the runs check

| Run | Checks | Bounds |
|---|---|---|
| `AccessCaches` | `TypeOK`, `CacheBacked`, `DecisionFresh`, `ImplementsPromise` | 2 instances, 1 load, 1 writer and the CLI, a row of an earlier schema, TTL 1, clock to 2 |
| `RfiThread` | `TypeOK`, `NoFillWhilePending`, `GapsWereAsked`, `CompletedFileHolds`, `ThankedSavedOrAsked`, `HumanWorkKept`, `HintIsTrue` | 1 question, 2 tasks, 1 click, 2 fills, replies, exits, all faults |
| `RfiDoubleSubmit` | `PendingFormPosted` | 1 question, 2 tasks, 2 clicks, no faults |
| `RfiCompletes` | `AnsweredInPlace`, `Completes` | 2 questions, one shown per form, 2 tasks, 1 click, no faults; 2 cells, 2 paragraphs, every choice of anchors |
| `MeetingThread` | `TypeOK`, `IncompleteWereAsked`, `FormIsReflected`, `AssignmentsKept`, `RecordedExist`, `RemindersOnlyWhenClear` | 1 item, 2 tasks, 1 click, replies, exits, all faults |
| `MeetingCompletes` | `MeetingEnds` | 2 items, 2 tasks, 1 click, no faults |
| `InviteDialog` | `OnlyTheChosen`, `InvitedUnlessRefused`, `DroppedOnlyInClash` | 2 items, 2 people, 2 submissions with 4 choices each, 3 calls at the server, 2 attempts, all faults |
| `IqThread` | `TypeOK`, `FormFirst`, `TailoringKept`, `DossierTailored`, `LinkKept` | 1 tailoring or a skip, 2 tasks, 1 click, 2 dossiers, replies, exits, all faults |
| `IqCompletes` | `FormFollows`, `DossierFollows` | 1 tailoring or a skip, 2 tasks, 2 clicks, 3 dossiers, no faults |
| `Sessions` | `TypeOK`, `RunsAuthorized`, `NothingCarriedOver`, `WorkflowKept` | 2 users, 1 workflow, 1 thread, 3 requests, TTL 1, all faults |
| `McpCall` | `NoConcurrentRerun`, `ImplementsPromise` | 3 attempts, both kinds of call |
| `DocAppend` | `ReportedIsThere`, `TwiceOnlyWhenLost`, `StyledAsWritten` | 2 calls, one with a heading and bold text and one with a wide character, 3 attempts, 1 lost answer per call, 1 typed character |

Why the bounds are enough for the question asked: two of everything that races (two
instances; a load and two writers; two submissions and their resumes; a resume and a
reply; a lost fill and its retry; two messages and an `/exit`; two appends and a
person), a clock that passes the TTL once, a form that shows fewer questions than
there are where that matters, two attempts in the engines where the code has three
(first, middle and last differ only in the number; `McpCall` has all three), and
three of the four attempts of `retry_on_transient`. One question or item is enough
where the property is about each alone; what one does to another is in the runs with
two (`RfiCompletes`, `MeetingCompletes`, `InviteDialog`, `DocAppend`). `MaxForms`
bounds the forms on display, `MaxFiles` the files on the Drive, `MaxDocs` the
dossiers, `MaxEvents` the reminders of one item and kind of date, `MaxClock` the
clock, `MaxTyped` what the person typed, and `MayLose` the answers a call loses. In
`IqCompletes` `MaxDocs` is above what two submissions can copy, so that the bound
holds nobody up. In `Sessions` one thread is enough, since sessions of different
threads share nothing; two users share the thread. Every module lets the system stop
(the person goes away, the clock is at its bound), so deadlock is not an error.

What holds, and was not obvious:

- A load that stores its rows after a concurrent write dropped the entry does cache
  stale rows, but never for longer than the TTL counted from the load's start: the
  code computes the expiry from the clock it read *before* the await.
- No submission, however many are handled at once, undoes another, and no resume
  researches over what a person typed. It is the refusal of stale copies that makes
  this so, not the `PENDING` check in the handlers.
- With one submission handled at a time, an acknowledged answer is saved or asked
  again, and the hint that the answers are saved is true, with every fault switched
  on.
- A plain message's run and the owner form's submit may overlap in any way:
  reminders, drafts and the stored parse still agree, and an acknowledged assignment
  stays.
- A call repeated beside the lost one adds nobody to an event who was not chosen,
  and drops nobody: both add the same people to what either found. What drops people
  is two updates that add different ones, or a third that began before such two ended.
- Research and structuring under different tailorings never meet in the dossier a
  completed `/iq` thread links to, though several dossiers may be copied.
- A session never receives an event of a run that was at work on an earlier one of
  the same thread, although both have the same id: an append to a session that was
  created after the copy was loaded is refused as stale.
- A text reported as appended is in the document, whatever was repeated in between;
  it is there twice only if an answer was lost.

### Deviations

Where the code does not do what a reader would expect. None is kept as a run; each
is reproduced by changing a cfg as said.

Access and dispatch:

- Rows of an unknown type are dropped one by one, so a table of nothing but such
  rows reads as empty, and an open command lets everyone in (`access_store.py:155`,
  against `access.py:92`). `RulesAuthoritative` therefore reads the docstring's matrix
  on the rows a `/grant` can make; read on all rows, it fails with `DefaultMode` open.
- A plain message continues the workflow of the thread without a new authorization
  (`dispatch.py:141`): a user whose right was revoked keeps the thread until it
  expires.
- "It will simply not be reused next turn" (`sessions.py:171`) is not so: the next
  message finds the session within its TTL and continues it.
- "Typing a new slash command resets the conversation" (`README.md:248`): a slash
  command opens a thread of its own, and the session of the thread it was typed in
  stays.
- Of two plain messages in a thread without a session one may be answered by an
  error, as both create it. A message written in the new thread of a slash command
  before its session is created makes one of the two fail.
- A run scheduled before an `/exit` loads whatever session the thread has by then,
  which may be one of another workflow.

MCP client:

- A group of exceptions is transient if one member is (`mcp_client.py`): a tool's
  own error with a connection that drops in the teardown is repeated, though the
  server has answered.

RFI:

- A reply in a thread whose run raised suspends it at a form that nobody posts
  (`runner.py:223`, `rfi.py:373`): `PendingFormPosted` with replies and a parser
  that may raise.
- A form shows at most 20 gaps and its submit resolves them all, so the gaps past
  the limit are never asked (`rfi.py:157`, `research.py:254`): `GapsWereAsked` with
  two questions and `FormLimit = 1`.
- Two fills that overlap or a create that is repeated leave two response files
  (`binary_io.py:132`, against `rfi.py:367`): `OneResponseFile` with `Faults =
  {"fill"}` and two fills.
- Of two gap submissions handled at once the second is refused as stale, thanked all
  the same, and its resume may then end with the hint that its answers are saved
  (`common.py:65`, `rfi.py:372`): `RfiThread` with two clicks violates `HintIsTrue`.
- A form submitted in the instant between its post and the note of its message name
  is refused. The RFI handler starts its resume without the answers (`rfi.py:403`);
  the meeting's replaces the form by "Please try again", with nothing left to try
  again with (`meeting.py:331`).
- An answer inserted after a paragraph moves the paragraphs below it, and the next
  paragraph's anchor is looked up after that (`docx.py:77`). Of a Word document's
  questions answered in order every one but the first gets its answer too far up,
  against "answer inserted next line" (`rfi/__init__.py:63`): in `RfiCompletes`,
  `AnsweredBelow` fails.
- An answer whose anchor names no cell or paragraph is skipped, and counted as
  written and answered all the same (`docx.py:63`, `rfi/__init__.py:144`,
  `agents.py:252`).

Meeting:

- A message written while the first run creates reminders has them created again
  (`agents.py:328`): `RemindersOnce` with two tasks and replies. So has a
  `create_calendar_event` that timed out after its insert (one task, `Faults =
  {"call"}`).
- Two messages that were scheduled before an `/exit` may run in the session a third
  one creates after it, and parse there before its form is submitted: the old form
  then says nothing of the items the last run completes. `IncompleteWereAsked` is
  about the meeting's own session for this reason; without its first line it fails
  with three tasks.
- When the parser stores no parse, the owner gate waits for a form that cannot be
  built (`meeting.py:733`), and only leaving the thread ends the wait.
- Two updates of one event at once lose the attendees of one (`calendar.py:128`),
  against the tool's "existing attendees are preserved" (`calendar.py:103-104`): run
  `InviteDialog` violates `AttendeesPreserved`, which says just that. So those reported
  as invited need not be there: the exception of `overrun` in `InvitedUnlessRefused`.
- The attendee tool's error text is taken for success and reported as "invited"
  (`meeting.py:689`), hence the exception of `refused` there.

IQ:

- The assembler is called idempotent (`agents.py:236`), but every attempt of the
  copy that reaches the Drive makes a dossier: a timed-out one leaves up to three.
- `replace_text_batch` answers a failure with a text that nobody reads
  (`agents.py:313`): a blank dossier is reported as ready, without even the warning.
- An answer of the research without a text still ends in a "ready" dossier.
- The append of the company is best effort (`iq.py:47`): lost, the research has no
  company named.
- An `/iq` without a company runs nothing, and a plain message after it suspends the
  thread at a form that nobody posts (`agents.py:199`). Both are why `FormFollows`
  and `DossierFollows` are checked without replies and faults.

Documents:

- Indices are characters where the service counts UTF-16 units (`docs.py:169`): each
  astral character shifts the styles after it in its own text by one unit.
  `StyledAsWritten` is therefore about texts without them.
- "Anything else is inserted as plain text" (`docs.py:213`): a batch at a stale
  index, or a repeated one, has its plain paragraphs take after a heading around
  them. A stale index may also put a text inside another.
- "Error" or an exception may be reported of a text that is there, when the answer
  was lost.

### Fairness

`FairSpec` assumes weak fairness of every running task, of the server and of a
handler (the event loop schedules them), of the first `/rfi` and of submitting a
form on display: a person who uses the workflow. Strong fairness is assumed of one
thing: a submission that can be saved is saved some time. Without it a person could
submit every form in the instant between its post and the note of its message name,
be refused, and be shown the form again, for ever. Nothing is assumed of messages,
exits or crashes, and `Completes` is checked without faults: with them the code
makes no such promise (a crash loses the task that would go on).

`MeetingEngine` assumes the same of tasks and handlers, of the first `/meeting` and
of submitting the form. Strong fairness would not help there: a refused submission
consumes the form. So its `MeetingEnds` ends in a thread that is completed, one the
gate blocked, or one whose person was told to try again.

`IqEngine` assumes weak fairness of tasks, handlers and of submitting the form; its
two properties begin at a state, so nothing need be assumed of the first `/iq`.

`McpCall` assumes weak fairness of the client alone, whose read timeout ends every
wait. Nothing makes a server finish or a connection drop; the call ends all the
same.

## 4. What is proved

Eight modules of proofs, each about every value of the constants: any number of
instances, users, tasks, submissions, calls and attempts, any sets of commands,
questions, items or people, any texts, documents and bounds, and any faults switched
on, unless a theorem says otherwise. The only assumptions are the named ones of the modules
(`PolicyAssumption`, `StoreAssumption`, `EngineAssumption`, `DialogAssumption`, and so
on: what is a natural number, what is a subset of what), which TLC evaluates on every
run. Every module but `DocAppendProofs`, which has three invariants side by side, has a
theorem `Invariance == Spec => []Inv`, from which its other theorems follow.

| Module | Theorem | States |
|---|---|---|
| `AccessStoreProofs` | `TypeCorrect` | `Spec => []TypeOK` |
| | `CachesAreBacked` | `Spec => []CacheBacked` |
| | `DecisionsAreFresh` | `Spec => []DecisionFresh` |
| | `RulesDecide` | `Spec => []RulesAuthoritative` |
| | `KeepsPromise` | `Spec => ImplementsPromise` |
| `ChatSessionsProofs` | `TypeCorrect` | `Spec => []TypeOK` |
| | `RunsAreAuthorized` | `Spec => []RunsAuthorized` |
| | `NothingIsCarriedOver` | `Spec => []NothingCarriedOver` |
| | `WorkflowIsKept` | `Spec => WorkflowKept` |
| `McpCallProofs` | `NoRerunWhileAtWork` | `Spec => []NoConcurrentRerun` |
| | `KeepsPromise` | `Spec => Promise!PromiseSafety` |
| `RfiEngineProofs` | `TypeCorrect` | `Spec => []TypeOK` |
| | `WrittenWhenSettled` | `Spec => []NoFillWhilePending` |
| | `FileIsKept` | `Spec => []CompletedFileHolds` |
| | `HumanWorkIsKept` | `Spec => HumanWorkKept` |
| | `GapsArePutToThePerson` | `Spec => []GapsWereAsked`, if a form has room for all questions |
| | `ThanksAreKept` | `Spec => []ThankedSavedOrAsked`, with one submission at a time |
| | `AwaitedFormIsPosted` | `Spec => []PendingFormPosted`, without replies, and with no faults but those of the model and the fill |
| | `TheHintIsTrue` | `Spec => HintIsTrue`, with one submission at a time |
| | `AnswersAreInPlace` | `Spec => []AnsweredInPlace`, of `RfiDocument` |
| `MeetingEngineProofs` | `TypeCorrect` | `Spec => []TypeOK` |
| | `FormComesFirst` | `Spec => []IncompleteWereAsked` |
| | `WhatWasTypedIsReflected` | `Spec => []FormIsReflected` |
| | `AssignmentsStayTyped` | `Spec => []AssignmentsKept` |
| | `IdsAreOfEvents` | `Spec => []RecordedExist` |
| | `RemindersWait` | `Spec => RemindersOnlyWhenClear` |
| `InviteDialogProofs` | `ChosenOnly` | `Spec => []OnlyTheChosen` |
| | `NobodyIsDropped` | `Spec => DroppedOnlyInClash` |
| | `InvitedAreThere` | `Spec => []InvitedUnlessRefused` |
| `IqEngineProofs` | `TypeCorrect` | `Spec => []TypeOK` |
| | `FormComesFirst` | `Spec => []FormFirst` |
| | `ChoiceIsKept` | `Spec => []TailoringKept` |
| | `DossierIsAsChosen` | `Spec => []DossierTailored` |
| | `LinkStays` | `Spec => LinkKept` |
| `DocAppendProofs` | `ReportedTextIsThere` | `Spec => []ReportedIsThere` |
| | `TextIsNotRepeated` | `Spec => []TwiceOnlyWhenLost` |
| | `StylesAreAsWritten` | `Spec => []StyledAsWritten` |

The conditions are those under which the code keeps the promise at all. Each is the
other side of a deviation above: a form of 20 gaps, two submissions at once, and a
reply in a suspended thread or a form whose post fails.

**The access store.** `CacheBacked` and `DecisionFresh` are not inductive alone. A
cached policy is backed because the load that stored it read it from the table after
it began (`FillBacked`), and that holds because the table's history is exact: what the
table holds now was last held now, and nothing was last held in the future
(`HistoryExact`). A decision is fresh because it was made from a live entry or from a
load's own reading, and because histories only grow. The refinement of `AccessPromise`
takes one lemma per kind of step: a hit and a load's end are the promise's answer, the
table's writes are its writes, and the rest stutters. `RulesDecide` adds that what
`authorize()` makes of compiled rows is the docstring's matrix on the rows of a known
type, which is where a row of an unknown one neither grants nor denies.

**The session store.** What makes `NothingCarriedOver` inductive is that a copy which
may still be appended from is of the session that is stored (`FreshIsOwn`): `Delete`
makes all copies stale. `RunsAuthorized` needs that a stored session's workflow was
allowed to its user (`StoreAuthorized`), and that a plain message brings none along;
`WorkflowKept` needs the order of things in a new thread (`SlashAlone`, `SlashFirst`):
slash commands have threads of their own, and until the session of one is created
nobody is about to drop an expired one there. `RunsAreLive` and `WorkflowIsKept` rest
on the assumption in `Tick` that no run goes without an event for a whole TTL.

**The engines.** They share one argument. A copy that may still be appended from
equals the stored session, and any other is refused; so a step either leaves the
session or moves it on, and what a run does with a copy depends on how far that copy
had come (`Passed`, by stage). In the RFI and meeting engines a copy is moreover behind
the stored session (`Precedes`, which is transitive, and of which every stage and every
submit is a step); in the IQ engine it is enough that every copy is `Coherent`.

- RFI: answers change only from a gap to what was typed, and are final once the gap
  form is `RESOLVED` or `SKIPPED`. Hence all runs that reach the fill write the same
  (`Writes`), and `CompletedFileHolds` stands however they overlap. The four
  conditional theorems have invariants of their own on top: `GapsAsked` (a form with
  room for all shows all), `Acknowledged` (what is shown, being submitted, thanked and
  saved fit together), `Posting` (a form that is awaited is shown, being submitted,
  or on its way) and `Hinting` (a form on display, or a task that may yet post one, is
  the only one there is, so nothing is acknowledged between a last failed attempt and
  the hint that is posted for it).
- Meeting: a parse is `Frozen` once it is complete or its form was submitted, and only
  then does a run fan out; of a frozen parse every later copy has the same items. So a
  reminder has the due date of the stored parse (`Reflected`), and the assembler the
  items of the form. `Posed` says that the form that is up, or being submitted, asks
  for all the meeting lacks.
- IQ: in a coherent session everything researched or structured is under the lens of
  the tailoring that was chosen in it, and a run that fills a dossier has one nobody
  else fills or links to (`OwnDossier`).

**The invite dialog.** Everything a submission, a call or an event holds was chosen
(`Chosen`), and a request waits for one call at most, for its own item and addresses
(`Waiting`). Where no updates have clashed, those at work on an event add the same
people (`Alike`), so what one found is still there when it writes, and nothing has come
in but what it adds itself (`Fresh`): it drops nobody. That a reported person is on the
event, refused or overrun holds from the write on (`Told`), since an update takes
somebody off only in a clash, where `overrun` notes it.

**The tool call.** A second attempt is reached only through a failure that is
retried (`RetriedOnDrop`), and a caller is told of work after it was done
(`ToldTruly`). The map to `CallPromise` counts the attempts that ran to their end.

**Documents.** They are built by recursion over lines and questions, and the library's
induction theorems take an operator, which the provers cannot instantiate. What is
left is induction over a set: a set of numbers that holds 0 and the successor of each
of its members holds all (`Induction`, from the well-foundedness of < on the naturals).
With the set of the numbers a fact holds of, it gives that the recursive functions
exist and what they compute.

- `RfiDocument`: `Placing` says what holds of the response file after the turns of the
  first n questions, and each turn keeps it. Under `Upwards`, the paragraphs up to the
  one the last answer was put after are still where the customer had them, so the next
  answer finds its own; and it goes in above all question-answer pairs, which move
  down together.
- `DocAppend`: what a call says in a document goes with concatenation, so a batch puts
  the whole text somewhere in it, and typing changes nothing (`StepKinds`: to each
  call a step is idle, puts its text in, or loses its answer). Hence `There` (the text
  of an appended call stands in what it says) and `Once` (until an answer is lost, a
  call that is not appended says nothing). For the styles, each unit of a text without
  wide characters lies where the count of characters says (`TextInPlace`), the ranges
  of the lines do not meet (`PlacesApart`), and none reaches beyond the text
  (`OthersKeep`). `Laid` adds what keeps styles from spreading: as long as no batch
  landed early, neither the closing paragraph is a heading nor the unit before it
  bold, and that is all that inserted text could take over.

Only model-checked, and why:

- Liveness (`Completes`, `MeetingEnds`, `FormFollows`, `DossierFollows`, the end of a
  call in `ImplementsPromise` of `McpCall`): not in the reach of this prover.
- Every safety property of the runs is proved; where a theorem has a condition, the run
  checks the property on an instance that meets it.

## 5. Plan

Done: the access store, because every workflow is reached through it; the three
workflows, the RFI one first, which has all of the hard patterns in one; the invite
dialog; the session store composed with dispatch and access administration; the tool
call and its promise; appending to documents; the customer's document; and the proofs
of section 4.

Modules that could follow: `ResponseFile` (same-named RFIs of several threads),
`RfiResearch` (batches, semaphore and reconciliation, refining the research stage of
`RfiPipeline`), and pure modules for identity matching and draft splitting, each
against a reference definition.

## 6. Not modelled, and why

Formatting (markdown, cards, documents), payload parsing, authentication of the
webhook, logging, tracing and configuration change no state the properties look at.
What the language models answer is a choice among all answers. The services behind
the servers (Drive, Calendar, Gmail, Docs) are modelled by the effect of the calls
the code makes. The tools that only read (identity, directory, search, listing), and
those of docs, drive and sheets that are one call to the service, have no state of
their own: what can go wrong with them is in the transport, which is `McpCall`.
`move_file` alone reads a file's parents before it moves it, and nothing but a
language model calls it. No workflow calls `insert_text` or the sheets tools by a
fixed plan; the language models may.
