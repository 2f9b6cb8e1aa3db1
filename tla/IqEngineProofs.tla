----------------------------- MODULE IqEngineProofs -----------------------------
(***************************************************************************)
(* Proofs about IqEngine for any set of tailorings, any number of tasks    *)
(* and form submissions, and any set of faults.                            *)
(***************************************************************************)
EXTENDS IqEngine, SequenceTheorems, TLAPS

\* A dossier filled under the tailoring of s, if it is filled.
FilledFor(doc, s) ==
    doc = Blank \/ (doc.lens \in {Lens(s.tailor), "none"} /\ doc.framing = Lens(s.tailor))

\* What holds of every session that was ever stored: nothing is researched before the
\* form is submitted, and what is, is steered by the tailoring that was chosen in it.
Coherent(s) ==
    /\ s.gate # "RESOLVED" =>
          s.tailor = "none" /\ s.brief = NoBrief /\ s.profile = NoProfile /\ ~s.done
    /\ s.brief # NoBrief => s.brief.lens = Lens(s.tailor)
    /\ FilledFor(s.profile, s)

\* The form counts as submitted in n only as it does in s.
SameForm(s, n) == n.gate = "RESOLVED" => s.gate = "RESOLVED" /\ n.tailor = s.tailor

\* n is what a stage leaves of s.
Follows(s, n) ==
    /\ n \in States /\ Coherent(n) /\ n.active = s.active
    /\ s.gate # "none" => n.gate # "none"
    /\ s.done => n.done /\ n.link = s.link

\* How far a run has brought the session it works on, by its stage.
Passed(pc, v) ==
    /\ pc \in {"research", "structure", "assemble", "copy", "failed", "fill", "record"} =>
          v.gate # "none"
    /\ pc \in {"copy", "fill", "record"} => v.gate = "RESOLVED" /\ ~v.done

Jobs ==
    [pc: Stages, kind: {"none", "slash", "plain", "resume"}, work: {"none", "default", "iq"},
     view: States, fresh: BOOLEAN, doc: 0 .. MaxDocs, tries: 0 .. (Attempts - 1)]

Submissions ==
    [pc: {"idle", "append"}, choice: Choices \cup {"none"}, view: States, fresh: BOOLEAN]

\* A copy is coherent, as far as its run is; one that may be appended from is s.
JobOK(j, s) == Coherent(j.view) /\ Passed(j.pc, j.view) /\ (j.fresh => j.view = s)

\* A submission is under way only from a session that waited for it.
SubmissionOK(c, s) ==
    c = IdleClick \/ (c.choice \in Choices /\ c.view.gate = "PENDING" /\ (c.fresh => c.view = s))

CopiesOK ==
    /\ Coherent(sess)
    /\ \A t \in Tasks : JobOK(task[t], sess)
    /\ \A h \in Clicks : SubmissionOK(click[h], sess)

\* Who fills or records a dossier has one of its own, which nobody links to yet.
Filling(t) == task[t].pc \in {"fill", "record"}

OwnDossier ==
    \A t \in Tasks : Filling(t) =>
        /\ task[t].doc \in DOMAIN docs /\ FilledFor(docs[task[t].doc], task[t].view)
        /\ sess.done => task[t].doc # sess.link
        /\ \A u \in Tasks \ {t} : Filling(u) => task[u].doc # task[t].doc

\* A form counts as submitted in any copy only with a choice that was acknowledged.
Chosen(s, choices) == s.gate = "RESOLVED" => s.tailor \in choices

ChoicesThanked ==
    /\ Chosen(sess, thanked)
    /\ \A t \in Tasks : Chosen(task[t].view, thanked)
    /\ docs # <<>> => thanked # {}
    /\ sess.active = "iq" /\ (thanked # {} \/ \E h \in Clicks : click[h] # IdleClick) =>
          sess.gate # "none"

\* Before /iq there is nothing.
Unbegun ==
    ~begun =>
        /\ sess = NoSession /\ ~form /\ docs = <<>> /\ thanked = {}
        /\ \A t \in Tasks : task[t] = IdleTask
        /\ \A h \in Clicks : click[h] = IdleClick

\* The inductive invariant.
Inv == TypeOK /\ Unbegun /\ CopiesOK /\ OwnDossier /\ DossierTailored /\ ChoicesThanked

-------------------------------------------------------------------------------
\* What the stages make of a session

Keys == {"active", "company", "tailor", "gate", "brief", "profile", "done", "link"}

LEMMA StateFields ==
    ASSUME NEW s \in States
    PROVE  DOMAIN s = Keys
BY DEF States, Keys

\* Under a tailoring or without one there is a lens, and having none is not one.
LEMMA LensType == \A tailor : Lens(tailor) \in Lenses /\ Lens(tailor) # "none" /\ "none" \notin Lenses
BY EngineAssumption DEF Lens, Lenses

\* An event that sets nothing.
LEMMA NoDeltaFollows ==
    ASSUME NEW s \in States, Coherent(s)
    PROVE  Applied(s, NoDelta) = s /\ Follows(s, s) /\ SameForm(s, s)
<1>1. DOMAIN NoDelta = {}
  BY DEF NoDelta
<1>2. Applied(s, NoDelta) = s
  BY <1>1 DEF Applied, States
<1> QED BY <1>2 DEF Follows, SameForm

LEMMA SeedFollows ==
    ASSUME NEW s \in States, Coherent(s)
    PROVE  LET n == Applied(s, [company |-> TRUE])
           IN  Follows(s, n) /\ SameForm(s, n) /\ n.done = s.done
<1> DEFINE delta == [company |-> TRUE]
           n == Applied(s, delta)
<1>1. DOMAIN delta = {"company"} /\ delta["company"] = TRUE
  OBVIOUS
<1> HIDE DEF delta
<1>2. /\ n \in States /\ n.active = s.active /\ n.tailor = s.tailor /\ n.gate = s.gate
      /\ n.brief = s.brief /\ n.profile = s.profile /\ n.done = s.done /\ n.link = s.link
  BY <1>1, StateFields DEF Applied, States, Keys
<1> HIDE DEF n
<1>3. Follows(s, n) /\ SameForm(s, n) /\ n.done = s.done
  BY <1>2 DEF Follows, SameForm, Coherent, FilledFor
<1> QED BY <1>3 DEF n, delta

LEMMA GateFollows ==
    ASSUME NEW s \in States, Coherent(s)
    PROVE  LET n == Applied(s, TailorGated(s))
           IN  Follows(s, n) /\ SameForm(s, n) /\ n.gate # "none" /\ n.done = s.done
<1> DEFINE n == Applied(s, TailorGated(s))
<1>1. CASE s.gate = "RESOLVED" \/ s.done
  BY <1>1, NoDeltaFollows DEF TailorGated, Coherent
<1>2. CASE ~(s.gate = "RESOLVED" \/ s.done)
  <2> DEFINE delta == [gate |-> "PENDING"]
  <2>1. DOMAIN delta = {"gate"} /\ delta["gate"] = "PENDING"
    OBVIOUS
  <2>2. n = Applied(s, delta)
    BY <1>2 DEF TailorGated
  <2> HIDE DEF delta
  <2>3. /\ n \in States /\ n.active = s.active /\ n.tailor = s.tailor /\ n.gate = "PENDING"
        /\ n.brief = s.brief /\ n.profile = s.profile /\ n.done = s.done /\ n.link = s.link
    BY <2>1, <2>2, StateFields DEF Applied, States, Keys
  <2> HIDE DEF n
  <2>4. Follows(s, n) /\ SameForm(s, n) /\ n.gate # "none" /\ n.done = s.done
    BY <1>2, <2>3 DEF Follows, SameForm, Coherent, FilledFor
  <2> QED BY <2>4 DEF n
<1> QED BY <1>1, <1>2

LEMMA BriefFollows ==
    ASSUME NEW s \in States, Coherent(s), s.gate = "RESOLVED",
           NEW delta \in {Researched(s), [brief |-> NoBrief]}
    PROVE  LET n == Applied(s, delta)
           IN  Follows(s, n) /\ SameForm(s, n) /\ n.done = s.done
<1> DEFINE n == Applied(s, delta)
<1>1. PICK brief \in Briefs \cup {NoBrief} :
          delta = [brief |-> brief] /\ (brief # NoBrief => brief.lens = Lens(s.tailor))
  <2>1. s.company \in BOOLEAN
    BY DEF States
  <2>2. PICK brief : brief = [lens |-> Lens(s.tailor), named |-> s.company]
    OBVIOUS
  <2>3. brief \in Briefs /\ brief.lens = Lens(s.tailor)
    BY <2>1, <2>2, LensType DEF Briefs
  <2> QED BY <2>2, <2>3 DEF Researched
<1>2. DOMAIN delta = {"brief"} /\ delta["brief"] = brief
  BY <1>1
<1>3. /\ n \in States /\ n.active = s.active /\ n.tailor = s.tailor /\ n.gate = s.gate
      /\ n.brief = brief /\ n.profile = s.profile /\ n.done = s.done /\ n.link = s.link
  BY <1>2, StateFields DEF Applied, States, Keys
<1> HIDE DEF n
<1>4. Follows(s, n) /\ SameForm(s, n) /\ n.done = s.done
  BY <1>1, <1>3 DEF Follows, SameForm, Coherent, FilledFor
<1> QED BY <1>4 DEF n

LEMMA ProfileFollows ==
    ASSUME NEW s \in States, Coherent(s), s.gate = "RESOLVED"
    PROVE  LET n == Applied(s, Structured(s))
           IN  Follows(s, n) /\ SameForm(s, n) /\ n.done = s.done
<1> DEFINE n == Applied(s, Structured(s))
<1>1. PICK profile : profile = [lens |-> s.brief.lens, framing |-> Lens(s.tailor), named |-> s.brief.named]
  OBVIOUS
<1>2. s.brief.lens \in {Lens(s.tailor), "none"} /\ s.brief.named \in BOOLEAN
  <2>1. CASE s.brief = NoBrief
    BY <2>1 DEF NoBrief
  <2>2. CASE s.brief # NoBrief
    BY <2>2 DEF Coherent, States, Briefs
  <2> QED BY <2>1, <2>2
<1>3. /\ profile \in Profiles
      /\ profile.lens \in {Lens(s.tailor), "none"} /\ profile.framing = Lens(s.tailor)
  BY <1>1, <1>2, LensType DEF Profiles
<1>4. DOMAIN Structured(s) = {"profile"} /\ Structured(s)["profile"] = profile
  BY <1>1 DEF Structured
<1>5. /\ n \in States /\ n.active = s.active /\ n.tailor = s.tailor /\ n.gate = s.gate
      /\ n.brief = s.brief /\ n.profile = profile /\ n.done = s.done /\ n.link = s.link
  BY <1>3, <1>4, StateFields DEF Applied, States, Keys
<1> HIDE DEF n
<1>6. Follows(s, n) /\ SameForm(s, n) /\ n.done = s.done
  BY <1>3, <1>5 DEF Follows, SameForm, Coherent, FilledFor
<1> QED BY <1>6 DEF n

LEMMA RecordFollows ==
    ASSUME NEW s \in States, Coherent(s), s.gate = "RESOLVED", ~s.done, NEW doc \in 0 .. MaxDocs
    PROVE  LET n == Applied(s, Recorded(doc))
           IN  Follows(s, n) /\ SameForm(s, n) /\ n.done /\ n.link = doc /\ n.tailor = s.tailor
<1> DEFINE n == Applied(s, Recorded(doc))
<1>1. /\ DOMAIN Recorded(doc) = {"link", "done"}
      /\ Recorded(doc)["link"] = doc /\ Recorded(doc)["done"] = TRUE
  BY DEF Recorded
<1>2. /\ n \in States /\ n.active = s.active /\ n.tailor = s.tailor /\ n.gate = s.gate
      /\ n.brief = s.brief /\ n.profile = s.profile /\ n.done = TRUE /\ n.link = doc
  BY <1>1, StateFields DEF Applied, States, Keys
<1> HIDE DEF n
<1>3. Follows(s, n) /\ SameForm(s, n) /\ n.done /\ n.link = doc /\ n.tailor = s.tailor
  BY <1>2 DEF Follows, SameForm, Coherent, FilledFor
<1> QED BY <1>3 DEF n

\* The form comes before anything was researched.
LEMMA TailoredFollows ==
    ASSUME NEW s \in States, Coherent(s), s.gate = "PENDING", NEW choice \in Choices
    PROVE  LET n == Applied(s, Tailored(choice))
           IN  Follows(s, n) /\ n.done = s.done /\ n.gate = "RESOLVED" /\ n.tailor = choice
<1> DEFINE n == Applied(s, Tailored(choice))
<1>1. /\ DOMAIN Tailored(choice) = {"tailor", "gate"}
      /\ Tailored(choice)["tailor"] = choice /\ Tailored(choice)["gate"] = "RESOLVED"
  BY DEF Tailored
<1>2. /\ n \in States /\ n.active = s.active /\ n.tailor = choice /\ n.gate = "RESOLVED"
      /\ n.brief = s.brief /\ n.profile = s.profile /\ n.done = s.done /\ n.link = s.link
  BY <1>1, StateFields DEF Applied, States, Keys
<1> HIDE DEF n
<1>3. Follows(s, n) /\ n.done = s.done /\ n.gate = "RESOLVED" /\ n.tailor = choice
  BY <1>2 DEF Follows, Coherent, FilledFor, Blank
<1> QED BY <1>3 DEF n

\* A new session, and none.
LEMMA NewStateFields ==
    ASSUME NEW w \in {"none", "default", "iq"}
    PROVE  /\ NewState(w) \in States /\ Coherent(NewState(w)) /\ NewState(w).active = w
           /\ NewState(w).gate = "none" /\ ~NewState(w).done
<1>1. PICK n : n = NewState(w)
  OBVIOUS
<1>2. n = [active |-> w, company |-> FALSE, tailor |-> "none", gate |-> "none",
           brief |-> NoBrief, profile |-> NoProfile, done |-> FALSE, link |-> 0]
  BY <1>1 DEF NewState
<1>3. 0 \in 0 .. MaxDocs
  BY EngineAssumption
<1>4. n \in States /\ Coherent(n) /\ n.active = w /\ n.gate = "none" /\ ~n.done
  BY <1>2, <1>3 DEF States, Coherent, FilledFor, Blank
<1> QED BY <1>1, <1>4

-------------------------------------------------------------------------------
\* What a step does to the copies

\* The task, or submission, did not take part in the step, or its copy was made stale.
Kept(t) ==
    \/ task'[t] = task[t] /\ (task[t].fresh => sess' = sess)
    \/ task'[t] = [task[t] EXCEPT !.fresh = FALSE]

ClickKept(h) ==
    \/ click'[h] = click[h] /\ (click[h].fresh => sess' = sess)
    \/ click'[h] = [click[h] EXCEPT !.fresh = FALSE]

OthersKept(t) ==
    /\ task' = [u \in Tasks |-> task'[u]]
    /\ click' = [h \in Clicks |-> click'[h]]
    /\ \A u \in Tasks \ {t} : Kept(u)

\* The session is completed by the task that records its dossier.
Completes(t) ==
    /\ task[t].pc = "record" /\ task[t].view = sess /\ ~sess.done
    /\ sess'.link = task[t].doc /\ sess'.tailor = sess.tailor

\* A task takes a step of its run, or of what it posts.
Acts(t) ==
    /\ Follows(sess, sess') /\ SameForm(sess, sess') /\ (sess'.done => sess.done \/ Completes(t))
    /\ OthersKept(t) /\ \A h \in Clicks : ClickKept(h)
    /\ task'[t] \in Jobs /\ JobOK(task'[t], sess')
    /\ SameForm(task[t].view, task'[t].view) \/ SameForm(sess, task'[t].view)

LEMMA IdleTypes ==
    /\ IdleTask \in Jobs /\ IdleTask.pc = "idle" /\ ~IdleTask.fresh /\ IdleTask.view = NoSession
    /\ IdleTask.doc = 0 /\ IdleTask.tries = 0
    /\ IdleClick \in Submissions /\ ~IdleClick.fresh /\ IdleClick.pc = "idle"
    /\ [IdleClick EXCEPT !.fresh = FALSE] = IdleClick
    /\ [IdleTask EXCEPT !.fresh = FALSE] = IdleTask
<1>1. PICK n : n = NoSession
  OBVIOUS
<1>2. n \in States
  BY <1>1, NewStateFields DEF NoSession
<1>3. PICK j, c : j = IdleTask /\ c = IdleClick
  OBVIOUS
<1>4. j = [pc |-> "idle", kind |-> "none", work |-> "none", view |-> n, fresh |-> FALSE,
           doc |-> 0, tries |-> 0]
  BY <1>1, <1>3 DEF IdleTask
<1>5. c = [pc |-> "idle", choice |-> "none", view |-> n, fresh |-> FALSE]
  BY <1>1, <1>3 DEF IdleClick
<1>6. 0 \in 0 .. MaxDocs /\ 0 \in 0 .. (Attempts - 1)
  BY EngineAssumption
<1>7. /\ j \in Jobs /\ j.pc = "idle" /\ ~j.fresh /\ j.view = n /\ j.doc = 0 /\ j.tries = 0
      /\ c \in Submissions /\ ~c.fresh /\ c.pc = "idle"
  BY <1>2, <1>4, <1>5, <1>6 DEF Jobs, Submissions, Stages
<1>8. [j EXCEPT !.fresh = FALSE] = j /\ [c EXCEPT !.fresh = FALSE] = c
  BY <1>7 DEF Jobs, Submissions
<1> QED BY <1>1, <1>3, <1>7, <1>8

\* A task that is scheduled, idle, or over has no copy.
LEMMA EmptyHanded ==
    ASSUME NEW kind \in {"slash", "plain", "resume"}, NEW work \in {"none", "default", "iq"},
           NEW old \in Jobs, NEW how \in {"ended", "raised"}, NEW s, NEW v,
           NEW j \in {IdleTask, NewTask(kind, work), Over(old, how)}
    PROVE  /\ j \in Jobs /\ JobOK(j, s) /\ SameForm(v, j.view) /\ ~j.fresh
           /\ j.pc \in {"idle", "start", "ended", "raised"} /\ j.view.gate = "none"
<1>1. PICK i : i = IdleTask
  OBVIOUS
<1>2. PICK n : n = NoSession
  OBVIOUS
<1>3. n \in States /\ Coherent(n) /\ n.gate = "none" /\ i \in Jobs /\ i.view = n /\ ~i.fresh /\ i.pc = "idle"
  BY <1>1, <1>2, NewStateFields, IdleTypes DEF NoSession
<1>4. \/ j = i \/ j = [i EXCEPT !.pc = "start", !.kind = kind, !.work = work]
      \/ j = [i EXCEPT !.pc = how, !.kind = old.kind, !.work = old.work]
  BY <1>1 DEF NewTask, Over
<1>5. j \in Jobs /\ j.view = n /\ ~j.fresh /\ j.pc \in {"idle", "start", "ended", "raised"}
  <2>1. CASE j = i
    BY <1>3, <2>1
  <2>2. CASE j = [i EXCEPT !.pc = "start", !.kind = kind, !.work = work]
    BY <1>3, <2>2 DEF Jobs, Stages
  <2>3. CASE j = [i EXCEPT !.pc = how, !.kind = old.kind, !.work = old.work]
    <3>1. old.kind \in {"none", "slash", "plain", "resume"} /\ old.work \in {"none", "default", "iq"}
      BY DEF Jobs
    <3> QED BY <1>3, <2>3, <3>1 DEF Jobs, Stages
  <2> QED BY <1>4, <2>1, <2>2, <2>3
<1> QED BY <1>3, <1>5 DEF JobOK, Passed, SameForm

\* What holds of a task before it acts.
LEMMA TaskFacts ==
    ASSUME TypeOK, CopiesOK, NEW t \in Tasks
    PROVE  /\ task[t] \in Jobs /\ task[t].view \in States /\ sess \in States
           /\ Coherent(sess) /\ Coherent(task[t].view) /\ Passed(task[t].pc, task[t].view)
           /\ task[t].fresh => task[t].view = sess
           /\ DOMAIN task = Tasks /\ DOMAIN click = Clicks
           /\ Follows(sess, sess) /\ SameForm(sess, sess)
BY DEF TypeOK, CopiesOK, JobOK, Jobs, Follows, SameForm

\* The session is left alone and t goes on with some other job.
LEMMA AloneActs ==
    ASSUME TypeOK, CopiesOK, UNCHANGED <<sess, click>>, NEW t \in Tasks, NEW j \in Jobs,
           JobOK(j, sess), SameForm(task[t].view, j.view) \/ SameForm(sess, j.view),
           task' = [task EXCEPT ![t] = j]
    PROVE  Acts(t) /\ task'[t] = j
<1>1. task'[t] = j /\ OthersKept(t) /\ \A h \in Clicks : ClickKept(h)
  BY DEF TypeOK, OthersKept, Kept, ClickKept
<1>2. Follows(sess', sess') /\ SameForm(sess', sess') /\ sess' = sess
  BY TaskFacts
<1>3. JobOK(task'[t], sess')
  BY <1>1, <1>2
<1> QED BY <1>1, <1>2, <1>3 DEF Acts

\* Everybody else's copy is stale once t has appended.
LEMMA AppendActs ==
    ASSUME TypeOK, CopiesOK, NEW t \in Tasks, NEW j \in Jobs, JobOK(j, sess'),
           Follows(sess, sess'), SameForm(sess, sess'), sess'.done => sess.done \/ Completes(t),
           SameForm(task[t].view, j.view) \/ SameForm(sess, j.view),
           task' = [Stale(task) EXCEPT ![t] = j], click' = Stale(click)
    PROVE  Acts(t) /\ task'[t] = j
<1>1. task'[t] = j /\ OthersKept(t) /\ \A h \in Clicks : ClickKept(h)
  BY TaskFacts DEF Stale, OthersKept, Kept, ClickKept
<1> QED BY <1>1 DEF Acts

\* A run that raises keeps no copy.
LEMMA RaiseActs ==
    ASSUME TypeOK, CopiesOK, UNCHANGED <<sess, click>>, NEW t \in Tasks, Raise(t)
    PROVE  Acts(t) /\ task'[t].pc = "raised"
<1>1. PICK j : j = Over(task[t], "raised")
  OBVIOUS
<1>2. /\ j \in Jobs /\ JobOK(j, sess) /\ SameForm(sess, j.view) /\ task' = [task EXCEPT ![t] = j]
  BY <1>1, EmptyHanded, TaskFacts DEF Raise
<1>3. j.pc = "raised"
  BY <1>1, IdleTypes DEF Over, Jobs
<1> QED BY <1>2, <1>3, AloneActs

\* A stage emits its event.
LEMMA EmitActs ==
    ASSUME TypeOK, CopiesOK, NEW t \in Tasks, NEW next \in Stages, NEW delta, Emit(t, next, delta),
           Follows(task[t].view, Applied(task[t].view, delta)),
           SameForm(task[t].view, Applied(task[t].view, delta)),
           \/ Applied(task[t].view, delta).done => task[t].view.done
           \/ /\ task[t].pc = "record" /\ ~task[t].view.done
              /\ Applied(task[t].view, delta).link = task[t].doc
              /\ Applied(task[t].view, delta).tailor = task[t].view.tailor,
           next = "ended" \/ Passed(next, Applied(task[t].view, delta))
    PROVE  Acts(t) /\ task'[t].pc \in {next, "raised"}
<1> DEFINE n == Applied(task[t].view, delta)
<1>1. CASE Raise(t) /\ UNCHANGED <<sess, click>>
  BY <1>1, RaiseActs
<1>2. CASE /\ CanAppend(task[t])
           /\ sess' = Applied(sess, delta)
           /\ LET job == [task[t] EXCEPT !.pc = next, !.view = Applied(@, delta)] IN
              task' = [Stale(task) EXCEPT ![t] = IF next = "ended" THEN Over(job, next) ELSE job]
           /\ click' = Stale(click)
  <2>1. task[t].view = sess /\ sess' = n
    BY <1>2, TaskFacts DEF CanAppend
  <2>2. PICK job : job = [task[t] EXCEPT !.pc = next, !.view = n]
    OBVIOUS
  <2>3. PICK j : j = IF next = "ended" THEN Over(job, next) ELSE job
    OBVIOUS
  <2>4. task' = [Stale(task) EXCEPT ![t] = j]
    BY <1>2, <2>2, <2>3
  <2> HIDE DEF n
  <2>5. /\ Follows(task[t].view, n) /\ SameForm(task[t].view, n)
        /\ (n.done => sess.done) \/ Completes(t)
    BY <2>1 DEF n, Completes
  <2>6. job \in Jobs /\ job.pc = next /\ job.view = n
    BY <2>2, <2>5, TaskFacts DEF Jobs, Follows
  <2>7. j \in Jobs /\ JobOK(j, n) /\ SameForm(task[t].view, j.view) /\ j.pc = next
    <3>1. CASE next = "ended"
      <4>1. j = Over(job, "ended")
        BY <2>3, <3>1
      <4>2. j.pc = "ended"
        BY <4>1, IdleTypes DEF Over, Jobs
      <4> QED BY <2>6, <3>1, <4>1, <4>2, EmptyHanded
    <3>2. CASE next # "ended"
      BY <2>3, <2>5, <2>6, <3>2 DEF JobOK, Follows, n
    <3> QED BY <3>1, <3>2
  <2>8. /\ Follows(sess, sess') /\ SameForm(sess, sess') /\ JobOK(j, sess')
        /\ sess'.done => sess.done \/ Completes(t)
    BY <2>1, <2>5, <2>7
  <2> QED BY <1>2, <2>4, <2>7, <2>8, AppendActs
<1> QED BY <1>1, <1>2 DEF Emit

\* An append whose failure is swallowed.
LEMMA BestEffortActs ==
    ASSUME TypeOK, CopiesOK, NEW t \in Tasks, NEW delta, NEW after \in Jobs,
           AppendBestEffort(t, delta, after), \A s : JobOK(after, s), \A v : SameForm(v, after.view),
           \A s \in States : Coherent(s) =>
               /\ Follows(s, Applied(s, delta)) /\ SameForm(s, Applied(s, delta))
               /\ Applied(s, delta).done = s.done
    PROVE  Acts(t) /\ task'[t] = after
<1>1. CASE task' = [task EXCEPT ![t] = after] /\ UNCHANGED <<sess, click>>
  BY <1>1, AloneActs
<1>2. CASE /\ sess' = Applied(sess, delta)
           /\ task' = [Stale(task) EXCEPT ![t] = after]
           /\ click' = Stale(click)
  <2>1. Follows(sess, sess') /\ SameForm(sess, sess') /\ sess'.done = sess.done
    BY <1>2, TaskFacts
  <2> QED BY <1>2, <2>1, AppendActs
<1> QED BY <1>1, <1>2 DEF AppendBestEffort

-------------------------------------------------------------------------------
\* The steps of a task

\* Loading the stored session.
LEMMA LoadActs ==
    ASSUME TypeOK, CopiesOK, UNCHANGED <<sess, click>>, NEW t \in Tasks, NEW next \in {"message", "show"},
           task' = [task EXCEPT ![t].pc = next, ![t].view = sess, ![t].fresh = TRUE]
    PROVE  Acts(t) /\ task'[t].pc = next
<1>1. PICK j : j = [task[t] EXCEPT !.pc = next, !.view = sess, !.fresh = TRUE]
  OBVIOUS
<1>2. task' = [task EXCEPT ![t] = j]
  BY <1>1 DEF TypeOK
<1>3. j \in Jobs /\ JobOK(j, sess) /\ SameForm(sess, j.view) /\ j.pc = next
  BY <1>1, TaskFacts DEF Jobs, Stages, JobOK, Passed, SameForm
<1> QED BY <1>2, <1>3, AloneActs

\* Going on with the same copy.
LEMMA MoveActs ==
    ASSUME TypeOK, CopiesOK, UNCHANGED <<sess, click>>, NEW t \in Tasks, NEW j \in Jobs,
           j.view = task[t].view, j.fresh = task[t].fresh, Passed(j.pc, task[t].view),
           task' = [task EXCEPT ![t] = j]
    PROVE  Acts(t) /\ task'[t] = j
<1>1. JobOK(j, sess) /\ SameForm(task[t].view, j.view)
  BY TaskFacts DEF JobOK, SameForm
<1> QED BY <1>1, AloneActs

\* Calling again, or having given up.
LEMMA LostActs ==
    ASSUME TypeOK, CopiesOK, UNCHANGED <<sess, click>>, NEW t \in Tasks, NEW after \in Jobs,
           after.view = task[t].view, after.fresh = task[t].fresh, Passed(after.pc, task[t].view),
           LostCall(t, after)
    PROVE  /\ Acts(t)
           /\ task'[t] = after \/ (task'[t].pc = task[t].pc /\ task'[t].doc = task[t].doc
                                   /\ task'[t].view = task[t].view)
<1>1. CASE GivesUp(task[t].tries + 1)
  <2>1. task' = [task EXCEPT ![t] = after]
    BY <1>1 DEF LostCall, TypeOK
  <2> QED BY <2>1, MoveActs
<1>2. CASE ~GivesUp(task[t].tries + 1)
  <2>1. PICK j : j = [task[t] EXCEPT !.tries = task[t].tries + 1]
    OBVIOUS
  <2>2. task' = [task EXCEPT ![t] = j]
    BY <1>2, <2>1 DEF LostCall, TypeOK
  <2>3. task[t].tries + 1 \in 0 .. (Attempts - 1)
    <3>1. task[t].tries \in 0 .. (Attempts - 1) /\ task[t].tries + 1 # Attempts
      BY <1>2, TaskFacts DEF Jobs, GivesUp
    <3> QED BY <3>1, EngineAssumption
  <2>4. /\ j \in Jobs /\ j.view = task[t].view /\ j.fresh = task[t].fresh
        /\ j.pc = task[t].pc /\ j.doc = task[t].doc
    BY <2>1, <2>3, TaskFacts DEF Jobs
  <2> QED BY <2>2, <2>4, MoveActs, TaskFacts
<1> QED BY <1>1, <1>2

\* The stage before the call of copy_file and all after it, and those that emit.
LEMMA LlmActs ==
    ASSUME TypeOK, CopiesOK, NEW t \in Tasks, NEW next \in {"structure", "assemble"},
           task[t].pc \in {"research", "structure"},
           NEW delta, NEW emptied, LlmStage(t, next, delta, emptied),
           task[t].view.gate = "RESOLVED" => \A d \in {delta, emptied} :
               /\ Follows(task[t].view, Applied(task[t].view, d))
               /\ SameForm(task[t].view, Applied(task[t].view, d))
               /\ Applied(task[t].view, d).done = task[t].view.done
    PROVE  Acts(t) /\ task'[t].pc \in {next, "raised"}
<1>1. task[t].view.gate # "none" /\ task[t].view \in States /\ Coherent(task[t].view)
  BY TaskFacts DEF Passed
<1>2. CASE Emit(t, next, NoDelta)
  BY <1>1, <1>2, NoDeltaFollows, EmitActs DEF Passed, Stages
<1>3. CASE ~TailoringPending(task[t].view) /\ \E d \in {delta, emptied} : Emit(t, next, d)
  <2>1. PICK d \in {delta, emptied} : Emit(t, next, d)
    BY <1>3
  <2>2. task[t].view.gate = "RESOLVED"
    BY <1>1, <1>3 DEF TailoringPending, States
  <2>3. PICK n : n = Applied(task[t].view, d)
    OBVIOUS
  <2>4. Passed(next, n)
    BY <1>1, <2>2, <2>3 DEF Passed, Follows
  <2> QED BY <2>1, <2>2, <2>3, <2>4, EmitActs DEF Stages
<1>4. CASE Raise(t) /\ UNCHANGED <<sess, click>>
  BY <1>4, RaiseActs
<1> QED BY <1>2, <1>3, <1>4 DEF LlmStage

LEMMA CopyActs ==
    ASSUME TypeOK, CopiesOK, NEW t \in Tasks, Copy(t)
    PROVE  /\ Acts(t)
           /\ \/ docs' = docs /\ task'[t].pc \notin {"fill", "record"}
              \/ /\ docs' = Append(docs, Blank) /\ Len(docs') <= MaxDocs /\ sess' = sess
                 /\ task'[t].pc = "fill" => task'[t].doc = Len(docs')
                 /\ task'[t].pc # "record" /\ task'[t].view = task[t].view
<1>1. /\ task[t] \in Jobs /\ Passed("copy", task[t].view) /\ task[t].view \in States
      /\ Coherent(task[t].view) /\ task[t].pc = "copy"
      /\ docs \in Seq(Profiles \cup {Blank}) /\ Len(docs) \in Nat
  BY TaskFacts DEF Copy, TypeOK
<1>2. CASE /\ Len(docs) < MaxDocs /\ docs' = Append(docs, Blank)
           /\ task' = [task EXCEPT ![t].pc = "fill", ![t].doc = Len(docs'), ![t].tries = 0]
           /\ UNCHANGED <<sess, click>>
  <2>1. Len(docs') = Len(docs) + 1 /\ Len(docs') \in 0 .. MaxDocs /\ Len(docs') <= MaxDocs
    BY <1>1, <1>2, EngineAssumption
  <2>2. PICK j : j = [task[t] EXCEPT !.pc = "fill", !.doc = Len(docs'), !.tries = 0]
    OBVIOUS
  <2>3. task' = [task EXCEPT ![t] = j]
    BY <1>2, <2>2 DEF TypeOK
  <2>4. 0 \in 0 .. (Attempts - 1)
    BY EngineAssumption
  <2>5. /\ j \in Jobs /\ j.view = task[t].view /\ j.fresh = task[t].fresh
        /\ j.pc = "fill" /\ j.doc = Len(docs')
    BY <1>1, <2>1, <2>2, <2>4 DEF Jobs, Stages
  <2>6. Acts(t) /\ task'[t] = j
    BY <1>1, <1>2, <2>3, <2>5, MoveActs DEF Passed
  <2> QED BY <1>2, <2>1, <2>5, <2>6
<1>3. CASE /\ (Len(docs) < MaxDocs /\ docs' = Append(docs, Blank)) \/ UNCHANGED docs
           /\ LostCall(t, [task[t] EXCEPT !.pc = "failed", !.tries = 0])
           /\ UNCHANGED <<sess, click>>
  <2>1. PICK j : j = [task[t] EXCEPT !.pc = "failed", !.tries = 0]
    OBVIOUS
  <2>2. 0 \in 0 .. (Attempts - 1)
    BY EngineAssumption
  <2>3. j \in Jobs /\ j.view = task[t].view /\ j.fresh = task[t].fresh /\ j.pc = "failed"
    BY <1>1, <2>1, <2>2 DEF Jobs, Stages
  <2>4. Passed(j.pc, task[t].view)
    BY <1>1, <2>3 DEF Passed
  <2>5. Acts(t) /\ task'[t].pc \in {"copy", "failed"} /\ task'[t].view = task[t].view
    BY <1>1, <1>3, <2>1, <2>3, <2>4, LostActs
  <2>6. Len(docs) < MaxDocs /\ docs' = Append(docs, Blank) => Len(docs') <= MaxDocs
    BY <1>1, EngineAssumption
  <2> QED BY <1>3, <2>5, <2>6
<1>4. CASE Emit(t, "ended", NoDelta) /\ UNCHANGED docs
  BY <1>1, <1>4, NoDeltaFollows, EmitActs DEF Stages
<1> QED BY <1>2, <1>3, <1>4 DEF Copy

LEMMA FillActs ==
    ASSUME TypeOK, CopiesOK, NEW t \in Tasks, Fill(t)
    PROVE  /\ Acts(t) /\ task[t].pc = "fill" /\ sess' = sess
           /\ task'[t].pc \in {"fill", "record"} /\ task'[t].doc = task[t].doc
           /\ task'[t].view = task[t].view
           /\ docs' = docs \/ docs' = [docs EXCEPT ![task[t].doc] = task[t].view.profile]
<1>1. task[t] \in Jobs /\ Passed("fill", task[t].view) /\ task[t].pc = "fill"
  BY TaskFacts DEF Fill
<1>2. PICK j : j = [task[t] EXCEPT !.pc = "record", !.tries = 0]
  OBVIOUS
<1>3. 0 \in 0 .. (Attempts - 1)
  BY EngineAssumption
<1>4. /\ j \in Jobs /\ j.view = task[t].view /\ j.fresh = task[t].fresh
      /\ j.pc = "record" /\ j.doc = task[t].doc
  BY <1>1, <1>2, <1>3 DEF Jobs, Stages
<1>5. Passed(j.pc, task[t].view)
  BY <1>1, <1>4 DEF Passed
<1>6. Acts(t) /\ task'[t].pc \in {"fill", "record"} /\ task'[t].doc = task[t].doc
      /\ task'[t].view = task[t].view
  <2>1. Acts(t) /\ (task'[t] = j \/ (task'[t].pc = task[t].pc /\ task'[t].doc = task[t].doc
                                     /\ task'[t].view = task[t].view))
    <3>1. task' = [task EXCEPT ![t] = j] \/ LostCall(t, j)
      BY <1>2 DEF Fill
    <3>2. UNCHANGED <<sess, click>>
      BY DEF Fill
    <3>3. CASE LostCall(t, j)
      BY <1>4, <1>5, <3>2, <3>3, LostActs
    <3> QED BY <1>4, <1>5, <3>1, <3>2, <3>3, MoveActs
  <2> QED BY <1>1, <1>4, <2>1
<1> QED BY <1>1, <1>6 DEF Fill

\* Every step of the run is one of a task that works on its copy; dossiers are copied
\* and filled where the run says so.
LEMMA RunActs ==
    ASSUME TypeOK, CopiesOK, NEW t \in Tasks, Run(t)
    PROVE  /\ Acts(t) /\ UNCHANGED <<begun, thanked, form>>
           /\ Copy(t) \/ Fill(t) \/ (docs' = docs /\ task'[t].pc \notin {"fill", "record"})
<1>1. /\ task[t] \in Jobs /\ task[t].view \in States /\ Coherent(task[t].view)
      /\ Passed(task[t].pc, task[t].view) /\ sess \in States
  BY TaskFacts
<1>2. UNCHANGED <<begun, thanked, form>>
  BY DEF Run, Seed, Start, Message, Gate, Research, Structure, AssembleNothing, Assemble, Copy,
         CopyFailed, Fill, Record, Say, outside
<1>3. CASE Seed(t)
  <2>1. PICK after : after = NewTask("slash", "iq")
    OBVIOUS
  <2>2. after \in Jobs /\ (\A s : JobOK(after, s)) /\ (\A v : SameForm(v, after.view))
        /\ after.pc \notin {"fill", "record"}
    BY <1>1, <2>1, EmptyHanded
  <2>3. AppendBestEffort(t, [company |-> TRUE], after) /\ docs' = docs
    BY <1>3, <2>1 DEF Seed, outside
  <2> QED BY <1>2, <2>2, <2>3, SeedFollows, BestEffortActs
<1>4. CASE Start(t)
  BY <1>2, <1>4, LoadActs, RaiseActs DEF Start, outside
<1>5. CASE Message(t)
  BY <1>1, <1>2, <1>5, NoDeltaFollows, EmitActs DEF Message, Passed, Stages, outside
<1>6. CASE Gate(t)
  BY <1>1, <1>2, <1>6, GateFollows, EmitActs DEF Gate, Passed, Stages, outside
<1>7. CASE Research(t)
  <2>1. task[t].view.gate = "RESOLVED" =>
            \A d \in {Researched(task[t].view), [brief |-> NoBrief]} :
               /\ Follows(task[t].view, Applied(task[t].view, d))
               /\ SameForm(task[t].view, Applied(task[t].view, d))
               /\ Applied(task[t].view, d).done = task[t].view.done
    BY <1>1, BriefFollows
  <2> QED BY <1>2, <1>7, <2>1, LlmActs DEF Research, outside
<1>8. CASE Structure(t)
  <2>1. task[t].view.gate = "RESOLVED" =>
            \A d \in {Structured(task[t].view), NoDelta} :
               /\ Follows(task[t].view, Applied(task[t].view, d))
               /\ SameForm(task[t].view, Applied(task[t].view, d))
               /\ Applied(task[t].view, d).done = task[t].view.done
    BY <1>1, ProfileFollows, NoDeltaFollows
  <2> QED BY <1>2, <1>8, <2>1, LlmActs DEF Structure, outside
<1>9. CASE AssembleNothing(t)
  BY <1>1, <1>2, <1>9, NoDeltaFollows, EmitActs DEF AssembleNothing, Stages, outside
<1>10. CASE Assemble(t)
  <2>1. PICK j : j = [task[t] EXCEPT !.pc = "copy"]
    OBVIOUS
  <2>2. j \in Jobs /\ j.view = task[t].view /\ j.fresh = task[t].fresh /\ j.pc = "copy"
    BY <1>1, <2>1 DEF Jobs, Stages
  <2>3. task' = [task EXCEPT ![t] = j] /\ UNCHANGED <<sess, click>> /\ docs' = docs
    BY <1>10, <2>1 DEF Assemble, TypeOK, outside
  <2>4. Passed(j.pc, task[t].view)
    BY <1>1, <1>10, <2>2 DEF Assemble, Passed, Copies, TailoringPending, States
  <2> QED BY <1>2, <2>2, <2>3, <2>4, MoveActs
<1>11. CASE Copy(t) \/ Fill(t)
  BY <1>2, <1>11, CopyActs, FillActs
<1>12. CASE CopyFailed(t) \/ Say(t)
  BY <1>1, <1>2, <1>12, NoDeltaFollows, EmitActs DEF CopyFailed, Say, Stages, outside
<1>13. CASE Record(t)
  <2>1. task[t].pc = "record" /\ Emit(t, "ended", Recorded(task[t].doc)) /\ docs' = docs
    BY <1>13 DEF Record, outside
  <2>2. task[t].view.gate = "RESOLVED" /\ ~task[t].view.done /\ task[t].doc \in 0 .. MaxDocs
    BY <1>1, <2>1 DEF Passed, Jobs
  <2> QED BY <1>1, <1>2, <2>1, <2>2, RecordFollows, EmitActs DEF Stages
<1> QED BY <1>3, <1>4, <1>5, <1>6, <1>7, <1>8, <1>9, <1>10, <1>11, <1>12, <1>13 DEF Run

LEMMA PostActs ==
    ASSUME TypeOK, CopiesOK, NEW t \in Tasks, Post(t)
    PROVE  /\ Acts(t) /\ UNCHANGED <<begun, thanked, docs>>
           /\ task'[t].pc \notin {"fill", "record"}
           /\ form' = form \/ task[t].pc # "idle"
<1>1. /\ task[t] \in Jobs /\ task[t].view \in States /\ Coherent(task[t].view)
      /\ Passed(task[t].pc, task[t].view) /\ sess \in States
  BY TaskFacts
<1>2. /\ IdleTask \in Jobs /\ (\A s : JobOK(IdleTask, s)) /\ (\A v : SameForm(v, IdleTask.view))
      /\ IdleTask.pc = "idle"
  BY <1>1, EmptyHanded, IdleTypes
<1>3. CASE task' = [task EXCEPT ![t] = IdleTask] /\ UNCHANGED <<sess, click, begun, thanked, docs, form>>
  BY <1>2, <1>3, AloneActs
<1>4. CASE LoadResult(t)
  BY <1>3, <1>4, LoadActs DEF LoadResult, outside
<1>5. CASE PostForm(t)
  <2>1. PICK j : j = [task[t] EXCEPT !.pc = "note"]
    OBVIOUS
  <2>2. j \in Jobs /\ j.view = task[t].view /\ j.fresh = task[t].fresh /\ j.pc = "note"
    BY <1>1, <2>1 DEF Jobs, Stages
  <2>3. task' = [task EXCEPT ![t] = j] /\ UNCHANGED <<sess, click, begun, thanked, docs>>
    BY <1>5, <2>1 DEF PostForm, TypeOK
  <2> QED BY <1>1, <1>5, <2>2, <2>3, MoveActs DEF Passed, PostForm
<1>6. CASE NoteForm(t)
  BY <1>2, <1>6, NoDeltaFollows, BestEffortActs DEF NoteForm, outside
<1> QED BY <1>3, <1>4, <1>5, <1>6 DEF Post, PostReply, PostText, outside

\* What is left of the copies after a step.
LEMMA KeptOK ==
    ASSUME TypeOK, CopiesOK, NEW u \in Tasks, Kept(u)
    PROVE  /\ task'[u] \in Jobs /\ JobOK(task'[u], sess')
           /\ task'[u].view = task[u].view /\ task'[u].pc = task[u].pc /\ task'[u].doc = task[u].doc
           /\ task[u] = IdleTask => task'[u] = IdleTask
<1>1. task[u] \in Jobs /\ JobOK(task[u], sess)
  BY DEF TypeOK, CopiesOK, Jobs
<1>2. /\ task'[u] \in Jobs /\ task'[u].view = task[u].view /\ task'[u].pc = task[u].pc
      /\ task'[u].doc = task[u].doc
      /\ task'[u].fresh => task[u].fresh /\ sess' = sess
  BY <1>1 DEF Kept, Jobs
<1>3. task[u] = IdleTask => task'[u] = IdleTask
  BY IdleTypes DEF Kept
<1> QED BY <1>1, <1>2, <1>3 DEF JobOK

LEMMA ClickKeptOK ==
    ASSUME TypeOK, CopiesOK, NEW h \in Clicks, ClickKept(h)
    PROVE  /\ click'[h] \in Submissions /\ SubmissionOK(click'[h], sess')
           /\ click[h] = IdleClick => click'[h] = IdleClick
<1>1. click[h] \in Submissions /\ SubmissionOK(click[h], sess)
  BY DEF TypeOK, CopiesOK, Submissions
<1>2. CASE click[h] = IdleClick
  BY <1>2, IdleTypes DEF ClickKept, SubmissionOK
<1>3. CASE click[h] # IdleClick
  <2>1. /\ click'[h] \in Submissions /\ click'[h].view = click[h].view
        /\ click'[h].choice = click[h].choice
        /\ click'[h].fresh => click[h].fresh /\ sess' = sess
    BY <1>1, <1>3 DEF ClickKept, Submissions
  <2> QED BY <1>1, <1>3, <2>1 DEF SubmissionOK
<1> QED BY <1>2, <1>3

\* The copies stay typed, and coherent with the session.
CopiesKept ==
    /\ CopiesOK' /\ sess' \in States
    /\ task' \in [Tasks -> Jobs] /\ click' \in [Clicks -> Submissions]

LEMMA CopiesTogether ==
    ASSUME TypeOK, CopiesOK, sess' \in States, Coherent(sess'), NEW t \in Tasks, OthersKept(t),
           task'[t] \in Jobs, JobOK(task'[t], sess'),
           \A h \in Clicks : click'[h] \in Submissions /\ SubmissionOK(click'[h], sess')
    PROVE  CopiesKept
<1>1. \A u \in Tasks : task'[u] \in Jobs /\ JobOK(task'[u], sess')
  BY KeptOK DEF OthersKept
<1>2. CopiesOK'
  BY <1>1 DEF CopiesOK
<1>3. task' \in [Tasks -> Jobs] /\ click' \in [Clicks -> Submissions]
  BY <1>1 DEF OthersKept
<1> QED BY <1>2, <1>3 DEF CopiesKept

LEMMA ActsCopies ==
    ASSUME TypeOK, CopiesOK, NEW t \in Tasks, Acts(t)
    PROVE  CopiesKept
BY ClickKeptOK, CopiesTogether DEF Acts, Follows

-------------------------------------------------------------------------------
\* Every step keeps the copies

LEMMA StepCases ==
    ASSUME Next
    PROVE  \/ \E t \in Tasks :
                 \/ SlashIq(t) \/ PlainMessage(t) \/ Run(t) \/ Post(t)
                 \/ \E h \in Clicks : Acknowledge(h, t)
           \/ \E h \in Clicks, choice \in Choices : Submit(h, choice)
           \/ Exit
           \/ Crash
BY DEF Next, SubmitAny, Handle

\* What a submission that may be appended makes of the session.
LEMMA SubmittedFollows ==
    ASSUME TypeOK, CopiesOK, NEW h \in Clicks, click[h] # IdleClick, click[h].fresh
    PROVE  LET n == Applied(sess, Tailored(click[h].choice))
           IN  /\ Follows(sess, n) /\ n.done = sess.done /\ sess.gate = "PENDING"
               /\ n.gate = "RESOLVED" /\ n.tailor = click[h].choice
BY TailoredFollows DEF TypeOK, CopiesOK, SubmissionOK

\* A slot that a task is scheduled in; the others keep what they have, or have it stale.
LEMMA ScheduleOthers ==
    ASSUME TypeOK, CopiesOK, NEW t \in Tasks, NEW j,
           \/ task' = [task EXCEPT ![t] = j] /\ sess' = sess
           \/ task' = [Stale(task) EXCEPT ![t] = j],
           DOMAIN click' = Clicks, click' = [h \in DOMAIN click' |-> click'[h]]
    PROVE  OthersKept(t) /\ task'[t] = j
BY TaskFacts DEF Stale, OthersKept, Kept

LEMMA SlashSteps ==
    ASSUME Inv, NEW t \in Tasks, SlashIq(t)
    PROVE  /\ CopiesKept /\ UNCHANGED <<click, form, docs, thanked>> /\ begun'
           /\ sess'.gate = "none" /\ ~sess'.done
           /\ \A u \in Tasks : task'[u].pc \in {"idle", "seed"} /\ task'[u].view.gate = "none"
<1> USE DEF Inv
<1>1. /\ \A u \in Tasks : task[u] = IdleTask
      /\ \A h \in Clicks : click[h] = IdleClick
      /\ sess = NoSession
  BY DEF Unbegun, SlashIq
<1>2. PICK n \in {NewState("iq"), NoSession} : sess' = n
  BY <1>1 DEF SlashIq
<1>3. n \in States /\ Coherent(n) /\ n.gate = "none" /\ ~n.done
  BY <1>2, NewStateFields DEF NoSession
<1>4. \A h \in Clicks : click'[h] \in Submissions /\ SubmissionOK(click'[h], sess')
  BY <1>1, IdleTypes DEF SlashIq, SubmissionOK
<1>5. CASE task' = task
  <2>1. \A u \in Tasks : task'[u] = IdleTask
    BY <1>1, <1>5
  <2>2. IdleTask \in Jobs /\ JobOK(IdleTask, n) /\ IdleTask.pc = "idle" /\ IdleTask.view.gate = "none"
    BY IdleTypes, NewStateFields DEF JobOK, Passed, NoSession
  <2>3. CopiesOK' /\ task' \in [Tasks -> Jobs] /\ click' \in [Clicks -> Submissions]
    <3>1. task' \in [Tasks -> Jobs]
      BY <1>5 DEF TypeOK, Jobs
    <3>2. UNCHANGED click
      BY <1>1 DEF SlashIq
    <3>3. click' \in [Clicks -> Submissions]
      BY <3>2 DEF TypeOK, Submissions
    <3>4. CopiesOK'
      BY <1>2, <1>3, <1>4, <2>1, <2>2 DEF CopiesOK
    <3> QED BY <3>1, <3>3, <3>4
  <2> QED BY <1>2, <1>3, <2>1, <2>2, <2>3 DEF CopiesKept, SlashIq
<1>6. CASE /\ task' = [task EXCEPT ![t] = [NewTask("slash", "iq") EXCEPT
                         !.pc = "seed", !.view = NewState("iq"), !.fresh = TRUE]]
           /\ n = NewState("iq")
  <2>1. PICK i, j : i = NewTask("slash", "iq")
                    /\ j = [i EXCEPT !.pc = "seed", !.view = n, !.fresh = TRUE]
    OBVIOUS
  <2>2. i \in Jobs
    BY <2>1, IdleTypes, EmptyHanded
  <2>3. j \in Jobs /\ j.view = n /\ j.pc = "seed"
    <3>1. "seed" \in Stages /\ TRUE \in BOOLEAN
      BY DEF Stages
    <3>2. j \in Jobs
      BY <1>3, <2>1, <2>2, <3>1 DEF Jobs
    <3>3. j.view = n
      BY <2>1, <2>2 DEF Jobs
    <3>4. j.pc = "seed"
      BY <2>1, <2>2 DEF Jobs
    <3> QED BY <3>2, <3>3, <3>4
  <2>4. JobOK(j, n)
    BY <1>3, <2>3 DEF JobOK, Passed
  <2>5. IdleTask \in Jobs /\ JobOK(IdleTask, n) /\ IdleTask.pc = "idle" /\ IdleTask.view.gate = "none"
    BY IdleTypes, NewStateFields DEF JobOK, Passed, NoSession
  <2>6. task' = [task EXCEPT ![t] = j]
    BY <1>6, <2>1
  <2>7. \A u \in Tasks : task'[u] = IF u = t THEN j ELSE IdleTask
    BY <1>1, <2>6 DEF TypeOK
  <2>8. CopiesOK' /\ task' \in [Tasks -> Jobs] /\ click' \in [Clicks -> Submissions]
    BY <1>2, <1>3, <1>4, <2>3, <2>4, <2>5, <2>6, <2>7 DEF CopiesOK, TypeOK, Jobs, Submissions, SlashIq
  <2> QED BY <1>2, <1>3, <2>3, <2>5, <2>7, <2>8 DEF CopiesKept, SlashIq
<1> QED BY <1>2, <1>5, <1>6 DEF SlashIq

LEMMA PlainSteps ==
    ASSUME TypeOK, CopiesOK, NEW t \in Tasks, PlainMessage(t)
    PROVE  /\ CopiesKept /\ OthersKept(t) /\ UNCHANGED outside /\ begun
           /\ task'[t].pc = "start" /\ task'[t].view.gate = "none"
           /\ \A h \in Clicks : ClickKept(h)
           /\ sess' = sess \/ (sess'.active = "default" /\ sess'.gate = "none" /\ ~sess'.done)
<1>1. PICK j :
         /\ \E work \in {"none", "default", "iq"} : j = NewTask("plain", work)
         /\ \/ task' = [task EXCEPT ![t] = j] /\ UNCHANGED <<sess, click>>
            \/ /\ task' = [Stale(task) EXCEPT ![t] = j] /\ sess' = NewState("default")
               /\ click' = Stale(click)
  BY TaskFacts DEF PlainMessage, States
<1>2. j \in Jobs /\ (\A s : JobOK(j, s)) /\ j.view.gate = "none"
  BY <1>1, EmptyHanded, IdleTypes
<1>3. j.pc = "start"
  BY <1>1, IdleTypes DEF NewTask, Jobs
<1>4. \A h \in Clicks : ClickKept(h)
  BY <1>1, TaskFacts DEF ClickKept, Stale
<1>5. DOMAIN click' = Clicks /\ click' = [h \in DOMAIN click' |-> click'[h]]
  BY <1>1, TaskFacts DEF Stale, TypeOK
<1>6. OthersKept(t) /\ task'[t] = j
  BY <1>1, <1>5, ScheduleOthers
<1>7. /\ sess' = sess \/ (sess'.active = "default" /\ sess'.gate = "none" /\ ~sess'.done)
      /\ sess' \in States /\ Coherent(sess')
  BY <1>1, NewStateFields, TaskFacts
<1>8. CopiesKept
  BY <1>2, <1>4, <1>6, <1>7, ClickKeptOK, CopiesTogether
<1> QED BY <1>2, <1>3, <1>4, <1>6, <1>7, <1>8 DEF PlainMessage

LEMMA AcknowledgeSteps ==
    ASSUME TypeOK, CopiesOK, NEW t \in Tasks, NEW h \in Clicks, Acknowledge(h, t)
    PROVE  /\ CopiesKept /\ OthersKept(t) /\ UNCHANGED <<begun, docs>>
           /\ thanked' = thanked \cup {click[h].choice} /\ click[h].choice \in Choices
           /\ click[h] # IdleClick
           /\ task'[t].pc = "start" /\ task'[t].view.gate = "none"
           /\ \/ sess' = sess
              \/ /\ sess.gate = "PENDING" /\ sess'.gate = "RESOLVED" /\ sess'.active = sess.active
                 /\ sess'.tailor = click[h].choice /\ ~sess'.done /\ ~sess.done
<1>1. click[h] \in Submissions /\ SubmissionOK(click[h], sess) /\ click[h] # IdleClick
  BY DEF Acknowledge, TypeOK, CopiesOK, Submissions
<1>2. PICK j : j = NewTask("resume", click[h].view.active)
  OBVIOUS
<1>3. j \in Jobs /\ (\A s : JobOK(j, s)) /\ j.view.gate = "none"
  <2>1. click[h].view.active \in {"none", "default", "iq"}
    BY <1>1 DEF Submissions, States
  <2> QED BY <1>2, <2>1, EmptyHanded, IdleTypes
<1>4. j.pc = "start"
  BY <1>2, IdleTypes DEF NewTask, Jobs
<1>5. CASE /\ CanAppend(click[h])
           /\ sess' = Applied(sess, Tailored(click[h].choice))
           /\ task' = [Stale(task) EXCEPT ![t] = j]
           /\ click' = [Stale(click) EXCEPT ![h] = IdleClick]
  <2>1. /\ Follows(sess, sess') /\ sess'.done = sess.done /\ sess.gate = "PENDING"
        /\ sess'.gate = "RESOLVED" /\ sess'.tailor = click[h].choice /\ ~sess.done
    BY <1>1, <1>5, SubmittedFollows, TaskFacts DEF CanAppend, Coherent
  <2>2. DOMAIN click' = Clicks /\ click' = [g \in DOMAIN click' |-> click'[g]]
    BY <1>5, TaskFacts DEF Stale
  <2>3. \A g \in Clicks : click'[g] = IdleClick \/ ClickKept(g)
    BY <1>5, TaskFacts DEF Stale, ClickKept
  <2>4. \A g \in Clicks : click'[g] \in Submissions /\ SubmissionOK(click'[g], sess')
    BY <2>3, ClickKeptOK, IdleTypes DEF SubmissionOK
  <2>5. OthersKept(t) /\ task'[t] = j
    BY <1>5, <2>2, ScheduleOthers
  <2>6. sess' \in States /\ Coherent(sess') /\ sess'.active = sess.active
    BY <2>1 DEF Follows
  <2>7. CopiesKept
    BY <1>3, <2>4, <2>5, <2>6, CopiesTogether
  <2> QED BY <1>1, <1>3, <1>4, <2>1, <2>5, <2>6, <2>7 DEF Acknowledge, SubmissionOK
<1>6. CASE /\ task' = [task EXCEPT ![t] = j]
           /\ click' = [click EXCEPT ![h] = IdleClick]
           /\ UNCHANGED sess
  <2>1. DOMAIN click' = Clicks /\ click' = [g \in DOMAIN click' |-> click'[g]]
    BY <1>6, TaskFacts DEF TypeOK
  <2>2. \A g \in Clicks : click'[g] = IdleClick \/ ClickKept(g)
    BY <1>6, TaskFacts DEF ClickKept
  <2>3. \A g \in Clicks : click'[g] \in Submissions /\ SubmissionOK(click'[g], sess')
    BY <2>2, ClickKeptOK, IdleTypes DEF SubmissionOK
  <2>4. OthersKept(t) /\ task'[t] = j
    BY <1>6, <2>1, ScheduleOthers
  <2>5. CopiesKept
    BY <1>3, <1>6, <2>3, <2>4, CopiesTogether, TaskFacts
  <2> QED BY <1>1, <1>3, <1>4, <1>6, <2>4, <2>5 DEF Acknowledge, SubmissionOK
<1> QED BY <1>2, <1>5, <1>6 DEF Acknowledge

LEMMA SubmitSteps ==
    ASSUME TypeOK, CopiesOK, NEW h \in Clicks, NEW choice \in Choices, Submit(h, choice)
    PROVE  /\ CopiesKept /\ UNCHANGED <<begun, sess, task, docs, thanked>> /\ form
           /\ click' = click \/ sess.gate = "PENDING"
<1>1. PICK c : c = [pc |-> "append", choice |-> choice, view |-> sess, fresh |-> TRUE]
  OBVIOUS
<1>2. c \in Submissions /\ (sess.gate = "PENDING" => SubmissionOK(c, sess))
  BY <1>1 DEF Submissions, SubmissionOK, TypeOK
<1>3. click' = click \/ (click' = [click EXCEPT ![h] = c] /\ sess.gate = "PENDING")
  BY <1>1 DEF Submit
<1>4. click' \in [Clicks -> Submissions]
  BY <1>2, <1>3 DEF TypeOK, Submissions
<1>5. \A g \in Clicks : SubmissionOK(click'[g], sess)
  BY <1>2, <1>3 DEF TypeOK, CopiesOK
<1>6. CopiesKept
  BY <1>4, <1>5 DEF CopiesKept, CopiesOK, Submit, TypeOK, Jobs
<1> QED BY <1>3, <1>6 DEF Submit

\* The thread is left, or everything in memory is lost.
LEMMA ExitSteps ==
    ASSUME TypeOK, CopiesOK, Exit
    PROVE  /\ CopiesKept /\ UNCHANGED outside /\ sess # NoSession
           /\ sess'.active = "none" /\ sess'.gate = "none" /\ ~sess'.done
           /\ \A u \in Tasks : Kept(u)
<1>1. sess' \in States /\ Coherent(sess') /\ sess'.active = "none" /\ sess'.gate = "none" /\ ~sess'.done
  BY NewStateFields DEF Exit, NoSession
<1>2. /\ \A u \in Tasks : Kept(u)
      /\ \A h \in Clicks : ClickKept(h)
      /\ task' = [u \in Tasks |-> task'[u]] /\ click' = [h \in Clicks |-> click'[h]]
  BY TaskFacts DEF Exit, Stale, Kept, ClickKept, TypeOK
<1>3. \A u \in Tasks : task'[u] \in Jobs /\ JobOK(task'[u], sess')
  BY <1>2, KeptOK
<1>4. \A h \in Clicks : click'[h] \in Submissions /\ SubmissionOK(click'[h], sess')
  BY <1>2, ClickKeptOK
<1>5. CopiesOK' /\ task' \in [Tasks -> Jobs] /\ click' \in [Clicks -> Submissions]
  BY <1>1, <1>2, <1>3, <1>4 DEF CopiesOK
<1> QED BY <1>1, <1>2, <1>5 DEF CopiesKept, Exit

LEMMA CrashSteps ==
    ASSUME TypeOK, CopiesOK, Crash
    PROVE  /\ CopiesKept /\ UNCHANGED <<sess, outside>>
           /\ (\A u \in Tasks : task'[u] = IdleTask) /\ \A h \in Clicks : click'[h] = IdleClick
<1>1. IdleTask \in Jobs /\ JobOK(IdleTask, sess) /\ IdleClick \in Submissions
  BY IdleTypes, NewStateFields DEF JobOK, Passed, NoSession
<1>2. CopiesOK' /\ task' \in [Tasks -> Jobs] /\ click' \in [Clicks -> Submissions]
  BY <1>1 DEF CopiesOK, Crash, SubmissionOK
<1> QED BY <1>2 DEF CopiesKept, Crash, TypeOK

-------------------------------------------------------------------------------
\* Every step keeps the dossiers

\* Nothing is written, nobody starts to fill, and nothing is completed.
LEMMA DossiersStay ==
    ASSUME OwnDossier, DossierTailored, docs' = docs,
           \A u \in Tasks : task'[u].pc \in {"fill", "record"} =>
               Filling(u) /\ task'[u].view = task[u].view /\ task'[u].doc = task[u].doc,
           sess'.done => sess.done /\ sess'.link = sess.link /\ sess'.tailor = sess.tailor
    PROVE  OwnDossier' /\ DossierTailored'
<1>1. OwnDossier'
  BY DEF OwnDossier, Filling
<1>2. DossierTailored'
  BY DEF DossierTailored
<1> QED BY <1>1, <1>2

\* A session that goes on completed was completed under the same tailoring.
LEMMA DoneStays ==
    ASSUME Coherent(sess), Follows(sess, sess'), SameForm(sess, sess'), sess.done
    PROVE  sess'.link = sess.link /\ sess'.tailor = sess.tailor
BY DEF Coherent, Follows, SameForm

\* The others go on filling what they filled.
LEMMA OthersFill ==
    ASSUME TypeOK, CopiesOK, NEW t \in Tasks, OthersKept(t)
    PROVE  \A u \in Tasks \ {t} :
               /\ task'[u].pc = task[u].pc /\ task'[u].view = task[u].view
               /\ task'[u].doc = task[u].doc
BY KeptOK DEF OthersKept

\* What is done with a dossier of one's own.
LEMMA ActsDossiers ==
    ASSUME TypeOK, CopiesOK, OwnDossier, DossierTailored, NEW t \in Tasks, Run(t) \/ Post(t)
    PROVE  OwnDossier' /\ DossierTailored'
<1>1. /\ Acts(t)
      /\ Copy(t) \/ Fill(t) \/ (docs' = docs /\ task'[t].pc \notin {"fill", "record"})
  BY RunActs, PostActs
<1>2. \A u \in Tasks \ {t} : /\ task'[u].pc = task[u].pc /\ task'[u].view = task[u].view
                             /\ task'[u].doc = task[u].doc
  BY <1>1, OthersFill DEF Acts
<1>3. /\ sess.done => sess'.link = sess.link /\ sess'.tailor = sess.tailor
      /\ Coherent(task[t].view) /\ docs \in Seq(Profiles \cup {Blank}) /\ Len(docs) \in Nat
  BY <1>1, DoneStays, TaskFacts DEF Acts, TypeOK
<1>4. CASE docs' = docs /\ task'[t].pc \notin {"fill", "record"}
  <2>1. CASE sess'.done => sess.done
    BY <1>2, <1>3, <1>4, <2>1, DossiersStay DEF Filling
  <2>2. CASE Completes(t)
    <3>1. /\ task[t].doc \in DOMAIN docs /\ FilledFor(docs[task[t].doc], sess)
          /\ \A u \in Tasks \ {t} : Filling(u) => task[u].doc # task[t].doc
      BY <2>2 DEF Completes, OwnDossier, Filling
    <3>2. DossierTailored'
      BY <1>4, <2>2, <3>1 DEF Completes, DossierTailored, FilledFor
    <3>3. OwnDossier'
      BY <1>2, <1>4, <2>2, <3>1 DEF Completes, OwnDossier, Filling
    <3> QED BY <3>2, <3>3
  <2> QED BY <1>1, <2>1, <2>2 DEF Acts
<1>5. CASE /\ docs' = Append(docs, Blank) /\ sess' = sess
           /\ task'[t].pc = "fill" => task'[t].doc = Len(docs')
           /\ task'[t].pc # "record"
  <2>1. /\ Len(docs') = Len(docs) + 1 /\ DOMAIN docs = 1 .. Len(docs)
        /\ DOMAIN docs' = 1 .. (Len(docs) + 1) /\ docs'[Len(docs) + 1] = Blank
        /\ \A n \in DOMAIN docs : docs'[n] = docs[n] /\ n # Len(docs) + 1
    BY <1>3, <1>5
  <2>2. DossierTailored' /\ (sess.done => sess.link \in DOMAIN docs)
    BY <1>5, <2>1 DEF DossierTailored
  <2>3. OwnDossier'
    <3> SUFFICES ASSUME NEW u \in Tasks, task'[u].pc \in {"fill", "record"}
                 PROVE  /\ task'[u].doc \in DOMAIN docs'
                        /\ FilledFor(docs'[task'[u].doc], task'[u].view)
                        /\ sess'.done => task'[u].doc # sess'.link
                        /\ \A v \in Tasks \ {u} :
                              task'[v].pc \in {"fill", "record"} => task'[v].doc # task'[u].doc
      BY DEF OwnDossier, Filling
    <3>1. \A v \in Tasks \ {t} : task'[v].pc \in {"fill", "record"} =>
              Filling(v) /\ task[v].doc \in DOMAIN docs
      BY <1>2 DEF OwnDossier, Filling
    <3>2. CASE u = t
      <4>1. task'[u].doc = Len(docs) + 1
        BY <1>5, <2>1, <3>2
      <4>2. \A v \in Tasks \ {u} : task'[v].pc \in {"fill", "record"} => task'[v].doc # task'[u].doc
        BY <1>2, <2>1, <3>1, <3>2, <4>1
      <4> QED BY <1>5, <2>1, <2>2, <4>1, <4>2 DEF FilledFor
    <3>3. CASE u # t
      <4>1. /\ task[u].doc \in DOMAIN docs /\ FilledFor(docs[task[u].doc], task[u].view)
            /\ sess.done => task[u].doc # sess.link
            /\ \A v \in Tasks \ {u} : Filling(v) => task[v].doc # task[u].doc
        BY <3>1, <3>3 DEF OwnDossier
      <4>2. \A v \in Tasks \ {u} : task'[v].pc \in {"fill", "record"} => task'[v].doc # task'[u].doc
        BY <1>2, <1>5, <2>1, <3>1, <3>3, <4>1
      <4> QED BY <1>2, <1>5, <2>1, <3>3, <4>1, <4>2
    <3> QED BY <3>2, <3>3
  <2> QED BY <2>2, <2>3
<1>6. CASE Fill(t)
  <2>1. /\ task[t].pc = "fill" /\ sess' = sess
        /\ task'[t].doc = task[t].doc /\ task'[t].view = task[t].view
        /\ docs' = docs \/ docs' = [docs EXCEPT ![task[t].doc] = task[t].view.profile]
    BY <1>6, FillActs
  <2>2. /\ task[t].doc \in DOMAIN docs /\ FilledFor(docs[task[t].doc], task[t].view)
        /\ sess.done => task[t].doc # sess.link
        /\ \A v \in Tasks \ {t} : Filling(v) => task[v].doc # task[t].doc
    BY <2>1 DEF OwnDossier, Filling
  <2>3. /\ DOMAIN docs' = DOMAIN docs
        /\ \A n \in DOMAIN docs : n # task[t].doc => docs'[n] = docs[n]
        /\ FilledFor(docs'[task[t].doc], task[t].view)
    BY <1>3, <2>1, <2>2 DEF Coherent
  <2>4. DossierTailored'
    BY <2>1, <2>2, <2>3 DEF DossierTailored
  <2>5. OwnDossier'
    BY <1>2, <2>1, <2>2, <2>3 DEF OwnDossier, Filling
  <2> QED BY <2>4, <2>5
<1> QED BY <1>1, <1>4, <1>5, <1>6, CopyActs

LEMMA DossiersStep ==
    ASSUME Inv, [Next]_vars
    PROVE  OwnDossier' /\ DossierTailored'
<1> USE DEF Inv
<1>1. ASSUME NEW t \in Tasks, Run(t) \/ Post(t)
      PROVE  OwnDossier' /\ DossierTailored'
  BY <1>1, ActsDossiers
<1>2. ASSUME NEW t \in Tasks, PlainMessage(t)
      PROVE  OwnDossier' /\ DossierTailored'
  BY <1>2, PlainSteps, OthersFill, DossiersStay DEF Filling, outside
<1>3. ASSUME NEW t \in Tasks, NEW h \in Clicks, Acknowledge(h, t)
      PROVE  OwnDossier' /\ DossierTailored'
  BY <1>3, AcknowledgeSteps, OthersFill, DossiersStay DEF Filling
<1>4. ASSUME NEW t \in Tasks, SlashIq(t)
      PROVE  OwnDossier' /\ DossierTailored'
  BY <1>4, SlashSteps, DossiersStay DEF Filling
<1>5. ASSUME NEW h \in Clicks, NEW choice \in Choices, Submit(h, choice)
      PROVE  OwnDossier' /\ DossierTailored'
  BY <1>5, SubmitSteps, DossiersStay DEF Filling
<1>6. CASE Exit
  BY <1>6, ExitSteps, KeptOK, DossiersStay DEF Filling, outside
<1>7. CASE Crash
  BY <1>7, CrashSteps, IdleTypes, DossiersStay DEF Filling, outside
<1>8. CASE UNCHANGED vars
  BY <1>8, DossiersStay DEF Filling, vars
<1> QED BY <1>1, <1>2, <1>3, <1>4, <1>5, <1>6, <1>7, <1>8, StepCases

-------------------------------------------------------------------------------
\* Every step keeps what was thanked for

LEMMA ThanksStep ==
    ASSUME Inv, [Next]_vars
    PROVE  ChoicesThanked'
<1> USE DEF Inv
<1>1. ASSUME NEW t \in Tasks, Run(t) \/ Post(t)
      PROVE  ChoicesThanked'
  <2>1. /\ Acts(t) /\ thanked' = thanked
        /\ Copy(t) \/ Fill(t) \/ docs' = docs
    BY <1>1, RunActs, PostActs
  <2>2. \A u \in Tasks : Chosen(task'[u].view, thanked')
    <3>1. \A u \in Tasks \ {t} : task'[u].view = task[u].view
      BY <2>1, OthersFill DEF Acts
    <3>2. \A u \in Tasks \ {t} : Chosen(task'[u].view, thanked')
      BY <2>1, <3>1 DEF ChoicesThanked, Chosen
    <3>3. Chosen(task'[t].view, thanked')
      BY <2>1 DEF Acts, SameForm, ChoicesThanked, Chosen
    <3> QED BY <3>2, <3>3
  <2>3. Chosen(sess', thanked')
    BY <2>1 DEF Acts, SameForm, ChoicesThanked, Chosen
  <2>4. (docs # <<>> => thanked # {})'
    <3>1. CASE Copy(t) \/ Fill(t)
      <4>1. task[t].view.gate = "RESOLVED"
        BY <3>1, TaskFacts DEF Copy, Fill, Passed
      <4> QED BY <2>1, <4>1 DEF ChoicesThanked, Chosen
    <3>2. CASE docs' = docs
      BY <2>1, <3>2 DEF ChoicesThanked
    <3> QED BY <2>1, <3>1, <3>2
  <2>5. sess'.active = "iq" /\ (thanked' # {} \/ \E h \in Clicks : click'[h] # IdleClick) =>
            sess'.gate # "none"
    <3>1. \A h \in Clicks : click[h] = IdleClick => click'[h] = IdleClick
      BY <2>1, ClickKeptOK DEF Acts
    <3> QED BY <2>1, <3>1 DEF Acts, Follows, ChoicesThanked
  <2> QED BY <2>2, <2>3, <2>4, <2>5 DEF ChoicesThanked
<1>2. ASSUME NEW t \in Tasks, PlainMessage(t)
      PROVE  ChoicesThanked'
  <2>1. \A u \in Tasks \ {t} : task'[u].view = task[u].view
    BY <1>2, PlainSteps, OthersFill
  <2>2. \A h \in Clicks : click[h] = IdleClick => click'[h] = IdleClick
    BY <1>2, PlainSteps, ClickKeptOK
  <2>3. /\ task'[t].view.gate = "none" /\ UNCHANGED <<docs, thanked>>
        /\ sess' = sess \/ (sess'.active = "default" /\ sess'.gate = "none")
    BY <1>2, PlainSteps DEF outside
  <2>4. \A u \in Tasks : Chosen(task'[u].view, thanked')
    BY <2>1, <2>3 DEF ChoicesThanked, Chosen
  <2> QED BY <2>2, <2>3, <2>4 DEF ChoicesThanked, Chosen
<1>3. ASSUME NEW t \in Tasks, NEW h \in Clicks, Acknowledge(h, t)
      PROVE  ChoicesThanked'
  <2>1. \A u \in Tasks \ {t} : task'[u].view = task[u].view
    BY <1>3, AcknowledgeSteps, OthersFill
  <2>2. /\ task'[t].view.gate = "none" /\ docs' = docs
        /\ thanked' = thanked \cup {click[h].choice} /\ click[h] # IdleClick
        /\ \/ sess' = sess
           \/ sess'.gate = "RESOLVED" /\ sess'.tailor = click[h].choice
    BY <1>3, AcknowledgeSteps
  <2>3. \A u \in Tasks : Chosen(task'[u].view, thanked')
    BY <2>1, <2>2 DEF ChoicesThanked, Chosen
  <2> QED BY <2>2, <2>3 DEF ChoicesThanked, Chosen
<1>4. ASSUME NEW t \in Tasks, SlashIq(t)
      PROVE  ChoicesThanked'
  BY <1>4, SlashSteps DEF ChoicesThanked, Chosen, Unbegun, SlashIq
<1>5. ASSUME NEW h \in Clicks, NEW choice \in Choices, Submit(h, choice)
      PROVE  ChoicesThanked'
  BY <1>5, SubmitSteps DEF ChoicesThanked, Chosen
<1>6. CASE Exit
  <2>1. \A u \in Tasks : task'[u].view = task[u].view
    BY <1>6, ExitSteps, KeptOK
  <2> QED BY <1>6, <2>1, ExitSteps DEF ChoicesThanked, Chosen, outside
<1>7. CASE Crash
  <2>1. /\ UNCHANGED <<sess, docs, thanked>>
        /\ (\A u \in Tasks : task'[u].view.gate = "none") /\ \A h \in Clicks : click'[h] = IdleClick
    BY <1>7, CrashSteps, IdleTypes, NewStateFields DEF outside, NoSession
  <2> QED BY <2>1 DEF ChoicesThanked, Chosen
<1>8. CASE UNCHANGED vars
  BY <1>8 DEF ChoicesThanked, Chosen, vars
<1> QED BY <1>1, <1>2, <1>3, <1>4, <1>5, <1>6, <1>7, <1>8, StepCases

\* The rest of the state is typed, and before /iq nothing else happens.
LEMMA BesidesStep ==
    ASSUME Inv, [Next]_vars
    PROVE  /\ begun' \in BOOLEAN /\ form' \in BOOLEAN
           /\ docs' \in Seq(Profiles \cup {Blank}) /\ Len(docs') <= MaxDocs
           /\ thanked' \subseteq Choices /\ CopiesKept /\ Unbegun'
<1> USE DEF Inv
<1> DEFINE Typed == /\ begun' \in BOOLEAN /\ form' \in BOOLEAN
                    /\ docs' \in Seq(Profiles \cup {Blank}) /\ Len(docs') <= MaxDocs
                    /\ thanked' \subseteq Choices /\ CopiesKept /\ Unbegun'
<1>1. /\ begun \in BOOLEAN /\ form \in BOOLEAN /\ thanked \subseteq Choices
      /\ docs \in Seq(Profiles \cup {Blank}) /\ Len(docs) <= MaxDocs
  BY DEF TypeOK
<1>2. ASSUME NEW t \in Tasks, Run(t) \/ Post(t)
      PROVE  Typed
  <2>1. begun
    <3>1. task[t].pc # "idle"
      BY <1>2 DEF Run, Seed, Start, Message, Gate, Research, Structure, AssembleNothing, Assemble,
         Copy, CopyFailed, Fill, Record, Say, Post, PostReply, LoadResult, PostForm, PostText,
         NoteForm, RunOver, ResultDue
    <3> QED BY <3>1, IdleTypes DEF Unbegun
  <2>2. CopiesKept /\ UNCHANGED <<begun, thanked>>
    BY <1>2, RunActs, PostActs, ActsCopies
  <2>3. form' \in BOOLEAN
    BY <1>1, <1>2, RunActs DEF Post, PostReply, LoadResult, PostForm, PostText, NoteForm, outside
  <2>4. docs' \in Seq(Profiles \cup {Blank}) /\ Len(docs') <= MaxDocs
    <3>1. CASE docs' = docs
      BY <1>1, <3>1
    <3>2. CASE docs' = Append(docs, Blank) /\ Len(docs') <= MaxDocs
      BY <1>1, <3>2
    <3>3. CASE docs' = [docs EXCEPT ![task[t].doc] = task[t].view.profile]
      <4>1. task[t].view.profile \in Profiles \cup {Blank}
        BY TaskFacts DEF States, Blank
      <4>2. docs' = docs \/ task[t].doc \in 1 .. Len(docs)
        BY <1>1, <3>3
      <4>3. CASE task[t].doc \in 1 .. Len(docs)
        <5>1. PICK S, e, i : S = Profiles \cup {Blank} /\ e = task[t].view.profile /\ i = task[t].doc
          OBVIOUS
        <5>2. docs \in Seq(S) /\ e \in S /\ i \in 1 .. Len(docs) /\ docs' = [docs EXCEPT ![i] = e]
          BY <1>1, <3>3, <4>1, <4>3, <5>1
        <5>3. docs' \in Seq(S) /\ Len(docs') = Len(docs)
          BY <5>2, ExceptSeq
        <5> QED BY <1>1, <5>1, <5>3
      <4> QED BY <1>1, <4>2, <4>3
    <3> QED BY <1>2, <3>1, <3>2, <3>3, RunActs, PostActs, CopyActs, FillActs
  <2> QED BY <1>1, <2>1, <2>2, <2>3, <2>4 DEF Unbegun
<1>3. ASSUME NEW t \in Tasks, PlainMessage(t)
      PROVE  Typed
  BY <1>1, <1>3, PlainSteps DEF Unbegun, outside
<1>4. ASSUME NEW t \in Tasks, NEW h \in Clicks, Acknowledge(h, t)
      PROVE  Typed
  <2>1. begun /\ form' = FALSE
    BY <1>4, AcknowledgeSteps DEF Unbegun, Acknowledge
  <2> QED BY <1>1, <1>4, <2>1, AcknowledgeSteps DEF Unbegun
<1>5. ASSUME NEW t \in Tasks, SlashIq(t)
      PROVE  Typed
  <2>1. begun' = TRUE
    BY <1>5 DEF SlashIq
  <2> QED BY <1>1, <1>5, <2>1, SlashSteps DEF Unbegun
<1>6. ASSUME NEW h \in Clicks, NEW choice \in Choices, Submit(h, choice)
      PROVE  Typed
  <2>1. begun /\ form' \in BOOLEAN
    BY <1>6, SubmitSteps DEF Unbegun, Submit
  <2> QED BY <1>1, <1>6, <2>1, SubmitSteps DEF Unbegun
<1>7. CASE Exit
  BY <1>1, <1>7, ExitSteps DEF Unbegun, outside
<1>8. CASE Crash
  BY <1>1, <1>8, CrashSteps DEF Unbegun, outside
<1>9. CASE UNCHANGED vars
  <2>1. CopiesKept
    BY <1>9 DEF CopiesKept, CopiesOK, TypeOK, Jobs, Submissions, vars
  <2> QED BY <1>1, <1>9, <2>1 DEF Unbegun, vars
<1> QED BY <1>2, <1>3, <1>4, <1>5, <1>6, <1>7, <1>8, <1>9, StepCases

-------------------------------------------------------------------------------
\* The theorems

THEOREM Invariance == Spec => []Inv
<1>1. Init => Inv
  <2> SUFFICES ASSUME Init PROVE Inv
    OBVIOUS
  <2>1. /\ IdleTask \in Jobs /\ JobOK(IdleTask, sess) /\ IdleTask.pc = "idle"
        /\ IdleTask.view.gate = "none" /\ IdleClick \in Submissions
        /\ sess \in States /\ Coherent(sess) /\ sess.gate = "none" /\ ~sess.done
        /\ sess.active = "none"
    BY IdleTypes, NewStateFields DEF Init, JobOK, Passed, NoSession
  <2>2. TypeOK
    <3>1. docs \in Seq(Profiles \cup {Blank}) /\ Len(docs) <= MaxDocs
      BY EngineAssumption DEF Init
    <3>2. task \in [Tasks -> Jobs] /\ click \in [Clicks -> Submissions]
      BY <2>1 DEF Init
    <3> QED BY <2>1, <3>1, <3>2 DEF Init, TypeOK, Jobs, Submissions
  <2>3. Unbegun /\ CopiesOK
    BY <2>1 DEF Init, Unbegun, CopiesOK, SubmissionOK
  <2>4. OwnDossier /\ DossierTailored /\ ChoicesThanked
    BY <2>1 DEF Init, OwnDossier, Filling, DossierTailored, ChoicesThanked, Chosen
  <2> QED BY <2>2, <2>3, <2>4 DEF Inv
<1>2. Inv /\ [Next]_vars => Inv'
  <2> SUFFICES ASSUME Inv, [Next]_vars PROVE Inv'
    OBVIOUS
  <2>1. TypeOK'
    BY BesidesStep DEF TypeOK, CopiesKept, Jobs, Submissions
  <2> QED BY <2>1, BesidesStep, DossiersStep, ThanksStep DEF Inv, CopiesKept
<1> QED BY <1>1, <1>2, PTL DEF Spec

\* The session, every copy of it, and the dossiers are well typed.
THEOREM TypeCorrect == Spec => []TypeOK
<1>1. Inv => TypeOK
  BY DEF Inv
<1> QED BY <1>1, Invariance, PTL

\* No research is stored, and no dossier copied, before a submission was acknowledged.
THEOREM FormComesFirst == Spec => []FormFirst
<1>1. Inv => FormFirst
  BY DEF Inv, CopiesOK, Coherent, ChoicesThanked, Chosen, FormFirst
<1> QED BY <1>1, Invariance, PTL

\* What the person was thanked for is the thread's tailoring, or the form is still open.
THEOREM ChoiceIsKept == Spec => []TailoringKept
<1>1. Inv => TailoringKept
  BY DEF Inv, TypeOK, States, ChoicesThanked, Chosen, TailoringKept
<1> QED BY <1>1, Invariance, PTL

\* The dossier linked to was filled under the thread's tailoring, if it was filled.
THEOREM DossierIsAsChosen == Spec => []DossierTailored
<1>1. Inv => DossierTailored
  BY DEF Inv
<1> QED BY <1>1, Invariance, PTL

\* A completed thread keeps its link, whatever runs again in it.
THEOREM LinkStays == Spec => LinkKept
<1>1. Inv /\ [Next]_vars => (sess.done /\ sess'.active = "iq" => sess'.done /\ sess'.link = sess.link)
  <2> SUFFICES ASSUME Inv, [Next]_vars, sess.done, sess'.active = "iq"
               PROVE  sess'.done /\ sess'.link = sess.link
    OBVIOUS
  <2> USE DEF Inv
  <2>1. ASSUME NEW t \in Tasks, Run(t) \/ Post(t)
        PROVE  sess'.done /\ sess'.link = sess.link
    BY <2>1, RunActs, PostActs DEF Acts, Follows
  <2>2. ASSUME NEW t \in Tasks, PlainMessage(t) \/ \E h \in Clicks : Acknowledge(h, t)
        PROVE  sess' = sess
    BY <2>2, PlainSteps, AcknowledgeSteps
  <2>3. ~Exit /\ \A t \in Tasks : ~SlashIq(t)
    BY ExitSteps, NewStateFields DEF SlashIq, Unbegun, NoSession
  <2>4. Crash \/ (\E h \in Clicks, choice \in Choices : Submit(h, choice)) \/ UNCHANGED vars
            => sess' = sess
    BY DEF Crash, Submit, vars
  <2> QED BY <2>1, <2>2, <2>3, <2>4, StepCases
<1> QED BY <1>1, Invariance, PTL DEF Spec, LinkKept

================================================================================
