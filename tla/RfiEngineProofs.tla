---------------------------- MODULE RfiEngineProofs ----------------------------
(***************************************************************************)
(* Proofs about RfiEngine for any number of questions, tasks, form         *)
(* submissions and fill calls, and any set of faults.  The pipeline moves  *)
(* a session forwards only, so a copy is always behind the stored session; *)
(* what a run does with a stale copy is judged by how far that one was.    *)
(* The last part is about RfiDocument: how the turns of the questions, one *)
(* after the other, change the document.                                   *)
(***************************************************************************)
EXTENDS RfiDocument, FiniteSetTheorems, SequenceTheorems, WellFoundedInduction, TLAPS

\* Both forms are done with.
Settled(s) == s.guidance = "RESOLVED" /\ (s.gap \in {"RESOLVED", "SKIPPED"} \/ Questions = {})

\* What holds of every session that was ever stored.
Coherent(s) ==
    /\ s.active # "rfi" => s.questions # "found" /\ ~s.file
    /\ s.guidance # "none" => s.questions = "found"
    /\ s.answers # NoAnswers => s.guidance = "RESOLVED"
    /\ s.gap # "none" => s.answers # NoAnswers
    /\ s.gap = "SKIPPED" => Gaps(s) = {}
    /\ s.gap = "PENDING" => Gaps(s) # {}
    /\ s.done => HasQuestions(s) /\ Settled(s)

\* s is v or a later state of the same session.
Precedes(v, s) ==
    /\ s.active = v.active
    /\ v.guidance = "RESOLVED" => s.guidance = "RESOLVED"
    /\ v.answers # NoAnswers =>
          /\ s.answers # NoAnswers
          /\ \A q \in Questions : s.answers[q] = v.answers[q] \/ s.answers[q] = "human"
          /\ s.gap # "RESOLVED" => s.answers = v.answers
    /\ v.gap = "PENDING" => s.gap \in {"PENDING", "RESOLVED"}
    /\ v.gap \in {"RESOLVED", "SKIPPED"} => s.gap = v.gap /\ s.answers = v.answers
    /\ v.done => s.done

\* How far a run has brought the session it works on, by its stage.
Passed(pc, v) ==
    /\ pc \in {"research", "gap", "assemble", "fill", "record"} =>
          (HasQuestions(v) => v.guidance # "none")
    /\ pc \in {"gap", "assemble", "fill", "record"} =>
          (HasQuestions(v) /\ v.guidance = "RESOLVED" => v.answers # NoAnswers \/ Questions = {})
    /\ pc \in {"assemble", "fill", "record"} =>
          (HasQuestions(v) /\ v.guidance = "RESOLVED" => v.gap # "none" \/ Questions = {})
    /\ pc \in {"fill", "record"} => ReadyToFill(v)

-------------------------------------------------------------------------------
\* The pipeline moves a session forwards

Keys == {"active", "file", "questions", "guidance", "answers", "gap", "done"}

\* Two states are the same when their keys hold the same.
LEMMA StateFields ==
    ASSUME NEW s \in States
    PROVE  /\ DOMAIN s = Keys
           /\ s = [active |-> s.active, file |-> s.file, questions |-> s.questions,
                   guidance |-> s.guidance, answers |-> s.answers, gap |-> s.gap, done |-> s.done]
BY DEF States, Keys

\* The answers are none, or one for every question.
LEMMA AnswersDomain ==
    ASSUME NEW s \in States
    PROVE  /\ s.answers # NoAnswers => s.answers \in Answers /\ DOMAIN s.answers = Questions
           /\ s.answers \in Answers => DOMAIN s.answers = Questions
           /\ s.answers = NoAnswers => Gaps(s) = {}
           /\ Questions = {} => s.answers = NoAnswers
<1>1. DOMAIN NoAnswers = {}
  BY DEF NoAnswers
<1>2. s.answers \in Answers \cup {NoAnswers}
  BY DEF States
<1>3. \A a \in Answers : DOMAIN a = Questions
  BY DEF Answers
<1>4. ASSUME Questions = {}, s.answers \in Answers
      PROVE  s.answers = NoAnswers
  BY <1>4 DEF Answers, NoAnswers
<1> QED BY <1>1, <1>2, <1>3, <1>4 DEF Gaps

LEMMA PrecedesItself ==
    ASSUME NEW s \in States
    PROVE  Precedes(s, s)
BY DEF Precedes

LEMMA PrecedesTransitive ==
    ASSUME NEW u \in States, NEW v \in States, NEW w \in States, Precedes(u, v), Precedes(v, w)
    PROVE  Precedes(u, w)
BY DEF Precedes

\* n is what a stage or a form may leave of s.
Advances(s, n) == n \in States /\ Coherent(n) /\ Precedes(s, n)

\* A stage neither records the file nor answers the gap form.
Asks(s, n) == n.done = s.done /\ (n.gap = "RESOLVED" => s.gap = "RESOLVED")

LEMMA NoDeltaAdvances ==
    ASSUME NEW s \in States, Coherent(s)
    PROVE  Applied(s, NoDelta) = s /\ Advances(s, s)
<1>1. DOMAIN NoDelta = {}
  BY DEF NoDelta
<1>2. Applied(s, NoDelta) = s
  BY <1>1 DEF Applied, States
<1> QED BY <1>2, PrecedesItself DEF Advances

LEMMA ParsedAdvances ==
    ASSUME NEW s \in States, Coherent(s), NEW delta \in Parsed(s)
    PROVE  Advances(s, Applied(s, delta)) /\ Asks(s, Applied(s, delta))
<1>1. PICK found \in {"unparsed", "empty", "found"} :
          /\ delta = [questions |-> found]
          /\ s.questions # "unparsed" => found = s.questions
          /\ found = "found" => s.questions = "found" \/ s.file
  BY DEF Parsed, States
<1>2. DOMAIN delta = {"questions"} /\ delta["questions"] = found
  BY <1>1
<1> DEFINE n == Applied(s, delta)
<1>3. /\ n \in States /\ n.questions = found
      /\ n.active = s.active /\ n.file = s.file /\ n.guidance = s.guidance
      /\ n.answers = s.answers /\ n.gap = s.gap /\ n.done = s.done
  BY <1>2, StateFields DEF Applied, States, Keys
<1> HIDE DEF n
<1>4. Gaps(n) = Gaps(s) /\ (Settled(n) <=> Settled(s))
  BY <1>3 DEF Gaps, Settled
<1>5. Coherent(n)
  BY <1>1, <1>3, <1>4 DEF Coherent, HasQuestions, States
<1>6. Precedes(s, n)
  BY <1>3 DEF Precedes
<1> QED BY <1>3, <1>5, <1>6 DEF Advances, Asks, n

LEMMA GuidanceAdvances ==
    ASSUME NEW s \in States, Coherent(s)
    PROVE  LET n == Applied(s, GuidanceGated(s))
           IN  Advances(s, n) /\ Asks(s, n) /\ (HasQuestions(n) => n.guidance # "none")
<1> DEFINE n == Applied(s, GuidanceGated(s))
<1>1. CASE HasQuestions(s) /\ s.guidance # "RESOLVED"
  <2> DEFINE delta == [guidance |-> "PENDING"]
  <2>1. DOMAIN delta = {"guidance"} /\ delta["guidance"] = "PENDING"
    OBVIOUS
  <2>2. n = Applied(s, delta)
    BY <1>1 DEF GuidanceGated
  <2> HIDE DEF delta
  <2>3. /\ n \in States /\ n.guidance = "PENDING"
        /\ n.active = s.active /\ n.file = s.file /\ n.questions = s.questions
        /\ n.answers = s.answers /\ n.gap = s.gap /\ n.done = s.done
    BY <2>1, <2>2, StateFields DEF Applied, States, Keys
  <2> HIDE DEF n
  <2>4. s.answers = NoAnswers /\ s.gap = "none" /\ ~s.done
    BY <1>1 DEF Coherent, Settled
  <2>5. Coherent(n) /\ Precedes(s, n)
    BY <1>1, <2>3, <2>4 DEF Coherent, Precedes, HasQuestions
  <2> QED BY <2>3, <2>5 DEF Advances, Asks, n
<1>2. CASE ~(HasQuestions(s) /\ s.guidance # "RESOLVED")
  <2>1. n = s /\ Advances(s, n)
    BY <1>2, NoDeltaAdvances DEF GuidanceGated
  <2> QED BY <1>2, <2>1 DEF Asks
<1> QED BY <1>1, <1>2

LEMMA ResearchAdvances ==
    ASSUME NEW s \in States, Coherent(s), HasQuestions(s) => s.guidance # "none",
           NEW delta \in Researched(s)
    PROVE  LET n == Applied(s, delta)
           IN  /\ Advances(s, n)
               /\ n.guidance = s.guidance /\ n.questions = s.questions /\ Asks(s, n)
               /\ HasQuestions(n) /\ n.guidance = "RESOLVED" => n.answers # NoAnswers \/ Questions = {}
<1> DEFINE n == Applied(s, delta)
<1>1. CASE ResearchDue(s)
  <2>1. PICK found \in [Questions -> Found] : delta = [answers |-> found]
    BY <1>1 DEF Researched
  <2>2. DOMAIN delta = {"answers"} /\ delta["answers"] = found
    BY <2>1
  <2>3. found \in Answers
    BY DEF Answers
  <2>4. /\ n \in States /\ n.answers = found
        /\ n.active = s.active /\ n.file = s.file /\ n.questions = s.questions
        /\ n.guidance = s.guidance /\ n.gap = s.gap /\ n.done = s.done
    BY <2>2, <2>3, StateFields DEF Applied, States, Keys
  <2>5. Questions # {} => found # NoAnswers
    <3>1. DOMAIN found = Questions /\ DOMAIN NoAnswers = {}
      BY DEF NoAnswers
    <3> QED BY <3>1
  <2> HIDE DEF n
  <2>6. s.guidance = "RESOLVED" /\ s.answers = NoAnswers /\ s.gap = "none"
    BY <1>1 DEF ResearchDue, Coherent, States
  <2>7. Coherent(n)
    BY <1>1, <2>4, <2>6 DEF Coherent, HasQuestions, Settled, ResearchDue
  <2>8. Precedes(s, n)
    BY <2>4, <2>6 DEF Precedes
  <2> QED BY <2>4, <2>5, <2>7, <2>8 DEF Advances, Asks, n
<1>2. CASE ~ResearchDue(s)
  <2>1. n = s /\ Advances(s, n)
    BY <1>2, NoDeltaAdvances DEF Researched
  <2> QED BY <1>2, <2>1 DEF ResearchDue, Asks
<1> QED BY <1>1, <1>2

LEMMA GapAdvances ==
    ASSUME NEW s \in States, Coherent(s)
    PROVE  LET n == Applied(s, GapGated(s))
           IN  /\ Advances(s, n) /\ Asks(s, n)
               /\ n.guidance = s.guidance /\ n.questions = s.questions /\ n.answers = s.answers
               /\ n.gap # "none" \/ s.guidance = "PENDING" \/ s.answers = NoAnswers
<1> DEFINE n == Applied(s, GapGated(s))
<1>1. CASE s.guidance = "PENDING" \/ s.answers = NoAnswers \/ s.gap \in {"RESOLVED", "SKIPPED"}
  <2>1. n = s /\ Advances(s, n)
    BY <1>1, NoDeltaAdvances DEF GapGated
  <2> QED BY <1>1, <2>1 DEF Asks
<1>2. CASE ~(s.guidance = "PENDING" \/ s.answers = NoAnswers \/ s.gap \in {"RESOLVED", "SKIPPED"})
  <2>1. PICK gap : gap = IF Gaps(s) = {} THEN "SKIPPED" ELSE "PENDING"
    OBVIOUS
  <2> DEFINE delta == [gap |-> gap]
  <2>2. DOMAIN delta = {"gap"} /\ delta["gap"] = gap
    OBVIOUS
  <2>3. n = Applied(s, delta)
    BY <1>2, <2>1 DEF GapGated
  <2> HIDE DEF delta
  <2>4. /\ n \in States /\ n.gap = gap
        /\ n.active = s.active /\ n.file = s.file /\ n.questions = s.questions
        /\ n.guidance = s.guidance /\ n.answers = s.answers /\ n.done = s.done
    BY <2>1, <2>2, <2>3, StateFields DEF Applied, States, Keys
  <2> HIDE DEF n
  <2>5. ~s.done /\ Gaps(n) = Gaps(s)
    BY <1>2, <2>4, AnswersDomain DEF Coherent, Settled, Gaps
  <2>6. Coherent(n) /\ Precedes(s, n)
    BY <1>2, <2>1, <2>4, <2>5 DEF Coherent, Precedes
  <2> QED BY <2>1, <2>4, <2>6 DEF Advances, Asks, n
<1> QED BY <1>1, <1>2

\* The fill's answer is recorded in a session both forms are done with.
LEMMA DoneAdvances ==
    ASSUME NEW s \in States, Coherent(s), HasQuestions(s), Settled(s)
    PROVE  LET n == Applied(s, [done |-> TRUE])
           IN  Advances(s, n) /\ n.answers = s.answers /\ n.gap = s.gap
<1> DEFINE n == Applied(s, [done |-> TRUE])
<1>1. PICK delta : delta = [done |-> TRUE]
  OBVIOUS
<1>2. DOMAIN delta = {"done"} /\ delta["done"] = TRUE /\ n = Applied(s, delta)
  BY <1>1
<1> HIDE DEF n
<1>3. DOMAIN n = Keys /\ n = [k \in Keys |-> IF k = "done" THEN TRUE ELSE s[k]]
  BY <1>2, StateFields DEF Applied
<1>4. /\ n \in States /\ n.done
      /\ n.active = s.active /\ n.file = s.file /\ n.questions = s.questions
      /\ n.guidance = s.guidance /\ n.answers = s.answers /\ n.gap = s.gap
  BY <1>3 DEF States, Keys
<1>5. Gaps(n) = Gaps(s) /\ Settled(n) /\ HasQuestions(n)
  BY <1>4 DEF Gaps, Settled, HasQuestions
<1>6. Coherent(n) /\ Precedes(s, n)
  BY <1>4, <1>5 DEF Coherent, Precedes
<1> QED BY <1>4, <1>6 DEF Advances, n

LEMMA WithGuidanceAdvances ==
    ASSUME NEW s \in States, Coherent(s), s.guidance = "PENDING"
    PROVE  LET n == Applied(s, WithGuidance)
           IN  Advances(s, n) /\ n.done = s.done /\ n.answers = NoAnswers /\ n.gap = "none"
<1> DEFINE n == Applied(s, WithGuidance)
<1>1. /\ DOMAIN WithGuidance = {"guidance", "answers", "gap"}
      /\ WithGuidance["guidance"] = "RESOLVED" /\ WithGuidance["answers"] = NoAnswers
      /\ WithGuidance["gap"] = "none"
  BY DEF WithGuidance
<1>2. /\ n \in States /\ n.guidance = "RESOLVED" /\ n.answers = NoAnswers /\ n.gap = "none"
      /\ n.active = s.active /\ n.file = s.file /\ n.questions = s.questions /\ n.done = s.done
  BY <1>1, StateFields DEF Applied, States, Keys
<1> HIDE DEF n
<1>3. s.answers = NoAnswers /\ s.gap = "none" /\ ~s.done
  BY DEF Coherent, Settled
<1>4. Coherent(n) /\ Precedes(s, n)
  BY <1>2, <1>3 DEF Coherent, Precedes
<1> QED BY <1>2, <1>4 DEF Advances, n

LEMMA GapAnswersAdvance ==
    ASSUME NEW s \in States, Coherent(s), s.gap = "PENDING", NEW typed \in SUBSET Questions
    PROVE  LET n == Applied(s, WithGapAnswers(s, typed))
           IN  /\ Advances(s, n) /\ n.done = s.done /\ n.gap = "RESOLVED"
               /\ \A q \in typed : n.answers[q] = "human"
<1> DEFINE delta == WithGapAnswers(s, typed)
           n == Applied(s, delta)
<1>1. s.answers # NoAnswers /\ s.answers \in Answers /\ DOMAIN s.answers = Questions
  BY AnswersDomain DEF Coherent
<1>2. PICK a : a = [q \in Questions |-> IF q \in typed THEN "human" ELSE s.answers[q]]
  OBVIOUS
<1>3. /\ DOMAIN delta = {"answers", "gap"}
      /\ delta["answers"] = a /\ delta["gap"] = "RESOLVED"
  BY <1>1, <1>2 DEF WithGapAnswers
<1>4. /\ a \in Answers /\ a # NoAnswers
      /\ \A q \in Questions : a[q] = s.answers[q] \/ a[q] = "human"
      /\ \A q \in typed : a[q] = "human"
  <2>1. a \in Answers
    BY <1>1, <1>2 DEF Answers
  <2>2. Questions # {}
    BY <1>1, AnswersDomain
  <2>3. DOMAIN a = Questions /\ DOMAIN NoAnswers = {}
    BY <1>2 DEF NoAnswers
  <2> QED BY <1>2, <2>1, <2>2, <2>3
<1> HIDE DEF delta
<1>5. /\ n \in States /\ n.answers = a /\ n.gap = "RESOLVED"
      /\ n.active = s.active /\ n.file = s.file /\ n.questions = s.questions
      /\ n.guidance = s.guidance /\ n.done = s.done
  BY <1>3, <1>4, StateFields DEF Applied, States, Keys
<1> HIDE DEF n
<1>6. ~s.done
  BY <1>1, AnswersDomain DEF Coherent, Settled
<1>7. Coherent(n)
  BY <1>1, <1>4, <1>5, <1>6 DEF Coherent
<1>8. Precedes(s, n)
  BY <1>1, <1>4, <1>5, <1>6 DEF Precedes
<1> QED BY <1>4, <1>5, <1>7, <1>8 DEF Advances, n, delta

\* A new session, and none.
LEMMA NewStateFields ==
    ASSUME NEW w \in {"none", "default", "rfi"}
    PROVE  /\ NewState(w) \in States /\ Coherent(NewState(w))
           /\ NewState(w).active = w /\ NewState(w).questions = "unparsed"
           /\ NewState(w).guidance = "none" /\ NewState(w).gap = "none" /\ ~NewState(w).done
           /\ NewState(w).answers = NoAnswers
<1>1. PICK n : n = NewState(w)
  OBVIOUS
<1>2. n = [active |-> w, file |-> FALSE, questions |-> "unparsed", guidance |-> "none",
           answers |-> NoAnswers, gap |-> "none", done |-> FALSE]
  BY <1>1 DEF NewState
<1>3. n \in States /\ Coherent(n)
  BY <1>2 DEF States, Coherent
<1> QED BY <1>1, <1>2, <1>3

\* From a settled session on, what there is to write is the same.
LEMMA SettledStays ==
    ASSUME NEW v \in States, NEW s \in States, Precedes(v, s), Settled(v)
    PROVE  Settled(s) /\ Filled(s) = Filled(v)
BY DEF Precedes, Settled, Filled

\* A run that writes the file, or records it, has a settled session.
LEMMA WriterSettled ==
    ASSUME NEW v \in States, Coherent(v), NEW pc, pc \in {"fill", "record"}, Passed(pc, v)
    PROVE  HasQuestions(v) /\ Settled(v) /\ v.active = "rfi"
BY DEF Passed, Settled, ReadyToFill, FormsPending, Coherent, HasQuestions, States

LEMMA SettledNotPending ==
    ASSUME NEW s \in States, Coherent(s), Settled(s)
    PROVE  ~FormsPending(s)
BY AnswersDomain DEF Settled, FormsPending, Coherent

-------------------------------------------------------------------------------
\* The inductive invariant

\* What the tasks and the submissions of the type are.
Jobs ==
    [pc: Stages, kind: {"none", "slash", "plain", "resume"}, work: {"none", "default", "rfi"},
     view: States, fresh: BOOLEAN, attempt: 0 .. (Attempts + 1)]

Submissions ==
    [pc: {"idle", "append"}, form: 0 .. MaxForms, kind: {"none", "guidance", "gap"},
     shown: SUBSET Questions, typed: SUBSET Questions, view: States, fresh: BOOLEAN]

\* A task's copy is coherent, as far as its run is, and not ahead of the stored
\* session s; one that may be appended from is s.  The last attempt may be exceeded
\* only once the run is over.
JobOK(j, s) ==
    /\ Coherent(j.view) /\ Passed(j.pc, j.view)
    /\ j.fresh => j.view = s
    /\ j.view.active = "rfi" /\ s.active = "rfi" => Precedes(j.view, s)
    /\ j.pc \notin {"post", "show", "note"} => j.attempt <= Attempts

TaskCopies == \A t \in Tasks : JobOK(task[t], sess)

\* A submission is under way only from a session that waited for it.
SubmissionOK(c, s) ==
    \/ c = IdleClick
    \/ /\ c.pc = "append" /\ Coherent(c.view)
       /\ c.fresh => c.view = s
       /\ \/ c.kind = "guidance" /\ c.view.guidance = "PENDING"
          \/ c.kind = "gap" /\ c.view.gap = "PENDING"

ClickCopies == \A h \in Clicks : SubmissionOK(click[h], sess)

\* Before /rfi there is nothing.
Unbegun ==
    ~begun =>
        /\ sess = NoSession /\ forms = {}
        /\ \A t \in Tasks : task[t] = IdleTask
        /\ \A h \in Clicks : click[h] = IdleClick
        /\ \A f \in Fills : fill[f] = IdleFill

\* Who waits for a fill is at that call, and at no other.
Waiting ==
    \A f \in Fills : \A t \in fill[f].waiting :
        /\ task[t].pc = "fill"
        /\ \A g \in Fills : t \in fill[g].waiting => g = f

\* Whatever is or will be written is the one thing there is to write.
FillsAgree ==
    sess.active = "rfi" =>
        /\ \A f \in Fills : fill[f].pc # "idle" => Settled(sess) /\ fill[f].content = Filled(sess)
        /\ \A f \in Fills : fill[f].pc = "answer" => \E n \in Files : drive[n] = Filled(sess)
        /\ \A t \in Tasks : task[t].pc = "record" => \E n \in Files : drive[n] = Filled(sess)

Copies == Coherent(sess) /\ TaskCopies /\ ClickCopies
Writes == Waiting /\ FillsAgree /\ CompletedFileHolds

Inv == TypeOK /\ Unbegun /\ Copies /\ Writes

-------------------------------------------------------------------------------
\* What a step does to the copies

\* A step leaves the session as it is, moves it forwards, or replaces it.
Onward(s, n) == n.active = "rfi" => Precedes(s, n)

GoesOn == sess' \in States /\ Coherent(sess') /\ Onward(sess, sess')

\* The task did not take part in the step, or its copy was made stale.
Kept(t) ==
    \/ task'[t] = task[t] /\ (task[t].fresh => sess' = sess)
    \/ task'[t] = [task[t] EXCEPT !.fresh = FALSE]

\* The submission did not take part in the step, its copy was made stale, or it is over.
ClickKept(h) ==
    \/ click'[h] = click[h] /\ (click[h].fresh => sess' = sess)
    \/ click'[h] = [click[h] EXCEPT !.fresh = FALSE]
    \/ click'[h] = IdleClick

\* Task t acts, and the others do not.  Only the answer of a fill takes a task to
\* where it records it, and only from there a session gets done.
TaskActs(t) ==
    /\ GoesOn
    /\ sess'.done => sess.done \/ (task[t].pc = "record" /\ task[t].view = sess)
    /\ task' = [u \in Tasks |-> task'[u]]
    /\ task'[t] \in Jobs /\ JobOK(task'[t], sess') /\ task'[t].pc # "record"
    /\ \A u \in Tasks \ {t} : Kept(u)
    /\ click' = [h \in Clicks |-> click'[h]]
    /\ \A h \in Clicks : ClickKept(h)

\* The step does not answer the gap form.
GapKept == sess'.gap = "RESOLVED" => sess.gap = "RESOLVED"

StageActs(t) == TaskActs(t) /\ GapKept

LEMMA IdleTypes ==
    /\ IdleTask \in Jobs /\ IdleTask.pc = "idle" /\ ~IdleTask.fresh
    /\ IdleTask.view = NoSession /\ IdleTask.attempt = 0 /\ IdleTask.kind = "none"
    /\ IdleClick \in Submissions /\ IdleClick.pc = "idle" /\ ~IdleClick.fresh
    /\ IdleClick.kind = "none" /\ IdleClick.shown = {} /\ IdleClick.typed = {}
    /\ [IdleClick EXCEPT !.fresh = FALSE] = IdleClick
    /\ [IdleTask EXCEPT !.fresh = FALSE] = IdleTask
<1>1. NoSession \in States
  BY NewStateFields DEF NoSession
<1>2. PICK n : n = NoSession
  OBVIOUS
<1>3. PICK j : j = IdleTask
  OBVIOUS
<1>4. j = [pc |-> "idle", kind |-> "none", work |-> "none", view |-> n, fresh |-> FALSE, attempt |-> 0]
  BY <1>2, <1>3 DEF IdleTask
<1>5. 0 \in 0 .. (Attempts + 1)
  BY EngineAssumption
<1>6. /\ j \in Jobs /\ j.pc = "idle" /\ ~j.fresh /\ j.view = n /\ j.attempt = 0 /\ j.kind = "none"
  BY <1>1, <1>2, <1>4, <1>5 DEF Jobs, Stages
<1>11. [j EXCEPT !.fresh = FALSE] = j
  BY <1>6 DEF Jobs
<1>7. PICK c : c = IdleClick
  OBVIOUS
<1>8. c = [pc |-> "idle", form |-> 0, kind |-> "none", shown |-> {}, typed |-> {},
           view |-> n, fresh |-> FALSE]
  BY <1>2, <1>7 DEF IdleClick
<1>9. 0 \in 0 .. MaxForms
  BY EngineAssumption
<1>10. /\ c \in Submissions /\ c.pc = "idle" /\ ~c.fresh /\ c.kind = "none"
       /\ c.shown = {} /\ c.typed = {}
  BY <1>1, <1>2, <1>8, <1>9 DEF Submissions
<1>12. [c EXCEPT !.fresh = FALSE] = c
  BY <1>10 DEF Submissions
<1> QED BY <1>2, <1>3, <1>6, <1>7, <1>10, <1>11, <1>12

LEMMA IdleOK ==
    ASSUME NEW s \in States
    PROVE  JobOK(IdleTask, s) /\ SubmissionOK(IdleClick, s)
<1>1. Coherent(NoSession) /\ NoSession.active = "none"
  BY NewStateFields DEF NoSession
<1>2. Passed("idle", NoSession)
  BY DEF Passed
<1> QED BY <1>1, <1>2, IdleTypes, EngineAssumption DEF JobOK, SubmissionOK

\* A task that is scheduled has no copy yet.
LEMMA NewTaskOK ==
    ASSUME NEW kind \in {"slash", "plain", "resume"}, NEW work \in {"none", "default", "rfi"},
           NEW s \in States
    PROVE  /\ NewTask(kind, work) \in Jobs /\ JobOK(NewTask(kind, work), s)
           /\ NewTask(kind, work).pc = "start" /\ ~NewTask(kind, work).fresh
<1>1. PICK i, j : i = IdleTask /\ j = NewTask(kind, work)
  OBVIOUS
<1>2. j = [i EXCEPT !.pc = "start", !.kind = kind, !.work = work, !.attempt = 1]
  BY <1>1 DEF NewTask
<1>3. 1 \in 0 .. (Attempts + 1) /\ 1 <= Attempts
  BY EngineAssumption
<1>4. i \in Jobs /\ ~i.fresh /\ i.view = NoSession
  BY <1>1, IdleTypes
<1>5. j \in Jobs /\ j.pc = "start" /\ ~j.fresh /\ j.view = NoSession /\ j.attempt = 1
  BY <1>2, <1>3, <1>4 DEF Jobs, Stages
<1>6. Coherent(NoSession) /\ NoSession.active = "none"
  BY NewStateFields DEF NoSession
<1>7. JobOK(j, s)
  BY <1>3, <1>5, <1>6 DEF JobOK, Passed
<1> QED BY <1>1, <1>5, <1>7

LEMMA KeptOK ==
    ASSUME TypeOK, Copies, GoesOn, NEW t \in Tasks, Kept(t)
    PROVE  task'[t] \in Jobs /\ JobOK(task'[t], sess') /\ task'[t].pc = task[t].pc
<1>1. task[t] \in Jobs /\ JobOK(task[t], sess) /\ sess \in States /\ task[t].view \in States
  BY DEF TypeOK, Copies, TaskCopies, Jobs
<1>2. /\ task'[t] \in Jobs /\ task'[t].view = task[t].view /\ task'[t].pc = task[t].pc
      /\ task'[t].attempt = task[t].attempt
      /\ task'[t].fresh => task[t].fresh /\ sess' = sess
  BY <1>1 DEF Kept, Jobs
<1>3. task[t].view.active = "rfi" /\ sess'.active = "rfi" => Precedes(task[t].view, sess')
  <2> HAVE task[t].view.active = "rfi" /\ sess'.active = "rfi"
  <2>1. Precedes(sess, sess') /\ sess' \in States
    BY DEF GoesOn, Onward
  <2>2. Precedes(task[t].view, sess)
    BY <1>1, <2>1 DEF JobOK, Precedes
  <2> QED BY <1>1, <2>1, <2>2, PrecedesTransitive
<1> QED BY <1>1, <1>2, <1>3 DEF JobOK

LEMMA ClickKeptOK ==
    ASSUME TypeOK, Copies, NEW h \in Clicks, ClickKept(h)
    PROVE  click'[h] \in Submissions /\ SubmissionOK(click'[h], sess')
<1>1. click[h] \in Submissions /\ SubmissionOK(click[h], sess)
  BY DEF TypeOK, Copies, ClickCopies, Submissions
<1>2. CASE click[h] = IdleClick \/ click'[h] = IdleClick
  BY <1>2, IdleTypes DEF ClickKept, SubmissionOK
<1>3. CASE click[h] # IdleClick /\ click'[h] # IdleClick
  <2>1. /\ click'[h] \in Submissions /\ click'[h].view = click[h].view
        /\ click'[h].pc = click[h].pc /\ click'[h].kind = click[h].kind
        /\ click'[h].fresh => click[h].fresh /\ sess' = sess
    BY <1>1, <1>3 DEF ClickKept, Submissions
  <2> QED BY <1>1, <1>3, <2>1 DEF SubmissionOK
<1> QED BY <1>2, <1>3

LEMMA ActsOK ==
    ASSUME TypeOK, Copies, NEW t \in Tasks, TaskActs(t)
    PROVE  Copies' /\ task' \in [Tasks -> Jobs] /\ click' \in [Clicks -> Submissions]
<1>1. \A u \in Tasks : task'[u] \in Jobs /\ JobOK(task'[u], sess')
  BY KeptOK DEF TaskActs
<1>2. \A h \in Clicks : click'[h] \in Submissions /\ SubmissionOK(click'[h], sess')
  BY ClickKeptOK DEF TaskActs
<1>3. Coherent(sess')
  BY DEF TaskActs, GoesOn
<1>4. task' \in [Tasks -> Jobs]
  BY <1>1 DEF TaskActs
<1>5. click' \in [Clicks -> Submissions]
  BY <1>2 DEF TaskActs
<1> QED BY <1>1, <1>2, <1>3, <1>4, <1>5 DEF Copies, TaskCopies, ClickCopies

-------------------------------------------------------------------------------
\* The steps of a task

\* What holds of a task before it acts.
LEMMA TaskFacts ==
    ASSUME TypeOK, Copies, NEW t \in Tasks
    PROVE  /\ task[t] \in Jobs /\ task[t].view \in States /\ sess \in States
           /\ JobOK(task[t], sess) /\ Coherent(sess)
           /\ Coherent(task[t].view) /\ Passed(task[t].pc, task[t].view)
           /\ task[t].fresh => task[t].view = sess
           /\ Onward(sess, sess)
BY PrecedesItself DEF TypeOK, Copies, TaskCopies, JobOK, Jobs, Onward

\* The session is left alone and t goes on with some other job.
LEMMA AloneActs ==
    ASSUME TypeOK, Copies, UNCHANGED <<sess, click>>,
           NEW t \in Tasks, NEW j \in Jobs, JobOK(j, sess), j.pc # "record", task' = [task EXCEPT ![t] = j]
    PROVE  StageActs(t)
<1>1. GoesOn
  BY TaskFacts DEF GoesOn
<1>2. task' = [u \in Tasks |-> task'[u]] /\ click' = [h \in Clicks |-> click'[h]]
  BY DEF TypeOK
<1>3. task'[t] = j /\ \A u \in Tasks \ {t} : task'[u] = task[u]
  BY DEF TypeOK
<1>4. JobOK(task'[t], sess')
  BY <1>3
<1>5. \A u \in Tasks \ {t} : Kept(u)
  BY <1>3 DEF Kept
<1>6. \A h \in Clicks : ClickKept(h)
  BY DEF ClickKept
<1> QED BY <1>1, <1>2, <1>3, <1>4, <1>5, <1>6 DEF StageActs, GapKept, TaskActs

\* A run that raises or ends drops its copy.
LEMMA DropsCopy ==
    ASSUME TypeOK, Copies, NEW t \in Tasks, NEW next \in {"ended", "raised"}, NEW v,
           NEW s \in States, task[t].attempt <= Attempts
    PROVE  /\ Continue(task[t], next, v) \in Jobs /\ JobOK(Continue(task[t], next, v), s)
           /\ Continue(task[t], next, v).pc = next
<1>1. PICK n : n = NoSession
  OBVIOUS
<1>2. n \in States /\ Coherent(n) /\ n.active = "none"
  BY <1>1, NewStateFields DEF NoSession
<1>3. PICK j : j = Continue(task[t], next, v)
  OBVIOUS
<1>4. j = [task[t] EXCEPT !.pc = next, !.view = n, !.fresh = FALSE]
  BY <1>1, <1>3 DEF Continue
<1>5. /\ j \in Jobs /\ j.pc = next /\ j.view = n /\ ~j.fresh /\ j.attempt = task[t].attempt
  BY <1>2, <1>4, TaskFacts DEF Jobs, Stages
<1> QED BY <1>2, <1>3, <1>5 DEF JobOK, Passed

\* A stage emits its event.
LEMMA EmitActs ==
    ASSUME TypeOK, Copies, NEW t \in Tasks, NEW next \in Stages \ {"record"}, NEW delta,
           Emit(t, next, delta), task[t].attempt <= Attempts,
           Advances(task[t].view, Applied(task[t].view, delta)),
           \/ Asks(task[t].view, Applied(task[t].view, delta))
           \/ task[t].pc = "record" /\ Applied(task[t].view, delta).gap = task[t].view.gap,
           next \in {"ended", "raised"} \/ Passed(next, Applied(task[t].view, delta))
    PROVE  StageActs(t)
<1> DEFINE n == Applied(task[t].view, delta)
<1>1. CASE /\ ~CanAppend(task[t]) \/ "db" \in Faults
           /\ task' = [task EXCEPT ![t] = Continue(task[t], "raised", NoSession)]
           /\ UNCHANGED <<sess, click>>
  <2>1. sess \in States
    BY DEF TypeOK
  <2> QED BY <1>1, <2>1, DropsCopy, AloneActs
<1>2. CASE /\ CanAppend(task[t])
           /\ sess' = Applied(sess, delta)
           /\ task' = [Stale(task) EXCEPT ![t] = Continue(task[t], next, n)]
           /\ click' = Stale(click)
  <2>1. task[t].fresh /\ task[t].view = sess /\ sess' = n
    BY <1>2, TaskFacts DEF CanAppend
  <2>2. n \in States /\ Coherent(n) /\ Precedes(sess, n)
    BY <2>1 DEF Advances
  <2>3. GoesOn
    BY <2>1, <2>2 DEF GoesOn, Onward
  <2>4. /\ task' = [u \in Tasks |-> task'[u]]
        /\ task'[t] = Continue(task[t], next, n)
        /\ \A u \in Tasks \ {t} : task'[u] = [task[u] EXCEPT !.fresh = FALSE]
        /\ click' = [h \in Clicks |-> click'[h]]
        /\ \A h \in Clicks : click'[h] = [click[h] EXCEPT !.fresh = FALSE]
    <3>1. DOMAIN task = Tasks /\ DOMAIN click = Clicks
      BY DEF TypeOK
    <3>2. PICK j : j = Continue(task[t], next, n)
      OBVIOUS
    <3>3. task' = [Stale(task) EXCEPT ![t] = j]
      BY <1>2, <3>2
    <3> HIDE DEF n
    <3> QED BY <1>2, <3>1, <3>2, <3>3 DEF Stale
  <2>5. task'[t] \in Jobs /\ JobOK(task'[t], sess') /\ task'[t].pc = next
    <3>1. CASE next \in {"ended", "raised"}
      <4> HIDE DEF n
      <4>1. /\ Continue(task[t], next, n) \in Jobs /\ JobOK(Continue(task[t], next, n), n)
           /\ Continue(task[t], next, n).pc = next
        BY <2>2, <3>1, DropsCopy
      <4> QED BY <2>1, <2>4, <4>1
    <3>2. CASE next \notin {"ended", "raised"}
      <4>1. task'[t] = [task[t] EXCEPT !.pc = next, !.view = n]
        BY <2>4, <3>2 DEF Continue
      <4> HIDE DEF n
      <4>2. /\ task'[t] \in Jobs /\ task'[t].pc = next /\ task'[t].view = n
            /\ task'[t].attempt = task[t].attempt
        BY <2>2, <4>1, TaskFacts DEF Jobs
      <4>3. Passed(next, n)
        BY <3>2 DEF n
      <4> QED BY <2>1, <2>2, <4>2, <4>3, PrecedesItself DEF JobOK
    <3> QED BY <3>1, <3>2
  <2>6. sess'.done => sess.done \/ (task[t].pc = "record" /\ task[t].view = sess)
    BY <2>1 DEF Asks
  <2>7. GapKept
    BY <2>1 DEF Asks, GapKept
  <2> QED BY <2>3, <2>4, <2>5, <2>6, <2>7 DEF StageActs, GapKept, TaskActs, Kept, ClickKept
<1> QED BY <1>1, <1>2 DEF Emit

\* Moving on with the same copy.
LEMMA MoveActs ==
    ASSUME TypeOK, Copies, UNCHANGED <<sess, click>>, NEW t \in Tasks,
           NEW next \in Stages \ {"record"}, Passed(next, task[t].view),
           task[t].attempt <= Attempts \/ next \in {"post", "show", "note"}, Goto(t, next)
    PROVE  StageActs(t)
<1>1. PICK j : j = [task[t] EXCEPT !.pc = next]
  OBVIOUS
<1>2. task' = [task EXCEPT ![t] = j]
  BY <1>1 DEF Goto, TypeOK
<1>3. j \in Jobs /\ JobOK(j, sess) /\ j.pc # "record"
  BY <1>1, TaskFacts DEF Jobs, JobOK
<1> QED BY <1>2, <1>3, AloneActs

\* A task is over.
LEMMA IdleActs ==
    ASSUME TypeOK, Copies, UNCHANGED <<sess, click>>, NEW t \in Tasks,
           task' = [task EXCEPT ![t] = IdleTask]
    PROVE  StageActs(t)
BY IdleTypes, IdleOK, AloneActs DEF TypeOK

\* Loading the stored session.
LEMMA LoadActs ==
    ASSUME TypeOK, Copies, UNCHANGED <<sess, click>>, NEW t \in Tasks, NEW next \in {"message", "show"},
           task[t].attempt <= Attempts \/ next = "show",
           task' = [task EXCEPT ![t].pc = next, ![t].view = sess, ![t].fresh = TRUE]
    PROVE  StageActs(t)
<1>1. PICK j : j = [task[t] EXCEPT !.pc = next, !.view = sess, !.fresh = TRUE]
  OBVIOUS
<1>2. task' = [task EXCEPT ![t] = j]
  BY <1>1 DEF TypeOK
<1>3. j \in Jobs /\ JobOK(j, sess) /\ j.pc # "record"
  BY <1>1, TaskFacts, PrecedesItself DEF Jobs, Stages, JobOK, Passed
<1> QED BY <1>2, <1>3, AloneActs

\* Every step of the run is one of a task that works on its copy.
LEMMA RunActs ==
    ASSUME TypeOK, Copies, NEW t \in Tasks, Run(t)
    PROVE  StageActs(t)
<1>1. /\ task[t].view \in States /\ Coherent(task[t].view) /\ Passed(task[t].pc, task[t].view)
      /\ task[t].pc \notin {"post", "show", "note"} => task[t].attempt <= Attempts
  BY TaskFacts DEF JobOK
<1>2. CASE Start(t)
  BY <1>1, <1>2, LoadActs, MoveActs DEF Start, Passed, Stages
<1>3. CASE Message(t)
  BY <1>1, <1>3, NoDeltaAdvances, EmitActs DEF Asks, Message, Passed, Stages
<1>4. CASE Parse(t)
  <2>1. ASSUME NEW delta \in Parsed(task[t].view), Emit(t, "guidance", delta)
        PROVE  StageActs(t)
    BY <1>1, <1>4, <2>1, ParsedAdvances, EmitActs DEF Parse, Passed, Stages
  <2>2. CASE /\ task' = [task EXCEPT ![t] = Continue(task[t], "raised", NoSession)]
             /\ UNCHANGED <<sess, click>>
    BY <1>1, <1>4, <2>2, DropsCopy, AloneActs DEF Parse, TypeOK
  <2> QED BY <1>4, <2>1, <2>2 DEF Parse
<1>5. CASE GuidanceStage(t)
  BY <1>1, <1>5, GuidanceAdvances, EmitActs DEF GuidanceStage, Passed, Stages
<1>6. CASE Research(t)
  <2>1. PICK delta \in Researched(task[t].view) : Emit(t, "gap", delta)
    BY <1>6 DEF Research
  <2>2. HasQuestions(task[t].view) => task[t].view.guidance # "none"
    BY <1>1, <1>6 DEF Research, Passed
  <2>3. PICK n : n = Applied(task[t].view, delta)
    OBVIOUS
  <2>4. /\ Advances(task[t].view, n) /\ Asks(task[t].view, n)
        /\ n.guidance = task[t].view.guidance /\ n.questions = task[t].view.questions
        /\ HasQuestions(n) /\ n.guidance = "RESOLVED" => n.answers # NoAnswers \/ Questions = {}
    BY <1>1, <2>2, <2>3, ResearchAdvances
  <2>5. Passed("gap", n)
    BY <2>2, <2>4 DEF Passed, HasQuestions
  <2> QED BY <1>1, <1>6, <2>1, <2>3, <2>4, <2>5, EmitActs DEF Research, Stages
<1>7. CASE GapStage(t)
  <2>1. PICK n : n = Applied(task[t].view, GapGated(task[t].view))
    OBVIOUS
  <2>2. /\ Advances(task[t].view, n) /\ Asks(task[t].view, n)
        /\ n.guidance = task[t].view.guidance /\ n.questions = task[t].view.questions
        /\ n.answers = task[t].view.answers
        /\ n.gap # "none" \/ n.guidance = "PENDING" \/ n.answers = NoAnswers
    BY <1>1, <2>1, GapAdvances
  <2>3. Passed("assemble", n)
    BY <1>1, <1>7, <2>2 DEF Passed, HasQuestions, GapStage
  <2> QED BY <1>1, <1>7, <2>1, <2>2, <2>3, EmitActs DEF GapStage, Stages
<1>8. CASE AssembleNothing(t)
  BY <1>1, <1>8, NoDeltaAdvances, EmitActs DEF Asks, AssembleNothing, Stages
<1>9. ASSUME NEW f \in Fills, CallFill(t, f)
      PROVE  StageActs(t)
  BY <1>1, <1>9, MoveActs DEF CallFill, Passed, Stages
<1>10. CASE LoseCall(t)
  BY <1>1, <1>10, MoveActs DEF LoseCall, Passed, Stages
<1>11. CASE Record(t)
  BY <1>1, <1>11, WriterSettled, DoneAdvances, EmitActs DEF Record, Stages
<1>12. CASE Say(t)
  BY <1>1, <1>12, NoDeltaAdvances, EmitActs DEF Asks, Say, Stages
<1> QED BY <1>2, <1>3, <1>4, <1>5, <1>6, <1>7, <1>8, <1>9, <1>10, <1>11, <1>12 DEF Run

LEMMA PostActs ==
    ASSUME TypeOK, Copies, NEW t \in Tasks, Post(t)
    PROVE  StageActs(t)
<1>1. task[t].pc \notin {"post", "show", "note"} => task[t].attempt <= Attempts
  BY TaskFacts DEF JobOK
<1>2. CASE PostReply(t) \/ TaskDies(t) \/ PostText(t) \/ PostFails(t)
  BY <1>2, IdleActs DEF PostReply, TaskDies, PostText, PostFails
<1>3. CASE SlashOver(t)
  BY <1>1, <1>3, MoveActs DEF SlashOver, Passed, Stages
<1>4. CASE ResumeOver(t)
  <2>1. PICK next, attempt :
            /\ next \in {"start", "post"} /\ attempt \in {task[t].attempt, task[t].attempt + 1}
            /\ next = "start" => task[t].attempt < Attempts
            /\ task' = [task EXCEPT ![t].pc = next, ![t].attempt = attempt]
    BY <1>4 DEF ResumeOver, TypeOK
  <2>2. task[t].attempt <= Attempts
    BY <1>1, <1>4 DEF ResumeOver, RunOver
  <2>3. PICK j : j = [task[t] EXCEPT !.pc = next, !.attempt = attempt]
    OBVIOUS
  <2>4. task[t].attempt \in 0 .. (Attempts + 1) /\ Attempts \in Nat
    BY EngineAssumption, TaskFacts DEF Jobs
  <2>5. attempt \in 0 .. (Attempts + 1) /\ (next = "start" => attempt <= Attempts)
    BY <2>1, <2>2, <2>4
  <2>6. j \in Jobs /\ JobOK(j, sess) /\ j.pc # "record"
    BY <2>1, <2>3, <2>5, TaskFacts DEF Jobs, Stages, JobOK, Passed
  <2>7. task' = [task EXCEPT ![t] = j]
    BY <2>1, <2>3 DEF TypeOK
  <2> QED BY <1>4, <2>6, <2>7, AloneActs DEF ResumeOver
<1>5. CASE LoadResult(t)
  BY <1>1, <1>5, LoadActs DEF LoadResult
<1>6. CASE PostForm(t)
  BY <1>1, <1>6, MoveActs DEF PostForm, Passed, Stages
<1>7. CASE NoteForm(t)
  <2>1. CASE task' = [task EXCEPT ![t] = IdleTask] /\ UNCHANGED click
    BY <1>7, <2>1, IdleActs DEF NoteForm
  <2>2. CASE task' = [Stale(task) EXCEPT ![t] = IdleTask] /\ click' = Stale(click)
    <3>1. sess' = sess /\ GoesOn
      BY <1>7, TaskFacts DEF NoteForm, GoesOn
    <3>2. DOMAIN task = Tasks /\ DOMAIN click = Clicks
      BY DEF TypeOK
    <3> QED BY <2>2, <3>1, <3>2, IdleTypes, IdleOK DEF StageActs, GapKept, TaskActs, Kept, ClickKept, Stale, TypeOK
  <2> QED BY <1>7, <2>1, <2>2 DEF NoteForm
<1> QED BY <1>2, <1>3, <1>4, <1>5, <1>6, <1>7 DEF Post

LEMMA PlainMessageActs ==
    ASSUME TypeOK, Copies, NEW t \in Tasks, PlainMessage(t)
    PROVE  StageActs(t)
<1>1. CASE task' = [task EXCEPT ![t] = NewTask("plain", sess.active)] /\ UNCHANGED <<sess, click>>
  <2>1. sess \in States /\ sess.active \in {"none", "default", "rfi"}
    BY DEF TypeOK, States
  <2> QED BY <1>1, <2>1, NewTaskOK, AloneActs
<1>2. CASE /\ sess' = NewState("default")
           /\ task' = [Stale(task) EXCEPT ![t] = NewTask("plain", "default")]
           /\ click' = Stale(click)
  <2>1. GoesOn /\ sess'.active = "default" /\ ~sess'.done /\ sess'.gap = "none"
    BY <1>2, NewStateFields DEF GoesOn, Onward
  <2>2. DOMAIN task = Tasks /\ DOMAIN click = Clicks
    BY DEF TypeOK
  <2>3. PICK j : j = NewTask("plain", "default")
    OBVIOUS
  <2>4. j \in Jobs /\ JobOK(j, sess') /\ j.pc = "start"
    BY <2>1, <2>3, NewTaskOK DEF GoesOn
  <2>5. task' = [Stale(task) EXCEPT ![t] = j]
    BY <1>2, <2>3
  <2> QED BY <1>2, <2>1, <2>2, <2>4, <2>5 DEF StageActs, GapKept, TaskActs, Kept, ClickKept, Stale
<1> QED BY <1>1, <1>2 DEF PlainMessage

\* The copy a submission was loaded from may still be appended to: what it stores.
LEMMA SubmittedAdvances ==
    ASSUME TypeOK, Copies, NEW h \in Clicks, click[h] # IdleClick, click[h].fresh
    PROVE  LET n == Applied(sess, Submitted(click[h]))
           IN  /\ click[h].view = sess
               /\ Advances(sess, n) /\ n.done = sess.done
               /\ click[h].kind = "gap" =>
                     n.gap = "RESOLVED" /\ \A q \in click[h].typed : n.answers[q] = "human"
               /\ click[h].kind = "guidance" => n.answers = NoAnswers /\ n.gap = "none"
               /\ click[h].kind \in {"gap", "guidance"}
<1>1. /\ sess \in States /\ Coherent(sess) /\ click[h] \in Submissions /\ SubmissionOK(click[h], sess)
  BY DEF TypeOK, Copies, ClickCopies, Submissions
<1>2. click[h].view = sess
  BY <1>1 DEF SubmissionOK
<1>3. CASE click[h].kind = "guidance" /\ sess.guidance = "PENDING"
  BY <1>1, <1>2, <1>3, WithGuidanceAdvances DEF Submitted
<1>4. CASE click[h].kind = "gap" /\ sess.gap = "PENDING"
  <2>1. click[h].typed \in SUBSET Questions
    BY <1>1 DEF Submissions
  <2>2. Submitted(click[h]) = WithGapAnswers(sess, click[h].typed)
    BY <1>2, <1>4 DEF Submitted
  <2> QED BY <1>1, <1>2, <1>4, <2>1, <2>2, GapAnswersAdvance
<1> QED BY <1>1, <1>2, <1>3, <1>4 DEF SubmissionOK

LEMMA AcknowledgeActs ==
    ASSUME TypeOK, Copies, NEW t \in Tasks, NEW h \in Clicks, Acknowledge(h, t)
    PROVE  TaskActs(t)
<1>1. click[h] \in Submissions /\ SubmissionOK(click[h], sess) /\ sess \in States
  BY DEF TypeOK, Copies, ClickCopies, Submissions
<1>2. PICK j : j = NewTask("resume", click[h].view.active)
  OBVIOUS
<1>3. \A s \in States : j \in Jobs /\ JobOK(j, s) /\ j.pc = "start"
  BY <1>1, <1>2, NewTaskOK DEF Submissions, States
<1>4. CASE /\ CanAppend(click[h])
           /\ sess' = Applied(sess, Submitted(click[h]))
           /\ task' = [Stale(task) EXCEPT ![t] = j]
           /\ click' = [Stale(click) EXCEPT ![h] = IdleClick]
  <2>1. click[h] # IdleClick /\ click[h].fresh
    BY <1>4 DEF Acknowledge, CanAppend
  <2>2. Advances(sess, sess') /\ sess'.done = sess.done
    BY <1>4, <2>1, SubmittedAdvances
  <2>3. GoesOn
    BY <2>2 DEF GoesOn, Onward, Advances
  <2>4. DOMAIN task = Tasks /\ DOMAIN click = Clicks
    BY DEF TypeOK
  <2>5. j \in Jobs /\ JobOK(j, sess') /\ j.pc = "start"
    BY <1>3, <2>3 DEF GoesOn
  <2> QED BY <1>4, <2>2, <2>3, <2>4, <2>5 DEF TaskActs, Kept, ClickKept, Stale
<1>5. CASE /\ task' = [task EXCEPT ![t] = j]
           /\ click' = [click EXCEPT ![h] = IdleClick]
           /\ UNCHANGED sess
  <2>1. GoesOn
    BY <1>5, TaskFacts DEF GoesOn
  <2> QED BY <1>1, <1>3, <1>5, <2>1 DEF TypeOK, TaskActs, Kept, ClickKept, JobOK, Coherent, Passed
<1> QED BY <1>2, <1>4, <1>5 DEF Acknowledge

-------------------------------------------------------------------------------
\* Every step

\* What a set of numbers has, it has a least of.
LEMMA LeastOf ==
    ASSUME NEW S \in SUBSET Nat, S # {}
    PROVE  (CHOOSE n \in S : \A m \in S : n <= m) \in S
<1> DEFINE R == {p \in Nat \X Nat : p[1] < p[2]}
<1>1. OpToRel(<, Nat) = R
  BY Zenon DEF OpToRel
<1>2. IsWellFoundedOn(R, Nat)
  BY <1>1, NatLessThanWellFounded
<1> HIDE DEF R
<1>3. PICK n \in S : \A m \in S : <<m, n>> \notin R
  BY <1>2, WFMin
<1>4. ASSUME NEW m \in S, m < n
      PROVE  FALSE
  <2>1. PICK p : p = <<m, n>>
    OBVIOUS
  <2>2. p \in Nat \X Nat /\ p[1] < p[2]
    BY <1>4, <2>1
  <2>3. p \in R
    BY <2>2 DEF R
  <2> QED BY <1>3, <2>1, <2>3
<1>5. \A m \in S : n <= m
  BY <1>4
<1> QED BY <1>5

\* One task acts, or the server, the person or a crash does.
LEMMA StepCases ==
    ASSUME Next
    PROVE  \/ \E t \in Tasks :
                 \/ SlashRfi(t) \/ PlainMessage(t) \/ Run(t) \/ Post(t)
                 \/ \E h \in Clicks : Acknowledge(h, t)
           \/ \E f \in Fills : FindFile(f) \/ WriteFile(f) \/ FillAnswers(f) \/ FillErrs(f)
           \/ \E h \in Clicks, form \in forms : \E typed \in SUBSET form.shown : Submit(h, form, typed)
           \/ Exit
           \/ Crash
BY DEF Next, Serve, SubmitAny, AcknowledgeAny

\* The steps of one task.
Works(t) == PlainMessage(t) \/ Run(t) \/ Post(t) \/ \E h \in Clicks : Acknowledge(h, t)

LEMMA WorksActs ==
    ASSUME TypeOK, Copies, NEW t \in Tasks, Works(t)
    PROVE  TaskActs(t)
BY RunActs, PostActs, PlainMessageActs, AcknowledgeActs DEF Works, StageActs

\* The copies stay typed and behind the session.
CopiesKept ==
    /\ Copies' /\ sess' \in States
    /\ task' \in [Tasks -> Jobs] /\ click' \in [Clicks -> Submissions]

\* Neither the session nor a copy is touched.
LEMMA CopiesUntouched ==
    ASSUME TypeOK, Copies, UNCHANGED <<sess, task, click>>
    PROVE  CopiesKept
BY DEF TypeOK, Copies, TaskCopies, ClickCopies, CopiesKept,
       Jobs, Submissions

\* The fill's answer takes those who wait for it on.
LEMMA AnsweredCopies ==
    ASSUME TypeOK, Copies, Waiting, NEW f \in Fills, NEW next \in {"record", "say"},
           Answered(f, next), UNCHANGED <<sess, click>>
    PROVE  CopiesKept
<1>1. ASSUME NEW t \in Tasks
      PROVE  task'[t] \in Jobs /\ JobOK(task'[t], sess)
  <2>1. CASE t \notin fill[f].waiting
    BY <2>1, TaskFacts DEF Answered
  <2>2. CASE t \in fill[f].waiting
    <3>1. task'[t] = [task[t] EXCEPT !.pc = next] /\ task[t].pc = "fill"
      BY <2>2 DEF Answered, Waiting
    <3>2. Passed(next, task[t].view)
      BY <3>1, TaskFacts DEF Passed
    <3> QED BY <3>1, <3>2, TaskFacts DEF Jobs, Stages, JobOK
  <2> QED BY <2>1, <2>2
<1>2. task' \in [Tasks -> Jobs]
  BY <1>1 DEF Answered
<1> QED BY <1>1, <1>2 DEF CopiesKept, Copies, TaskCopies, ClickCopies,
           TypeOK, Submissions

\* A form is handled: its copy is the stored session.
LEMMA SubmitCopies ==
    ASSUME TypeOK, Copies, NEW h \in Clicks, NEW form \in forms, NEW typed \in SUBSET form.shown,
           Submit(h, form, typed)
    PROVE  CopiesKept
<1>1. CASE ~Awaited(form.kind)
  BY <1>1, CopiesUntouched DEF Submit
<1>2. CASE Awaited(form.kind)
  <2>1. PICK c : c = [pc |-> "append", form |-> form.no, kind |-> form.kind, shown |-> form.shown,
                      typed |-> typed, view |-> sess, fresh |-> TRUE]
    OBVIOUS
  <2>2. click' = [click EXCEPT ![h] = c] /\ UNCHANGED <<sess, task>>
    BY <1>2, <2>1 DEF Submit
  <2>3. sess \in States /\ Coherent(sess) /\ form \in Forms
    BY DEF TypeOK, Copies
  <2>4. form.no \in 0 .. MaxForms
    BY <2>3, EngineAssumption DEF Forms
  <2>5. c \in Submissions
    BY <2>1, <2>3, <2>4 DEF Submissions, Forms
  <2>6. SubmissionOK(c, sess)
    BY <1>2, <2>1, <2>3 DEF SubmissionOK, Awaited, Forms
  <2>7. \A g \in Clicks : SubmissionOK(click'[g], sess)
    BY <2>2, <2>6 DEF Copies, ClickCopies, TypeOK
  <2>8. click' \in [Clicks -> Submissions]
    BY <2>2, <2>5 DEF TypeOK, Submissions
  <2> QED BY <2>2, <2>7, <2>8 DEF CopiesKept, Copies, TaskCopies, ClickCopies,
             TypeOK, Jobs
<1> QED BY <1>1, <1>2

\* The session that starts the workflow.
LEMMA RfiSession ==
    ASSUME NEW seeded \in BOOLEAN
    PROVE  LET n == [NewState("rfi") EXCEPT !.file = seeded]
           IN  n \in States /\ Coherent(n) /\ n.active = "rfi" /\ ~n.done /\ n.answers = NoAnswers
<1>1. PICK s : s = NewState("rfi")
  OBVIOUS
<1>2. PICK n : n = [s EXCEPT !.file = seeded]
  OBVIOUS
<1>3. /\ s \in States /\ Coherent(s) /\ s.active = "rfi" /\ s.guidance = "none"
      /\ s.gap = "none" /\ ~s.done /\ s.answers = NoAnswers
  BY <1>1, NewStateFields
<1>4. /\ n \in States /\ n.active = "rfi" /\ n.guidance = "none" /\ n.gap = "none"
      /\ ~n.done /\ n.answers = NoAnswers
  BY <1>2, <1>3 DEF States
<1>5. Coherent(n)
  BY <1>4 DEF Coherent
<1> QED BY <1>1, <1>2, <1>4, <1>5

\* Before the workflow starts, all slots are idle.
LEMMA SlashCopies ==
    ASSUME TypeOK, Copies, Unbegun, NEW t \in Tasks, SlashRfi(t)
    PROVE  CopiesKept /\ ~sess'.done
<1>1. /\ \A u \in Tasks : task[u] = IdleTask
      /\ \A h \in Clicks : click'[h] = IdleClick
      /\ sess = NoSession
  BY DEF SlashRfi, Unbegun
<1>2. sess' \in States /\ Coherent(sess') /\ ~sess'.done
  <2>1. ASSUME NEW seeded \in BOOLEAN, sess' = [NewState("rfi") EXCEPT !.file = seeded]
        PROVE  sess' \in States /\ Coherent(sess') /\ ~sess'.done
    BY <2>1, RfiSession
  <2>2. ASSUME sess' = sess
        PROVE  sess' \in States /\ Coherent(sess') /\ ~sess'.done
    BY <1>1, <2>2, NewStateFields DEF NoSession
  <2>3. ASSUME sess' = NewState("rfi")
        PROVE  sess' \in States /\ Coherent(sess') /\ ~sess'.done
    BY <2>3, NewStateFields
  <2> QED BY <2>1, <2>2, <2>3 DEF SlashRfi
<1>3. PICK j : j = NewTask("slash", "rfi")
  OBVIOUS
<1>4. j \in Jobs /\ JobOK(j, sess') /\ JobOK(IdleTask, sess') /\ SubmissionOK(IdleClick, sess')
  BY <1>2, <1>3, NewTaskOK, IdleOK
<1>5. task' = [task EXCEPT ![t] = j] \/ task' = task
  BY <1>3 DEF SlashRfi
<1>6. task' \in [Tasks -> Jobs] /\ \A u \in Tasks : JobOK(task'[u], sess')
  BY <1>1, <1>4, <1>5 DEF TypeOK, Jobs
<1>7. click' \in [Clicks -> Submissions]
  BY DEF SlashRfi, TypeOK, Submissions
<1> QED BY <1>1, <1>2, <1>4, <1>6, <1>7 DEF CopiesKept, Copies, TaskCopies, ClickCopies

LEMMA ExitCopies ==
    ASSUME TypeOK, Copies, Exit
    PROVE  /\ CopiesKept /\ sess'.active = "none" /\ ~sess'.done
           /\ \A t \in Tasks : task'[t].pc = task[t].pc
<1>1. sess' \in States /\ Coherent(sess') /\ sess'.active = "none" /\ ~sess'.done
  BY NewStateFields DEF Exit, NoSession
<1>2. GoesOn
  BY <1>1 DEF GoesOn, Onward
<1>3. DOMAIN task = Tasks /\ DOMAIN click = Clicks
  BY DEF TypeOK
<1>4. /\ \A t \in Tasks : task'[t] = [task[t] EXCEPT !.fresh = FALSE]
      /\ \A h \in Clicks : click'[h] = [click[h] EXCEPT !.fresh = FALSE]
      /\ task' = [t \in Tasks |-> task'[t]] /\ click' = [h \in Clicks |-> click'[h]]
  BY <1>3 DEF Exit, Stale
<1>5. \A t \in Tasks : task'[t] \in Jobs /\ JobOK(task'[t], sess') /\ task'[t].pc = task[t].pc
  BY <1>2, <1>4, KeptOK DEF Kept
<1>6. \A h \in Clicks : click'[h] \in Submissions /\ SubmissionOK(click'[h], sess')
  BY <1>4, ClickKeptOK DEF ClickKept
<1>7. task' \in [Tasks -> Jobs] /\ click' \in [Clicks -> Submissions]
  BY <1>4, <1>5, <1>6
<1> QED BY <1>1, <1>5, <1>6, <1>7 DEF CopiesKept, Copies, TaskCopies, ClickCopies

LEMMA CrashCopies ==
    ASSUME TypeOK, Copies, Crash
    PROVE  CopiesKept
<1>1. sess \in States /\ Coherent(sess) /\ sess' = sess
  BY DEF TypeOK, Copies, Crash
<1>2. \A t \in Tasks : task'[t] \in Jobs /\ JobOK(task'[t], sess')
  BY <1>1, IdleTypes, IdleOK DEF Crash
<1>3. \A h \in Clicks : click'[h] \in Submissions /\ SubmissionOK(click'[h], sess')
  BY <1>1, IdleTypes, IdleOK DEF Crash
<1>4. task' \in [Tasks -> Jobs] /\ click' \in [Clicks -> Submissions]
  BY IdleTypes DEF Crash
<1> QED BY <1>1, <1>2, <1>3, <1>4 DEF CopiesKept, Copies, TaskCopies, ClickCopies

LEMMA CopiesStep ==
    ASSUME TypeOK, Unbegun, Copies, Waiting, [Next]_vars
    PROVE  CopiesKept
<1>1. ASSUME NEW t \in Tasks, Works(t)
      PROVE  CopiesKept
  <2>1. TaskActs(t)
    BY <1>1, WorksActs
  <2> QED BY <2>1, ActsOK DEF TaskActs, GoesOn, CopiesKept
<1>2. ASSUME NEW f \in Fills, FindFile(f) \/ WriteFile(f)
      PROVE  CopiesKept
  BY <1>2, CopiesUntouched DEF FindFile, WriteFile
<1>3. ASSUME NEW f \in Fills, FillAnswers(f) \/ FillErrs(f)
      PROVE  CopiesKept
  BY <1>3, AnsweredCopies DEF FillAnswers, FillErrs
<1>4. CASE UNCHANGED vars
  BY <1>4, CopiesUntouched DEF vars
<1> QED BY <1>1, <1>2, <1>3, <1>4, StepCases, SlashCopies, SubmitCopies, ExitCopies, CrashCopies
        DEF Works

-------------------------------------------------------------------------------
\* The fills and the Drive

\* What the calls on the server of the type are.
Calls ==
    [pc: {"idle", "find", "write", "answer"}, waiting: SUBSET Tasks,
     content: Contents \cup {NoFile}, found: 0 .. MaxFiles]

LEMMA IdleFillType ==
    /\ IdleFill \in Calls /\ IdleFill.pc = "idle" /\ IdleFill.waiting = {}
    /\ [IdleFill EXCEPT !.waiting = {}] = IdleFill
<1>1. PICK c, n : c = IdleFill /\ n = NoFile
  OBVIOUS
<1>2. c = [pc |-> "idle", waiting |-> {}, content |-> n, found |-> 0]
  BY <1>1 DEF IdleFill
<1>3. 0 \in 0 .. MaxFiles /\ n \in Contents \cup {NoFile}
  BY <1>1, EngineAssumption
<1>4. c \in Calls /\ c.pc = "idle" /\ c.waiting = {}
  BY <1>2, <1>3 DEF Calls
<1>5. [c EXCEPT !.waiting = {}] = c
  BY <1>4 DEF Calls
<1> QED BY <1>1, <1>4, <1>5

LEMMA FilledType ==
    ASSUME NEW s \in States
    PROVE  Filled(s) \in Contents
<1>1. \A q \in DOMAIN s.answers : s.answers[q] \in {"ai", "draft", "gap", "human"}
  <2>1. CASE s.answers = NoAnswers
    BY <2>1 DEF NoAnswers
  <2>2. CASE s.answers \in Answers
    BY <2>2 DEF Answers, Found
  <2> QED BY <2>1, <2>2, AnswersDomain
<1> QED BY <1>1 DEF Filled, Contents

\* What a fill writes goes into one of the Drive's files.
LEMMA WriteTarget ==
    ASSUME TypeOK, NEW f \in Fills, WriteFile(f)
    PROVE  \E n \in Files : drive' = [drive EXCEPT ![n] = fill[f].content]
<1>1. fill[f].found \in 0 .. MaxFiles
  BY DEF TypeOK
<1>2. CASE fill[f].found # 0
  <2>1. fill[f].found \in Files
    BY <1>1, <1>2, EngineAssumption DEF Files
  <2> QED BY <1>2, <2>1 DEF WriteFile
<1>3. CASE fill[f].found = 0
  <2>1. Vacant \in SUBSET Nat /\ Vacant # {} /\ Vacant \subseteq Files
    BY <1>3 DEF WriteFile, Vacant, Files
  <2>2. (CHOOSE m \in Vacant : \A k \in Vacant : m <= k) \in Vacant
    BY <2>1, LeastOf
  <2> QED BY <1>3, <2>1, <2>2 DEF WriteFile
<1> QED BY <1>2, <1>3

\* A task leaves the calls alone unless it makes one or loses one.
LEMMA WorksFills ==
    ASSUME TypeOK, NEW t \in Tasks, Works(t)
    PROVE  /\ UNCHANGED drive
           /\ \/ UNCHANGED fill /\ task[t].pc # "fill"
              \/ \E f \in Fills : CallFill(t, f)
              \/ LoseCall(t)
<1>1. CASE PlainMessage(t) \/ \E h \in Clicks : Acknowledge(h, t)
  BY <1>1, IdleTypes DEF PlainMessage, Acknowledge
<1>2. CASE Start(t) \/ Message(t) \/ Parse(t) \/ GuidanceStage(t) \/ Research(t) \/ GapStage(t)
           \/ AssembleNothing(t) \/ Record(t) \/ Say(t)
  BY <1>2 DEF Start, Message, Parse, GuidanceStage, Research, GapStage, AssembleNothing, Record, Say
<1>3. CASE Post(t)
  BY <1>3 DEF Post, PostReply, SlashOver, ResumeOver, TaskDies, LoadResult, PostForm, PostText,
              PostFails, NoteForm, RunOver
<1>4. CASE (\E f \in Fills : CallFill(t, f)) \/ LoseCall(t)
  BY <1>4 DEF CallFill, LoseCall
<1> QED BY <1>1, <1>2, <1>3, <1>4 DEF Works, Run

LEMMA CallsTyped ==
    ASSUME TypeOK, [Next]_vars
    PROVE  fill' \in [Fills -> Calls] /\ drive' \in [Files -> Contents \cup {NoFile}]
<1> DEFINE Typed == fill' \in [Fills -> Calls] /\ drive' \in [Files -> Contents \cup {NoFile}]
<1>1. fill \in [Fills -> Calls] /\ drive \in [Files -> Contents \cup {NoFile}]
  BY DEF TypeOK, Calls
<1>2. ASSUME NEW t \in Tasks, Works(t)
      PROVE  Typed
  <2>1. ASSUME NEW f \in Fills, CallFill(t, f)
        PROVE  Typed
    <3>1. PICK c : c = [pc |-> "find", waiting |-> {t}, content |-> Filled(task[t].view), found |-> 0]
      OBVIOUS
    <3>2. fill' = [fill EXCEPT ![f] = c] /\ UNCHANGED drive
      BY <2>1, <3>1 DEF CallFill
    <3>3. Filled(task[t].view) \in Contents /\ 0 \in 0 .. MaxFiles
      BY FilledType, EngineAssumption DEF TypeOK
    <3>4. c \in Calls
      BY <3>1, <3>3 DEF Calls
    <3> QED BY <1>1, <3>2, <3>4
  <2>2. CASE LoseCall(t)
    BY <1>1, <2>2 DEF LoseCall, Calls
  <2> QED BY <1>1, <1>2, <2>1, <2>2, WorksFills
<1>3. ASSUME NEW f \in Fills, FindFile(f)
      PROVE  Typed
  <2>1. \A n \in Files : n \in 0 .. MaxFiles
    BY EngineAssumption DEF Files
  <2> QED BY <1>1, <1>3, <2>1 DEF FindFile, Calls
<1>4. ASSUME NEW f \in Fills, WriteFile(f)
      PROVE  Typed
  <2>1. fill[f].content \in Contents \cup {NoFile}
    BY <1>1 DEF Calls
  <2>2. drive' \in [Files -> Contents \cup {NoFile}]
    BY <1>1, <1>4, <2>1, WriteTarget
  <2> QED BY <1>1, <1>4, <2>2 DEF WriteFile, Calls
<1>5. ASSUME NEW f \in Fills, FillAnswers(f) \/ FillErrs(f)
      PROVE  Typed
  BY <1>1, <1>5, IdleFillType DEF FillAnswers, FillErrs, Answered
<1>6. CASE Crash
  BY <1>1, <1>6 DEF Crash, Calls
<1>7. CASE UNCHANGED <<fill, drive>>
  BY <1>1, <1>7
<1>8. ASSUME NEW t \in Tasks, SlashRfi(t)
      PROVE  Typed
  BY <1>7, <1>8 DEF SlashRfi
<1>9. CASE \E h \in Clicks, form \in forms : \E typed \in SUBSET form.shown : Submit(h, form, typed)
  BY <1>7, <1>9 DEF Submit
<1>10. CASE Exit \/ UNCHANGED vars
  BY <1>7, <1>10 DEF Exit, vars
<1> QED BY <1>2, <1>3, <1>4, <1>5, <1>6, <1>8, <1>9, <1>10, StepCases DEF Works

\* Forms, what they asked, and what was acknowledged, are typed.
LEMMA PersonTyped ==
    ASSUME TypeOK, [Next]_vars
    PROVE  /\ begun' \in BOOLEAN /\ (begun => begun') /\ forms' \subseteq Forms
           /\ asked' \subseteq Questions /\ thanked' \subseteq Questions
<1> DEFINE Typed == /\ begun' \in BOOLEAN /\ (begun => begun') /\ forms' \subseteq Forms
                    /\ asked' \subseteq Questions /\ thanked' \subseteq Questions
<1>1. /\ begun \in BOOLEAN /\ forms \subseteq Forms
      /\ asked \subseteq Questions /\ thanked \subseteq Questions
  BY DEF TypeOK
<1>2. CASE UNCHANGED <<begun, forms, asked, thanked>>
  BY <1>1, <1>2
<1>3. ASSUME NEW t \in Tasks, PostForm(t)
      PROVE  Typed
  <2>1. PICK kind, shown, no :
            /\ kind = IF task[t].view.guidance = "PENDING" THEN "guidance" ELSE "gap"
            /\ shown = IF kind = "gap" THEN Shown(Gaps(task[t].view)) ELSE {}
            /\ no = CHOOSE n \in FreeNos : \A m \in FreeNos : n <= m
            /\ forms' = forms \cup {[no |-> no, kind |-> kind, shown |-> shown]}
            /\ asked' = asked \cup shown
            /\ FreeNos # {} /\ UNCHANGED <<begun, thanked>>
    BY <1>3 DEF PostForm
  <2>2. no \in 1 .. MaxForms
    <3>1. FreeNos \in SUBSET Nat /\ FreeNos \subseteq 1 .. MaxForms
      BY EngineAssumption DEF FreeNos
    <3> QED BY <2>1, <3>1, LeastOf
  <2>3. Gaps(task[t].view) \subseteq Questions
    BY AnswersDomain DEF TypeOK, Gaps
  <2>4. shown \subseteq Questions
    BY <2>1, <2>3 DEF Shown
  <2>5. [no |-> no, kind |-> kind, shown |-> shown] \in Forms
    BY <2>1, <2>2, <2>4 DEF Forms
  <2> QED BY <1>1, <2>1, <2>4, <2>5
<1>4. ASSUME NEW t \in Tasks, Post(t), ~PostForm(t)
      PROVE  Typed
  BY <1>2, <1>4 DEF Post, PostReply, SlashOver, ResumeOver, TaskDies, LoadResult, PostText,
                    PostFails, NoteForm, history
<1>5. ASSUME NEW t \in Tasks, Run(t)
      PROVE  Typed
  BY <1>2, <1>5 DEF Run, Start, Message, Parse, GuidanceStage, Research, GapStage, AssembleNothing,
                    CallFill, LoseCall, Record, Say, history
<1>6. ASSUME NEW t \in Tasks, NEW h \in Clicks, Acknowledge(h, t)
      PROVE  Typed
  BY <1>1, <1>6 DEF Acknowledge, TypeOK
<1>7. ASSUME NEW t \in Tasks, SlashRfi(t) \/ PlainMessage(t)
      PROVE  Typed
  BY <1>1, <1>2, <1>7 DEF SlashRfi, PlainMessage, history
<1>8. ASSUME NEW f \in Fills, FindFile(f) \/ WriteFile(f) \/ FillAnswers(f) \/ FillErrs(f)
      PROVE  Typed
  BY <1>2, <1>8 DEF FindFile, WriteFile, FillAnswers, FillErrs, history
<1>9. CASE \E h \in Clicks, form \in forms : \E typed \in SUBSET form.shown : Submit(h, form, typed)
  BY <1>1, <1>9 DEF Submit, history
<1>10. CASE Exit \/ Crash \/ UNCHANGED vars
  BY <1>2, <1>10 DEF Exit, Crash, vars, history
<1> QED BY <1>3, <1>4, <1>5, <1>6, <1>7, <1>8, <1>9, <1>10, StepCases

\* Before /rfi nothing else happens.
LEMMA UnbegunStep ==
    ASSUME TypeOK, Unbegun, [Next]_vars
    PROVE  Unbegun'
<1> SUFFICES ASSUME ~begun'
             PROVE  Unbegun'
  BY DEF Unbegun
<1>0. ~begun
  BY PersonTyped
<1>1. /\ sess = NoSession /\ forms = {}
      /\ \A t \in Tasks : task[t] = IdleTask /\ task[t].pc = "idle" /\ task[t].kind = "none"
      /\ \A h \in Clicks : click[h] = IdleClick
      /\ \A f \in Fills : fill[f] = IdleFill /\ fill[f].pc = "idle"
  BY <1>0, IdleTypes, IdleFillType DEF Unbegun
<1>2. ASSUME NEW t \in Tasks
      PROVE  ~(SlashRfi(t) \/ PlainMessage(t) \/ \E h \in Clicks : Acknowledge(h, t))
  BY <1>0, <1>1 DEF SlashRfi, PlainMessage, Acknowledge
<1>3. ASSUME NEW t \in Tasks
      PROVE  ~Run(t) /\ ~Post(t)
  BY <1>1 DEF Run, Start, Message, Parse, GuidanceStage, Research, GapStage, AssembleNothing,
              CallFill, LoseCall, Record, Say, Post, PostReply, SlashOver, ResumeOver, TaskDies,
              LoadResult, PostForm, PostText, PostFails, NoteForm, RunOver
<1>4. ASSUME NEW f \in Fills
      PROVE  ~(FindFile(f) \/ WriteFile(f) \/ FillAnswers(f) \/ FillErrs(f))
  BY <1>1 DEF FindFile, WriteFile, FillAnswers, FillErrs
<1>5. ASSUME Crash
      PROVE  \A f \in Fills : fill'[f] = IdleFill
  BY <1>1, <1>5, IdleFillType DEF Crash
<1>6. ~Exit
  BY <1>1 DEF Exit
<1>7. CASE \E h \in Clicks, form \in forms : \E typed \in SUBSET form.shown : Submit(h, form, typed)
  BY <1>1, <1>7
<1>8. CASE UNCHANGED vars
  BY <1>1, <1>8 DEF vars, Unbegun
<1>9. CASE Crash
  BY <1>1, <1>5, <1>9 DEF Unbegun, Crash
<1> QED BY <1>2, <1>3, <1>4, <1>6, <1>7, <1>8, <1>9, StepCases

\* Who waits for a fill stays at that call until it is answered or lost.
LEMMA WaitingStep ==
    ASSUME TypeOK, Unbegun, Copies, Waiting, [Next]_vars
    PROVE  Waiting'
<1>1. ASSUME NEW t \in Tasks, Works(t)
      PROVE  Waiting'
  <2>1. \A u \in Tasks \ {t} : task'[u].pc = task[u].pc
    BY <1>1, WorksActs, KeptOK DEF TaskActs
  <2>2. \A f \in Fills : fill[f].waiting \subseteq Tasks
    BY DEF TypeOK
  <2>3. CASE UNCHANGED fill /\ task[t].pc # "fill"
    BY <2>1, <2>2, <2>3 DEF Waiting
  <2>4. ASSUME NEW f \in Fills, CallFill(t, f)
        PROVE  Waiting'
    <3>1. \A g \in Fills : t \notin fill[g].waiting
      BY <2>4 DEF CallFill, Waiting
    <3>2. task'[t].pc = "fill"
      BY <2>4 DEF CallFill, Goto, TypeOK
    <3>3. fill'[f].waiting = {t} /\ \A g \in Fills \ {f} : fill'[g] = fill[g]
      BY <2>4 DEF CallFill, TypeOK
    <3>4. fill[f].waiting = {}
      BY <2>4, IdleFillType DEF CallFill
    <3> QED BY <2>1, <2>2, <3>1, <3>2, <3>3, <3>4 DEF Waiting
  <2>5. CASE LoseCall(t)
    <3>1. \A g \in Fills : fill'[g].waiting = fill[g].waiting \ {t}
      BY <2>5 DEF LoseCall, TypeOK
    <3> QED BY <2>1, <2>2, <3>1 DEF Waiting
  <2> QED BY <1>1, <2>3, <2>4, <2>5, WorksFills
<1>2. ASSUME NEW f \in Fills, FindFile(f) \/ WriteFile(f)
      PROVE  Waiting'
  <2>1. fill \in [Fills -> Calls]
    BY DEF TypeOK, Calls
  <2>2. CASE FindFile(f)
    <3>1. task' = task /\ \A g \in Fills : fill'[g].waiting = fill[g].waiting
      BY <2>1, <2>2 DEF FindFile, Calls
    <3> QED BY <3>1 DEF Waiting
  <2>3. CASE WriteFile(f)
    <3>1. task' = task /\ \A g \in Fills : fill'[g].waiting = fill[g].waiting
      BY <2>1, <2>3 DEF WriteFile, Calls
    <3> QED BY <3>1 DEF Waiting
  <2> QED BY <1>2, <2>2, <2>3
<1>3. ASSUME NEW f \in Fills, FillAnswers(f) \/ FillErrs(f)
      PROVE  Waiting'
  <2>1. /\ fill'[f].waiting = {} /\ \A g \in Fills \ {f} : fill'[g] = fill[g]
        /\ \A u \in Tasks : u \notin fill[f].waiting => task'[u] = task[u]
    BY <1>3, IdleFillType DEF FillAnswers, FillErrs, Answered, TypeOK
  <2>2. \A g \in Fills : fill[g].waiting \subseteq Tasks
    BY DEF TypeOK
  <2> QED BY <2>1, <2>2 DEF Waiting
<1>4. CASE Crash
  <2>1. \A g \in Fills : fill'[g].waiting = {}
    BY <1>4 DEF Crash, TypeOK
  <2> QED BY <2>1 DEF Waiting
<1>5. ASSUME NEW t \in Tasks, SlashRfi(t)
      PROVE  Waiting'
  <2>1. \A g \in Fills : fill'[g].waiting = {}
    BY <1>5, IdleFillType DEF SlashRfi, Unbegun
  <2> QED BY <2>1 DEF Waiting
<1>6. CASE \E h \in Clicks, form \in forms : \E typed \in SUBSET form.shown : Submit(h, form, typed)
  BY <1>6 DEF Submit, Waiting
<1>7. CASE Exit
  <2>1. fill' = fill /\ \A t \in Tasks : task'[t].pc = task[t].pc
    BY <1>7, ExitCopies DEF Exit
  <2>2. \A g \in Fills : fill[g].waiting \subseteq Tasks
    BY DEF TypeOK
  <2> QED BY <2>1, <2>2 DEF Waiting
<1>8. CASE UNCHANGED vars
  BY <1>8 DEF vars, Waiting
<1> QED BY <1>1, <1>2, <1>3, <1>4, <1>5, <1>6, <1>7, <1>8, StepCases DEF Works

\* Only the workflow's session is ever done, and then settled.
LEMMA DoneSession ==
    ASSUME NEW s \in States, Coherent(s), s.done
    PROVE  s.active = "rfi" /\ Settled(s)
BY DEF Coherent, HasQuestions

\* Who has what it takes to call the fill has the session's content, however stale its copy.
LEMMA WriterCopy ==
    ASSUME TypeOK, Copies, sess.active = "rfi", NEW t \in Tasks,
           NEW pc, pc \in {"fill", "record"}, Passed(pc, task[t].view)
    PROVE  Settled(sess) /\ Filled(task[t].view) = Filled(sess)
<1>1. Settled(task[t].view) /\ task[t].view.active = "rfi"
  BY TaskFacts, WriterSettled
<1>2. Precedes(task[t].view, sess)
  BY <1>1, TaskFacts DEF JobOK
<1> QED BY <1>1, <1>2, TaskFacts, SettledStays

\* A step of a task leaves a settled session's content alone.
LEMMA SettledOnward ==
    ASSUME TypeOK, GoesOn, sess'.active = "rfi"
    PROVE  /\ sess.active = "rfi"
           /\ Settled(sess) => Settled(sess') /\ Filled(sess') = Filled(sess)
BY SettledStays DEF TypeOK, GoesOn, Onward, Precedes

\* The file's content, where it is or will be, stays the session's.
LEMMA FillsAgreeStep ==
    ASSUME TypeOK, Unbegun, Copies, Waiting, FillsAgree, [Next]_vars
    PROVE  FillsAgree'
<1> DEFINE There(s) == \E n \in Files : drive[n] = Filled(s)
<1> SUFFICES ASSUME sess'.active = "rfi"
             PROVE  /\ \A f \in Fills : fill'[f].pc # "idle" =>
                          Settled(sess') /\ fill'[f].content = Filled(sess')
                    /\ \A f \in Fills : fill'[f].pc = "answer" => There(sess)'
                    /\ \A t \in Tasks : task'[t].pc = "record" => There(sess)'
  BY DEF FillsAgree
<1>0. fill \in [Fills -> Calls] /\ drive \in [Files -> Contents \cup {NoFile}]
  BY DEF TypeOK, Calls
<1>1. ASSUME NEW t \in Tasks, Works(t)
      PROVE  FillsAgree'
  <2>1. TaskActs(t) /\ drive' = drive
    BY <1>1, WorksActs, WorksFills
  <2>2. /\ sess.active = "rfi"
        /\ Settled(sess) => Settled(sess') /\ Filled(sess') = Filled(sess)
    BY <2>1, SettledOnward DEF TaskActs
  <2>3. \A f \in Fills : fill'[f].pc # "idle" => Settled(sess') /\ fill'[f].content = Filled(sess')
    <3>1. CASE UNCHANGED fill
      BY <2>2, <3>1 DEF FillsAgree
    <3>2. ASSUME NEW f \in Fills, CallFill(t, f)
          PROVE  \A g \in Fills : fill'[g].pc # "idle" =>
                    Settled(sess') /\ fill'[g].content = Filled(sess')
      <4>1. Passed("fill", task[t].view)
        BY <3>2, TaskFacts DEF CallFill, Passed
      <4>2. Settled(sess) /\ Filled(task[t].view) = Filled(sess)
        BY <2>2, <4>1, WriterCopy
      <4>3. fill'[f].content = Filled(task[t].view) /\ \A g \in Fills \ {f} : fill'[g] = fill[g]
        BY <1>0, <3>2 DEF CallFill
      <4> QED BY <2>2, <4>2, <4>3 DEF FillsAgree
    <3>3. CASE LoseCall(t)
      <4>1. \A g \in Fills : fill'[g].pc = fill[g].pc /\ fill'[g].content = fill[g].content
        BY <1>0, <3>3 DEF LoseCall, Calls
      <4> QED BY <2>2, <4>1 DEF FillsAgree
    <3> QED BY <1>1, <3>1, <3>2, <3>3, WorksFills
  <2>4. \A f \in Fills : fill'[f].pc = "answer" => fill[f].pc = "answer"
    <3>1. ASSUME NEW f \in Fills, CallFill(t, f)
          PROVE  \A g \in Fills : fill'[g].pc = "answer" => fill[g].pc = "answer"
      BY <1>0, <3>1 DEF CallFill
    <3>2. ASSUME LoseCall(t)
          PROVE  \A g \in Fills : fill'[g].pc = "answer" => fill[g].pc = "answer"
      BY <1>0, <3>2 DEF LoseCall, Calls
    <3> QED BY <1>1, <3>1, <3>2, WorksFills
  <2>5. \A f \in Fills : fill'[f].pc = "answer" => There(sess)'
    BY <2>1, <2>2, <2>4 DEF FillsAgree
  <2>6. ASSUME NEW u \in Tasks, task'[u].pc = "record"
        PROVE  There(sess)'
    <3>1. task[u].pc = "record"
      BY <2>1, <2>6, KeptOK DEF TaskActs
    <3>2. Settled(sess) /\ There(sess)
      BY <2>2, <3>1, TaskFacts, WriterCopy DEF FillsAgree
    <3> QED BY <2>1, <2>2, <3>2
  <2> QED BY <2>3, <2>5, <2>6 DEF FillsAgree
<1>2. ASSUME NEW f \in Fills, FindFile(f)
      PROVE  FillsAgree'
  <2>1. \A g \in Fills : /\ fill'[g].content = fill[g].content
                         /\ fill'[g].pc # "idle" => fill[g].pc # "idle"
                         /\ fill'[g].pc = "answer" => fill[g].pc = "answer"
    BY <1>0, <1>2 DEF FindFile, Calls
  <2>2. UNCHANGED <<sess, task, drive>>
    BY <1>2 DEF FindFile
  <2> QED BY <2>1, <2>2 DEF FillsAgree
<1>3. ASSUME NEW f \in Fills, WriteFile(f)
      PROVE  FillsAgree'
  <2>1. UNCHANGED <<sess, task>> /\ fill[f].pc = "write"
    BY <1>3 DEF WriteFile
  <2>2. \A g \in Fills : /\ fill'[g].content = fill[g].content
                         /\ fill'[g].pc # "idle" => fill[g].pc # "idle"
    BY <1>0, <1>3 DEF WriteFile, Calls
  <2>3. Settled(sess) /\ fill[f].content = Filled(sess)
    BY <2>1 DEF FillsAgree
  <2>4. There(sess)'
    BY <1>0, <1>3, <2>1, <2>3, WriteTarget
  <2> QED BY <2>1, <2>2, <2>4 DEF FillsAgree
<1>4. ASSUME NEW f \in Fills, FillAnswers(f) \/ FillErrs(f)
      PROVE  FillsAgree'
  <2>1. UNCHANGED <<sess, drive>>
    BY <1>4 DEF FillAnswers, FillErrs
  <2>2. fill'[f].pc = "idle" /\ \A g \in Fills \ {f} : fill'[g] = fill[g]
    BY <1>0, <1>4, IdleFillType DEF FillAnswers, FillErrs, Answered
  <2>3. ASSUME NEW t \in Tasks, task'[t].pc = "record"
        PROVE  There(sess)
    <3>1. CASE t \notin fill[f].waiting
      BY <1>4, <2>1, <2>3, <3>1 DEF FillAnswers, FillErrs, Answered, FillsAgree
    <3>2. CASE t \in fill[f].waiting
      <4>1. FillAnswers(f)
        <5>1. ASSUME FillErrs(f)
              PROVE  task'[t].pc = "say"
          BY <3>2, <5>1, TaskFacts DEF FillErrs, Answered, Jobs
        <5> QED BY <1>4, <2>3, <5>1
      <4> QED BY <2>1, <4>1 DEF FillAnswers, FillsAgree
    <3> QED BY <3>1, <3>2
  <2> QED BY <2>1, <2>2, <2>3 DEF FillsAgree
<1>5. ASSUME Crash
      PROVE  FillsAgree'
  <2>1. \A g \in Fills : fill'[g].pc = fill[g].pc /\ fill'[g].content = fill[g].content
    BY <1>0, <1>5 DEF Crash, Calls
  <2>2. \A t \in Tasks : task'[t].pc # "record"
    BY <1>5, IdleTypes DEF Crash
  <2>3. UNCHANGED <<sess, drive>>
    BY <1>5 DEF Crash
  <2> QED BY <2>1, <2>2, <2>3 DEF FillsAgree
<1>6. ASSUME NEW t \in Tasks, SlashRfi(t)
      PROVE  FillsAgree'
  <2>1. \A f \in Fills : fill'[f].pc = "idle"
    BY <1>6, IdleFillType DEF SlashRfi, Unbegun
  <2>2. \A u \in Tasks : task'[u].pc # "record"
    <3>1. PICK j : j = NewTask("slash", "rfi")
      OBVIOUS
    <3>2. j.pc = "start"
      BY <3>1, NewTaskOK DEF TypeOK
    <3>3. task' = [task EXCEPT ![t] = j] \/ task' = task
      BY <1>6, <3>1 DEF SlashRfi
    <3> QED BY <1>6, <3>2, <3>3, IdleTypes DEF SlashRfi, Unbegun, TypeOK
  <2> QED BY <2>1, <2>2 DEF FillsAgree
<1>7. ASSUME Exit
      PROVE  FillsAgree'
  BY <1>7, ExitCopies
<1>8. ASSUME UNCHANGED <<sess, task, fill, drive>>
      PROVE  FillsAgree'
  BY <1>8 DEF FillsAgree
<1>9. ASSUME \E h \in Clicks, form \in forms : \E typed \in SUBSET form.shown : Submit(h, form, typed)
      PROVE  FillsAgree'
  BY <1>8, <1>9 DEF Submit
<1>10. FillsAgree'
  BY <1>1, <1>2, <1>3, <1>4, <1>5, <1>6, <1>7, <1>8, <1>9, StepCases DEF Works, vars
<1> QED BY <1>10 DEF FillsAgree

\* A completed session's answers stay in a file.
LEMMA CompletedStep ==
    ASSUME TypeOK, Unbegun, Copies, FillsAgree, CompletedFileHolds, [Next]_vars
    PROVE  CompletedFileHolds'
<1>0. sess \in States /\ Coherent(sess) /\ drive \in [Files -> Contents \cup {NoFile}]
  BY DEF TypeOK, Copies
<1>1. ASSUME NEW t \in Tasks, Works(t)
      PROVE  CompletedFileHolds'
  <2> SUFFICES ASSUME sess'.done
               PROVE  \E n \in Files : drive'[n] = Filled(sess')
    BY DEF CompletedFileHolds
  <2>1. TaskActs(t) /\ drive' = drive
    BY <1>1, WorksActs, WorksFills
  <2>2. sess'.active = "rfi" /\ GoesOn
    BY <2>1, DoneSession DEF TaskActs, GoesOn
  <2>3. sess.active = "rfi" /\ (Settled(sess) => Filled(sess') = Filled(sess))
    BY <2>2, SettledOnward
  <2>4. CASE sess.done
    BY <1>0, <2>1, <2>3, <2>4, DoneSession DEF CompletedFileHolds
  <2>5. CASE task[t].pc = "record"
    <3>1. Settled(sess)
      BY <2>3, <2>5, TaskFacts, WriterCopy
    <3> QED BY <2>1, <2>3, <2>5, <3>1 DEF FillsAgree
  <2> QED BY <2>1, <2>4, <2>5 DEF TaskActs
<1>2. ASSUME NEW f \in Fills, WriteFile(f)
      PROVE  CompletedFileHolds'
  <2> SUFFICES ASSUME sess'.done
               PROVE  \E n \in Files : drive'[n] = Filled(sess')
    BY DEF CompletedFileHolds
  <2>1. sess' = sess /\ fill[f].pc = "write"
    BY <1>2 DEF WriteFile
  <2>2. fill[f].content = Filled(sess)
    BY <1>0, <2>1, DoneSession DEF FillsAgree
  <2> QED BY <1>0, <1>2, <2>1, <2>2, WriteTarget
<1>3. ASSUME NEW t \in Tasks, SlashRfi(t)
      PROVE  CompletedFileHolds'
  BY <1>3, SlashCopies DEF CompletedFileHolds
<1>4. CASE Exit
  BY <1>4, ExitCopies DEF CompletedFileHolds
<1>5. CASE UNCHANGED <<sess, drive>>
  BY <1>5 DEF CompletedFileHolds
<1>6. ASSUME NEW f \in Fills, FindFile(f) \/ FillAnswers(f) \/ FillErrs(f)
      PROVE  CompletedFileHolds'
  BY <1>5, <1>6 DEF FindFile, FillAnswers, FillErrs
<1>7. CASE \E h \in Clicks, form \in forms : \E typed \in SUBSET form.shown : Submit(h, form, typed)
  BY <1>5, <1>7 DEF Submit
<1>8. CASE Crash \/ UNCHANGED vars
  BY <1>5, <1>8 DEF Crash, vars
<1> QED BY <1>1, <1>2, <1>3, <1>4, <1>6, <1>7, <1>8, StepCases DEF Works

-------------------------------------------------------------------------------
\* The theorems

LEMMA InitInv == Init => Inv
<1> SUFFICES ASSUME Init
             PROVE  Inv
  OBVIOUS
<1>1. /\ NoSession \in States /\ Coherent(NoSession) /\ NoSession.active = "none"
      /\ ~NoSession.done
  BY NewStateFields DEF NoSession
<1>2. TypeOK
  BY <1>1, IdleTypes, IdleFillType DEF Init, TypeOK, Jobs, Submissions, Calls
<1>3. Unbegun
  BY DEF Init, Unbegun
<1>4. Copies
  BY <1>1, IdleOK DEF Init, Copies, TaskCopies, ClickCopies
<1>5. Writes
  BY <1>1, IdleFillType DEF Init, Writes, Waiting, FillsAgree, CompletedFileHolds
<1> QED BY <1>2, <1>3, <1>4, <1>5 DEF Inv

LEMMA StepInv == Inv /\ [Next]_vars => Inv'
<1> SUFFICES ASSUME Inv, [Next]_vars
             PROVE  Inv'
  OBVIOUS
<1> USE DEF Inv, Writes
<1>1. CopiesKept
  BY CopiesStep
<1>2. TypeOK'
  BY <1>1, CallsTyped, PersonTyped DEF CopiesKept, TypeOK, Jobs, Submissions, Calls
<1> QED BY <1>1, <1>2, UnbegunStep, WaitingStep, FillsAgreeStep, CompletedStep DEF CopiesKept

\* The invariant: types, idle slots before /rfi, copies that are coherent and never
\* ahead of the stored session, and fills that all write the same.
THEOREM Invariance == Spec => []Inv
BY InitInv, StepInv, PTL DEF Spec

\* Type correctness, of the attempt counter and of form and file numbers too.
THEOREM TypeCorrect == Spec => []TypeOK
<1>1. Inv => TypeOK
  BY DEF Inv
<1> QED BY <1>1, Invariance, PTL

\* The response file is written only while the stored session asks for nothing.
THEOREM WrittenWhenSettled == Spec => []NoFillWhilePending
<1>1. ASSUME Inv
      PROVE  NoFillWhilePending
  <2> SUFFICES ASSUME NEW t \in Tasks, task[t].pc \in {"fill", "record"}
               PROVE  ~FormsPending(sess)
    BY DEF NoFillWhilePending
  <2>1. TypeOK /\ Copies /\ sess \in States /\ Coherent(sess)
    BY <1>1 DEF Inv, Copies, TypeOK
  <2>2. CASE sess.active = "rfi"
    <3>1. Settled(sess)
      BY <2>1, <2>2, TaskFacts, WriterCopy
    <3> QED BY <2>1, <3>1, SettledNotPending
  <2>3. CASE sess.active # "rfi"
    BY <2>1, <2>3 DEF Coherent, FormsPending
  <2> QED BY <2>2, <2>3
<1> QED BY <1>1, Invariance, PTL

\* A completed thread's answers are in a response file.
THEOREM FileIsKept == Spec => []CompletedFileHolds
<1>1. Inv => CompletedFileHolds
  BY DEF Inv, Writes
<1> QED BY <1>1, Invariance, PTL

\* Every step but the one that starts the workflow leaves the session, or moves it on.
LEMMA EveryStepGoesOn ==
    ASSUME TypeOK, Unbegun, Copies, [Next]_vars
    PROVE  GoesOn \/ sess.active # "rfi"
<1>1. ASSUME NEW t \in Tasks, Works(t)
      PROVE  GoesOn
  BY <1>1, WorksActs DEF TaskActs
<1>2. ASSUME NEW t \in Tasks, SlashRfi(t)
      PROVE  sess.active = "none"
  BY <1>2, NewStateFields DEF SlashRfi, Unbegun, NoSession
<1>3. CASE Exit
  BY <1>3, NewStateFields DEF Exit, NoSession, GoesOn, Onward
<1>4. CASE UNCHANGED sess
  <2>1. sess \in States /\ Coherent(sess)
    BY DEF TypeOK, Copies
  <2> QED BY <1>4, <2>1, PrecedesItself DEF GoesOn, Onward
<1>5. ASSUME NEW f \in Fills, FindFile(f) \/ WriteFile(f) \/ FillAnswers(f) \/ FillErrs(f)
      PROVE  UNCHANGED sess
  BY <1>5 DEF FindFile, WriteFile, FillAnswers, FillErrs
<1>6. CASE \E h \in Clicks, form \in forms : \E typed \in SUBSET form.shown : Submit(h, form, typed)
  BY <1>4, <1>6 DEF Submit
<1>7. CASE Crash \/ UNCHANGED vars
  BY <1>4, <1>7 DEF Crash, vars
<1> QED BY <1>1, <1>2, <1>3, <1>4, <1>5, <1>6, <1>7, StepCases DEF Works

\* No run throws away what a person typed, and what is completed stays so.
THEOREM HumanWorkIsKept == Spec => HumanWorkKept
<1>1. ASSUME Inv, [Next]_vars, sess.active = "rfi", sess'.active = "rfi"
      PROVE  /\ \A q \in DOMAIN sess.answers : sess.answers[q] = "human" =>
                   q \in DOMAIN sess'.answers /\ sess'.answers[q] = "human"
             /\ sess.done => sess'.done
  <2>1. Precedes(sess, sess') /\ sess \in States /\ sess' \in States
    BY <1>1, EveryStepGoesOn DEF Inv, GoesOn, Onward, TypeOK
  <2>2. sess.done => sess'.done
    BY <2>1 DEF Precedes
  <2>3. ASSUME NEW q \in DOMAIN sess.answers, sess.answers[q] = "human"
        PROVE  q \in DOMAIN sess'.answers /\ sess'.answers[q] = "human"
    <3>1. sess.answers # NoAnswers
      BY <2>3 DEF NoAnswers
    <3>2. q \in Questions
      BY <2>1, <2>3, <3>1, AnswersDomain
    <3>3. sess'.answers # NoAnswers /\ (sess'.answers[q] = sess.answers[q] \/ sess'.answers[q] = "human")
      BY <2>1, <3>1, <3>2 DEF Precedes
    <3>4. DOMAIN sess'.answers = Questions
      BY <2>1, <3>3, AnswersDomain
    <3> QED BY <2>3, <3>2, <3>3, <3>4
  <2> QED BY <2>2, <2>3
<1>2. Inv /\ [Next]_vars =>
         [sess.active = "rfi" /\ sess'.active = "rfi" =>
            /\ \A q \in DOMAIN sess.answers : sess.answers[q] = "human" =>
                  q \in DOMAIN sess'.answers /\ sess'.answers[q] = "human"
            /\ sess.done => sess'.done]_vars
  BY <1>1
<1> QED BY <1>2, Invariance, PTL DEF Spec, HumanWorkKept

-------------------------------------------------------------------------------
\* What was asked, when one gap form has room for every question

GapFormOut == (\E f \in forms : f.kind = "gap") \/ \E h \in Clicks : click[h].kind = "gap"

\* What a gap form on display or being submitted, and what came of one, has asked.
GapsAsked ==
    sess.active = "rfi" /\ (GapFormOut \/ sess.gap = "RESOLVED") =>
        sess.answers # NoAnswers /\ Gaps(sess) \subseteq asked

\* A form with room for all questions shows all gaps.
LEMMA ShowsAll ==
    ASSUME IsFiniteSet(Questions), Cardinality(Questions) <= FormLimit,
           NEW gaps \in SUBSET Questions
    PROVE  Shown(gaps) = gaps
<1> SUFFICES ASSUME NEW q \in gaps
             PROVE  Cardinality({p \in gaps : p < q}) < FormLimit
  BY DEF Shown
<1>1. PICK before : before = {p \in gaps : p < q}
  OBVIOUS
<1>2. before \subseteq Questions \ {q}
  <2>1. Questions \subseteq Nat /\ q \in Nat /\ gaps \subseteq Questions
    BY EngineAssumption
  <2>2. ASSUME NEW p \in gaps, p < q
        PROVE  p \in Questions \ {q}
    BY <2>1, <2>2
  <2> QED BY <1>1, <2>2
<1>3. IsFiniteSet(Questions \ {q}) /\ Cardinality(Questions \ {q}) = Cardinality(Questions) - 1
  BY FS_RemoveElement
<1>4. Cardinality(before) <= Cardinality(Questions \ {q}) /\ Cardinality(before) \in Nat
  BY <1>2, <1>3, FS_Subset, FS_CardinalityType
<1>5. Cardinality(Questions) \in Nat
  BY FS_CardinalityType
<1> QED BY <1>1, <1>3, <1>4, <1>5, EngineAssumption

\* A session that moves on has no gaps it did not have.
LEMMA GapsShrink ==
    ASSUME NEW v \in States, NEW s \in States, Precedes(v, s), v.answers # NoAnswers
    PROVE  s.answers # NoAnswers /\ Gaps(s) \subseteq Gaps(v)
BY AnswersDomain DEF Precedes, Gaps

\* What a gap form that is posted shows are the gaps of the copy it is posted from,
\* and the session's are among them.
LEMMA GapFormPosted ==
    ASSUME TypeOK, Copies, sess.active = "rfi", NEW t \in Tasks, PostForm(t),
           task[t].view.guidance # "PENDING"
    PROVE  /\ task[t].view \in States /\ task[t].view.answers # NoAnswers
           /\ task[t].view.gap = "PENDING" /\ Precedes(task[t].view, sess)
           /\ sess.answers # NoAnswers /\ Gaps(sess) \subseteq Gaps(task[t].view)
<1>1. /\ task[t].view \in States /\ Coherent(task[t].view) /\ task[t].view.gap = "PENDING"
      /\ sess \in States
  BY TaskFacts DEF PostForm, FormsPending
<1>2. task[t].view.answers # NoAnswers /\ task[t].view.active = "rfi"
  BY <1>1 DEF Coherent
<1>3. Precedes(task[t].view, sess)
  BY <1>2, TaskFacts DEF JobOK
<1> QED BY <1>1, <1>2, <1>3, GapsShrink

\* Between its post and the next, a form stays, is submitted, or is taken down.
LEMMA FormsStep ==
    ASSUME NEW t \in Tasks, Works(t)
    PROVE  /\ \/ forms' \subseteq forms
              \/ PostForm(t)
           /\ asked \subseteq asked'
           /\ thanked' = thanked \/ \E h \in Clicks : Acknowledge(h, t)
<1>1. CASE Run(t)
  BY <1>1 DEF Run, Start, Message, Parse, GuidanceStage, Research, GapStage, AssembleNothing,
              CallFill, LoseCall, Record, Say, history
<1>2. CASE Post(t)
  BY <1>2 DEF Post, PostReply, SlashOver, ResumeOver, TaskDies, LoadResult, PostForm, PostText,
              PostFails, NoteForm, history
<1>3. CASE PlainMessage(t)
  BY <1>3 DEF PlainMessage, history
<1>4. CASE \E h \in Clicks : Acknowledge(h, t)
  BY <1>4 DEF Acknowledge
<1> QED BY <1>1, <1>2, <1>3, <1>4 DEF Works

\* The gap form is answered by a submission of it, and by nothing else.
LEMMA GapAnswered ==
    ASSUME TypeOK, Copies, NEW t \in Tasks, Works(t), sess'.gap = "RESOLVED", sess.gap # "RESOLVED"
    PROVE  \E h \in Clicks : Acknowledge(h, t) /\ click[h].kind = "gap"
<1>1. PICK h \in Clicks : Acknowledge(h, t)
  BY RunActs, PostActs, PlainMessageActs DEF Works, StageActs, GapKept
<1>2. click[h] # IdleClick /\ click[h].fresh /\ sess' = Applied(sess, Submitted(click[h]))
  BY <1>1 DEF Acknowledge, CanAppend
<1> QED BY <1>1, <1>2, SubmittedAdvances

LEMMA GapsAskedStep ==
    ASSUME IsFiniteSet(Questions), Cardinality(Questions) <= FormLimit,
           Inv, GapsAsked, [Next]_vars
    PROVE  GapsAsked'
<1> USE DEF Inv
<1>1. ASSUME NEW t \in Tasks, Works(t)
      PROVE  GapsAsked'
  <2> SUFFICES ASSUME sess'.active = "rfi", GapFormOut' \/ sess'.gap = "RESOLVED"
               PROVE  sess'.answers # NoAnswers /\ Gaps(sess') \subseteq asked'
    BY DEF GapsAsked
  <2>1. /\ TaskActs(t) /\ sess \in States /\ sess' \in States
        /\ sess.active = "rfi" /\ Precedes(sess, sess')
    BY <1>1, WorksActs, SettledOnward DEF TaskActs, GoesOn, Onward, TypeOK
  <2>2. CASE GapFormOut \/ sess.gap = "RESOLVED"
    <3>1. sess.answers # NoAnswers /\ Gaps(sess) \subseteq asked
      BY <2>1, <2>2 DEF GapsAsked
    <3> QED BY <1>1, <2>1, <3>1, GapsShrink, FormsStep
  <2>3. CASE ~GapFormOut /\ sess.gap # "RESOLVED"
    <3>1. \A h \in Clicks : click'[h].kind # "gap"
      <4> TAKE h \in Clicks
      <4>1. click[h] \in Submissions /\ click[h].kind # "gap"
        BY <2>3 DEF GapFormOut, TypeOK, Submissions
      <4>2. ClickKept(h)
        BY <2>1 DEF TaskActs
      <4> QED BY <4>1, <4>2, IdleTypes DEF ClickKept, Submissions
    <3>2. sess'.gap # "RESOLVED"
      BY <1>1, <2>3, GapAnswered DEF GapFormOut
    <3>3. PostForm(t) /\ \E f \in forms' \ forms : f.kind = "gap"
      BY <1>1, <2>3, <3>1, <3>2, FormsStep DEF GapFormOut
    <3>4. task[t].view.guidance # "PENDING"
      BY <3>3 DEF PostForm
    <3>5. asked' = asked \cup Shown(Gaps(task[t].view)) /\ sess' = sess
      BY <3>3, <3>4 DEF PostForm
    <3>6. Gaps(task[t].view) \in SUBSET Questions
      BY TaskFacts, AnswersDomain DEF Gaps
    <3> QED BY <2>1, <3>3, <3>4, <3>5, <3>6, GapFormPosted, ShowsAll
  <2> QED BY <2>2, <2>3
<1>2. ASSUME NEW t \in Tasks, SlashRfi(t)
      PROVE  GapsAsked'
  <2>1. forms' = {} /\ (\A h \in Clicks : click'[h].kind = "none")
    BY <1>2, IdleTypes DEF SlashRfi, Unbegun
  <2>2. sess'.gap # "RESOLVED"
    <3>1. ASSUME NEW seeded, sess' = [NewState("rfi") EXCEPT !.file = seeded]
          PROVE  sess'.gap # "RESOLVED"
      <4>1. PICK s : s = NewState("rfi")
        OBVIOUS
      <4>2. s \in States /\ s.gap = "none"
        BY <4>1, NewStateFields
      <4> QED BY <3>1, <4>1, <4>2 DEF States
    <3>2. ASSUME sess' \in {NewState("rfi"), sess}
          PROVE  sess'.gap # "RESOLVED"
      BY <1>2, <3>2, NewStateFields DEF SlashRfi, Unbegun, NoSession
    <3> QED BY <1>2, <3>1, <3>2 DEF SlashRfi
  <2> QED BY <2>1, <2>2 DEF GapsAsked, GapFormOut
<1>3. ASSUME NEW f \in Fills, FindFile(f) \/ WriteFile(f) \/ FillAnswers(f) \/ FillErrs(f)
      PROVE  GapsAsked'
  BY <1>3 DEF FindFile, WriteFile, FillAnswers, FillErrs, history, GapsAsked, GapFormOut
<1>4. ASSUME NEW h \in Clicks, NEW form \in forms, NEW typed \in SUBSET form.shown,
             Submit(h, form, typed)
      PROVE  GapsAsked'
  <2>1. UNCHANGED <<sess, asked>> /\ forms' \subseteq forms
    BY <1>4 DEF Submit, history
  <2>2. \A g \in Clicks : click'[g].kind = "gap" => GapFormOut
    BY <1>4 DEF Submit, TypeOK, GapFormOut
  <2> QED BY <2>1, <2>2 DEF GapsAsked, GapFormOut
<1>5. CASE Exit
  BY <1>5, ExitCopies DEF GapsAsked
<1>6. CASE Crash
  BY <1>6, IdleTypes DEF Crash, history, GapsAsked, GapFormOut
<1>7. CASE UNCHANGED vars
  BY <1>7 DEF vars, GapsAsked, GapFormOut
<1> QED BY <1>1, <1>2, <1>3, <1>4, <1>5, <1>6, <1>7, StepCases DEF Works

\* Blanks and drafts of a completed thread were put to the person, if one form has
\* room for every question of the document.
THEOREM GapsArePutToThePerson ==
    ASSUME IsFiniteSet(Questions), Cardinality(Questions) <= FormLimit
    PROVE  Spec => []GapsWereAsked
<1>1. Init => GapsAsked
  BY IdleTypes, NewStateFields DEF Init, GapsAsked, GapFormOut, NoSession
<1>2. Inv /\ GapsAsked /\ [Next]_vars => GapsAsked'
  BY GapsAskedStep
<1>3. ASSUME Inv, GapsAsked
      PROVE  GapsWereAsked
  <2> SUFFICES ASSUME sess.done, NEW q \in Questions, Filled(sess)[q] \in {"blank", "draft"}
               PROVE  q \in asked
    BY DEF GapsWereAsked
  <2>1. sess \in States /\ Coherent(sess)
    BY <1>3 DEF Inv, Copies, TypeOK
  <2>2. sess.active = "rfi" /\ sess.gap \in {"RESOLVED", "SKIPPED"}
    BY <2>1, DoneSession DEF Settled
  <2>3. /\ sess.answers # NoAnswers
        /\ sess.answers \in Answers /\ DOMAIN sess.answers = Questions
    BY <2>1, <2>2, AnswersDomain DEF Coherent
  <2>4. q \in Gaps(sess)
    BY <2>3 DEF Filled, Gaps, Answers, Found
  <2> QED BY <1>3, <2>1, <2>2, <2>4 DEF GapsAsked, Coherent
<1> QED BY <1>1, <1>2, <1>3, Invariance, PTL DEF Spec

-------------------------------------------------------------------------------
\* What was acknowledged, when one submission is handled at a time

\* Until the gap form is answered, every form shows the gaps there are, or the first
\* ones, and what was acknowledged in vain is among them.
ShowsGaps(shown, s) == s.answers # NoAnswers /\ shown = Shown(Gaps(s))

FormsAgree ==
    sess.active = "rfi" /\ sess.gap # "RESOLVED" =>
        /\ \A f \in forms : f.kind = "gap" => ShowsGaps(f.shown, sess)
        /\ \A h \in Clicks : click[h].kind = "gap" => ShowsGaps(click[h].shown, sess)
        /\ thanked \subseteq Shown(Gaps(sess))

\* The scope form asks no question of the document, and nothing is typed but for what is shown.
TypedIsShown ==
    /\ \A f \in forms : f.kind = "guidance" => f.shown = {}
    /\ \A h \in Clicks : /\ click[h].kind # "gap" => click[h].shown = {}
                         /\ click[h].typed \subseteq click[h].shown

\* A gap form being submitted is still awaited: nobody else submits it meanwhile.
ClickAwaited ==
    sess.active = "rfi" => \A h \in Clicks : click[h].kind = "gap" => sess.gap = "PENDING"

ThankedKept ==
    sess.active = "rfi" =>
        \A q \in thanked : Saved(q) \/ (q \in Gaps(sess) /\ sess.gap = "PENDING")

NobodyThanked == ~begun => thanked = {}

Acknowledged == FormsAgree /\ TypedIsShown /\ ClickAwaited /\ ThankedKept /\ NobodyThanked

\* What is shown, and what is saved, when a session moves on.
LEMMA ShownInGaps == \A gaps : Shown(gaps) \subseteq gaps
BY DEF Shown

LEMMA NothingSaved ==
    ASSUME TypeOK, sess.answers = NoAnswers
    PROVE  Gaps(sess) = {} /\ \A q : ~Saved(q)
BY AnswersDomain DEF TypeOK, Saved, NoAnswers

LEMMA SavedStays ==
    ASSUME sess \in States, sess' \in States, Precedes(sess, sess'), NEW q, Saved(q)
    PROVE  Saved(q)'
<1>1. sess.answers # NoAnswers /\ q \in Questions
  BY AnswersDomain DEF Saved, NoAnswers
<1>2. /\ sess'.answers # NoAnswers
      /\ sess'.answers[q] = sess.answers[q] \/ sess'.answers[q] = "human"
  BY <1>1 DEF Precedes
<1> QED BY <1>1, <1>2, AnswersDomain DEF Saved

LEMMA GapsStay ==
    ASSUME sess \in States, sess' \in States, Precedes(sess, sess'), sess.answers # NoAnswers,
           sess'.gap # "RESOLVED"
    PROVE  sess'.answers = sess.answers /\ Gaps(sess') = Gaps(sess)
BY DEF Precedes, Gaps

\* A step of a run, or a message, acknowledges nothing.
LEMMA StageAcknowledged ==
    ASSUME Inv, Acknowledged, NEW t \in Tasks, PlainMessage(t) \/ Run(t) \/ Post(t)
    PROVE  Acknowledged'
<1> USE DEF Inv, Acknowledged
<1>1. StageActs(t) /\ Works(t)
  BY RunActs, PostActs, PlainMessageActs DEF Works
<1>2. /\ thanked' = thanked /\ (begun' \/ ~begun)
      /\ forms' \subseteq forms \/ PostForm(t)
  <2>1. CASE Run(t)
    <3>1. CASE Start(t) \/ Message(t) \/ Parse(t) \/ GuidanceStage(t) \/ Research(t)
      BY <3>1 DEF Start, Message, Parse, GuidanceStage, Research, history
    <3>2. CASE GapStage(t) \/ AssembleNothing(t) \/ \E f \in Fills : CallFill(t, f)
      BY <3>2 DEF GapStage, AssembleNothing, CallFill, history
    <3>3. CASE LoseCall(t) \/ Record(t) \/ Say(t)
      BY <3>3 DEF LoseCall, Record, Say, history
    <3> QED BY <2>1, <3>1, <3>2, <3>3 DEF Run
  <2>2. CASE Post(t)
    <3>1. CASE PostReply(t) \/ SlashOver(t) \/ ResumeOver(t) \/ TaskDies(t) \/ LoadResult(t)
      BY <3>1 DEF PostReply, SlashOver, ResumeOver, TaskDies, LoadResult, history
    <3>2. CASE PostForm(t)
      BY <3>2 DEF PostForm
    <3>3. CASE PostText(t) \/ PostFails(t) \/ NoteForm(t)
      BY <3>3 DEF PostText, PostFails, NoteForm, history
    <3> QED BY <2>2, <3>1, <3>2, <3>3 DEF Post
  <2>3. CASE PlainMessage(t)
    BY <2>3 DEF PlainMessage, history
  <2> QED BY <2>1, <2>2, <2>3
<1>3. \A h \in Clicks : \/ click'[h].kind = "none" /\ click'[h].shown = {} /\ click'[h].typed = {}
                        \/ /\ click'[h].kind = click[h].kind /\ click'[h].shown = click[h].shown
                           /\ click'[h].typed = click[h].typed
  <2> TAKE h \in Clicks
  <2>1. click[h] \in Submissions /\ ClickKept(h)
    BY <1>1 DEF TypeOK, Submissions, StageActs, TaskActs
  <2> QED BY <2>1, IdleTypes DEF ClickKept, Submissions
<1>4. NobodyThanked'
  BY <1>2 DEF NobodyThanked
<1>5. ASSUME NEW f \in forms', f \notin forms
      PROVE  /\ f.kind = "guidance" => f.shown = {}
             /\ f.kind = "gap" =>
                   sess' = sess /\ f.shown = Shown(Gaps(task[t].view)) /\ PostForm(t)
                   /\ task[t].view.guidance # "PENDING"
  BY <1>2, <1>5 DEF PostForm
<1>6. TypedIsShown'
  BY <1>3, <1>5 DEF TypedIsShown
<1>7. CASE sess'.active # "rfi"
  BY <1>4, <1>6, <1>7 DEF FormsAgree, ClickAwaited, ThankedKept
<1>8. CASE sess'.active = "rfi"
  <2>1. /\ sess.active = "rfi" /\ Precedes(sess, sess') /\ sess \in States /\ sess' \in States
        /\ sess'.gap = "RESOLVED" => sess.gap = "RESOLVED"
        /\ sess.gap = "RESOLVED" => sess'.gap = "RESOLVED"
    BY <1>1, <1>8, SettledOnward
    DEF StageActs, TaskActs, GapKept, GoesOn, Onward, TypeOK, Precedes
  <2>2. ClickAwaited'
    BY <1>3, <2>1 DEF ClickAwaited, Precedes
  <2>3. ASSUME NEW q \in thanked
        PROVE  Saved(q)' \/ (q \in Gaps(sess') /\ sess'.gap = "PENDING")
    <3>1. CASE Saved(q)
      BY <2>1, <3>1, SavedStays
    <3>2. CASE q \in Gaps(sess) /\ sess.gap = "PENDING"
      <4>1. sess'.gap = "PENDING" /\ sess.answers # NoAnswers
        BY <2>1, <3>2, NothingSaved DEF Precedes
      <4> QED BY <2>1, <3>2, <4>1, GapsStay
    <3> QED BY <2>1, <3>1, <3>2 DEF ThankedKept
  <2>4. ThankedKept'
    BY <1>2, <2>3 DEF ThankedKept
  <2>5. ASSUME sess'.gap # "RESOLVED"
        PROVE  /\ \A f \in forms' : f.kind = "gap" => ShowsGaps(f.shown, sess')
               /\ \A h \in Clicks : click'[h].kind = "gap" => ShowsGaps(click'[h].shown, sess')
               /\ thanked' \subseteq Shown(Gaps(sess'))
    <3>1. sess.gap # "RESOLVED"
      BY <2>1, <2>5
    <3>2. ASSUME NEW shown, ShowsGaps(shown, sess)
          PROVE  sess'.answers # NoAnswers /\ shown = Shown(Gaps(sess'))
      BY <2>1, <2>5, <3>2, GapsStay DEF ShowsGaps
    <3>3. ASSUME NEW f \in forms', f.kind = "gap"
          PROVE  sess'.answers # NoAnswers /\ f.shown = Shown(Gaps(sess'))
      <4>1. CASE f \in forms
        BY <2>1, <3>1, <3>2, <3>3, <4>1 DEF FormsAgree
      <4>2. CASE f \notin forms
        <5>1. /\ sess' = sess /\ f.shown = Shown(Gaps(task[t].view))
              /\ PostForm(t) /\ task[t].view.guidance # "PENDING"
          BY <1>5, <3>3, <4>2
        <5>2. /\ task[t].view.answers # NoAnswers /\ Precedes(task[t].view, sess)
              /\ sess.answers # NoAnswers
          BY <2>1, <5>1, GapFormPosted
        <5>3. sess.answers = task[t].view.answers
          BY <3>1, <5>2 DEF Precedes
        <5> QED BY <5>1, <5>2, <5>3 DEF Gaps
      <4> QED BY <4>1, <4>2
    <3>4. ASSUME NEW h \in Clicks, click'[h].kind = "gap"
          PROVE  sess'.answers # NoAnswers /\ click'[h].shown = Shown(Gaps(sess'))
      BY <1>3, <2>1, <3>1, <3>2, <3>4 DEF FormsAgree
    <3>5. thanked \subseteq Shown(Gaps(sess'))
      <4>1. CASE sess.answers = NoAnswers
        BY <2>1, <3>1, <4>1, NothingSaved, ShownInGaps DEF FormsAgree
      <4>2. CASE sess.answers # NoAnswers
        BY <2>1, <2>5, <3>1, <4>2, GapsStay DEF FormsAgree
      <4> QED BY <4>1, <4>2
    <3> QED BY <1>2, <3>3, <3>4, <3>5 DEF ShowsGaps
  <2>6. FormsAgree'
    BY <2>5 DEF FormsAgree
  <2> QED BY <1>4, <1>6, <2>2, <2>4, <2>6
<1> QED BY <1>7, <1>8

\* The handler's last step: saved and thanked, or thanked while the form is still awaited.
LEMMA AcknowledgeAcknowledged ==
    ASSUME \A g, h \in Clicks : g = h,
           Inv, Acknowledged, NEW t \in Tasks, NEW h \in Clicks, Acknowledge(h, t)
    PROVE  Acknowledged'
<1> USE DEF Inv, Acknowledged
<1>1. /\ click[h] # IdleClick /\ click[h].pc = "append" /\ click[h] \in Submissions
      /\ click[h].kind \in {"gap", "guidance"} /\ Clicks = {h}
  BY DEF Acknowledge, Copies, ClickCopies, SubmissionOK, TypeOK, Submissions
<1>2. click'[h] = IdleClick /\ \A g \in Clicks : click'[g] = IdleClick
  BY <1>1 DEF Acknowledge, Stale, TypeOK
<1>3. /\ forms' \subseteq forms /\ begun' = begun
      /\ thanked' = (thanked \ click[h].shown) \cup click[h].typed
      /\ click[h].typed \subseteq click[h].shown
      /\ click[h].kind = "guidance" => thanked' = thanked
  BY <1>1 DEF Acknowledge, TypedIsShown
<1>4. NobodyThanked' /\ TypedIsShown' /\ ClickAwaited'
  <2>1. begun
    BY <1>1 DEF Unbegun
  <2> QED BY <1>2, <1>3, <2>1, IdleTypes DEF NobodyThanked, TypedIsShown, ClickAwaited
<1>5. CASE sess'.active # "rfi"
  BY <1>4, <1>5 DEF FormsAgree, ThankedKept
<1>6. CASE sess'.active = "rfi" /\ sess' = sess
  <2>1. CASE click[h].kind = "guidance"
    BY <1>2, <1>3, <1>4, <1>6, <2>1, IdleTypes DEF FormsAgree, ShowsGaps, ThankedKept, Saved
  <2>2. CASE click[h].kind = "gap"
    <3>1. sess.gap = "PENDING" /\ click[h].shown = Shown(Gaps(sess))
      BY <1>6, <2>2 DEF ClickAwaited, FormsAgree, ShowsGaps
    <3>2. ThankedKept'
      BY <1>3, <1>6, <3>1, ShownInGaps DEF ThankedKept, Saved
    <3>3. FormsAgree'
      BY <1>2, <1>3, <1>6, <3>1, IdleTypes DEF FormsAgree, ShowsGaps
    <3> QED BY <1>4, <3>2, <3>3
  <2> QED BY <1>1, <2>1, <2>2
<1>7. CASE /\ sess'.active = "rfi" /\ click[h].fresh
           /\ sess' = Applied(sess, Submitted(click[h]))
  <2>1. /\ Advances(sess, sess') /\ sess.active = "rfi" /\ click[h].view = sess
        /\ click[h].kind = "gap" =>
              sess'.gap = "RESOLVED" /\ \A q \in click[h].typed : sess'.answers[q] = "human"
        /\ click[h].kind = "guidance" => sess'.answers = NoAnswers /\ sess'.gap = "none"
    BY <1>1, <1>7, SubmittedAdvances DEF Advances, Precedes
  <2>2. sess \in States /\ sess' \in States /\ Precedes(sess, sess') /\ Coherent(sess')
    BY <2>1 DEF Advances, TypeOK
  <2>3. CASE click[h].kind = "guidance"
    <3>1. sess.answers = NoAnswers /\ sess.gap # "RESOLVED"
      BY <2>1, <2>2, <2>3 DEF Precedes
    <3>2. thanked = {} /\ ~\E f \in forms : f.kind = "gap"
      BY <2>1, <3>1, NothingSaved DEF ThankedKept, FormsAgree, ShowsGaps
    <3> QED BY <1>2, <1>3, <1>4, <2>3, <3>2, IdleTypes DEF FormsAgree, ThankedKept
  <2>4. CASE click[h].kind = "gap"
    <3>1. sess.gap = "PENDING" /\ sess'.gap = "RESOLVED"
      BY <2>1, <2>4 DEF ClickAwaited
    <3>2. thanked \subseteq click[h].shown
      BY <2>1, <2>4, <3>1 DEF FormsAgree, ShowsGaps
    <3>3. \A q \in thanked' : sess'.answers[q] = "human" /\ q \in Questions
      BY <1>1, <1>3, <2>1, <2>4, <3>2 DEF Submissions
    <3>4. DOMAIN sess'.answers = Questions
      BY <2>2, <3>1, AnswersDomain DEF Coherent
    <3>5. ThankedKept'
      BY <3>3, <3>4 DEF ThankedKept, Saved
    <3>6. FormsAgree'
      BY <3>1 DEF FormsAgree
    <3> QED BY <1>4, <3>5, <3>6
  <2> QED BY <1>1, <2>3, <2>4
<1> QED BY <1>5, <1>6, <1>7 DEF Acknowledge, CanAppend

LEMMA AcknowledgedStep ==
    ASSUME \A g, h \in Clicks : g = h, Inv, Acknowledged, [Next]_vars
    PROVE  Acknowledged'
<1> USE DEF Inv, Acknowledged
<1>1. ASSUME NEW t \in Tasks, Works(t)
      PROVE  Acknowledged'
  BY <1>1, StageAcknowledged, AcknowledgeAcknowledged DEF Works
<1>2. ASSUME NEW t \in Tasks, SlashRfi(t)
      PROVE  Acknowledged'
  <2>1. /\ forms' = {} /\ thanked' = {} /\ begun'
        /\ \A h \in Clicks : /\ click'[h].kind = "none"
                             /\ click'[h].shown = {} /\ click'[h].typed = {}
    BY <1>2, IdleTypes DEF SlashRfi, Unbegun, NobodyThanked, history
  <2> QED BY <2>1 DEF FormsAgree, TypedIsShown, ClickAwaited, ThankedKept, NobodyThanked
<1>3. CASE UNCHANGED <<begun, sess, click, forms, thanked>>
  BY <1>3 DEF FormsAgree, TypedIsShown, ClickAwaited, ThankedKept, NobodyThanked, Saved
<1>4. ASSUME NEW f \in Fills, FindFile(f) \/ WriteFile(f) \/ FillAnswers(f) \/ FillErrs(f)
      PROVE  Acknowledged'
  BY <1>3, <1>4 DEF FindFile, WriteFile, FillAnswers, FillErrs, history
<1>5. ASSUME NEW h \in Clicks, NEW form \in forms, NEW typed \in SUBSET form.shown,
             Submit(h, form, typed)
      PROVE  Acknowledged'
  <2>1. UNCHANGED <<begun, sess, thanked>> /\ forms' \subseteq forms
    BY <1>5 DEF Submit, history
  <2>2. \A g \in Clicks :
           \/ click'[g] = click[g]
           \/ /\ click'[g].kind = form.kind /\ click'[g].shown = form.shown
              /\ click'[g].typed = typed /\ Awaited(form.kind)
    BY <1>5 DEF Submit, TypeOK
  <2>3. form.kind \in {"guidance", "gap"}
    BY DEF TypeOK, Forms
  <2>4. FormsAgree'
    BY <2>1, <2>2 DEF FormsAgree
  <2>5. TypedIsShown'
    BY <2>1, <2>2, <2>3 DEF TypedIsShown
  <2>6. ClickAwaited'
    BY <2>1, <2>2 DEF ClickAwaited, Awaited
  <2> QED BY <2>1, <2>4, <2>5, <2>6 DEF ThankedKept, NobodyThanked, Saved
<1>6. CASE Exit
  <2>1. sess'.active = "none" /\ UNCHANGED <<begun, forms, thanked>>
    BY <1>6, ExitCopies DEF Exit, history
  <2>2. \A h \in Clicks : click'[h].kind = click[h].kind /\ click'[h].shown = click[h].shown
                          /\ click'[h].typed = click[h].typed
    BY <1>6 DEF Exit, Stale, TypeOK
  <2> QED BY <2>1, <2>2 DEF FormsAgree, TypedIsShown, ClickAwaited, ThankedKept, NobodyThanked
<1>7. CASE Crash
  <2>1. /\ UNCHANGED <<begun, sess, forms, thanked>>
        /\ \A h \in Clicks : /\ click'[h].kind = "none"
                             /\ click'[h].shown = {} /\ click'[h].typed = {}
    BY <1>7, IdleTypes DEF Crash, history
  <2> QED BY <2>1 DEF FormsAgree, TypedIsShown, ClickAwaited, ThankedKept, NobodyThanked, Saved
<1>8. CASE UNCHANGED vars
  BY <1>3, <1>8 DEF vars
<1> QED BY <1>1, <1>2, <1>4, <1>5, <1>6, <1>7, <1>8, StepCases DEF Works

\* An answer the person was thanked for is saved, or asked for again, as long as one
\* submission of the thread's forms is handled at a time; whatever fails.
THEOREM ThanksAreKept ==
    ASSUME \A g, h \in Clicks : g = h
    PROVE  Spec => []ThankedSavedOrAsked
<1>1. Init => Acknowledged
  BY IdleTypes, NewStateFields DEF Init, Acknowledged, FormsAgree, TypedIsShown, ClickAwaited,
     ThankedKept, NobodyThanked, NoSession
<1>2. Inv /\ Acknowledged /\ [Next]_vars => Acknowledged'
  BY AcknowledgedStep
<1>3. Acknowledged => ThankedSavedOrAsked
  BY DEF Acknowledged, ThankedKept, ThankedSavedOrAsked
<1> QED BY <1>1, <1>2, <1>3, Invariance, PTL DEF Spec

-------------------------------------------------------------------------------
\* A pending form is posted, when nobody but the workflow appends and the
\* infrastructure holds: the model may fail, the fill be lost, the thread be left

Underway == {"message", "parse", "guidance", "research", "gap", "assemble", "fill", "record", "say"}
BeforeShow == Underway \cup {"start", "ended", "raised", "post"}

\* Only /rfi and the forms schedule tasks.
TaskKinds ==
    \A t \in Tasks : task[t] = IdleTask \/ (task[t].kind \in {"slash", "resume"} /\ task[t].pc # "idle")

\* Until it has posted, the first run is alone: no append of its is refused.
FirstIsAlone ==
    sess.active = "rfi" =>
        \A t \in Tasks : task[t].kind = "slash" /\ task[t].pc # "note" =>
            /\ forms = {} /\ \A h \in Clicks : click[h] = IdleClick
            /\ \A u \in Tasks \ {t} : task[u] = IdleTask
            /\ task[t].pc \in Underway => task[t].fresh
            /\ task[t].pc = "raised" => ~FormsPending(sess)

\* The form a session waits for.
Asking(s, kind) ==
    IF kind = "guidance" THEN s.guidance = "PENDING"
    ELSE s.guidance # "PENDING" /\ s.gap = "PENDING"

\* Task t has yet to look for what to post, or is about to post this.
WillPost(t, kind) ==
    /\ task[t].kind \in {"slash", "resume"}
    /\ task[t].pc \in BeforeShow \/ (task[t].pc = "show" /\ Asking(task[t].view, kind))

\* A form that is awaited is shown, being submitted, or on its way.
OnItsWay ==
    sess.active = "rfi" =>
        \A kind \in {"guidance", "gap"} : Asking(sess, kind) =>
            FormShown(kind) \/ (\E h \in Clicks : click[h].kind = kind) \/ \E t \in Tasks : WillPost(t, kind)

Posting == TaskKinds /\ FirstIsAlone /\ OnItsWay

\* An event that is appended, or refused, leaves the task its kind.
LEMMA EmitMoves ==
    ASSUME TypeOK, NEW t \in Tasks, NEW next \in Underway \cup {"ended"}, NEW delta, Emit(t, next, delta)
    PROVE  /\ task'[t].kind = task[t].kind /\ task'[t].pc \in {next, "raised"}
           /\ \A u \in Tasks \ {t} : task'[u] \in {task[u], [task[u] EXCEPT !.fresh = FALSE]}
           /\ \A h \in Clicks : click'[h] \in {click[h], [click[h] EXCEPT !.fresh = FALSE]}
           /\ "db" \notin Faults /\ task[t].fresh /\ sess # NoSession =>
                 task'[t].pc = next /\ (next # "ended" => task'[t].fresh)
<1>1. task[t] \in Jobs /\ DOMAIN task = Tasks /\ DOMAIN click = Clicks
  BY DEF TypeOK, Jobs
<1>2. CASE /\ CanAppend(task[t])
           /\ task' = [Stale(task) EXCEPT ![t] =
                          Continue(task[t], next, Applied(task[t].view, delta))]
           /\ click' = Stale(click)
  <2>1. PICK j : j = Continue(task[t], next, Applied(task[t].view, delta))
    OBVIOUS
  <2>2. task' = [Stale(task) EXCEPT ![t] = j]
    BY <1>2, <2>1
  <2>3. task'[t] = j /\ \A u \in Tasks \ {t} : task'[u] = [task[u] EXCEPT !.fresh = FALSE]
    BY <1>1, <2>2 DEF Stale
  <2>4. \A h \in Clicks : click'[h] = [click[h] EXCEPT !.fresh = FALSE]
    BY <1>1, <1>2 DEF Stale
  <2>5. /\ j.kind = task[t].kind /\ j.pc = next
        /\ next # "ended" => j.fresh = task[t].fresh
    BY <1>1, <2>1 DEF Continue, Jobs, Underway
  <2> QED BY <1>2, <2>3, <2>4, <2>5 DEF CanAppend
<1>3. CASE /\ ~CanAppend(task[t]) \/ "db" \in Faults
           /\ task' = [task EXCEPT ![t] = Continue(task[t], "raised", NoSession)]
           /\ UNCHANGED <<sess, click>>
  <2>1. PICK j : j = Continue(task[t], "raised", NoSession)
    OBVIOUS
  <2>2. task'[t] = j /\ \A u \in Tasks \ {t} : task'[u] = task[u]
    BY <1>1, <1>3, <2>1
  <2>3. j.kind = task[t].kind /\ j.pc = "raised"
    BY <1>1, <2>1 DEF Continue, Jobs
  <2> QED BY <1>3, <2>2, <2>3 DEF CanAppend
<1> QED BY <1>2, <1>3 DEF Emit

\* A step of a run keeps the task's kind, and takes it no further than to where it looks
\* for what to post; the first run goes on with its copy, unless the model failed it.
LEMMA RunMoves ==
    ASSUME TypeOK, Copies, NEW t \in Tasks, Run(t)
    PROVE  /\ task'[t].kind = task[t].kind /\ task'[t].pc \in Underway \cup {"ended", "raised"}
           /\ task[t].pc \in Underway \cup {"start"} /\ forms' = forms
           /\ "db" \notin Faults /\ sess # NoSession /\ (task[t].pc = "start" \/ task[t].fresh) =>
                 /\ task'[t].pc \in Underway => task'[t].fresh
                 /\ task'[t].pc = "raised" => sess' = sess /\ ~FormsPending(sess)
<1>1. /\ task[t] \in Jobs /\ task \in [Tasks -> Jobs]
      /\ Coherent(sess) /\ (task[t].fresh => task[t].view = sess)
  BY TaskFacts DEF TypeOK, Jobs
<1>2. CASE Start(t)
  BY <1>1, <1>2 DEF Start, Goto, Jobs, Underway
<1>3. CASE Message(t) \/ GuidanceStage(t) \/ GapStage(t)
           \/ AssembleNothing(t) \/ Record(t) \/ Say(t)
  BY <1>1, <1>3, EmitMoves DEF Message, GuidanceStage, GapStage, AssembleNothing, Record, Say,
     Underway
<1>4. CASE Research(t)
  <2>1. PICK delta : Emit(t, "gap", delta)
    BY <1>4 DEF Research
  <2> QED BY <1>1, <1>4, <2>1, EmitMoves DEF Research, Underway
<1>5. CASE Parse(t)
  <2>1. ASSUME NEW delta, Emit(t, "guidance", delta)
        PROVE  /\ task'[t].kind = task[t].kind /\ task'[t].pc \in {"guidance", "raised"}
               /\ "db" \notin Faults /\ sess # NoSession /\ task[t].fresh =>
                     task'[t].pc = "guidance" /\ task'[t].fresh
    BY <1>1, <2>1, EmitMoves DEF Underway
  <2>2. CASE /\ task[t].view.questions = "unparsed"
             /\ task' = [task EXCEPT ![t] = Continue(task[t], "raised", NoSession)]
             /\ UNCHANGED <<sess, click>>
    <3>1. PICK j : j = Continue(task[t], "raised", NoSession)
      OBVIOUS
    <3>2. task'[t] = j /\ j.kind = task[t].kind /\ j.pc = "raised"
      BY <1>1, <2>2, <3>1 DEF Continue, Jobs
    <3>3. task[t].fresh => ~FormsPending(sess)
      BY <1>1, <2>2 DEF Coherent, FormsPending
    <3> QED BY <1>5, <2>2, <3>2, <3>3 DEF Parse, Underway
  <2> QED BY <1>5, <2>1, <2>2 DEF Parse, Underway
<1>6. CASE (\E f \in Fills : CallFill(t, f)) \/ LoseCall(t)
  <2>1. PICK next \in {"fill", "assemble", "say"} : Goto(t, next)
    BY <1>6 DEF CallFill, LoseCall
  <2>2. /\ task'[t].kind = task[t].kind /\ task'[t].pc = next /\ task'[t].fresh = task[t].fresh
    BY <1>1, <2>1 DEF Goto, Jobs
  <2> QED BY <1>6, <2>2 DEF CallFill, LoseCall, Underway
<1> QED BY <1>2, <1>3, <1>4, <1>5, <1>6 DEF Run

\* After the run: a task posts what the session asks for, ends, or has not got there yet.
LEMMA PostMoves ==
    ASSUME TypeOK, NEW t \in Tasks, Post(t), Faults \subseteq {"llm", "fill"}
    PROVE  /\ task[t].pc \in {"ended", "raised", "post", "show", "note"}
           /\ sess' = sess
           /\ \/ task'[t] = IdleTask /\ forms' = forms
                 /\ \/ task[t].kind = "plain" \/ task[t].pc = "note"
                    \/ task[t].kind = "slash" /\ task[t].pc = "raised"
                    \/ task[t].pc = "show" /\ ~FormsPending(task[t].view)
              \/ /\ task'[t].kind = task[t].kind /\ task'[t].pc \in {"start", "post"} /\ forms' = forms
                 /\ task'[t].pc = "post" \/ task[t].kind = "resume"
                 /\ task[t].pc \in {"ended", "raised"}
              \/ /\ task'[t].kind = task[t].kind /\ task'[t].pc = "show" /\ task'[t].view = sess
                 /\ forms' = forms /\ task[t].pc = "post"
              \/ /\ task'[t].kind = task[t].kind /\ task'[t].pc = "note" /\ forms \subseteq forms'
                 /\ task[t].pc = "show"
                 /\ \A kind \in {"guidance", "gap"} : Asking(task[t].view, kind) => FormShown(kind)'
<1>1. task[t] \in Jobs /\ task \in [Tasks -> Jobs] /\ DOMAIN task = Tasks
  BY DEF TypeOK, Jobs
<1>2. CASE PostReply(t)
  BY <1>1, <1>2 DEF PostReply, RunOver
<1>3. CASE SlashOver(t)
  BY <1>1, <1>3 DEF SlashOver, Goto, Jobs
<1>4. CASE ResumeOver(t)
  BY <1>1, <1>4 DEF ResumeOver, RunOver, Jobs
<1>5. CASE LoadResult(t)
  BY <1>1, <1>5 DEF LoadResult, Jobs
<1>6. CASE PostForm(t)
  <2>1. PICK kind, shown, no :
            /\ kind = IF task[t].view.guidance = "PENDING" THEN "guidance" ELSE "gap"
            /\ forms' = forms \cup {[no |-> no, kind |-> kind, shown |-> shown]}
    BY <1>6 DEF PostForm
  <2>2. \A asking \in {"guidance", "gap"} : Asking(task[t].view, asking) => FormShown(asking)'
    <3>1. PICK form : form = [no |-> no, kind |-> kind, shown |-> shown]
      OBVIOUS
    <3>2. form \in forms' /\ form.kind = kind /\ forms \subseteq forms'
      BY <2>1, <3>1
    <3> QED BY <2>1, <3>2 DEF Asking, FormShown
  <2>3. task'[t].kind = task[t].kind /\ task'[t].pc = "note"
    BY <1>1, <1>6 DEF PostForm, Goto, Jobs
  <2>4. forms \subseteq forms'
    BY <2>1
  <2> QED BY <1>6, <2>2, <2>3, <2>4 DEF PostForm
<1>7. CASE PostText(t)
  BY <1>1, <1>7 DEF PostText
<1>8. CASE NoteForm(t)
  BY <1>1, <1>8 DEF NoteForm, Stale
<1>9. ~PostFails(t) /\ ~TaskDies(t)
  BY DEF PostFails, TaskDies
<1> QED BY <1>2, <1>3, <1>4, <1>5, <1>6, <1>7, <1>8, <1>9 DEF Post

-------------------------------------------------------------------------------
\* A task that does not take part in a step stays what it is.
LEMMA KeptAside ==
    ASSUME TypeOK, NEW u \in Tasks, Kept(u)
    PROVE  /\ task'[u].kind = task[u].kind /\ task'[u].pc = task[u].pc /\ task'[u].view = task[u].view
           /\ task[u] = IdleTask => task'[u] = IdleTask
<1>1. task[u] \in Jobs
  BY DEF TypeOK, Jobs
<1>2. CASE task'[u] = task[u]
  BY <1>2
<1>3. CASE task'[u] = [task[u] EXCEPT !.fresh = FALSE]
  <2>1. task'[u].kind = task[u].kind /\ task'[u].pc = task[u].pc /\ task'[u].view = task[u].view
    BY <1>1, <1>3 DEF Jobs
  <2>2. task[u] = IdleTask => task'[u] = IdleTask
    BY <1>3, IdleTypes
  <2> QED BY <2>1, <2>2
<1> QED BY <1>2, <1>3 DEF Kept

\* No task ends a submission.
LEMMA ClicksKept ==
    ASSUME TypeOK, NEW t \in Tasks, Run(t) \/ Post(t), NEW h \in Clicks
    PROVE  click'[h].kind = click[h].kind /\ (click[h] = IdleClick => click'[h] = IdleClick)
<1>1. click' = click \/ click' = Stale(click)
  BY DEF Run, Start, Message, Parse, GuidanceStage, Research, GapStage, AssembleNothing, CallFill,
         LoseCall, Record, Say, Emit, Post, PostReply, SlashOver, ResumeOver, TaskDies, LoadResult,
         PostForm, PostText, PostFails, NoteForm
<1>2. click[h] \in Submissions /\ DOMAIN click = Clicks
  BY DEF TypeOK, Submissions
<1>3. click'[h] \in {click[h], [click[h] EXCEPT !.fresh = FALSE]}
  BY <1>1, <1>2 DEF Stale
<1> QED BY <1>2, <1>3, IdleTypes DEF Submissions

\* A task's own step: where it goes, and what it leaves on display.
LEMMA StagePosting ==
    ASSUME Inv, Posting, Faults \subseteq {"llm", "fill"}, NEW t \in Tasks, Run(t) \/ Post(t)
    PROVE  Posting'
<1> USE DEF Inv, Posting
<1>1. TaskActs(t)
  BY RunActs, PostActs DEF StageActs
<1>2. \A u \in Tasks \ {t} :
          /\ task'[u].kind = task[u].kind /\ task'[u].pc = task[u].pc /\ task'[u].view = task[u].view
          /\ task[u] = IdleTask => task'[u] = IdleTask
  BY <1>1, KeptAside DEF TaskActs
<1>3. sess'.active = "rfi" => sess.active = "rfi" /\ sess # NoSession
  BY <1>1, NewStateFields DEF TaskActs, GoesOn, Onward, Precedes, NoSession
<1>4. "db" \notin Faults
  OBVIOUS
<1>5. task[t].kind \in {"slash", "resume"} /\ task[t].pc # "idle"
  <2>1. task[t].pc # "idle"
    BY <1>4, RunMoves, PostMoves DEF Underway
  <2> QED BY <2>1, IdleTypes DEF TaskKinds
<1>6. TaskKinds'
  <2>1. task'[t] = IdleTask \/ (task'[t].kind = task[t].kind /\ task'[t].pc # "idle")
    BY <1>4, RunMoves, PostMoves DEF BeforeShow, Underway
  <2>2. \A u \in Tasks \ {t} :
            task'[u] = IdleTask \/ (task'[u].kind \in {"slash", "resume"} /\ task'[u].pc # "idle")
    BY <1>2 DEF TaskKinds
  <2> QED BY <1>5, <2>1, <2>2 DEF TaskKinds
<1>7. FirstIsAlone'
  <2> SUFFICES ASSUME sess'.active = "rfi", NEW u \in Tasks, task'[u].kind = "slash", task'[u].pc # "note"
               PROVE  /\ forms' = {} /\ \A h \in Clicks : click'[h] = IdleClick
                      /\ \A v \in Tasks \ {u} : task'[v] = IdleTask
                      /\ task'[u].pc \in Underway => task'[u].fresh
                      /\ task'[u].pc = "raised" => ~FormsPending(sess')
    BY DEF FirstIsAlone
  <2>1. u = t
    BY <1>2, <1>3, <1>5, IdleTypes DEF FirstIsAlone
  <2>2. task[t].kind = "slash" /\ task[t].pc # "note"
    <3>1. CASE Run(t)
      BY <1>4, <2>1, <3>1, RunMoves DEF Underway
    <3>2. CASE Post(t)
      BY <2>1, <3>2, PostMoves, IdleTypes
    <3> QED BY <3>1, <3>2
  <2>3. /\ forms = {} /\ \A h \in Clicks : click[h] = IdleClick
        /\ \A v \in Tasks \ {t} : task[v] = IdleTask
        /\ task[t].pc \in Underway => task[t].fresh
    BY <1>3, <2>2 DEF FirstIsAlone
  <2>4. /\ forms' = forms
        /\ task'[t].pc \in Underway => task'[t].fresh
        /\ task'[t].pc = "raised" => ~FormsPending(sess')
    <3>1. CASE Run(t)
      BY <1>3, <1>4, <2>3, <3>1, RunMoves DEF FormsPending
    <3>2. CASE Post(t)
      BY <2>1, <3>2, PostMoves, IdleTypes DEF Underway
    <3> QED BY <3>1, <3>2
  <2> QED BY <1>2, <2>1, <2>3, <2>4, ClicksKept
<1>8. OnItsWay'
  <2> SUFFICES ASSUME sess'.active = "rfi", NEW kind \in {"guidance", "gap"}, Asking(sess', kind)
               PROVE  \/ FormShown(kind)' \/ \E h \in Clicks : click'[h].kind = kind
                      \/ \E u \in Tasks : WillPost(u, kind)'
    BY DEF OnItsWay
  <2>1. CASE Run(t)
    <3>1. WillPost(t, kind)'
      BY <1>4, <1>5, <2>1, RunMoves DEF WillPost, BeforeShow
    <3> QED BY <3>1
  <2>2. CASE Post(t)
    <3>1. sess' = sess /\ forms \subseteq forms'
      BY <2>2, PostMoves
    <3>2. CASE FormShown(kind)
      BY <3>1, <3>2 DEF FormShown
    <3>3. CASE \E h \in Clicks : click[h].kind = kind
      BY <3>3, ClicksKept
    <3>4. CASE \E u \in Tasks \ {t} : WillPost(u, kind)
      BY <1>2, <3>4 DEF WillPost
    <3>5. CASE WillPost(t, kind)
      <4>1. task[t].pc # "note" /\ (task[t].pc = "show" => Asking(task[t].view, kind))
        BY <3>5 DEF WillPost, BeforeShow, Underway
      <4>2. FormsPending(sess) /\ (task[t].pc = "show" => FormsPending(task[t].view))
        BY <3>1, <4>1 DEF Asking, FormsPending
      <4>3. ~(task[t].kind = "slash" /\ task[t].pc = "raised")
        BY <1>3, <4>1, <4>2 DEF FirstIsAlone
      <4>4. CASE task'[t].kind = task[t].kind /\ task'[t].pc \in {"start", "post"}
        BY <1>5, <4>4 DEF WillPost, BeforeShow
      <4>5. CASE task'[t].kind = task[t].kind /\ task'[t].pc = "show" /\ task'[t].view = sess
        BY <1>5, <3>1, <4>5 DEF WillPost
      <4>6. CASE task[t].pc = "show" /\ \A asking \in {"guidance", "gap"} :
                   Asking(task[t].view, asking) => FormShown(asking)'
        BY <4>1, <4>6
      <4> QED BY <1>5, <2>2, <4>1, <4>2, <4>3, <4>4, <4>5, <4>6, PostMoves
    <3> QED BY <1>3, <3>1, <3>2, <3>3, <3>4, <3>5 DEF OnItsWay
  <2> QED BY <2>1, <2>2
<1> QED BY <1>6, <1>7, <1>8

\* The first run starts alone, in a session that asks for nothing.
LEMMA SlashPosting ==
    ASSUME Inv, Posting, NEW t \in Tasks, SlashRfi(t)
    PROVE  Posting'
<1>1. /\ forms' = {} /\ \A h \in Clicks : click'[h] = IdleClick
      /\ \A u \in Tasks : task[u] = IdleTask /\ task[u].kind = "none"
      /\ sess = NoSession
  BY IdleTypes DEF Inv, Unbegun, SlashRfi
<1>2. (sess'.guidance = "none" /\ sess'.gap = "none") \/ sess' = NoSession
  BY <1>1, NewStateFields, StateFields DEF SlashRfi, Keys
<1>3. ~FormsPending(sess') /\ \A kind : ~Asking(sess', kind)
  BY <1>2, NewStateFields DEF NoSession, FormsPending, Asking
<1>4. CASE task' = [task EXCEPT ![t] = NewTask("slash", "rfi")]
  <2>1. PICK j : j = NewTask("slash", "rfi")
    OBVIOUS
  <2>2. j.kind = "slash" /\ j.pc = "start"
    BY <2>1, IdleTypes DEF NewTask, Jobs
  <2>3. task'[t] = j /\ \A u \in Tasks \ {t} : task'[u] = IdleTask /\ task'[u].kind = "none"
    BY <1>1, <1>4, <2>1 DEF Inv, TypeOK
  <2> QED BY <1>1, <1>3, <2>2, <2>3 DEF Posting, TaskKinds, FirstIsAlone, OnItsWay, Underway
<1>5. CASE task' = task
  BY <1>1, <1>3, <1>5 DEF Posting, TaskKinds, FirstIsAlone, OnItsWay
<1> QED BY <1>4, <1>5 DEF SlashRfi

\* An acknowledged submission leaves a resume that is to look for the next form.
LEMMA AcknowledgePosting ==
    ASSUME Inv, Posting, NEW t \in Tasks, NEW h \in Clicks, Acknowledge(h, t)
    PROVE  Posting'
<1> USE DEF Inv, Posting
<1>1. TaskActs(t)
  BY AcknowledgeActs
<1>2. \A u \in Tasks \ {t} :
          /\ task'[u].kind = task[u].kind /\ task'[u].pc = task[u].pc
          /\ task[u] = IdleTask => task'[u] = IdleTask
  BY <1>1, KeptAside DEF TaskActs
<1>3. PICK j : j = NewTask("resume", click[h].view.active)
  OBVIOUS
<1>4. j.kind = "resume" /\ j.pc = "start"
  BY <1>3, IdleTypes DEF NewTask, Jobs
<1>5. task'[t] = j
  BY <1>3 DEF Acknowledge, Stale, TypeOK
<1>6. TaskKinds'
  BY <1>2, <1>4, <1>5 DEF TaskKinds
<1>7. OnItsWay'
  BY <1>4, <1>5 DEF OnItsWay, WillPost, BeforeShow
<1>8. sess'.active = "rfi" => sess.active = "rfi"
  BY <1>1 DEF TaskActs, GoesOn, Onward, Precedes
<1>9. FirstIsAlone'
  BY <1>2, <1>4, <1>5, <1>8 DEF FirstIsAlone, Acknowledge
<1> QED BY <1>6, <1>7, <1>9

\* A submission takes away a form nobody waits for, or is being handled.
LEMMA SubmitPosting ==
    ASSUME Inv, Posting, NEW h \in Clicks, NEW form \in forms, NEW typed, Submit(h, form, typed)
    PROVE  Posting'
<1> USE DEF Inv, Posting
<1>1. UNCHANGED <<sess, task>> /\ form.kind \in {"guidance", "gap"} /\ click[h] = IdleClick
  BY DEF Submit, TypeOK, Forms
<1>2. TaskKinds' /\ FirstIsAlone'
  BY <1>1 DEF TaskKinds, FirstIsAlone
<1>3. \A kind \in {"guidance", "gap"} : \A g \in Clicks : click[g].kind = kind => click'[g].kind = kind
  BY <1>1, IdleTypes DEF Submit, TypeOK
<1>4. \A kind \in {"guidance", "gap"} : Asking(sess, kind) /\ FormShown(kind) => FormShown(kind)'
  BY DEF Submit, Awaited, Asking, FormShown
<1>5. OnItsWay'
  BY <1>1, <1>3, <1>4 DEF OnItsWay, WillPost
<1> QED BY <1>2, <1>5

\* The fill's answer takes the task that waits for it on with its run.
LEMMA ServePosting ==
    ASSUME Inv, Posting, NEW f \in Fills, FindFile(f) \/ WriteFile(f) \/ FillAnswers(f) \/ FillErrs(f)
    PROVE  Posting'
<1> USE DEF Inv, Posting
<1>1. UNCHANGED <<sess, click, forms>>
  BY DEF FindFile, WriteFile, FillAnswers, FillErrs
<1>2. \A t \in Tasks :
          \/ task'[t] = task[t]
          \/ /\ task[t].pc = "fill" /\ task'[t].pc \in {"record", "say"}
             /\ task'[t].kind = task[t].kind /\ task'[t].fresh = task[t].fresh
             /\ task[t] # IdleTask
  <2> TAKE t \in Tasks
  <2>1. task[t] \in Jobs
    BY DEF TypeOK, Jobs
  <2>2. CASE FindFile(f) \/ WriteFile(f)
    BY <2>2 DEF FindFile, WriteFile
  <2>3. ASSUME NEW next \in {"record", "say"}, Answered(f, next)
        PROVE  \/ task'[t] = task[t]
               \/ t \in fill[f].waiting /\ task'[t] = [task[t] EXCEPT !.pc = next]
    BY <2>3 DEF Answered
  <2>4. t \in fill[f].waiting => task[t].pc = "fill"
    BY DEF Writes, Waiting
  <2>5. CASE FillAnswers(f) \/ FillErrs(f)
    BY <2>1, <2>3, <2>4, <2>5, IdleTypes DEF FillAnswers, FillErrs, Jobs
  <2> QED BY <2>2, <2>5
<1>3. TaskKinds'
  BY <1>2 DEF TaskKinds
<1>4. FirstIsAlone'
  BY <1>1, <1>2 DEF FirstIsAlone, Underway
<1>5. OnItsWay'
  <2>1. \A kind : \A t \in Tasks : WillPost(t, kind) => WillPost(t, kind)'
    BY <1>2 DEF WillPost, BeforeShow, Underway
  <2> QED BY <1>1, <2>1 DEF OnItsWay, FormShown
<1> QED BY <1>3, <1>4, <1>5

LEMMA PostingStep ==
    ASSUME ~Replies, Faults \subseteq {"llm", "fill"}, Inv, Posting, [Next]_vars
    PROVE  Posting'
<1>1. ASSUME NEW t \in Tasks, PlainMessage(t)
      PROVE  FALSE
  BY <1>1 DEF PlainMessage
<1>2. ~Crash
  BY DEF Crash
<1>3. CASE Exit
  <2>1. sess'.active # "rfi"
    BY <1>3, NewStateFields DEF Exit, NoSession
  <2>2. \A t \in Tasks : task'[t] = [task[t] EXCEPT !.fresh = FALSE] /\ task[t] \in Jobs
    BY <1>3 DEF Exit, Stale, Inv, TypeOK, Jobs
  <2>3. TaskKinds'
    <3>1. \A t \in Tasks : /\ task'[t].kind = task[t].kind /\ task'[t].pc = task[t].pc
                           /\ task[t] = IdleTask => task'[t] = IdleTask
      BY <2>2, KeptAside DEF Kept, Inv
    <3> QED BY <3>1 DEF Posting, TaskKinds
  <2> QED BY <2>1, <2>3 DEF Posting, FirstIsAlone, OnItsWay
<1>4. CASE UNCHANGED vars
  BY <1>4 DEF vars, Posting, TaskKinds, FirstIsAlone, OnItsWay, WillPost, FormShown
<1> QED BY <1>1, <1>2, <1>3, <1>4, StepCases, SlashPosting, StagePosting, AcknowledgePosting,
           SubmitPosting, ServePosting

\* A thread nobody else writes to shows the form it waits for once all is quiet, also
\* when the model fails, the fill is lost or repeated, or the thread is left; however
\* many submissions are handled at once.
THEOREM AwaitedFormIsPosted ==
    ASSUME ~Replies, Faults \subseteq {"llm", "fill"}
    PROVE  Spec => []PendingFormPosted
<1>1. Init => Posting
  <2> SUFFICES ASSUME Init PROVE Posting
    OBVIOUS
  <2>1. sess.active # "rfi" /\ \A t \in Tasks : task[t] = IdleTask
    BY NewStateFields DEF Init, NoSession
  <2> QED BY <2>1 DEF Posting, TaskKinds, FirstIsAlone, OnItsWay
<1>2. Inv /\ Posting /\ [Next]_vars => Posting'
  BY PostingStep
<1>3. Inv /\ Posting => PendingFormPosted
  <2> SUFFICES ASSUME Inv, Posting, Quiescent PROVE PendingFormPosted
    BY DEF PendingFormPosted
  <2>1. /\ \A t \in Tasks : \A kind : ~WillPost(t, kind)
        /\ \A h \in Clicks : click[h].kind = "none"
    BY IdleTypes DEF Quiescent, WillPost
  <2>2. sess.active # "rfi" => sess.guidance # "PENDING" /\ sess.gap # "PENDING"
    BY AnswersDomain DEF Inv, TypeOK, Copies, Coherent
  <2> QED BY <2>1, <2>2 DEF Posting, OnItsWay, Asking, PendingFormPosted
<1> QED BY <1>1, <1>2, <1>3, Invariance, PTL DEF Spec

-------------------------------------------------------------------------------
\* What the hint says, when one submission is handled at a time, whatever fails

\* Task t has yet to look for what to post.
WillLook(t) == task[t].kind \in {"slash", "resume"} /\ task[t].pc # "note"

\* A form on display or a task that may yet post one: there is never more than one of
\* these, so nothing is submitted before the task that would say the hint is done.
OneAtATime ==
    /\ \A t \in Tasks : task[t].pc \in {"post", "show"} => WillLook(t)
    /\ \A t, u \in Tasks : WillLook(t) /\ WillLook(u) => t = u
    /\ \A form \in forms : \A t \in Tasks : ~WillLook(t)
    /\ \A f, g \in forms : f = g
    /\ \A h \in Clicks : click[h] # IdleClick => forms # {} /\ \A f \in forms : f.no = click[h].form

\* What was acknowledged when the last attempt was found to have failed is still saved.
HintHolds ==
    sess.active = "rfi" =>
        \A t \in Tasks : WillLook(t) /\ Exhausted(t) => \A q \in thanked : Saved(q)

Hinting == OneAtATime /\ HintHolds

\* The last attempt is exceeded only by a task that is to post.
LEMMA NotExhausted ==
    ASSUME NEW t \in Tasks, TaskActs(t), task'[t].pc \notin {"post", "show", "note"}
    PROVE  ~Exhausted(t)'
<1>1. task'[t].attempt <= Attempts /\ task'[t].attempt \in 0 .. (Attempts + 1)
  BY DEF TaskActs, JobOK, Jobs
<1> QED BY <1>1, EngineAssumption DEF Exhausted

\* A task that does not take part in a step looks no more, and no less.
LEMMA LooksAside ==
    ASSUME TypeOK, NEW u \in Tasks, Kept(u)
    PROVE  /\ WillLook(u)' <=> WillLook(u)
           /\ Exhausted(u)' <=> Exhausted(u)
           /\ task'[u].pc = task[u].pc
<1>1. task[u] \in Jobs
  BY DEF TypeOK, Jobs
<1>2. task'[u].attempt = task[u].attempt
  BY <1>1 DEF Kept, Jobs
<1> QED BY <1>2, KeptAside DEF WillLook, Exhausted

\* After the run, whatever fails: a task is done, looks for what to post, or has posted
\* a form; only a resume whose file is still missing gives up.
LEMMA PostLooks ==
    ASSUME TypeOK, NEW t \in Tasks, Post(t)
    PROVE  /\ sess' = sess /\ thanked' = thanked
           /\ \/ ~WillLook(t)' /\ task'[t].pc = "idle" /\ forms' = forms
              \/ /\ WillLook(t) /\ WillLook(t)' /\ forms' = forms
                 /\ Exhausted(t)' => Exhausted(t) \/ AssemblyFailed(sess)
              \/ /\ task[t].pc = "post" /\ task'[t].pc = "show" /\ task'[t].kind = task[t].kind
                 /\ forms' = forms /\ (Exhausted(t)' <=> Exhausted(t))
              \/ /\ task[t].pc = "show" /\ task'[t].pc = "note" /\ ~WillLook(t)'
                 /\ \E form : forms' = forms \cup {form}
<1>1. task[t] \in Jobs /\ task \in [Tasks -> Jobs] /\ DOMAIN task = Tasks
  BY DEF TypeOK, Jobs
<1>2. CASE PostReply(t) \/ TaskDies(t) \/ PostText(t) \/ PostFails(t) \/ NoteForm(t)
  <2>1. task'[t] = IdleTask
    BY <1>1, <1>2 DEF PostReply, TaskDies, PostText, PostFails, NoteForm, Stale
  <2>2. UNCHANGED <<sess, forms, thanked>>
    BY <1>2 DEF PostReply, TaskDies, PostText, PostFails, NoteForm, history
  <2> QED BY <2>1, <2>2, IdleTypes DEF WillLook
<1>3. CASE SlashOver(t)
  <2>1. task[t].pc = "ended" /\ task'[t].pc = "post" /\ task'[t].kind = task[t].kind
        /\ task'[t].attempt = task[t].attempt /\ task[t].kind = "slash"
    BY <1>1, <1>3 DEF SlashOver, Goto, Jobs
  <2> QED BY <1>3, <2>1 DEF SlashOver, history, WillLook, Exhausted
<1>4. CASE ResumeOver(t)
  <2>1. PICK next : next = IF AssemblyFailed(sess) /\ task[t].attempt < Attempts
                           THEN "start" ELSE "post"
    OBVIOUS
  <2>2. PICK attempt : attempt = IF AssemblyFailed(sess) THEN task[t].attempt + 1
                                 ELSE task[t].attempt
    OBVIOUS
  <2>3. task' = [task EXCEPT ![t].pc = next, ![t].attempt = attempt]
    BY <1>4, <2>1, <2>2 DEF ResumeOver
  <2>4. task'[t].pc = next /\ task'[t].kind = task[t].kind /\ task'[t].attempt = attempt
    BY <1>1, <2>3 DEF Jobs
  <2>5. /\ task[t].pc \in {"ended", "raised"} /\ task[t].kind = "resume"
        /\ UNCHANGED <<sess, forms, thanked>>
    BY <1>4 DEF ResumeOver, RunOver, history
  <2>6. WillLook(t) /\ WillLook(t)'
    BY <2>1, <2>4, <2>5 DEF WillLook
  <2>7. Exhausted(t)' => Exhausted(t) \/ AssemblyFailed(sess)
    BY <2>2, <2>4 DEF Exhausted
  <2> QED BY <2>5, <2>6, <2>7
<1>5. CASE LoadResult(t)
  <2>1. task[t].pc = "post" /\ task'[t].pc = "show" /\ task'[t].kind = task[t].kind
        /\ task'[t].attempt = task[t].attempt
    BY <1>1, <1>5 DEF LoadResult, Jobs
  <2> QED BY <1>5, <2>1 DEF LoadResult, history, Exhausted
<1>6. CASE PostForm(t)
  <2>1. task[t].pc = "show" /\ task'[t].pc = "note"
    BY <1>1, <1>6 DEF PostForm, Goto, Jobs
  <2>2. \E form : forms' = forms \cup {form}
    BY <1>6 DEF PostForm
  <2> QED BY <1>6, <2>1, <2>2 DEF PostForm, WillLook
<1> QED BY <1>2, <1>3, <1>4, <1>5, <1>6 DEF Post

\* What was saved stays saved, by any step that acknowledges nothing.
LEMMA HintStays ==
    ASSUME Inv, HintHolds, GoesOn, sess'.active = "rfi", thanked' = thanked,
           NEW t \in Tasks, WillLook(t), Exhausted(t), NEW q \in thanked'
    PROVE  Saved(q)'
<1>1. sess.active = "rfi" /\ Precedes(sess, sess') /\ sess \in States /\ sess' \in States
  BY DEF GoesOn, Onward, Precedes, Inv, TypeOK
<1> QED BY <1>1, SavedStays DEF HintHolds

\* A task's own step.
LEMMA StageHinting ==
    ASSUME Inv, Acknowledged, Hinting, NEW t \in Tasks, Run(t) \/ Post(t)
    PROVE  Hinting'
<1> USE DEF Inv, Hinting
<1>1. TaskActs(t) /\ GoesOn
  BY RunActs, PostActs DEF StageActs, TaskActs
<1>2. \A u \in Tasks \ {t} : /\ WillLook(u)' <=> WillLook(u)
                             /\ Exhausted(u)' <=> Exhausted(u)
                             /\ task'[u].pc = task[u].pc
  BY <1>1, LooksAside DEF TaskActs
<1>3. \A h \in Clicks : click'[h] # IdleClick => click[h] # IdleClick /\ click'[h].form = click[h].form
  <2> TAKE h \in Clicks
  <2>1. click[h] \in Submissions /\ ClickKept(h)
    BY <1>1 DEF TaskActs, TypeOK, Submissions
  <2> QED BY <2>1, IdleTypes DEF ClickKept, Submissions
<1>4. CASE Run(t)
  <2>1. /\ task'[t].kind = task[t].kind /\ task'[t].pc \notin {"post", "show", "note"}
        /\ task[t].pc # "note" /\ forms' = forms
    BY <1>4, RunMoves DEF Underway
  <2>2. WillLook(t)' <=> WillLook(t)
    BY <2>1 DEF WillLook
  <2>3. ~Exhausted(t)'
    BY <1>1, <2>1, NotExhausted
  <2>4. thanked' = thanked
    BY <1>4 DEF Run, Start, Message, Parse, GuidanceStage, Research, GapStage, AssembleNothing,
                CallFill, LoseCall, Record, Say, history
  <2>5. OneAtATime'
    BY <1>2, <1>3, <2>1, <2>2 DEF OneAtATime
  <2>6. HintHolds'
    BY <1>1, <1>2, <2>3, <2>4, HintStays DEF HintHolds
  <2> QED BY <2>5, <2>6
<1>5. CASE Post(t)
  <2>1. sess' = sess /\ thanked' = thanked
    BY <1>5, PostLooks
  <2>2. CASE ~WillLook(t)' /\ task'[t].pc = "idle" /\ forms' = forms
    <3>1. OneAtATime'
      BY <1>2, <1>3, <2>2 DEF OneAtATime
    <3>2. HintHolds'
      BY <1>1, <1>2, <2>1, <2>2, HintStays DEF HintHolds
    <3> QED BY <3>1, <3>2
  <2>3. CASE /\ WillLook(t) /\ WillLook(t)' /\ forms' = forms
             /\ Exhausted(t)' => Exhausted(t) \/ AssemblyFailed(sess)
    <3>1. OneAtATime'
      BY <1>2, <1>3, <2>3 DEF OneAtATime
    <3>2. AssemblyFailed(sess) /\ sess.active = "rfi" => \A q \in thanked : Saved(q)
      BY DEF AssemblyFailed, FormsPending, Acknowledged, ThankedKept
    <3>3. ASSUME sess'.active = "rfi", AssemblyFailed(sess), NEW q \in thanked'
          PROVE  Saved(q)'
      BY <2>1, <3>2, <3>3 DEF Saved
    <3>4. HintHolds'
      BY <1>1, <1>2, <2>1, <2>3, <3>3, HintStays DEF HintHolds
    <3> QED BY <3>1, <3>4
  <2>4. CASE /\ task[t].pc = "post" /\ task'[t].pc = "show" /\ task'[t].kind = task[t].kind
             /\ forms' = forms /\ (Exhausted(t)' <=> Exhausted(t))
    <3>1. WillLook(t) /\ WillLook(t)'
      BY <2>4 DEF OneAtATime, WillLook
    <3>2. OneAtATime'
      BY <1>2, <1>3, <2>4, <3>1 DEF OneAtATime
    <3>3. HintHolds'
      BY <1>1, <1>2, <2>1, <2>4, <3>1, HintStays DEF HintHolds
    <3> QED BY <3>2, <3>3
  <2>5. CASE /\ task[t].pc = "show" /\ task'[t].pc = "note" /\ ~WillLook(t)'
             /\ \E form : forms' = forms \cup {form}
    <3>1. WillLook(t) /\ forms = {} /\ \A u \in Tasks \ {t} : ~WillLook(u)
      BY <2>5 DEF OneAtATime
    <3>2. \A h \in Clicks : click'[h] = IdleClick
      BY <1>3, <3>1 DEF OneAtATime
    <3>3. \A u \in Tasks : ~WillLook(u)'
      BY <1>2, <2>5, <3>1
    <3>4. OneAtATime'
      BY <1>2, <2>5, <3>1, <3>2, <3>3 DEF OneAtATime
    <3>5. HintHolds'
      BY <3>3 DEF HintHolds
    <3> QED BY <3>4, <3>5
  <2> QED BY <1>5, <2>2, <2>3, <2>4, <2>5, PostLooks
<1> QED BY <1>4, <1>5

\* The handler's last step takes away the only form, and schedules the only task.
LEMMA AcknowledgeHinting ==
    ASSUME \A g, h \in Clicks : g = h,
           Inv, Hinting, NEW t \in Tasks, NEW h \in Clicks, Acknowledge(h, t)
    PROVE  Hinting'
<1> USE DEF Inv, Hinting
<1>1. TaskActs(t)
  BY AcknowledgeActs
<1>2. \A u \in Tasks \ {t} : /\ WillLook(u)' <=> WillLook(u)
                             /\ task'[u].pc = task[u].pc
  BY <1>1, LooksAside DEF TaskActs
<1>3. click[h] # IdleClick /\ \A u \in Tasks : ~WillLook(u)
  BY DEF Acknowledge, OneAtATime
<1>4. forms' = {}
  BY <1>3 DEF Acknowledge, OneAtATime
<1>5. \A g \in Clicks : click'[g] = IdleClick
  <2>1. click'[h] = IdleClick
    BY DEF Acknowledge, Stale, TypeOK
  <2> QED BY <2>1
<1>6. task'[t].pc = "start" /\ ~Exhausted(t)'
  <2>1. PICK i, j : i = IdleTask /\ j = NewTask("resume", click[h].view.active)
    OBVIOUS
  <2>2. i \in Jobs /\ j = [i EXCEPT !.pc = "start", !.kind = "resume",
                                    !.work = click[h].view.active, !.attempt = 1]
    BY <2>1, IdleTypes DEF NewTask
  <2>3. j.pc = "start" /\ j.attempt = 1
    BY <2>2 DEF Jobs
  <2>4. task'[t] = j
    BY <2>1 DEF Acknowledge, Stale, TypeOK
  <2> QED BY <2>3, <2>4, EngineAssumption DEF Exhausted
<1>7. OneAtATime'
  BY <1>2, <1>3, <1>4, <1>5, <1>6 DEF OneAtATime
<1>8. HintHolds'
  BY <1>2, <1>3, <1>6 DEF HintHolds
<1> QED BY <1>7, <1>8

\* A submission takes away a form nobody waits for, or is being handled.
LEMMA SubmitHinting ==
    ASSUME \A g, h \in Clicks : g = h,
           Inv, Hinting, NEW h \in Clicks, NEW form \in forms, NEW typed, Submit(h, form, typed)
    PROVE  Hinting'
<1> USE DEF Inv, Hinting
<1>1. UNCHANGED <<sess, task, thanked>> /\ click[h] = IdleClick
  BY DEF Submit, history
<1>2. forms = {form}
  BY DEF OneAtATime
<1>3. CASE forms' = forms /\ click'[h].form = form.no
  BY <1>1, <1>2, <1>3 DEF OneAtATime, HintHolds, WillLook, Exhausted, Saved
<1>4. CASE forms' = forms \ {form} /\ click' = click
  BY <1>1, <1>2, <1>4 DEF OneAtATime, HintHolds, WillLook, Exhausted, Saved
<1>5. click'[h].form = form.no \/ click' = click
  BY DEF Submit, TypeOK
<1> QED BY <1>3, <1>4, <1>5 DEF Submit, TypeOK

\* The fill's answer takes the task that waits for it on with its run.
LEMMA ServeHinting ==
    ASSUME Inv, Hinting, NEW f \in Fills, FindFile(f) \/ WriteFile(f) \/ FillAnswers(f) \/ FillErrs(f)
    PROVE  Hinting'
<1> USE DEF Inv, Hinting
<1>1. UNCHANGED <<sess, click, forms, thanked>>
  BY DEF FindFile, WriteFile, FillAnswers, FillErrs, history
<1>2. ASSUME NEW t \in Tasks
      PROVE  /\ WillLook(t)' <=> WillLook(t)
             /\ Exhausted(t)' <=> Exhausted(t)
             /\ task'[t].pc = task[t].pc \/ task'[t].pc \notin {"post", "show"}
  <2>1. task[t] \in Jobs
    BY DEF TypeOK, Jobs
  <2>2. t \in fill[f].waiting => task[t].pc = "fill"
    BY DEF Writes, Waiting
  <2>3. CASE task'[t] = task[t]
    BY <2>3 DEF WillLook, Exhausted
  <2>4. ASSUME NEW next \in {"record", "say"}, t \in fill[f].waiting,
               task'[t] = [task[t] EXCEPT !.pc = next]
        PROVE  /\ task'[t].pc = next /\ task'[t].kind = task[t].kind
               /\ task'[t].attempt = task[t].attempt
    BY <2>1, <2>4 DEF Jobs
  <2>5. ASSUME NEW next \in {"record", "say"}, Answered(f, next)
        PROVE  \/ task'[t] = task[t]
               \/ t \in fill[f].waiting /\ task'[t] = [task[t] EXCEPT !.pc = next]
    BY <2>5 DEF Answered
  <2>6. \/ task'[t] = task[t]
        \/ \E next \in {"record", "say"} :
              t \in fill[f].waiting /\ task'[t] = [task[t] EXCEPT !.pc = next]
    BY <2>5 DEF FindFile, WriteFile, FillAnswers, FillErrs
  <2> QED BY <2>2, <2>3, <2>4, <2>6 DEF WillLook, Exhausted
<1>3. OneAtATime'
  BY <1>1, <1>2 DEF OneAtATime
<1>4. HintHolds'
  BY <1>1, <1>2 DEF HintHolds, Saved
<1> QED BY <1>3, <1>4

\* A plain message schedules a task that posts its reply and looks for nothing.
LEMMA PlainHinting ==
    ASSUME Inv, Hinting, NEW t \in Tasks, PlainMessage(t)
    PROVE  Hinting'
<1> USE DEF Inv, Hinting
<1>1. TaskActs(t) /\ GoesOn
  BY PlainMessageActs DEF StageActs, TaskActs
<1>2. \A u \in Tasks \ {t} : /\ WillLook(u)' <=> WillLook(u)
                             /\ Exhausted(u)' <=> Exhausted(u)
                             /\ task'[u].pc = task[u].pc
  BY <1>1, LooksAside DEF TaskActs
<1>3. task'[t].pc = "start" /\ ~WillLook(t)'
  <2>1. ASSUME NEW work, task'[t] = NewTask("plain", work)
        PROVE  task'[t].pc = "start" /\ task'[t].kind = "plain"
    <3>1. PICK i, j : i = IdleTask /\ j = NewTask("plain", work)
      OBVIOUS
    <3>2. i \in Jobs /\ j = [i EXCEPT !.pc = "start", !.kind = "plain", !.work = work, !.attempt = 1]
      BY <3>1, IdleTypes DEF NewTask
    <3>3. j.pc = "start" /\ j.kind = "plain"
      BY <3>2 DEF Jobs
    <3> QED BY <2>1, <3>1, <3>3
  <2>2. \E work : task'[t] = NewTask("plain", work)
    BY DEF PlainMessage, Stale, TypeOK
  <2> QED BY <2>1, <2>2 DEF WillLook
<1>4. \A h \in Clicks : click'[h] # IdleClick => click[h] # IdleClick /\ click'[h].form = click[h].form
  <2> TAKE h \in Clicks
  <2>1. click[h] \in Submissions /\ ClickKept(h)
    BY <1>1 DEF TaskActs, TypeOK, Submissions
  <2> QED BY <2>1, IdleTypes DEF ClickKept, Submissions
<1>5. forms' = forms /\ thanked' = thanked
  BY DEF PlainMessage, history
<1>6. OneAtATime'
  BY <1>2, <1>3, <1>4, <1>5 DEF OneAtATime
<1>7. HintHolds'
  BY <1>1, <1>2, <1>3, <1>5, HintStays DEF HintHolds
<1> QED BY <1>6, <1>7

\* The first run is the only one, and nobody was thanked yet.
LEMMA SlashHinting ==
    ASSUME Inv, Acknowledged, NEW t \in Tasks, SlashRfi(t)
    PROVE  Hinting'
<1>1. /\ forms' = {} /\ thanked' = {}
      /\ \A h \in Clicks : click'[h] = IdleClick
      /\ \A u \in Tasks : task[u] = IdleTask
  BY DEF SlashRfi, Inv, Unbegun, Acknowledged, NobodyThanked, history
<1>2. ASSUME NEW u \in Tasks, task'[u] = IdleTask
      PROVE  ~WillLook(u)' /\ task'[u].pc = "idle"
  BY <1>2, IdleTypes DEF WillLook
<1>3. CASE task' = task
  BY <1>1, <1>2, <1>3 DEF Hinting, OneAtATime, HintHolds
<1>4. CASE task' = [task EXCEPT ![t] = NewTask("slash", "rfi")]
  <2>1. PICK j : j = NewTask("slash", "rfi")
    OBVIOUS
  <2>2. j.pc = "start"
    BY <2>1, IdleTypes DEF NewTask, Jobs
  <2>3. task'[t] = j /\ \A u \in Tasks \ {t} : task'[u] = IdleTask
    BY <1>1, <1>4, <2>1 DEF Inv, TypeOK
  <2> QED BY <1>1, <1>2, <2>2, <2>3 DEF Hinting, OneAtATime, HintHolds
<1> QED BY <1>3, <1>4 DEF SlashRfi

LEMMA HintingStep ==
    ASSUME \A g, h \in Clicks : g = h, Inv, Acknowledged, Hinting, [Next]_vars
    PROVE  Hinting'
<1>1. CASE Exit
  <2>1. UNCHANGED <<forms, thanked>> /\ sess'.active # "rfi"
    BY <1>1, NewStateFields DEF Exit, NoSession, history
  <2>2. \A u \in Tasks : /\ WillLook(u)' <=> WillLook(u)
                         /\ task'[u].pc = task[u].pc
    BY <1>1, LooksAside DEF Exit, Stale, Inv, TypeOK, Kept
  <2>3. \A h \in Clicks : /\ click'[h].form = click[h].form
                          /\ click[h] = IdleClick => click'[h] = IdleClick
    <3> TAKE h \in Clicks
    <3>1. click[h] \in Submissions /\ click'[h] = [click[h] EXCEPT !.fresh = FALSE]
      BY <1>1 DEF Exit, Stale, Inv, TypeOK, Submissions
    <3> QED BY <3>1, IdleTypes DEF Submissions
  <2>4. OneAtATime'
    BY <2>1, <2>2, <2>3 DEF Hinting, OneAtATime
  <2> QED BY <2>1, <2>4 DEF Hinting, HintHolds
<1>2. CASE Crash
  <2>1. /\ forms' = forms
        /\ \A h \in Clicks : click'[h] = IdleClick
        /\ \A u \in Tasks : ~WillLook(u)' /\ task'[u].pc = "idle"
    BY <1>2, IdleTypes DEF Crash, WillLook
  <2> QED BY <2>1 DEF Hinting, OneAtATime, HintHolds
<1>3. CASE UNCHANGED vars
  BY <1>3 DEF vars, Hinting, OneAtATime, HintHolds, WillLook, Exhausted, Saved
<1> QED BY <1>1, <1>2, <1>3, StepCases, SlashHinting, PlainHinting, StageHinting,
           AcknowledgeHinting, SubmitHinting, ServeHinting

\* When the hint "Your answers are saved" is posted it is true, as long as one submission
\* of the thread's forms is handled at a time; whatever fails, and whoever else writes.
THEOREM TheHintIsTrue ==
    ASSUME \A g, h \in Clicks : g = h
    PROVE  Spec => HintIsTrue
<1>1. Init => Acknowledged
  BY IdleTypes, NewStateFields DEF Init, Acknowledged, FormsAgree, TypedIsShown, ClickAwaited,
     ThankedKept, NobodyThanked, NoSession
<1>2. Init => Hinting
  BY IdleTypes DEF Init, Hinting, OneAtATime, HintHolds, WillLook
<1>3. Inv /\ Acknowledged /\ [Next]_vars => Acknowledged'
  BY AcknowledgedStep
<1>4. Inv /\ Acknowledged /\ Hinting /\ [Next]_vars => Hinting'
  BY HintingStep
<1>5. ASSUME Hinting, NEW t \in Tasks, PostText(t), Exhausted(t), sess.active = "rfi"
      PROVE  \A q \in thanked : Saved(q)
  BY <1>5 DEF Hinting, OneAtATime, HintHolds, PostText
<1>6. Hinting /\ [Next]_vars =>
         [\A t \in Tasks :
             PostText(t) /\ Exhausted(t) /\ sess.active = "rfi" => \A q \in thanked : Saved(q)]_vars
  BY <1>5
<1> QED BY <1>1, <1>2, <1>3, <1>4, <1>6, Invariance, PTL DEF Spec, HintIsTrue

-------------------------------------------------------------------------------
\* The response file

\* A set of numbers that holds 0 and the successor of each of its members holds all.
LEMMA Induction ==
    ASSUME NEW S, 0 \in S, \A n \in Nat : n \in S => n + 1 \in S
    PROVE  Nat \subseteq S
<1> SUFFICES ASSUME Nat \ S # {}
             PROVE  FALSE
  OBVIOUS
<1> DEFINE R == {p \in Nat \X Nat : p[1] < p[2]}
<1>1. OpToRel(<, Nat) = R
  BY Zenon DEF OpToRel
<1>2. IsWellFoundedOn(R, Nat)
  BY <1>1, NatLessThanWellFounded
<1> HIDE DEF R
<1>3. PICK n \in Nat \ S : \A m \in Nat \ S : <<m, n>> \notin R
  BY <1>2, WFMin
<1>4. n - 1 \in Nat /\ n - 1 \in S
  <2>1. n - 1 \in Nat
    BY <1>3
  <2>2. PICK p : p = <<n - 1, n>>
    OBVIOUS
  <2>3. p \in R
    BY <1>3, <2>1, <2>2 DEF R
  <2> QED BY <1>3, <2>1, <2>2, <2>3
<1> QED BY <1>3, <1>4

Units == [own : Nat, answer : Nat]
Documents == [cells : [Cells -> Nat], paras : Seq(Units)]
Count == Cardinality(Questions)

LEMMA QuestionNumbers == Count \in Nat /\ Questions = 1 .. Count
BY DocumentAssumption, FS_CardinalityType DEF Count

\* t is s with one more paragraph, u, at a place.
Grown(s, t, at, u) ==
    /\ t \in Seq(Units) /\ Len(t) = Len(s) + 1
    /\ t[at] = u
    /\ \A i \in 1 .. at - 1 : t[i] = s[i]
    /\ \A i \in at .. Len(s) : t[i + 1] = s[i]

LEMMA InsertGrows ==
    ASSUME NEW s \in Seq(Units), NEW u \in Units, NEW at \in 1 .. Len(s) + 1
    PROVE  Grown(s, InsertAt(s, at, u), at, u)
<1>1. PICK n, pre, post, one : n = Len(s) /\ pre = SubSeq(s, 1, at - 1)
                               /\ post = SubSeq(s, at, n) /\ one = <<u>>
  OBVIOUS
<1>2. n \in Nat /\ at \in Int /\ at >= 1 /\ at <= n + 1 /\ \A i \in 1 .. n : s[i] \in Units
  BY <1>1, LenProperties, ElementOfSeq
<1>3. pre \in Seq(Units) /\ Len(pre) = at - 1 /\ \A i \in 1 .. at - 1 : pre[i] = s[i]
  <2>1. PICK m : m = at - 1
    OBVIOUS
  <2>2. m \in Int /\ m >= 0 /\ \A i \in 1 .. m : s[i] \in Units
    BY <1>2, <2>1
  <2>3. /\ SubSeq(s, 1, m) \in Seq(Units) /\ Len(SubSeq(s, 1, m)) = IF 1 <= m THEN m - 1 + 1 ELSE 0
        /\ \A i \in 1 .. m - 1 + 1 : SubSeq(s, 1, m)[i] = s[1 + i - 1]
    BY <2>2, SubSeqProperties
  <2>4. m - 1 + 1 = m /\ \A i \in 1 .. m : 1 + i - 1 = i
    BY <2>2
  <2> QED BY <1>1, <2>1, <2>2, <2>3, <2>4
<1>4. post \in Seq(Units) /\ Len(post) = n + 1 - at /\ \A i \in 1 .. n + 1 - at : post[i] = s[at + i - 1]
  <2>1. \A i \in at .. n : s[i] \in Units
    BY <1>2
  <2>2. /\ SubSeq(s, at, n) \in Seq(Units) /\ Len(SubSeq(s, at, n)) = IF at <= n THEN n - at + 1 ELSE 0
        /\ \A i \in 1 .. n - at + 1 : SubSeq(s, at, n)[i] = s[at + i - 1]
    BY <1>2, <2>1, SubSeqProperties
  <2>3. n - at + 1 = n + 1 - at /\ (~(at <= n) => n + 1 - at = 0)
    BY <1>2
  <2> QED BY <1>1, <1>2, <2>2, <2>3
<1>5. one \in Seq(Units) /\ Len(one) = 1 /\ one[1] = u
  BY <1>1
<1>6. PICK a : a = pre \o one
  OBVIOUS
<1>7. /\ a \in Seq(Units) /\ Len(a) = at
      /\ \A i \in 1 .. at : a[i] = IF i <= at - 1 THEN pre[i] ELSE one[i - (at - 1)]
  <2>1. /\ pre \o one \in Seq(Units) /\ Len(pre \o one) = Len(pre) + Len(one)
        /\ \A i \in 1 .. Len(pre) + Len(one) :
              (pre \o one)[i] = IF i <= Len(pre) THEN pre[i] ELSE one[i - Len(pre)]
    BY <1>3, <1>5, ConcatProperties
  <2>2. Len(pre) + Len(one) = at
    BY <1>2, <1>3, <1>5
  <2> QED BY <1>3, <1>6, <2>1, <2>2
<1>8. PICK t : t = a \o post
  OBVIOUS
<1>9. /\ t \in Seq(Units) /\ Len(t) = n + 1
      /\ \A i \in 1 .. n + 1 : t[i] = IF i <= at THEN a[i] ELSE post[i - at]
  <2>1. /\ a \o post \in Seq(Units) /\ Len(a \o post) = Len(a) + Len(post)
        /\ \A i \in 1 .. Len(a) + Len(post) :
              (a \o post)[i] = IF i <= Len(a) THEN a[i] ELSE post[i - Len(a)]
    BY <1>4, <1>7, ConcatProperties
  <2>2. Len(a) + Len(post) = n + 1
    BY <1>2, <1>4, <1>7
  <2> QED BY <1>7, <1>8, <2>1, <2>2
<1>10. t[at] = u
  <2>1. at \in 1 .. n + 1 /\ at \in 1 .. at /\ at <= at /\ ~(at <= at - 1) /\ at - (at - 1) = 1
    BY <1>2
  <2> QED BY <1>5, <1>7, <1>9, <2>1
<1>11. ASSUME NEW i \in 1 .. at - 1
       PROVE  t[i] = s[i]
  <2>1. i \in 1 .. n + 1 /\ i \in 1 .. at /\ i <= at /\ i <= at - 1
    BY <1>2
  <2> QED BY <1>3, <1>7, <1>9, <2>1
<1>12. ASSUME NEW i \in at .. n
       PROVE  t[i + 1] = s[i]
  <2>1. PICK j, k : j = i + 1 /\ k = j - at
    OBVIOUS
  <2>2. j \in 1 .. n + 1 /\ ~(j <= at) /\ k \in 1 .. n + 1 - at /\ at + k - 1 = i
    BY <1>2, <2>1
  <2>3. t[j] = post[k] /\ post[k] = s[at + k - 1]
    BY <1>4, <1>9, <2>1, <2>2
  <2> QED BY <2>1, <2>2, <2>3
<1>13. t = InsertAt(s, at, u)
  BY <1>1, <1>6, <1>8 DEF InsertAt
<1> QED BY <1>1, <1>9, <1>10, <1>11, <1>12, <1>13 DEF Grown

\* An answer that is put in keeps the customer's text.
LEMMA GrownKeepsText ==
    ASSUME NEW s \in Seq(Units), NEW t, NEW at \in 1 .. Len(s) + 1, NEW u \in Units,
           u.answer # Own, Grown(s, t, at, u), TextKept(s)
    PROVE  TextKept(t)
<1>1. PICK n : n = Len(s)
  OBVIOUS
<1>2. n \in Nat /\ DOMAIN s = 1 .. n /\ at \in Int /\ at >= 1 /\ at <= n + 1
  BY <1>1, LenProperties
<1>3. t \in Seq(Units) /\ DOMAIN t = 1 .. n + 1 /\ Len(t) = n + 1
  BY <1>1, LenProperties DEF Grown
<1>4. ASSUME NEW i \in 1 .. n
      PROVE  \E j \in 1 .. n + 1 : t[j] = s[i]
  <2>1. CASE i < at
    <3>1. i \in 1 .. at - 1 /\ i \in 1 .. n + 1
      BY <1>2, <2>1
    <3> QED BY <3>1 DEF Grown
  <2>2. CASE ~(i < at)
    <3>1. i \in at .. n /\ i + 1 \in 1 .. n + 1
      BY <1>2, <2>2
    <3> QED BY <1>1, <3>1 DEF Grown
  <2> QED BY <2>1, <2>2
<1>5. ASSUME NEW j \in 1 .. n + 1, t[j].answer = Own
      PROVE  /\ j < at => j \in 1 .. n /\ t[j] = s[j]
             /\ ~(j < at) => j - 1 \in at .. n /\ j - 1 \in 1 .. n /\ t[j] = s[j - 1]
  <2>1. j # at
    BY <1>5 DEF Grown
  <2>2. CASE j < at
    <3>1. j \in 1 .. at - 1 /\ j \in 1 .. n
      BY <1>2, <2>2
    <3> QED BY <2>2, <3>1 DEF Grown
  <2>3. CASE ~(j < at)
    <3>1. j - 1 \in at .. n /\ j - 1 \in 1 .. n /\ (j - 1) + 1 = j
      BY <1>2, <2>1, <2>3
    <3>2. t[(j - 1) + 1] = s[j - 1]
      BY <1>1, <3>1 DEF Grown
    <3> QED BY <2>3, <3>1, <3>2
  <2> QED BY <2>2, <2>3
<1>6. {p \in ToSet(t) : p.answer = Own} = {p \in ToSet(s) : p.answer = Own}
  <2>1. \A p : p \in ToSet(s) <=> \E i \in 1 .. n : p = s[i]
    BY <1>2 DEF ToSet
  <2>2. \A p : p \in ToSet(t) <=> \E j \in 1 .. n + 1 : p = t[j]
    BY <1>3 DEF ToSet
  <2>3. ASSUME NEW p, p \in ToSet(s)
        PROVE  p \in ToSet(t)
    BY <1>4, <2>1, <2>2, <2>3
  <2>4. ASSUME NEW p, p \in ToSet(t), p.answer = Own
        PROVE  p \in ToSet(s)
    <3>1. PICK j \in 1 .. n + 1 : p = t[j]
      BY <2>2, <2>4
    <3>2. \E i \in 1 .. n : t[j] = s[i]
      BY <1>5, <2>4, <3>1
    <3> QED BY <2>1, <3>1, <3>2
  <2> QED BY <2>3, <2>4
<1>7. ASSUME NEW i \in 1 .. Len(t), NEW j \in 1 .. Len(t), i < j,
             t[i].answer = Own, t[j].answer = Own
      PROVE  t[i].own < t[j].own
  <2>1. i \in 1 .. n + 1 /\ j \in 1 .. n + 1 /\ i \in Int /\ j \in Int
    BY <1>2, <1>3
  <2>2. PICK a : a = IF i < at THEN i ELSE i - 1
    OBVIOUS
  <2>3. PICK b : b = IF j < at THEN j ELSE j - 1
    OBVIOUS
  <2>4. a \in 1 .. n /\ t[i] = s[a]
    BY <1>5, <1>7, <2>1, <2>2
  <2>5. b \in 1 .. n /\ t[j] = s[b]
    BY <1>5, <1>7, <2>1, <2>3
  <2>6. i # at /\ j # at
    BY <1>7 DEF Grown
  <2>7. a < b
    <3>1. i < j /\ at \in Int
      BY <1>2, <1>7
    <3> QED BY <2>1, <2>2, <2>3, <2>6, <3>1
  <2>8. \A x, y \in 1 .. n : x < y /\ s[x].answer = Own /\ s[y].answer = Own => s[x].own < s[y].own
    BY <1>1 DEF TextKept
  <2> QED BY <1>7, <2>4, <2>5, <2>7, <2>8
<1> QED BY <1>6, <1>7 DEF TextKept

\* What holds of the document once the first n questions have had their turn.
Placing(d, anchors, content, n) ==
    /\ d \in Documents /\ Len(d.paras) >= Paragraphs /\ TextKept(d.paras)
    /\ \A q \in Payload(content) :
          /\ q <= n /\ anchors[q][1] = "cell"
          /\ \A r \in Payload(content) : q < r /\ r <= n => anchors[r] # anchors[q]
          => d.cells[anchors[q][2]] = q
    /\ Upwards(anchors, content) =>
          /\ \A i \in 1 .. Paragraphs :
                (\A q \in Payload(content) :
                    q <= n /\ anchors[q][1] = "para" => i <= anchors[q][2] + 1)
                => d.paras[i].own = i
          /\ \A q \in Payload(content) :
                q <= n /\ anchors[q][1] = "para" /\ anchors[q][2] < Paragraphs =>
                   Follows(d.paras, q, anchors[q][2] + 1)

\* f gives the document after the turn of each of the first n questions.
Turns(f, anchors, content, n) ==
    f = [k \in 0 .. n |-> IF k = 0 THEN Template ELSE Turn(f[k - 1], anchors, content, k)]

LEMMA TemplatePlacing ==
    ASSUME NEW anchors, NEW content
    PROVE  Placing(Template, anchors, content, 0)
<1>1. PICK s : s = Template.paras
  OBVIOUS
<1>2. s = [i \in 1 .. Paragraphs |-> [own |-> i, answer |-> Own]]
  BY <1>1 DEF Template
<1>3. Paragraphs \in Nat
  BY DocumentAssumption
<1>4. s \in Seq(Units) /\ Len(s) = Paragraphs
  <2>1. s \in [1 .. Paragraphs -> Units]
    BY <1>2 DEF Units, Own
  <2> QED BY <1>2, <1>3, <2>1
<1>5. Template.cells = [c \in Cells |-> Own]
  BY DEF Template
<1>6. Template \in Documents
  <2>1. Template = [cells |-> [c \in Cells |-> Own], paras |-> s]
    BY <1>2 DEF Template
  <2> QED BY <1>4, <2>1 DEF Documents, Own
<1>7. TextKept(s)
  <2>1. \A p \in ToSet(s) : p.answer = Own
    BY <1>2 DEF ToSet
  <2>2. {p \in ToSet(s) : p.answer = Own} = ToSet(s)
    BY <2>1
  <2>3. \A i \in 1 .. Len(s) : s[i].own = i
    BY <1>2, <1>4
  <2> QED BY <1>1, <2>2, <2>3 DEF TextKept
<1>8. \A q \in Payload(content) : ~(q <= 0)
  <2>1. \A q \in Payload(content) : q \in 1 .. Count /\ Count \in Nat
    BY QuestionNumbers DEF Payload
  <2> QED BY <2>1
<1>9. \A i \in 1 .. Paragraphs : s[i].own = i
  BY <1>2
<1>10. Len(s) >= Paragraphs
  BY <1>3, <1>4
<1> QED BY <1>1, <1>6, <1>7, <1>8, <1>9, <1>10 DEF Placing

LEMMA ResponseTurns ==
    ASSUME NEW anchors, NEW content
    PROVE  \E f : Turns(f, anchors, content, Count) /\ Response(anchors, content) = f[Count]
<1> DEFINE S == {n \in Nat : \E f : Turns(f, anchors, content, n)}
<1>1. 0 \in S
  <2>1. PICK f : f = [k \in 0 .. 0 |-> Template]
    OBVIOUS
  <2>2. Turns(f, anchors, content, 0)
    BY <2>1 DEF Turns
  <2> QED BY <2>2
<1>2. ASSUME NEW n \in Nat, n \in S
      PROVE  n + 1 \in S
  <2>1. PICK f : Turns(f, anchors, content, n)
    BY <1>2
  <2>2. PICK last : last = Turn(f[n], anchors, content, n + 1)
    OBVIOUS
  <2>3. PICK g : g = [k \in 0 .. n + 1 |-> IF k = n + 1 THEN last ELSE f[k]]
    OBVIOUS
  <2>4. ASSUME NEW k \in 0 .. n + 1
        PROVE  g[k] = IF k = 0 THEN Template ELSE Turn(g[k - 1], anchors, content, k)
    <3>1. CASE k = n + 1
      <4>1. k - 1 = n /\ k # 0 /\ g[k] = last /\ g[n] = f[n]
        BY <1>2, <2>3, <3>1
      <4> QED BY <2>2, <3>1, <4>1
    <3>2. CASE k = 0
      <4>1. g[0] = f[0] /\ 0 \in 0 .. n
        BY <1>2, <2>3
      <4>2. f[0] = Template
        BY <2>1, <4>1 DEF Turns
      <4> QED BY <3>2, <4>1, <4>2
    <3>3. CASE k \in 1 .. n
      <4>1. g[k] = f[k] /\ g[k - 1] = f[k - 1] /\ k # 0 /\ k \in 0 .. n
        BY <1>2, <2>3, <3>3
      <4>2. f[k] = IF k = 0 THEN Template ELSE Turn(f[k - 1], anchors, content, k)
        BY <2>1, <4>1 DEF Turns
      <4> QED BY <4>1, <4>2
    <3> QED BY <1>2, <3>1, <3>2, <3>3
  <2>5. Turns(g, anchors, content, n + 1)
    BY <2>3, <2>4 DEF Turns
  <2> QED BY <1>2, <2>5
<1>3. Nat \subseteq S
  <2> HIDE DEF S
  <2> QED BY <1>1, <1>2, Induction
<1>4. \E f : Turns(f, anchors, content, Count)
  BY <1>3, QuestionNumbers
<1>5. Response(anchors, content) = (CHOOSE f : Turns(f, anchors, content, Count))[Count]
  BY DEF Response, Turns, Count
<1> QED BY <1>4, <1>5

\* A question without an answer to place changes nothing.
LEMMA NotPlacing ==
    ASSUME NEW anchors, NEW content, NEW n \in Nat, n + 1 \notin Payload(content), NEW d,
           Placing(d, anchors, content, n)
    PROVE  Placing(d, anchors, content, n + 1)
<1>1. \A q \in Payload(content) : q <= n + 1 => q <= n
  <2>1. \A q \in Payload(content) : q \in Int /\ q # n + 1
    BY QuestionNumbers DEF Payload
  <2> QED BY <2>1
<1>2. \A q \in Payload(content) : q <= n => q <= n + 1
  <2>1. \A q \in Payload(content) : q \in Int
    BY QuestionNumbers DEF Payload
  <2> QED BY <2>1
<1> QED BY <1>1, <1>2 DEF Placing

\* The questions that have had their turn are the first n, and then the next.
LEMMA NextTurn ==
    ASSUME NEW content, NEW n \in Nat
    PROVE  /\ \A q \in Payload(content) : q \in Nat \ {0}
           /\ \A q \in Payload(content) : q <= n + 1 <=> q <= n \/ q = n + 1
<1>1. \A q \in Payload(content) : q \in Nat \ {0}
  BY QuestionNumbers DEF Payload
<1> QED BY <1>1

\* What the kind of an anchor says.
LEMMA AnchorKinds ==
    ASSUME NEW a \in Anchors
    PROVE  /\ a[1] = "cell" => \E c \in Cells : a = Cell(c)
           /\ a[1] = "para" => \E p \in 0 .. Paragraphs : a = Para(p)
<1>1. /\ \A c \in Cells : Cell(c)[1] = "cell"
      /\ \A p \in 0 .. Paragraphs : Para(p)[1] = "para"
      /\ Unreadable[1] = "unreadable"
  BY DEF Cell, Para, Unreadable
<1>2. CASE \E c \in Cells : a = Cell(c)
  BY <1>1, <1>2
<1>3. CASE \E p \in 0 .. Paragraphs : a = Para(p)
  BY <1>1, <1>3
<1>4. CASE a = Unreadable
  BY <1>1, <1>4
<1> QED BY <1>2, <1>3, <1>4 DEF Anchors

LEMMA PlacingInCell ==
    ASSUME NEW anchors, NEW content, NEW n \in Nat, NEW d, Placing(d, anchors, content, n),
           NEW k, k = n + 1, k \in Payload(content),
           NEW c \in Cells, anchors[k] = Cell(c),
           \A q \in Payload(content) : anchors[q] \in Anchors
    PROVE  Placing(Placed(d, anchors[k], k), anchors, content, k)
<1>1. PICK e : e = Placed(d, anchors[k], k)
  OBVIOUS
<1>2. anchors[k][1] = "cell" /\ anchors[k][2] = c
  BY DEF Cell
<1>3. e = [d EXCEPT !.cells[c] = k]
  BY <1>1, <1>2 DEF Placed
<1>4. d.cells \in [Cells -> Nat] /\ d.paras \in Seq(Units)
      /\ d = [cells |-> d.cells, paras |-> d.paras]
  BY DEF Placing, Documents
<1>5. e.paras = d.paras /\ e.cells = [d.cells EXCEPT ![c] = k] /\ e \in Documents
  <2>1. e = [cells |-> [d.cells EXCEPT ![c] = k], paras |-> d.paras]
    BY <1>3, <1>4
  <2>2. k \in Nat
    OBVIOUS
  <2> QED BY <1>4, <2>1, <2>2 DEF Documents
<1>6. \A q \in Payload(content) : q <= k <=> q <= n \/ q = k
  BY NextTurn
<1>7. ASSUME NEW q \in Payload(content), q <= k, anchors[q][1] = "cell",
             \A r \in Payload(content) : q < r /\ r <= k => anchors[r] # anchors[q]
      PROVE  e.cells[anchors[q][2]] = q
  <2>1. CASE q = k
    BY <1>2, <1>4, <1>5, <2>1
  <2>2. CASE q # k
    <3>1. q <= n /\ q < k /\ q \in Nat /\ k <= k
      BY <1>6, <1>7, <2>2, NextTurn
    <3>2. \A r \in Payload(content) : q < r /\ r <= n => anchors[r] # anchors[q]
      BY <1>6, <1>7
    <3>3. d.cells[anchors[q][2]] = q
      BY <1>7, <3>1, <3>2 DEF Placing
    <3>4. PICK b \in Cells : anchors[q] = Cell(b)
      BY <1>7, AnchorKinds
    <3>5. b # c
      BY <1>7, <3>1, <3>4
    <3> QED BY <1>4, <1>5, <3>3, <3>4, <3>5 DEF Cell
  <2> QED BY <2>1, <2>2
<1>8. anchors[k][1] # "para"
  BY <1>2
<1> QED BY <1>1, <1>5, <1>6, <1>7, <1>8 DEF Placing

LEMMA PlacingNowhere ==
    ASSUME NEW anchors, NEW content, NEW n \in Nat, NEW d, Placing(d, anchors, content, n),
           NEW k, k = n + 1, k \in Payload(content), anchors[k][1] # "cell",
           anchors[k][1] = "para" => ~(anchors[k][2] < Paragraphs)
    PROVE  Placing(d, anchors, content, k)
<1>1. \A q \in Payload(content) : q <= k <=> q <= n \/ q = k
  BY NextTurn
<1>2. \A q \in Payload(content) : q <= k /\ anchors[q][1] = "cell" => q <= n
  BY <1>1
<1>3. \A q \in Payload(content) :
         q <= k /\ anchors[q][1] = "para" /\ anchors[q][2] < Paragraphs => q <= n
  BY <1>1
<1> QED BY <1>1, <1>2, <1>3 DEF Placing

LEMMA PlacingBelow ==
    ASSUME NEW anchors, NEW content, NEW n \in Nat, NEW d, Placing(d, anchors, content, n),
           NEW k, k = n + 1, k \in Payload(content),
           NEW p \in 0 .. Paragraphs, anchors[k] = Para(p), p < Len(d.paras),
           \A q \in Payload(content) : anchors[q] \in Anchors
    PROVE  Placing(Placed(d, anchors[k], k), anchors, content, k)
<1>1. PICK e, s, t, u, at : e = Placed(d, anchors[k], k) /\ s = d.paras /\ t = e.paras
                            /\ u = AnswerPara(k) /\ at = p + 2
  OBVIOUS
<1>2. anchors[k][1] = "para" /\ anchors[k][2] = p
  BY DEF Para
<1>3. e = [d EXCEPT !.paras = InsertAt(@, at, u)]
  BY <1>1, <1>2 DEF Placed
<1>4. d.cells \in [Cells -> Nat] /\ s \in Seq(Units) /\ d = [cells |-> d.cells, paras |-> s]
  BY <1>1 DEF Placing, Documents
<1>5. t = InsertAt(s, at, u) /\ e.cells = d.cells /\ e = [cells |-> d.cells, paras |-> t]
  BY <1>1, <1>3, <1>4
<1>6. k \in Nat /\ k # 0 /\ u \in Units /\ u.answer # Own /\ u.own = 0
  BY <1>1 DEF AnswerPara, Own, Units
<1>7. Paragraphs \in Nat /\ Len(s) \in Nat /\ Paragraphs <= Len(s) /\ p \in Nat /\ p < Len(s)
  BY <1>1, <1>4, LenProperties, DocumentAssumption DEF Placing
<1>8. at \in 1 .. Len(s) + 1
  BY <1>1, <1>7
<1>9. Grown(s, t, at, u)
  BY <1>4, <1>5, <1>6, <1>8, InsertGrows
<1>10. e \in Documents /\ Len(t) = Len(s) + 1
  BY <1>4, <1>5, <1>9 DEF Grown, Documents
<1>11. TextKept(t)
  BY <1>1, <1>4, <1>6, <1>8, <1>9, GrownKeepsText DEF Placing
<1>12. \A q \in Payload(content) : q <= k <=> q <= n \/ q = k
  BY NextTurn
<1>13. ASSUME NEW q \in Payload(content), q <= k, anchors[q][1] = "cell",
              \A r \in Payload(content) : q < r /\ r <= k => anchors[r] # anchors[q]
       PROVE  e.cells[anchors[q][2]] = q
  <2>1. q <= n
    BY <1>2, <1>12, <1>13
  <2>2. \A r \in Payload(content) : q < r /\ r <= n => anchors[r] # anchors[q]
    BY <1>12, <1>13
  <2> QED BY <1>5, <1>13, <2>1, <2>2 DEF Placing
<1>14. \A i \in 1 .. p + 1 : t[i] = s[i]
  <2>1. at - 1 = p + 1
    BY <1>1, <1>7
  <2> QED BY <1>9, <2>1 DEF Grown
<1>15. ASSUME Upwards(anchors, content), NEW i \in 1 .. Paragraphs,
              \A q \in Payload(content) : q <= k /\ anchors[q][1] = "para" => i <= anchors[q][2] + 1
       PROVE  t[i].own = i
  <2>1. k <= k
    BY <1>6
  <2>2. i <= p + 1 /\ i \in 1 .. p + 1
    BY <1>2, <1>7, <1>15, <2>1
  <2>3. \A q \in Payload(content) : q <= n /\ anchors[q][1] = "para" => i <= anchors[q][2] + 1
    BY <1>12, <1>15
  <2>4. s[i].own = i
    BY <1>1, <1>15, <2>3 DEF Placing
  <2> QED BY <1>14, <2>2, <2>4
<1>16. ASSUME Upwards(anchors, content), NEW q \in Payload(content), q <= n,
              anchors[q][1] = "para"
       PROVE  p < anchors[q][2] /\ anchors[q][2] \in Nat
  <2>1. q < k
    <3>1. q \in Nat /\ q <= n
      BY <1>16, NextTurn
    <3> QED BY <3>1
  <2>2. anchors[k][2] < anchors[q][2]
    BY <1>2, <1>16, <2>1 DEF Upwards
  <2>3. PICK b \in 0 .. Paragraphs : anchors[q] = Para(b)
    BY <1>16, AnchorKinds
  <2> QED BY <1>2, <2>2, <2>3 DEF Para
<1>17. ASSUME Upwards(anchors, content), NEW i \in 1 .. Paragraphs, i <= p + 1
       PROVE  s[i].own = i
  <2>1. ASSUME NEW q \in Payload(content), q <= n, anchors[q][1] = "para"
        PROVE  i <= anchors[q][2] + 1
    <3>1. p < anchors[q][2] /\ anchors[q][2] \in Nat
      BY <1>16, <1>17, <2>1
    <3> QED BY <1>7, <1>17, <3>1
  <2> QED BY <1>1, <1>17, <2>1 DEF Placing
<1>18. ASSUME Upwards(anchors, content), NEW q \in Payload(content), q <= k,
              anchors[q][1] = "para", anchors[q][2] < Paragraphs
       PROVE  Follows(t, q, anchors[q][2] + 1)
  <2>1. CASE q = k
    <3>1. p < Paragraphs /\ p + 1 \in 1 .. Paragraphs /\ p + 1 <= p + 1 /\ p + 1 \in 1 .. p + 1
      BY <1>2, <1>7, <1>18, <2>1
    <3>2. t[p + 1].own = p + 1
      BY <1>14, <1>17, <1>18, <3>1
    <3>3. t[(p + 1) + 1] = u
      <4>1. (p + 1) + 1 = at
        BY <1>1, <1>7
      <4> QED BY <1>9, <4>1 DEF Grown
    <3>4. p + 1 \in 1 .. Len(t) - 1
      BY <1>7, <1>10
    <3>5. \E i \in 1 .. Len(t) - 1 : t[i].own = p + 1 /\ t[i + 1] = AnswerPara(k)
      BY <1>1, <3>2, <3>3, <3>4
    <3> QED BY <1>2, <2>1, <3>5 DEF Follows
  <2>2. CASE q # k
    <3>1. PICK a : a = anchors[q][2]
      OBVIOUS
    <3>2. q <= n
      BY <1>12, <1>18, <2>2
    <3>3. p < a /\ a \in Nat
      BY <1>16, <1>18, <3>1, <3>2
    <3>4. Follows(s, q, a + 1)
      BY <1>1, <1>18, <3>1, <3>2 DEF Placing
    <3>5. PICK i \in 1 .. Len(s) - 1 : s[i].own = a + 1 /\ s[i + 1] = AnswerPara(q)
      BY <3>4 DEF Follows
    <3>6. i \in Nat /\ i >= 1 /\ i <= Len(s) - 1
      BY <1>7
    <3>7. p + 1 < i
      <4> SUFFICES ASSUME i <= p + 1
                   PROVE  FALSE
        BY <1>7, <3>6
      <4>1. i \in 1 .. Paragraphs
        BY <1>7, <1>18, <3>1, <3>3, <3>6
      <4>2. s[i].own = i
        BY <1>17, <1>18, <4>1
      <4> QED BY <1>7, <3>3, <3>5, <3>6, <4>2
    <3>8. i \in at .. Len(s) /\ i + 1 \in at .. Len(s) /\ i + 1 \in 1 .. Len(t) - 1
      BY <1>1, <1>7, <1>10, <3>6, <3>7
    <3>9. t[i + 1] = s[i] /\ t[(i + 1) + 1] = s[i + 1]
      BY <1>9, <3>8 DEF Grown
    <3>10. t[i + 1].own = a + 1 /\ t[(i + 1) + 1] = AnswerPara(q)
      BY <3>5, <3>9
    <3> QED BY <3>1, <3>8, <3>10 DEF Follows
  <2> QED BY <2>1, <2>2
<1>19. Len(t) >= Paragraphs
  BY <1>7, <1>10
<1> QED BY <1>1, <1>10, <1>11, <1>13, <1>15, <1>18, <1>19 DEF Placing

\* The document a turn leaves.
LEMMA PlacingTurn ==
    ASSUME NEW anchors \in [Questions -> Anchors], NEW content, NEW n \in Nat, NEW d,
           Placing(d, anchors, content, n)
    PROVE  Placing(Turn(d, anchors, content, n + 1), anchors, content, n + 1)
<1>1. PICK k, e : k = n + 1 /\ e = Turn(d, anchors, content, k)
  OBVIOUS
<1>2. \A q \in Payload(content) : anchors[q] \in Anchors
  BY DEF Payload
<1>3. CASE k \notin Payload(content)
  BY <1>1, <1>3, NotPlacing DEF Turn
<1>4. CASE k \in Payload(content)
  <2>1. e = Placed(d, anchors[k], k)
    BY <1>1, <1>4 DEF Turn
  <2>2. ASSUME NEW c \in Cells, anchors[k] = Cell(c)
        PROVE  Placing(e, anchors, content, k)
    BY <1>1, <1>2, <1>4, <2>1, <2>2, PlacingInCell
  <2>3. ASSUME NEW p \in 0 .. Paragraphs, anchors[k] = Para(p)
        PROVE  Placing(e, anchors, content, k)
    <3>1. anchors[k][1] = "para" /\ anchors[k][2] = p
      BY <2>3 DEF Para
    <3>2. CASE p < Len(d.paras)
      BY <1>1, <1>2, <1>4, <2>1, <2>3, <3>2, PlacingBelow
    <3>3. CASE ~(p < Len(d.paras))
      <4>1. e = d
        BY <2>1, <3>1, <3>3 DEF Placed
      <4>2. ~(p < Paragraphs)
        <5>1. Len(d.paras) \in Nat /\ Len(d.paras) >= Paragraphs
          BY LenProperties DEF Placing, Documents
        <5> QED BY <3>3, <5>1, DocumentAssumption
      <4> QED BY <1>1, <1>4, <3>1, <4>1, <4>2, PlacingNowhere
    <3> QED BY <3>2, <3>3
  <2>4. CASE anchors[k] = Unreadable
    <3>1. anchors[k][1] # "cell" /\ anchors[k][1] # "para"
      BY <2>4 DEF Unreadable
    <3>2. e = d
      BY <2>1, <3>1 DEF Placed
    <3> QED BY <1>1, <1>4, <3>1, <3>2, PlacingNowhere
  <2> QED BY <1>1, <1>2, <1>4, <2>2, <2>3, <2>4 DEF Anchors
<1> QED BY <1>3, <1>4

\* The response file, whatever its content and wherever its answers are to go.
LEMMA ResponsePlacing ==
    ASSUME NEW anchors \in [Questions -> Anchors], NEW content
    PROVE  Placing(Response(anchors, content), anchors, content, Count)
<1>1. PICK f : Turns(f, anchors, content, Count) /\ Response(anchors, content) = f[Count]
  BY ResponseTurns
<1> DEFINE S == {n \in Nat : n <= Count => Placing(f[n], anchors, content, n)}
<1>2. Count \in Nat
  BY QuestionNumbers
<1>3. \A k \in 0 .. Count : f[k] = IF k = 0 THEN Template ELSE Turn(f[k - 1], anchors, content, k)
  BY <1>1 DEF Turns
<1>4. 0 \in S
  <2>1. f[0] = Template
    BY <1>2, <1>3
  <2> QED BY <2>1, TemplatePlacing
<1>5. ASSUME NEW n \in Nat, n \in S
      PROVE  n + 1 \in S
  <2> SUFFICES ASSUME n + 1 <= Count
               PROVE  Placing(f[n + 1], anchors, content, n + 1)
    OBVIOUS
  <2>1. n <= Count /\ n + 1 \in 0 .. Count /\ n + 1 # 0 /\ (n + 1) - 1 = n
    BY <1>2
  <2>2. f[n + 1] = Turn(f[n], anchors, content, n + 1)
    BY <1>3, <2>1
  <2>3. Placing(f[n], anchors, content, n)
    BY <1>5, <2>1
  <2> QED BY <2>2, <2>3, PlacingTurn
<1>6. Nat \subseteq S
  <2> HIDE DEF S
  <2> QED BY <1>4, <1>5, Induction
<1>7. Placing(f[Count], anchors, content, Count)
  BY <1>2, <1>6
<1> QED BY <1>1, <1>7

\* The response file holds the customer's text unchanged and in order, each answer
\* anchored at a cell in that cell, and, when they are written from the last to the
\* first, each anchored at a paragraph right after it (tools/rfi/docx.py:50-77).
THEOREM AnswersAreInPlace == Spec => []AnsweredInPlace
<1>1. AnsweredInPlace
  <2> SUFFICES ASSUME NEW m \in Files, drive[m] # NoFile, NEW anchors \in [Questions -> Anchors],
                      NEW content, content = drive[m],
                      NEW filed, filed = Response(anchors, content)
               PROVE  /\ TextKept(filed.paras)
                      /\ \A q \in Payload(content) :
                            /\ LastInCell(q, anchors, content) => filed.cells[anchors[q][2]] = q
                            /\ /\ Upwards(anchors, content)
                               /\ anchors[q][1] = "para" /\ anchors[q][2] < Paragraphs
                               => Follows(filed.paras, q, anchors[q][2] + 1)
    BY DEF AnsweredInPlace
  <2>1. Placing(filed, anchors, content, Count)
    BY ResponsePlacing
  <2>2. \A q \in Payload(content) : q <= Count /\ q \in Nat
    BY QuestionNumbers DEF Payload
  <2>3. ASSUME NEW q \in Payload(content), LastInCell(q, anchors, content)
        PROVE  filed.cells[anchors[q][2]] = q
    BY <2>1, <2>2, <2>3 DEF Placing, LastInCell
  <2>4. ASSUME NEW q \in Payload(content), Upwards(anchors, content),
               anchors[q][1] = "para", anchors[q][2] < Paragraphs
        PROVE  Follows(filed.paras, q, anchors[q][2] + 1)
    BY <2>1, <2>2, <2>4 DEF Placing
  <2>5. TextKept(filed.paras)
    BY <2>1 DEF Placing
  <2> QED BY <2>3, <2>4, <2>5
<1> QED BY <1>1, PTL

================================================================================
