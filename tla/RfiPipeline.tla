------------------------------ MODULE RfiPipeline ------------------------------
(***************************************************************************)
(* The /rfi pipeline of workflows/rfi_engine as functions of the session   *)
(* state: what each stage writes for the state it sees, whatever runs it.  *)
(***************************************************************************)
CONSTANT Questions      \* the questions of the customer's document, by number

\* RFI_ANSWERS: who answered each question.  An entry flagged needs_human may be
\* empty, a "gap", or carry a "draft" the research was not sure of.
NoAnswers == [q \in {} |-> "ai"]
Found == {"ai", "draft", "gap"}
Answers == [Questions -> Found \cup {"human"}]

\* The keys of a session the workflow reads.  A thread without a session reads
\* like an empty state (post_rfi_result and the resume loop use {} for it).
States ==
    [active: {"none", "default", "rfi"},            \* active_workflow_id
     file: BOOLEAN,                                  \* RFI_FILE_ID
     questions: {"unparsed", "empty", "found"},      \* RFI_QUESTIONS
     guidance: {"none", "PENDING", "RESOLVED"},      \* RFI_GUIDANCE(_STATE)
     answers: Answers \cup {NoAnswers},              \* RFI_ANSWERS
     gap: {"none", "PENDING", "RESOLVED", "SKIPPED"},\* RFI_GAP_STATE
     done: BOOLEAN]                                  \* marker in RFI_ASSEMBLY_STATUS

NewState(workflow) ==
    [active |-> workflow, file |-> FALSE, questions |-> "unparsed", guidance |-> "none",
     answers |-> NoAnswers, gap |-> "none", done |-> FALSE]

NoSession == NewState("none")

HasQuestions(s) == s.questions = "found"

\* The answers flagged needs_human.
Gaps(s) == {q \in DOMAIN s.answers : s.answers[q] \in {"draft", "gap"}}

FormsPending(s) == s.guidance = "PENDING" \/ s.gap = "PENDING"

\* Each stage yields one event; its state_delta is a record of the keys it sets.
NoDelta == [k \in {} |-> "none"]

Applied(s, delta) == [k \in DOMAIN s |-> IF k \in DOMAIN delta THEN delta[k] ELSE s[k]]

\* rfi_parser: an empty question set is stored too, and is not parsed again (the
\* skip writes the stored set back); without a file there is nothing to extract.
Parsed(s) ==
    {[questions |-> found] :
        found \in CASE s.questions # "unparsed" -> {s.questions}
                    [] s.questions = "unparsed" /\ s.file -> {"empty", "found"}
                    [] OTHER -> {"empty"}}

GuidanceGated(s) ==
    IF HasQuestions(s) /\ s.guidance # "RESOLVED" THEN [guidance |-> "PENDING"] ELSE NoDelta

ResearchDue(s) == s.guidance # "PENDING" /\ HasQuestions(s) /\ s.answers = NoAnswers

\* Slips: research that runs again over answers, and one that keeps only the
\* questions its batches returned an answer for.
ResearchedAgain(s) ==
    IF s.guidance = "PENDING" \/ ~HasQuestions(s) THEN {NoDelta}
    ELSE {[answers |-> found] : found \in [Questions -> Found]}
ResearchedPartly(s) ==
    IF ~ResearchDue(s) THEN {NoDelta}
    ELSE {[answers |-> found] : found \in UNION {[some -> Found] : some \in SUBSET Questions}}

\* Every question gets an entry, whatever its batch returned: an answer or a gap.
Researched(s) ==
    IF ~ResearchDue(s) THEN {NoDelta}
    ELSE {[answers |-> found] : found \in [Questions -> Found]}

\* A slip: a resume is taken for proof that the form was answered.
GapGatedOnce(s) ==
    IF s.guidance = "PENDING" \/ s.answers = NoAnswers THEN NoDelta
    ELSE [gap |-> IF Gaps(s) = {} \/ s.gap = "PENDING" THEN "SKIPPED" ELSE "PENDING"]

GapGated(s) ==
    IF \/ s.guidance = "PENDING"
       \/ s.answers = NoAnswers
       \/ s.gap \in {"RESOLVED", "SKIPPED"}
    THEN NoDelta
    ELSE [gap |-> IF Gaps(s) = {} THEN "SKIPPED" ELSE "PENDING"]

\* Slips: an assembler without its guard, and one that looks at one form only.
ReadyUnguarded(s) == HasQuestions(s) /\ ~s.done
ReadyOnceScoped(s) == s.guidance # "PENDING" /\ HasQuestions(s) /\ ~s.done

\* The guarded assembler reaches fill_rfi_answers only from such a state.
ReadyToFill(s) == ~FormsPending(s) /\ HasQuestions(s) /\ ~s.done

\* A slip: gaps are written out as they stand.
FilledRaw(s) == s.answers

\* What fill_rfi_answers writes into the template.
Filled(s) ==
    [q \in Questions |->
        IF q \in DOMAIN s.answers /\ s.answers[q] # "gap" THEN s.answers[q] ELSE "blank"]

\* The scope form: the answers and the gap state are reset with the guidance.
WithGuidance == [guidance |-> "RESOLVED", answers |-> NoAnswers, gap |-> "none"]

\* A slip: the text is stored, the flag needs_human stays.
WithDraftAnswers(s, typed) ==
    [answers |-> [q \in DOMAIN s.answers |-> IF q \in typed THEN "draft" ELSE s.answers[q]],
     gap |-> "RESOLVED"]

\* The gap form: only the questions the person typed an answer for are answered.
WithGapAnswers(s, typed) ==
    [answers |-> [q \in DOMAIN s.answers |-> IF q \in typed THEN "human" ELSE s.answers[q]],
     gap |-> "RESOLVED"]

\* _rfi_assembly_failed(): the run should have written the file and did not.
AssemblyFailed(s) == HasQuestions(s) /\ ~FormsPending(s) /\ ~s.done
================================================================================
