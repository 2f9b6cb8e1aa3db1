------------------------------ MODULE IqPipeline ------------------------------
(***************************************************************************)
(* The /iq pipeline of workflows/iq_engine as functions of the session     *)
(* state: what each stage writes for the state it sees.                    *)
(***************************************************************************)
EXTENDS Naturals

CONSTANTS
    Tailorings,   \* what may be chosen in the tailoring form, other than to skip it
    MaxDocs       \* bound on the dossiers copied for one thread

\* IQ_TAILOR: a skipped form stores an empty tailoring, which steers like none.
Choices == Tailorings \cup {"skip"}
Lenses == Tailorings \cup {"defaults"}
Lens(tailor) == IF tailor \in Tailorings THEN tailor ELSE "defaults"

\* IQ_RESEARCH: the lens that steered the research, and whether the state named
\* the company.  IQ_PROFILE: the same of the brief it was made from, if there was
\* one, and the lens that steered the structuring.
NoBrief == [lens |-> "none", named |-> FALSE]
Briefs == [lens: Lenses, named: BOOLEAN]
NoProfile == [lens |-> "none", framing |-> "none", named |-> FALSE]
Profiles == [lens: Lenses \cup {"none"}, framing: Lenses, named: BOOLEAN]

\* The keys of a session the workflow reads; a thread without one reads like an
\* empty state.
States ==
    [active: {"none", "default", "iq"},                \* active_workflow_id
     company: BOOLEAN,                                 \* IQ_COMPANY_NAME is there
     tailor: Choices \cup {"none"},                    \* IQ_TAILOR
     gate: {"none", "PENDING", "RESOLVED"},            \* IQ_TAILOR_STATE
     brief: Briefs \cup {NoBrief},                     \* IQ_RESEARCH
     profile: Profiles \cup {NoProfile},               \* IQ_PROFILE
     done: BOOLEAN,                                    \* marker in IQ_ASSEMBLY_STATUS
     link: 0 .. MaxDocs]                               \* IQ_FILLED_LINK

NewState(workflow) ==
    [active |-> workflow, company |-> FALSE, tailor |-> "none", gate |-> "none",
     brief |-> NoBrief, profile |-> NoProfile, done |-> FALSE, link |-> 0]

NoSession == NewState("none")

\* Each stage yields one event; its state_delta is a record of the keys it sets.
NoDelta == [k \in {} |-> "none"]

Applied(s, delta) == [k \in DOMAIN s |-> IF k \in DOMAIN delta THEN delta[k] ELSE s[k]]

\* A slip: the form is asked for again on every run of a thread without a dossier.
TailorGatedAgain(s) == IF s.done THEN NoDelta ELSE [gate |-> "PENDING"]

\* iq_tailor_gate: a submitted form and a completed dossier pass through.
TailorGated(s) ==
    IF s.gate = "RESOLVED" \/ s.done THEN NoDelta ELSE [gate |-> "PENDING"]

\* A slip: the research goes on without the form.
NeverPending(s) == FALSE

\* _tailoring_pending: the research, the structuring and the assembler are skipped.
TailoringPending(s) == s.gate = "PENDING"

\* iq_research, for the company and under the tailoring the state holds.
Researched(s) == [brief |-> [lens |-> Lens(s.tailor), named |-> s.company]]

\* iq_structurer, from the brief and under the tailoring; without a brief it
\* structures the remark that there is none.
Structured(s) ==
    [profile |-> [lens |-> s.brief.lens, framing |-> Lens(s.tailor), named |-> s.brief.named]]

\* A slip: a completed thread gets another dossier.
CopiesAgain(s) == s.profile # NoProfile

\* iq_assembler copies the template: not twice, and not without a profile.
Copies(s) == ~s.done /\ s.profile # NoProfile

\* A slip: the choice goes in an event of its own, and is lost.
TailoredGateOnly(choice) == [gate |-> "RESOLVED"]

\* The tailoring form: what was chosen, and the gate.
Tailored(choice) == [tailor |-> choice, gate |-> "RESOLVED"]
===============================================================================
