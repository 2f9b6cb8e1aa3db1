---------------------------- MODULE MeetingPipeline ----------------------------
(***************************************************************************)
(* The /meeting pipeline of workflows/meeting_engine as functions of the   *)
(* session state: what each stage writes for the state it sees.            *)
(***************************************************************************)
EXTENDS Naturals

CONSTANT Items      \* the action items of the transcript, by number

\* An owner or a due date is missing, found by the parser, or typed in the form.
Values == {"none", "found", "typed"}
Details == [owner: Values, due: Values]
Fields == {"owner", "due"}

NoItems == [i \in {} |-> "none"]
ItemLists == UNION {[some -> Details] : some \in SUBSET Items}

\* MTG_PARSED; sourced: every item and decision names its source.
Unparsed == [known |-> FALSE, sourced |-> FALSE, items |-> NoItems]
ParsesFrom(values) ==
    [known: {TRUE}, sourced: BOOLEAN,
     items: UNION {[some -> [owner: values, due: values]] : some \in SUBSET Items}]

\* The keys of a session the workflow reads; a thread without one reads like an
\* empty state.  (MTG_NOTES_DOC is prose nothing decides on, and is left out.)
States ==
    [active: {"none", "default", "meeting"},           \* active_workflow_id
     parsed: ParsesFrom(Values) \cup {Unparsed},        \* MTG_PARSED
     verdict: {"none", "complete", "incomplete"},       \* MTG_GATE_VERDICT, owners and dates
     failed: BOOLEAN,                                   \* MTG_GATE_FAILED
     gate: {"none", "PENDING", "RESOLVED"},             \* MTG_OWNER_GATE_STATE
     artifacts: ItemLists,                              \* MTG_EMAIL_DRAFTS, _HOLDS, _ROWS
     reminders: SUBSET Items,                           \* MTG_CALENDAR_EVENT_IDS
     done: BOOLEAN]                                     \* marker in MTG_ASSEMBLY_STATUS

NewState(workflow) ==
    [active |-> workflow, parsed |-> Unparsed, verdict |-> "none", failed |-> FALSE,
     gate |-> "none", artifacts |-> NoItems, reminders |-> {}, done |-> FALSE]

NoSession == NewState("none")

\* Each stage yields one event; its state_delta is a record of the keys it sets.
NoDelta == [k \in {} |-> "none"]

Applied(s, delta) == [k \in DOMAIN s |-> IF k \in DOMAIN delta THEN delta[k] ELSE s[k]]

Incomplete(items) == {i \in DOMAIN items : \E f \in Fields : items[i][f] = "none"}

\* meeting_parser: a stored parse is written back, else the LLM reads the
\* transcript; a reply that is no parse stores none.
Parsed(s) ==
    IF s.parsed.known THEN {[parsed |-> s.parsed]}
    ELSE {[parsed |-> p] : p \in ParsesFrom({"none", "found"})} \cup {NoDelta}

\* A slip: a check of the owners only.
GatedByOwner(s) ==
    [verdict |-> IF \/ ~s.parsed.known
                    \/ \E i \in DOMAIN s.parsed.items : s.parsed.items[i].owner = "none"
                 THEN "incomplete" ELSE "complete",
     failed  |-> ~s.parsed.known \/ ~s.parsed.sourced]

\* meeting_gate: missing owners and dates are warnings, missing sources block, and
\* without a parse every one of these checks blocks.
Gated(s) ==
    [verdict |-> IF ~s.parsed.known \/ Incomplete(s.parsed.items) # {}
                 THEN "incomplete" ELSE "complete",
     failed  |-> ~s.parsed.known \/ ~s.parsed.sourced]

\* A slip: the form is asked for again after it was submitted.
OwnerGatedAgain(s) == IF s.verdict = "incomplete" THEN [gate |-> "PENDING"] ELSE NoDelta

\* owner_assignment_gate: nothing ever takes a PENDING back but the form.
OwnerGated(s) ==
    IF s.gate # "RESOLVED" /\ s.verdict = "incomplete" THEN [gate |-> "PENDING"] ELSE NoDelta

\* meeting_fan_out_compute: drafts, holds and rows of the parse as it stands.
FannedOut(s) == IF s.parsed.known THEN [artifacts |-> s.parsed.items] ELSE NoDelta

\* The holds: one for every item with a due date.
Holds(s) == {i \in DOMAIN s.artifacts : s.artifacts[i].due # "none"}

\* A slip: reminders for a blocked meeting.
RemindersDueBlocked(s) ==
    IF s.gate = "PENDING" \/ s.reminders # {} THEN {} ELSE Holds(s)

\* The reminders meeting_calendar_creator goes on to create.
RemindersDue(s) ==
    IF s.gate = "PENDING" \/ s.failed \/ s.reminders # {} THEN {} ELSE Holds(s)

\* It returns without an event of its own when it has no hold to create.
SaysNothing(s) == ~s.failed /\ s.reminders = {} /\ Holds(s) = {}

\* The assembler's MODE E: the only one in which it calls tools.
CreatesArtifacts(s) == s.gate # "PENDING" /\ ~s.failed /\ ~s.done

WithTyped(items, typed) ==
    [i \in DOMAIN items |->
        [f \in Fields |-> IF <<i, f>> \in typed THEN "typed" ELSE items[i][f]]]

\* The owner form: the parse is patched in place, and what was derived from it reset.
Assigned(s, typed) ==
    [parsed    |-> [s.parsed EXCEPT !.items = WithTyped(@, typed)],
     gate      |-> "RESOLVED",
     verdict   |-> "none",
     failed    |-> FALSE,
     artifacts |-> NoItems,
     done      |-> FALSE]
================================================================================
