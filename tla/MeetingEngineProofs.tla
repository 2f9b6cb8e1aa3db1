-------------------------- MODULE MeetingEngineProofs --------------------------
(***************************************************************************)
(* Proofs about MeetingEngine for any set of items, any number of tasks    *)
(* and form submissions, and any set of faults.                            *)
(***************************************************************************)
EXTENDS MeetingEngine, WellFoundedInduction, TLAPS

\* The parse of s changes no more: the form was submitted, or there is no need of one.
Frozen(s) ==
    /\ s.parsed.known
    /\ s.gate = "RESOLVED" \/ (s.gate = "none" /\ Incomplete(s.parsed.items) = {})

\* What holds of every session that was ever stored.
Coherent(s) ==
    /\ s.gate = "RESOLVED" => s.parsed.known
    /\ s.done => Frozen(s)

\* The fields of w are those of v, but for what was typed.
Refines(v, w) ==
    /\ DOMAIN w = DOMAIN v
    /\ \A i \in DOMAIN v : \A f \in Fields : w[i][f] = v[i][f] \/ w[i][f] = "typed"

\* s is v or what became of it.
Precedes(v, s) ==
    /\ s.active = v.active
    /\ v.parsed.known => /\ s.parsed.known /\ s.parsed.sourced = v.parsed.sourced
                         /\ Refines(v.parsed.items, s.parsed.items)
    /\ Frozen(v) => Frozen(s) /\ s.parsed = v.parsed
    /\ v.parsed.known /\ v.parsed.sourced /\ ~v.failed => ~s.failed

\* n is what a stage or the form leaves of s; no stage counts the form as submitted.
Succeeds(s, n) == n \in States /\ Coherent(n) /\ Precedes(s, n)

Follows(s, n) == Succeeds(s, n) /\ (n.gate = "RESOLVED" => s.gate = "RESOLVED")

\* The gate has judged the parse as it stands.
GateRan(v) ==
    /\ v.verdict = "incomplete" <=> (~v.parsed.known \/ Incomplete(v.parsed.items) # {})
    /\ v.failed <=> (~v.parsed.known \/ ~v.parsed.sourced)

\* How far a run has brought the session it works on, by its stage.
Passed(pc, v) ==
    /\ pc \in {"owner", "fanout"} => GateRan(v)
    /\ pc \in {"fanout", "calendar", "record", "notes", "assemble"} => v.gate = "PENDING" \/ Frozen(v)
    /\ pc \in {"calendar", "record", "notes", "assemble"} =>
          v.gate = "PENDING" \/ v.artifacts = v.parsed.items
    /\ pc \in {"calendar", "record"} => v.gate # "PENDING" /\ v.failed = ~v.parsed.sourced
    /\ pc = "record" => ~v.failed

Jobs ==
    [pc: Stages, kind: {"none", "slash", "plain", "resume"}, work: {"none", "default", "meeting"},
     view: States, fresh: BOOLEAN, left: SUBSET Items, got: SUBSET Items,
     tries: 0 .. (Attempts - 1)]

Submissions ==
    [pc: {"idle", "append"}, typed: SUBSET (Items \X Fields), view: States, fresh: BOOLEAN]

\* A copy is coherent, as far as its run is, and precedes the meeting's session; one
\* that may be appended from is s.
JobOK(j, s) ==
    /\ Coherent(j.view) /\ Passed(j.pc, j.view)
    /\ j.pc = "record" => j.left \subseteq Holds(j.view)
    /\ j.fresh => j.view = s
    /\ s.active = "meeting" => j.view = NoSession \/ Precedes(j.view, s)

\* A submission is under way only from a session that waited for it.
SubmissionOK(c, s) ==
    c.fresh => c.view = s /\ s.gate = "PENDING" /\ s.parsed.known

CopiesOK ==
    /\ Coherent(sess)
    /\ \A t \in Tasks : JobOK(task[t], sess)
    /\ \A h \in Clicks : SubmissionOK(click[h], sess)

\* The form that is up, or was submitted, or is being submitted, asks for what the
\* meeting lacks.
Lacking(s) == Incomplete(s.parsed.items)

Posed ==
    sess.active = "meeting" =>
        /\ form.up => /\ sess.parsed.known /\ form.shown \subseteq DOMAIN sess.parsed.items
                      /\ Lacking(sess) \subseteq asked
        /\ sess.gate = "RESOLVED" => Lacking(sess) \subseteq asked
        /\ \A h \in Clicks : click[h].fresh =>
              Lacking(sess) \subseteq asked /\ click[h].typed \subseteq (DOMAIN sess.parsed.items) \X Fields

\* A reminder is of the meeting's final parse, and so is what was assembled.
OfTheParse(d, s) ==
    /\ Frozen(s)
    /\ d[1] \in DOMAIN s.parsed.items /\ s.parsed.items[d[1]].due = d[2]

Reflected ==
    sess.active = "meeting" =>
        /\ \A d \in Dated : calendar[d] > 0 => OfTheParse(d, sess)
        /\ sess.done => made = sess.parsed.items

\* The ids in the session, and those a run has collected, are of events.
Existing == {i \in Items : Reminded(i) > 0}

Collected == sess.reminders \subseteq Existing /\ \A t \in Tasks : task[t].got \subseteq Existing

\* Before /meeting there is nothing.
Unbegun ==
    ~begun =>
        /\ sess = NoSession /\ form = NoForm /\ thanked = {}
        /\ \A d \in Dated : calendar[d] = 0
        /\ \A t \in Tasks : task[t] = IdleTask
        /\ \A h \in Clicks : click[h] = IdleClick

\* The inductive invariant.
Inv == TypeOK /\ Unbegun /\ CopiesOK /\ Posed /\ Reflected /\ Collected /\ AssignmentsKept

-------------------------------------------------------------------------------
\* What the stages make of a session

Keys == {"active", "parsed", "verdict", "failed", "gate", "artifacts", "reminders", "done"}

Parses == ParsesFrom(Values) \cup {Unparsed}

LEMMA ItemListType ==
    ASSUME NEW x
    PROVE  x \in ItemLists <=> DOMAIN x \in SUBSET Items /\ x \in [DOMAIN x -> Details]
BY DEF ItemLists

LEMMA NoItemsType == NoItems \in ItemLists /\ Incomplete(NoItems) = {} /\ DOMAIN NoItems = {}
<1>1. DOMAIN NoItems = {} /\ NoItems \in [{} -> Details]
  BY DEF NoItems
<1> QED BY <1>1, ItemListType DEF Incomplete

LEMMA ParsesType ==
    /\ \A p \in Parses : p.known \in BOOLEAN /\ p.sourced \in BOOLEAN /\ p.items \in ItemLists
    /\ \A p \in Parses : p = [known |-> p.known, sourced |-> p.sourced, items |-> p.items]
    /\ \A b \in BOOLEAN, x \in ItemLists : [known |-> TRUE, sourced |-> b, items |-> x] \in Parses
    /\ Unparsed \in Parses /\ ~Unparsed.known
    /\ ParsesFrom({"none", "found"}) \subseteq Parses
    /\ \A p \in ParsesFrom({"none", "found"}) : p.known
<1>1. \A p \in ParsesFrom(Values) :
          /\ p.known = TRUE /\ p.sourced \in BOOLEAN /\ p.items \in ItemLists
          /\ p = [known |-> p.known, sourced |-> p.sourced, items |-> p.items]
  <2>1. ParsesFrom(Values) = [known: {TRUE}, sourced: BOOLEAN, items: ItemLists]
    BY DEF ParsesFrom, ItemLists, Details
  <2>2. ASSUME NEW p \in [known: {TRUE}, sourced: BOOLEAN, items: ItemLists]
        PROVE  p = [known |-> p.known, sourced |-> p.sourced, items |-> p.items]
    BY <2>2
  <2>3. ASSUME NEW p \in [known: {TRUE}, sourced: BOOLEAN, items: ItemLists]
        PROVE  p.known = TRUE /\ p.sourced \in BOOLEAN /\ p.items \in ItemLists
    BY <2>3
  <2> QED BY <2>1, <2>2, <2>3
<1>2. \A b \in BOOLEAN, x \in ItemLists :
          [known |-> TRUE, sourced |-> b, items |-> x] \in ParsesFrom(Values)
  BY DEF ParsesFrom, ItemLists, Details
<1>3. /\ Unparsed.known = FALSE /\ Unparsed.sourced = FALSE /\ Unparsed.items \in ItemLists
      /\ Unparsed = [known |-> FALSE, sourced |-> FALSE, items |-> Unparsed.items]
  BY NoItemsType DEF Unparsed
<1>4. ASSUME NEW p \in ParsesFrom({"none", "found"})
      PROVE  p \in ParsesFrom(Values) /\ p.known
  <2>1. PICK some \in SUBSET Items :
            /\ p.items \in [some -> [owner: {"none", "found"}, due: {"none", "found"}]]
            /\ p = [known |-> TRUE, sourced |-> p.sourced, items |-> p.items]
            /\ p.sourced \in BOOLEAN
    BY DEF ParsesFrom
  <2>2. p.items \in [some -> Details]
    BY <2>1 DEF Details, Values
  <2>3. p.items \in ItemLists
    BY <2>2 DEF ItemLists
  <2> QED BY <1>2, <2>1, <2>3
<1> QED BY <1>1, <1>2, <1>3, <1>4 DEF Parses

LEMMA StateFields ==
    ASSUME NEW s \in States
    PROVE  /\ DOMAIN s = Keys /\ s.parsed \in Parses /\ s.artifacts \in ItemLists
           /\ s.parsed.items \in ItemLists /\ s.parsed.known \in BOOLEAN
           /\ s.parsed.sourced \in BOOLEAN /\ s.failed \in BOOLEAN /\ s.done \in BOOLEAN
           /\ s.gate \in {"none", "PENDING", "RESOLVED"} /\ s.reminders \in SUBSET Items
           /\ s.verdict \in {"none", "complete", "incomplete"}
           /\ s.active \in {"none", "default", "meeting"}
<1>1. s.parsed \in Parses
  BY DEF States, Parses
<1> QED BY <1>1, ParsesType DEF States, Keys

LEMMA RefinesItself == \A v : Refines(v, v)
BY DEF Refines

LEMMA PrecedesItself == \A s : Precedes(s, s)
BY RefinesItself DEF Precedes

LEMMA RefinesTransitively ==
    ASSUME NEW u, NEW v, NEW w, Refines(u, v), Refines(v, w)
    PROVE  Refines(u, w)
BY DEF Refines

LEMMA PrecedesTransitively ==
    ASSUME NEW u, NEW v, NEW w, Precedes(u, v), Precedes(v, w)
    PROVE  Precedes(u, w)
<1>1. u.parsed.known => Refines(u.parsed.items, w.parsed.items)
  BY RefinesTransitively DEF Precedes
<1> QED BY <1>1 DEF Precedes

\* A refinement lacks no more than what it refines.
LEMMA RefinesLacks ==
    ASSUME NEW v, NEW w, Refines(v, w)
    PROVE  Incomplete(w) \subseteq Incomplete(v)
BY DEF Refines, Incomplete

\* An event that sets nothing.
LEMMA NoDeltaFollows ==
    ASSUME NEW s \in States, Coherent(s)
    PROVE  Applied(s, NoDelta) = s /\ Follows(s, s)
<1>1. DOMAIN NoDelta = {}
  BY DEF NoDelta
<1>2. Applied(s, NoDelta) = s
  BY <1>1 DEF Applied, States
<1> QED BY <1>2, PrecedesItself DEF Follows, Succeeds

\* The parse is stored once.
LEMMA ParsedFollows ==
    ASSUME NEW s \in States, Coherent(s), NEW delta \in Parsed(s)
    PROVE  Follows(s, Applied(s, delta))
<1>1. CASE delta = NoDelta
  BY <1>1, NoDeltaFollows
<1>2. CASE delta # NoDelta
  <2> DEFINE n == Applied(s, delta)
  <2>1. PICK p \in Parses : delta = [parsed |-> p] /\ (s.parsed.known => p = s.parsed) /\ p.known
    BY <1>2, StateFields, ParsesType DEF Parsed
  <2>2. DOMAIN delta = {"parsed"} /\ delta["parsed"] = p
    BY <2>1
  <2>3. /\ n \in States /\ n.active = s.active /\ n.parsed = p /\ n.verdict = s.verdict
        /\ n.failed = s.failed /\ n.gate = s.gate /\ n.done = s.done
    BY <2>2, StateFields DEF Applied, States, Keys, Parses
  <2> HIDE DEF n
  <2>4. Coherent(n)
    BY <2>1, <2>3 DEF Coherent, Frozen
  <2>5. Precedes(s, n)
    <3>1. CASE s.parsed.known
      BY <2>1, <2>3, <3>1, RefinesItself DEF Precedes, Frozen
    <3>2. CASE ~s.parsed.known
      BY <2>3, <3>2 DEF Precedes, Frozen
    <3> QED BY <3>1, <3>2
  <2>6. Follows(s, n)
    BY <2>3, <2>4, <2>5 DEF Follows, Succeeds
  <2> QED BY <2>6 DEF n
<1> QED BY <1>1, <1>2

\* A change of keys that neither the parse nor its gate is among.
LEMMA AsideFollows ==
    ASSUME NEW s \in States, Coherent(s), NEW n \in States,
           n.active = s.active, n.parsed = s.parsed, n.gate = s.gate,
           n.failed = s.failed \/ n.failed = (~s.parsed.known \/ ~s.parsed.sourced),
           n.done => s.done \/ Frozen(s)
    PROVE  Follows(s, n)
<1>1. Frozen(s) <=> Frozen(n)
  BY DEF Frozen
<1>2. Coherent(n)
  BY <1>1 DEF Coherent
<1> QED BY <1>1, <1>2, RefinesItself DEF Follows, Succeeds, Precedes

LEMMA GatedFollows ==
    ASSUME NEW s \in States, Coherent(s)
    PROVE  LET n == Applied(s, Gated(s)) IN Follows(s, n) /\ GateRan(n)
<1> DEFINE n == Applied(s, Gated(s))
<1>1. PICK verdict : verdict = IF ~s.parsed.known \/ Incomplete(s.parsed.items) # {}
                               THEN "incomplete" ELSE "complete"
  OBVIOUS
<1>2. PICK failed \in BOOLEAN : failed = (~s.parsed.known \/ ~s.parsed.sourced)
  BY StateFields
<1>3. /\ DOMAIN Gated(s) = {"verdict", "failed"}
      /\ Gated(s)["verdict"] = verdict /\ Gated(s)["failed"] = failed
  BY <1>1, <1>2 DEF Gated
<1>4. /\ n \in States /\ n.active = s.active /\ n.parsed = s.parsed /\ n.verdict = verdict
      /\ n.failed = failed /\ n.gate = s.gate /\ n.done = s.done
  BY <1>1, <1>3, StateFields DEF Applied, States, Keys
<1> HIDE DEF n
<1>5. Follows(s, n) /\ GateRan(n)
  BY <1>1, <1>2, <1>4, AsideFollows DEF GateRan
<1> QED BY <1>5 DEF n

\* The form is waited for only where the gate that just ran misses something.
LEMMA OwnerGatedFollows ==
    ASSUME NEW s \in States, Coherent(s), GateRan(s)
    PROVE  LET n == Applied(s, OwnerGated(s))
           IN  Follows(s, n) /\ GateRan(n) /\ (n.gate = "PENDING" \/ Frozen(n))
<1> DEFINE n == Applied(s, OwnerGated(s))
<1>1. CASE s.gate # "RESOLVED" /\ s.verdict = "incomplete"
  <2> DEFINE delta == [gate |-> "PENDING"]
  <2>1. DOMAIN delta = {"gate"} /\ delta["gate"] = "PENDING"
    OBVIOUS
  <2>2. n = Applied(s, delta)
    BY <1>1 DEF OwnerGated
  <2> HIDE DEF delta
  <2>3. /\ n \in States /\ n.active = s.active /\ n.parsed = s.parsed /\ n.verdict = s.verdict
        /\ n.failed = s.failed /\ n.gate = "PENDING" /\ n.done = s.done
    BY <2>1, <2>2, StateFields DEF Applied, States, Keys
  <2> HIDE DEF n
  <2>4. ~Frozen(s)
    BY <1>1 DEF GateRan, Frozen
  <2>5. Coherent(n) /\ Precedes(s, n) /\ GateRan(n)
    BY <2>3, <2>4, RefinesItself DEF Coherent, Precedes, Frozen, GateRan
  <2>6. Follows(s, n) /\ GateRan(n) /\ n.gate = "PENDING"
    BY <2>3, <2>5 DEF Follows, Succeeds
  <2> QED BY <2>6 DEF n
<1>2. CASE ~(s.gate # "RESOLVED" /\ s.verdict = "incomplete")
  <2>1. n = s /\ Follows(s, s)
    BY <1>2, NoDeltaFollows DEF OwnerGated
  <2>2. s.gate = "PENDING" \/ Frozen(s)
    BY <1>2, StateFields DEF GateRan, Frozen, Coherent
  <2> QED BY <2>1, <2>2
<1> QED BY <1>1, <1>2

LEMMA FannedOutFollows ==
    ASSUME NEW s \in States, Coherent(s), GateRan(s), Frozen(s)
    PROVE  LET n == Applied(s, FannedOut(s))
           IN  /\ Follows(s, n) /\ Frozen(n) /\ n.gate # "PENDING"
               /\ n.artifacts = n.parsed.items /\ n.failed = ~n.parsed.sourced
<1> DEFINE n == Applied(s, FannedOut(s))
<1>1. PICK items : items = s.parsed.items
  OBVIOUS
<1>2. DOMAIN FannedOut(s) = {"artifacts"} /\ FannedOut(s)["artifacts"] = items
  BY <1>1 DEF FannedOut, Frozen
<1>3. /\ n \in States /\ n.active = s.active /\ n.parsed = s.parsed /\ n.artifacts = items
      /\ n.failed = s.failed /\ n.gate = s.gate /\ n.done = s.done
  BY <1>1, <1>2, StateFields DEF Applied, States, Keys
<1> HIDE DEF n
<1>4. Follows(s, n) /\ Frozen(n) /\ n.gate # "PENDING"
  BY <1>3, AsideFollows DEF Frozen
<1>5. n.artifacts = n.parsed.items /\ n.failed = ~n.parsed.sourced
  BY <1>1, <1>3, StateFields DEF GateRan, Frozen
<1> QED BY <1>4, <1>5 DEF n

LEMMA RemindersFollow ==
    ASSUME NEW s \in States, Coherent(s), NEW ids \in SUBSET Items
    PROVE  LET n == Applied(s, [reminders |-> ids])
           IN  /\ Follows(s, n) /\ n.gate = s.gate /\ n.parsed = s.parsed
               /\ n.artifacts = s.artifacts /\ n.reminders = ids
<1> DEFINE delta == [reminders |-> ids]
           n == Applied(s, delta)
<1>1. DOMAIN delta = {"reminders"} /\ delta["reminders"] = ids
  OBVIOUS
<1> HIDE DEF delta
<1>2. /\ n \in States /\ n.active = s.active /\ n.parsed = s.parsed /\ n.reminders = ids
      /\ n.failed = s.failed /\ n.gate = s.gate /\ n.done = s.done /\ n.artifacts = s.artifacts
  BY <1>1, StateFields DEF Applied, States, Keys
<1> HIDE DEF n
<1>3. Follows(s, n)
  BY <1>2, AsideFollows
<1> QED BY <1>2, <1>3 DEF n, delta

LEMMA DoneFollows ==
    ASSUME NEW s \in States, Coherent(s), NEW done \in BOOLEAN, done => Frozen(s)
    PROVE  LET n == Applied(s, [done |-> done])
           IN  Follows(s, n) /\ n.parsed = s.parsed /\ n.done = done
<1> DEFINE delta == [done |-> done]
           n == Applied(s, delta)
<1>1. DOMAIN delta = {"done"} /\ delta["done"] = done
  OBVIOUS
<1> HIDE DEF delta
<1>2. /\ n \in States /\ n.active = s.active /\ n.parsed = s.parsed /\ n.done = done
      /\ n.failed = s.failed /\ n.gate = s.gate
  BY <1>1, StateFields DEF Applied, States, Keys
<1> HIDE DEF n
<1>3. Follows(s, n)
  BY <1>2, AsideFollows
<1> QED BY <1>2, <1>3 DEF n, delta

\* Owner and due date are all the form asks for.
LEMMA WithTypedRefines ==
    ASSUME NEW items \in ItemLists, NEW typed
    PROVE  /\ WithTyped(items, typed) \in ItemLists
           /\ Refines(items, WithTyped(items, typed))
           /\ \A i \in DOMAIN items, f \in Fields :
                 <<i, f>> \in typed => WithTyped(items, typed)[i][f] = "typed"
<1>1. DOMAIN items \in SUBSET Items /\ items \in [DOMAIN items -> Details]
  BY ItemListType
<1>2. PICK w : w = WithTyped(items, typed)
  OBVIOUS
<1>3. /\ w = [i \in DOMAIN w |-> w[i]] /\ DOMAIN w = DOMAIN items
      /\ \A i \in DOMAIN items : w[i] = [f \in Fields |-> IF <<i, f>> \in typed THEN "typed" ELSE items[i][f]]
  BY <1>2 DEF WithTyped
<1>4. ASSUME NEW i \in DOMAIN items
      PROVE  w[i] \in Details
  <2>1. items[i].owner \in Values /\ items[i].due \in Values /\ "typed" \in Values
    BY <1>1 DEF Details, Values
  <2>2. w[i] = [owner |-> w[i].owner, due |-> w[i].due]
    <3>1. PICK d : d = w[i]
      OBVIOUS
    <3>2. d = [f \in Fields |-> IF <<i, f>> \in typed THEN "typed" ELSE items[i][f]]
      BY <1>3, <3>1
    <3>3. DOMAIN d = {"owner", "due"} /\ d = [f \in {"owner", "due"} |-> d[f]]
      BY <3>2 DEF Fields
    <3>4. d = [owner |-> d.owner, due |-> d.due]
      BY <3>3
    <3> QED BY <3>1, <3>4
  <2>3. w[i].owner \in Values /\ w[i].due \in Values
    <3>1. PICK d : d = w[i]
      OBVIOUS
    <3>2. d = [f \in Fields |-> IF <<i, f>> \in typed THEN "typed" ELSE items[i][f]]
      BY <1>3, <3>1
    <3>3. /\ d["owner"] = (IF <<i, "owner">> \in typed THEN "typed" ELSE items[i]["owner"])
          /\ d["due"] = (IF <<i, "due">> \in typed THEN "typed" ELSE items[i]["due"])
      BY <3>2 DEF Fields
    <3>4. d.owner \in Values /\ d.due \in Values
      BY <2>1, <3>3
    <3> QED BY <3>1, <3>4
  <2> QED BY <2>2, <2>3 DEF Details
<1>5. w \in [DOMAIN w -> Details]
  BY <1>3, <1>4
<1>6. w \in ItemLists
  BY <1>1, <1>3, <1>5, ItemListType
<1>7. Refines(items, w)
  BY <1>3 DEF Refines
<1> QED BY <1>2, <1>3, <1>6, <1>7

\* The form that was waited for freezes the parse, as typed.
LEMMA AssignedFollows ==
    ASSUME NEW s \in States, Coherent(s), s.gate = "PENDING", s.parsed.known, NEW typed
    PROVE  LET n == Applied(s, Assigned(s, typed))
           IN  /\ Succeeds(s, n) /\ Frozen(n) /\ n.gate = "RESOLVED" /\ ~n.done
               /\ n.reminders = s.reminders
               /\ n.parsed.items = WithTyped(s.parsed.items, typed)
<1> DEFINE n == Applied(s, Assigned(s, typed))
<1>1. PICK p : p = [s.parsed EXCEPT !.items = WithTyped(s.parsed.items, typed)]
  OBVIOUS
<1>2. PICK w : w = WithTyped(s.parsed.items, typed)
  OBVIOUS
<1>3. w \in ItemLists /\ Refines(s.parsed.items, w)
  BY <1>2, WithTypedRefines, StateFields
<1>4. p = [known |-> TRUE, sourced |-> s.parsed.sourced, items |-> w]
  <2>1. PICK q \in Parses : q = s.parsed
    BY StateFields
  <2>2. q = [known |-> TRUE, sourced |-> q.sourced, items |-> q.items]
    BY <2>1, ParsesType
  <2> QED BY <1>1, <1>2, <2>1, <2>2
<1>5. p \in Parses /\ p.known /\ p.sourced = s.parsed.sourced /\ p.items = w
  BY <1>3, <1>4, StateFields, ParsesType
<1>6. PICK none : none = NoItems
  OBVIOUS
<1>7. none \in ItemLists
  BY <1>6, NoItemsType
<1>8. /\ DOMAIN Assigned(s, typed) = {"parsed", "gate", "verdict", "failed", "artifacts", "done"}
      /\ Assigned(s, typed)["parsed"] = p /\ Assigned(s, typed)["gate"] = "RESOLVED"
      /\ Assigned(s, typed)["verdict"] = "none" /\ Assigned(s, typed)["failed"] = FALSE
      /\ Assigned(s, typed)["artifacts"] = none /\ Assigned(s, typed)["done"] = FALSE
  BY <1>1, <1>6 DEF Assigned
<1>9. /\ n \in States /\ n.active = s.active /\ n.parsed = p /\ n.verdict = "none"
      /\ n.failed = FALSE /\ n.gate = "RESOLVED" /\ n.done = FALSE /\ n.reminders = s.reminders
  BY <1>5, <1>7, <1>8, StateFields DEF Applied, States, Keys, Parses
<1> HIDE DEF n
<1>10. Coherent(n) /\ Precedes(s, n) /\ Frozen(n)
  BY <1>3, <1>5, <1>9 DEF Coherent, Precedes, Frozen
<1>11. Succeeds(s, n) /\ n.parsed.items = w
  BY <1>5, <1>9, <1>10 DEF Succeeds
<1> QED BY <1>2, <1>9, <1>10, <1>11 DEF n

\* A new session, and none.
LEMMA NewStateFields ==
    ASSUME NEW w \in {"none", "default", "meeting"}
    PROVE  /\ NewState(w) \in States /\ Coherent(NewState(w)) /\ NewState(w).active = w
           /\ NewState(w).gate = "none" /\ ~NewState(w).done /\ NewState(w).reminders = {}
           /\ ~NewState(w).parsed.known
<1>1. PICK n, p, x : n = NewState(w) /\ p = Unparsed /\ x = NoItems
  OBVIOUS
<1>2. n = [active |-> w, parsed |-> p, verdict |-> "none", failed |-> FALSE, gate |-> "none",
           artifacts |-> x, reminders |-> {}, done |-> FALSE]
  BY <1>1 DEF NewState
<1>3. p \in Parses /\ x \in ItemLists /\ ~p.known
  BY <1>1, ParsesType, NoItemsType
<1>4. /\ n \in States /\ n.active = w /\ n.gate = "none" /\ ~n.done /\ n.reminders = {}
      /\ ~n.parsed.known
  BY <1>2, <1>3 DEF States, Parses
<1>5. Coherent(n)
  BY <1>4 DEF Coherent
<1> QED BY <1>1, <1>4, <1>5

-------------------------------------------------------------------------------
\* What a step does to the copies

\* The task, or submission, did not take part in the step, or its copy was made stale.
Kept(t) ==
    \/ task'[t] = task[t] /\ (task[t].fresh => sess' = sess)
    \/ task'[t] = [task[t] EXCEPT !.fresh = FALSE]

ClickKept(h) ==
    \/ click'[h] = click[h] /\ (click[h].fresh => sess' = sess)
    \/ click'[h] = [click[h] EXCEPT !.fresh = FALSE]

OthersKept(t) ==
    /\ task' = [u \in Tasks |-> task'[u]]
    /\ click' = [h \in Clicks |-> click'[h]]
    /\ \A u \in Tasks \ {t} : Kept(u)

\* A meeting's session goes on, or is left.
GoesOn ==
    /\ sess' \in States /\ Coherent(sess')
    /\ sess'.active = "meeting" => sess.active = "meeting" /\ Precedes(sess, sess')

\* A task takes a step of its run, or of what it posts.
Acts(t) ==
    /\ Follows(sess, sess')
    /\ OthersKept(t) /\ \A h \in Clicks : ClickKept(h)
    /\ task'[t] \in Jobs /\ JobOK(task'[t], sess')

LEMMA IdleTypes ==
    /\ IdleTask \in Jobs /\ IdleTask.pc = "idle" /\ ~IdleTask.fresh /\ IdleTask.view = NoSession
    /\ IdleTask.left = {} /\ IdleTask.got = {}
    /\ IdleClick \in Submissions /\ ~IdleClick.fresh /\ IdleClick.pc = "idle"
    /\ [IdleClick EXCEPT !.fresh = FALSE] = IdleClick
    /\ [IdleTask EXCEPT !.fresh = FALSE] = IdleTask
<1>1. PICK n : n = NoSession
  OBVIOUS
<1>2. n \in States
  BY <1>1, NewStateFields DEF NoSession
<1>3. PICK j, c : j = IdleTask /\ c = IdleClick
  OBVIOUS
<1>4. j = [pc |-> "idle", kind |-> "none", work |-> "none", view |-> n, fresh |-> FALSE,
           left |-> {}, got |-> {}, tries |-> 0]
  BY <1>1, <1>3 DEF IdleTask
<1>5. c = [pc |-> "idle", typed |-> {}, view |-> n, fresh |-> FALSE]
  BY <1>1, <1>3 DEF IdleClick
<1>6. 0 \in 0 .. (Attempts - 1)
  BY EngineAssumption
<1>7. /\ j \in Jobs /\ j.pc = "idle" /\ ~j.fresh /\ j.view = n /\ j.left = {} /\ j.got = {}
      /\ c \in Submissions /\ ~c.fresh /\ c.pc = "idle"
  BY <1>2, <1>4, <1>5, <1>6 DEF Jobs, Submissions, Stages
<1>8. [j EXCEPT !.fresh = FALSE] = j /\ [c EXCEPT !.fresh = FALSE] = c
  BY <1>7 DEF Jobs, Submissions
<1> QED BY <1>1, <1>3, <1>7, <1>8

\* A task that is scheduled, idle, or over has no copy.
LEMMA EmptyHanded ==
    ASSUME NEW kind \in {"slash", "plain", "resume"}, NEW work \in {"none", "default", "meeting"},
           NEW old \in Jobs, NEW how \in {"ended", "raised"}, NEW s,
           NEW j \in {IdleTask, NewTask(kind, work), Over(old, how)}
    PROVE  /\ j \in Jobs /\ JobOK(j, s) /\ ~j.fresh /\ j.got = {}
           /\ j.pc \in {"idle", "start", "ended", "raised"}
<1>1. PICK i, n : i = IdleTask /\ n = NoSession
  OBVIOUS
<1>2. n \in States /\ Coherent(n)
  BY <1>1, NewStateFields DEF NoSession
<1>3. i \in Jobs /\ i.view = n /\ ~i.fresh /\ i.pc = "idle" /\ i.got = {}
  BY <1>1, IdleTypes
<1>4. \/ j = i \/ j = [i EXCEPT !.pc = "start", !.kind = kind, !.work = work]
      \/ j = [i EXCEPT !.pc = how, !.kind = old.kind, !.work = old.work]
  BY <1>1 DEF NewTask, Over
<1>5. /\ j \in Jobs /\ j.view = n /\ ~j.fresh /\ j.got = {}
      /\ j.pc \in {"idle", "start", "ended", "raised"}
  <2>1. CASE j = i
    BY <1>3, <2>1
  <2>2. CASE j = [i EXCEPT !.pc = "start", !.kind = kind, !.work = work]
    BY <1>3, <2>2 DEF Jobs, Stages
  <2>3. CASE j = [i EXCEPT !.pc = how, !.kind = old.kind, !.work = old.work]
    <3>1. old.kind \in {"none", "slash", "plain", "resume"} /\ old.work \in {"none", "default", "meeting"}
      BY DEF Jobs
    <3> QED BY <1>3, <2>3, <3>1 DEF Jobs, Stages
  <2> QED BY <1>4, <2>1, <2>2, <2>3
<1>6. Passed(j.pc, j.view)
  BY <1>5 DEF Passed
<1> QED BY <1>1, <1>2, <1>5, <1>6 DEF JobOK

\* What holds of a task before it acts.
LEMMA TaskFacts ==
    ASSUME TypeOK, CopiesOK, NEW t \in Tasks
    PROVE  /\ task[t] \in Jobs /\ task[t].view \in States /\ sess \in States
           /\ Coherent(sess) /\ Coherent(task[t].view) /\ Passed(task[t].pc, task[t].view)
           /\ task[t].fresh => task[t].view = sess
           /\ JobOK(task[t], sess) /\ Follows(sess, sess)
           /\ DOMAIN task = Tasks /\ DOMAIN click = Clicks
<1>1. task[t] \in Jobs /\ JobOK(task[t], sess) /\ Coherent(sess) /\ sess \in States
  BY DEF TypeOK, CopiesOK, Jobs
<1>2. Follows(sess, sess) /\ DOMAIN task = Tasks /\ DOMAIN click = Clicks
  BY <1>1, PrecedesItself DEF Follows, Succeeds, TypeOK
<1> QED BY <1>1, <1>2 DEF JobOK, Jobs

\* The session is left alone and t goes on with some other job.
LEMMA AloneActs ==
    ASSUME TypeOK, CopiesOK, UNCHANGED <<sess, click>>, NEW t \in Tasks, NEW j \in Jobs,
           JobOK(j, sess), task' = [task EXCEPT ![t] = j]
    PROVE  Acts(t) /\ task'[t] = j
<1>1. task'[t] = j /\ OthersKept(t) /\ \A h \in Clicks : ClickKept(h)
  BY DEF TypeOK, OthersKept, Kept, ClickKept
<1>2. Follows(sess', sess') /\ sess' = sess
  BY TaskFacts
<1>3. JobOK(task'[t], sess')
  BY <1>1, <1>2
<1> QED BY <1>1, <1>2, <1>3 DEF Acts

\* Everybody else's copy is stale once t has appended.
LEMMA AppendActs ==
    ASSUME TypeOK, CopiesOK, NEW t \in Tasks, NEW j \in Jobs, JobOK(j, sess'),
           Follows(sess, sess'), task' = [Stale(task) EXCEPT ![t] = j], click' = Stale(click)
    PROVE  Acts(t) /\ task'[t] = j
<1>1. task'[t] = j /\ OthersKept(t) /\ \A h \in Clicks : ClickKept(h)
  BY TaskFacts DEF Stale, OthersKept, Kept, ClickKept
<1> QED BY <1>1 DEF Acts

\* A run that raises keeps no copy.
LEMMA RaiseActs ==
    ASSUME TypeOK, CopiesOK, UNCHANGED <<sess, click>>, NEW t \in Tasks, Raise(t)
    PROVE  Acts(t) /\ task'[t].pc = "raised" /\ task'[t].got = {}
<1>1. PICK j : j = Over(task[t], "raised")
  OBVIOUS
<1>2. j \in Jobs /\ JobOK(j, sess) /\ task' = [task EXCEPT ![t] = j] /\ j.got = {}
  BY <1>1, EmptyHanded, TaskFacts DEF Raise
<1>3. j.pc = "raised"
  BY <1>1, IdleTypes DEF Over, Jobs
<1> QED BY <1>2, <1>3, AloneActs

\* A stage emits its event.
LEMMA EmitActs ==
    ASSUME TypeOK, CopiesOK, NEW t \in Tasks, NEW next \in Stages \ {"record"}, NEW delta,
           Emit(t, next, delta),
           Follows(task[t].view, Applied(task[t].view, delta)),
           next = "ended" \/ Passed(next, Applied(task[t].view, delta))
    PROVE  /\ Acts(t) /\ task'[t].got \in {task[t].got, {}}
           /\ sess' = sess \/ (task[t].view = sess /\ sess' = Applied(sess, delta))
<1> DEFINE n == Applied(task[t].view, delta)
<1>1. CASE Raise(t) /\ UNCHANGED <<sess, click>>
  BY <1>1, RaiseActs
<1>2. CASE /\ CanAppend(task[t])
           /\ sess' = Applied(sess, delta)
           /\ LET job == [task[t] EXCEPT !.pc = next, !.view = Applied(@, delta)] IN
              task' = [Stale(task) EXCEPT ![t] = IF next = "ended" THEN Over(job, next) ELSE job]
           /\ click' = Stale(click)
  <2>1. task[t].view = sess /\ sess' = n
    BY <1>2, TaskFacts DEF CanAppend
  <2>2. PICK job : job = [task[t] EXCEPT !.pc = next, !.view = n]
    OBVIOUS
  <2>3. PICK j : j = IF next = "ended" THEN Over(job, next) ELSE job
    OBVIOUS
  <2>4. task' = [Stale(task) EXCEPT ![t] = j]
    BY <1>2, <2>2, <2>3
  <2> HIDE DEF n
  <2>5. Follows(task[t].view, n)
    BY DEF n
  <2>6. job \in Jobs /\ job.pc = next /\ job.view = n /\ job.got = task[t].got
    BY <2>2, <2>5, TaskFacts DEF Jobs, Follows, Succeeds
  <2>7. j \in Jobs /\ JobOK(j, n) /\ j.got \in {task[t].got, {}}
    <3>1. CASE next = "ended"
      BY <2>3, <2>6, <3>1, EmptyHanded
    <3>2. CASE next # "ended"
      BY <2>3, <2>5, <2>6, <3>2, PrecedesItself DEF JobOK, Follows, Succeeds, n
    <3> QED BY <3>1, <3>2
  <2>8. Follows(sess, sess') /\ JobOK(j, sess')
    BY <2>1, <2>5, <2>7
  <2> QED BY <1>2, <2>1, <2>4, <2>7, <2>8, AppendActs
<1> QED BY <1>1, <1>2 DEF Emit

-------------------------------------------------------------------------------
\* The steps of a task

\* Loading the stored session.
LEMMA LoadActs ==
    ASSUME TypeOK, CopiesOK, UNCHANGED <<sess, click>>, NEW t \in Tasks, NEW next \in {"message", "show"},
           task' = [task EXCEPT ![t].pc = next, ![t].view = sess, ![t].fresh = TRUE]
    PROVE  Acts(t) /\ task'[t].pc = next /\ task'[t].got = task[t].got
<1>1. PICK j : j = [task[t] EXCEPT !.pc = next, !.view = sess, !.fresh = TRUE]
  OBVIOUS
<1>2. task' = [task EXCEPT ![t] = j]
  BY <1>1 DEF TypeOK
<1>3. j \in Jobs /\ j.pc = next /\ j.view = sess /\ j.fresh /\ j.got = task[t].got
  BY <1>1, TaskFacts DEF Jobs, Stages
<1>4. JobOK(j, sess)
  BY <1>3, TaskFacts, PrecedesItself DEF JobOK, Passed
<1> QED BY <1>2, <1>3, <1>4, AloneActs

\* Going on with the same copy.
LEMMA MoveActs ==
    ASSUME TypeOK, CopiesOK, UNCHANGED <<sess, click>>, NEW t \in Tasks, NEW j \in Jobs,
           j.view = task[t].view, j.fresh = task[t].fresh, Passed(j.pc, task[t].view),
           j.pc = "record" => j.left \subseteq Holds(task[t].view),
           task' = [task EXCEPT ![t] = j]
    PROVE  Acts(t) /\ task'[t] = j
<1>1. JobOK(j, sess)
  BY TaskFacts DEF JobOK
<1> QED BY <1>1, AloneActs

\* Events that are no news to the session.
LEMMA QuietActs ==
    ASSUME TypeOK, CopiesOK, NEW t \in Tasks, NEW next \in Stages \ {"record"},
           Emit(t, next, NoDelta), next = "ended" \/ Passed(next, task[t].view)
    PROVE  Acts(t) /\ task'[t].got \in {task[t].got, {}} /\ sess' = sess
<1>1. Applied(task[t].view, NoDelta) = task[t].view /\ Follows(task[t].view, task[t].view)
  BY TaskFacts, NoDeltaFollows
<1> QED BY <1>1, EmitActs

\* What a run's step does besides, when it neither creates a reminder nor assembles.
Aside(t) ==
    /\ Acts(t) /\ task'[t].got \in {task[t].got, {}}
    /\ sess'.reminders \in {sess.reminders, task[t].got}
    /\ sess'.done => sess.done

\* Events that set neither the ids nor the completion.
LEMMA StageActs ==
    ASSUME TypeOK, CopiesOK, NEW t \in Tasks, NEW next \in Stages \ {"record"}, NEW delta,
           Emit(t, next, delta), DOMAIN delta \cap {"reminders", "done"} = {},
           Follows(task[t].view, Applied(task[t].view, delta)),
           next = "ended" \/ Passed(next, Applied(task[t].view, delta))
    PROVE  Aside(t)
<1>1. /\ Acts(t) /\ task'[t].got \in {task[t].got, {}}
      /\ sess' = sess \/ sess' = Applied(sess, delta)
  BY EmitActs
<1>2. DOMAIN sess = Keys
  BY TaskFacts, StateFields
<1>3. Applied(sess, delta).reminders = sess.reminders /\ Applied(sess, delta).done = sess.done
  BY <1>2 DEF Applied, Keys
<1> QED BY <1>1, <1>3 DEF Aside

LEMMA QuietAside ==
    ASSUME TypeOK, CopiesOK, NEW t \in Tasks, NEW next \in Stages \ {"record"},
           Emit(t, next, NoDelta), next = "ended" \/ Passed(next, task[t].view)
    PROVE  Aside(t)
BY QuietActs DEF Aside

LEMMA RaiseAside ==
    ASSUME TypeOK, CopiesOK, UNCHANGED <<sess, click>>, NEW t \in Tasks, Raise(t)
    PROVE  Aside(t)
BY RaiseActs DEF Aside

\* The pipeline's stages before the fan-out, and the default workflow.
LEMMA GateStages ==
    ASSUME TypeOK, CopiesOK, NEW t \in Tasks,
           Start(t) \/ Message(t) \/ Parse(t) \/ Gate(t) \/ OwnerGate(t) \/ Say(t)
    PROVE  Aside(t)
<1>1. /\ task[t].view \in States /\ Coherent(task[t].view) /\ Passed(task[t].pc, task[t].view)
      /\ task[t] \in Jobs
  BY TaskFacts
<1>2. CASE Start(t)
  BY <1>2, LoadActs, RaiseAside DEF Start, Aside
<1>3. CASE Message(t)
  BY <1>3, QuietAside DEF Message, Stages, Passed
<1>4. CASE Parse(t)
  <2>1. CASE \E delta \in Parsed(task[t].view) : Emit(t, "gate", delta)
    <3>1. PICK delta \in Parsed(task[t].view) : Emit(t, "gate", delta)
      BY <2>1
    <3>2. DOMAIN delta \cap {"reminders", "done"} = {}
      BY DEF Parsed, NoDelta
    <3>3. Follows(task[t].view, Applied(task[t].view, delta))
      BY <1>1, ParsedFollows
    <3> QED BY <3>1, <3>2, <3>3, StageActs DEF Stages, Passed
  <2> QED BY <1>4, <2>1, RaiseAside DEF Parse
<1>5. CASE Gate(t)
  <2>1. DOMAIN Gated(task[t].view) \cap {"reminders", "done"} = {}
    BY DEF Gated
  <2>2. PICK n : n = Applied(task[t].view, Gated(task[t].view))
    OBVIOUS
  <2>3. Follows(task[t].view, n) /\ Passed("owner", n)
    BY <1>1, <2>2, GatedFollows DEF Passed
  <2> QED BY <1>5, <2>1, <2>2, <2>3, StageActs DEF Gate, Stages
<1>6. CASE OwnerGate(t)
  <2>1. DOMAIN OwnerGated(task[t].view) \cap {"reminders", "done"} = {}
    BY DEF OwnerGated, NoDelta
  <2>2. PICK n : n = Applied(task[t].view, OwnerGated(task[t].view))
    OBVIOUS
  <2>3. GateRan(task[t].view)
    BY <1>1, <1>6 DEF OwnerGate, Passed
  <2>4. Follows(task[t].view, n) /\ Passed("fanout", n)
    BY <1>1, <2>2, <2>3, OwnerGatedFollows DEF Passed
  <2> QED BY <1>6, <2>1, <2>2, <2>4, StageActs DEF OwnerGate, Stages
<1>7. CASE Say(t)
  BY <1>7, QuietAside DEF Say, Stages
<1> QED BY <1>2, <1>3, <1>4, <1>5, <1>6, <1>7

\* The fan-out, and what is done about the reminders besides creating them.
LEMMA FanStages ==
    ASSUME TypeOK, CopiesOK, NEW t \in Tasks,
           FanOut(t) \/ Reminders(t) \/ RecordReminders(t) \/ Notes(t) \/ AssembleNothing(t)
    PROVE  Aside(t)
<1>1. /\ task[t].view \in States /\ Coherent(task[t].view) /\ Passed(task[t].pc, task[t].view)
      /\ task[t] \in Jobs
  BY TaskFacts
<1>2. CASE FanOut(t)
  <2>1. CASE task[t].view.gate = "PENDING" /\ Emit(t, "assemble", NoDelta)
    BY <2>1, QuietAside DEF Stages, Passed
  <2>2. CASE task[t].view.gate # "PENDING" /\ Emit(t, "calendar", FannedOut(task[t].view))
    <3>1. DOMAIN FannedOut(task[t].view) \cap {"reminders", "done"} = {}
      BY DEF FannedOut, NoDelta
    <3>2. GateRan(task[t].view) /\ Frozen(task[t].view)
      BY <1>1, <1>2, <2>2 DEF FanOut, Passed
    <3>3. PICK n : n = Applied(task[t].view, FannedOut(task[t].view))
      OBVIOUS
    <3>4. Follows(task[t].view, n) /\ Passed("calendar", n)
      BY <1>1, <3>2, <3>3, FannedOutFollows DEF Passed
    <3> QED BY <2>2, <3>1, <3>3, <3>4, StageActs DEF Stages
  <2> QED BY <1>2, <2>1, <2>2 DEF FanOut
<1>3. CASE Reminders(t)
  <2>1. Passed("calendar", task[t].view)
    BY <1>1, <1>3 DEF Reminders
  <2>2. CASE Emit(t, "notes", NoDelta)
    BY <2>1, <2>2, QuietAside DEF Stages, Passed
  <2>3. CASE Goto(t, "notes") /\ UNCHANGED <<sess, click>>
    <3>1. PICK j : j = [task[t] EXCEPT !.pc = "notes"]
      OBVIOUS
    <3>2. /\ j \in Jobs /\ j.view = task[t].view /\ j.fresh = task[t].fresh /\ j.pc = "notes"
          /\ j.got = task[t].got
      BY <1>1, <3>1 DEF Jobs, Stages
    <3>3. task' = [task EXCEPT ![t] = j]
      BY <2>3, <3>1 DEF Goto, TypeOK
    <3>4. Passed(j.pc, task[t].view)
      BY <2>1, <3>2 DEF Passed
    <3>5. Acts(t) /\ task'[t] = j
      BY <2>3, <3>2, <3>3, <3>4, MoveActs
    <3> QED BY <2>3, <3>2, <3>5 DEF Aside
  <2>4. CASE /\ RemindersDue(task[t].view) # {}
             /\ task' = [task EXCEPT ![t].pc = "record", ![t].left = RemindersDue(task[t].view)]
             /\ UNCHANGED <<sess, click>>
    <3>1. PICK due : due = RemindersDue(task[t].view)
      OBVIOUS
    <3>2. PICK j : j = [task[t] EXCEPT !.pc = "record", !.left = due]
      OBVIOUS
    <3>3. due = Holds(task[t].view) /\ ~task[t].view.failed
      BY <2>4, <3>1 DEF RemindersDue
    <3>4. due \in SUBSET Items
      <4>1. DOMAIN task[t].view.artifacts \in SUBSET Items
        BY <1>1, StateFields, ItemListType
      <4> QED BY <3>3, <4>1 DEF Holds
    <3>5. /\ j \in Jobs /\ j.view = task[t].view /\ j.fresh = task[t].fresh /\ j.pc = "record"
          /\ j.left = due /\ j.got = task[t].got
      BY <1>1, <3>2, <3>4 DEF Jobs, Stages
    <3>6. task' = [task EXCEPT ![t] = j]
      BY <2>4, <3>1, <3>2 DEF TypeOK
    <3>7. Passed(j.pc, task[t].view) /\ j.left \subseteq Holds(task[t].view)
      BY <2>1, <3>3, <3>5 DEF Passed
    <3>8. UNCHANGED <<sess, click>>
      BY <2>4
    <3>9. Acts(t) /\ task'[t] = j
      BY <3>5, <3>6, <3>7, <3>8, MoveActs
    <3> QED BY <3>5, <3>8, <3>9 DEF Aside
  <2> QED BY <1>3, <2>2, <2>3, <2>4 DEF Reminders
<1>4. CASE RecordReminders(t)
  <2>1. Passed("record", task[t].view) /\ task[t].got \in SUBSET Items
    BY <1>1, <1>4 DEF RecordReminders, Jobs
  <2>2. PICK ids \in SUBSET Items : ids = task[t].got
    BY <2>1
  <2>3. Emit(t, "notes", [reminders |-> ids])
    BY <1>4, <2>2 DEF RecordReminders, Recorded
  <2>4. PICK n : n = Applied(task[t].view, [reminders |-> ids])
    OBVIOUS
  <2>5. /\ Follows(task[t].view, n) /\ n.gate = task[t].view.gate /\ n.parsed = task[t].view.parsed
        /\ n.artifacts = task[t].view.artifacts /\ n.reminders = ids
    BY <1>1, <2>4, RemindersFollow
  <2>6. Passed("notes", n)
    BY <2>1, <2>5 DEF Passed, Frozen
  <2>7. /\ Acts(t) /\ task'[t].got \in {task[t].got, {}}
        /\ sess' = sess \/ (task[t].view = sess /\ sess' = Applied(sess, [reminders |-> ids]))
    BY <2>3, <2>4, <2>5, <2>6, EmitActs DEF Stages
  <2>8. Applied(sess, [reminders |-> ids]).done = sess.done
    <3>1. DOMAIN sess = Keys
      BY TaskFacts, StateFields
    <3> QED BY <3>1 DEF Applied, Keys
  <2> QED BY <2>2, <2>4, <2>5, <2>7, <2>8 DEF Aside
<1>5. CASE Notes(t)
  <2>1. Passed("assemble", task[t].view)
    BY <1>1, <1>5 DEF Notes, Passed
  <2> QED BY <1>5, <2>1, QuietAside, RaiseAside DEF Notes, Stages
<1>6. CASE AssembleNothing(t) /\ Emit(t, "ended", [done |-> FALSE])
  <2>1. PICK delta : delta = [done |-> FALSE]
    OBVIOUS
  <2>2. Follows(task[t].view, Applied(task[t].view, delta)) /\ ~Applied(task[t].view, delta).done
    BY <1>1, <2>1, DoneFollows
  <2>3. /\ Acts(t) /\ task'[t].got \in {task[t].got, {}}
        /\ sess' = sess \/ (task[t].view = sess /\ sess' = Applied(sess, delta))
    BY <1>6, <2>1, <2>2, EmitActs DEF Stages
  <2>4. Applied(sess, delta).reminders = sess.reminders
    <3>1. DOMAIN sess = Keys
      BY TaskFacts, StateFields
    <3> QED BY <2>1, <3>1 DEF Applied, Keys
  <2> QED BY <2>2, <2>3, <2>4 DEF Aside
<1>7. CASE AssembleNothing(t) /\ Raise(t) /\ UNCHANGED <<sess, click>>
  BY <1>7, RaiseAside
<1> QED BY <1>2, <1>3, <1>4, <1>5, <1>6, <1>7 DEF AssembleNothing

\* What a set of numbers has, it has a least of.
LEMMA LeastOf ==
    ASSUME NEW S \in SUBSET Nat, S # {}
    PROVE  (CHOOSE n \in S : \A m \in S : n <= m) \in S
<1> DEFINE R == {p \in Nat \X Nat : p[1] < p[2]}
<1>1. OpToRel(<, Nat) = R
  BY Zenon DEF OpToRel
<1>2. IsWellFoundedOn(R, Nat)
  BY <1>1, NatLessThanWellFounded
<1> HIDE DEF R
<1>3. PICK n \in S : \A m \in S : <<m, n>> \notin R
  BY <1>2, WFMin
<1>4. ASSUME NEW m \in S, m < n
      PROVE  FALSE
  <2>1. PICK p : p = <<m, n>>
    OBVIOUS
  <2>2. p \in Nat \X Nat /\ p[1] < p[2]
    BY <1>4, <2>1
  <2>3. p \in R
    BY <2>2 DEF R
  <2> QED BY <1>3, <2>1, <2>3
<1>5. \A m \in S : n <= m
  BY <1>4
<1> QED BY <1>5

\* A reminder is put on the due date of the parse the run fanned out, the last there is.
Created(t, i) ==
    /\ i \in Items /\ <<i, task[t].view.artifacts[i].due>> \in Dated
    /\ i \in DOMAIN task[t].view.parsed.items
    /\ task[t].view.artifacts = task[t].view.parsed.items
    /\ task'[t].got \subseteq task[t].got \cup {i}
    /\ calendar[<<i, task[t].view.artifacts[i].due>>] < MaxEvents
    /\ calendar' = [calendar EXCEPT ![<<i, task[t].view.artifacts[i].due>>] = @ + 1]

LEMMA CreateActs ==
    ASSUME TypeOK, CopiesOK, NEW t \in Tasks, CreateReminder(t)
    PROVE  /\ Acts(t) /\ UNCHANGED <<begun, sess, click, form, history>>
           /\ Frozen(task[t].view) /\ task[t].view.parsed.sourced /\ ~task[t].view.failed
           /\ (calendar' = calendar /\ task'[t].got = task[t].got) \/ \E i \in Items : Created(t, i)
<1>1. /\ task[t] \in Jobs /\ task[t].view \in States /\ task[t].pc = "record"
      /\ Passed("record", task[t].view) /\ task[t].left \subseteq Holds(task[t].view)
      /\ task[t].left # {} /\ task[t].left \in SUBSET Items /\ task[t].got \in SUBSET Items
  BY TaskFacts DEF CreateReminder, JobOK, Jobs
<1>2. PICK i : i = NextHold(task[t].left)
  OBVIOUS
<1>3. i \in task[t].left
  <2>1. task[t].left \in SUBSET Nat
    BY <1>1, EngineAssumption
  <2> QED BY <1>1, <1>2, <2>1, LeastOf DEF NextHold
<1>4. PICK hold : hold = <<i, task[t].view.artifacts[i].due>>
  OBVIOUS
<1>5. PICK dropped : dropped = [task[t] EXCEPT !.left = task[t].left \ {i}, !.tries = 0]
  OBVIOUS
<1>6. PICK again : again = [task[t] EXCEPT !.tries = task[t].tries + 1]
  OBVIOUS
<1>7. PICK made1 : made1 = [dropped EXCEPT !.got = task[t].got \cup {i}]
  OBVIOUS
<1>8. /\ UNCHANGED <<begun, sess, click, form, history>>
      /\ \/ /\ calendar[hold] < MaxEvents /\ calendar' = [calendar EXCEPT ![hold] = @ + 1]
            /\ task' = [task EXCEPT ![t] = made1]
         \/ /\ \/ calendar[hold] < MaxEvents /\ calendar' = [calendar EXCEPT ![hold] = @ + 1]
               \/ UNCHANGED calendar
            /\ \/ task' = [task EXCEPT ![t] = dropped]
               \/ task[t].tries + 1 # Attempts /\ task' = [task EXCEPT ![t] = again]
  BY <1>2, <1>4, <1>5, <1>6, <1>7 DEF CreateReminder, GivesUp
<1>9. i \in Items /\ i \in DOMAIN task[t].view.artifacts /\ hold \in Dated
  <2>1. i \in DOMAIN task[t].view.artifacts /\ task[t].view.artifacts[i].due # "none"
    BY <1>1, <1>3 DEF Holds
  <2>2. task[t].view.artifacts[i] \in Details
    BY <1>1, <2>1, StateFields, ItemListType
  <2>3. task[t].view.artifacts[i].due \in {"found", "typed"}
    BY <2>1, <2>2 DEF Details, Values
  <2> QED BY <1>1, <1>3, <1>4, <2>1, <2>3 DEF Dated
<1>10. /\ Frozen(task[t].view) /\ task[t].view.parsed.sourced /\ ~task[t].view.failed
       /\ task[t].view.artifacts = task[t].view.parsed.items
  BY <1>1, StateFields DEF Passed
<1>11. /\ dropped \in Jobs /\ dropped.view = task[t].view /\ dropped.fresh = task[t].fresh
       /\ dropped.pc = "record" /\ dropped.left \subseteq Holds(task[t].view)
       /\ dropped.got = task[t].got
  <2>1. 0 \in 0 .. (Attempts - 1)
    BY EngineAssumption
  <2> QED BY <1>1, <1>5, <2>1 DEF Jobs
<1>12. /\ made1 \in Jobs /\ made1.view = task[t].view /\ made1.fresh = task[t].fresh
       /\ made1.pc = "record" /\ made1.left \subseteq Holds(task[t].view)
       /\ made1.got = task[t].got \cup {i}
  BY <1>1, <1>7, <1>9, <1>11 DEF Jobs
<1>13. task[t].tries + 1 # Attempts =>
           /\ again \in Jobs /\ again.view = task[t].view /\ again.fresh = task[t].fresh
           /\ again.pc = "record" /\ again.left \subseteq Holds(task[t].view)
           /\ again.got = task[t].got
  <2>1. task[t].tries + 1 # Attempts => task[t].tries + 1 \in 0 .. (Attempts - 1)
    <3>1. task[t].tries \in 0 .. (Attempts - 1)
      BY <1>1 DEF Jobs
    <3> QED BY <3>1, EngineAssumption
  <2> QED BY <1>1, <1>6, <2>1 DEF Jobs
<1>14. ASSUME NEW j \in Jobs, j.view = task[t].view, j.fresh = task[t].fresh, j.pc = "record",
              j.left \subseteq Holds(task[t].view), j.got \subseteq task[t].got \cup {i},
              task' = [task EXCEPT ![t] = j]
       PROVE  Acts(t) /\ task'[t] = j
  <2>1. Passed(j.pc, task[t].view) /\ UNCHANGED <<sess, click>>
    BY <1>1, <1>8, <1>14
  <2> QED BY <1>14, <2>1, MoveActs
<1>15. CASE /\ calendar[hold] < MaxEvents /\ calendar' = [calendar EXCEPT ![hold] = @ + 1]
            /\ Acts(t) /\ task'[t].got \subseteq task[t].got \cup {i}
  <2>1. Created(t, i)
    BY <1>4, <1>9, <1>10, <1>15 DEF Created
  <2> QED BY <1>8, <1>9, <1>10, <1>15, <2>1
<1>16. CASE calendar' = calendar /\ Acts(t) /\ task'[t].got = task[t].got
  BY <1>8, <1>10, <1>16
<1>17. CASE /\ calendar[hold] < MaxEvents /\ calendar' = [calendar EXCEPT ![hold] = @ + 1]
            /\ task' = [task EXCEPT ![t] = made1]
  <2>1. Acts(t) /\ task'[t] = made1
    BY <1>12, <1>14, <1>17
  <2> QED BY <1>12, <1>15, <1>17, <2>1
<1>18. CASE \/ task' = [task EXCEPT ![t] = dropped]
            \/ task[t].tries + 1 # Attempts /\ task' = [task EXCEPT ![t] = again]
  <2>1. Acts(t) /\ task'[t].got = task[t].got
    BY <1>11, <1>13, <1>14, <1>18
  <2> QED BY <1>8, <1>15, <1>16, <2>1
<1> QED BY <1>8, <1>17, <1>18

\* The assembler makes its artifacts of the last parse.
LEMMA AssembleActs ==
    ASSUME TypeOK, CopiesOK, NEW t \in Tasks, Assemble(t)
    PROVE  /\ Acts(t) /\ UNCHANGED <<begun, form, calendar, asked, thanked, told>>
           /\ task'[t].got \in {task[t].got, {}} /\ sess'.reminders = sess.reminders
           /\ Frozen(task[t].view) /\ made' = task[t].view.parsed.items
<1>1. /\ task[t].view \in States /\ Coherent(task[t].view) /\ Passed("assemble", task[t].view)
      /\ task[t].view.gate # "PENDING"
  BY TaskFacts DEF Assemble, CreatesArtifacts
<1>2. Frozen(task[t].view) /\ task[t].view.artifacts = task[t].view.parsed.items
  BY <1>1 DEF Passed
<1>3. /\ Acts(t) /\ task'[t].got \in {task[t].got, {}} /\ sess'.reminders = sess.reminders
  <2>1. CASE \E done \in BOOLEAN : Emit(t, "ended", [done |-> done])
    <3>1. PICK done \in BOOLEAN : Emit(t, "ended", [done |-> done])
      BY <2>1
    <3>2. PICK delta : delta = [done |-> done]
      OBVIOUS
    <3>3. Follows(task[t].view, Applied(task[t].view, delta))
      BY <1>1, <1>2, <3>2, DoneFollows
    <3>4. /\ Acts(t) /\ task'[t].got \in {task[t].got, {}}
          /\ sess' = sess \/ (task[t].view = sess /\ sess' = Applied(sess, delta))
      BY <3>1, <3>2, <3>3, EmitActs DEF Stages
    <3>5. Applied(sess, delta).reminders = sess.reminders
      <4>1. DOMAIN sess = Keys
        BY TaskFacts, StateFields
      <4> QED BY <3>2, <4>1 DEF Applied, Keys
    <3> QED BY <3>4, <3>5
  <2>2. CASE Raise(t) /\ UNCHANGED <<sess, click>>
    BY <2>2, RaiseActs
  <2>3. \/ \E done \in BOOLEAN : Emit(t, "ended", [done |-> done])
        \/ Raise(t) /\ UNCHANGED <<sess, click>>
    BY DEF Assemble
  <2> QED BY <2>1, <2>2, <2>3
<1> QED BY <1>2, <1>3 DEF Assemble

\* What is posted leaves the session alone.
LEMMA PostActs ==
    ASSUME TypeOK, CopiesOK, NEW t \in Tasks, Post(t)
    PROVE  /\ Acts(t) /\ UNCHANGED <<begun, sess, calendar, thanked, told, made>>
           /\ task'[t].got \in {task[t].got, {}}
           /\ (form' = form /\ asked' = asked) \/ PostForm(t)
<1>1. /\ task[t] \in Jobs /\ task[t].view \in States /\ Coherent(task[t].view)
      /\ Passed(task[t].pc, task[t].view) /\ sess \in States /\ Follows(sess, sess)
  BY TaskFacts
<1>2. IdleTask \in Jobs /\ (\A s : JobOK(IdleTask, s)) /\ IdleTask.got = {}
  BY <1>1, EmptyHanded, IdleTypes
<1>3. CASE task' = [task EXCEPT ![t] = IdleTask] /\ UNCHANGED <<sess, click, outside>>
  BY <1>2, <1>3, AloneActs DEF outside, history
<1>4. CASE LoadResult(t)
  BY <1>3, <1>4, LoadActs DEF LoadResult, outside, history
<1>5. CASE PostForm(t)
  <2>1. PICK j : j = [task[t] EXCEPT !.pc = "note"]
    OBVIOUS
  <2>2. /\ j \in Jobs /\ j.view = task[t].view /\ j.fresh = task[t].fresh /\ j.pc = "note"
        /\ j.got = task[t].got
    BY <1>1, <2>1 DEF Jobs, Stages
  <2>3. task' = [task EXCEPT ![t] = j] /\ UNCHANGED <<sess, click>>
    BY <1>5, <2>1 DEF PostForm, Goto, TypeOK
  <2>4. Acts(t) /\ task'[t] = j
    BY <2>2, <2>3, MoveActs DEF Passed
  <2> QED BY <1>5, <2>2, <2>4 DEF PostForm
<1>6. CASE NoteForm(t)
  <2>1. CASE task' = [Stale(task) EXCEPT ![t] = IdleTask] /\ click' = Stale(click)
    <3>1. Follows(sess, sess') /\ JobOK(IdleTask, sess') /\ UNCHANGED <<sess, outside>>
      BY <1>1, <1>2, <1>6 DEF NoteForm
    <3> QED BY <1>2, <2>1, <3>1, AppendActs DEF outside, history
  <2>2. CASE task' = [task EXCEPT ![t] = IdleTask] /\ UNCHANGED click
    BY <1>3, <1>6, <2>2 DEF NoteForm
  <2> QED BY <1>6, <2>1, <2>2 DEF NoteForm
<1> QED BY <1>3, <1>4, <1>5, <1>6 DEF Post, PostReply, PostText

\* Everything a run does.
LEMMA RunActs ==
    ASSUME TypeOK, CopiesOK, NEW t \in Tasks, Run(t)
    PROVE  /\ Acts(t) /\ UNCHANGED <<begun, form, asked, thanked, told>>
           /\ \/ Aside(t) /\ UNCHANGED <<calendar, made>>
              \/ CreateReminder(t) \/ Assemble(t)
<1>1. CASE \/ Start(t) \/ Message(t) \/ Parse(t) \/ Gate(t) \/ OwnerGate(t) \/ Say(t)
           \/ FanOut(t) \/ Reminders(t) \/ RecordReminders(t) \/ Notes(t) \/ AssembleNothing(t)
  <2>1. Aside(t)
    BY <1>1, GateStages, FanStages
  <2>2. UNCHANGED outside
    BY <1>1 DEF Start, Message, Parse, Gate, OwnerGate, Say, FanOut, Reminders, RecordReminders,
                Notes, AssembleNothing
  <2> QED BY <2>1, <2>2 DEF Aside, outside, history
<1>2. CASE CreateReminder(t)
  BY <1>2, CreateActs DEF history
<1>3. CASE Assemble(t)
  BY <1>3, AssembleActs
<1> QED BY <1>1, <1>2, <1>3 DEF Run

\* What is left of the copies after a step.
LEMMA KeptOK ==
    ASSUME TypeOK, CopiesOK, GoesOn, NEW u \in Tasks, Kept(u)
    PROVE  /\ task'[u] \in Jobs /\ JobOK(task'[u], sess') /\ task'[u].got = task[u].got
           /\ task[u] = IdleTask => task'[u] = IdleTask
<1>1. task[u] \in Jobs /\ JobOK(task[u], sess)
  BY TaskFacts
<1>2. /\ task'[u] \in Jobs /\ task'[u].view = task[u].view /\ task'[u].pc = task[u].pc
      /\ task'[u].left = task[u].left /\ task'[u].got = task[u].got
      /\ task'[u].fresh => task[u].fresh /\ sess' = sess
  BY <1>1 DEF Kept, Jobs
<1>3. task[u] = IdleTask => task'[u] = IdleTask
  BY IdleTypes DEF Kept
<1>4. sess'.active = "meeting" => task'[u].view = NoSession \/ Precedes(task'[u].view, sess')
  BY <1>1, <1>2, PrecedesTransitively DEF GoesOn, JobOK
<1> QED BY <1>1, <1>2, <1>3, <1>4 DEF JobOK

LEMMA ClickKeptOK ==
    ASSUME TypeOK, CopiesOK, NEW h \in Clicks, ClickKept(h)
    PROVE  /\ click'[h] \in Submissions /\ SubmissionOK(click'[h], sess')
           /\ click'[h].typed = click[h].typed
           /\ click'[h].fresh => click[h].fresh /\ sess' = sess
           /\ click[h] = IdleClick => click'[h] = IdleClick
<1>1. click[h] \in Submissions /\ SubmissionOK(click[h], sess)
  BY DEF TypeOK, CopiesOK, Submissions
<1>2. /\ click'[h] \in Submissions /\ click'[h].view = click[h].view
      /\ click'[h].typed = click[h].typed
      /\ click'[h].fresh => click[h].fresh /\ sess' = sess
  BY <1>1 DEF ClickKept, Submissions
<1>3. click[h] = IdleClick => click'[h] = IdleClick
  BY IdleTypes DEF ClickKept
<1> QED BY <1>1, <1>2, <1>3 DEF SubmissionOK

\* The copies stay typed, and coherent with the session.
CopiesKept ==
    /\ CopiesOK' /\ sess' \in States
    /\ task' \in [Tasks -> Jobs] /\ click' \in [Clicks -> Submissions]

LEMMA CopiesTogether ==
    ASSUME TypeOK, CopiesOK, GoesOn, NEW t \in Tasks, OthersKept(t),
           task'[t] \in Jobs, JobOK(task'[t], sess'),
           \A h \in Clicks : click'[h] \in Submissions /\ SubmissionOK(click'[h], sess')
    PROVE  CopiesKept
<1>1. \A u \in Tasks : task'[u] \in Jobs /\ JobOK(task'[u], sess')
  BY KeptOK DEF OthersKept
<1>2. CopiesOK'
  BY <1>1 DEF CopiesOK, GoesOn
<1>3. task' \in [Tasks -> Jobs] /\ click' \in [Clicks -> Submissions]
  BY <1>1 DEF OthersKept
<1> QED BY <1>2, <1>3 DEF CopiesKept, GoesOn

LEMMA SucceedsGoesOn ==
    ASSUME Succeeds(sess, sess')
    PROVE  GoesOn
BY DEF Succeeds, Precedes, GoesOn

LEMMA ActsCopies ==
    ASSUME TypeOK, CopiesOK, NEW t \in Tasks, Acts(t)
    PROVE  CopiesKept /\ GoesOn
BY ClickKeptOK, CopiesTogether, SucceedsGoesOn DEF Acts, Follows

-------------------------------------------------------------------------------
\* What the person and a crash do

LEMMA StepCases ==
    ASSUME Next
    PROVE  \/ \E t \in Tasks :
                 \/ SlashMeeting(t) \/ PlainMessage(t) \/ Run(t) \/ Post(t)
                 \/ \E h \in Clicks : Acknowledge(h, t)
           \/ \E h \in Clicks : TryAgain(h) \/ \E typed \in SUBSET (form.shown \X Fields) : Submit(h, typed)
           \/ Exit
           \/ Crash
BY DEF Next, SubmitAny, Handle

\* A slot that a task is scheduled in; the others keep what they have, or have it stale.
LEMMA ScheduleOthers ==
    ASSUME TypeOK, CopiesOK, NEW t \in Tasks, NEW j,
           \/ task' = [task EXCEPT ![t] = j] /\ sess' = sess
           \/ task' = [Stale(task) EXCEPT ![t] = j],
           DOMAIN click' = Clicks, click' = [h \in DOMAIN click' |-> click'[h]]
    PROVE  OthersKept(t) /\ task'[t] = j
BY TaskFacts DEF Stale, OthersKept, Kept

LEMMA SlashSteps ==
    ASSUME Inv, NEW t \in Tasks, SlashMeeting(t)
    PROVE  /\ CopiesKept /\ UNCHANGED <<click, form, calendar, history>> /\ begun'
           /\ sess'.gate = "none" /\ ~sess'.done /\ sess'.reminders = {}
           /\ \A u \in Tasks : task'[u].got = {}
           /\ \A h \in Clicks : ~click[h].fresh
           /\ form = NoForm /\ thanked = {} /\ \A d \in Dated : calendar[d] = 0
<1> USE DEF Inv
<1>1. /\ \A u \in Tasks : task[u] = IdleTask
      /\ \A h \in Clicks : click[h] = IdleClick
      /\ sess = NoSession /\ form = NoForm /\ thanked = {} /\ \A d \in Dated : calendar[d] = 0
  BY DEF Unbegun, SlashMeeting
<1>2. PICK n \in {NewState("meeting"), NoSession}, j \in {IdleTask, NewTask("slash", "meeting")} :
         sess' = n /\ task' = [task EXCEPT ![t] = j]
  <2>1. task = [task EXCEPT ![t] = IdleTask]
    BY <1>1 DEF TypeOK
  <2> QED BY <1>1, <2>1 DEF SlashMeeting
<1>3. n \in States /\ Coherent(n) /\ n.gate = "none" /\ ~n.done /\ n.reminders = {}
  BY <1>2, NewStateFields DEF NoSession
<1>4. \A h \in Clicks : click'[h] \in Submissions /\ SubmissionOK(click'[h], sess') /\ ~click[h].fresh
  BY <1>1, IdleTypes DEF SlashMeeting, SubmissionOK
<1>5. \A i \in {IdleTask, j} : i \in Jobs /\ JobOK(i, n) /\ i.got = {}
  BY EmptyHanded, IdleTypes
<1>6. \A u \in Tasks : task'[u] \in {IdleTask, j}
  BY <1>1, <1>2 DEF TypeOK
<1>7. CopiesOK' /\ task' \in [Tasks -> Jobs] /\ click' \in [Clicks -> Submissions]
  <2>1. DOMAIN task' = Tasks /\ task' = [u \in Tasks |-> task'[u]]
    BY <1>2 DEF TypeOK
  <2>2. click' \in [Clicks -> Submissions]
    BY DEF SlashMeeting, TypeOK, Submissions
  <2> QED BY <1>2, <1>3, <1>4, <1>5, <1>6, <2>1, <2>2 DEF CopiesOK
<1> QED BY <1>1, <1>2, <1>3, <1>4, <1>5, <1>6, <1>7 DEF CopiesKept, SlashMeeting

LEMMA PlainSteps ==
    ASSUME TypeOK, CopiesOK, NEW t \in Tasks, PlainMessage(t)
    PROVE  /\ CopiesKept /\ OthersKept(t) /\ UNCHANGED outside /\ begun /\ GoesOn
           /\ task'[t].got = {} /\ \A h \in Clicks : ClickKept(h)
           /\ sess' = sess \/ (sess'.active = "default" /\ ~sess'.done /\ sess'.reminders = {})
<1>1. PICK j :
         /\ \E work \in {"none", "default", "meeting"} : j = NewTask("plain", work)
         /\ \/ task' = [task EXCEPT ![t] = j] /\ UNCHANGED <<sess, click>>
            \/ /\ task' = [Stale(task) EXCEPT ![t] = j] /\ sess' = NewState("default")
               /\ click' = Stale(click)
  BY TaskFacts, StateFields DEF PlainMessage
<1>2. j \in Jobs /\ (\A s : JobOK(j, s)) /\ j.got = {}
  BY <1>1, EmptyHanded, IdleTypes
<1>3. \A h \in Clicks : ClickKept(h)
  BY <1>1, TaskFacts DEF ClickKept, Stale
<1>4. DOMAIN click' = Clicks /\ click' = [h \in DOMAIN click' |-> click'[h]]
  BY <1>1, TaskFacts DEF Stale, TypeOK
<1>5. OthersKept(t) /\ task'[t] = j
  BY <1>1, <1>4, ScheduleOthers
<1>6. /\ sess' = sess \/ (sess'.active = "default" /\ ~sess'.done /\ sess'.reminders = {})
      /\ GoesOn
  BY <1>1, NewStateFields, TaskFacts DEF GoesOn, Follows, Succeeds
<1>7. CopiesKept
  BY <1>2, <1>3, <1>5, <1>6, ClickKeptOK, CopiesTogether
<1> QED BY <1>2, <1>3, <1>5, <1>6, <1>7 DEF PlainMessage

\* What was typed is saved over the session that waited for it.
LEMMA AcknowledgeSteps ==
    ASSUME TypeOK, CopiesOK, NEW t \in Tasks, NEW h \in Clicks, Acknowledge(h, t)
    PROVE  /\ CopiesKept /\ OthersKept(t) /\ Succeeds(sess, sess') /\ task'[t].got = {}
           /\ UNCHANGED <<begun, calendar, asked, made>> /\ form' = NoForm
           /\ thanked' = thanked \cup click[h].typed /\ click[h] # IdleClick /\ click[h].fresh
           /\ \A g \in Clicks : ~click'[g].fresh
           /\ sess'.gate = "RESOLVED" /\ ~sess'.done /\ sess'.reminders = sess.reminders
           /\ sess'.parsed.items = WithTyped(sess.parsed.items, click[h].typed)
<1>1. /\ click[h] \in Submissions /\ click[h].fresh /\ click[h].view = sess
      /\ sess.gate = "PENDING" /\ sess.parsed.known
  BY DEF Acknowledge, TypeOK, CopiesOK, Submissions, SubmissionOK, CanAppend
<1>2. PICK j : j = NewTask("resume", click[h].view.active)
  OBVIOUS
<1>3. j \in Jobs /\ (\A s : JobOK(j, s)) /\ j.got = {}
  <2>1. click[h].view.active \in {"none", "default", "meeting"}
    BY <1>1, StateFields DEF Submissions
  <2> QED BY <1>2, <2>1, EmptyHanded, IdleTypes
<1>4. /\ Succeeds(sess, sess') /\ sess'.gate = "RESOLVED" /\ ~sess'.done
      /\ sess'.reminders = sess.reminders
      /\ sess'.parsed.items = WithTyped(sess.parsed.items, click[h].typed)
  <2>1. sess' = Applied(sess, Assigned(sess, click[h].typed))
    BY <1>1 DEF Acknowledge
  <2> QED BY <1>1, <2>1, AssignedFollows, TaskFacts
<1>5. /\ task' = [Stale(task) EXCEPT ![t] = j]
      /\ click' = [Stale(click) EXCEPT ![h] = IdleClick]
  BY <1>2 DEF Acknowledge
<1>6. DOMAIN click' = Clicks /\ click' = [g \in DOMAIN click' |-> click'[g]]
  BY <1>5, TaskFacts DEF Stale
<1>7. \A g \in Clicks : click'[g] = IdleClick \/ ClickKept(g)
  BY <1>5, TaskFacts DEF Stale, ClickKept
<1>8. \A g \in Clicks : click'[g] \in Submissions /\ SubmissionOK(click'[g], sess') /\ ~click'[g].fresh
  <2>1. \A g \in Clicks : click'[g].fresh = FALSE
    <3>1. \A g \in Clicks : click'[g] \in {IdleClick, [click[g] EXCEPT !.fresh = FALSE]}
      BY <1>5, TaskFacts DEF Stale
    <3> QED BY <3>1, IdleTypes DEF TypeOK
  <2> QED BY <1>7, <2>1, ClickKeptOK, IdleTypes DEF SubmissionOK
<1>9. OthersKept(t) /\ task'[t] = j
  BY <1>5, <1>6, ScheduleOthers
<1>10. CopiesKept
  BY <1>3, <1>4, <1>8, <1>9, CopiesTogether, SucceedsGoesOn
<1> QED BY <1>1, <1>3, <1>4, <1>8, <1>9, <1>10 DEF Acknowledge

\* Only submissions change.
LEMMA SubmissionsAlone ==
    ASSUME TypeOK, CopiesOK, UNCHANGED <<sess, task>>, NEW h \in Clicks, NEW c \in Submissions,
           SubmissionOK(c, sess), click' = [click EXCEPT ![h] = c]
    PROVE  CopiesKept
<1>1. click' \in [Clicks -> Submissions] /\ \A g \in Clicks : SubmissionOK(click'[g], sess)
  BY DEF TypeOK, CopiesOK, Submissions
<1>2. task' \in [Tasks -> Jobs] /\ sess' \in States /\ \A u \in Tasks : JobOK(task'[u], sess')
  BY DEF TypeOK, CopiesOK, Jobs
<1> QED BY <1>1, <1>2 DEF CopiesKept, CopiesOK

LEMMA TryAgainSteps ==
    ASSUME TypeOK, CopiesOK, NEW h \in Clicks, TryAgain(h)
    PROVE  /\ CopiesKept /\ UNCHANGED <<begun, sess, task, calendar, asked, thanked, made>>
           /\ form' = NoForm /\ click[h] # IdleClick
           /\ \A g \in Clicks : click'[g] \in {click[g], IdleClick}
<1>1. IdleClick \in Submissions /\ SubmissionOK(IdleClick, sess)
  BY IdleTypes DEF SubmissionOK
<1> QED BY <1>1, SubmissionsAlone DEF TryAgain, TypeOK

LEMMA SubmitSteps ==
    ASSUME TypeOK, CopiesOK, NEW h \in Clicks, NEW typed \in SUBSET (form.shown \X Fields),
           Submit(h, typed)
    PROVE  /\ CopiesKept /\ UNCHANGED <<begun, sess, task, calendar, asked, thanked, made>>
           /\ form.up /\ form' \in {form, NoForm}
           /\ \A g \in Clicks : click'[g] = click[g] \/ click'[g].typed = typed
<1>1. CASE /\ sess.gate = "PENDING" /\ sess.parsed.known
           /\ click' = [click EXCEPT ![h] =
                         [pc |-> "append", typed |-> typed, view |-> sess, fresh |-> TRUE]]
           /\ UNCHANGED <<form, told>>
  <2>1. PICK c : c = [pc |-> "append", typed |-> typed, view |-> sess, fresh |-> TRUE]
    OBVIOUS
  <2>2. typed \subseteq Items \X Fields
    BY DEF TypeOK
  <2>3. c \in Submissions /\ SubmissionOK(c, sess) /\ c.typed = typed
    BY <1>1, <2>1, <2>2 DEF Submissions, SubmissionOK, TypeOK
  <2>4. UNCHANGED <<begun, sess, task, calendar, asked, thanked, made>> /\ form.up
    BY DEF Submit
  <2>5. CopiesKept
    BY <1>1, <2>1, <2>3, <2>4, SubmissionsAlone
  <2> QED BY <1>1, <2>1, <2>3, <2>4, <2>5 DEF TypeOK
<1>2. CASE form' = NoForm /\ UNCHANGED click
  <2>1. UNCHANGED <<begun, sess, task, calendar, asked, thanked, made>> /\ form.up
    BY DEF Submit
  <2>2. CopiesKept
    BY <1>2, <2>1 DEF CopiesKept, CopiesOK, TypeOK, Jobs, Submissions
  <2> QED BY <1>2, <2>1, <2>2
<1> QED BY <1>1, <1>2 DEF Submit

\* The thread is left, or everything in memory is lost.
LEMMA ExitSteps ==
    ASSUME TypeOK, CopiesOK, Exit
    PROVE  /\ CopiesKept /\ UNCHANGED outside /\ sess # NoSession
           /\ sess'.active = "none" /\ ~sess'.done /\ sess'.reminders = {}
           /\ \A u \in Tasks : task'[u].got = task[u].got
<1>1. /\ sess' \in States /\ Coherent(sess') /\ sess'.active = "none" /\ ~sess'.done
      /\ sess'.reminders = {}
  BY NewStateFields DEF Exit, NoSession
<1>2. /\ \A u \in Tasks : Kept(u)
      /\ \A h \in Clicks : ClickKept(h)
      /\ task' = [u \in Tasks |-> task'[u]] /\ click' = [h \in Clicks |-> click'[h]]
  BY TaskFacts DEF Exit, Stale, Kept, ClickKept, TypeOK
<1>3. \A u \in Tasks : task'[u] \in Jobs /\ JobOK(task'[u], sess') /\ task'[u].got = task[u].got
  BY <1>1, <1>2, KeptOK DEF GoesOn
<1>4. \A h \in Clicks : click'[h] \in Submissions /\ SubmissionOK(click'[h], sess')
  BY <1>2, ClickKeptOK
<1>5. CopiesOK' /\ task' \in [Tasks -> Jobs] /\ click' \in [Clicks -> Submissions]
  BY <1>1, <1>2, <1>3, <1>4 DEF CopiesOK
<1> QED BY <1>1, <1>3, <1>5 DEF CopiesKept, Exit

LEMMA CrashSteps ==
    ASSUME TypeOK, CopiesOK, Crash
    PROVE  /\ CopiesKept /\ UNCHANGED <<sess, outside>>
           /\ (\A u \in Tasks : task'[u] = IdleTask) /\ \A h \in Clicks : click'[h] = IdleClick
<1>1. IdleTask \in Jobs /\ JobOK(IdleTask, sess) /\ IdleClick \in Submissions /\ ~IdleClick.fresh
  BY IdleTypes, EmptyHanded
<1>2. CopiesOK' /\ task' \in [Tasks -> Jobs] /\ click' \in [Clicks -> Submissions]
  BY <1>1 DEF CopiesOK, Crash, SubmissionOK
<1> QED BY <1>2 DEF CopiesKept, Crash, TypeOK

-------------------------------------------------------------------------------
\* Every step keeps the questions posed

LEMMA LacksNoMore ==
    ASSUME NEW v, NEW s, v.parsed.known, Precedes(v, s)
    PROVE  Lacking(s) \subseteq Lacking(v) /\ DOMAIN s.parsed.items = DOMAIN v.parsed.items
BY RefinesLacks DEF Precedes, Refines, Lacking

\* No form is posted, and none submitted.
LEMMA PosedStays ==
    ASSUME CopiesOK, Posed, GoesOn, form' \in {form, NoForm}, asked' = asked,
           sess'.active = "meeting" /\ sess'.gate = "RESOLVED" => sess.gate = "RESOLVED",
           \A h \in Clicks : click'[h].fresh =>
               click[h].fresh /\ click'[h].typed = click[h].typed /\ sess' = sess
    PROVE  Posed'
<1> SUFFICES ASSUME sess'.active = "meeting"
             PROVE  /\ form'.up => /\ sess'.parsed.known
                                   /\ form'.shown \subseteq DOMAIN sess'.parsed.items
                                   /\ Lacking(sess') \subseteq asked'
                    /\ sess'.gate = "RESOLVED" => Lacking(sess') \subseteq asked'
                    /\ \A h \in Clicks : click'[h].fresh =>
                          /\ Lacking(sess') \subseteq asked'
                          /\ click'[h].typed \subseteq (DOMAIN sess'.parsed.items) \X Fields
  BY DEF Posed
<1>1. sess.active = "meeting" /\ Precedes(sess, sess')
  BY DEF GoesOn
<1>2. sess.parsed.known =>
          /\ Lacking(sess') \subseteq Lacking(sess) /\ sess'.parsed.known
          /\ DOMAIN sess'.parsed.items = DOMAIN sess.parsed.items
  BY <1>1, LacksNoMore DEF Precedes
<1>3. ASSUME form'.up
      PROVE  /\ sess'.parsed.known /\ form'.shown \subseteq DOMAIN sess'.parsed.items
             /\ Lacking(sess') \subseteq asked'
  <2>1. form' = form /\ form.up
    BY <1>3 DEF NoForm
  <2>2. sess.parsed.known /\ form.shown \subseteq DOMAIN sess.parsed.items /\ Lacking(sess) \subseteq asked
    BY <1>1, <2>1 DEF Posed
  <2>3. /\ sess'.parsed.known /\ form'.shown \subseteq DOMAIN sess'.parsed.items
        /\ Lacking(sess') \subseteq asked'
    BY <1>2, <2>1, <2>2
  <2> QED BY <2>3
<1>4. sess'.gate = "RESOLVED" => Lacking(sess') \subseteq asked'
  BY <1>1, <1>2 DEF Posed, CopiesOK, Coherent
<1>5. \A h \in Clicks : click'[h].fresh =>
          /\ Lacking(sess') \subseteq asked'
          /\ click'[h].typed \subseteq (DOMAIN sess'.parsed.items) \X Fields
  BY <1>1 DEF Posed
<1> QED BY <1>3, <1>4, <1>5

LEMMA PosedStep ==
    ASSUME Inv, [Next]_vars
    PROVE  Posed'
<1> USE DEF Inv
<1>1. ASSUME NEW t \in Tasks, Run(t) \/ Post(t), form' = form, asked' = asked
      PROVE  Posed'
  <2>1. Acts(t) /\ GoesOn
    BY <1>1, RunActs, PostActs, ActsCopies
  <2>2. /\ sess'.gate = "RESOLVED" => sess.gate = "RESOLVED"
        /\ \A h \in Clicks : click'[h].fresh =>
              click[h].fresh /\ click'[h].typed = click[h].typed /\ sess' = sess
    BY <2>1, ClickKeptOK DEF Acts, Follows
  <2> QED BY <1>1, <2>1, <2>2, PosedStays
<1>2. ASSUME NEW t \in Tasks, PostForm(t)
      PROVE  Posed'
  <2>1. /\ task[t].view.parsed.known /\ form' = [up |-> TRUE, shown |-> Lacking(task[t].view)]
        /\ asked' = asked \cup Lacking(task[t].view) /\ sess' = sess /\ click' = click
    BY <1>2 DEF PostForm, Shown, Lacking
  <2>2. ~NoSession.parsed.known
    BY NewStateFields DEF NoSession
  <2>3. sess.active = "meeting" => Precedes(task[t].view, sess)
    BY <2>1, <2>2, TaskFacts DEF JobOK
  <2>4. sess.active = "meeting" =>
            /\ sess.parsed.known /\ Lacking(sess) \subseteq Lacking(task[t].view)
            /\ Lacking(task[t].view) \subseteq DOMAIN sess.parsed.items
    <3>1. Lacking(task[t].view) \subseteq DOMAIN task[t].view.parsed.items
      BY DEF Lacking, Incomplete
    <3> QED BY <2>1, <2>3, <3>1, LacksNoMore DEF Precedes
  <2>5. form'.up /\ form'.shown = Lacking(task[t].view)
    BY <2>1
  <2> QED BY <2>1, <2>4, <2>5 DEF Posed
<1>3. ASSUME NEW t \in Tasks, PlainMessage(t)
      PROVE  Posed'
  <2>1. \A h \in Clicks : click'[h].fresh =>
            click[h].fresh /\ click'[h].typed = click[h].typed /\ sess' = sess
    BY <1>3, PlainSteps, ClickKeptOK
  <2>2. GoesOn /\ form' = form /\ asked' = asked /\ (sess' = sess \/ sess'.active = "default")
    BY <1>3, PlainSteps DEF outside, history
  <2> QED BY <2>1, <2>2, PosedStays
<1>4. ASSUME NEW t \in Tasks, NEW h \in Clicks, Acknowledge(h, t)
      PROVE  Posed'
  <2>1. /\ form' = NoForm /\ asked' = asked /\ click[h].fresh /\ Succeeds(sess, sess')
        /\ \A g \in Clicks : ~click'[g].fresh
    BY <1>4, AcknowledgeSteps
  <2>2. sess.parsed.known /\ sess'.active = sess.active /\ ~form'.up
    BY <2>1 DEF CopiesOK, SubmissionOK, Succeeds, Precedes, NoForm
  <2>3. Lacking(sess') \subseteq Lacking(sess)
    BY <2>1, <2>2, LacksNoMore DEF Succeeds
  <2>4. sess.active = "meeting" => Lacking(sess) \subseteq asked
    BY <2>1 DEF Posed
  <2> QED BY <2>1, <2>2, <2>3, <2>4 DEF Posed
<1>5. ASSUME NEW t \in Tasks, SlashMeeting(t)
      PROVE  Posed'
  BY <1>5, SlashSteps DEF Posed, NoForm
<1>6. ASSUME NEW h \in Clicks, NEW typed \in SUBSET (form.shown \X Fields), Submit(h, typed)
      PROVE  Posed'
  <2>1. /\ UNCHANGED <<sess, asked>> /\ form.up /\ form' \in {form, NoForm}
        /\ \A g \in Clicks : click'[g] = click[g] \/ click'[g].typed = typed
    BY <1>6, SubmitSteps
  <2>2. sess.active = "meeting" =>
            /\ sess.parsed.known /\ form.shown \subseteq DOMAIN sess.parsed.items
            /\ Lacking(sess) \subseteq asked
            /\ typed \subseteq (DOMAIN sess.parsed.items) \X Fields
    BY <2>1 DEF Posed
  <2>3. form'.up => form' = form
    BY <2>1 DEF NoForm
  <2> QED BY <2>1, <2>2, <2>3 DEF Posed
<1>7. ASSUME NEW h \in Clicks, TryAgain(h)
      PROVE  Posed'
  <2>1. /\ UNCHANGED <<sess, asked>> /\ form' = NoForm
        /\ \A g \in Clicks : click'[g] \in {click[g], IdleClick}
    BY <1>7, TryAgainSteps
  <2>2. ~form'.up /\ \A g \in Clicks : click'[g].fresh => click'[g] = click[g]
    BY <2>1, IdleTypes DEF NoForm
  <2> QED BY <2>1, <2>2 DEF Posed
<1>8. CASE Exit
  BY <1>8, ExitSteps DEF Posed
<1>9. CASE Crash
  BY <1>9, CrashSteps, IdleTypes DEF Posed, outside, history
<1>10. CASE UNCHANGED vars
  BY <1>10 DEF Posed, vars, history
<1>11. ASSUME NEW t \in Tasks, Run(t) \/ Post(t)
       PROVE  Posed'
  BY <1>1, <1>2, <1>11, RunActs, PostActs
<1> QED BY <1>3, <1>4, <1>5, <1>6, <1>7, <1>8, <1>9, <1>10, <1>11, StepCases

-------------------------------------------------------------------------------
\* Every step keeps the side effects those of the parse

\* In a meeting, a run that got past the form has the parse that stands.
LEMMA LastParse ==
    ASSUME TypeOK, CopiesOK, NEW t \in Tasks, Frozen(task[t].view), sess.active = "meeting"
    PROVE  Frozen(sess) /\ sess.parsed = task[t].view.parsed /\ Precedes(task[t].view, sess)
<1>1. task[t].view # NoSession
  BY NewStateFields DEF NoSession, Frozen
<1> QED BY <1>1, TaskFacts DEF JobOK, Precedes

LEMMA ReflectedStays ==
    ASSUME CopiesOK, Reflected, GoesOn, calendar' = calendar, made' = made,
           sess'.active = "meeting" /\ sess'.done => sess.done
    PROVE  Reflected'
<1>1. sess'.active = "meeting" =>
          sess.active = "meeting" /\ (Frozen(sess) => Frozen(sess') /\ sess'.parsed = sess.parsed)
  BY DEF GoesOn, Precedes
<1>2. sess'.active = "meeting" => \A d \in Dated : calendar'[d] > 0 => OfTheParse(d, sess')
  BY <1>1 DEF Reflected, OfTheParse
<1>3. sess'.active = "meeting" /\ sess'.done => made' = sess'.parsed.items
  BY <1>1 DEF Reflected, CopiesOK, Coherent
<1> QED BY <1>2, <1>3 DEF Reflected

LEMMA ReflectedStep ==
    ASSUME Inv, [Next]_vars
    PROVE  Reflected'
<1> USE DEF Inv
<1>1. ASSUME NEW t \in Tasks, CreateReminder(t)
      PROVE  Reflected'
  <2>1. /\ UNCHANGED <<sess, made>> /\ Frozen(task[t].view)
        /\ calendar' = calendar \/ \E i \in Items : Created(t, i)
    BY <1>1, CreateActs DEF history
  <2>2. ASSUME sess.active = "meeting", NEW i \in Items, Created(t, i), NEW d \in Dated, calendar'[d] > 0
        PROVE  OfTheParse(d, sess)
    <3>1. PICK hold \in Dated : hold = <<i, task[t].view.artifacts[i].due>>
      BY <2>2 DEF Created
    <3>2. CASE d = hold
      <4>1. d[1] = i /\ d[2] = task[t].view.artifacts[i].due
        BY <3>1, <3>2
      <4>2. /\ i \in DOMAIN task[t].view.parsed.items
            /\ task[t].view.artifacts = task[t].view.parsed.items
        BY <2>2 DEF Created
      <4>3. Frozen(sess) /\ sess.parsed = task[t].view.parsed
        BY <2>1, <2>2, LastParse
      <4> QED BY <4>1, <4>2, <4>3 DEF OfTheParse
    <3>3. CASE d # hold
      <4>1. calendar'[d] = calendar[d]
        BY <2>2, <3>1, <3>3 DEF Created, TypeOK
      <4> QED BY <2>2, <4>1 DEF Reflected
    <3> QED BY <3>2, <3>3
  <2> QED BY <2>1, <2>2 DEF Reflected
<1>2. ASSUME NEW t \in Tasks, Assemble(t)
      PROVE  Reflected'
  <2>1. /\ Acts(t) /\ calendar' = calendar /\ Frozen(task[t].view)
        /\ made' = task[t].view.parsed.items
    BY <1>2, AssembleActs
  <2>2. sess'.active = "meeting" =>
            /\ sess.active = "meeting"
            /\ Frozen(sess) /\ Frozen(sess') /\ sess'.parsed = sess.parsed
            /\ sess.parsed = task[t].view.parsed
    BY <2>1, LastParse DEF Acts, Follows, Succeeds, Precedes
  <2> QED BY <2>1, <2>2 DEF Reflected, OfTheParse
<1>3. ASSUME NEW t \in Tasks, Run(t)
      PROVE  Reflected'
  <2>1. CASE Aside(t) /\ UNCHANGED <<calendar, made>>
    BY <2>1, ActsCopies, ReflectedStays DEF Aside
  <2> QED BY <1>1, <1>2, <1>3, <2>1, RunActs
<1>4. ASSUME NEW t \in Tasks, Post(t)
      PROVE  Reflected'
  BY <1>4, PostActs, ActsCopies, ReflectedStays
<1>5. ASSUME NEW t \in Tasks, PlainMessage(t)
      PROVE  Reflected'
  BY <1>5, PlainSteps, ReflectedStays DEF outside, history
<1>6. ASSUME NEW t \in Tasks, NEW h \in Clicks, Acknowledge(h, t)
      PROVE  Reflected'
  BY <1>6, AcknowledgeSteps, SucceedsGoesOn, ReflectedStays
<1>7. ASSUME NEW t \in Tasks, SlashMeeting(t)
      PROVE  Reflected'
  <2>1. ~sess'.done /\ \A d \in Dated : calendar'[d] = 0
    BY <1>7, SlashSteps
  <2> QED BY <2>1 DEF Reflected
<1>8. CASE Exit
  BY <1>8, ExitSteps DEF Reflected
<1>9. CASE \/ Crash \/ UNCHANGED vars
           \/ \E h \in Clicks : TryAgain(h) \/ \E typed \in SUBSET (form.shown \X Fields) : Submit(h, typed)
  <2>1. UNCHANGED <<sess, calendar, made>>
    BY <1>9 DEF Crash, TryAgain, Submit, outside, history, vars
  <2> QED BY <2>1 DEF Reflected
<1> QED BY <1>3, <1>4, <1>5, <1>6, <1>7, <1>8, <1>9, StepCases

-------------------------------------------------------------------------------
\* Every step keeps the ids those of events

LEMMA CalendarTypes ==
    ASSUME TypeOK
    PROVE  \A d \in Dated : calendar[d] \in 0 .. MaxEvents /\ calendar[d] \in Nat
BY EngineAssumption DEF TypeOK

\* Events stay on the calendar.
LEMMA CollectedStays ==
    ASSUME Collected, Existing \subseteq Existing', sess'.reminders \subseteq Existing',
           \A t \in Tasks : task'[t].got \subseteq task[t].got \/ task'[t].got \subseteq Existing'
    PROVE  Collected'
BY DEF Collected

LEMMA CollectedStep ==
    ASSUME Inv, [Next]_vars
    PROVE  Collected'
<1> USE DEF Inv
<1>1. calendar' = calendar => Existing' = Existing
  BY DEF Existing, Reminded
<1>2. ASSUME NEW t \in Tasks, Acts(t)
      PROVE  \A u \in Tasks \ {t} : task'[u].got = task[u].got
  BY <1>2, ActsCopies, KeptOK DEF Acts, OthersKept
<1>3. ASSUME NEW t \in Tasks, CreateReminder(t)
      PROVE  Collected'
  <2>1. /\ Acts(t) /\ sess' = sess
        /\ (calendar' = calendar /\ task'[t].got = task[t].got) \/ \E i \in Items : Created(t, i)
    BY <1>3, CreateActs
  <2>2. CASE calendar' = calendar /\ task'[t].got = task[t].got
    BY <1>1, <1>2, <2>1, <2>2, CollectedStays DEF Collected
  <2>3. ASSUME NEW i \in Items, Created(t, i)
        PROVE  Collected'
    <3>1. PICK hold \in Dated : hold = <<i, task[t].view.artifacts[i].due>>
      BY <2>3 DEF Created
    <3>2. calendar' = [calendar EXCEPT ![hold] = calendar[hold] + 1]
      BY <2>3, <3>1 DEF Created
    <3>3. \A d \in Dated : calendar'[d] \in Nat /\ calendar'[d] >= calendar[d] /\ (d = hold => calendar'[d] > 0)
      BY <3>1, <3>2, CalendarTypes DEF TypeOK
    <3>4. ASSUME NEW j \in Items
          PROVE  /\ <<j, "found">> \in Dated /\ <<j, "typed">> \in Dated
                 /\ hold[1] = j => hold \in {<<j, "found">>, <<j, "typed">>}
      BY <3>1 DEF Dated
    <3>5. ASSUME NEW j \in Items, Reminded(j) > 0 \/ j = i
          PROVE  Reminded(j)' > 0
      <4>1. PICK a \in Dated, b \in Dated : a = <<j, "found">> /\ b = <<j, "typed">>
        BY <3>4
      <4>2. calendar[a] > 0 \/ calendar[b] > 0 \/ hold = a \/ hold = b
        BY <3>1, <3>4, <3>5, <4>1, CalendarTypes DEF Reminded
      <4>3. calendar'[a] > 0 \/ calendar'[b] > 0
        BY <3>3, <4>2, CalendarTypes
      <4> QED BY <3>3, <4>1, <4>3 DEF Reminded
    <3>6. Existing \subseteq Existing' /\ i \in Existing'
      BY <3>5 DEF Existing
    <3>7. task'[t].got \subseteq Existing'
      BY <2>3, <3>6 DEF Created, Collected
    <3>8. \A u \in Tasks : task'[u].got \subseteq task[u].got \/ task'[u].got \subseteq Existing'
      BY <1>2, <2>1, <3>7
    <3> QED BY <2>1, <3>6, <3>8, CollectedStays DEF Collected
  <2> QED BY <2>1, <2>2, <2>3
<1>4. ASSUME NEW t \in Tasks, Acts(t), calendar' = calendar, task'[t].got \in {task[t].got, {}},
             sess'.reminders \in {sess.reminders, task[t].got}
      PROVE  Collected'
  BY <1>1, <1>2, <1>4, CollectedStays DEF Collected
<1>5. ASSUME NEW t \in Tasks, Run(t) \/ Post(t)
      PROVE  Collected'
  BY <1>3, <1>4, <1>5, RunActs, PostActs, AssembleActs DEF Aside
<1>6. ASSUME NEW t \in Tasks, PlainMessage(t)
      PROVE  Collected'
  <2>1. /\ OthersKept(t) /\ calendar' = calendar /\ GoesOn /\ task'[t].got = {}
        /\ sess' = sess \/ sess'.reminders = {}
    BY <1>6, PlainSteps DEF outside
  <2>2. \A u \in Tasks \ {t} : task'[u].got = task[u].got
    BY <2>1, KeptOK DEF OthersKept
  <2> QED BY <1>1, <2>1, <2>2, CollectedStays DEF Collected
<1>7. ASSUME NEW t \in Tasks, NEW h \in Clicks, Acknowledge(h, t)
      PROVE  Collected'
  <2>1. /\ OthersKept(t) /\ calendar' = calendar /\ GoesOn /\ task'[t].got = {}
        /\ sess'.reminders = sess.reminders
    BY <1>7, AcknowledgeSteps, SucceedsGoesOn
  <2>2. \A u \in Tasks \ {t} : task'[u].got = task[u].got
    BY <2>1, KeptOK DEF OthersKept
  <2> QED BY <1>1, <2>1, <2>2, CollectedStays DEF Collected
<1>8. ASSUME NEW t \in Tasks, SlashMeeting(t)
      PROVE  Collected'
  BY <1>8, SlashSteps DEF Collected
<1>9. CASE Exit
  BY <1>1, <1>9, ExitSteps, CollectedStays DEF outside
<1>10. CASE Crash
  BY <1>1, <1>10, CrashSteps, IdleTypes, CollectedStays DEF outside, Collected
<1>11. CASE \/ UNCHANGED vars
            \/ \E h \in Clicks : TryAgain(h) \/ \E typed \in SUBSET (form.shown \X Fields) : Submit(h, typed)
  <2>1. UNCHANGED <<sess, task, calendar>>
    BY <1>11 DEF TryAgain, Submit, vars
  <2> QED BY <1>1, <2>1 DEF Collected
<1> QED BY <1>5, <1>6, <1>7, <1>8, <1>9, <1>10, <1>11, StepCases

-------------------------------------------------------------------------------
\* Every step keeps the assignments

LEMMA UnknownHasNoItems ==
    ASSUME NEW s \in States, ~s.parsed.known
    PROVE  DOMAIN s.parsed.items = {}
<1>1. s.parsed = Unparsed
  BY StateFields DEF Parses, ParsesFrom
<1> QED BY <1>1, NoItemsType DEF Unparsed

\* What was typed stays typed, in whatever the session becomes.
LEMMA AssignmentsStay ==
    ASSUME TypeOK, AssignmentsKept, GoesOn, thanked' = thanked
    PROVE  AssignmentsKept'
<1> SUFFICES ASSUME sess'.active = "meeting", NEW a \in thanked
             PROVE  a[1] \in DOMAIN sess'.parsed.items /\ sess'.parsed.items[a[1]][a[2]] = "typed"
  BY DEF AssignmentsKept
<1>1. /\ sess.active = "meeting" /\ Precedes(sess, sess') /\ sess \in States
      /\ a[2] \in Fields
  BY DEF GoesOn, TypeOK
<1>2. a[1] \in DOMAIN sess.parsed.items /\ sess.parsed.items[a[1]][a[2]] = "typed"
  BY <1>1 DEF AssignmentsKept
<1>3. Refines(sess.parsed.items, sess'.parsed.items)
  BY <1>1, <1>2, UnknownHasNoItems DEF Precedes
<1> QED BY <1>1, <1>2, <1>3 DEF Refines

LEMMA AssignmentsStep ==
    ASSUME Inv, [Next]_vars
    PROVE  AssignmentsKept'
<1> USE DEF Inv
<1>1. ASSUME NEW t \in Tasks, Run(t) \/ Post(t) \/ PlainMessage(t)
      PROVE  AssignmentsKept'
  BY <1>1, RunActs, PostActs, PlainSteps, ActsCopies, AssignmentsStay DEF outside, history
<1>2. ASSUME NEW t \in Tasks, NEW h \in Clicks, Acknowledge(h, t)
      PROVE  AssignmentsKept'
  <2>1. /\ Succeeds(sess, sess') /\ click[h].fresh
        /\ thanked' = thanked \cup click[h].typed
        /\ sess'.parsed.items = WithTyped(sess.parsed.items, click[h].typed)
    BY <1>2, AcknowledgeSteps
  <2>2. sess.parsed.items \in ItemLists /\ GoesOn
    BY <2>1, StateFields, SucceedsGoesOn DEF TypeOK
  <2>3. ASSUME sess'.active = "meeting", NEW a \in click[h].typed
        PROVE  a[1] \in DOMAIN sess'.parsed.items /\ sess'.parsed.items[a[1]][a[2]] = "typed"
    <3>1. click[h].typed \subseteq (DOMAIN sess.parsed.items) \X Fields
      BY <2>1, <2>2, <2>3 DEF Posed, GoesOn
    <3>2. a[1] \in DOMAIN sess.parsed.items /\ a[2] \in Fields /\ a = <<a[1], a[2]>>
      BY <2>3, <3>1
    <3>3. DOMAIN sess'.parsed.items = DOMAIN sess.parsed.items
      BY <2>1, <2>2, WithTypedRefines DEF Refines
    <3> QED BY <2>1, <2>2, <2>3, <3>2, <3>3, WithTypedRefines
  <2>4. ASSUME sess'.active = "meeting", NEW a \in thanked
        PROVE  a[1] \in DOMAIN sess'.parsed.items /\ sess'.parsed.items[a[1]][a[2]] = "typed"
    <3>1. sess.active = "meeting" /\ a[2] \in Fields
      BY <2>2, <2>4 DEF GoesOn, TypeOK
    <3>2. a[1] \in DOMAIN sess.parsed.items /\ sess.parsed.items[a[1]][a[2]] = "typed"
      BY <3>1 DEF AssignmentsKept
    <3>3. Refines(sess.parsed.items, sess'.parsed.items)
      BY <2>1, <2>2, WithTypedRefines
    <3> QED BY <3>1, <3>2, <3>3 DEF Refines
  <2> QED BY <2>1, <2>3, <2>4 DEF AssignmentsKept
<1>3. ASSUME NEW t \in Tasks, SlashMeeting(t)
      PROVE  AssignmentsKept'
  BY <1>3, SlashSteps DEF AssignmentsKept, history
<1>4. CASE Exit
  BY <1>4, ExitSteps DEF AssignmentsKept
<1>5. CASE \/ Crash \/ UNCHANGED vars
           \/ \E h \in Clicks : TryAgain(h) \/ \E typed \in SUBSET (form.shown \X Fields) : Submit(h, typed)
  <2>1. UNCHANGED <<sess, thanked>>
    BY <1>5 DEF Crash, TryAgain, Submit, outside, history, vars
  <2> QED BY <2>1 DEF AssignmentsKept
<1> QED BY <1>1, <1>2, <1>3, <1>4, <1>5, StepCases

-------------------------------------------------------------------------------
\* The rest of the state is typed, and before /meeting nothing else happens

Besides ==
    /\ begun' \in BOOLEAN /\ form' \in [up: BOOLEAN, shown: SUBSET Items]
    /\ calendar' \in [Dated -> 0 .. MaxEvents]
    /\ asked' \subseteq Items /\ thanked' \subseteq Items \X Fields
    /\ told' \in BOOLEAN /\ made' \in ItemLists
    /\ CopiesKept /\ Unbegun'

LEMMA BesidesStep ==
    ASSUME Inv, [Next]_vars
    PROVE  Besides
<1> USE DEF Inv
<1>1. /\ begun \in BOOLEAN /\ form \in [up: BOOLEAN, shown: SUBSET Items]
      /\ calendar \in [Dated -> 0 .. MaxEvents]
      /\ asked \subseteq Items /\ thanked \subseteq Items \X Fields
      /\ told \in BOOLEAN /\ made \in ItemLists
  BY DEF TypeOK
<1>2. NoForm \in [up: BOOLEAN, shown: SUBSET Items]
  BY DEF NoForm
<1>3. ASSUME NEW t \in Tasks, Run(t) \/ Post(t)
      PROVE  Besides
  <2>1. begun
    <3>1. task[t].pc # "idle"
      BY <1>3 DEF Run, Start, Message, Parse, Gate, OwnerGate, FanOut, Reminders, CreateReminder,
         RecordReminders, Notes, AssembleNothing, Assemble, Say, Post, PostReply, LoadResult,
         PostForm, PostText, NoteForm, RunOver
    <3> QED BY <3>1, IdleTypes DEF Unbegun
  <2>2. CopiesKept /\ UNCHANGED <<begun, thanked, told>>
    BY <1>3, RunActs, PostActs, ActsCopies
  <2>3. asked' \subseteq Items /\ form' \in [up: BOOLEAN, shown: SUBSET Items]
    <3>1. CASE PostForm(t)
      <4>1. task[t].view.parsed.items \in ItemLists
        BY TaskFacts, StateFields
      <4>2. Shown(task[t].view) \in SUBSET Items
        BY <4>1, ItemListType DEF Shown, Incomplete
      <4> QED BY <1>1, <3>1, <4>2 DEF PostForm
    <3> QED BY <1>1, <1>3, <3>1, RunActs, PostActs
  <2>4. calendar' \in [Dated -> 0 .. MaxEvents] /\ made' \in ItemLists
    <3>1. CASE CreateReminder(t)
      <4>1. made' = made
        BY <3>1, CreateActs DEF history
      <4>2. ASSUME NEW i \in Items, Created(t, i)
            PROVE  calendar' \in [Dated -> 0 .. MaxEvents]
        <5>1. PICK hold \in Dated : hold = <<i, task[t].view.artifacts[i].due>>
          BY <4>2 DEF Created
        <5>2. calendar' = [calendar EXCEPT ![hold] = calendar[hold] + 1] /\ calendar[hold] < MaxEvents
          BY <4>2, <5>1 DEF Created
        <5>3. calendar[hold] + 1 \in 0 .. MaxEvents
          BY <1>1, <5>2, EngineAssumption
        <5> QED BY <1>1, <5>2, <5>3
      <4> QED BY <1>1, <3>1, <4>1, <4>2, CreateActs
    <3>2. CASE Assemble(t)
      <4>1. task[t].view.parsed.items \in ItemLists
        BY TaskFacts, StateFields
      <4> QED BY <1>1, <3>2, <4>1, AssembleActs
    <3>3. CASE UNCHANGED <<calendar, made>>
      BY <1>1, <3>3
    <3> QED BY <1>3, <3>1, <3>2, <3>3, RunActs, PostActs
  <2> QED BY <1>1, <2>1, <2>2, <2>3, <2>4 DEF Besides, Unbegun
<1>4. ASSUME NEW t \in Tasks, PlainMessage(t)
      PROVE  Besides
  BY <1>1, <1>4, PlainSteps DEF Besides, Unbegun, outside, history
<1>5. ASSUME NEW t \in Tasks, NEW h \in Clicks, Acknowledge(h, t)
      PROVE  Besides
  <2>1. begun /\ told' = FALSE
    BY <1>5, AcknowledgeSteps DEF Unbegun, Acknowledge
  <2>2. click[h].typed \subseteq Items \X Fields
    BY DEF TypeOK
  <2> QED BY <1>1, <1>2, <1>5, <2>1, <2>2, AcknowledgeSteps DEF Besides, Unbegun
<1>6. ASSUME NEW t \in Tasks, SlashMeeting(t)
      PROVE  Besides
  BY <1>1, <1>6, SlashSteps DEF Besides, Unbegun, SlashMeeting, history
<1>7. ASSUME NEW h \in Clicks, NEW typed \in SUBSET (form.shown \X Fields), Submit(h, typed)
      PROVE  Besides
  <2>1. begun /\ told' \in BOOLEAN /\ form' \in [up: BOOLEAN, shown: SUBSET Items]
    BY <1>1, <1>2, <1>7, SubmitSteps DEF Unbegun, NoForm, Submit
  <2> QED BY <1>1, <1>7, <2>1, SubmitSteps DEF Besides, Unbegun
<1>8. ASSUME NEW h \in Clicks, TryAgain(h)
      PROVE  Besides
  <2>1. begun /\ told' = TRUE
    BY <1>8 DEF Unbegun, TryAgain
  <2> QED BY <1>1, <1>2, <1>8, <2>1, TryAgainSteps DEF Besides, Unbegun
<1>9. CASE Exit
  BY <1>1, <1>9, ExitSteps DEF Besides, Unbegun, outside, history
<1>10. CASE Crash
  BY <1>1, <1>10, CrashSteps DEF Besides, Unbegun, outside, history
<1>11. CASE UNCHANGED vars
  <2>1. CopiesKept
    BY <1>11 DEF CopiesKept, CopiesOK, TypeOK, Jobs, Submissions, vars
  <2> QED BY <1>1, <1>11, <2>1 DEF Besides, Unbegun, vars, history
<1> QED BY <1>3, <1>4, <1>5, <1>6, <1>7, <1>8, <1>9, <1>10, <1>11, StepCases

-------------------------------------------------------------------------------
\* The theorems

THEOREM Invariance == Spec => []Inv
<1>1. Init => Inv
  <2> SUFFICES ASSUME Init PROVE Inv
    OBVIOUS
  <2>1. /\ IdleTask \in Jobs /\ JobOK(IdleTask, sess) /\ IdleTask.got = {}
        /\ IdleClick \in Submissions /\ ~IdleClick.fresh
        /\ sess \in States /\ Coherent(sess) /\ sess.gate = "none" /\ ~sess.done
        /\ sess.active = "none" /\ sess.reminders = {}
    BY IdleTypes, EmptyHanded, NewStateFields DEF Init, NoSession
  <2>2. TypeOK
    <3>1. 0 \in 0 .. MaxEvents /\ made \in ItemLists /\ form \in [up: BOOLEAN, shown: SUBSET Items]
      BY EngineAssumption, NoItemsType DEF Init, NoForm
    <3>2. task \in [Tasks -> Jobs] /\ click \in [Clicks -> Submissions]
      BY <2>1 DEF Init
    <3> QED BY <2>1, <3>1, <3>2 DEF Init, TypeOK, Jobs, Submissions
  <2>3. Unbegun /\ CopiesOK
    BY <2>1 DEF Init, Unbegun, CopiesOK, SubmissionOK
  <2>4. Posed /\ Reflected /\ Collected /\ AssignmentsKept
    BY <2>1 DEF Init, Posed, Reflected, Collected, AssignmentsKept
  <2> QED BY <2>2, <2>3, <2>4 DEF Inv
<1>2. Inv /\ [Next]_vars => Inv'
  <2> SUFFICES ASSUME Inv, [Next]_vars PROVE Inv'
    OBVIOUS
  <2>1. TypeOK'
    BY BesidesStep DEF Besides, TypeOK, CopiesKept, Jobs, Submissions
  <2> QED BY <2>1, BesidesStep, PosedStep, ReflectedStep, CollectedStep, AssignmentsStep
          DEF Inv, Besides, CopiesKept
<1> QED BY <1>1, <1>2, PTL DEF Spec

\* The session, every copy of it, the form and the calendar are well typed.
THEOREM TypeCorrect == Spec => []TypeOK
<1>1. Inv => TypeOK
  BY DEF Inv
<1> QED BY <1>1, Invariance, PTL

\* No reminder, draft or row is made of an item that lacks an owner or a date and that no
\* form has shown.
THEOREM FormComesFirst == Spec => []IncompleteWereAsked
<1>1. Inv => IncompleteWereAsked
  <2> SUFFICES ASSUME Inv, sess.active = "meeting"
               PROVE  /\ \A d \in Dated : calendar[d] > 0 =>
                            d[1] \notin Incomplete(sess.parsed.items) \/ d[1] \in asked
                      /\ sess.done => Incomplete(sess.parsed.items) \subseteq asked
    BY DEF IncompleteWereAsked
  <2>1. Frozen(sess) => Incomplete(sess.parsed.items) \subseteq asked
    BY DEF Inv, Posed, Frozen, Lacking
  <2> QED BY <2>1 DEF Inv, Reflected, OfTheParse, CopiesOK, Coherent
<1> QED BY <1>1, Invariance, PTL

\* Reminders carry the due dates, and the assembled meeting the items, of the stored parse.
THEOREM WhatWasTypedIsReflected == Spec => []FormIsReflected
<1>1. Inv => FormIsReflected
  BY DEF Inv, Reflected, OfTheParse, FormIsReflected
<1> QED BY <1>1, Invariance, PTL

\* An acknowledged owner or date stays in the meeting's parse.
THEOREM AssignmentsStayTyped == Spec => []AssignmentsKept
<1>1. Inv => AssignmentsKept
  BY DEF Inv
<1> QED BY <1>1, Invariance, PTL

\* Every id the session holds is that of an event on the calendar.
THEOREM IdsAreOfEvents == Spec => []RecordedExist
<1>1. Inv => RecordedExist
  BY DEF Inv, Collected, Existing, RecordedExist
<1> QED BY <1>1, Invariance, PTL

\* A reminder is created only while the stored session neither waits for the form nor failed
\* the gate.
THEOREM RemindersWait == Spec => RemindersOnlyWhenClear
<1>1. Inv /\ [Next]_vars =>
          (sess.active = "meeting" /\ calendar' # calendar => sess.gate # "PENDING" /\ ~sess.failed)
  <2> SUFFICES ASSUME Inv, [Next]_vars, sess.active = "meeting", calendar' # calendar
               PROVE  sess.gate # "PENDING" /\ ~sess.failed
    OBVIOUS
  <2> USE DEF Inv
  <2>1. ~(\E t \in Tasks : Post(t) \/ PlainMessage(t) \/ \E h \in Clicks : Acknowledge(h, t))
    BY PostActs, PlainSteps, AcknowledgeSteps DEF outside
  <2>2. ~(UNCHANGED vars \/ Exit \/ Crash \/ \E t \in Tasks : SlashMeeting(t))
    BY DEF Exit, Crash, SlashMeeting, outside, vars
  <2>3. ~\E h \in Clicks : TryAgain(h) \/ \E typed \in SUBSET (form.shown \X Fields) : Submit(h, typed)
    BY DEF TryAgain, Submit
  <2>4. PICK t \in Tasks : CreateReminder(t)
    BY <2>1, <2>2, <2>3, StepCases, RunActs, AssembleActs
  <2>5. Frozen(task[t].view) /\ task[t].view.parsed.sourced /\ ~task[t].view.failed
    BY <2>4, CreateActs
  <2>6. Frozen(sess) /\ Precedes(task[t].view, sess)
    BY <2>5, LastParse
  <2> QED BY <2>5, <2>6 DEF Frozen, Precedes
<1> QED BY <1>1, Invariance, PTL DEF Spec, RemindersOnlyWhenClear

================================================================================
