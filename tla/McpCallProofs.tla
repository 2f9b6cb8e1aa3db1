----------------------------- MODULE McpCallProofs -----------------------------
(***************************************************************************)
(* Proofs about McpCall for any number of attempts.                        *)
(***************************************************************************)
EXTENDS McpCall, FiniteSetTheorems, TLAPS

\* Type correctness of the client and the servers.
CallTypes ==
    /\ retryOnTimeout \in BOOLEAN /\ dropped \in BOOLEAN
    /\ pc \in {"open", "wait", "failed", "returned", "raised"}
    /\ attempt \in Rounds
    /\ errors \in SUBSET Kinds
    /\ text \in {"none", "done", "refused"}
    /\ server \in [Rounds -> {"none", "running", "done", "refused", "failed", "gone"}]

\* Nothing has been set going by an attempt that has not opened its session.
NotAhead ==
    /\ \A i \in Rounds : i > attempt => server[i] = "none"
    /\ pc = "open" => server[attempt] = "none"

\* Without retries on a timeout, it takes a dropped connection to get to a second
\* attempt.
RetriedOnDrop ==
    /\ "drop" \in errors => dropped
    /\ ~retryOnTimeout /\ ~dropped => attempt = 1

Done == {i \in Rounds : server[i] = "done"}

\* The caller is told of nothing before the end, and of no work that was not done.
ToldTruly ==
    /\ pc = "returned" => text \in {"done", "refused"}
    /\ pc = "returned" /\ text = "done" => Done # {}

\* The inductive invariant.
Inv == CallTypes /\ NotAhead /\ RetriedOnDrop /\ ToldTruly

Outcome == CASE pc = "returned" -> text
             [] pc = "raised" -> "raised"
             [] OTHER -> "pending"

-------------------------------------------------------------------------------
\* The first state.
LEMMA InitInv == Init => Inv
<1> SUFFICES ASSUME Init PROVE Inv
  OBVIOUS
<1>1. 1 \in Rounds
  BY AttemptsAssumption DEF Rounds
<1>2. CallTypes
  BY <1>1 DEF Init, CallTypes
<1>3. NotAhead
  BY <1>1 DEF Init, NotAhead
<1> QED BY <1>2, <1>3 DEF Init, Inv, RetriedOnDrop, ToldTruly

\* What work is done stays done, and a step does at most one more piece of it.
LEMMA ServerStep ==
    ASSUME Inv, [Next]_vars
    PROVE  \/ Done' = Done
           \/ \E i \in Rounds \ Done : Done' = Done \cup {i} /\ Work(i)
<1> USE DEF Inv, CallTypes
<1>1. ASSUME NEW i \in Rounds, Work(i)
      PROVE  Done' = Done \/ (i \notin Done /\ Done' = Done \cup {i})
  BY <1>1 DEF Work, Done
<1>2. CASE Open
  BY <1>2 DEF Open, NotAhead, Done
<1>3. CASE UNCHANGED server
  BY <1>3 DEF Done
<1> QED BY <1>1, <1>2, <1>3
        DEF Next, Client, Receive, ReceiveError, Drop, TimeUp, Retry, GiveUp, vars

\* An attempt raises what is an exception, and has told of a drop.
LEMMA RaisesStep ==
    ASSUME Inv, NEW kinds \in SUBSET Kinds, Raises(kinds), UNCHANGED server
    PROVE  Inv'
BY DEF Inv, CallTypes, NotAhead, RetriedOnDrop, ToldTruly, Raises, Done

\* A step keeps the invariant.
LEMMA InvStep ==
    ASSUME Inv, [Next]_vars
    PROVE  Inv'
<1> USE DEF Inv, CallTypes, NotAhead, RetriedOnDrop, ToldTruly
<1>1. ASSUME NEW i \in Rounds, Work(i)
      PROVE  Inv'
  <2>1. Done \subseteq Done'
    BY <1>1 DEF Work, Done
  <2>2. i <= attempt /\ (pc = "open" => i # attempt)
    BY <1>1 DEF Work, Rounds
  <2> QED BY <1>1, <2>1, <2>2 DEF Work, client
<1>2. CASE Open
  <2>1. ASSUME NEW kinds \in SUBSET (Losses \cup {"timeout"}), Raises(kinds), UNCHANGED server
        PROVE  Inv'
    BY <2>1, RaisesStep DEF Kinds
  <2>2. CASE /\ server' = [server EXCEPT ![attempt] = "running"]
             /\ pc' = "wait"
             /\ UNCHANGED <<retryOnTimeout, attempt, errors, text, dropped>>
    BY <2>2 DEF Rounds
  <2> QED BY <1>2, <2>1, <2>2 DEF Open
<1>3. CASE Receive
  BY <1>3 DEF Receive, AnswerText, Done
<1>4. CASE ReceiveError
  BY <1>4, RaisesStep DEF ReceiveError, Kinds, Losses
<1>5. CASE Drop
  BY <1>5, RaisesStep DEF Drop, Kinds, Losses
<1>6. CASE TimeUp
  BY <1>6, RaisesStep DEF TimeUp, Kinds, Losses
<1>7. CASE Retry
  <2>1. attempt + 1 \in Rounds
    BY <1>7, AttemptsAssumption DEF Retry, IsLast, Rounds
  <2>2. retryOnTimeout \/ dropped
    BY <1>7 DEF Retry, IsTransient
  <2>3. \A i \in Rounds : i >= attempt + 1 => i > attempt
    BY DEF Rounds
  <2> QED BY <1>7, <2>1, <2>2, <2>3, AttemptsAssumption DEF Retry, Rounds, Done
<1>8. CASE GiveUp
  BY <1>8 DEF GiveUp
<1>9. CASE UNCHANGED vars
  BY <1>9 DEF vars, Done
<1> QED BY <1>1, <1>2, <1>3, <1>4, <1>5, <1>6, <1>7, <1>8, <1>9 DEF Next, Client

\* The inductive invariant of a call.
THEOREM Invariance == Spec => []Inv
BY InitInv, InvStep, PTL DEF Spec

\* However many attempts there are, two of them are at work at once only after a
\* connection has dropped, or if the call is retried on a timeout.
THEOREM NoRerunWhileAtWork == Spec => []NoConcurrentRerun
<1>1. Inv => NoConcurrentRerun
  BY AttemptsAssumption
  DEF Inv, CallTypes, NotAhead, RetriedOnDrop, NoConcurrentRerun, Rounds
<1> QED BY <1>1, Invariance, PTL

-------------------------------------------------------------------------------
\* The promise

\* How much work is done is bounded by the attempts, and counted one by one.
LEMMA DoneCounted ==
    ASSUME Inv
    PROVE  /\ Cardinality(Done) \in Nat
           /\ \A i \in Rounds \ Done : /\ Cardinality(Done \cup {i}) = Cardinality(Done) + 1
                                       /\ Cardinality(Done) < Attempts
           /\ Done # {} => Cardinality(Done) > 0
<1>1. IsFiniteSet(Rounds) /\ Cardinality(Rounds) = Attempts
  BY FS_Interval, AttemptsAssumption DEF Rounds
<1>2. IsFiniteSet(Done) /\ Cardinality(Done) \in Nat
  BY <1>1, FS_Subset, FS_CardinalityType DEF Done
<1>3. ASSUME NEW i \in Rounds \ Done
      PROVE  /\ Cardinality(Done \cup {i}) = Cardinality(Done) + 1
             /\ Cardinality(Done) < Attempts
  <2>1. Cardinality(Done \cup {i}) = Cardinality(Done) + 1
    BY <1>2, FS_AddElement
  <2>2. Cardinality(Done \cup {i}) <= Cardinality(Rounds)
    BY <1>1, FS_Subset DEF Done
  <2> QED BY <1>1, <1>2, <2>1, <2>2, AttemptsAssumption
<1>4. Done # {} => Cardinality(Done) > 0
  BY <1>2, FS_EmptySet
<1> QED BY <1>2, <1>3, <1>4

\* The first state is one of the promise's.
LEMMA InitPromise == Init => Promise!PromiseInit
<1>1. ASSUME Init
      PROVE  Done = {} /\ Outcome = "pending"
  BY <1>1 DEF Init, Done, Outcome
<1> QED BY <1>1, FS_EmptySet DEF Promise!PromiseInit, Done, Outcome

\* Every step of a call is one of the promise's, or none to it.
LEMMA StepPromise ==
    ASSUME Inv, Inv', [Next]_vars
    PROVE  [Promise!PromiseNext]_(Promise!promiseVars)
<1> DEFINE effects == Cardinality(Done)
<1>1. Outcome \in {"pending", "done", "refused", "raised"}
  BY DEF Inv, CallTypes, ToldTruly, Outcome
<1>2. ASSUME NEW i \in Rounds \ Done, Done' = Done \cup {i}, Work(i)
      PROVE  Promise!DoWork
  <2>1. Cardinality(Done') = Cardinality(Done) + 1 /\ Cardinality(Done) < Attempts
    BY <1>2, DoneCounted
  <2>2. Outcome' = Outcome
    BY <1>2 DEF Work, client, Outcome
  <2> QED BY <2>1, <2>2 DEF Promise!DoWork, Done, Outcome
<1>3. CASE Done' = Done
  <2>1. Outcome' = Outcome \/ (Outcome = "pending" /\ pc' \in {"returned", "raised"})
    BY DEF Next, Client, Work, client, Open, Receive, ReceiveError, Drop, TimeUp, Retry, GiveUp,
           Raises, vars, Outcome
  <2>2. Outcome' = "done" => Cardinality(Done) > 0
    BY <1>3, DoneCounted DEF Inv, ToldTruly, Outcome
  <2>3. pc' \in {"returned", "raised"} => Outcome' \in {"done", "refused", "raised"}
    BY DEF Inv, ToldTruly, Outcome
  <2> QED BY <1>3, <2>1, <2>2, <2>3
          DEF Promise!PromiseNext, Promise!Tell, Promise!promiseVars, Done, Outcome
<1> QED BY <1>2, <1>3, ServerStep DEF Promise!PromiseNext

\* A call implements the safety part of what its callers rely on: "done" is said only
\* of work that was done, which happens at most once per attempt.
THEOREM KeepsPromise == Spec => Promise!PromiseSafety
<1>1. Inv /\ Inv' /\ [Next]_vars => [Promise!PromiseNext]_(Promise!promiseVars)
  BY StepPromise
<1> QED BY <1>1, InitPromise, Invariance, PTL DEF Spec, Promise!PromiseSafety
================================================================================
