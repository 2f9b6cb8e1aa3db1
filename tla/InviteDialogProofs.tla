-------------------------- MODULE InviteDialogProofs ---------------------------
(***************************************************************************)
(* Proofs about InviteDialog for any items, people, submissions, calls at  *)
(* the server, attempts and faults.                                        *)
(***************************************************************************)
EXTENDS InviteDialog, WellFoundedInduction, TLAPS

Pairs == Items \X People

Jobs == [pc : {"idle", "load", "item", "call", "wait", "done"}, sel : [Items -> SUBSET People],
         left : SUBSET Recorded, emails : SUBSET People, tries : Nat, done : SUBSET Pairs]

Updates == [pc : {"idle", "get", "patch", "answer"}, waiting : SUBSET Requests,
            item : Items \cup {0}, add : SUBSET People, seen : SUBSET People]

Types ==
    /\ open \in BOOLEAN
    /\ event \in [Items -> SUBSET People]
    /\ request \in [Requests -> Jobs]
    /\ call \in [Calls -> Updates]
    /\ chosen \in SUBSET Pairs /\ refused \in SUBSET Pairs /\ invited \in SUBSET Pairs

\* A submission that calls the server has an item left, and its addresses are among the
\* people chosen for that one.
JobOK(job, picked) ==
    /\ \A i \in Items : \A p \in job.sel[i] : <<i, p>> \in picked
    /\ job.pc \in {"call", "wait"} =>
          job.left # {} /\ job.emails \subseteq job.sel[NextItem(job.left)]

\* A call adds chosen people, and found chosen people.
UpdateOK(update, picked) ==
    update.pc # "idle" =>
       /\ update.item \in Items
       /\ \A p \in update.add : <<update.item, p>> \in picked
       /\ update.pc = "patch" => \A p \in update.seen : <<update.item, p>> \in picked

\* Who waits for a call waits for the answer about its own item and addresses.
Waits(c, r) ==
    /\ call[c].pc # "idle" /\ request[r].pc = "wait"
    /\ call[c].item = NextItem(request[r].left) /\ call[c].add = request[r].emails

Chosen ==
    /\ \A r \in Requests : JobOK(request[r], chosen)
    /\ \A c \in Calls : UpdateOK(call[c], chosen)
    /\ OnlyTheChosen

Rightful == Types /\ Chosen

\* A request waits for one call at most, and for one of its own.
Waiting ==
    \A c \in Calls : \A r \in call[c].waiting :
       /\ Waits(c, r)
       /\ \A d \in Calls : r \in call[d].waiting => c = d

Inv == Rightful /\ Waiting

\* Where no updates have clashed, those at work on an event add the same people.
Alike ==
    \A c, d \in Calls :
       /\ call[c].pc # "idle" /\ call[d].pc # "idle"
       /\ call[c].item = call[d].item /\ call[c].item \notin clash
       => call[c].add = call[d].add

\* What such an update found is still there, and nothing has come in but what it adds.
Fresh ==
    \A c \in Calls :
       call[c].pc = "patch" /\ call[c].item \notin clash =>
          /\ call[c].seen \subseteq event[call[c].item]
          /\ event[call[c].item] \subseteq call[c].seen \cup call[c].add

Settled == Alike /\ Fresh

\* What is said, or will be, is on the event, or was refused, or overrun.
Backed(said, on, denied) == \A pair \in said \ denied : pair[2] \in on[pair[1]]

Denied == refused \cup overrun

Adds(c) == {call[c].item} \X call[c].add

Told ==
    /\ Backed(invited, event, Denied)
    /\ \A r \in Requests : Backed(request[r].done, event, Denied)
    /\ \A c \in Calls : call[c].pc = "answer" => Backed(Adds(c), event, Denied)

\* What a set of numbers has, it has a least of.
LEMMA LeastOf ==
    ASSUME NEW S \in SUBSET Nat, S # {}
    PROVE  (CHOOSE n \in S : \A m \in S : n <= m) \in S
<1> DEFINE R == {p \in Nat \X Nat : p[1] < p[2]}
<1>1. OpToRel(<, Nat) = R
  BY Zenon DEF OpToRel
<1>2. IsWellFoundedOn(R, Nat)
  BY <1>1, NatLessThanWellFounded
<1> HIDE DEF R
<1>3. PICK n \in S : \A m \in S : <<m, n>> \notin R
  BY <1>2, WFMin
<1>4. ASSUME NEW m \in S, m < n
      PROVE  FALSE
  <2>1. PICK p : p = <<m, n>>
    OBVIOUS
  <2>2. p \in Nat \X Nat /\ p[1] < p[2]
    BY <1>4, <2>1
  <2>3. p \in R
    BY <2>2 DEF R
  <2> QED BY <1>3, <2>1, <2>3
<1>5. \A m \in S : n <= m
  BY <1>4
<1> QED BY <1>5

LEMMA NextLeft ==
    ASSUME NEW left \in SUBSET Recorded, left # {}
    PROVE  NextItem(left) \in left /\ NextItem(left) \in Items
<1>1. left \in SUBSET Nat /\ left \in SUBSET Items
  BY DialogAssumption
<1> QED BY <1>1, LeastOf DEF NextItem

LEMMA IdleTypes ==
    /\ IdleRequest \in Jobs /\ EndedRequest \in Jobs /\ IdleCall \in Updates
    /\ NoneChosen \in [Items -> SUBSET People]
BY DEF IdleRequest, EndedRequest, IdleCall, Jobs, Updates, NoneChosen

\* A request that goes on to its next item chose the same, and waits for nothing.
LEMMA OnwardJob ==
    ASSUME NEW job \in Jobs
    PROVE  /\ Onward(job) \in Jobs /\ Onward(job).pc = "item"
           /\ Onward(job).sel = job.sel /\ Onward(job).done = job.done
           /\ Onward(job).emails = job.emails
BY DEF Onward, Jobs

LEMMA IdleJob ==
    ASSUME NEW picked
    PROVE  /\ JobOK(IdleRequest, picked) /\ JobOK(EndedRequest, picked)
           /\ UpdateOK(IdleCall, picked)
BY DEF JobOK, UpdateOK, IdleRequest, EndedRequest, IdleCall, NoneChosen

LEMMA InitRight == Init => Rightful
<1> SUFFICES ASSUME Init PROVE Rightful
  OBVIOUS
<1>1. Types
  BY IdleTypes DEF Init, Types
<1>2. Chosen
  BY IdleJob DEF Init, Chosen, OnlyTheChosen
<1> QED BY <1>1, <1>2 DEF Rightful

\* A step changes the request of one submission at most, or the calls of the server.
JobStep(r, job) == request' = [request EXCEPT ![r] = job]
UpdateStep(c, update) == call' = [call EXCEPT ![c] = update]

\* A request and a call that are right are so whatever else becomes chosen.
LEMMA MoreChosen ==
    ASSUME NEW job, NEW update, NEW picked, NEW more, picked \subseteq more
    PROVE  /\ JobOK(job, picked) => JobOK(job, more)
           /\ UpdateOK(update, picked) => UpdateOK(update, more)
BY DEF JobOK, UpdateOK

\* A step of one request, which is right before and after, keeps the invariant.
LEMMA JobKeeps ==
    ASSUME Rightful, NEW r \in Requests, NEW job \in Jobs, JobStep(r, job), JobOK(job, chosen),
           call' \in [Calls -> Updates], \A c \in Calls : UpdateOK(call'[c], chosen),
           UNCHANGED <<open, event, chosen, refused>>, invited' \in SUBSET Pairs
    PROVE  Rightful'
<1>1. Types'
  BY DEF Rightful, Types, JobStep
<1>2. \A q \in Requests : JobOK(request'[q], chosen')
  BY DEF Rightful, Types, Chosen, JobStep
<1>3. OnlyTheChosen'
  BY DEF Rightful, Chosen, OnlyTheChosen
<1> QED BY <1>1, <1>2, <1>3 DEF Rightful, Chosen

\* A step of one call that leaves the events alone keeps the invariant.
LEMMA UpdateKeeps ==
    ASSUME Rightful, NEW c \in Calls, NEW update \in Updates, UpdateStep(c, update),
           UpdateOK(update, chosen), request' \in [Requests -> Jobs],
           \A r \in Requests : JobOK(request'[r], chosen),
           UNCHANGED <<open, event, chosen, invited>>, refused' \in SUBSET Pairs
    PROVE  Rightful'
<1>1. Types'
  BY DEF Rightful, Types, UpdateStep
<1>2. \A d \in Calls : UpdateOK(call'[d], chosen')
  BY DEF Rightful, Types, Chosen, UpdateStep
<1>3. OnlyTheChosen'
  BY DEF Rightful, Chosen, OnlyTheChosen
<1> QED BY <1>1, <1>2, <1>3 DEF Rightful, Chosen

LEMMA SubmitKeeps ==
    ASSUME Rightful, NEW r \in Requests, NEW sel \in [Items -> SUBSET People], SubmitInvites(r, sel)
    PROVE  Rightful'
<1> DEFINE job == [IdleRequest EXCEPT !.pc = "load", !.sel = sel]
<1>1. /\ request' = [request EXCEPT ![r] = job]
      /\ chosen' = chosen \cup {pair \in Items \X People : pair[2] \in sel[pair[1]]}
      /\ UNCHANGED <<open, event, call, refused, invited>>
  BY DEF SubmitInvites
<1>2. job \in Jobs /\ job.sel = sel /\ job.pc = "load"
  BY DEF IdleRequest, Jobs
<1>3. \A i \in Items : \A p \in sel[i] : <<i, p>> \in chosen'
  BY <1>1
<1>4. JobOK(job, chosen')
  BY <1>2, <1>3 DEF JobOK
<1> HIDE DEF job
<1>5. chosen \subseteq chosen' /\ chosen' \in SUBSET Pairs
  BY <1>1 DEF Rightful, Types, Pairs
<1>6. Types'
  BY <1>1, <1>2, <1>5 DEF Rightful, Types
<1>7. \A q \in Requests : JobOK(request'[q], chosen')
  <2> SUFFICES ASSUME NEW q \in Requests PROVE JobOK(request'[q], chosen')
    OBVIOUS
  <2>1. CASE q = r
    BY <1>1, <1>4, <2>1 DEF Rightful, Types
  <2>2. CASE q # r
    <3>1. request'[q] = request[q] /\ JobOK(request[q], chosen)
      BY <1>1, <2>2 DEF Rightful, Types, Chosen
    <3> QED BY <3>1, <1>5, MoreChosen
  <2> QED BY <2>1, <2>2
<1>8. \A c \in Calls : UpdateOK(call'[c], chosen')
  <2> SUFFICES ASSUME NEW c \in Calls PROVE UpdateOK(call'[c], chosen')
    OBVIOUS
  <2>1. call'[c] = call[c] /\ UpdateOK(call[c], chosen)
    BY <1>1 DEF Rightful, Chosen
  <2> QED BY <2>1, <1>5, MoreChosen
<1>9. OnlyTheChosen'
  BY <1>1, <1>5 DEF Rightful, Chosen, OnlyTheChosen
<1> QED BY <1>6, <1>7, <1>8, <1>9 DEF Rightful, Chosen

LEMMA LeaveKeeps == Rightful /\ Leave => Rightful'
BY DEF Rightful, Types, Chosen, OnlyTheChosen, Leave

\* A request that calls nobody is right as long as what it chose is chosen.
LEMMA QuietJob ==
    ASSUME NEW job \in Jobs, NEW old \in Jobs, NEW picked, JobOK(old, picked),
           job.sel = old.sel, job.pc \notin {"call", "wait"}
    PROVE  JobOK(job, picked)
BY DEF JobOK

LEMMA LoadKeeps ==
    ASSUME Rightful, NEW r \in Requests, Load(r)
    PROVE  Rightful'
<1>1. request[r] \in Jobs /\ JobOK(request[r], chosen)
  BY DEF Rightful, Types, Chosen
<1> DEFINE picked == {i \in Recorded : request[r].sel[i] # {}}
           loaded == [request[r] EXCEPT !.pc = "item", !.left = picked]
<1>2. /\ JobStep(r, loaded) \/ JobStep(r, EndedRequest)
      /\ UNCHANGED <<open, event, call, chosen, refused, invited>>
  BY DEF Load, JobStep
<1>3. loaded \in Jobs /\ loaded.sel = request[r].sel /\ loaded.pc = "item"
  BY <1>1 DEF Jobs
<1>4. JobOK(loaded, chosen) /\ JobOK(EndedRequest, chosen)
  <2> HIDE DEF loaded
  <2> QED BY <1>1, <1>3, QuietJob, IdleJob
<1>5. /\ call' \in [Calls -> Updates] /\ \A c \in Calls : UpdateOK(call'[c], chosen)
      /\ invited' \in SUBSET Pairs
  BY <1>2 DEF Rightful, Types, Chosen
<1> HIDE DEF loaded
<1> QED BY <1>2, <1>3, <1>4, <1>5, IdleTypes, JobKeeps

LEMMA ResolveKeeps ==
    ASSUME Rightful, NEW r \in Requests, Resolve(r)
    PROVE  Rightful'
<1>1. request[r] \in Jobs /\ JobOK(request[r], chosen) /\ request[r].pc = "item"
      /\ request[r].left # {} /\ request[r].left \in SUBSET Recorded
  BY DEF Rightful, Types, Chosen, Resolve, Jobs
<1>2. NextItem(request[r].left) \in Items
  BY <1>1, NextLeft
<1>3. PICK emails : /\ emails \subseteq request[r].sel[NextItem(request[r].left)]
                    /\ \/ JobStep(r, Onward(request[r]))
                       \/ JobStep(r, [request[r] EXCEPT !.pc = "call", !.emails = emails])
                    /\ UNCHANGED <<open, event, call, chosen, refused, invited>>
  <2> DEFINE sel == request[r].sel[NextItem(request[r].left)]
  <2>1. PICK unknown :
           JobStep(r, IF sel \ unknown = {} THEN Onward(request[r])
                      ELSE [request[r] EXCEPT !.pc = "call", !.emails = sel \ unknown])
    BY DEF Resolve, Emails, JobStep
  <2>2. UNCHANGED <<open, event, call, chosen, refused, invited>>
    BY DEF Resolve
  <2>3. sel \ unknown \subseteq sel
    OBVIOUS
  <2> HIDE DEF sel
  <2>4. \/ JobStep(r, Onward(request[r]))
        \/ JobStep(r, [request[r] EXCEPT !.pc = "call", !.emails = sel \ unknown])
    BY <2>1
  <2> QED BY <2>2, <2>3, <2>4 DEF sel
<1> DEFINE calling == [request[r] EXCEPT !.pc = "call", !.emails = emails]
<1>4. /\ calling \in Jobs /\ calling.sel = request[r].sel /\ calling.left = request[r].left
      /\ calling.emails = emails
  BY <1>1, <1>2, <1>3 DEF Jobs
<1>5. JobOK(calling, chosen)
  <2> HIDE DEF calling
  <2> QED BY <1>1, <1>3, <1>4 DEF JobOK
<1>6. Onward(request[r]) \in Jobs /\ JobOK(Onward(request[r]), chosen)
  BY <1>1, OnwardJob, QuietJob
<1>7. /\ call' \in [Calls -> Updates] /\ \A c \in Calls : UpdateOK(call'[c], chosen)
      /\ invited' \in SUBSET Pairs
  BY <1>3 DEF Rightful, Types, Chosen
<1>8. JobStep(r, Onward(request[r])) \/ JobStep(r, calling)
  BY <1>3
<1> HIDE DEF calling
<1> QED BY <1>3, <1>4, <1>5, <1>6, <1>7, <1>8, JobKeeps

LEMMA CallKeeps ==
    ASSUME Rightful, NEW r \in Requests, NEW c \in Calls, CallUpdate(r, c)
    PROVE  Rightful'
<1>1. request[r] \in Jobs /\ JobOK(request[r], chosen) /\ request[r].pc = "call"
      /\ request[r].left # {} /\ request[r].left \in SUBSET Recorded
  BY DEF Rightful, Types, Chosen, CallUpdate, Jobs, JobOK
<1>2. NextItem(request[r].left) \in Items
  BY <1>1, NextLeft
<1> DEFINE update == [pc |-> "get", waiting |-> {r}, seen |-> {},
                      item |-> NextItem(request[r].left), add |-> request[r].emails]
           waiting == [request[r] EXCEPT !.pc = "wait"]
<1>3. /\ JobStep(r, waiting) /\ UpdateStep(c, update)
      /\ UNCHANGED <<open, event, chosen, refused, invited>>
  BY DEF CallUpdate, JobStep, UpdateStep
<1>4. update \in Updates
  BY <1>1, <1>2 DEF Updates, Jobs
<1>5. \A p \in request[r].emails : <<NextItem(request[r].left), p>> \in chosen
  BY <1>1, <1>2 DEF JobOK
<1>6. UpdateOK(update, chosen)
  BY <1>2, <1>5 DEF UpdateOK
<1>7. waiting \in Jobs /\ JobOK(waiting, chosen)
  BY <1>1 DEF Jobs, JobOK
<1> HIDE DEF update, waiting
<1>8. call' \in [Calls -> Updates] /\ \A d \in Calls : UpdateOK(call'[d], chosen)
  BY <1>3, <1>4, <1>6 DEF Rightful, Types, Chosen, UpdateStep
<1>9. invited' \in SUBSET Pairs
  BY <1>3 DEF Rightful, Types
<1> QED BY <1>3, <1>7, <1>8, <1>9, JobKeeps

LEMMA LoseKeeps ==
    ASSUME Rightful, NEW r \in Requests, LoseCall(r)
    PROVE  Rightful'
<1>1. request[r] \in Jobs /\ JobOK(request[r], chosen) /\ request[r].pc = "wait"
  BY DEF Rightful, Types, Chosen, LoseCall
<1> DEFINE again == [request[r] EXCEPT !.pc = "call", !.tries = request[r].tries + 1]
<1>2. /\ JobStep(r, Onward(request[r])) \/ JobStep(r, again)
      /\ call' = [c \in Calls |-> [call[c] EXCEPT !.waiting = call[c].waiting \ {r}]]
      /\ UNCHANGED <<open, event, chosen, refused, invited>>
  BY DEF LoseCall, JobStep
<1>3. Onward(request[r]) \in Jobs /\ JobOK(Onward(request[r]), chosen)
  BY <1>1, OnwardJob, QuietJob
<1>4. again \in Jobs /\ JobOK(again, chosen)
  <2>1. request[r].tries + 1 \in Nat
    BY <1>1 DEF Jobs
  <2>2. again \in Jobs
    BY <1>1, <2>1 DEF Jobs
  <2>3. /\ again.sel = request[r].sel /\ again.left = request[r].left
        /\ again.emails = request[r].emails
    BY <1>1 DEF Jobs
  <2> HIDE DEF again
  <2> QED BY <1>1, <2>2, <2>3 DEF JobOK
<1>5. ASSUME NEW c \in Calls
      PROVE  call'[c] \in Updates /\ UpdateOK(call'[c], chosen)
  <2>1. call[c] \in Updates /\ UpdateOK(call[c], chosen)
    BY DEF Rightful, Types, Chosen
  <2>2. call'[c] = [call[c] EXCEPT !.waiting = call[c].waiting \ {r}]
    BY <1>2
  <2> QED BY <2>1, <2>2 DEF Updates, UpdateOK
<1>6. call' \in [Calls -> Updates]
  BY <1>2, <1>5
<1>7. invited' \in SUBSET Pairs
  BY <1>2 DEF Rightful, Types
<1> HIDE DEF again
<1> QED BY <1>2, <1>3, <1>4, <1>5, <1>6, <1>7, JobKeeps

LEMMA ReportKeeps ==
    ASSUME Rightful, NEW r \in Requests, Report(r)
    PROVE  Rightful'
<1>1. JobStep(r, EndedRequest) /\ UNCHANGED <<open, event, call, chosen, refused>>
      /\ invited' = invited \cup request[r].done /\ request[r] \in Jobs
  BY DEF Report, JobStep, Rightful, Types
<1>2. invited' \in SUBSET Pairs
  BY <1>1 DEF Jobs, Rightful, Types
<1>3. call' \in [Calls -> Updates] /\ \A c \in Calls : UpdateOK(call'[c], chosen)
  BY <1>1 DEF Rightful, Types, Chosen
<1> QED BY <1>1, <1>2, <1>3, IdleTypes, IdleJob, JobKeeps

LEMMA GetKeeps ==
    ASSUME Rightful, NEW c \in Calls, Get(c)
    PROVE  Rightful'
<1>1. /\ call[c] \in Updates /\ UpdateOK(call[c], chosen) /\ call[c].pc = "get"
  BY DEF Rightful, Types, Chosen, Get
<1>2. call[c].item \in Items
  BY <1>1 DEF UpdateOK
<1> DEFINE update == [call[c] EXCEPT !.pc = "patch", !.seen = event[call[c].item]]
<1>3. UpdateStep(c, update) /\ UNCHANGED <<open, event, request, chosen, refused, invited>>
  BY <1>1, <1>2 DEF Get, UpdateStep, Rightful, Types, Updates
<1>4. update \in Updates
  BY <1>1, <1>2 DEF Updates, Rightful, Types
<1>5. \A p \in event[call[c].item] : <<call[c].item, p>> \in chosen
  BY <1>2 DEF Rightful, Chosen, OnlyTheChosen
<1>6. UpdateOK(update, chosen)
  BY <1>1, <1>2, <1>5 DEF UpdateOK, Updates
<1> HIDE DEF update
<1>7. /\ request' \in [Requests -> Jobs] /\ \A r \in Requests : JobOK(request'[r], chosen)
      /\ refused' \in SUBSET Pairs
  BY <1>3 DEF Rightful, Types, Chosen
<1> QED BY <1>3, <1>4, <1>6, <1>7, UpdateKeeps

\* The update writes who was found, and who was to be added.
LEMMA PatchActs ==
    ASSUME Rightful, NEW c \in Calls, Patch(c)
    PROVE  /\ call[c] \in Updates /\ call[c].pc = "patch" /\ call[c].item \in Items
           /\ event' \in [Items -> SUBSET People]
           /\ \A i \in Items \ {call[c].item} : event'[i] = event[i]
           /\ event'[call[c].item] = call[c].seen \cup call[c].add
           /\ UpdateStep(c, [call[c] EXCEPT !.pc = "answer", !.seen = {}])
           /\ UNCHANGED <<open, request, chosen, refused, invited, clash>>
<1>1. call[c] \in Updates /\ UpdateOK(call[c], chosen) /\ call[c].pc = "patch"
  BY DEF Rightful, Types, Chosen, Patch
<1>2. call[c].item \in Items
  BY <1>1 DEF UpdateOK
<1>3. call[c].seen \cup call[c].add \in SUBSET People
  BY <1>1 DEF Updates
<1> QED BY <1>1, <1>2, <1>3 DEF Patch, Merged, UpdateStep, Rightful, Types

LEMMA PatchKeeps ==
    ASSUME Rightful, NEW c \in Calls, Patch(c)
    PROVE  Rightful'
<1> DEFINE update == [call[c] EXCEPT !.pc = "answer", !.seen = {}]
<1>1. /\ call[c] \in Updates /\ call[c].pc = "patch" /\ call[c].item \in Items
      /\ event' \in [Items -> SUBSET People]
      /\ \A i \in Items \ {call[c].item} : event'[i] = event[i]
      /\ event'[call[c].item] = call[c].seen \cup call[c].add
      /\ UpdateStep(c, update) /\ UNCHANGED <<open, request, chosen, refused, invited>>
  BY PatchActs
<1>2. UpdateOK(call[c], chosen)
  BY DEF Rightful, Chosen
<1>3. update \in Updates /\ UpdateOK(update, chosen)
  BY <1>1, <1>2 DEF Updates, UpdateOK
<1>4. Types'
  BY <1>1, <1>3 DEF Rightful, Types, UpdateStep
<1>5. \A d \in Calls : UpdateOK(call'[d], chosen')
  BY <1>1, <1>3 DEF Rightful, Types, Chosen, UpdateStep
<1>6. \A r \in Requests : JobOK(request'[r], chosen')
  BY <1>1 DEF Rightful, Chosen
<1>7. ASSUME NEW i \in Items, NEW p \in event'[i]
      PROVE  <<i, p>> \in chosen'
  <2>1. CASE i = call[c].item
    BY <1>1, <1>2, <1>7, <2>1 DEF UpdateOK
  <2>2. CASE i # call[c].item
    BY <1>1, <1>7, <2>2 DEF Rightful, Chosen, OnlyTheChosen
  <2> QED BY <2>1, <2>2
<1> QED BY <1>4, <1>5, <1>6, <1>7 DEF Rightful, Chosen, OnlyTheChosen

\* A request that is answered goes on, with what will be said of the answer.
Answered(r) == [Onward(request[r]) EXCEPT !.done = request[r].done \cup Reported(request[r])]

LEMMA AnswerActs ==
    ASSUME NEW c \in Calls, Answer(c)
    PROVE  /\ UpdateStep(c, IdleCall) /\ UNCHANGED <<open, event, chosen, invited, overrun>>
           /\ request' = [r \in Requests |->
                 IF r \in call[c].waiting THEN Answered(r) ELSE request[r]]
           /\ call[c].pc \in {"get", "patch", "answer"}
           /\ \/ call[c].pc = "answer" /\ UNCHANGED refused
              \/ /\ call[c].pc \in {"get", "patch"}
                 /\ refused' = refused \cup ({call[c].item} \X call[c].add)
BY DEF Answer, Answered, UpdateStep

LEMMA AnsweredJob ==
    ASSUME Rightful, NEW r \in Requests, request[r].pc = "wait"
    PROVE  /\ NextItem(request[r].left) \in Items /\ request[r].emails \in SUBSET People
           /\ Answered(r) \in Jobs /\ JobOK(Answered(r), chosen)
           /\ Answered(r).pc = "item"
           /\ Answered(r).done =
                 request[r].done \cup ({NextItem(request[r].left)} \X request[r].emails)
<1>1. /\ request[r] \in Jobs /\ JobOK(request[r], chosen) /\ request[r].left # {}
      /\ request[r].left \in SUBSET Recorded /\ request[r].emails \in SUBSET People
  BY DEF Rightful, Types, Chosen, JobOK, Jobs
<1>2. NextItem(request[r].left) \in Items
  BY <1>1, NextLeft
<1> DEFINE said == request[r].done \cup ({NextItem(request[r].left)} \X request[r].emails)
<1>3. said \in SUBSET Pairs
  BY <1>1, <1>2 DEF Jobs, Pairs
<1>4. Answered(r) = [Onward(request[r]) EXCEPT !.done = said]
  BY DEF Answered, Reported
<1> HIDE DEF said
<1>5. /\ Onward(request[r]) \in Jobs /\ Onward(request[r]).pc = "item"
      /\ Onward(request[r]).sel = request[r].sel
  BY <1>1, OnwardJob
<1>6. /\ Answered(r) \in Jobs /\ Answered(r).sel = request[r].sel
      /\ Answered(r).pc = "item" /\ Answered(r).done = said
  BY <1>3, <1>4, <1>5 DEF Jobs
<1>7. JobOK(Answered(r), chosen)
  BY <1>1, <1>6, QuietJob
<1> QED BY <1>1, <1>2, <1>6, <1>7 DEF said

LEMMA AnswerKeeps ==
    ASSUME Inv, NEW c \in Calls, Answer(c)
    PROVE  Rightful'
<1>1. /\ UpdateStep(c, IdleCall) /\ UNCHANGED <<open, event, chosen, invited>>
      /\ request' = [r \in Requests |->
                        IF r \in call[c].waiting THEN Answered(r) ELSE request[r]]
  BY AnswerActs
<1>2. refused' \in SUBSET Pairs
  <2>1. CASE UNCHANGED refused
    BY <2>1 DEF Inv, Rightful, Types
  <2>2. CASE /\ call[c].pc \in {"get", "patch"}
             /\ refused' = refused \cup ({call[c].item} \X call[c].add)
    <3>1. call[c].item \in Items /\ call[c].add \in SUBSET People
      BY <2>2 DEF Inv, Rightful, Types, Chosen, Updates, UpdateOK
    <3> QED BY <2>2, <3>1 DEF Inv, Rightful, Types, Pairs
  <2> QED BY <2>1, <2>2, AnswerActs
<1>3. ASSUME NEW r \in Requests
      PROVE  request'[r] \in Jobs /\ JobOK(request'[r], chosen)
  <2>1. CASE r \in call[c].waiting
    <3>1. request[r].pc = "wait" /\ request'[r] = Answered(r)
      BY <1>1, <2>1 DEF Inv, Waiting, Waits
    <3> QED BY <3>1, AnsweredJob DEF Inv
  <2>2. CASE r \notin call[c].waiting
    BY <1>1, <2>2 DEF Inv, Rightful, Types, Chosen
  <2> QED BY <2>1, <2>2
<1>4. request' \in [Requests -> Jobs]
  BY <1>1, <1>3
<1> QED BY <1>1, <1>2, <1>3, <1>4, IdleTypes, IdleJob, UpdateKeeps DEF Inv

LEMMA RightfulStep == Inv /\ [Next]_vars => Rightful'
<1> SUFFICES ASSUME Inv, [Next]_vars PROVE Rightful'
  OBVIOUS
<1>1. CASE Leave
  BY <1>1, LeaveKeeps DEF Inv
<1>2. ASSUME NEW r \in Requests, Work(r)
      PROVE  Rightful'
  BY <1>2, LoadKeeps, ResolveKeeps, CallKeeps, LoseKeeps, ReportKeeps DEF Work, Inv
<1>3. ASSUME NEW r \in Requests, NEW sel \in [Items -> SUBSET People], SubmitInvites(r, sel)
      PROVE  Rightful'
  BY <1>3, SubmitKeeps DEF Inv
<1>4. ASSUME NEW c \in Calls, Serve(c)
      PROVE  Rightful'
  BY <1>4, GetKeeps, PatchKeeps, AnswerKeeps DEF Serve, Inv
<1>5. CASE UNCHANGED vars
  BY <1>5 DEF vars, Inv, Rightful, Types, Chosen, OnlyTheChosen
<1> QED BY <1>1, <1>2, <1>3, <1>4, <1>5, DialogAssumption DEF Next

-------------------------------------------------------------------------------
\* Who waits for what

\* Calls nobody turns to, and requests that wait for nothing, do not matter.
LEMMA WaitingKept ==
    ASSUME Inv,
           \A d \in Calls : call'[d].waiting \subseteq call[d].waiting,
           \A d \in Calls : call'[d].waiting # {} =>
              /\ call'[d].pc # "idle" /\ call'[d].item = call[d].item
              /\ call'[d].add = call[d].add,
           \A d \in Calls : \A q \in call'[d].waiting : request'[q] = request[q]
    PROVE  Waiting'
BY DEF Inv, Waiting, Waits

\* A request that is not at "wait" is nobody's.
LEMMA Unawaited ==
    ASSUME Inv, NEW r \in Requests, request[r].pc # "wait", NEW c \in Calls
    PROVE  r \notin call[c].waiting
BY DEF Inv, Waiting, Waits

\* A step of such a request that leaves the calls alone.
LEMMA JobWaits ==
    ASSUME Inv, NEW r \in Requests, request[r].pc # "wait", UNCHANGED call,
           \A q \in Requests \ {r} : request'[q] = request[q]
    PROVE  Waiting'
<1>1. \A c \in Calls : \A q \in call[c].waiting : q \in Requests \ {r} /\ call[c].pc # "idle"
  BY Unawaited DEF Inv, Rightful, Types, Updates, Waiting, Waits
<1> QED BY <1>1, WaitingKept

LEMMA CallWaits ==
    ASSUME Inv, NEW r \in Requests, NEW c \in Calls, CallUpdate(r, c)
    PROVE  Waiting'
<1>1. /\ request[r] \in Jobs /\ request[r].pc = "call" /\ call[c] = IdleCall
      /\ request' = [request EXCEPT ![r].pc = "wait"]
      /\ call' = [call EXCEPT ![c] =
            [pc |-> "get", waiting |-> {r}, seen |-> {},
             item |-> NextItem(request[r].left), add |-> request[r].emails]]
  BY DEF CallUpdate, Inv, Rightful, Types
<1>2. /\ call'[c].waiting = {r} /\ call'[c].pc = "get"
      /\ call'[c].item = NextItem(request[r].left) /\ call'[c].add = request[r].emails
      /\ \A d \in Calls \ {c} : call'[d] = call[d]
  BY <1>1 DEF Inv, Rightful, Types
<1>3. /\ request'[r].pc = "wait" /\ request'[r].left = request[r].left
      /\ request'[r].emails = request[r].emails
      /\ \A q \in Requests \ {r} : request'[q] = request[q]
  BY <1>1 DEF Inv, Rightful, Types, Jobs
<1>4. Waits(c, r)'
  BY <1>2, <1>3 DEF Waits
<1>5. \A d \in Calls \ {c} : \A q \in call[d].waiting : q \in Requests \ {r}
  BY <1>1, Unawaited DEF Inv, Rightful, Types, Updates
<1>6. \A d \in Calls \ {c} : \A q \in call'[d].waiting : Waits(d, q)'
  BY <1>2, <1>3, <1>5 DEF Inv, Waiting, Waits
<1>7. ASSUME NEW d \in Calls, NEW e \in Calls, NEW q \in call'[d].waiting, q \in call'[e].waiting
      PROVE  d = e
  <2>1. CASE d = c \/ e = c
    BY <1>2, <1>5, <1>7, <2>1
  <2>2. CASE d # c /\ e # c
    BY <1>2, <1>7, <2>2 DEF Inv, Waiting
  <2> QED BY <2>1, <2>2
<1> QED BY <1>2, <1>4, <1>6, <1>7 DEF Waiting

LEMMA LoseWaits ==
    ASSUME Inv, NEW r \in Requests, LoseCall(r)
    PROVE  Waiting'
<1>1. /\ call' = [c \in Calls |-> [call[c] EXCEPT !.waiting = call[c].waiting \ {r}]]
      /\ \A q \in Requests \ {r} : request'[q] = request[q]
  BY DEF LoseCall, Inv, Rightful, Types
<1>2. ASSUME NEW c \in Calls
      PROVE  /\ call'[c].waiting = call[c].waiting \ {r} /\ call'[c].pc = call[c].pc
             /\ call'[c].item = call[c].item /\ call'[c].add = call[c].add
             /\ call[c].waiting \subseteq Requests
  BY <1>1 DEF Inv, Rightful, Types, Updates
<1>3. \A c \in Calls : \A q \in call[c].waiting : call[c].pc # "idle"
  BY DEF Inv, Waiting, Waits
<1> QED BY <1>1, <1>2, <1>3, WaitingKept

LEMMA GetWaits ==
    ASSUME Inv, NEW c \in Calls, Get(c)
    PROVE  Waiting'
<1>1. /\ call[c] \in Updates /\ UNCHANGED request
      /\ call' = [call EXCEPT ![c].pc = "patch", ![c].seen = event[call[c].item]]
  BY DEF Get, Inv, Rightful, Types
<1>2. /\ call'[c].waiting = call[c].waiting /\ call'[c].pc = "patch"
      /\ call'[c].item = call[c].item /\ call'[c].add = call[c].add
      /\ \A d \in Calls \ {c} : call'[d] = call[d]
  BY <1>1 DEF Inv, Rightful, Types, Updates
<1>3. \A d \in Calls : \A q \in call[d].waiting : call[d].pc # "idle"
  BY DEF Inv, Waiting, Waits
<1> QED BY <1>1, <1>2, <1>3, WaitingKept

LEMMA PatchWaits ==
    ASSUME Inv, NEW c \in Calls, Patch(c)
    PROVE  Waiting'
<1>1. /\ call[c] \in Updates /\ UNCHANGED request
      /\ UpdateStep(c, [call[c] EXCEPT !.pc = "answer", !.seen = {}])
  BY PatchActs DEF Inv
<1>2. /\ call'[c].waiting = call[c].waiting /\ call'[c].pc = "answer"
      /\ call'[c].item = call[c].item /\ call'[c].add = call[c].add
      /\ \A d \in Calls \ {c} : call'[d] = call[d]
  BY <1>1 DEF UpdateStep, Inv, Rightful, Types, Updates
<1>3. \A d \in Calls : \A q \in call[d].waiting : call[d].pc # "idle"
  BY DEF Inv, Waiting, Waits
<1> QED BY <1>1, <1>2, <1>3, WaitingKept

LEMMA AnswerWaits ==
    ASSUME Inv, NEW c \in Calls, Answer(c)
    PROVE  Waiting'
<1>1. /\ UpdateStep(c, IdleCall)
      /\ request' = [r \in Requests |->
                        IF r \in call[c].waiting THEN Answered(r) ELSE request[r]]
  BY AnswerActs
<1>2. call'[c].waiting = {} /\ \A d \in Calls \ {c} : call'[d] = call[d]
  BY <1>1 DEF UpdateStep, IdleCall, Inv, Rightful, Types
<1>3. \A d \in Calls \ {c} : \A q \in call[d].waiting :
         /\ q \in Requests /\ q \notin call[c].waiting /\ call[d].pc # "idle"
  BY DEF Inv, Rightful, Types, Updates, Waiting, Waits
<1>4. \A d \in Calls : \A q \in call'[d].waiting : request'[q] = request[q]
  BY <1>1, <1>2, <1>3
<1>5. \A d \in Calls : call'[d].waiting # {} => d \in Calls \ {c}
  BY <1>2
<1> QED BY <1>2, <1>3, <1>4, <1>5, WaitingKept

LEMMA InvStep == Inv /\ [Next]_vars => Inv'
<1> SUFFICES ASSUME Inv, [Next]_vars PROVE Waiting'
  BY RightfulStep DEF Inv
<1>1. CASE Leave
  BY <1>1 DEF Leave, Inv, Waiting, Waits
<1>2. ASSUME NEW r \in Requests, Work(r)
      PROVE  Waiting'
  <2>1. ASSUME Load(r) \/ Resolve(r) \/ Report(r)
        PROVE  /\ request[r].pc # "wait" /\ UNCHANGED call
               /\ \A q \in Requests \ {r} : request'[q] = request[q]
    BY <2>1 DEF Load, Resolve, Report, Inv, Rightful, Types
  <2> QED BY <1>2, <2>1, JobWaits, CallWaits, LoseWaits DEF Work
<1>3. ASSUME NEW r \in Requests, NEW sel \in [Items -> SUBSET People], SubmitInvites(r, sel)
      PROVE  Waiting'
  <2>1. /\ request[r].pc # "wait" /\ UNCHANGED call
        /\ \A q \in Requests \ {r} : request'[q] = request[q]
    BY <1>3 DEF SubmitInvites, IdleRequest, Inv, Rightful, Types
  <2> QED BY <2>1, JobWaits
<1>4. ASSUME NEW c \in Calls, Serve(c)
      PROVE  Waiting'
  BY <1>4, GetWaits, PatchWaits, AnswerWaits DEF Serve
<1>5. CASE UNCHANGED vars
  BY <1>5 DEF vars, Inv, Waiting, Waits
<1> QED BY <1>1, <1>2, <1>3, <1>4, <1>5, DialogAssumption DEF Next

\* Every reachable state of the dialog satisfies the inductive invariant.
THEOREM Invariance == Spec => []Inv
<1>1. Init => Inv
  <2> SUFFICES ASSUME Init PROVE Waiting
    BY InitRight DEF Inv
  <2> QED BY DEF Init, IdleCall, Waiting
<1> QED BY <1>1, InvStep, PTL DEF Spec

\* artifacts.py: "/meeting never adds anyone to an event without the user choosing to":
\* whatever submissions overlap, and whatever calls are lost, repeated or refused.
THEOREM ChosenOnly == Spec => []OnlyTheChosen
<1>1. Inv => OnlyTheChosen
  BY DEF Inv, Rightful, Chosen
<1> QED BY <1>1, Invariance, PTL

-------------------------------------------------------------------------------
\* Where no updates have clashed

\* Only a patch changes events, and nothing that was refused or overrun is forgotten.
LEMMA EventKept ==
    ASSUME Inv, [Next]_vars, \A c \in Calls : ~Patch(c)
    PROVE  UNCHANGED event /\ Denied \subseteq Denied'
<1>1. ASSUME NEW r \in Requests, Work(r)
      PROVE  UNCHANGED event /\ Denied \subseteq Denied'
  BY <1>1 DEF Work, Load, Resolve, CallUpdate, LoseCall, Report, Denied
<1>2. ASSUME NEW r \in Requests, NEW sel \in Picks, SubmitInvites(r, sel)
      PROVE  UNCHANGED event /\ Denied \subseteq Denied'
  BY <1>2 DEF SubmitInvites, Denied
<1>3. ASSUME NEW c \in Calls, Serve(c)
      PROVE  UNCHANGED event /\ Denied \subseteq Denied'
  BY <1>3, AnswerActs DEF Serve, Get, Denied
<1>4. CASE Leave \/ UNCHANGED vars
  BY <1>4 DEF Leave, vars, Denied
<1> QED BY <1>1, <1>2, <1>3, <1>4 DEF Next

\* The update writes back all it found, and outside a clash nothing else has come in;
\* in a clash, those it takes off are noted.
LEMMA EventGrows ==
    ASSUME Inv, Settled, [Next]_vars
    PROVE  /\ \A i \in Items \ clash : event[i] \subseteq event'[i]
           /\ \A i \in Items : \A p \in event[i] \ event'[i] : <<i, p>> \in Denied'
           /\ Denied \subseteq Denied'
<1>1. ASSUME NEW c \in Calls, Patch(c)
      PROVE  /\ \A i \in Items \ clash : event[i] \subseteq event'[i]
             /\ \A i \in Items : \A p \in event[i] \ event'[i] : <<i, p>> \in Denied'
             /\ Denied \subseteq Denied'
  <2>1. /\ call[c].pc = "patch" /\ call[c].item \in Items
        /\ \A i \in Items \ {call[c].item} : event'[i] = event[i]
        /\ event'[call[c].item] = call[c].seen \cup call[c].add
    BY <1>1, PatchActs DEF Inv
  <2>2. call[c].item \notin clash => event[call[c].item] \subseteq event'[call[c].item]
    BY <2>1 DEF Settled, Fresh
  <2>3. overrun' = overrun \cup ((clash \cap {call[c].item})
                                    \X (event[call[c].item] \ event'[call[c].item]))
    BY <1>1, <2>1 DEF Patch, Merged
  <2>4. Denied \subseteq Denied'
    BY <1>1, <2>3 DEF Patch, Denied
  <2>5. ASSUME NEW i \in Items, NEW p \in event[i] \ event'[i]
        PROVE  <<i, p>> \in Denied'
    <3>1. i = call[c].item /\ i \in clash
      BY <2>1, <2>2, <2>5
    <3> QED BY <2>3, <2>5, <3>1 DEF Denied
  <2> QED BY <2>1, <2>2, <2>4, <2>5
<1> QED BY <1>1, EventKept

\* A call that ends, or goes on as it is, or has just read the event.
LEMMA SettledKept ==
    ASSUME Settled, UNCHANGED event, clash \subseteq clash',
           \A d \in Calls :
              \/ call'[d].pc = "idle"
              \/ /\ call[d].pc # "idle"
                 /\ call'[d].item = call[d].item /\ call'[d].add = call[d].add
                 /\ \/ call'[d].pc = call[d].pc /\ call'[d].seen = call[d].seen
                    \/ call'[d].seen = event[call[d].item]
    PROVE  Settled'
BY DEF Settled, Alike, Fresh

\* A call that begins adds what the others do, or clashes with them.
LEMMA SettledCall ==
    ASSUME Inv, Settled, NEW r \in Requests, NEW c \in Calls, CallUpdate(r, c)
    PROVE  Settled'
<1> DEFINE i == NextItem(request[r].left)
<1>1. /\ call'[c].pc = "get" /\ call'[c].item = i /\ call'[c].add = request[r].emails
      /\ \A d \in Calls \ {c} : call'[d] = call[d]
      /\ UNCHANGED event
  BY DEF CallUpdate, Inv, Rightful, Types
<1>2. /\ clash \subseteq clash'
      /\ i \notin clash' => \A d \in AtWork(i) : call[d].add = request[r].emails
  BY DEF CallUpdate
<1> HIDE DEF i
<1>3. ASSUME NEW d \in Calls \ {c}, call[d].pc # "idle", call[d].item = i, i \notin clash'
      PROVE  call[d].add = request[r].emails
  BY <1>2, <1>3 DEF AtWork
<1>4. Alike'
  <2> SUFFICES ASSUME NEW d \in Calls, NEW e \in Calls,
                      call'[d].pc # "idle", call'[e].pc # "idle",
                      call'[d].item = call'[e].item, call'[d].item \notin clash'
               PROVE  call'[d].add = call'[e].add
    BY DEF Alike
  <2>1. CASE d # c /\ e # c
    BY <1>1, <1>2, <2>1 DEF Settled, Alike
  <2>2. CASE d = c \/ e = c
    BY <1>1, <1>3, <2>2
  <2> QED BY <2>1, <2>2
<1>5. Fresh'
  BY <1>1, <1>2 DEF Settled, Fresh
<1> QED BY <1>4, <1>5 DEF Settled

\* A clash ends with the last call that is at work on the event.
LEMMA SettledAnswer ==
    ASSUME Inv, Settled, NEW c \in Calls, Answer(c)
    PROVE  Settled'
<1>1. /\ UNCHANGED event /\ call'[c].pc = "idle" /\ \A d \in Calls \ {c} : call'[d] = call[d]
  BY AnswerActs DEF UpdateStep, IdleCall, Inv, Rightful, Types
<1>2. ASSUME NEW d \in Calls, call'[d].pc # "idle", call'[d].item \notin clash'
      PROVE  call'[d] = call[d] /\ call[d].item \notin clash
  <2>1. d # c /\ call'[d] = call[d]
    BY <1>1, <1>2
  <2>2. CASE AtWork(call[c].item) = {c}
    <3>1. call[d].item # call[c].item
      BY <1>2, <2>1, <2>2 DEF AtWork
    <3>2. clash' = clash \ {call[c].item}
      BY <2>2 DEF Answer
    <3> QED BY <1>2, <2>1, <3>1, <3>2
  <2>3. CASE AtWork(call[c].item) # {c}
    BY <1>2, <2>1, <2>3 DEF Answer
  <2> QED BY <2>1, <2>2, <2>3
<1>3. Alike'
  BY <1>2 DEF Settled, Alike
<1>4. Fresh'
  BY <1>1, <1>2 DEF Settled, Fresh
<1> QED BY <1>3, <1>4 DEF Settled

\* A write outside a clash leaves the others' finds there, and adds what they do.
LEMMA SettledPatch ==
    ASSUME Inv, Settled, NEW c \in Calls, Patch(c)
    PROVE  Settled'
<1>1. /\ call[c] \in Updates /\ call[c].pc = "patch" /\ call[c].item \in Items
      /\ \A i \in Items \ {call[c].item} : event'[i] = event[i]
      /\ event'[call[c].item] = call[c].seen \cup call[c].add
      /\ UpdateStep(c, [call[c] EXCEPT !.pc = "answer", !.seen = {}]) /\ UNCHANGED clash
  BY PatchActs DEF Inv
<1>2. /\ call'[c].pc = "answer" /\ call'[c].item = call[c].item /\ call'[c].add = call[c].add
      /\ \A d \in Calls \ {c} : call'[d] = call[d]
  BY <1>1 DEF UpdateStep, Inv, Rightful, Types, Updates
<1>3. Alike'
  BY <1>1, <1>2 DEF Settled, Alike
<1>4. ASSUME NEW d \in Calls, call'[d].pc = "patch", call'[d].item \notin clash'
      PROVE  /\ call'[d].seen \subseteq event'[call'[d].item]
             /\ event'[call'[d].item] \subseteq call'[d].seen \cup call'[d].add
  <2>1. d # c /\ call'[d] = call[d]
    BY <1>2, <1>4
  <2>2. /\ call[d].item \in Items
        /\ call[d].seen \subseteq event[call[d].item]
        /\ event[call[d].item] \subseteq call[d].seen \cup call[d].add
    BY <1>1, <1>4, <2>1 DEF Settled, Fresh, Inv, Rightful, Chosen, UpdateOK
  <2>3. CASE call[d].item = call[c].item
    <3>1. call[d].add = call[c].add
      BY <1>1, <1>4, <2>1, <2>3 DEF Settled, Alike
    <3>2. /\ call[c].seen \subseteq event[call[c].item]
          /\ event[call[c].item] \subseteq call[c].seen \cup call[c].add
      BY <1>1, <1>4, <2>1, <2>3 DEF Settled, Fresh
    <3>3. /\ call[d].seen \subseteq event'[call[c].item]
          /\ event'[call[c].item] \subseteq call[d].seen \cup call[d].add
      BY <1>1, <2>2, <2>3, <3>1, <3>2
    <3> QED BY <2>1, <2>3, <3>3
  <2>4. CASE call[d].item # call[c].item
    BY <1>1, <2>1, <2>2, <2>4
  <2> QED BY <2>3, <2>4
<1>5. Fresh'
  BY <1>4 DEF Fresh
<1> QED BY <1>3, <1>5 DEF Settled

LEMMA SettledStep ==
    ASSUME Inv, Settled, [Next]_vars
    PROVE  Settled'
<1>1. ASSUME UNCHANGED <<event, call, clash>>
      PROVE  Settled'
  BY <1>1 DEF Settled, Alike, Fresh
<1>2. ASSUME NEW r \in Requests, Work(r)
      PROVE  Settled'
  <2>1. CASE Load(r) \/ Resolve(r) \/ Report(r)
    BY <1>1, <2>1 DEF Load, Resolve, Report
  <2>2. CASE LoseCall(r)
    <3>1. UNCHANGED <<event, clash>>
      BY <2>2 DEF LoseCall
    <3>2. ASSUME NEW c \in Calls
          PROVE  /\ call'[c].pc = call[c].pc /\ call'[c].item = call[c].item
                 /\ call'[c].add = call[c].add /\ call'[c].seen = call[c].seen
      BY <2>2 DEF LoseCall, Inv, Rightful, Types, Updates
    <3> QED BY <3>1, <3>2, SettledKept
  <2> QED BY <1>2, <2>1, <2>2, SettledCall DEF Work
<1>3. ASSUME NEW c \in Calls, Get(c)
      PROVE  Settled'
  <2>1. /\ call[c].pc = "get" /\ call'[c].seen = event[call[c].item]
        /\ call'[c].item = call[c].item /\ call'[c].add = call[c].add
        /\ \A d \in Calls \ {c} : call'[d] = call[d]
        /\ UNCHANGED <<event, clash>>
    BY <1>3 DEF Get, Inv, Rightful, Types, Updates
  <2> QED BY <2>1, SettledKept
<1>4. ASSUME NEW r \in Requests, NEW sel \in Picks, SubmitInvites(r, sel)
      PROVE  Settled'
  BY <1>1, <1>4 DEF SubmitInvites
<1>5. CASE Leave \/ UNCHANGED vars
  BY <1>1, <1>5 DEF Leave, vars
<1> QED BY <1>2, <1>3, <1>4, <1>5, SettledPatch, SettledAnswer DEF Next, Serve

-------------------------------------------------------------------------------
\* What the thread is told

\* What is said stays true.
LEMMA BackedKept ==
    ASSUME Inv, Settled, [Next]_vars, NEW said \in SUBSET Pairs, Backed(said, event, Denied)
    PROVE  Backed(said, event', Denied')
<1>1. /\ \A i \in Items : \A p \in event[i] \ event'[i] : <<i, p>> \in Denied'
      /\ Denied \subseteq Denied'
  BY EventGrows
<1>2. ASSUME NEW pair \in said \ Denied'
      PROVE  pair[2] \in event'[pair[1]]
  <2>1. /\ pair \in said \ Denied /\ pair[1] \in Items
        /\ pair = <<pair[1], pair[2]>>
    BY <1>1 DEF Pairs
  <2>2. pair[2] \in event[pair[1]]
    BY <2>1 DEF Backed
  <2> QED BY <1>1, <1>2, <2>1, <2>2
<1> QED BY <1>2 DEF Backed

\* What a call adds is on the event once it has written, and stays there or is overrun.
LEMMA AddsBacked ==
    ASSUME Inv, Settled, Told, [Next]_vars, NEW c \in Calls, call'[c].pc = "answer"
    PROVE  Backed(Adds(c)', event', Denied')
<1>1. CASE Patch(c)
  <2>1. /\ call[c] \in Updates /\ event'[call[c].item] = call[c].seen \cup call[c].add
        /\ UpdateStep(c, [call[c] EXCEPT !.pc = "answer", !.seen = {}])
    BY <1>1, PatchActs DEF Inv
  <2>2. call'[c].item = call[c].item /\ call'[c].add = call[c].add
    BY <2>1 DEF UpdateStep, Inv, Rightful, Types, Updates
  <2>3. \A pair \in Adds(c)' : pair[1] = call[c].item /\ pair[2] \in call[c].add
    BY <2>2 DEF Adds
  <2> QED BY <2>1, <2>3 DEF Backed
<1>2. CASE ~Patch(c)
  <2>1. call[c].pc = "answer" /\ call'[c].item = call[c].item /\ call'[c].add = call[c].add
    <3>1. ASSUME NEW r \in Requests, Work(r)
          PROVE  call[c].pc = "answer" /\ call'[c].item = call[c].item /\ call'[c].add = call[c].add
      <4>1. CASE Load(r) \/ Resolve(r) \/ Report(r)
        BY <4>1 DEF Load, Resolve, Report
      <4>2. ASSUME NEW d \in Calls, CallUpdate(r, d)
            PROVE  call'[c] = call[c]
        BY <4>2 DEF CallUpdate, Inv, Rightful, Types
      <4>3. CASE LoseCall(r)
        BY <4>3 DEF LoseCall, Inv, Rightful, Types, Updates
      <4> QED BY <3>1, <4>1, <4>2, <4>3 DEF Work
    <3>2. ASSUME NEW d \in Calls, Serve(d)
          PROVE  call'[c] = call[c]
      <4>1. CASE Get(d)
        BY <4>1 DEF Get, Inv, Rightful, Types, Updates
      <4>2. CASE Patch(d)
        BY <1>2, <4>2 DEF Patch, Inv, Rightful, Types
      <4>3. CASE Answer(d)
        BY <4>3, AnswerActs DEF UpdateStep, IdleCall, Inv, Rightful, Types
      <4> QED BY <3>2, <4>1, <4>2, <4>3 DEF Serve
    <3>3. ASSUME NEW r \in Requests, NEW sel \in Picks, SubmitInvites(r, sel)
          PROVE  call'[c] = call[c]
      BY <3>3 DEF SubmitInvites
    <3>4. CASE Leave \/ UNCHANGED vars
      BY <3>4 DEF Leave, vars
    <3> QED BY <3>1, <3>2, <3>3, <3>4 DEF Next
  <2>2. Adds(c)' = Adds(c) /\ Backed(Adds(c), event, Denied)
    BY <2>1 DEF Told, Adds
  <2>3. Adds(c) \in SUBSET Pairs
    BY <2>1 DEF Adds, Pairs, Inv, Rightful, Types, Chosen, Updates, UpdateOK
  <2> QED BY <2>2, <2>3, BackedKept
<1> QED BY <1>1, <1>2

LEMMA AnswerBacked ==
    ASSUME Inv, Settled, Told, [Next]_vars, NEW c \in Calls, Answer(c), NEW r \in call[c].waiting
    PROVE  Backed(request'[r].done, event', Denied')
<1>1. /\ r \in Requests /\ Waits(c, r) /\ request[r].done \in SUBSET Pairs
      /\ Backed(request[r].done, event, Denied)
  BY DEF Inv, Rightful, Types, Updates, Jobs, Waiting, Told
<1>2. request'[r].done = request[r].done \cup Adds(c)
  <2>1. request'[r] = Answered(r)
    BY <1>1, AnswerActs
  <2> QED BY <1>1, <2>1, AnsweredJob DEF Waits, Inv, Adds
<1>3. Backed(request[r].done, event', Denied')
  BY <1>1, BackedKept
<1>4. Adds(c) \in SUBSET Pairs
  BY <1>1 DEF Waits, Adds, Pairs, Inv, Rightful, Types, Chosen, Updates, UpdateOK
<1>5. Backed(Adds(c), event', Denied')
  <2>1. CASE call[c].pc = "answer"
    BY <1>4, <2>1, BackedKept DEF Told
  <2>2. CASE refused' = refused \cup Adds(c)
    BY <2>2 DEF Backed, Denied
  <2> QED BY <2>1, <2>2, AnswerActs DEF Adds
<1> QED BY <1>2, <1>3, <1>5 DEF Backed

LEMMA ToldStep ==
    ASSUME Inv, Settled, Told, [Next]_vars
    PROVE  Told'
<1>1. /\ Backed(invited, event', Denied')
      /\ \A r \in Requests : Backed(request[r].done, event', Denied')
      /\ \A c \in Calls : call'[c].pc = "answer" => Backed(Adds(c)', event', Denied')
  BY BackedKept, AddsBacked DEF Told, Inv, Rightful, Types, Jobs
<1>2. ASSUME NEW r \in Requests, request'[r].done = request[r].done \/ request'[r].done = {}
      PROVE  Backed(request'[r].done, event', Denied')
  BY <1>1, <1>2 DEF Backed
<1>3. ASSUME Backed(invited', event', Denied'),
             \A r \in Requests : Backed(request'[r].done, event', Denied')
      PROVE  Told'
  BY <1>1, <1>3 DEF Told
<1>4. ASSUME NEW q \in Requests,
             /\ UNCHANGED invited
             /\ request'[q].done = request[q].done \/ request'[q].done = {}
             /\ \A r \in Requests \ {q} : request'[r] = request[r]
      PROVE  Told'
  BY <1>1, <1>2, <1>3, <1>4
<1>5. ASSUME NEW q \in Requests, Work(q)
      PROVE  Told'
  <2>1. request[q] \in Jobs /\ Onward(request[q]).done = request[q].done
    BY OnwardJob DEF Inv, Rightful, Types
  <2>2. CASE Report(q)
    <3>1. /\ invited' = invited \cup request[q].done
          /\ request' = [request EXCEPT ![q] = EndedRequest]
      BY <2>2 DEF Report
    <3>2. Backed(invited', event', Denied')
      BY <1>1, <3>1 DEF Backed
    <3>3. \A r \in Requests : request'[r].done = request[r].done \/ request'[r].done = {}
      BY <3>1 DEF EndedRequest, IdleRequest, Inv, Rightful, Types
    <3> QED BY <3>2, <3>3, <1>2, <1>3
  <2>3. CASE Load(q) \/ Resolve(q) \/ LoseCall(q) \/ \E c \in Calls : CallUpdate(q, c)
    <3>1. UNCHANGED invited
      BY <2>3 DEF Load, Resolve, LoseCall, CallUpdate
    <3>2. \A r \in Requests \ {q} : request'[r] = request[r]
      BY <2>3 DEF Load, Resolve, LoseCall, CallUpdate, Inv, Rightful, Types
    <3>3. request'[q].done = request[q].done \/ request'[q].done = {}
      <4>1. CASE Load(q)
        BY <2>1, <4>1 DEF Load, EndedRequest, IdleRequest, Inv, Rightful, Types, Jobs
      <4>2. CASE Resolve(q)
        <5>1. PICK emails : request'[q] \in {Onward(request[q]),
                                 [request[q] EXCEPT !.pc = "call", !.emails = emails]}
          BY <4>2 DEF Resolve, Inv, Rightful, Types
        <5> QED BY <2>1, <5>1 DEF Jobs
      <4>3. CASE LoseCall(q)
        <5>1. request'[q] \in {Onward(request[q]),
                 [request[q] EXCEPT !.pc = "call", !.tries = request[q].tries + 1]}
          BY <4>3 DEF LoseCall, Inv, Rightful, Types
        <5> QED BY <2>1, <5>1 DEF Jobs
      <4>4. ASSUME NEW c \in Calls, CallUpdate(q, c)
            PROVE  request'[q].done = request[q].done
        BY <2>1, <4>4 DEF CallUpdate, Inv, Rightful, Types, Jobs
      <4> QED BY <2>3, <4>1, <4>2, <4>3, <4>4
    <3> QED BY <3>1, <3>2, <3>3, <1>4
  <2> QED BY <1>5, <2>2, <2>3 DEF Work
<1>6. ASSUME NEW q \in Requests, NEW sel \in Picks, SubmitInvites(q, sel)
      PROVE  Told'
  <2>1. /\ UNCHANGED invited /\ request'[q].done = {}
        /\ \A r \in Requests \ {q} : request'[r] = request[r]
    BY <1>6 DEF SubmitInvites, IdleRequest, Inv, Rightful, Types
  <2> QED BY <2>1, <1>4
<1>7. ASSUME UNCHANGED <<request, invited>>
      PROVE  Told'
  BY <1>1, <1>3, <1>7
<1>8. ASSUME NEW c \in Calls, Answer(c)
      PROVE  Told'
  <2>1. /\ UNCHANGED invited
        /\ \A r \in Requests \ call[c].waiting : request'[r] = request[r]
    BY <1>8, AnswerActs
  <2>2. \A r \in call[c].waiting : Backed(request'[r].done, event', Denied')
    BY <1>8, AnswerBacked
  <2> QED BY <1>1, <1>2, <1>3, <2>1, <2>2
<1>9. ASSUME NEW c \in Calls, Serve(c)
      PROVE  Told'
  BY <1>7, <1>8, <1>9 DEF Serve, Get, Patch
<1>10. CASE Leave \/ UNCHANGED vars
  BY <1>7, <1>10 DEF Leave, vars
<1> QED BY <1>5, <1>6, <1>9, <1>10 DEF Next

\* Outside a clash the events only grow, and what is said of them is backed.
LEMMA SettledAndTold == Spec => [](Settled /\ Told)
<1>1. Init => Settled /\ Told
  BY DEF Init, IdleRequest, IdleCall, Settled, Alike, Fresh, Told, Backed
<1>2. Inv /\ (Settled /\ Told) /\ [Next]_vars => (Settled /\ Told)'
  BY SettledStep, ToldStep
<1> QED BY <1>1, <1>2, Invariance, PTL DEF Spec

\* update_calendar_event_attendees: "existing attendees are preserved", but where updates
\* that add different people have met on the event: whatever is submitted in between,
\* lost and repeated beside itself, or refused.
THEOREM NobodyIsDropped == Spec => DroppedOnlyInClash
<1>1. Inv /\ Settled /\ [Next]_vars =>
         [\A i \in Items \ clash : event[i] \subseteq event'[i]]_vars
  BY EventGrows
<1> QED BY <1>1, SettledAndTold, Invariance, PTL DEF Spec, DroppedOnlyInClash

\* "invited" is said only of people who are on the event, whose update the calendar
\* refused, or whom an update in a clash took off again.
THEOREM InvitedAreThere == Spec => []InvitedUnlessRefused
<1>1. Told => InvitedUnlessRefused
  BY DEF Told, Backed, Denied, InvitedUnlessRefused
<1> QED BY <1>1, SettledAndTold, PTL

================================================================================
