----------------------------- MODULE AccessPolicy -----------------------------
(***************************************************************************)
(* The pure part of workflow authorization: how rows of the                *)
(* workflow_access_rules table compile to an AccessPolicy (access_store.py)*)
(* and what authorize() (access.py) decides from a policy.                 *)
(***************************************************************************)
CONSTANTS
    Commands,      \* workflow command ids
    Users,         \* verified e-mail addresses of callers
    Domains,       \* mail domains
    DomainOf,      \* DomainOf[u]: the domain of the address u
    Groups,        \* principals of rows an earlier schema left behind
    DefaultMode    \* DefaultMode[c]: the AccessMode declared in code

ASSUME PolicyAssumption ==
    /\ DomainOf \in [Users -> Domains]
    /\ DefaultMode \in [Commands -> {"open", "restricted"}]

EmailRows  == [type: {"email"}, principal: Users]
DomainRows == [type: {"domain"}, principal: Domains]
LegacyRows == [type: {"group"}, principal: Groups]

\* What the table may hold, and what _validate_rule_type lets a write name.
Rows          == EmailRows \cup DomainRows \cup LegacyRows
GrantableRows == EmailRows \cup DomainRows

Policies == [emails: SUBSET Users, domains: SUBSET Domains]

\* Rows of an unknown type are dropped, not matched and not counted.
Compile(rows) ==
    [emails  |-> {u \in Users   : [type |-> "email",  principal |-> u] \in rows},
     domains |-> {d \in Domains : [type |-> "domain", principal |-> d] \in rows}]

IsOpen(policy) == policy.emails = {} /\ policy.domains = {}

Authorize(policy, mode, user) ==
    IF IsOpen(policy)
    THEN mode = "open"
    ELSE user \in policy.emails \/ DomainOf[user] \in policy.domains

\* The decision matrix of authorize()'s docstring, on the table itself: the
\* default mode only chooses what an empty table means.
MatrixAllows(rows, mode, user) ==
    IF rows = {}
    THEN mode = "open"
    ELSE \/ [type |-> "email", principal |-> user] \in rows
         \/ [type |-> "domain", principal |-> DomainOf[user]] \in rows
===============================================================================
