\* Two instances with a cache each, a /grant or /revoke on either, and the CLI; a row of
\* an earlier schema may be there.
SPECIFICATION Spec
CONSTANTS
    alice = alice
    example = example
    audit = audit
    i1 = i1
    i2 = i2
    r1 = r1
    r2 = r2
    Commands = {audit}
    Users = {alice}
    Domains = {example}
    Groups = {old}
    Instances = {i1, i2}
    Requests = {r1}
    Admins = {a1}
    DomainOf <- MCDomainOf
    DefaultMode <- MCRestricted
    TTL = 1
    MaxClock = 2
INVARIANTS
    TypeOK
    CacheBacked
    DecisionFresh
PROPERTIES
    ImplementsPromise
CHECK_DEADLOCK FALSE
