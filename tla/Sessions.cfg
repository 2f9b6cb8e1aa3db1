\* Two users, one of them an admin, in one thread, with three requests under way at once.
SPECIFICATION Spec
CONSTANTS
    Users = {alice, bob}
    Admins = {alice}
    Workflows = {"rfi"}
    Threads = {x}
    Requests = {r1, r2, r3}
    TTL = 1
    Faults = {"db", "post", "crash"}
SYMMETRY Symmetry
INVARIANTS
    TypeOK
    RunsAuthorized
    NothingCarriedOver
PROPERTIES
    WorkflowKept
CHECK_DEADLOCK FALSE
