\* Anything may fail while plain messages race the runs and the form; the thread may be left.
SPECIFICATION Spec
CONSTANTS
    Items = {1}
    Tasks = {t1, t2}
    Clicks = {h1}
    Attempts = 2
    MaxEvents = 2
    Replies = TRUE
    Exits = TRUE
    Faults = {"llm", "db", "call", "post", "crash"}
SYMMETRY Symmetry
INVARIANTS
    TypeOK
    IncompleteWereAsked
    FormIsReflected
    AssignmentsKept
    RecordedExist
PROPERTIES
    RemindersOnlyWhenClear
CHECK_DEADLOCK FALSE
