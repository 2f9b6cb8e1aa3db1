\* Anything may fail while plain messages race the resumes; the thread may be left.
SPECIFICATION Spec
CONSTANTS
    Questions = {1}
    Tasks = {t1, t2}
    Clicks = {h1}
    Fills = {f1, f2}
    FormLimit = 1
    Attempts = 2
    MaxForms = 2
    MaxFiles = 2
    Replies = TRUE
    Exits = TRUE
    Faults = {"llm", "db", "fill", "post", "crash"}
SYMMETRY Symmetry
INVARIANTS
    TypeOK
    NoFillWhilePending
    GapsWereAsked
    CompletedFileHolds
    ThankedSavedOrAsked
PROPERTIES
    HumanWorkKept
    HintIsTrue
CHECK_DEADLOCK FALSE
