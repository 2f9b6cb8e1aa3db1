\* Anything may fail while plain messages race the runs and the form; the thread may be left.
SPECIFICATION Spec
CONSTANTS
    Tailorings = {"typed"}
    MaxDocs = 2
    Tasks = {t1, t2}
    Clicks = {h1}
    Attempts = 2
    Replies = TRUE
    Exits = TRUE
    Faults = {"llm", "db", "call", "post", "crash"}
SYMMETRY Symmetry
INVARIANTS
    TypeOK
    FormFirst
    TailoringKept
    DossierTailored
PROPERTIES
    LinkKept
CHECK_DEADLOCK FALSE
