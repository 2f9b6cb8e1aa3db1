\* Two submissions of a form handled at once, and the two resumes they start.
SPECIFICATION Spec
CONSTANTS
    Questions = {1}
    Tasks = {t1, t2}
    Clicks = {h1, h2}
    Fills = {f1}
    FormLimit = 1
    Attempts = 2
    MaxForms = 2
    MaxFiles = 2
    Replies = FALSE
    Exits = FALSE
    Faults = {}
SYMMETRY Symmetry
INVARIANTS
    PendingFormPosted
CHECK_DEADLOCK FALSE
