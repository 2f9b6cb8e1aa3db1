\* Undisturbed, with two submissions of one form handled at once.
SPECIFICATION FairSpec
CONSTANTS
    Tailorings = {"typed"}
    MaxDocs = 3
    Tasks = {t1, t2}
    Clicks = {h1, h2}
    Attempts = 2
    Replies = FALSE
    Exits = FALSE
    Faults = {}
PROPERTIES
    FormFollows
    DossierFollows
CHECK_DEADLOCK FALSE
