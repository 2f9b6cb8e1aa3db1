\* Undisturbed, two items.
SPECIFICATION FairSpec
CONSTANTS
    Items = {1, 2}
    Tasks = {t1, t2}
    Clicks = {h1}
    Attempts = 2
    MaxEvents = 2
    Replies = FALSE
    Exits = FALSE
    Faults = {}
PROPERTIES
    MeetingEnds
CHECK_DEADLOCK FALSE
