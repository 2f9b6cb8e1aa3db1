\* Two submissions, some of whose updates overlap, are refused, or are lost and repeated;
\* the directory may not resolve somebody.
SPECIFICATION Spec
CONSTANTS
    ann = ann
    bob = bob
    Items = {1, 2}
    Recorded = {1, 2}
    People = {ann, bob}
    Org = {ann}
    Picks <- SomePicks
    Requests = {r1, r2}
    Calls = {c1, c2, c3}
    Attempts = 2
    Faults = {"exit", "org", "lost", "api"}
INVARIANTS
    OnlyTheChosen
    InvitedUnlessRefused
PROPERTIES
    DroppedOnlyInClash
CHECK_DEADLOCK FALSE
SYMMETRY Symmetry
