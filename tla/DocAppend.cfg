\* A heading and bold text beside a text with a wide character; a person types and removes.
SPECIFICATION Spec
CONSTANTS
    Calls = {"notes", "flags"}
    Texts <- MCTexts
    Tries = 3
    MaxTyped = 1
INVARIANTS
    ReportedIsThere
    TwiceOnlyWhenLost
    StyledAsWritten
CHECK_DEADLOCK FALSE
