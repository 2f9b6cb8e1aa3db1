\* Undisturbed, with two questions and a form that shows one of them;
\* each may be anchored at a cell, a paragraph or nowhere in the document.
SPECIFICATION FairSpec
CONSTANTS
    Questions = {1, 2}
    Tasks = {t1, t2}
    Clicks = {h1}
    Fills = {f1}
    FormLimit = 1
    Attempts = 2
    MaxForms = 2
    MaxFiles = 2
    Replies = FALSE
    Exits = FALSE
    Faults = {}
    Cells = {1, 2}
    Paragraphs = 2
INVARIANTS
    AnsweredInPlace
PROPERTIES
    Completes
CHECK_DEADLOCK FALSE
