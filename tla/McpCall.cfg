\* The code's three attempts, both kinds of call, and servers that may never answer.
SPECIFICATION FairSpec
CONSTANTS
    Attempts = 3
INVARIANTS
    NoConcurrentRerun
PROPERTIES
    ImplementsPromise
CHECK_DEADLOCK FALSE
