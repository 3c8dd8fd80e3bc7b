SPECIFICATION FairSpec
CONSTANTS
    MaxMsgs = 3
    Parts = 2
    Faults = {"short"}
    TlsEnforced = TRUE
INVARIANTS NoPanic
PROPERTIES EveryRequestAnswered
