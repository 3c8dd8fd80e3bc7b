SPECIFICATION Spec
CONSTANTS
    MaxMsgs = 3
    Parts = 2
    Faults = {"short"}
    TlsEnforced = FALSE
INVARIANTS SuccessMeansActivated
