SPECIFICATION FairSpec
CONSTANTS
    MaxMsgs = 3
    Parts = 2
    Faults = {"refuse", "write", "short", "close"}
    TlsEnforced = FALSE
INVARIANTS TypeOK OneListener AnsweredInTurn
PROPERTIES KeepsPromise SessionEnds HandlerReturns
