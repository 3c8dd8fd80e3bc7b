SPECIFICATION FairSpec
CONSTANTS
    MaxMsgs = 2
    Parts = 2
    FaultSets = {{"write"}, {"write", "read"}, {"late"}}
    Slow = TRUE
INVARIANTS ForwardedInOrder
PROPERTIES KeepsPromiseInTime HandlerReturnsIfHeard
CHECK_DEADLOCK FALSE
