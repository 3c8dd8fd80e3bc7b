SPECIFICATION FairSpec
CONSTANTS
    MaxRequests = 3
    Parts = 2
    FaultSets = {{"nodevice", "open", "write"}, {"read"}, {"late"}}
INVARIANTS TypeOK OwnResponse OwnChannel
PROPERTIES RoundTripReturns
CHECK_DEADLOCK FALSE
