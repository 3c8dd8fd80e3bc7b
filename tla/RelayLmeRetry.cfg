SPECIFICATION FairSpec
CONSTANTS
    MaxMsgs = 1
    Parts = 1
    FaultSets = {{"nodevice"}}
    Slow = TRUE
PROPERTIES RetryRecovers
CHECK_DEADLOCK FALSE
