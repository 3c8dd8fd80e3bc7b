SPECIFICATION Spec
CONSTANTS
    MaxMsgs = 2
    Parts = 1
    FaultSets = {{"nodevice", "open", "write", "read", "late"}, {"open", "write", "read", "late"}, {"read", "late"}}
    Slow = FALSE
INVARIANTS TypeOK OneHandOver OwnChannel ConfirmationsAwaited NoPanicFromDelays
CHECK_DEADLOCK FALSE
