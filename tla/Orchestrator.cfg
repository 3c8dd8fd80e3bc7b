SPECIFICATION FairSpec
CONSTANTS
    Passwords = {"new", "old"}
    Admin = "new"
    MaxWifi = 2
    MaxProxies = 0
    MaxRefusals = 1
    Misleading = FALSE
INVARIANTS TypeOK SuccessMeansConfigured StopsAtFirstError NoRotationUnprovisioned AskedThreeTimes
PROPERTIES Ends
