SPECIFICATION Spec
CONSTANTS
    Passwords = {"new", "old"}
    Admin = "new"
    MaxWifi = 2
    MaxProxies = 1
    MaxRefusals = 0
    Misleading = FALSE
INVARIANTS HoldsAllWireless
