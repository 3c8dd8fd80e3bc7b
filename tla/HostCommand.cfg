SPECIFICATION FairSpec
CONSTANTS
    Hashes = 2
    Passwords = {"p", "q"}
    Admin = "p"
    Addresses = {"a"}
    Ports = {80, 8080}
    InfoTicks = 1
    Machines <- MCMachines
    Settings0 <- MCSettings0
INVARIANTS TypeOK OwnReply SuccessMeansSet
PROPERTIES OnlyInItsMode Ends
