SPECIFICATION Spec
CONSTANTS
    Passwords = {"p", "q"}
    Chain = 2
    MaxRuns = 3
INVARIANTS TypeOK SuccessMeansInMode FailureLeavesNothing
