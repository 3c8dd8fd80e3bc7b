SPECIFICATION Spec
CONSTANTS
    Creds = {c1, c2}
    MaxRuns = 2
INVARIANTS TypeOK CredentialsPresent NoPanic SuccessMeansInEffect FailedTlsCleansUp RetryRecovers
