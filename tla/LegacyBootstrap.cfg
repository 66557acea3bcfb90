SPECIFICATION FairSpec
CONSTANTS
    MaxRetries = 3
    ConfirmDelay = 2
    MaxFaults = 4
INVARIANTS
    LoginsBounded
    CompletedMeansUsable
PROPERTIES
    Bootstrapped
