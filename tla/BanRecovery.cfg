SPECIFICATION FairSpec
CONSTANTS
    MaxRestarts = 3
    Window = 6
    Cooldown = 1
    MaxFaults = 3
INVARIANTS
    WindowBudget
    FailedMeansExhausted
PROPERTIES
    EveryBanEnds
    LastingBanReported
