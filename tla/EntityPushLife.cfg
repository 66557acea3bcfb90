SPECIFICATION FairSpec
CONSTANTS
    Resources = {a}
    Ids = {x, y}
    Outages = TRUE
    Off = {2}
    MaxEdits = 3
    MaxFaults = 1
INVARIANTS
    RenamesCleanedUp
PROPERTIES
    Converges
CHECK_DEADLOCK FALSE
