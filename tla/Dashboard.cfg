SPECIFICATION FairSpec
CONSTANTS
    Resources = {"a", "b"}
    Edited = "a"
    Paths = {"p"}
    MaxEdits = 1
    MaxFaults = 1
PROPERTIES
    OthersKept
    Converges
CHECK_DEADLOCK FALSE
