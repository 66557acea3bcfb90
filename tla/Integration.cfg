SPECIFICATION FairSpec
CONSTANTS
    Resources = {a, b}
    MaxEdits = 2
    MaxEntries = 6
    MaxFaults = 3
INVARIANTS
    OneEntryPerDomain
    DeletionRemoves
    HashIsApplied
    UploadsCleanedUp
PROPERTIES
    Converges
CHECK_DEADLOCK FALSE
