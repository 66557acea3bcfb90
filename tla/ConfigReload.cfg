SPECIFICATION FairSpec
CONSTANTS
    MaxEdits = 2
    MaxFaults = 1
INVARIANTS
    CoreChangesMarked
PROPERTIES
    Delivered
    HttpConverges
    OnlyOwnPromoted
CHECK_DEADLOCK FALSE
