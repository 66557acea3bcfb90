SPECIFICATION FairSpec
CONSTANTS
    MaxEdits = 2
    MaxFaults = 0
PROPERTIES
    RestartsReachTemplate
CHECK_DEADLOCK FALSE
