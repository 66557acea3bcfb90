SPECIFICATION FairSpec
CONSTANTS
    Floors = {floor}
    Labels = {label}
    Areas = {area}
    Refs = {1}
    Together = 2
    MaxNames = 2
    MaxEdits = 1
    MaxFaults = 1
INVARIANTS
    NothingLeftBehind
PROPERTIES
    Converges
CHECK_DEADLOCK FALSE
