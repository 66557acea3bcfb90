SPECIFICATION FairSpec
CONSTANTS
    MaxReq = 1
    MaxFaults = 3
    Transient404 = TRUE
    LedgerLoss = TRUE
PROPERTIES
    ForeignNeverOverwritten
    RequestsAreAnswered
    FreshRequestRepairs
