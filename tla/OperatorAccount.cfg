SPECIFICATION Spec
CONSTANTS
    MaxReq = 2
    MaxFaults = 3
    Transient404 = TRUE
    LedgerLoss = FALSE
INVARIANTS
    AtMostOneTokenPerRequest
    OneCreatePerAttempt
    ServedTokenProven
    NoServiceGap
PROPERTIES
    OwnerRetired
    KeepsPromise
