SPECIFICATION FairSpec
CONSTANTS
    MaxEdits = 4
    MaxFaults = 2
PROPERTIES
    HashesKept
    SecretsReachPod
    RestReachesPod
    RolloutsEnd
CHECK_DEADLOCK FALSE
