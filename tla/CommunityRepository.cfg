SPECIFICATION FairSpec
CONSTANTS
    Repositories = {"a", "b"}
    Used = {"integration", "theme", "python_script"}
    Refs <- MCRefs
    Archive <- MCArchive
    Targets <- MCTargets
    FirstRefs <- MCFirstRefs
    MaxEvents <- MCMaxEvents
INVARIANTS
    OneOwner
    ValidatedIsPlaceable
PROPERTIES
    MaterializedWhenInstalled
    NothingLeftBehind
    Converges
CHECK_DEADLOCK FALSE
