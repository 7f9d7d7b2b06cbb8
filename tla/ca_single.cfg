SPECIFICATION FairSpec
CONSTANTS
    Procs = {p1, p2}
    StartModes = {"load", "genkey"}
    Overlap = FALSE
    RemoveMayFail = FALSE
    Preinstalled = TRUE
    MaxKeys = 5
    MaxCrashes = 3
INVARIANTS
    TypeOK
    PairCoherent
    ServedNotOlder
PROPERTIES
    ImplementsLifecycle
    EventuallyServing
CHECK_DEADLOCK FALSE
