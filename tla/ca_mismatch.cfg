SPECIFICATION Spec
CONSTANTS
    Procs = {p1}
    StartModes = {"load", "genkey"}
    Overlap = FALSE
    RemoveMayFail = TRUE
    Preinstalled = TRUE
    MaxKeys = 3
    MaxCrashes = 2
INVARIANTS
    PairCoherent
CHECK_DEADLOCK FALSE
