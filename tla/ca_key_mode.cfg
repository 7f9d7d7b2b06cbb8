SPECIFICATION Spec
CONSTANTS
    Procs = {p1}
    StartModes = {"load", "genkey"}
    Overlap = FALSE
    RemoveMayFail = FALSE
    Preinstalled = TRUE
    MaxKeys = 3
    MaxCrashes = 2
INVARIANTS
    ServedKeyRestricted
CHECK_DEADLOCK FALSE
