SPECIFICATION Spec
CONSTANTS
    Procs = {p1, p2}
    StartModes = {"load", "genkey", "idempotent"}
    Overlap = TRUE
    RemoveMayFail = TRUE
    Preinstalled = TRUE
    MaxKeys = 4
    MaxCrashes = 0
INVARIANTS
    QuiescentKeyMode
CHECK_DEADLOCK FALSE
