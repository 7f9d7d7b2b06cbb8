SPECIFICATION FairSpec
CONSTANTS
    Entities <- MCEntities
    Refused <- MCFirst
    BadMode <- MCBadMode
    Outages <- MCFirst
    WriteErrors <- MCFirst
    MaxCa = 2
    MaxRivals = 1
    MaxCrashes = 2
INVARIANTS
    TypeOK
    StoredIsUsable
PROPERTIES
    EventuallyAsleep
    OthersStored
    ImplementsCredentials
CHECK_DEADLOCK FALSE
