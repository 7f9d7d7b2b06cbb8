SPECIFICATION FairSpec
CONSTANTS
    Senders <- MCSenders
    MAX_MSG_BYTES = 4
    LenRange = 7
    Capacity = 3
INVARIANTS
    TypeOK
    BoundedRead
PROPERTIES
    ImplementsDelivery
    ReaderReturns
    ValueReceived
    SenderReturns
CHECK_DEADLOCK FALSE
