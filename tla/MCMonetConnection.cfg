SPECIFICATION FairSpec
CONSTANTS
    MaxRequests = 3
    MaxChunks = 2
    MaxBlocks = 2
INVARIANTS
    TypeOK
    LaggedDelivery
    NeverTwice
    ExecutedInOrder
    GracefulCloseFlushes
    IndInv
PROPERTIES
    OperationsEnd
    IsRequestReply
CHECK_DEADLOCK FALSE
