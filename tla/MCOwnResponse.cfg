SPECIFICATION Spec
CONSTANTS
    MaxRequests = 2
    MaxChunks = 2
    MaxBlocks = 2
INVARIANTS
    OwnResponse
CHECK_DEADLOCK FALSE
