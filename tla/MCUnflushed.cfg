SPECIFICATION Spec
CONSTANTS
    MaxRequests = 2
    MaxChunks = 2
    MaxBlocks = 2
INVARIANTS
    UnflushedNeverIdle
CHECK_DEADLOCK FALSE
