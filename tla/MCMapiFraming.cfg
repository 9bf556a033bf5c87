SPECIFICATION FairSpec
CONSTANTS
    ByteBase = 4
    MAX_BLOCK_PAYLOAD = 2
    Payloads <- MCPayloads
    MaxMessages = 2
    MaxBlocks = 3
    MaxDrops = 2
INVARIANTS
    TypeOK
    DecodeAgrees
    FewestBlocks
PROPERTIES
    IsQueue
    AllReceived
CHECK_DEADLOCK FALSE
