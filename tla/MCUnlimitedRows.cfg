SPECIFICATION Spec
CONSTANTS
    h1 = h1
    h2 = h2
    Hosts = {h1, h2}
    Start = h1
    MaxAttempts = 2
    ChallengeLines <- OneLine
    Targets <- OnlyProxy
    SaltSpace = 4
INVARIANTS
    UnlimitedRows
CHECK_DEADLOCK FALSE
