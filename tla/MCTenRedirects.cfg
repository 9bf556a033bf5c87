SPECIFICATION Spec
CONSTANTS
    h1 = h1
    h2 = h2
    Hosts = {h1, h2}
    Start = h1
    MaxAttempts = 10
    ChallengeLines <- OneLine
    Targets <- OnlyProxy
    SaltSpace = 4
INVARIANTS
    TenRedirectsFollowed
CHECK_DEADLOCK FALSE
