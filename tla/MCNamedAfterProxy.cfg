SPECIFICATION FairSpec
CONSTANTS
    h1 = h1
    h2 = h2
    Hosts = {h1, h2}
    Start = h1
    MaxAttempts = 2
    ChallengeLines <- OneLine
    Targets <- NamedAfterProxy
    SaltSpace = 4
PROPERTIES
    ReconnectFollowed
CHECK_DEADLOCK FALSE
