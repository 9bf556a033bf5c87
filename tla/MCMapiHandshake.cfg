SPECIFICATION FairSpec
CONSTANTS
    h1 = h1
    h2 = h2
    Hosts = {h1, h2}
    Start = h1
    MaxAttempts = 3
    ChallengeLines <- MCLines
    Targets <- MCTargets
    SaltSpace = 4
INVARIANTS
    TypeOK
    SingleSocket
    NeverMisjudged
    LoginAnswersOffer
    HandoverClean
    RedirectsUsePasses
PROPERTIES
    ReconnectFollowed
    HandshakeEnds
CHECK_DEADLOCK FALSE
