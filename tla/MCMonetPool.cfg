SPECIFICATION FairSpec
CONSTANTS
    t1 = t1
    t2 = t2
    c1 = c1
    Tasks = {t1, t2}
    Conns = {c1}
    Pool = Pool
    Nobody = Nobody
    MaxRequests = 6
INVARIANTS
    TypeOK
    PingsAbsorb
    BrokenNotShared
    EarlierStatementsExecuted
PROPERTIES
    EventuallyServed
CHECK_DEADLOCK FALSE
