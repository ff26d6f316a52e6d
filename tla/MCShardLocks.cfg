SPECIFICATION FairSpec
CONSTANTS
    t1 = t1  t2 = t2  t3 = t3
    Threads = {t1, t2, t3}
    Keys = {k1, k2, k3}
    Null = Null
    Jobs <- MCJobs
    Room = 2
INVARIANTS
    ListFollowsUse
    NoUseAfterFree
    EvictionTakesTheOldest
    RaceFree
PROPERTIES
    WriterLeaves
