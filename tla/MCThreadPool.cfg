SPECIFICATION FairSpec
CONSTANTS
    Workers = {w1, w2}
    Submitters = {s1, s2}
    Tasks = {t1, t2, t3}
    NoTask = NoTask
    MaxQueued = 2
INVARIANTS
    SleepersMissNothing
    DrainedWhenJoined
PROPERTIES
    AcceptedEventuallyRuns
    ShutdownReturns
