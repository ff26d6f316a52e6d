SPECIFICATION FairSpec
CONSTANTS
    Workers = {w1, w2}
    Clients = {1, 2}
    Descriptors = {d1, d2}
    NoTask = NoTask
    Nobody = Nobody
    MaxQueued = 1
    MaxLines = 1
INVARIANTS
    UsesOwnDescriptor
    QuiescentWhenReturned
PROPERTIES
    RunReturns
CHECK_DEADLOCK FALSE
