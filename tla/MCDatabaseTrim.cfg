SPECIFICATION Spec
CONSTANTS
    k1 = k1  k2 = k2  k3 = k3  v1 = v1  v2 = v2  w1 = w1  w2 = w2
    Keys = {k1, k2, k3}
    Values = {v1, v2}
    Hash <- HashCrowded
    HashBits = 3
    Bytes <- MCBytes
    NodeBytes = 2
    SlotBytes = 1
    DefaultBuckets = 2
    ShardCount = 2
    InitialBuckets = 1
    Ttls = {}
    Limits = {4, 20}
    MaxBuckets = 2
    Backups <- BackupOneShard
    Walkers = {w1, w2}
    Jobs <- JobsBudget
    MaxNow = 0
INVARIANTS
    TrimmedOnLoad
