SPECIFICATION FairSpec
CONSTANTS
    k1 = k1  k2 = k2  k3 = k3  v1 = v1  v2 = v2  w1 = w1  w2 = w2
    Keys = {k1, k2}
    Values = {v1}
    Hash <- MCHash
    HashBits = 3
    Bytes <- MCBytes
    NodeBytes = 2
    SlotBytes = 1
    DefaultBuckets = 2
    ShardCount = 2
    InitialBuckets = 1
    Ttls = {1}
    Limits = {}
    MaxBuckets = 2
    Backups <- BackupOneShard
    Walkers = {w1, w2}
    Jobs <- JobsSweep
    MaxNow = 1
PROPERTIES
    ExpiredIsReclaimed
    IsKeyspace
