SPECIFICATION Spec
CONSTANTS
    k1 = k1  k2 = k2  k3 = k3  v1 = v1  v2 = v2  w1 = w1  w2 = w2
    Keys = {k1, k2, k3}
    Values = {v1}
    Hash <- MCHash
    HashBits = 3
    Bytes <- BytesOneLarge
    NodeBytes = 2
    SlotBytes = 1
    DefaultBuckets = 2
    ShardCount = 2
    InitialBuckets = 1
    Ttls = {}
    Limits = {4, 14}
    MaxBuckets = 2
    Backups <- BackupTwoShards
    Walkers = {w1, w2}
    Jobs <- JobsKeyspace
    MaxNow = 1
INVARIANTS
    SliceRespected
    ReadsAreBracketed
    ClearLeavesNothingOld
PROPERTIES
    SetKeepsItsKey
    IsKeyspace
