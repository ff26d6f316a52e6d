SPECIFICATION Spec
CONSTANTS
    k1 = k1  k2 = k2  k3 = k3  v1 = v1  v2 = v2
    Keys = {k1, k2, k3}
    Values = {v1, v2}
    Hash <- MCHash
    HashBits = 3
    Bytes <- MCBytes
    NodeBytes = 4
    SlotBytes = 1
    DefaultBuckets = 2
    Tables = {t1, t2}
    Addresses = {a1, a2, a3, a4}
    Null = Null
    StartBuckets = {0, 5}
    Scans <- MCScans
    Expirations <- MCExpirations
    Puts <- MCPuts
SYMMETRY Symmetry
INVARIANTS
    RecencyListIntact
    TotalsExact
PROPERTIES
    IsLruMap
VIEW View
