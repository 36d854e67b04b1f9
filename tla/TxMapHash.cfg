SPECIFICATION Spec
CONSTANTS
    BranchFactor = 2
    MaxDepth = 3
    Data = {1, 2}
    Slots = {1, 2}
    Callers = {1, 2}
    UsedKeys <- MemoryKeys
    MapType = "tx"
    Nodes = {n1, n2}
    Threads = {t1, t2}
    CacheSize = 1
    CacheTTL = 0
    NegativeSize = 1
    NegativeTTL = 0
    Retention = 0
    MaxBackends = 3
    Parts = {"memory"}
    Steps = 7
    v1 = v1
    v2 = v2
    Keys = {1, 2, 3}
    Values = {v1, v2}
    Absent = Absent
    Untracked = Untracked
    Owners <- MCOwners
    NonThreaded = {3}
    MaxTx = 3
    EntryKinds <- MCKinds
    MaxTxs = 2
    MaxRewrites = 1
INVARIANT HashIsContents
CHECK_DEADLOCK FALSE
