SPECIFICATION RFairSpec
CONSTANTS
    k1 = k1
    k2 = k2
    c1 = c1
    v1 = v1
    Key = {k1, k2}
    Value = {v1}
    Conn = {c1}
    Syncer = {c1}
    NumShards = 2
    ShardOf <- MCShardOf
    TTL = {0, 1}
    Capped = FALSE
    EventBuffer = 1
    MaxDelay = 0
    CanClose = FALSE
    NoEntry = NoEntry
    ReplBuffer = 1
    MaxOps = 2
    MaxFlushes = 0
    MaxSyncs = 4
    MaxTime = 1
    MaxBreaks = 1
INVARIANT ReplicaReflects
PROPERTY ReplicaCatchesUp
