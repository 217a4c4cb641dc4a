SPECIFICATION FairSpec
CONSTANTS
    k1 = k1
    k2 = k2
    k3 = k3
    Key = {k1, k2}
    Value = {v1}
    NumShards = 2
    ShardOf <- MCShardOf2
    TTL = {0}
    Capped = FALSE
    EventBuffer = 1
    MaxDelay = 1
    Syncer = {y1}
    CanClose = TRUE
    NoEntry = NoEntry
    MaxOps = 2
    MaxFlushes = 1
    MaxSyncs = 1
    MaxTime = 0
INVARIANT
    SyncBarrier
PROPERTIES
    NoGapAtClose
    StreamDrains
    SyncReturns
    CloseReleases
