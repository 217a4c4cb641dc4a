SPECIFICATION PSpec
CONSTANTS
    k1 = k1
    k2 = k2
    Key = {k1, k2}
    Value = {v1}
    NumShards = 1
    ShardOf <- MCShardOf1
    TTL = {0}
    Capped = FALSE
    EventBuffer = 2
    MaxDelay = 0
    Syncer = {snapper}
    CanClose = FALSE
    NoEntry = NoEntry
    MaxOps = 2
    MaxFlushes = 0
    MaxSyncs = 1
    MaxTime = 0
    Snapper = snapper
    SyncAlways = FALSE
    CanTear = FALSE
    MaxSnapshots = 1
    MaxCrashes = 1
INVARIANT
    RecoveryComplete
