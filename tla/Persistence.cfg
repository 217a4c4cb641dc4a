SPECIFICATION PSpec
CONSTANTS
    k1 = k1
    k2 = k2
    Key = {k1}
    Value = {v1, v2}
    NumShards = 1
    ShardOf <- MCShardOf1
    TTL = {0, 1}
    Capped = FALSE
    EventBuffer = 1
    MaxDelay = 0
    Syncer = {snapper}
    CanClose = FALSE
    NoEntry = NoEntry
    MaxOps = 3
    MaxFlushes = 0
    MaxSyncs = 1
    MaxTime = 1
    Snapper = snapper
    SyncAlways = FALSE
    CanTear = TRUE
    MaxSnapshots = 1
    MaxCrashes = 1
SYMMETRY Symmetry
INVARIANTS
    RecoveryCompleteOnce
    RecoversPrefix
    RecoversSlot
