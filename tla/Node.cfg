SPECIFICATION NFairSpec
CONSTANTS
    k1 = k1
    k2 = k2
    Key = {k1, k2}
    Value = {v1}
    NumShards = 2
    ShardOf <- MCShardOf
    TTL = {1}
    Capped = FALSE
    EventBuffer = 1
    MaxDelay = 0
    Syncer = {snapper}
    CanClose = TRUE
    NoEntry = NoEntry
    MaxOps = 2
    MaxFlushes = 0
    MaxSyncs = 2
    Peer = {p1}
    CanFail = TRUE
    MaxTime = 1
    Snapper = snapper
    SyncAlways = FALSE
    CanTear = FALSE
    MaxSnapshots = 2
    MaxCrashes = 0
INVARIANTS
    NothingMissing
    CleanShutdown
PROPERTIES
    SnapshotReturns
    ShutdownEnds
