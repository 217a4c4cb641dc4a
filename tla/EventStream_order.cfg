SPECIFICATION Spec
CONSTANTS
    k1 = k1
    k2 = k2
    k3 = k3
    Key = {k1, k2, k3}
    Value = {v1, v2}
    NumShards = 2
    ShardOf <- MCShardOf
    TTL = {0, 1}
    Capped = TRUE
    EventBuffer = 2
    MaxDelay = 1
    Syncer = {y1}
    CanClose = FALSE
    NoEntry = NoEntry
    MaxOps = 3
    MaxFlushes = 0
    MaxSyncs = 0
    MaxTime = 1
SYMMETRY Symmetry
INVARIANTS
    TypeOK
    Converged
PROPERTY
    ImplementsFollower
