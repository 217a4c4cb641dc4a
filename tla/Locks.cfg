SPECIFICATION FairSpec
CONSTANTS
    a = a
    c = c
    o1 = o1
    o2 = o2
    Client = {a, c}
    Owner = {o1, o2}
    OwnerOf <- MCOwnerOf
    Key = {k1}
    TTL = {1, 3}
    Wait = {1}
    MaxTokens = 3
    MaxTime = 4
INVARIANTS
    TypeOK
    MutualExclusion
    LeaseKept
PROPERTIES
    ImplementsService
    BlockingReturns
