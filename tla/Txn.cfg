SPECIFICATION FairSpec
CONSTANTS
    a = a
    b = b
    k1 = k1
    empty = empty
    Client = {a, b}
    Key = {k1}
    EmptyKey = empty
    NoClient = NoClient
    MaxWrites = 3
    MaxQueued = 1
    MaxLost = 1
INVARIANT
    TypeOK
PROPERTIES
    NoFalseAbort
    MissesOnlyInFlight
    CommandsReturn
