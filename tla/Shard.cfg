SPECIFICATION Spec
CONSTANTS
    k1 = k1
    k2 = k2
    k3 = k3
    Key = {k1, k2, k3}
    Text = Text
    Value = {0, Text}
    Width = 2
    Delta = {1}
    TTL = {0, 1}
    ValueLen <- MCValueLen
    EntryOverhead = 2
    Setup <- MCSetup
    Never = 99
    MaxTime = 1
SYMMETRY Symmetry
INVARIANTS
    TypeOK
    PolicyTracksItems
    MemoryIsExact
    EventsDescribe
    LimitsHold
PROPERTY
    EvictsInOrder
