CONSTANTS
    Node = {n1, n2, n3}
    Self = n1
    NoNode = NoNode
    VNodes = 2
    Top = 3
    ReplicationFactor = 2
    FailAfter = 1
SYMMETRY Others
SPECIFICATION CSpec
INVARIANTS
    RingSound
    ReplicasAreNearest
    OwnersAgree
PROPERTY
    MinimalMovement
