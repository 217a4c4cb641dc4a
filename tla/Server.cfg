SPECIFICATION SFairSpec
CONSTANTS
    Conn = {c1, c2}
    Topic = {t1}
    Sub = {s1, s2}
    Message = {m1, m2}
    NoSub = NoSub
    NoTopic = NoTopic
    NoMessage = NoMessage
    SubBuffer = 1
    MaxCommands = 4
INVARIANTS
    SubsAccounted
    Delivered
PROPERTIES
    QuietAfterClose
    CloseEndsAll
