SPECIFICATION FairSpec
CONSTANTS
    Size = 2
    MaxSize = 2
    MaxTotal = 3
    Clients = {c1, c2}
INVARIANTS
    CrewStateOK
    ServedOnce
    NoLostWakeup
    JoinDrains
PROPERTIES
    PoolSpec
    CallsEnd
CHECK_DEADLOCK FALSE
