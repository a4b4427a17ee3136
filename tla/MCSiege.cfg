SPECIFICATION FairSiege
CONSTANTS
    Size = 2
    MaxSize = 2
    MaxTotal = 2
    Main = main
    Handler = handler
    Clients = {main, handler}
    MaxSignals = 2
INVARIANTS
    SiegeTypeOK
    CrewOutlivesItsUsers
    AllRunAndCounted
PROPERTIES
    Spec
    SiegeEnds
CHECK_DEADLOCK FALSE
