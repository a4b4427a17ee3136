SPECIFICATION FairSiege
CONSTANTS
    Size = 2
    MaxSize = 2
    MaxTotal = 2
    Main = main
    Handler = handler
    Clients = {main, handler}
    MaxSignals = 1
PROPERTY InterruptEnds
CHECK_DEADLOCK FALSE
