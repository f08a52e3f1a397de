SPECIFICATION LiveSpec
CONSTANTS
    Servers = {A}
    Turns = {t1, t2}
    Inputs = {1}
    Steers = {}
    MaxTools = 1
    MaxAsks = 1
    MaxExtras = 1
    MaxFaults = 1
    NoTurn = NoTurn
    NoServer = NoServer
INVARIANTS
    TypeOK
    ClosedTurnIsClean

    
    
CHECK_DEADLOCK FALSE
