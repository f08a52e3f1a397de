SPECIFICATION Spec
CONSTANTS
    Servers = {A, B}
    Turns = {t1, t2}
    Inputs = {1}
    Steers = {1}
    MaxTools = 0
    MaxAsks = 1
    MaxExtras = 1
    MaxFaults = 1
    NoTurn = NoTurn
    NoServer = NoServer
INVARIANTS
    TurnsDoNotInterleave
    RunningRoom
    UsedOnce
PROPERTIES ImplementsTurnTaking
SYMMETRY Symmetry
CHECK_DEADLOCK FALSE
