SPECIFICATION Spec
CONSTANTS
    Files = {f}
    Restores = {R}
    None = None
    TurnLease = TurnLease
    MaxRevisions = 4
    MaxEdits = 0
    MaxFaults = 1
    FaultKinds = {"ack"}
INVARIANTS
    NeverMixed
CHECK_DEADLOCK FALSE
