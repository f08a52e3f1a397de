SPECIFICATION Spec
CONSTANTS
    Files = {f, g}
    Restores = {R, Q}
    None = None
    TurnLease = TurnLease
    MaxRevisions = 4
    MaxEdits = 1
    MaxFaults = 1
    FaultKinds = {"crash", "lease", "ack", "edit"}
INVARIANTS
    TypeOK
    
    PlansLeadToTarget
    
PROPERTIES
    HeadMovesOnce
SYMMETRY Symmetry
CHECK_DEADLOCK FALSE
