SPECIFICATION LiveSpec
CONSTANTS
    a1 = a1
    a2 = a2
    g1 = g1
    g2 = g2
    run = run
    early = early
    late = late
    Callers = {a1, a2, g1, g2}
    Ids = {run, early, late}
    IdOf <- MCIdOf
    Priority <- MCPriority
    Gateway = {g1, g2}
    MaxConcurrent = 2
    MaxPerSecond = 1
    Tolerated = {"stall", "lost", "slow", "crash"}
    MaxFaults = 2
INVARIANT CallsAreLimited
PROPERTY NoOvertaking
PROPERTY WaitersAreServed
