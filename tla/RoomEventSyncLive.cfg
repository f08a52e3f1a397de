SPECIFICATION FairSpec
CONSTANTS
    Positions = {1, 2, 3}
    Initially = {1, 2}
    MaxSeq = 2
    PageLimit = 1
    WindowSize = 1
    GapThreshold = 1
    Failures = {"unavailable"}
    MaxFaults = 1
    MaxRequests = 0
    MaxRestores = 1
    MaxTrouble = 2
INVARIANTS NeverRestsAhead
PROPERTIES Converges ReplayEnds
CHECK_DEADLOCK FALSE
