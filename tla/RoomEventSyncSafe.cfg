SPECIFICATION Spec
CONSTANTS
    Positions = {1, 2, 3}
    Initially = {1, 2}
    MaxSeq = 3
    PageLimit = 1
    WindowSize = 1
    GapThreshold = 1
    Failures = {"unavailable"}
    MaxFaults = 1
    MaxRequests = 1
    MaxRestores = 0
    MaxTrouble = 2
INVARIANTS TypeOK NeverStale NothingNewerMissing  RestingMeansCaughtUp
CHECK_DEADLOCK FALSE
