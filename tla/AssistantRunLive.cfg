SPECIFICATION FairSpec
CONSTANTS
    Runs = {1, 2}
    Workers = {w1}
    Relays = {d1}
    Process <- OwnProcess
    NoProcess = NoProcess
    NoWorker = NoWorker
    NoTerminal = NoTerminal
    Costs = {2}
    Billed = {1, 2}
    Credit = 3
    MaxAttempts = 1
    BatchSize = 1
    MaxFaults = 1
INVARIANTS MoneyIsAccountedFor
PROPERTIES AcceptedRunsClose
CHECK_DEADLOCK FALSE
