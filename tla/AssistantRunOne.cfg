SPECIFICATION Spec
CONSTANTS
    Runs = {1}
    Workers = {w1, w2}
    Relays = {d1, d2}
    Process <- OneProcess
    NoProcess = NoProcess
    NoWorker = NoWorker
    NoTerminal = NoTerminal
    Costs = {0, 2}
    Billed = {1}
    Credit = 1
    MaxAttempts = 1
    BatchSize = 1
    MaxFaults = 3
INVARIANTS PlaceholderTracksRun TerminalAgreesWithMessage
    NoProviderCallAfterStaging ProviderCallsAreBounded OneTokenHolder DispatchedWasEnqueued
PROPERTIES StagedOnceByTheHolder ClosedRunsStayClosed ImplementsLedger
CHECK_DEADLOCK FALSE
