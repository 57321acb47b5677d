SPECIFICATION FairSpec
CONSTANTS
    a = a  b = b  r1 = r1  r2 = r2
    Tasks = {a, b}
    DependsOn <- TwoTasks
    MaxRetries <- RetryA
    Sweepers = {r1, r2}
    Stalls = TRUE
    StoreFaults = TRUE
    Lossy = {b}
    MaxCrashes = 2
    SomeFireKnown = TRUE
CHECK_DEADLOCK FALSE
INVARIANTS OutcomeMatchesTasks SettledBeforeFinish SweptOnce
PROPERTIES KeepsContract EveryRunEnds
