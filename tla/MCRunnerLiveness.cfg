SPECIFICATION FairRunnerSpec
CONSTANTS
    Runs = {r1}
    Workers = {w1, w2}
    t1 = t1
    NULL = NULL
    Threads <- MCThreads
    ThreadOf <- MCThreadOf
    MaxAttempts = 2
    LeaseSeconds = 1
    BackoffSeconds = 1
    MaxBump = 6
    MaxTime = 20
    Calls = {a}
    MaxSteps = 2
    MaxCalls = 1
PROPERTIES
    EveryRunEnds
    AttemptsRunDown
