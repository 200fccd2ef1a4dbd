SPECIFICATION RunnerSpec
CONSTANTS
    Runs = {r1}
    Workers = {w1, w2}
    t1 = t1
    NULL = NULL
    Threads <- MCThreads
    ThreadOf <- MCThreadOf
    MaxAttempts = 2
    LeaseSeconds = 1
    BackoffSeconds = 1
    MaxBump = 6
    MaxTime = 20
    Calls = {a, b}
    MaxSteps = 3
    MaxCalls = 2
SYMMETRY Symmetry
INVARIANTS
    RunnerTypeOK
    StepLogWellFormed
    OneCallPerStep
    ExecutionsBounded
    ResumedNoEarlier
    StrayWritesBounded
    CancelStopsNextStep
    RepliesAreLogged
