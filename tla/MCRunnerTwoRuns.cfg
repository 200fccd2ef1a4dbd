SPECIFICATION RunnerSpec
CONSTANTS
    Runs = {r1, r2}
    Workers = {w1, w2}
    t1 = t1
    NULL = NULL
    Threads <- MCThreads
    ThreadOf <- MCThreadOf
    MaxAttempts = 1
    LeaseSeconds = 1
    BackoffSeconds = 1
    MaxBump = 2
    MaxTime = 2
    Calls = {a}
    MaxSteps = 1
    MaxCalls = 1
SYMMETRY Symmetry
INVARIANTS
    OneRunPerWorker
    RepliesAreLogged
PROPERTIES
    ImplementsRunStore
