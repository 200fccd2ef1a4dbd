SPECIFICATION StoreSpec
CONSTANTS
    Runs = {r1}
    Workers = {w1, w2}
    t1 = t1
    NULL = NULL
    Threads <- MCThreads
    ThreadOf <- MCThreadOf
    MaxAttempts = 2
    LeaseSeconds = 1
    BackoffSeconds = 1
    MaxBump = 1
    MaxTime = 4
CHECK_DEADLOCK FALSE
PROPERTY
    SucceedsOnlyForOwner
