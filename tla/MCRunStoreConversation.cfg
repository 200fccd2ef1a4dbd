SPECIFICATION StoreSpec
CONSTANTS
    Runs = {r1, r2}
    Workers = {w1, w2}
    t1 = t1
    NULL = NULL
    Threads <- MCThreads
    ThreadOf <- MCThreadOf
    MaxAttempts = 2
    LeaseSeconds = 1
    BackoffSeconds = 1
    MaxBump = 1
    MaxTime = 2
SYMMETRY Symmetry
\* All runs may be terminal and the clock at its bound.
CHECK_DEADLOCK FALSE
INVARIANTS
    TypeOK
    RepliesBoundedByAttempts
    SucceededHasReply
PROPERTIES
    ReplyFromHolder
    ImplementsJobQueue
