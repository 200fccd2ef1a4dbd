SPECIFICATION ClientSpec
CONSTANTS
    Runs = {r1}
    Workers = {w1, w2, w3}
    t1 = t1
    NULL = NULL
    Threads <- MCThreads
    ThreadOf <- MCThreadOf
    MaxAttempts = 3
    LeaseSeconds = 1
    BackoffSeconds = 1
    MaxBump = 1
    MaxTime = 7
SYMMETRY Symmetry
\* All runs may be terminal and the clock at its bound.
CHECK_DEADLOCK FALSE
INVARIANTS
    ClientTypeOK
    QueueInv
    AnswerComesWithReply
PROPERTIES
    NoResurrection
    LeaseIsExclusive
