SPECIFICATION SupportSpec
CONSTANTS
    Workers = {w1, w2}
    me = me
    you = you
    Accounts = {me, you}
    spam = spam
    abuse = abuse
    Types = {spam, abuse}
    dm = dm
    Messages = {dm}
    Keys = {"c1", "c3", "a1", "e1", "n1", "x1"}
    AccountOf <- MCAccountOf
    CallOf <- MCCallOf
    Cap = 1
    NULL = NULL
    MaxTickets = 3
    MaxDay = 2
SYMMETRY Symmetry
CONSTRAINT Apart
INVARIANTS
    SupportTypeOK
    OneOpenPerType
    StatusMatchesTables
    CapOvershootBounded
    StoredResultsAreTrue
