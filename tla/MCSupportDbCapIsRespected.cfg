SPECIFICATION SupportSpec
CONSTANTS
    Workers = {w1, w2}
    me = me
    you = you
    Accounts = {me, you}
    spam = spam
    abuse = abuse
    Types = {spam, abuse}
    dm = dm
    Messages = {dm}
    Keys = {"c1", "c3"}
    AccountOf <- MCAccountOf
    CallOf <- MCCallOf
    Cap = 1
    NULL = NULL
    MaxTickets = 3
    MaxDay = 1
SYMMETRY Symmetry
INVARIANT
    CapIsRespected
