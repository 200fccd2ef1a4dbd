SPECIFICATION DelegationSpec
CONSTANTS
    Workers = {w1, w2}
    me = me
    Accounts = {me}
    spam = spam
    Types = {spam}
    dm = dm
    Messages = {dm}
    ask = ask
    look = look
    Parents = {ask, look}
    AgentOf <- MCAgentOf
    Lookups <- MCLookups
    Writes <- MCWrites
    Turns <- MCTurns
    Keys <- MCKeys
    AccountOf <- MCAccountOf
    CallOf <- MCCallOf
    SPECIALIST_MAX_STEPS = 3
    MaxCalls = 2
    MaxPasses <- MCMaxPasses
    Cap = 3
    NULL = NULL
    MaxTickets = 2
    MaxDay = 2
INVARIANTS
    DelegationTypeOK
    HeardIsStored
    NotReplayedAtFirst
    EffectsBoundedByPasses
PROPERTIES
    ImplementsSupportDb
    DelegationsReturn
    LoopsRunDown
