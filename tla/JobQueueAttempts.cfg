SPECIFICATION Spec
CONSTANTS
    c1 = c1
    c2 = c2
    k1 = k1
    k2 = k2
    Ids <- MCIds
    Keys <- MCKeys
    Consumers <- MCConsumers
    Serves <- MCServes
    Priorities <- MCPriorities
    MaxAttempts = 2
    MaxLosses = 2
    MaxOverruns = 0
    NoKey = NoKey
    NoId = NoId
INVARIANT AttemptsWithinBudget
CHECK_DEADLOCK FALSE
