SPECIFICATION FairSpec
CONSTANTS
    c1 = c1
    c2 = c2
    k1 = k1
    k2 = k2
    Ids <- MCIds
    Keys <- MCKeys
    Consumers <- MCConsumers
    Serves <- MCServes
    Priorities <- MCPriorities
    MaxAttempts = 2
    MaxLosses = 1
    MaxOverruns = 1
    NoKey = NoKey
    NoId = NoId
\* With every id used and every row settled the queue is empty and may rest.
CHECK_DEADLOCK FALSE
INVARIANTS
    TypeOK
    OneLiveJobPerKey
    ClaimIsExclusive
    OneRunnerPerKey
    FailedIsSpent
    ClaimsAreExplained
PROPERTIES
    FirstOutcomeStands
    ImplementsLiveJob
    EveryJobSettles
