SPECIFICATION Spec
CONSTANTS
    c1 = c1
    c2 = c2
    items = items
    sweep = sweep
    Consumers <- MCConsumers
    UserKeys <- MCUserKeys
    RefreshKeys <- MCNoKeys
    ScheduleKeys <- MCScheduleKeys
    MaxInserts = 1
    MaxFailures = 0
    MaxLostPosts = 0
    MaxTickFailures = 0
CHECK_DEADLOCK FALSE
INVARIANT DedupedRequestIsHeard
