SPECIFICATION FairSpec
CONSTANTS
    c1 = c1
    c2 = c2
    items = items
    sweep = sweep
    Consumers <- MCConsumers
    UserKeys <- MCUserKeys
    RefreshKeys <- MCRefreshKeys
    ScheduleKeys <- MCScheduleKeys
    MaxInserts = 2
    MaxFailures = 1
    MaxLostPosts = 1
    MaxTickFailures = 1
\* A stopped process with nothing left to send is the end of a behaviour.
CHECK_DEADLOCK FALSE
INVARIANTS
    TypeOK
    WakeIsNotLost
PROPERTIES
    DueRowIsClaimed
    ShutdownEnds
    NoNewClaimsAfterStop
