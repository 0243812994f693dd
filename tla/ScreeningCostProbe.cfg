SPECIFICATION FairSpec
CONSTANTS
    tab1 = tab1
    tab2 = tab2
    tender1 = tender1
    tender2 = tender2
    consumer1 = consumer1
    consumer2 = consumer2
    Requests <- MCRequests
    Tenders <- MCTenders
    Cached <- MCCached
    Consumers <- MCConsumers
    Limit = 1
    Threshold = 2
    MaxAttempts = 2
    MaxFaults = 3
    Title = Title
    None = None
PROPERTIES
    ProbeReports
CHECK_DEADLOCK FALSE
