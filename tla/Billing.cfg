SPECIFICATION Spec
CONSTANTS
    tab1 = tab1
    Tabs <- MCTabs
    Cycle = 1
    LastDay = 1
    MaxCharges <- MCMaxCharges
    MaxEvents = 3
INVARIANTS
    TypeOK
    PaidPlanIsPaid
    ActiveIsPaid
    OneLiveRow
PROPERTIES
    PaidMonthsAreKept
    RefundBuysNothing
    EndedPlanIsReclaimed
CHECK_DEADLOCK FALSE
