SPECIFICATION Spec
CONSTANTS
    tab1 = tab1
    Tabs <- MCTabs
    Cycle = 1
    LastDay = 1
    MaxCharges <- MCMaxCharges
    MaxEvents = 3
PROPERTIES
    ExpirySparesPaidMonths
CHECK_DEADLOCK FALSE
