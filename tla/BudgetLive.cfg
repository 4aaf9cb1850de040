SPECIFICATION FairSpec
CONSTANTS
    Missing = Missing
    c1 = c1
    c2 = c2
    c3 = c3
    a1 = a1
    Calls = {c1, c2, c3}
    Accounts = {a1}
    AccountOf <- OneAccount
    Costs = {1, 2}
    Limits = {}
    DefaultBudget = 4
    Thresholds = {50, 75, 100}
    Labelled = {50, 75, 100}
    AwaitsSuspend = TRUE
    Faults = FALSE
    MaxResets = 0
INVARIANTS
    ThresholdsCaughtUp
PROPERTIES
    EventuallyExact
CHECK_DEADLOCK FALSE
