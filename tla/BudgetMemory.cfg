SPECIFICATION Spec
CONSTANTS
    Missing = Missing
    c1 = c1
    c2 = c2
    c3 = c3
    a1 = a1
    Calls = {c1, c2, c3}
    Accounts = {a1}
    AccountOf <- OneAccount
    Costs = {1, 2}
    Limits = {3}
    DefaultBudget = 4
    Thresholds = {50, 80, 100}
    Labelled = {50, 100}
    AwaitsSuspend = FALSE
    Faults = FALSE
    MaxResets = 1
SYMMETRY CallSymmetry
INVARIANTS
    FlagsOfThisPeriod
PROPERTIES
    FiresAtMostOnce
    GrantsFitTheLimit
CHECK_DEADLOCK FALSE
