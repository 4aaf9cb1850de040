SPECIFICATION Spec
CONSTANTS
    Missing = Missing
    c1 = c1
    c2 = c2
    c3 = c3
    a1 = a1
    Calls = {c1, c2}
    Accounts = {a1}
    AccountOf <- OneAccount
    Costs = {1, 2}
    Limits = {}
    DefaultBudget = 4
    Thresholds = {50}
    Labelled = {50}
    AwaitsSuspend = TRUE
    Faults = TRUE
    MaxResets = 0
SYMMETRY CallSymmetry
INVARIANTS
    OrphansRecover
CHECK_DEADLOCK FALSE
