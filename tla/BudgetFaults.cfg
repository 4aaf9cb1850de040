SPECIFICATION Spec
CONSTANTS
    Missing = Missing
    c1 = c1
    c2 = c2
    c3 = c3
    a1 = a1
    Calls = {c1, c2}
    Accounts = {a1}
    AccountOf <- OneAccount
    Costs = {0, 1, 3}
    Limits = {2}
    DefaultBudget = 4
    Thresholds = {50, 100}
    Labelled = {100}
    AwaitsSuspend = TRUE
    Faults = TRUE
    MaxResets = 1
SYMMETRY CallSymmetry
INVARIANTS
    TypeOK
    SpendCapped
    SpendAccountedFor
PROPERTIES
    ImplementsLedger
CHECK_DEADLOCK FALSE
