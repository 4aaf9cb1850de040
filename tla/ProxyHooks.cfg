SPECIFICATION Spec
CONSTANTS
    None = None
    Unknown = Unknown
    r1 = r1
    r2 = r2
    r3 = r3
    a1 = a1
    k1 = k1
    Requests = {r1, r2, r3}
    Agents = {a1, k1, Unknown}
    ExplicitId <- NamedOrKeyed
    AuthId <- Keyed
    Costs = {1, 2}
    DefaultBudget = 2
    AlertAt = 2
    ErrorThreshold = 1
    Faulty = {r1}
INVARIANTS
    TypeOK
    RefusalsAreFree
    EnforcedCallsAreFunded
    NoHoldIsLost
    ObserveRefusesNothing
    AlertsReachTheirAgent
PROPERTIES
    AgentsIsolated
    HoldsSettle
CHECK_DEADLOCK FALSE
