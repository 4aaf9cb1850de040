SPECIFICATION Spec
CONSTANTS
    c1 = c1
    c2 = c2
    c3 = c3
    op = op
    a1 = a1
    key = key
    unknown = unknown
    p1 = p1
    p2 = p2
    Calls = {c1, c2, c3}
    Operators = {op}
    Agents = {key, unknown}
    CheckedAs <- Keyed
    LoggedAs <- Unknown
    Processes = {p1}
    Home <- OneProcess
    Cooldown = 2
    ErrorWindow = 2
    ErrorThreshold = 2
    Enforce = TRUE
    AwaitsSuspend = FALSE
    Faults = FALSE
SYMMETRY Bystanders
INVARIANTS
    ApiAgreesWithEngine
    ThresholdTrips
    TrippedAgentsListed
PROPERTIES
    CooldownRunsItsCourse
    NothingRunsWhileOpen
    ImplementsMachine
