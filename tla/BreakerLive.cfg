SPECIFICATION FairSpec
CONSTANTS
    c1 = c1
    c2 = c2
    c3 = c3
    op = op
    a1 = a1
    key = key
    unknown = unknown
    p1 = p1
    p2 = p2
    Calls = {c1, c2}
    Operators = {op}
    Agents = {key, unknown}
    CheckedAs <- Keyed
    LoggedAs <- Unknown
    Processes = {p1}
    Home <- OneProcess
    Cooldown = 1
    ErrorWindow = 1
    ErrorThreshold = 2
    Enforce = TRUE
    AwaitsSuspend = TRUE
    Faults = TRUE
INVARIANTS
    TypeOK
PROPERTIES
    Recovery
