SPECIFICATION Spec
CONSTANTS
    c1 = c1
    c2 = c2
    c3 = c3
    op = op
    a1 = a1
    key = key
    unknown = unknown
    p1 = p1
    p2 = p2
    Calls = {c1, c2}
    Operators = {op}
    Agents = {a1}
    CheckedAs <- OneAgent
    LoggedAs <- OneName
    Processes = {p1}
    Home <- OneProcess
    Cooldown = 1
    ErrorWindow = 1
    ErrorThreshold = 1
    Enforce = TRUE
    AwaitsSuspend = FALSE
    Faults = FALSE
SYMMETRY CallSymmetry
INVARIANTS
    OneProbeAtATime
