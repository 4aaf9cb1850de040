SPECIFICATION Spec
CONSTANTS
    Free = Free
    Hashes = {h1, h2, h3}
    Slots = {s1, s2}
    WindowSize = 9
    RepeatThreshold = 3
    CycleMaxPeriod = 3
    VelocityWindow = 1
    VelocityMultiplier = 3
    Warmup = 3
    Enforce = TRUE
    MaxCalls = 10
    MaxTicks = 2
SYMMETRY Symmetry
INVARIANTS
    TypeOK
    RepeatsBounded
    CyclesAreRepetitions
    BaselineWithinObserved
CHECK_DEADLOCK FALSE
