SPECIFICATION Spec
CONSTANTS
    Free = Free
    Hashes = {h1, h2, h3}
    Slots = {s1}
    WindowSize = 20
    RepeatThreshold = 3
    CycleMaxPeriod = 4
    VelocityWindow = 1
    VelocityMultiplier = 5
    Warmup = 5
    Enforce = TRUE
    MaxCalls = 6
    MaxTicks = 0
SYMMETRY Symmetry
INVARIANTS
    SomethingPasses
CHECK_DEADLOCK FALSE
