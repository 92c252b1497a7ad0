SPECIFICATION FairSpec
CONSTANTS
    InitialEpoch = 41
    Full = 100
    Rounding = 1
    Canary = 10
    Step = 30
    RequireObservability = TRUE
    RequireSynthetic = TRUE
    StepLimits <- CallLimits
    Fallible <- FallibleGates
INVARIANTS
    TypeOK
    AuthorityBehindFence
    RunStabilises
PROPERTIES
    AuthorityMovesForward
    ShiftGrowsOnlyWhenSafe
    ShiftEnds
