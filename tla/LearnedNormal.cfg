SPECIFICATION Spec
CONSTANTS
    Readings <- Quantities
    NaN = NaN
    Empty = Empty
    Failed = Failed
    Static <- StaticThreshold
    Multiplier = 3
    Hold = 1
    MinSamples = 2
    Factor = 3
    AlphaNum = 1
    AlphaDen = 2
    ToleranceNum = 3
    ToleranceDen = 2
    SaveFails = TRUE
    LoadFails = TRUE
    MaxWarmup = 5
    MaxRounds = 4
INVARIANTS
    TypeOK
    NormalOnFile
PROPERTIES
    EpisodeKeepsThreshold
    WarmupFindsFloor
\* the model stops after MaxRounds
CHECK_DEADLOCK FALSE
