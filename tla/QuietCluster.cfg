SPECIFICATION Spec
CONSTANTS
    Signals <- AllSignals
    Values = {0, 1, 4, 9}
    Poll = 1
    Warmup = 2
    Window = 5
    MinSamples = 2
    MarginFactor = 2
    MaxLag = 1
INVARIANTS
    TypeOK
    ReportIsTrue
    GradesAgree
    AdmittedIsQuiet
\* the window ends
CHECK_DEADLOCK FALSE
