SPECIFICATION Spec
CONSTANTS
    NumTargets = 2
    NumScenarios = 1
    Watched <- TwoAlike
    Suppresses <- NoneSuppressed
    Hold <- HoldOne
    MaxApplies <- LimitOne
    AbsenceIsSignal = {}
    Hour = 4
    UnlockedChoices <- SometimesUnlocked
    ProbeAnswers = {TRUE, FALSE}
    Answers = {"breach", "clear", "error"}
    HandlerAnswers = {"ok", "error"}
    StateFile = TRUE
    CrashPoints <- Anywhere
    SaveFails = TRUE
    LoadFails = TRUE
    MaxClock = 5
    MaxGap = 2
    MaxHandling = 1
INVARIANTS
    ExcessIsForgotten
    NothingOverdue
    BucketsCoverBreaches
\* the model stops at MaxClock
CHECK_DEADLOCK FALSE
