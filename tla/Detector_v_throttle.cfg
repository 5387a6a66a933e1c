SPECIFICATION Spec
CONSTANTS
    NumTargets = 1
    NumScenarios = 1
    Watched <- OneWatched
    Suppresses <- NoneSuppressed
    Hold <- NoHold
    MaxApplies <- LimitOne
    AbsenceIsSignal = {}
    Hour = 3
    UnlockedChoices <- NothingUnlocked
    ProbeAnswers = {TRUE}
    Answers = {"breach", "clear"}
    HandlerAnswers = {"ok"}
    StateFile = TRUE
    CrashPoints = {}
    SaveFails = FALSE
    LoadFails = FALSE
    MaxClock = 6
    MaxGap = 1
    MaxHandling = 0
INVARIANTS
    ThrottleLifts
\* the model stops at MaxClock
CHECK_DEADLOCK FALSE
