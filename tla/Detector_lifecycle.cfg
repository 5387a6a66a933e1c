SPECIFICATION Spec
CONSTANTS
    NumTargets = 1
    NumScenarios = 2
    Watched <- TwoWatched
    Suppresses <- FirstSuppressesSecond
    Hold <- SlowRootQuickSymptom
    MaxApplies <- SymptomLimited
    AbsenceIsSignal = {2}
    Hour = 3
    UnlockedChoices <- NothingUnlocked
    ProbeAnswers = {TRUE, FALSE}
    Answers = {"breach", "clear", "empty", "error"}
    HandlerAnswers = {"ok", "error"}
    StateFile = TRUE
    CrashPoints <- AtRest
    SaveFails = FALSE
    LoadFails = FALSE
    MaxClock = 8
    MaxGap = 1
    MaxHandling = 1
INVARIANTS
    TypeOK
    DocumentedIsFiring
    RateLimited
    SilenceIsExplained
PROPERTIES
    OneProposalPerEpisode
    HoldHonoured
    ResolutionClosesDocument
    ImplementsLedger
\* the model stops at MaxClock
CHECK_DEADLOCK FALSE
