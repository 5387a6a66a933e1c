SPECIFICATION SuiteSpec
CONSTANTS
    NumSpecs = 1
    Hold <- OneHold
    FiresWithin <- OneWindow
    ResolvesWithin <- OneClosing
    Poll = 1
    Grace = 1
    Retries = 0
    ObserverBudget = 1
    MaxLag = 1
INVARIANTS
    BlindIsNotBlamed
\* the suite ends
CHECK_DEADLOCK FALSE
