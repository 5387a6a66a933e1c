SPECIFICATION FairSuite
CONSTANTS
    NumSpecs = 2
    Hold <- TwoHolds
    FiresWithin <- TwoWindows
    ResolvesWithin <- TwoClosings
    Poll = 1
    Grace = 1
    Retries = 1
    ObserverBudget = 1
    MaxLag = 1
INVARIANTS
    TypeOK
    LeavesNoFault
    PassIsEarned
    BlameIsFair
    SuccessIsWhole
PROPERTIES
    SuiteEnds
\* the suite ends
CHECK_DEADLOCK FALSE
