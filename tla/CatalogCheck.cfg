SPECIFICATION Spec
CONSTANTS
    Query <- Queries
    ZeroBreaches <- Falling
    Series <- AllSeries
    Stale <- Ended
    ParamValue = {"mine"}
    BuiltFrom <- Built
INVARIANTS
    TypeOK
    RefsAreExact
    VerdictIsRight
\* the check of an entry ends
CHECK_DEADLOCK FALSE
