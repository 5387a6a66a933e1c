SPECIFICATION Spec
CONSTANTS
    Id <- Entries
    Text <- Texts
    Form <- Forms
    Meaning <- Meanings
    Suppresses <- Silenced
    TextsOf <- Edits
    Job <- Jobs
    Proc = {p1, p2}
SYMMETRY Symmetry
INVARIANTS
    TypeOK
    GateMatchesWatch
    ApprovedIsLocked
PROPERTIES
    RunsAsApproved
    DeliberateAct
