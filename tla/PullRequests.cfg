SPECIFICATION FairSpec
CONSTANTS
    NumKeys = 3
    ScenarioOf <- Scenarios
    PathOf <- OwnFiles
    Unrenderable = {3}
    BaseGiven = TRUE
    MaxEpisodes = 2
    MaxFaults = 3
INVARIANTS
    TypeOK
    EpisodeHasPullRequest
PROPERTIES
    OpensAsPromised
    FailureHasCause
    IncidentIsTaken
