SPECIFICATION Spec
CONSTANTS
    NumKeys = 1
    ScenarioOf <- Alone
    PathOf <- AloneFile
    Unrenderable = {}
    BaseGiven = FALSE
    MaxEpisodes = 1
    MaxFaults = 1
PROPERTIES
    OneFaultIsRetried
