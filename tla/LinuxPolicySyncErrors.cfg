SPECIFICATION FairSpec
CONSTANTS
    r1 = r1
    r2 = r2
    none = none
    monitor = monitor
    block = block
    Nothing = Nothing
    Mixed = Mixed
    Requests <- MCRequests
    PolicySets <- MCPolicySets
    NoPolicies = none
    Blocking <- MCBlocking
    MaxEdits = 0
    MaxFaults = 1
    ErrorAnswers = TRUE
    EndpointFaults = FALSE
PROPERTIES
    RecoversFromErrors
