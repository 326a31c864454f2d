SPECIFICATION FairSpec
CONSTANTS
    r1 = r1
    r2 = r2
    none = none
    monitor = monitor
    block = block
    Nothing = Nothing
    Mixed = Mixed
    Requests <- MCRequests
    PolicySets <- MCPolicySets
    NoPolicies = none
    Blocking <- MCBlocking
    MaxEdits = 2
    MaxFaults = 2
    ErrorAnswers = TRUE
    EndpointFaults = TRUE
INVARIANTS
    TypeOK
    CachedWasCommitted
    BlockingSetBlocks
PROPERTIES
    ImplementsPolicyRollout
    EventuallyCurrent
