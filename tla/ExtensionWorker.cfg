SPECIFICATION MCFairSpec
CONSTANTS
    t1 = t1
    t2 = t2
    Jobs <- MCJobs
    Lists <- MCLists
    Policies <- MCPolicies
    Sets = 2
    MaxEdits = 1
    MaxFaults = 1
INVARIANTS
    EtagNamesCatalog
PROPERTIES
    AnsweredAsStored
    ServerIsFollowed
