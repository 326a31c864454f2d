SPECIFICATION FairSpec
CONSTANTS
    e1 = e1
    e2 = e2
    e3 = e3
    Torn = Torn
    Events <- MCTwoEvents
    Malformed <- MCMalformed
    MaxSpool = 2
    MaxFlushBatch = 1
    MaxRetries = 3
    MaxCrashes = 1
    DiskFaults = FALSE
INVARIANTS
    OneTaskPerEvent
PROPERTIES
    EventuallyDelivered
