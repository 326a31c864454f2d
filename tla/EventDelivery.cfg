SPECIFICATION Spec
CONSTANTS
    e1 = e1
    e2 = e2
    e3 = e3
    Torn = Torn
    Events <- MCEvents
    Malformed <- MCMalformed
    MaxSpool = 2
    MaxFlushBatch = 1
    MaxRetries = 0
    MaxCrashes = 1
    DiskFaults = TRUE
INVARIANTS
    TypeOK
    NoUnaccountedLoss
    ReplayInOrder
PROPERTIES
    SpoolShrinksOnlyBySettling
    ImplementsAuditTrail
SYMMETRY MCSymmetry
