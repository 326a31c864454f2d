SPECIFICATION Spec
CONSTANTS
    w1 = w1
    w2 = w2
    current = current
    l1 = l1
    l2 = l2
    operator = operator
    beat = beat
    Operators <- MCOperators
    Beats <- MCBeats
    Forever = Forever
    Workers <- MCWorkers
    Lookups <- MCLookups
    Ids <- MCOneId
    Canonical = current
    TTL = 1
    Durations <- MCDurations
    MaxTime = 2
INVARIANTS
    TypeOK
    StaleAtMostTTL
SYMMETRY MCSymmetry
