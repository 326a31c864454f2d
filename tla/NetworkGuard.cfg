SPECIFICATION FairSpec
CONSTANTS
    p1 = p1
    f1 = f1
    f2 = f2
    i1 = i1
    guard = guard
    NoFile = NoFile
    Guard = guard
    Processes <- MCOneProcess
    Files <- MCFiles
    Inspectors <- MCOneInspector
    Suspending = TRUE
    MaxHandled = 1
    MaxRuns = 2
INVARIANTS
    TypeOK
    FrozenOnlyInHand
    JudgedOnce
PROPERTIES
    EventuallyReleased
CHECK_DEADLOCK FALSE
