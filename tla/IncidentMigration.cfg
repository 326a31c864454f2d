SPECIFICATION MigrationSpec
CONSTANTS
    Events = {e1, e2, e3}
    Keys = {k1, k2}
    Times <- MCTimes
    Severities = {4}
    Window = 1
    MaxListed = 3
    MaxUpdates = 0
    Concurrent = FALSE
    MaxRuns = 1
    None = None
CHECK_DEADLOCK FALSE
INVARIANTS NothingIsLost InOneIncident SessionsAreApart
