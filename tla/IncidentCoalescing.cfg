SPECIFICATION Spec
CONSTANTS
    Events = {e1, e2, e3}
    Keys = {k1, k2}
    Times <- MCTimes
    Severities <- MCSeverities
    Window = 1
    MaxListed = 2
    MaxUpdates = 2
    None = None
SYMMETRY Symmetry
CHECK_DEADLOCK FALSE
INVARIANTS TypeOK SummaryIsOfItsEvents InOneIncident
PROPERTIES SettledStaysAsItIs
