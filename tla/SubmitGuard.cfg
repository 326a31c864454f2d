SPECIFICATION FairSpec
CONSTANTS
    f1 = f1
    text = text
    Files <- MCFiles
    Text = text
    MaxGestures = 2
    MaxHolds = 2
    MaxEdits = 1
INVARIANTS
    ReleasedByItsVerdict
    OneSendPerGesture
    NoneSlipsPast
PROPERTIES
    ImplementsSendGate
    HoldEnds
CHECK_DEADLOCK FALSE
