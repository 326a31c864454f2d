SPECIFICATION FairSpec
CONSTANTS
    f1 = f1
    s1 = s1
    h1 = h1
    r1 = r1
    reporter = reporter
    Files <- MCFiles
    Sweepers <- MCSweepers
    Handlers <- MCHandlers
    Readers <- MCReaders
    Reporter = reporter
    MaxEdits = 2
    AlikeEdits = {1}
INVARIANTS
    TypeOK
    CacheIsRight
    ListedIsMarked
PROPERTIES
    EventuallyAnswered
    EventuallyGuarded
CHECK_DEADLOCK FALSE
