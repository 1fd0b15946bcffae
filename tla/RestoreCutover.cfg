SPECIFICATION FairSpec
CONSTANTS
    MaxRestores = 3
    MaxFaults = 3
    MaxCancels = 1
    MaxCrashes = 1
    LostAcks = TRUE
INVARIANTS
    HalvesAreUsable
    ReportIsTrue
    NothingLeftBehind
PROPERTIES
    OldDatabaseOutlivesTheSwitch
    LiveFilesAreKept
    ImplementsAtomicRestore
CHECK_DEADLOCK FALSE
