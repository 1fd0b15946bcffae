SPECIFICATION FairSpec
CONSTANTS
    c1 = c1
    c2 = c2
    Configs <- MCConfigs
    Requests = {r1}
    Settings <- MCSettings
    Bounds <- MCBounds
INVARIANTS
    CarriersAreExclusive
    HistoryIsTrue
PROPERTIES
    RotationKeepsTheNewest
    DueIsStarted
CHECK_DEADLOCK FALSE
