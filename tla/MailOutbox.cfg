SPECIFICATION FairMailSpec
CONSTANTS
    Messages = {m1, m2}
    Dated = {m1}
    MaxAttempts = 3
    MaxSwitches = 2
    MaxTroubles = 2
    Troubles = {"crash", "statement", "quit"}
INVARIANTS
    SentAgainOnlyIfMissed
PROPERTIES
    EveryMessageEnds
CHECK_DEADLOCK FALSE
