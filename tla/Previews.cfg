SPECIFICATION FairSpec
CONSTANTS
    Keys = {k1, k2}
    Widths = {w1, w2}
    Readers = {p1, p2}
    Slots = 1
    Deletable = {k1}
    MaxTroubles = 1
    Troubles = {"cancel", "put", "open"}
INVARIANTS
    NoOrphanPreview
PROPERTIES
    EverybodyIsAnswered
CHECK_DEADLOCK FALSE
