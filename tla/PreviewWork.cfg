SPECIFICATION FairWorkSpec
CONSTANTS
    Uploads = {u1, u2}
    Workers = {w1, w2}
    Walks = {s1, s2}
    MaxFiles = 1
INVARIANTS
    WorkIsSharedOut
PROPERTIES
    EveryWishIsSeen
CHECK_DEADLOCK FALSE
