SPECIFICATION FairGateSpec
CONSTANTS
    Requests = {q1, q2}
    Background = {b1, b2}
    Backups = {c1}
    Restores = {r1, r2, r3}
INVARIANTS
    MaintenanceIsExclusive
PROPERTIES
    NobodyWaitsForEver
CHECK_DEADLOCK FALSE
