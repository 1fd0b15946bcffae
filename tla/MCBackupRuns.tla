---------------------------- MODULE MCBackupRuns ----------------------------
(* Retentions small enough for two archives to outgrow them, and three     *)
(* services: one configuration whose history goes through failures,        *)
(* crashes and restores, two due at once of which one is edited, and one   *)
(* with an SFTP server whose answers may be lost.                          *)
EXTENDS BackupRuns

CONSTANTS c1, c2

MCConfigs == {c1, c2}

Retention(keep, n, to) == [keep |-> keep, n |-> n, to |-> to]

CountLocal(n) == Retention("count", n, "local")
DaysLocal == Retention("days", 1, "local")
CountSFTP == Retention("count", 1, "sftp")

MCSettings == {CountLocal(1), CountLocal(2), DaysLocal, CountSFTP}

MCBounds == {
    [configs |-> {c1}, settings |-> {CountLocal(2), DaysLocal}, periods |-> 3,
     requests |-> 1, holds |-> 1, troubles |-> 2, kinds |-> {"fault", "crash", "restore"}],
    [configs |-> {c1, c2}, settings |-> {CountLocal(1), DaysLocal}, periods |-> 2,
     requests |-> 0, holds |-> 1, troubles |-> 1, kinds |-> {"edit"}],
    [configs |-> {c1}, settings |-> {CountSFTP}, periods |-> 3,
     requests |-> 1, holds |-> 0, troubles |-> 1, kinds |-> {"fault", "crash"}]}
=============================================================================
