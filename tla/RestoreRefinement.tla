-------------------------- MODULE RestoreRefinement --------------------------
(***************************************************************************)
(* The staged restore implements the atomic one, as long as at most one    *)
(* thing goes wrong and no process dies between the two switches.          *)
(***************************************************************************)
EXTENDS RestoreCutover

InBounds == OneTrouble /\ ~torn
Excused == ~InBounds

(* During the cutover the restore gate keeps every request out, so what    *)
(* the instance is seen to hold is what it held before.                    *)
Atomic == INSTANCE AtomicRestore WITH
    database <- IF pc \in Cutover THEN dbStage.previous ELSE Public,
    files <- IF pc \in Cutover THEN fileStage.previous ELSE current,
    attempt <- run,
    outcome <- result,
    excused <- Excused

(* A restore replaces the database and the files together or neither, and  *)
(* reports which; and it does report - whatever single thing goes wrong    *)
(* (the deferred calls of restoreStaged).                                  *)
ImplementsAtomicRestore == Atomic!FairAtomicSpec
=============================================================================
