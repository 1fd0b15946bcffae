--------------------------- MODULE RestoreCutover ---------------------------
(***************************************************************************)
(* A whole-instance restore: backup.Restore and restoreStaged, over the    *)
(* schema stage of storage/migrations and the generation stage of          *)
(* media.LocalStore.                                                       *)
(*                                                                         *)
(* An instance is two halves, a PostgreSQL schema called public and a      *)
(* media generation the .current link points at.  A restore builds a       *)
(* replacement of each beside the live one and switches them one after     *)
(* the other.  Restore number r builds schema r and generation r, so the   *)
(* instance is whole when both live halves carry the same number; number 0 *)
(* is what the instance was installed with.                                *)
(*                                                                         *)
(* Every call may fail (a fault), the context may be cancelled by a        *)
(* shutdown, and the process may die between any two steps.                *)
(***************************************************************************)
EXTENDS Naturals, FiniteSets

CONSTANTS
    MaxRestores,  \* bound: restores started
    MaxFaults,    \* bound: calls that fail for a reason of their own
    MaxCancels,   \* bound: shutdowns asked for
    MaxCrashes,   \* bound: processes killed
    LostAcks      \* may a COMMIT take effect and still be reported as failed?

ASSUME RestoreAssumption ==
    /\ MaxRestores \in Nat \ {0}
    /\ MaxFaults \in Nat
    /\ MaxCancels \in Nat
    /\ MaxCrashes \in Nat
    /\ LostAcks \in BOOLEAN

Id == 0..MaxRestores

SchemaState == {"absent", "staged", "public", "previous", "failed"}
GenerationState == {"absent", "partial", "complete"}

Steps == {"validate", "beginDatabase", "load", "beginFiles", "putFiles",
          "activateDatabase", "activateFiles", "rollbackFiles",
          "rollbackDatabase", "dropFailed", "finishDatabase", "finishFiles",
          "closeFiles", "closeDatabase"}

(* Steps at which the two halves may differ without anything having gone   *)
(* wrong: between the first switch and the second, or its undoing.         *)
Cutover == {"activateFiles", "rollbackFiles", "rollbackDatabase"}

Results == {"none", "running", "succeeded", "failed", "lost"}

VARIABLES
    schema,      \* PostgreSQL: what each restore's schema is named
    ready,       \* PostgreSQL: schemas loaded and migrated to this build
    generation,  \* disk: the generation directories
    current,     \* disk: the generation the .current link names
    run,         \* the number of the restore in progress, or of the last one
    pc,          \* where backup.Restore stands, or "idle"
    dbStage,     \* restoreStage: active, and the schema kept as previous
    fileStage,   \* localRestoreStage: activated, and the previous generation
    restoreMu,   \* Migrator.restoreMu is held
    failing,     \* Restore is on its way to returning an error
    result,      \* what the restore job reports
    cancelled,   \* the context of the work is cancelled
    faults, cancels, crashes,   \* how much has gone wrong so far
    ackLost,     \* history: a COMMIT that took effect was reported as failed
    torn,        \* history: a process died between the two switches
    unseen       \* history: generations the link was switched to without
                 \* Activate learning of it

disk == <<generation, current>>
database == <<schema, ready>>
budget == <<faults, cancels, crashes, ackLost, torn, unseen>>
vars == <<schema, ready, generation, current, run, pc, dbStage, fileStage,
          restoreMu, failing, result, cancelled, faults, cancels, crashes,
          ackLost, torn, unseen>>

None == MaxRestores + 1

Public == CHOOSE i \in Id : schema[i] = "public"

NoDbStage == [active |-> FALSE, previous |-> None]
NoFileStage == [activated |-> FALSE, previous |-> None]

Init ==
    /\ schema = [i \in Id |-> IF i = 0 THEN "public" ELSE "absent"]
    /\ ready = {0}
    /\ generation = [i \in Id |-> IF i = 0 THEN "complete" ELSE "absent"]
    /\ current = 0
    /\ run = 0
    /\ pc = "idle"
    /\ dbStage = NoDbStage
    /\ fileStage = NoFileStage
    /\ restoreMu = FALSE
    /\ failing = FALSE
    /\ result = "none"
    /\ cancelled = FALSE
    /\ faults = 0 /\ cancels = 0 /\ crashes = 0
    /\ ackLost = FALSE
    /\ torn = FALSE
    /\ unseen = {}

-----------------------------------------------------------------------------
(* How a call ends.  Works and Breaks are the two outcomes of a call the   *)
(* shutdown does not interrupt; a call under the restore's own context may *)
(* also be Interrupted.                                                    *)

Works == UNCHANGED budget

Breaks ==
    /\ faults < MaxFaults
    /\ faults' = faults + 1
    /\ UNCHANGED <<cancels, crashes, ackLost, torn, unseen>>

Interrupted == cancelled /\ UNCHANGED budget

(* The COMMIT is applied but the connection dies before its answer.        *)
LosesAck ==
    /\ LostAcks
    /\ faults < MaxFaults
    /\ faults' = faults + 1
    /\ ackLost' = TRUE
    /\ UNCHANGED <<cancels, crashes, torn, unseen>>

Goto(step) == pc' = step
Fail(step) == pc' = step /\ failing' = TRUE

(* Restore returns: the job of httpapi's runRestore takes its outcome.     *)
Return ==
    /\ pc' = "idle"
    /\ result' = IF failing THEN "failed" ELSE "succeeded"
    /\ failing' = FALSE

-----------------------------------------------------------------------------
StartRestore ==
    /\ pc = "idle"
    /\ run < MaxRestores
    /\ run' = run + 1
    /\ result' = "running"
    /\ failing' = FALSE
    /\ Goto("validate")
    /\ UNCHANGED <<database, disk, dbStage, fileStage, restoreMu, cancelled,
                   budget>>

(* unpack, validateArchive, verifyTables and verifyFiles: a damaged or too *)
(* new archive is refused with nothing on the instance touched.            *)
Validate ==
    /\ pc = "validate"
    /\ \/ Goto("beginDatabase") /\ UNCHANGED <<failing, result>>
       \/ pc' = "idle" /\ result' = "failed" /\ UNCHANGED failing
    /\ UNCHANGED <<database, disk, run, dbStage, fileStage, restoreMu,
                   cancelled, budget>>

(* CREATE SCHEMA fails with the lock released at once; any later failure   *)
(* of BeginRestore goes through Close.                                     *)
BeginDatabase ==
    /\ pc = "beginDatabase"
    /\ ~restoreMu
    /\ \/ /\ Works
          /\ schema' = [schema EXCEPT ![run] = "staged"]
          /\ restoreMu' = TRUE
          /\ Goto("load")
          /\ UNCHANGED <<failing, result>>
       \/ /\ Breaks \/ Interrupted
          /\ \/ /\ pc' = "idle" /\ result' = "failed"
                /\ UNCHANGED <<schema, restoreMu, failing>>
             \/ /\ schema' = [schema EXCEPT ![run] = "staged"]
                /\ restoreMu' = TRUE
                /\ Fail("closeDatabase")
                /\ UNCHANGED result
    /\ dbStage' = NoDbStage
    /\ UNCHANGED <<ready, disk, run, fileStage, cancelled>>

(* LoadTables in one transaction, then Upgrade.                            *)
LoadAndUpgrade ==
    /\ pc = "load"
    /\ \/ Works /\ ready' = ready \cup {run} /\ Goto("beginFiles")
          /\ UNCHANGED failing
       \/ (Breaks \/ Interrupted) /\ Fail("closeDatabase") /\ UNCHANGED ready
    /\ UNCHANGED <<schema, disk, run, dbStage, fileStage, restoreMu, result,
                   cancelled>>

NewFileStage(previous) == [activated |-> FALSE, previous |-> previous]

BeginFiles ==
    /\ pc = "beginFiles"
    /\ \/ /\ Works /\ ~cancelled
          /\ generation' = [generation EXCEPT ![run] = "partial"]
          /\ fileStage' = NewFileStage(current)
          /\ Goto("putFiles")
          /\ UNCHANGED failing
       \/ (Breaks \/ Interrupted) /\ Fail("closeDatabase")
          /\ UNCHANGED <<generation, fileStage>>
    /\ UNCHANGED <<database, current, run, dbStage, restoreMu, result,
                   cancelled>>

PutFiles ==
    /\ pc = "putFiles"
    /\ \/ /\ Works
          /\ generation' = [generation EXCEPT ![run] = "complete"]
          /\ Goto("activateDatabase")
          /\ UNCHANGED failing
       \/ (Breaks \/ Interrupted) /\ Fail("closeFiles")
          /\ UNCHANGED generation
    /\ UNCHANGED <<database, current, run, dbStage, fileStage, restoreMu,
                   result, cancelled>>

-----------------------------------------------------------------------------
(* public is renamed to the stage's previous name and the staged schema to *)
(* public, in one transaction.                                             *)
SchemaSwapped ==
    schema' = [schema EXCEPT ![Public] = "previous", ![run] = "public"]

AfterDatabaseFinishing == "finishDatabase"

AfterDatabase == "activateFiles"

ActivateDatabase ==
    /\ pc = "activateDatabase"
    /\ \/ /\ Works
          /\ SchemaSwapped
          /\ dbStage' = [active |-> TRUE, previous |-> Public]
          /\ Goto(AfterDatabase)
          /\ UNCHANGED failing
       \/ /\ Breaks \/ Interrupted
          /\ Fail("closeFiles")
          /\ UNCHANGED <<schema, dbStage>>
       \/ /\ LosesAck
          /\ SchemaSwapped
          /\ dbStage' = [active |-> FALSE, previous |-> Public]
          /\ Fail("closeFiles")
    /\ UNCHANGED <<ready, disk, run, fileStage, restoreMu, result, cancelled>>

LinkReadBack == fileStage' = [fileStage EXCEPT !.activated = TRUE]

FailedSwitchClosing == "closeFiles"

FailedSwitch == "rollbackFiles"

(* replaceGenerationLink renames a new link over .current and flushes the  *)
(* directory.  It may fail before the rename or after it; Activate then    *)
(* reads the link to learn which, and that read may fail too.              *)
ActivateFiles ==
    /\ pc = "activateFiles"
    /\ \/ /\ ~cancelled /\ Works
          /\ current' = run
          /\ fileStage' = [fileStage EXCEPT !.activated = TRUE]
          /\ Goto("finishDatabase")
          /\ UNCHANGED failing
       \/ /\ Breaks \/ Interrupted
          /\ Fail(FailedSwitch)
          /\ UNCHANGED <<current, fileStage>>
       \/ /\ ~cancelled /\ Breaks
          /\ current' = run
          /\ LinkReadBack
          /\ Fail(FailedSwitch)
       \/ /\ ~cancelled
          /\ faults + 2 <= MaxFaults /\ faults' = faults + 2
          /\ current' = run
          /\ unseen' = unseen \cup {run}
          /\ Fail(FailedSwitch)
          /\ UNCHANGED <<fileStage, cancels, crashes, ackLost, torn>>
    /\ UNCHANGED <<database, generation, run, dbStage, restoreMu, result,
                   cancelled>>

RollbackFiles ==
    /\ pc = "rollbackFiles"
    /\ \/ ~fileStage.activated /\ Works /\ UNCHANGED <<current, fileStage>>
       \/ /\ fileStage.activated
          /\ \/ /\ Works
                /\ current' = fileStage.previous
                /\ fileStage' = [fileStage EXCEPT !.activated = FALSE]
             \/ /\ Breaks
                /\ current' \in {current, fileStage.previous}
                /\ UNCHANGED fileStage
    /\ Goto("rollbackDatabase")
    /\ UNCHANGED <<database, generation, run, dbStage, restoreMu, failing,
                   result, cancelled>>

SchemaMovedAsideOnly == schema' = [schema EXCEPT ![Public] = "failed"]

SchemaSwappedBack ==
    schema' = [schema EXCEPT ![Public] = "failed",
                             ![dbStage.previous] = "public"]

(* Only reached with the database activated: ActivateFiles follows it.     *)
RollbackDatabase ==
    /\ pc = "rollbackDatabase"
    /\ \/ /\ Works
          /\ SchemaSwappedBack
          /\ dbStage' = NoDbStage
          /\ Goto("dropFailed")
       \/ /\ Breaks
          /\ Goto("closeFiles")
          /\ UNCHANGED <<schema, dbStage>>
       \/ /\ LosesAck
          /\ SchemaSwappedBack
          /\ Goto("closeFiles")
          /\ UNCHANGED dbStage
    /\ UNCHANGED <<ready, disk, run, fileStage, restoreMu, failing, result,
                   cancelled>>

(* DROP SCHEMA, CASCADE: what it held is gone with it.                     *)
Drop(i) ==
    /\ schema' = [schema EXCEPT ![i] = "absent"]
    /\ ready' = ready \ {i}

DropFailed ==
    /\ pc = "dropFailed"
    /\ \/ Works /\ Drop(run)
       \/ Breaks /\ UNCHANGED database
    /\ Goto("closeFiles")
    /\ UNCHANGED <<disk, run, dbStage, fileStage, restoreMu, failing, result,
                   cancelled>>

-----------------------------------------------------------------------------
ReportsFinishError == failing' = TRUE

(* The error of either Finish is dropped: the restore has succeeded.       *)
DropsFinishError == UNCHANGED failing

FinishDatabase ==
    /\ pc = "finishDatabase"
    /\ \/ /\ Works
          /\ Drop(dbStage.previous)
          /\ dbStage' = [dbStage EXCEPT !.previous = None]
          /\ UNCHANGED failing
       \/ Breaks /\ DropsFinishError /\ UNCHANGED <<database, dbStage>>
    /\ Goto("finishFiles")
    /\ UNCHANGED <<disk, run, fileStage, restoreMu, result, cancelled>>

RemoveNothing(i) == Works /\ UNCHANGED generation

(* os.RemoveAll: a failure half way leaves a partial directory.            *)
RemoveAll(i) ==
    \/ Works /\ generation' = [generation EXCEPT ![i] = "absent"]
    \/ Breaks /\ generation' = [generation EXCEPT ![i] = "partial"]

FinishFiles ==
    /\ pc = "finishFiles"
    /\ RemoveAll(fileStage.previous)
    /\ Goto("closeFiles")
    /\ UNCHANGED <<database, current, run, dbStage, fileStage, restoreMu,
                   failing, result, cancelled>>

AnyGeneration == TRUE

(* The generation Close removes: one that was never made live.             *)
NeverActivated == ~fileStage.activated

Unlock == restoreMu' = FALSE

(* The two deferred Closes, the files' first.                              *)
CloseFiles ==
    /\ pc = "closeFiles"
    /\ \/ NeverActivated /\ RemoveAll(run)
       \/ ~NeverActivated /\ Works /\ UNCHANGED generation
    /\ fileStage' = NoFileStage
    /\ Goto("closeDatabase")
    /\ UNCHANGED <<database, current, run, dbStage, restoreMu, failing,
                   result, cancelled>>

(* DROP SCHEMA IF EXISTS of the staging name, which no schema carries any  *)
(* more once it was renamed to public or to the failed name.               *)
CloseDatabase ==
    /\ pc = "closeDatabase"
    /\ \/ /\ ~dbStage.active /\ schema[run] = "staged"
          /\ \/ Works /\ Drop(run)
             \/ Breaks /\ UNCHANGED database
       \/ /\ dbStage.active \/ schema[run] # "staged"
          /\ Works /\ UNCHANGED database
    /\ dbStage' = NoDbStage
    /\ Unlock
    /\ Return
    /\ UNCHANGED <<disk, run, fileStage, cancelled>>

-----------------------------------------------------------------------------
(* The service is asked to stop: its work context is cancelled.            *)
Cancel ==
    /\ ~cancelled
    /\ cancels < MaxCancels
    /\ cancelled' = TRUE
    /\ cancels' = cancels + 1
    /\ UNCHANGED <<database, disk, run, pc, dbStage, fileStage, restoreMu,
                   failing, result, faults, crashes, ackLost, torn, unseen>>

(* The process ends and another starts: the stages, the lock and the job   *)
(* were memory, the schemas, the directories and the link were not.  No    *)
(* start-up code looks at the schemas or the generations a restore left.   *)
ProcessEnds ==
    /\ pc' = "idle"
    /\ dbStage' = NoDbStage
    /\ fileStage' = NoFileStage
    /\ restoreMu' = FALSE
    /\ failing' = FALSE
    /\ cancelled' = FALSE
    /\ UNCHANGED <<database, disk, run>>

Exit ==
    /\ cancelled /\ pc = "idle"
    /\ ProcessEnds
    /\ UNCHANGED <<result, budget>>

Crash ==
    /\ pc # "idle"
    /\ crashes < MaxCrashes
    /\ crashes' = crashes + 1
    /\ torn' = (torn \/ pc \in Cutover)
    /\ ProcessEnds
    /\ result' = "lost"
    /\ UNCHANGED <<faults, cancels, ackLost, unseen>>

RestoreStep ==
    \/ Validate \/ BeginDatabase \/ LoadAndUpgrade \/ BeginFiles \/ PutFiles
    \/ ActivateDatabase \/ ActivateFiles \/ RollbackFiles \/ RollbackDatabase
    \/ DropFailed \/ FinishDatabase \/ FinishFiles \/ CloseFiles
    \/ CloseDatabase

Next == StartRestore \/ RestoreStep \/ Cancel \/ Exit \/ Crash

Spec == Init /\ [][Next]_vars

(* A goroutine inside Restore keeps running: every call of it returns.     *)
FairSpec == Spec /\ WF_vars(RestoreStep)

-----------------------------------------------------------------------------
TypeOK ==
    /\ schema \in [Id -> SchemaState]
    /\ ready \subseteq Id
    /\ generation \in [Id -> GenerationState]
    /\ current \in Id
    /\ run \in Id
    /\ pc \in Steps \cup {"idle"}
    /\ dbStage \in [active : BOOLEAN, previous : Id \cup {None}]
    /\ fileStage \in [activated : BOOLEAN, previous : Id \cup {None}]
    /\ restoreMu \in BOOLEAN
    /\ failing \in BOOLEAN
    /\ result \in Results
    /\ cancelled \in BOOLEAN
    /\ faults \in Nat /\ cancels \in Nat /\ crashes \in Nat
    /\ ackLost \in BOOLEAN /\ torn \in BOOLEAN /\ unseen \subseteq Id

(* What the rollback of restoreStaged is built for: one thing going wrong. *)
OneTrouble == faults + cancels <= 1 /\ ~ackLost

(* Whatever fails and whenever the process dies, PostgreSQL has exactly    *)
(* one schema called public, and it is one that was loaded and migrated to *)
(* the end: the rename of Activate and of Rollback never leaves the        *)
(* service without a database, or with one half loaded.                    *)
OneLoadedDatabase ==
    \E i \in ready : schema[i] = "public" /\ \A j \in Id \ {i} : schema[j] # "public"

(* The link names a directory with all its files, whatever failed: an      *)
(* activation, putting the halves back, clearing up.  Only a generation    *)
(* whose switch could neither be flushed nor read back (two calls of one   *)
(* Activate) may be the live one and be removed by Close, and only until   *)
(* another restore switches away from it: NewLocalStore refuses to start   *)
(* on it.                                                                  *)
MediaLinkResolves == current \notin unseen => generation[current] = "complete"

(* Both halves of the instance can be opened, at every moment and whatever *)
(* failed, but for a media switch that could neither be flushed nor read   *)
(* back.                                                                   *)
HalvesAreUsable == OneLoadedDatabase /\ MediaLinkResolves

(* Outside the cutover the database and the files come from the same       *)
(* restore, if at most one thing went wrong and no process died between    *)
(* the two switches: a failed switch of the files takes the database back. *)
InstanceWhole ==
    (pc \notin Cutover /\ OneTrouble /\ ~torn) => Public = current

(* A restore reported as a success is in place, both halves of it, and     *)
(* stays in place until another one starts - whatever else failed before.  *)
SuccessIsInPlace == result = "succeeded" => Public = run /\ current = run

(* A restore reported as a failure left the instance as it found it, if at *)
(* most one thing went wrong.                                              *)
FailureChangesNothing ==
    (result = "failed" /\ OneTrouble) => Public # run /\ current # run

(* What handleRestoreStatus reports of a restore is what it did.           *)
ReportIsTrue == SuccessIsInPlace /\ FailureChangesNothing

(* Restores that meet no failing call and no crash leave nothing behind,   *)
(* refused and interrupted ones included: no staged or replaced schema, no *)
(* second generation on the media volume.                                  *)
NothingLeftBehind ==
    (pc = "idle" /\ faults = 0 /\ crashes = 0) =>
        \A i \in Id : /\ schema[i] # "absent" => i = Public
                      /\ generation[i] # "absent" => i = current

(* The replaced database is dropped only once the files of the same        *)
(* restore are live: until then it is the way back.                        *)
OldDatabaseOutlivesTheSwitch ==
    [][\A i \in Id : schema[i] = "previous" /\ schema'[i] = "absent"
                     => current = Public]_vars

(* No step removes the files the live database refers to, nor the live     *)
(* generation, if at most one thing went wrong.                            *)
LiveFilesAreKept ==
    [][\A i \in Id : /\ OneTrouble'
                     /\ generation[i] = "complete"
                     /\ generation'[i] # "complete"
                     => i # Public' /\ i # current']_vars
=============================================================================
