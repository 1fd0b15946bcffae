------------------------ MODULE RestoreCutover_proofs ------------------------
(***************************************************************************)
(* What holds of every restore, for every number of restores, failing      *)
(* calls, shutdowns and crashes.                                           *)
(***************************************************************************)
EXTENDS RestoreRefinement, ServiceGate, TLAPS

(* The schema called public is the live one: Public names it.              *)
IsPublic(i) ==
    /\ i \in ready
    /\ schema[i] = "public"
    /\ \A j \in Id \ {i} : schema[j] # "public"

(* Where the restore stands decides which names its schema and the         *)
(* replaced one carry.                                                     *)
SchemaInv ==
    /\ pc \in {"validate", "beginDatabase"} => schema[run] = "absent"
    /\ pc \in {"load", "beginFiles", "putFiles", "activateDatabase"} =>
           schema[run] = "staged"
    /\ pc \in {"beginFiles", "putFiles", "activateDatabase"} => run \in ready
    /\ pc \in Cutover \cup {"finishDatabase"} =>
           /\ schema[run] = "public"
           /\ dbStage.previous \in ready
           /\ schema[dbStage.previous] = "previous"
    /\ pc = "finishFiles" => schema[run] = "public"
    /\ pc = "dropFailed" => schema[run] = "failed"

(* Nothing exists yet under a number that was not given out.               *)
FreshInv ==
    /\ current <= run
    /\ \A i \in Id : i > run => schema[i] = "absent" /\ generation[i] = "absent"

GenerationInv ==
    /\ pc \in {"validate", "beginDatabase", "load", "beginFiles"} =>
           generation[run] = "absent"
    /\ pc \in {"activateDatabase", "finishDatabase", "finishFiles"} \cup Cutover =>
           generation[run] = "complete"
    /\ pc \in {"putFiles", "activateDatabase", "activateFiles"} =>
           fileStage.previous = current /\ ~fileStage.activated
    /\ pc \in {"putFiles", "activateDatabase", "finishFiles", "finishDatabase"} \cup Cutover =>
           fileStage.previous \in Id /\ fileStage.previous < run
    /\ pc \in {"finishDatabase", "finishFiles"} =>
           current = run /\ fileStage.activated /\ ~failing
    /\ pc \in {"validate", "beginDatabase", "load", "beginFiles", "putFiles",
               "activateDatabase", "activateFiles"} => current # run

OutcomeInv ==
    /\ result \in {"succeeded", "failed", "none"} => pc = "idle"
    /\ pc = "idle" <=> result # "running"
    /\ pc = "idle" => ~failing
    /\ pc \in {"closeFiles", "closeDatabase"} /\ ~failing =>
           schema[run] = "public" /\ current = run
    /\ failing => pc \in {"rollbackFiles", "rollbackDatabase", "dropFailed",
                          "closeFiles", "closeDatabase"}
    /\ pc \in {"rollbackFiles", "rollbackDatabase", "dropFailed"} => failing
    /\ result = "succeeded" => schema[run] = "public" /\ current = run

IInv ==
    /\ TypeOK
    /\ \E i \in Id : IsPublic(i)
    /\ SchemaInv
    /\ FreshInv
    /\ GenerationInv
    /\ OutcomeInv

-----------------------------------------------------------------------------
LEMMA PublicIsUnique ==
    ASSUME NEW i \in Id, TypeOK, IsPublic(i)
    PROVE  Public = i
BY DEF Public, IsPublic

BudgetTypeOK ==
    /\ faults \in Nat /\ cancels \in Nat /\ crashes \in Nat
    /\ ackLost \in BOOLEAN /\ torn \in BOOLEAN /\ unseen \subseteq Id

(* The flush after the link was renamed and the reading of the link fail.  *)
TwoBreaks ==
    /\ faults' = faults + 2 /\ unseen' = unseen \cup {run}
    /\ UNCHANGED <<cancels, crashes, ackLost, torn>>

LEMMA BudgetType ==
    ASSUME IInv, Works \/ Breaks \/ Interrupted \/ LosesAck \/ TwoBreaks
    PROVE  BudgetTypeOK'
<1>1. BudgetTypeOK
    BY DEF IInv, TypeOK, BudgetTypeOK
<1>2. CASE UNCHANGED budget
    BY <1>1, <1>2 DEF BudgetTypeOK, budget
<1>3. CASE Breaks \/ TwoBreaks
    <2>1. run \in Id
        BY DEF IInv, TypeOK
    <2> QED
        BY <1>1, <1>3, <2>1 DEF BudgetTypeOK, Breaks, TwoBreaks
<1>4. CASE LosesAck
    BY <1>1, <1>4 DEF BudgetTypeOK, LosesAck
<1> QED
    BY <1>2, <1>3, <1>4 DEF Works, Interrupted

(* The records of the two stages, for any schema or generation set aside.  *)
LEMMA StageType ==
    ASSUME NEW b \in BOOLEAN, NEW i \in Id \cup {None}
    PROVE  /\ [active |-> b, previous |-> i]
                 \in [active : BOOLEAN, previous : Id \cup {None}]
           /\ [activated |-> b, previous |-> i]
                 \in [activated : BOOLEAN, previous : Id \cup {None}]
OBVIOUS

LEMMA IdIsNat == Id \subseteq Nat
BY RestoreAssumption DEF Id

LEMMA InitIInv == Init => IInv
<1> SUFFICES ASSUME Init PROVE IInv
    OBVIOUS
<1>0. 0 \in Id
    BY RestoreAssumption DEF Id
<1>1. TypeOK
    <2>1. schema \in [Id -> SchemaState]
        BY <1>0 DEF SchemaState, Init
    <2>2. generation \in [Id -> GenerationState]
        BY <1>0 DEF GenerationState, Init
    <2>3. dbStage \in [active : BOOLEAN, previous : Id \cup {None}]
        BY <1>0 DEF NoDbStage, Init
    <2>4. fileStage \in [activated : BOOLEAN, previous : Id \cup {None}]
        BY <1>0 DEF NoFileStage, Init
    <2>5. pc \in Steps \cup {"idle"} /\ result \in Results
        BY <1>0 DEF Steps, Results, Init
    <2> QED
        BY <1>0, <2>1, <2>2, <2>3, <2>4, <2>5 DEF TypeOK, Init
<1>2. IsPublic(0)
    BY <1>0 DEF IsPublic, Init
<1>3. SchemaInv /\ FreshInv /\ GenerationInv /\ OutcomeInv
    BY <1>0, RestoreAssumption DEF Init, Id, SchemaInv, FreshInv, GenerationInv, OutcomeInv, Cutover
<1> QED
    BY <1>0, <1>1, <1>2, <1>3 DEF IInv

LEMMA ValidateIInv ==
    ASSUME IInv, Validate
    PROVE  IInv'
<1> USE DEF Validate, disk, database, Goto, Fail
<1>1. TypeOK'
    <2>1. pc' \in Steps \cup {"idle"} /\ result' \in Results
        BY DEF IInv, TypeOK, Steps, Results
    <2>2. failing' \in BOOLEAN /\ restoreMu' \in BOOLEAN /\ cancelled' \in BOOLEAN
        BY DEF IInv, TypeOK
    <2>3. Works \/ Breaks \/ Interrupted \/ LosesAck
        BY DEF Works
    <2>4. BudgetTypeOK'
        BY <2>3, BudgetType
    <2> QED
        BY <2>1, <2>2, <2>3, <2>4 DEF IInv, TypeOK, BudgetTypeOK
<1>2. \E i \in Id : IsPublic(i)'
    BY DEF IInv, IsPublic
<1>3. SchemaInv' /\ FreshInv'
    BY IdIsNat DEF IInv, TypeOK, SchemaInv, FreshInv, GenerationInv, Cutover
<1>4. GenerationInv'
    BY IdIsNat DEF IInv, TypeOK, FreshInv, SchemaInv, GenerationInv, OutcomeInv, Cutover
<1>5. OutcomeInv'
    BY DEF IInv, TypeOK, SchemaInv, GenerationInv, OutcomeInv, Cutover
<1> QED
    BY <1>1, <1>2, <1>3, <1>4, <1>5 DEF IInv

LEMMA LoadAndUpgradeIInv ==
    ASSUME IInv, LoadAndUpgrade
    PROVE  IInv'
<1> USE DEF LoadAndUpgrade, disk, database, Goto, Fail
<1>1. TypeOK'
    <2>1. pc' \in Steps \cup {"idle"} /\ result' \in Results
        BY DEF IInv, TypeOK, Steps, Results
    <2>2. schema' \in [Id -> SchemaState] /\ ready' \subseteq Id
        BY DEF IInv, TypeOK, SchemaState
    <2>3. failing' \in BOOLEAN /\ restoreMu' \in BOOLEAN /\ cancelled' \in BOOLEAN
        BY DEF IInv, TypeOK
    <2>4. Works \/ Breaks \/ Interrupted \/ LosesAck
        OBVIOUS
    <2>5. BudgetTypeOK'
        BY <2>4, BudgetType
    <2> QED
        BY <2>1, <2>2, <2>3, <2>4, <2>5 DEF IInv, TypeOK, BudgetTypeOK
<1>2. \E i \in Id : IsPublic(i)'
    BY DEF IInv, IsPublic
<1>3. SchemaInv' /\ FreshInv'
    BY IdIsNat DEF IInv, TypeOK, SchemaInv, FreshInv, GenerationInv, Cutover
<1>4. GenerationInv'
    BY IdIsNat DEF IInv, TypeOK, FreshInv, SchemaInv, GenerationInv, OutcomeInv, Cutover
<1>5. OutcomeInv'
    BY DEF IInv, TypeOK, SchemaInv, GenerationInv, OutcomeInv, Cutover
<1> QED
    BY <1>1, <1>2, <1>3, <1>4, <1>5 DEF IInv

LEMMA BeginFilesIInv ==
    ASSUME IInv, BeginFiles
    PROVE  IInv'
<1> USE DEF BeginFiles, disk, database, Goto, Fail, NewFileStage
<1>1. TypeOK'
    <2>1. pc' \in Steps \cup {"idle"} /\ result' \in Results
        BY DEF IInv, TypeOK, Steps, Results
    <2>2. generation' \in [Id -> GenerationState]
        BY DEF IInv, TypeOK, GenerationState
    <2>3. fileStage' \in [activated : BOOLEAN, previous : Id \cup {None}]
        <3>1. \/ fileStage' = fileStage
              \/ fileStage' = [activated |-> FALSE, previous |-> current]
            OBVIOUS
        <3> QED
            BY <3>1, StageType DEF IInv, TypeOK
    <2>4. failing' \in BOOLEAN /\ restoreMu' \in BOOLEAN /\ cancelled' \in BOOLEAN
        BY DEF IInv, TypeOK
    <2>5. Works \/ Breaks \/ Interrupted \/ LosesAck
        OBVIOUS
    <2>6. BudgetTypeOK'
        BY <2>5, BudgetType
    <2> QED
        BY <2>1, <2>2, <2>3, <2>4, <2>5, <2>6 DEF IInv, TypeOK, BudgetTypeOK
<1>2. \E i \in Id : IsPublic(i)'
    BY DEF IInv, IsPublic
<1>3. SchemaInv' /\ FreshInv'
    BY IdIsNat DEF IInv, TypeOK, SchemaInv, FreshInv, GenerationInv, Cutover
<1>4. GenerationInv'
    BY IdIsNat DEF IInv, TypeOK, FreshInv, SchemaInv, GenerationInv, OutcomeInv, Cutover
<1>5. OutcomeInv'
    BY DEF IInv, TypeOK, SchemaInv, GenerationInv, OutcomeInv, Cutover
<1> QED
    BY <1>1, <1>2, <1>3, <1>4, <1>5 DEF IInv

LEMMA PutFilesIInv ==
    ASSUME IInv, PutFiles
    PROVE  IInv'
<1> USE DEF PutFiles, disk, database, Goto, Fail
<1>1. TypeOK'
    <2>1. pc' \in Steps \cup {"idle"} /\ result' \in Results
        BY DEF IInv, TypeOK, Steps, Results
    <2>2. generation' \in [Id -> GenerationState]
        BY DEF IInv, TypeOK, GenerationState
    <2>3. failing' \in BOOLEAN /\ restoreMu' \in BOOLEAN /\ cancelled' \in BOOLEAN
        BY DEF IInv, TypeOK
    <2>4. Works \/ Breaks \/ Interrupted \/ LosesAck
        OBVIOUS
    <2>5. BudgetTypeOK'
        BY <2>4, BudgetType
    <2> QED
        BY <2>1, <2>2, <2>3, <2>4, <2>5 DEF IInv, TypeOK, BudgetTypeOK
<1>2. \E i \in Id : IsPublic(i)'
    BY DEF IInv, IsPublic
<1>3. SchemaInv' /\ FreshInv'
    BY IdIsNat DEF IInv, TypeOK, SchemaInv, FreshInv, GenerationInv, Cutover
<1>4. GenerationInv'
    BY IdIsNat DEF IInv, TypeOK, FreshInv, SchemaInv, GenerationInv, OutcomeInv, Cutover
<1>5. OutcomeInv'
    BY DEF IInv, TypeOK, SchemaInv, GenerationInv, OutcomeInv, Cutover
<1> QED
    BY <1>1, <1>2, <1>3, <1>4, <1>5 DEF IInv

LEMMA ActivateFilesIInv ==
    ASSUME IInv, ActivateFiles
    PROVE  IInv'
<1> USE DEF ActivateFiles, disk, database, Goto, Fail, LinkReadBack, FailedSwitch
<1>1. TypeOK'
    <2>1. pc' \in Steps \cup {"idle"} /\ result' \in Results
        BY DEF IInv, TypeOK, Steps, Results
    <2>2. current' \in Id
        BY DEF IInv, TypeOK, GenerationInv, Cutover
    <2>3. fileStage' \in [activated : BOOLEAN, previous : Id \cup {None}]
        BY DEF IInv, TypeOK
    <2>4. failing' \in BOOLEAN /\ restoreMu' \in BOOLEAN /\ cancelled' \in BOOLEAN
        BY DEF IInv, TypeOK
    <2>5. Works \/ Breaks \/ Interrupted \/ TwoBreaks
        BY DEF TwoBreaks
    <2>6. BudgetTypeOK'
        BY <2>5, BudgetType
    <2> QED
        BY <2>1, <2>2, <2>3, <2>4, <2>5, <2>6 DEF IInv, TypeOK, BudgetTypeOK
<1>2. \E i \in Id : IsPublic(i)'
    BY DEF IInv, IsPublic
<1>3. SchemaInv' /\ FreshInv'
    BY IdIsNat DEF IInv, TypeOK, SchemaInv, FreshInv, GenerationInv, Cutover
<1>4. GenerationInv'
    BY IdIsNat DEF IInv, TypeOK, FreshInv, SchemaInv, GenerationInv, OutcomeInv, Cutover
<1>5. OutcomeInv'
    BY DEF IInv, TypeOK, SchemaInv, GenerationInv, OutcomeInv, Cutover
<1> QED
    BY <1>1, <1>2, <1>3, <1>4, <1>5 DEF IInv

LEMMA RollbackFilesIInv ==
    ASSUME IInv, RollbackFiles
    PROVE  IInv'
<1> USE DEF RollbackFiles, disk, database, Goto, Fail
<1>1. TypeOK'
    <2>1. pc' \in Steps \cup {"idle"} /\ result' \in Results
        BY DEF IInv, TypeOK, Steps, Results
    <2>2. current' \in Id
        BY DEF IInv, TypeOK, GenerationInv, Cutover
    <2>3. fileStage' \in [activated : BOOLEAN, previous : Id \cup {None}]
        BY DEF IInv, TypeOK
    <2>4. failing' \in BOOLEAN /\ restoreMu' \in BOOLEAN /\ cancelled' \in BOOLEAN
        BY DEF IInv, TypeOK
    <2>5. Works \/ Breaks \/ Interrupted \/ LosesAck
        OBVIOUS
    <2>6. BudgetTypeOK'
        BY <2>5, BudgetType
    <2> QED
        BY <2>1, <2>2, <2>3, <2>4, <2>5, <2>6 DEF IInv, TypeOK, BudgetTypeOK
<1>2. \E i \in Id : IsPublic(i)'
    BY DEF IInv, IsPublic
<1>3. SchemaInv' /\ FreshInv'
    BY IdIsNat DEF IInv, TypeOK, SchemaInv, FreshInv, GenerationInv, Cutover
<1>4. GenerationInv'
    BY IdIsNat DEF IInv, TypeOK, FreshInv, SchemaInv, GenerationInv, OutcomeInv, Cutover
<1>5. OutcomeInv'
    BY DEF IInv, TypeOK, SchemaInv, GenerationInv, OutcomeInv, Cutover
<1> QED
    BY <1>1, <1>2, <1>3, <1>4, <1>5 DEF IInv

LEMMA FinishFilesIInv ==
    ASSUME IInv, FinishFiles
    PROVE  IInv'
<1> USE DEF FinishFiles, disk, database, Goto, Fail, RemoveAll
<1>1. TypeOK'
    <2>1. pc' \in Steps \cup {"idle"} /\ result' \in Results
        BY DEF IInv, TypeOK, Steps, Results
    <2>2. generation' \in [Id -> GenerationState]
        BY DEF IInv, TypeOK, GenerationState
    <2>3. failing' \in BOOLEAN /\ restoreMu' \in BOOLEAN /\ cancelled' \in BOOLEAN
        BY DEF IInv, TypeOK
    <2>4. Works \/ Breaks \/ Interrupted \/ LosesAck
        BY DEF RemoveAll
    <2>5. BudgetTypeOK'
        BY <2>4, BudgetType
    <2> QED
        BY <2>1, <2>2, <2>3, <2>4, <2>5 DEF IInv, TypeOK, BudgetTypeOK
<1>2. \E i \in Id : IsPublic(i)'
    BY DEF IInv, IsPublic
<1>3. SchemaInv' /\ FreshInv'
    BY IdIsNat DEF IInv, TypeOK, SchemaInv, FreshInv, GenerationInv, Cutover
<1>4. GenerationInv'
    BY IdIsNat DEF IInv, TypeOK, FreshInv, SchemaInv, GenerationInv, OutcomeInv, Cutover
<1>5. OutcomeInv'
    BY DEF IInv, TypeOK, SchemaInv, GenerationInv, OutcomeInv, Cutover
<1> QED
    BY <1>1, <1>2, <1>3, <1>4, <1>5 DEF IInv

LEMMA CloseFilesIInv ==
    ASSUME IInv, CloseFiles
    PROVE  IInv'
<1> USE DEF CloseFiles, disk, database, Goto, Fail, RemoveAll, NeverActivated, NoFileStage
<1>1. TypeOK'
    <2>1. pc' \in Steps \cup {"idle"} /\ result' \in Results
        BY DEF IInv, TypeOK, Steps, Results
    <2>2. generation' \in [Id -> GenerationState]
        BY DEF IInv, TypeOK, GenerationState
    <2>3. fileStage' \in [activated : BOOLEAN, previous : Id \cup {None}]
        BY DEF IInv, TypeOK
    <2>4. failing' \in BOOLEAN /\ restoreMu' \in BOOLEAN /\ cancelled' \in BOOLEAN
        BY DEF IInv, TypeOK
    <2>5. Works \/ Breaks \/ Interrupted \/ LosesAck
        BY DEF RemoveAll
    <2>6. BudgetTypeOK'
        BY <2>5, BudgetType
    <2> QED
        BY <2>1, <2>2, <2>3, <2>4, <2>5, <2>6 DEF IInv, TypeOK, BudgetTypeOK
<1>2. \E i \in Id : IsPublic(i)'
    BY DEF IInv, IsPublic
<1>3. SchemaInv' /\ FreshInv'
    BY IdIsNat DEF IInv, TypeOK, SchemaInv, FreshInv, GenerationInv, Cutover
<1>4. GenerationInv'
    BY IdIsNat DEF IInv, TypeOK, FreshInv, SchemaInv, GenerationInv, OutcomeInv, Cutover
<1>5. OutcomeInv'
    BY DEF IInv, TypeOK, SchemaInv, GenerationInv, OutcomeInv, Cutover
<1> QED
    BY <1>1, <1>2, <1>3, <1>4, <1>5 DEF IInv

LEMMA CancelIInv ==
    ASSUME IInv, Cancel
    PROVE  IInv'
<1> USE DEF Cancel, disk, database, Goto, Fail
<1>1. TypeOK'
    <2>1. pc' \in Steps \cup {"idle"} /\ result' \in Results
        BY DEF IInv, TypeOK, Steps, Results
    <2>2. failing' \in BOOLEAN /\ restoreMu' \in BOOLEAN /\ cancelled' \in BOOLEAN
        BY DEF IInv, TypeOK
    <2>3. BudgetTypeOK'
        BY DEF IInv, TypeOK, BudgetTypeOK
    <2>4. TRUE
        OBVIOUS
    <2> QED
        BY <2>1, <2>2, <2>3, <2>4 DEF IInv, TypeOK, BudgetTypeOK
<1>2. \E i \in Id : IsPublic(i)'
    BY DEF IInv, IsPublic
<1>3. SchemaInv' /\ FreshInv'
    BY IdIsNat DEF IInv, TypeOK, SchemaInv, FreshInv, GenerationInv, Cutover
<1>4. GenerationInv'
    BY IdIsNat DEF IInv, TypeOK, FreshInv, SchemaInv, GenerationInv, OutcomeInv, Cutover
<1>5. OutcomeInv'
    BY DEF IInv, TypeOK, SchemaInv, GenerationInv, OutcomeInv, Cutover
<1> QED
    BY <1>1, <1>2, <1>3, <1>4, <1>5 DEF IInv

LEMMA ExitIInv ==
    ASSUME IInv, Exit
    PROVE  IInv'
<1> USE DEF Exit, disk, database, Goto, Fail, ProcessEnds, NoDbStage, NoFileStage
<1>1. TypeOK'
    <2>1. pc' \in Steps \cup {"idle"} /\ result' \in Results
        BY DEF IInv, TypeOK, Steps, Results
    <2>2. dbStage' \in [active : BOOLEAN, previous : Id \cup {None}]
        BY DEF IInv, TypeOK
    <2>3. fileStage' \in [activated : BOOLEAN, previous : Id \cup {None}]
        BY DEF IInv, TypeOK
    <2>4. failing' \in BOOLEAN /\ restoreMu' \in BOOLEAN /\ cancelled' \in BOOLEAN
        BY DEF IInv, TypeOK
    <2>5. Works \/ Breaks \/ Interrupted \/ LosesAck
        BY DEF Works
    <2>6. BudgetTypeOK'
        BY <2>5, BudgetType
    <2> QED
        BY <2>1, <2>2, <2>3, <2>4, <2>5, <2>6 DEF IInv, TypeOK, BudgetTypeOK
<1>2. \E i \in Id : IsPublic(i)'
    BY DEF IInv, IsPublic
<1>3. SchemaInv' /\ FreshInv'
    BY IdIsNat DEF IInv, TypeOK, SchemaInv, FreshInv, GenerationInv, Cutover
<1>4. GenerationInv'
    BY IdIsNat DEF IInv, TypeOK, FreshInv, SchemaInv, GenerationInv, OutcomeInv, Cutover
<1>5. OutcomeInv'
    BY DEF IInv, TypeOK, SchemaInv, GenerationInv, OutcomeInv, Cutover
<1> QED
    BY <1>1, <1>2, <1>3, <1>4, <1>5 DEF IInv

LEMMA CrashIInv ==
    ASSUME IInv, Crash
    PROVE  IInv'
<1> USE DEF Crash, disk, database, Goto, Fail, ProcessEnds, NoDbStage, NoFileStage
<1>1. TypeOK'
    <2>1. pc' \in Steps \cup {"idle"} /\ result' \in Results
        BY DEF IInv, TypeOK, Steps, Results
    <2>2. dbStage' \in [active : BOOLEAN, previous : Id \cup {None}]
        BY DEF IInv, TypeOK
    <2>3. fileStage' \in [activated : BOOLEAN, previous : Id \cup {None}]
        BY DEF IInv, TypeOK
    <2>4. failing' \in BOOLEAN /\ restoreMu' \in BOOLEAN /\ cancelled' \in BOOLEAN
        BY DEF IInv, TypeOK
    <2>5. BudgetTypeOK'
        BY DEF IInv, TypeOK, BudgetTypeOK
    <2>6. TRUE
        OBVIOUS
    <2> QED
        BY <2>1, <2>2, <2>3, <2>4, <2>5, <2>6 DEF IInv, TypeOK, BudgetTypeOK
<1>2. \E i \in Id : IsPublic(i)'
    BY DEF IInv, IsPublic
<1>3. SchemaInv' /\ FreshInv'
    BY IdIsNat DEF IInv, TypeOK, SchemaInv, FreshInv, GenerationInv, Cutover
<1>4. GenerationInv'
    BY IdIsNat DEF IInv, TypeOK, FreshInv, SchemaInv, GenerationInv, OutcomeInv, Cutover
<1>5. OutcomeInv'
    BY DEF IInv, TypeOK, SchemaInv, GenerationInv, OutcomeInv, Cutover
<1> QED
    BY <1>1, <1>2, <1>3, <1>4, <1>5 DEF IInv

LEMMA StartRestoreIInv ==
    ASSUME IInv, StartRestore
    PROVE  IInv'
<1> USE DEF StartRestore, disk, database, Goto, Fail
<1>1. TypeOK'
    <2>1. pc' \in Steps \cup {"idle"} /\ result' \in Results
        BY DEF IInv, TypeOK, Steps, Results
    <2>2. run' \in Id
        BY RestoreAssumption DEF IInv, TypeOK, Id
    <2>3. failing' \in BOOLEAN /\ restoreMu' \in BOOLEAN /\ cancelled' \in BOOLEAN
        BY DEF IInv, TypeOK
    <2>4. Works \/ Breaks \/ Interrupted \/ LosesAck
        BY DEF Works
    <2>5. BudgetTypeOK'
        BY <2>4, BudgetType
    <2> QED
        BY <2>1, <2>2, <2>3, <2>4, <2>5 DEF IInv, TypeOK, BudgetTypeOK
<1>2. \E i \in Id : IsPublic(i)'
    BY DEF IInv, IsPublic
<1>3. SchemaInv' /\ FreshInv'
    BY RestoreAssumption DEF IInv, TypeOK, SchemaInv, FreshInv, GenerationInv, Cutover, Id
<1>4. GenerationInv'
    BY RestoreAssumption DEF IInv, TypeOK, FreshInv, GenerationInv, Cutover, Id
<1>5. OutcomeInv'
    BY DEF IInv, TypeOK, SchemaInv, GenerationInv, OutcomeInv, Cutover
<1> QED
    BY <1>1, <1>2, <1>3, <1>4, <1>5 DEF IInv

LEMMA BeginDatabaseIInv ==
    ASSUME IInv, BeginDatabase
    PROVE  IInv'
<1> USE DEF BeginDatabase, disk, database, Goto, Fail, NoDbStage
<1>1. TypeOK'
    <2>1. pc' \in Steps \cup {"idle"} /\ result' \in Results
        BY DEF IInv, TypeOK, Steps, Results
    <2>2. schema' \in [Id -> SchemaState] /\ ready' \subseteq Id
        <3>1. schema' = schema \/ schema' = [schema EXCEPT ![run] = "staged"]
            OBVIOUS
        <3> QED
            BY <3>1 DEF IInv, TypeOK, SchemaState
    <2>3. dbStage' \in [active : BOOLEAN, previous : Id \cup {None}]
        BY DEF IInv, TypeOK
    <2>4. failing' \in BOOLEAN /\ restoreMu' \in BOOLEAN /\ cancelled' \in BOOLEAN
        BY DEF IInv, TypeOK
    <2>5. Works \/ Breaks \/ Interrupted \/ LosesAck
        OBVIOUS
    <2>6. BudgetTypeOK'
        BY <2>5, BudgetType
    <2> QED
        BY <2>1, <2>2, <2>3, <2>4, <2>5, <2>6 DEF IInv, TypeOK, BudgetTypeOK
<1>2. \E i \in Id : IsPublic(i)'
    BY DEF IInv, TypeOK, IsPublic, SchemaInv
<1>3. SchemaInv' /\ FreshInv'
    BY IdIsNat DEF IInv, TypeOK, SchemaInv, FreshInv, Cutover
<1>4. GenerationInv'
    BY DEF IInv, TypeOK, IsPublic, SchemaInv, FreshInv, GenerationInv, OutcomeInv, Cutover
<1>5. OutcomeInv'
    BY DEF IInv, TypeOK, IsPublic, SchemaInv, FreshInv, GenerationInv, OutcomeInv, Cutover
<1> QED
    BY <1>1, <1>2, <1>3, <1>4, <1>5 DEF IInv

LEMMA ActivateDatabaseIInv ==
    ASSUME IInv, ActivateDatabase
    PROVE  IInv'
<1> USE DEF ActivateDatabase, disk, database, Goto, Fail, SchemaSwapped, AfterDatabase
<1> PICK p \in Id : IsPublic(p)
    BY DEF IInv
<1>p. Public = p
    BY PublicIsUnique DEF IInv
<1>1. TypeOK'
    <2>1. pc' \in Steps \cup {"idle"} /\ result' \in Results
        BY DEF IInv, TypeOK, Steps, Results
    <2>2. schema' \in [Id -> SchemaState] /\ ready' \subseteq Id
        BY <1>p DEF IInv, TypeOK, SchemaState
    <2>3. dbStage' \in [active : BOOLEAN, previous : Id \cup {None}]
        BY <1>p, StageType DEF IInv, TypeOK
    <2>4. failing' \in BOOLEAN /\ restoreMu' \in BOOLEAN /\ cancelled' \in BOOLEAN
        BY DEF IInv, TypeOK
    <2>5. Works \/ Breaks \/ Interrupted \/ LosesAck
        OBVIOUS
    <2>6. BudgetTypeOK'
        BY <2>5, BudgetType
    <2> QED
        BY <2>1, <2>2, <2>3, <2>4, <2>5, <2>6 DEF IInv, TypeOK, BudgetTypeOK
<1>2. \E i \in Id : IsPublic(i)'
    BY <1>p DEF IInv, TypeOK, IsPublic, SchemaInv
<1>3. SchemaInv' /\ FreshInv'
    BY <1>p DEF IInv, TypeOK, IsPublic, SchemaInv, FreshInv, GenerationInv, OutcomeInv, Cutover
<1>4. GenerationInv'
    BY <1>p DEF IInv, TypeOK, IsPublic, SchemaInv, FreshInv, GenerationInv, OutcomeInv, Cutover
<1>5. OutcomeInv'
    BY <1>p DEF IInv, TypeOK, IsPublic, SchemaInv, FreshInv, GenerationInv, OutcomeInv, Cutover
<1> QED
    BY <1>1, <1>2, <1>3, <1>4, <1>5 DEF IInv

LEMMA RollbackDatabaseIInv ==
    ASSUME IInv, RollbackDatabase
    PROVE  IInv'
<1> USE DEF RollbackDatabase, disk, database, Goto, Fail, SchemaSwappedBack, NoDbStage
<1> PICK p \in Id : IsPublic(p)
    BY DEF IInv
<1>p. Public = p
    BY PublicIsUnique DEF IInv
<1>1. TypeOK'
    <2>1. pc' \in Steps \cup {"idle"} /\ result' \in Results
        BY DEF IInv, TypeOK, Steps, Results
    <2>2. schema' \in [Id -> SchemaState] /\ ready' \subseteq Id
        BY <1>p DEF IInv, TypeOK, SchemaState
    <2>3. dbStage' \in [active : BOOLEAN, previous : Id \cup {None}]
        BY <1>p, StageType DEF IInv, TypeOK
    <2>4. failing' \in BOOLEAN /\ restoreMu' \in BOOLEAN /\ cancelled' \in BOOLEAN
        BY DEF IInv, TypeOK
    <2>5. Works \/ Breaks \/ Interrupted \/ LosesAck
        OBVIOUS
    <2>6. BudgetTypeOK'
        BY <2>5, BudgetType
    <2> QED
        BY <2>1, <2>2, <2>3, <2>4, <2>5, <2>6 DEF IInv, TypeOK, BudgetTypeOK
<1>2. \E i \in Id : IsPublic(i)'
    BY <1>p DEF IInv, TypeOK, IsPublic, SchemaInv, Cutover
<1>3. SchemaInv' /\ FreshInv'
    BY <1>p DEF IInv, TypeOK, IsPublic, SchemaInv, FreshInv, GenerationInv, OutcomeInv, Cutover
<1>4. GenerationInv'
    BY <1>p DEF IInv, TypeOK, IsPublic, SchemaInv, FreshInv, GenerationInv, OutcomeInv, Cutover
<1>5. OutcomeInv'
    BY <1>p DEF IInv, TypeOK, IsPublic, SchemaInv, FreshInv, GenerationInv, OutcomeInv, Cutover
<1> QED
    BY <1>1, <1>2, <1>3, <1>4, <1>5 DEF IInv

LEMMA DropFailedIInv ==
    ASSUME IInv, DropFailed
    PROVE  IInv'
<1> USE DEF DropFailed, disk, database, Goto, Fail, Drop
<1> PICK p \in Id : IsPublic(p)
    BY DEF IInv
<1>p. Public = p
    BY PublicIsUnique DEF IInv
<1>1. TypeOK'
    <2>1. pc' \in Steps \cup {"idle"} /\ result' \in Results
        BY DEF IInv, TypeOK, Steps, Results
    <2>2. schema' \in [Id -> SchemaState] /\ ready' \subseteq Id
        BY <1>p DEF IInv, TypeOK, SchemaState
    <2>3. failing' \in BOOLEAN /\ restoreMu' \in BOOLEAN /\ cancelled' \in BOOLEAN
        BY DEF IInv, TypeOK
    <2>4. Works \/ Breaks \/ Interrupted \/ LosesAck
        OBVIOUS
    <2>5. BudgetTypeOK'
        BY <2>4, BudgetType
    <2> QED
        BY <2>1, <2>2, <2>3, <2>4, <2>5 DEF IInv, TypeOK, BudgetTypeOK
<1>2. \E i \in Id : IsPublic(i)'
    BY <1>p DEF IInv, TypeOK, IsPublic, SchemaInv
<1>3. SchemaInv' /\ FreshInv'
    BY <1>p DEF IInv, TypeOK, IsPublic, SchemaInv, FreshInv, GenerationInv, OutcomeInv, Cutover
<1>4. GenerationInv'
    BY <1>p DEF IInv, TypeOK, IsPublic, SchemaInv, FreshInv, GenerationInv, OutcomeInv, Cutover
<1>5. OutcomeInv'
    BY <1>p DEF IInv, TypeOK, IsPublic, SchemaInv, FreshInv, GenerationInv, OutcomeInv, Cutover
<1> QED
    BY <1>1, <1>2, <1>3, <1>4, <1>5 DEF IInv

LEMMA FinishDatabaseIInv ==
    ASSUME IInv, FinishDatabase
    PROVE  IInv'
<1> USE DEF FinishDatabase, disk, database, Goto, Fail, Drop, DropsFinishError
<1> PICK p \in Id : IsPublic(p)
    BY DEF IInv
<1>p. Public = p
    BY PublicIsUnique DEF IInv
<1>1. TypeOK'
    <2>1. pc' \in Steps \cup {"idle"} /\ result' \in Results
        BY DEF IInv, TypeOK, Steps, Results
    <2>2. schema' \in [Id -> SchemaState] /\ ready' \subseteq Id
        BY <1>p DEF IInv, TypeOK, SchemaState
    <2>3. dbStage' \in [active : BOOLEAN, previous : Id \cup {None}]
        BY <1>p, StageType DEF IInv, TypeOK
    <2>4. failing' \in BOOLEAN /\ restoreMu' \in BOOLEAN /\ cancelled' \in BOOLEAN
        BY DEF IInv, TypeOK
    <2>5. Works \/ Breaks \/ Interrupted \/ LosesAck
        OBVIOUS
    <2>6. BudgetTypeOK'
        BY <2>5, BudgetType
    <2> QED
        BY <2>1, <2>2, <2>3, <2>4, <2>5, <2>6 DEF IInv, TypeOK, BudgetTypeOK
<1>2. \E i \in Id : IsPublic(i)'
    BY <1>p DEF IInv, TypeOK, IsPublic, SchemaInv
<1>3. SchemaInv' /\ FreshInv'
    BY <1>p DEF IInv, TypeOK, IsPublic, SchemaInv, FreshInv, GenerationInv, OutcomeInv, Cutover
<1>4. GenerationInv'
    BY <1>p DEF IInv, TypeOK, IsPublic, SchemaInv, FreshInv, GenerationInv, OutcomeInv, Cutover
<1>5. OutcomeInv'
    BY <1>p DEF IInv, TypeOK, IsPublic, SchemaInv, FreshInv, GenerationInv, OutcomeInv, Cutover
<1> QED
    BY <1>1, <1>2, <1>3, <1>4, <1>5 DEF IInv

LEMMA CloseDatabaseIInv ==
    ASSUME IInv, CloseDatabase
    PROVE  IInv'
<1> USE DEF CloseDatabase, disk, database, Goto, Fail, Drop, NoDbStage, Unlock, Return
<1> PICK p \in Id : IsPublic(p)
    BY DEF IInv
<1>p. Public = p
    BY PublicIsUnique DEF IInv
<1>1. TypeOK'
    <2>1. pc' \in Steps \cup {"idle"} /\ result' \in Results
        BY DEF IInv, TypeOK, Steps, Results
    <2>2. schema' \in [Id -> SchemaState] /\ ready' \subseteq Id
        BY <1>p DEF IInv, TypeOK, SchemaState
    <2>3. dbStage' \in [active : BOOLEAN, previous : Id \cup {None}]
        BY <1>p, StageType DEF IInv, TypeOK
    <2>4. failing' \in BOOLEAN /\ restoreMu' \in BOOLEAN /\ cancelled' \in BOOLEAN
        BY DEF IInv, TypeOK
    <2>5. Works \/ Breaks \/ Interrupted \/ LosesAck
        OBVIOUS
    <2>6. BudgetTypeOK'
        BY <2>5, BudgetType
    <2> QED
        BY <2>1, <2>2, <2>3, <2>4, <2>5, <2>6 DEF IInv, TypeOK, BudgetTypeOK
<1>2. \E i \in Id : IsPublic(i)'
    BY <1>p DEF IInv, TypeOK, IsPublic, SchemaInv
<1>3. SchemaInv' /\ FreshInv'
    BY <1>p DEF IInv, TypeOK, IsPublic, SchemaInv, FreshInv, GenerationInv, OutcomeInv, Cutover
<1>4. GenerationInv'
    BY <1>p DEF IInv, TypeOK, IsPublic, SchemaInv, FreshInv, GenerationInv, OutcomeInv, Cutover
<1>5. OutcomeInv'
    BY <1>p DEF IInv, TypeOK, IsPublic, SchemaInv, FreshInv, GenerationInv, OutcomeInv, Cutover
<1> QED
    BY <1>1, <1>2, <1>3, <1>4, <1>5 DEF IInv

LEMMA StepIInv == IInv /\ [Next]_vars => IInv'
<1> SUFFICES ASSUME IInv, [Next]_vars PROVE IInv'
    OBVIOUS
<1>1. CASE StartRestore
    BY <1>1, StartRestoreIInv
<1>2. CASE Validate
    BY <1>2, ValidateIInv
<1>3. CASE BeginDatabase
    BY <1>3, BeginDatabaseIInv
<1>4. CASE LoadAndUpgrade
    BY <1>4, LoadAndUpgradeIInv
<1>5. CASE BeginFiles
    BY <1>5, BeginFilesIInv
<1>6. CASE PutFiles
    BY <1>6, PutFilesIInv
<1>7. CASE ActivateDatabase
    BY <1>7, ActivateDatabaseIInv
<1>8. CASE ActivateFiles
    BY <1>8, ActivateFilesIInv
<1>9. CASE RollbackFiles
    BY <1>9, RollbackFilesIInv
<1>10. CASE RollbackDatabase
    BY <1>10, RollbackDatabaseIInv
<1>11. CASE DropFailed
    BY <1>11, DropFailedIInv
<1>12. CASE FinishDatabase
    BY <1>12, FinishDatabaseIInv
<1>13. CASE FinishFiles
    BY <1>13, FinishFilesIInv
<1>14. CASE CloseFiles
    BY <1>14, CloseFilesIInv
<1>15. CASE CloseDatabase
    BY <1>15, CloseDatabaseIInv
<1>16. CASE Cancel
    BY <1>16, CancelIInv
<1>17. CASE Exit
    BY <1>17, ExitIInv
<1>18. CASE Crash
    BY <1>18, CrashIInv
<1>19. CASE UNCHANGED vars
    BY <1>19 DEF vars, IInv, TypeOK, IsPublic, SchemaInv, FreshInv,
                 GenerationInv, OutcomeInv
<1> QED
    BY <1>1, <1>2, <1>3, <1>4, <1>5, <1>6, <1>7, <1>8, <1>9, <1>10, <1>11,
       <1>12, <1>13, <1>14, <1>15, <1>16, <1>17, <1>18, <1>19
       DEF Next, RestoreStep

LEMMA Invariance == Spec => []IInv
BY InitIInv, StepIInv, PTL DEF Spec

-----------------------------------------------------------------------------
(* The variables keep their types.                                         *)
THEOREM TypeCorrect == Spec => []TypeOK
<1>1. IInv => TypeOK
    BY DEF IInv
<1> QED
    BY <1>1, Invariance, PTL

(* However many restores are run, whatever fails in them and whenever the  *)
(* process dies, the service always has exactly one database to open, and  *)
(* one that was loaded and migrated to the end.                            *)
THEOREM AlwaysOneLoadedDatabase == Spec => []OneLoadedDatabase
<1>1. IInv => OneLoadedDatabase
    BY DEF IInv, TypeOK, IsPublic, OneLoadedDatabase
<1> QED
    BY <1>1, Invariance, PTL

(* A restore that reported success is in place, whatever went wrong before *)
(* it: the last restore to succeed is never half of what is served.        *)
THEOREM SuccessMeansInPlace == Spec => []SuccessIsInPlace
<1>1. IInv => SuccessIsInPlace
    <2> SUFFICES ASSUME IInv, result = "succeeded"
                 PROVE  Public = run /\ current = run
        BY DEF SuccessIsInPlace
    <2>1. PICK p \in Id : IsPublic(p)
        BY DEF IInv
    <2>2. schema[run] = "public" /\ current = run /\ run \in Id
        BY DEF IInv, TypeOK, OutcomeInv
    <2>3. run = p
        BY <2>1, <2>2 DEF IsPublic
    <2> QED
        BY <2>1, <2>2, <2>3, PublicIsUnique DEF IInv
<1> QED
    BY <1>1, Invariance, PTL

(* No step of any restore drops the replaced database before the files of  *)
(* the same restore are live.                                              *)
THEOREM OldDatabaseIsKept == Spec => OldDatabaseOutlivesTheSwitch
<1>1. ASSUME IInv, [Next]_vars, NEW i \in Id,
             schema[i] = "previous", schema'[i] = "absent"
      PROVE  current = Public
    <2>1. PICK p \in Id : IsPublic(p)
        BY <1>1 DEF IInv
    <2>2. Public = p
        BY <1>1, <2>1, PublicIsUnique DEF IInv
    <2>3. pc = "finishDatabase"
        BY <1>1, <2>1, <2>2 DEF IInv, TypeOK, SchemaInv, Cutover, Next, RestoreStep,
           vars, database, disk, Drop, StartRestore, Validate, BeginDatabase,
           LoadAndUpgrade, BeginFiles, PutFiles, ActivateDatabase,
           SchemaSwapped, ActivateFiles, RollbackFiles, RollbackDatabase,
           SchemaSwappedBack, DropFailed, FinishDatabase, FinishFiles,
           CloseFiles, CloseDatabase, Cancel, Exit, Crash, ProcessEnds,
           AfterDatabase
    <2> QED
        BY <1>1, <2>1, <2>2, <2>3 DEF IInv, TypeOK, SchemaInv, GenerationInv, IsPublic
<1>2. IInv /\ [Next]_vars =>
        [\A i \in Id : schema[i] = "previous" /\ schema'[i] = "absent" => current = Public]_vars
    BY <1>1
<1> QED
    BY <1>2, Invariance, PTL DEF Spec, OldDatabaseOutlivesTheSwitch

-----------------------------------------------------------------------------
(* How far one trouble can reach.  A switch or a roll-back that failed has *)
(* used the one trouble up, so nothing else fails until the restore ends.  *)
SettledInv ==
    /\ pc = "rollbackFiles" =>
           \/ fileStage.activated /\ current = run
           \/ ~fileStage.activated /\ current = fileStage.previous
    /\ pc \in {"rollbackDatabase", "dropFailed"} => current # run
    /\ pc = "rollbackDatabase" => current = fileStage.previous
    /\ pc \in {"rollbackDatabase", "dropFailed"} => ~fileStage.activated
    /\ pc \in {"closeFiles", "closeDatabase"} /\ failing =>
           schema[run] # "public" /\ current # run
    /\ pc = "closeFiles" => (fileStage.activated <=> ~failing)
    /\ result = "failed" => schema[run] # "public" /\ current # run
    /\ ~torn =>
        /\ pc \notin Cutover => schema[current] = "public"
        /\ pc \in {"activateFiles", "rollbackFiles"} =>
               dbStage.previous = fileStage.previous
        /\ pc = "rollbackDatabase" => dbStage.previous = current

TroubleInv ==
    /\ cancelled => cancels > 0
    /\ failing => faults + cancels > 0
    /\ OneTrouble => SettledInv

(* A generation that was switched to knowingly, or not at all, is complete *)
(* while the link names it or may be taken back to it.                     *)
Opens(i) == i \notin unseen => generation[i] = "complete"

(* Close removes what was not made live, as far as Activate knows.         *)
LinkInv ==
    /\ Opens(current)
    /\ pc \in {"putFiles", "activateDatabase"} \cup Cutover => Opens(fileStage.previous)
    /\ pc \in {"rollbackFiles", "rollbackDatabase", "dropFailed", "closeFiles"} /\ ~fileStage.activated =>
           current # run \/ run \in unseen

LEMMA StartRestoreTrouble ==
    ASSUME IInv, TroubleInv, LinkInv, StartRestore
    PROVE  TroubleInv' /\ LinkInv'
<1> USE DEF StartRestore, disk, database, Goto, Fail, Cutover
<1>1. (cancelled => cancels > 0)' /\ (failing => faults + cancels > 0)'
    BY DEF IInv, TypeOK, OutcomeInv, TroubleInv, budget, Works, Breaks, Interrupted, LosesAck
<1>2. OneTrouble' => SettledInv'
    BY IdIsNat DEF IInv, TypeOK, SchemaInv, FreshInv, GenerationInv, OutcomeInv, TroubleInv, SettledInv, OneTrouble,
       budget, Works, Breaks, Interrupted, LosesAck
<1>3. LinkInv'
    BY IdIsNat DEF IInv, TypeOK, SchemaInv, FreshInv, GenerationInv, OutcomeInv, LinkInv, Opens,
       budget, Works, Breaks, Interrupted, LosesAck
<1> QED
    BY <1>1, <1>2, <1>3 DEF TroubleInv

LEMMA ValidateTrouble ==
    ASSUME IInv, TroubleInv, LinkInv, Validate
    PROVE  TroubleInv' /\ LinkInv'
<1> USE DEF Validate, disk, database, Goto, Fail, Cutover
<1>1. (cancelled => cancels > 0)' /\ (failing => faults + cancels > 0)'
    BY DEF IInv, TypeOK, OutcomeInv, TroubleInv, budget, Works, Breaks, Interrupted, LosesAck
<1>2. OneTrouble' => SettledInv'
    BY IdIsNat DEF IInv, TypeOK, SchemaInv, FreshInv, GenerationInv, OutcomeInv, TroubleInv, SettledInv, OneTrouble,
       budget, Works, Breaks, Interrupted, LosesAck
<1>3. LinkInv'
    BY IdIsNat DEF IInv, TypeOK, SchemaInv, FreshInv, GenerationInv, OutcomeInv, LinkInv, Opens,
       budget, Works, Breaks, Interrupted, LosesAck
<1> QED
    BY <1>1, <1>2, <1>3 DEF TroubleInv

LEMMA BeginDatabaseTrouble ==
    ASSUME IInv, TroubleInv, LinkInv, BeginDatabase
    PROVE  TroubleInv' /\ LinkInv'
<1> USE DEF BeginDatabase, disk, database, Goto, Fail, Cutover, NoDbStage
<1>1. (cancelled => cancels > 0)' /\ (failing => faults + cancels > 0)'
    BY DEF IInv, TypeOK, OutcomeInv, TroubleInv, budget, Works, Breaks, Interrupted, LosesAck
<1>2. OneTrouble' => SettledInv'
    BY IdIsNat DEF IInv, TypeOK, SchemaInv, FreshInv, GenerationInv, OutcomeInv, TroubleInv, SettledInv, OneTrouble,
       budget, Works, Breaks, Interrupted, LosesAck
<1>3. LinkInv'
    BY IdIsNat DEF IInv, TypeOK, SchemaInv, FreshInv, GenerationInv, OutcomeInv, LinkInv, Opens,
       budget, Works, Breaks, Interrupted, LosesAck
<1> QED
    BY <1>1, <1>2, <1>3 DEF TroubleInv

LEMMA LoadAndUpgradeTrouble ==
    ASSUME IInv, TroubleInv, LinkInv, LoadAndUpgrade
    PROVE  TroubleInv' /\ LinkInv'
<1> USE DEF LoadAndUpgrade, disk, database, Goto, Fail, Cutover
<1>1. (cancelled => cancels > 0)' /\ (failing => faults + cancels > 0)'
    BY DEF IInv, TypeOK, OutcomeInv, TroubleInv, budget, Works, Breaks, Interrupted, LosesAck
<1>2. OneTrouble' => SettledInv'
    BY IdIsNat DEF IInv, TypeOK, SchemaInv, FreshInv, GenerationInv, OutcomeInv, TroubleInv, SettledInv, OneTrouble,
       budget, Works, Breaks, Interrupted, LosesAck
<1>3. LinkInv'
    BY IdIsNat DEF IInv, TypeOK, SchemaInv, FreshInv, GenerationInv, OutcomeInv, LinkInv, Opens,
       budget, Works, Breaks, Interrupted, LosesAck
<1> QED
    BY <1>1, <1>2, <1>3 DEF TroubleInv

LEMMA BeginFilesTrouble ==
    ASSUME IInv, TroubleInv, LinkInv, BeginFiles
    PROVE  TroubleInv' /\ LinkInv'
<1> USE DEF BeginFiles, disk, database, Goto, Fail, Cutover, NewFileStage
<1>1. (cancelled => cancels > 0)' /\ (failing => faults + cancels > 0)'
    BY DEF IInv, TypeOK, OutcomeInv, TroubleInv, budget, Works, Breaks, Interrupted, LosesAck
<1>2. OneTrouble' => SettledInv'
    BY IdIsNat DEF IInv, TypeOK, SchemaInv, FreshInv, GenerationInv, OutcomeInv, TroubleInv, SettledInv, OneTrouble,
       budget, Works, Breaks, Interrupted, LosesAck
<1>3. LinkInv'
    BY IdIsNat DEF IInv, TypeOK, SchemaInv, FreshInv, GenerationInv, OutcomeInv, LinkInv, Opens,
       budget, Works, Breaks, Interrupted, LosesAck
<1> QED
    BY <1>1, <1>2, <1>3 DEF TroubleInv

LEMMA PutFilesTrouble ==
    ASSUME IInv, TroubleInv, LinkInv, PutFiles
    PROVE  TroubleInv' /\ LinkInv'
<1> USE DEF PutFiles, disk, database, Goto, Fail, Cutover
<1>1. (cancelled => cancels > 0)' /\ (failing => faults + cancels > 0)'
    BY DEF IInv, TypeOK, OutcomeInv, TroubleInv, budget, Works, Breaks, Interrupted, LosesAck
<1>2. OneTrouble' => SettledInv'
    BY IdIsNat DEF IInv, TypeOK, SchemaInv, FreshInv, GenerationInv, OutcomeInv, TroubleInv, SettledInv, OneTrouble,
       budget, Works, Breaks, Interrupted, LosesAck
<1>3. LinkInv'
    BY IdIsNat DEF IInv, TypeOK, SchemaInv, FreshInv, GenerationInv, OutcomeInv, LinkInv, Opens,
       budget, Works, Breaks, Interrupted, LosesAck
<1> QED
    BY <1>1, <1>2, <1>3 DEF TroubleInv

LEMMA ActivateDatabaseTrouble ==
    ASSUME IInv, TroubleInv, LinkInv, ActivateDatabase
    PROVE  TroubleInv' /\ LinkInv'
<1> USE DEF ActivateDatabase, disk, database, Goto, Fail, Cutover, SchemaSwapped, AfterDatabase
<1> PICK p \in Id : IsPublic(p)
    BY DEF IInv
<1>p. Public = p
    BY PublicIsUnique DEF IInv
<1>1. (cancelled => cancels > 0)' /\ (failing => faults + cancels > 0)'
    BY DEF IInv, TypeOK, OutcomeInv, TroubleInv, budget, Works, Breaks, Interrupted, LosesAck
<1>2. OneTrouble' => SettledInv'
    BY <1>p, IdIsNat DEF IInv, TypeOK, SchemaInv, FreshInv, GenerationInv, OutcomeInv, IsPublic, TroubleInv, SettledInv, OneTrouble,
       budget, Works, Breaks, Interrupted, LosesAck
<1>3. LinkInv'
    BY <1>p, IdIsNat DEF IInv, TypeOK, SchemaInv, FreshInv, GenerationInv, OutcomeInv, IsPublic, LinkInv, Opens,
       budget, Works, Breaks, Interrupted, LosesAck
<1> QED
    BY <1>1, <1>2, <1>3 DEF TroubleInv

LEMMA ActivateFilesTrouble ==
    ASSUME IInv, TroubleInv, LinkInv, ActivateFiles
    PROVE  TroubleInv' /\ LinkInv'
<1> USE DEF ActivateFiles, disk, database, Goto, Fail, Cutover, LinkReadBack, FailedSwitch
<1>1. (cancelled => cancels > 0)' /\ (failing => faults + cancels > 0)'
    BY DEF IInv, TypeOK, OutcomeInv, TroubleInv, budget, Works, Breaks, Interrupted, LosesAck
<1>2. OneTrouble' => SettledInv'
    BY IdIsNat DEF IInv, TypeOK, SchemaInv, FreshInv, GenerationInv, OutcomeInv, TroubleInv, SettledInv, OneTrouble,
       budget, Works, Breaks, Interrupted, LosesAck
<1>3. LinkInv'
    BY IdIsNat DEF IInv, TypeOK, SchemaInv, FreshInv, GenerationInv, OutcomeInv, LinkInv, Opens,
       budget, Works, Breaks, Interrupted, LosesAck
<1> QED
    BY <1>1, <1>2, <1>3 DEF TroubleInv

LEMMA RollbackFilesTrouble ==
    ASSUME IInv, TroubleInv, LinkInv, RollbackFiles
    PROVE  TroubleInv' /\ LinkInv'
<1> USE DEF RollbackFiles, disk, database, Goto, Fail, Cutover
<1>1. (cancelled => cancels > 0)' /\ (failing => faults + cancels > 0)'
    BY DEF IInv, TypeOK, OutcomeInv, TroubleInv, budget, Works, Breaks, Interrupted, LosesAck
<1>2. OneTrouble' => SettledInv'
    BY IdIsNat DEF IInv, TypeOK, SchemaInv, FreshInv, GenerationInv, OutcomeInv, TroubleInv, SettledInv, OneTrouble,
       budget, Works, Breaks, Interrupted, LosesAck
<1>3. LinkInv'
    BY IdIsNat DEF IInv, TypeOK, SchemaInv, FreshInv, GenerationInv, OutcomeInv, LinkInv, Opens,
       budget, Works, Breaks, Interrupted, LosesAck
<1> QED
    BY <1>1, <1>2, <1>3 DEF TroubleInv

LEMMA RollbackDatabaseTrouble ==
    ASSUME IInv, TroubleInv, LinkInv, RollbackDatabase
    PROVE  TroubleInv' /\ LinkInv'
<1> USE DEF RollbackDatabase, disk, database, Goto, Fail, Cutover, SchemaSwappedBack, NoDbStage
<1> PICK p \in Id : IsPublic(p)
    BY DEF IInv
<1>p. Public = p
    BY PublicIsUnique DEF IInv
<1>1. (cancelled => cancels > 0)' /\ (failing => faults + cancels > 0)'
    BY DEF IInv, TypeOK, OutcomeInv, TroubleInv, budget, Works, Breaks, Interrupted, LosesAck
<1>2. OneTrouble' => SettledInv'
    BY <1>p, IdIsNat DEF IInv, TypeOK, SchemaInv, FreshInv, GenerationInv, OutcomeInv, IsPublic, TroubleInv, SettledInv, OneTrouble,
       budget, Works, Breaks, Interrupted, LosesAck
<1>3. LinkInv'
    BY <1>p, IdIsNat DEF IInv, TypeOK, SchemaInv, FreshInv, GenerationInv, OutcomeInv, IsPublic, LinkInv, Opens,
       budget, Works, Breaks, Interrupted, LosesAck
<1> QED
    BY <1>1, <1>2, <1>3 DEF TroubleInv

LEMMA DropFailedTrouble ==
    ASSUME IInv, TroubleInv, LinkInv, DropFailed
    PROVE  TroubleInv' /\ LinkInv'
<1> USE DEF DropFailed, disk, database, Goto, Fail, Cutover, Drop
<1>1. (cancelled => cancels > 0)' /\ (failing => faults + cancels > 0)'
    BY DEF IInv, TypeOK, OutcomeInv, TroubleInv, budget, Works, Breaks, Interrupted, LosesAck
<1>2. OneTrouble' => SettledInv'
    BY IdIsNat DEF IInv, TypeOK, SchemaInv, FreshInv, GenerationInv, OutcomeInv, TroubleInv, SettledInv, OneTrouble,
       budget, Works, Breaks, Interrupted, LosesAck
<1>3. LinkInv'
    BY IdIsNat DEF IInv, TypeOK, SchemaInv, FreshInv, GenerationInv, OutcomeInv, LinkInv, Opens,
       budget, Works, Breaks, Interrupted, LosesAck
<1> QED
    BY <1>1, <1>2, <1>3 DEF TroubleInv

LEMMA FinishDatabaseTrouble ==
    ASSUME IInv, TroubleInv, LinkInv, FinishDatabase
    PROVE  TroubleInv' /\ LinkInv'
<1> USE DEF FinishDatabase, disk, database, Goto, Fail, Cutover, Drop, DropsFinishError
<1>1. (cancelled => cancels > 0)' /\ (failing => faults + cancels > 0)'
    BY DEF IInv, TypeOK, OutcomeInv, TroubleInv, budget, Works, Breaks, Interrupted, LosesAck
<1>2. OneTrouble' => SettledInv'
    BY IdIsNat DEF IInv, TypeOK, SchemaInv, FreshInv, GenerationInv, OutcomeInv, TroubleInv, SettledInv, OneTrouble,
       budget, Works, Breaks, Interrupted, LosesAck
<1>3. LinkInv'
    BY IdIsNat DEF IInv, TypeOK, SchemaInv, FreshInv, GenerationInv, OutcomeInv, LinkInv, Opens,
       budget, Works, Breaks, Interrupted, LosesAck
<1> QED
    BY <1>1, <1>2, <1>3 DEF TroubleInv

LEMMA FinishFilesTrouble ==
    ASSUME IInv, TroubleInv, LinkInv, FinishFiles
    PROVE  TroubleInv' /\ LinkInv'
<1> USE DEF FinishFiles, disk, database, Goto, Fail, Cutover, RemoveAll
<1>1. (cancelled => cancels > 0)' /\ (failing => faults + cancels > 0)'
    BY DEF IInv, TypeOK, OutcomeInv, TroubleInv, budget, Works, Breaks, Interrupted, LosesAck
<1>2. OneTrouble' => SettledInv'
    BY IdIsNat DEF IInv, TypeOK, SchemaInv, FreshInv, GenerationInv, OutcomeInv, TroubleInv, SettledInv, OneTrouble,
       budget, Works, Breaks, Interrupted, LosesAck
<1>3. LinkInv'
    BY IdIsNat DEF IInv, TypeOK, SchemaInv, FreshInv, GenerationInv, OutcomeInv, LinkInv, Opens,
       budget, Works, Breaks, Interrupted, LosesAck
<1> QED
    BY <1>1, <1>2, <1>3 DEF TroubleInv

LEMMA CloseFilesTrouble ==
    ASSUME IInv, TroubleInv, LinkInv, CloseFiles
    PROVE  TroubleInv' /\ LinkInv'
<1> USE DEF CloseFiles, disk, database, Goto, Fail, Cutover, RemoveAll, NeverActivated, NoFileStage
<1>1. (cancelled => cancels > 0)' /\ (failing => faults + cancels > 0)'
    BY DEF IInv, TypeOK, OutcomeInv, TroubleInv, budget, Works, Breaks, Interrupted, LosesAck
<1>2. OneTrouble' => SettledInv'
    BY IdIsNat DEF IInv, TypeOK, SchemaInv, FreshInv, GenerationInv, OutcomeInv, TroubleInv, SettledInv, OneTrouble,
       budget, Works, Breaks, Interrupted, LosesAck
<1>3. LinkInv'
    BY IdIsNat DEF IInv, TypeOK, SchemaInv, FreshInv, GenerationInv, OutcomeInv, LinkInv, Opens,
       budget, Works, Breaks, Interrupted, LosesAck
<1> QED
    BY <1>1, <1>2, <1>3 DEF TroubleInv

LEMMA CloseDatabaseTrouble ==
    ASSUME IInv, TroubleInv, LinkInv, CloseDatabase
    PROVE  TroubleInv' /\ LinkInv'
<1> USE DEF CloseDatabase, disk, database, Goto, Fail, Cutover, Drop, NoDbStage, Unlock, Return
<1>1. (cancelled => cancels > 0)' /\ (failing => faults + cancels > 0)'
    BY DEF IInv, TypeOK, OutcomeInv, TroubleInv, budget, Works, Breaks, Interrupted, LosesAck
<1>2. OneTrouble' => SettledInv'
    BY IdIsNat DEF IInv, TypeOK, SchemaInv, FreshInv, GenerationInv, OutcomeInv, TroubleInv, SettledInv, OneTrouble,
       budget, Works, Breaks, Interrupted, LosesAck
<1>3. LinkInv'
    BY IdIsNat DEF IInv, TypeOK, SchemaInv, FreshInv, GenerationInv, OutcomeInv, LinkInv, Opens,
       budget, Works, Breaks, Interrupted, LosesAck
<1> QED
    BY <1>1, <1>2, <1>3 DEF TroubleInv

LEMMA CancelTrouble ==
    ASSUME IInv, TroubleInv, LinkInv, Cancel
    PROVE  TroubleInv' /\ LinkInv'
<1> USE DEF Cancel, disk, database, Goto, Fail, Cutover
<1>1. (cancelled => cancels > 0)' /\ (failing => faults + cancels > 0)'
    BY DEF IInv, TypeOK, OutcomeInv, TroubleInv, budget, Works, Breaks, Interrupted, LosesAck
<1>2. OneTrouble' => SettledInv'
    BY IdIsNat DEF IInv, TypeOK, SchemaInv, FreshInv, GenerationInv, OutcomeInv, TroubleInv, SettledInv, OneTrouble,
       budget, Works, Breaks, Interrupted, LosesAck
<1>3. LinkInv'
    BY IdIsNat DEF IInv, TypeOK, SchemaInv, FreshInv, GenerationInv, OutcomeInv, LinkInv, Opens,
       budget, Works, Breaks, Interrupted, LosesAck
<1> QED
    BY <1>1, <1>2, <1>3 DEF TroubleInv

LEMMA ExitTrouble ==
    ASSUME IInv, TroubleInv, LinkInv, Exit
    PROVE  TroubleInv' /\ LinkInv'
<1> USE DEF Exit, disk, database, Goto, Fail, Cutover, ProcessEnds, NoDbStage, NoFileStage
<1>1. (cancelled => cancels > 0)' /\ (failing => faults + cancels > 0)'
    BY DEF IInv, TypeOK, OutcomeInv, TroubleInv, budget, Works, Breaks, Interrupted, LosesAck
<1>2. OneTrouble' => SettledInv'
    BY IdIsNat DEF IInv, TypeOK, SchemaInv, FreshInv, GenerationInv, OutcomeInv, TroubleInv, SettledInv, OneTrouble,
       budget, Works, Breaks, Interrupted, LosesAck
<1>3. LinkInv'
    BY IdIsNat DEF IInv, TypeOK, SchemaInv, FreshInv, GenerationInv, OutcomeInv, LinkInv, Opens,
       budget, Works, Breaks, Interrupted, LosesAck
<1> QED
    BY <1>1, <1>2, <1>3 DEF TroubleInv

LEMMA CrashTrouble ==
    ASSUME IInv, TroubleInv, LinkInv, Crash
    PROVE  TroubleInv' /\ LinkInv'
<1> USE DEF Crash, disk, database, Goto, Fail, Cutover, ProcessEnds, NoDbStage, NoFileStage
<1>1. (cancelled => cancels > 0)' /\ (failing => faults + cancels > 0)'
    BY DEF IInv, TypeOK, OutcomeInv, TroubleInv, budget, Works, Breaks, Interrupted, LosesAck
<1>2. OneTrouble' => SettledInv'
    BY IdIsNat DEF IInv, TypeOK, SchemaInv, FreshInv, GenerationInv, OutcomeInv, TroubleInv, SettledInv, OneTrouble,
       budget, Works, Breaks, Interrupted, LosesAck
<1>3. LinkInv'
    BY IdIsNat DEF IInv, TypeOK, SchemaInv, FreshInv, GenerationInv, OutcomeInv, LinkInv, Opens,
       budget, Works, Breaks, Interrupted, LosesAck
<1> QED
    BY <1>1, <1>2, <1>3 DEF TroubleInv

Inv == IInv /\ TroubleInv /\ LinkInv

LEMMA InitInv == Init => Inv
<1> SUFFICES ASSUME Init PROVE Inv
    OBVIOUS
<1>0. 0 \in Id
    BY RestoreAssumption DEF Id
<1>1. TroubleInv /\ LinkInv
    BY <1>0 DEF Init, TroubleInv, SettledInv, LinkInv, Opens, Cutover
<1> QED
    BY <1>1, InitIInv DEF Inv

LEMMA StepInv == Inv /\ [Next]_vars => Inv'
<1> SUFFICES ASSUME Inv, [Next]_vars PROVE TroubleInv' /\ LinkInv'
    BY StepIInv DEF Inv
<1> USE DEF Inv
<1>1. CASE StartRestore
    BY <1>1, StartRestoreTrouble
<1>2. CASE Validate
    BY <1>2, ValidateTrouble
<1>3. CASE BeginDatabase
    BY <1>3, BeginDatabaseTrouble
<1>4. CASE LoadAndUpgrade
    BY <1>4, LoadAndUpgradeTrouble
<1>5. CASE BeginFiles
    BY <1>5, BeginFilesTrouble
<1>6. CASE PutFiles
    BY <1>6, PutFilesTrouble
<1>7. CASE ActivateDatabase
    BY <1>7, ActivateDatabaseTrouble
<1>8. CASE ActivateFiles
    BY <1>8, ActivateFilesTrouble
<1>9. CASE RollbackFiles
    BY <1>9, RollbackFilesTrouble
<1>10. CASE RollbackDatabase
    BY <1>10, RollbackDatabaseTrouble
<1>11. CASE DropFailed
    BY <1>11, DropFailedTrouble
<1>12. CASE FinishDatabase
    BY <1>12, FinishDatabaseTrouble
<1>13. CASE FinishFiles
    BY <1>13, FinishFilesTrouble
<1>14. CASE CloseFiles
    BY <1>14, CloseFilesTrouble
<1>15. CASE CloseDatabase
    BY <1>15, CloseDatabaseTrouble
<1>16. CASE Cancel
    BY <1>16, CancelTrouble
<1>17. CASE Exit
    BY <1>17, ExitTrouble
<1>18. CASE Crash
    BY <1>18, CrashTrouble
<1>19. CASE UNCHANGED vars
    BY <1>19 DEF vars, TroubleInv, SettledInv, LinkInv, Opens, OneTrouble, Cutover
<1> QED
    BY <1>1, <1>2, <1>3, <1>4, <1>5, <1>6, <1>7, <1>8, <1>9, <1>10, <1>11, <1>12, <1>13, <1>14, <1>15, <1>16, <1>17, <1>18, <1>19
       DEF Next, RestoreStep

LEMMA InvInvariance == Spec => []Inv
BY InitInv, StepInv, PTL DEF Spec

(* However many calls fail, the media link names a complete generation:    *)
(* all but one whose switch was neither flushed nor read back.             *)
THEOREM MediaLinkIsComplete == Spec => []MediaLinkResolves
<1>1. Inv => MediaLinkResolves
    BY DEF Inv, LinkInv, Opens, MediaLinkResolves
<1> QED
    BY <1>1, InvInvariance, PTL

(* One trouble - a failed call, or a shutdown - never leaves the database  *)
(* of one restore with the files of another, unless a process died between *)
(* the two switches.                                                       *)
THEOREM OneTroubleLeavesItWhole == Spec => []InstanceWhole
<1>1. Inv => InstanceWhole
    <2> SUFFICES ASSUME Inv, pc \notin Cutover, OneTrouble, ~torn
                 PROVE  Public = current
        BY DEF InstanceWhole
    <2>1. PICK p \in Id : IsPublic(p)
        BY DEF Inv, IInv
    <2>2. schema[current] = "public" /\ current \in Id
        BY DEF Inv, IInv, TypeOK, TroubleInv, SettledInv
    <2> QED
        BY <2>1, <2>2, PublicIsUnique DEF Inv, IInv, IsPublic
<1> QED
    BY <1>1, InvInvariance, PTL

(* A restore that failed over one trouble changed neither half.            *)
THEOREM FailureIsUndone == Spec => []FailureChangesNothing
<1>1. Inv => FailureChangesNothing
    <2> SUFFICES ASSUME Inv, result = "failed", OneTrouble
                 PROVE  Public # run /\ current # run
        BY DEF FailureChangesNothing
    <2>1. PICK p \in Id : IsPublic(p)
        BY DEF Inv, IInv
    <2>2. schema[run] # "public" /\ current # run
        BY DEF Inv, TroubleInv, SettledInv
    <2> QED
        BY <2>1, <2>2, PublicIsUnique DEF Inv, IInv, IsPublic
<1> QED
    BY <1>1, InvInvariance, PTL

(* Both halves of the instance can be opened at every moment, however many *)
(* calls fail while activating, putting back or clearing up: all but media *)
(* whose switch was neither flushed nor read back.                         *)
THEOREM HalvesStayUsable == Spec => []HalvesAreUsable
<1>1. OneLoadedDatabase /\ MediaLinkResolves => HalvesAreUsable
    BY DEF HalvesAreUsable
<1> QED
    BY <1>1, AlwaysOneLoadedDatabase, MediaLinkIsComplete, PTL

(* The outcome a restore is reported with is what it did to the instance.  *)
THEOREM ReportsAreTrue == Spec => []ReportIsTrue
<1>1. SuccessIsInPlace /\ FailureChangesNothing => ReportIsTrue
    BY DEF ReportIsTrue
<1> QED
    BY <1>1, SuccessMeansInPlace, FailureIsUndone, PTL

(* No step of a restore removes the generation the link names, nor the one *)
(* the live database refers to, as long as at most one thing went wrong.   *)
THEOREM LiveFilesStay == Spec => LiveFilesAreKept
<1>1. ASSUME Inv, Inv', [Next]_vars, NEW i \in Id, OneTrouble',
             generation[i] = "complete", generation'[i] # "complete"
      PROVE  i # Public' /\ i # current'
    <2>1. PICK p \in Id : IsPublic(p)'
        BY <1>1 DEF Inv, IInv
    <2>2. Public' = p
        BY <2>1 DEF Public, IsPublic
    <2>3. CASE FinishFiles
        BY <1>1, <2>1, <2>2, <2>3, IdIsNat DEF Inv, IInv, TypeOK, SchemaInv, GenerationInv, IsPublic,
           FinishFiles, RemoveAll, database, disk, Cutover
    <2>4. CASE CloseFiles
        <3>1. i = run /\ ~fileStage.activated
            BY <1>1, <2>4 DEF Inv, IInv, TypeOK, CloseFiles, RemoveAll, NeverActivated
        <3>2. OneTrouble
            <4>1. faults \in Nat /\ cancels \in Nat
                BY <1>1 DEF Inv, IInv, TypeOK
            <4>2. \/ faults' = faults \/ faults' = faults + 1
                BY <2>4 DEF CloseFiles, RemoveAll, Works, Breaks, budget
            <4>3. cancels' = cancels /\ ackLost' = ackLost
                BY <2>4 DEF CloseFiles, RemoveAll, Works, Breaks, budget
            <4> QED
                BY <1>1, <4>1, <4>2, <4>3 DEF OneTrouble
        <3>3. schema[run] # "public" /\ current # run
            BY <2>4, <3>1, <3>2, <1>1 DEF CloseFiles, Inv, TroubleInv, SettledInv
        <3> QED
            BY <2>1, <2>2, <2>4, <3>1, <3>3 DEF CloseFiles, IsPublic, database
    <2>5. FinishFiles \/ CloseFiles
        BY <1>1 DEF Inv, IInv, TypeOK, GenerationInv, FreshInv, Next, RestoreStep, vars, database, disk,
           StartRestore, Validate, BeginDatabase, LoadAndUpgrade, BeginFiles,
           PutFiles, ActivateDatabase, ActivateFiles, RollbackFiles,
           RollbackDatabase, DropFailed, FinishDatabase, CloseDatabase,
           Cancel, Exit, Crash, ProcessEnds
    <2> QED
        BY <2>3, <2>4, <2>5
<1>2. Inv /\ Inv' /\ [Next]_vars =>
        [\A i \in Id : /\ OneTrouble'
                       /\ generation[i] = "complete"
                       /\ generation'[i] # "complete"
                       => i # Public' /\ i # current']_vars
    BY <1>1
<1> QED
    BY <1>2, InvInvariance, PTL DEF Spec, LiveFilesAreKept

-----------------------------------------------------------------------------
(* What a restore that met no failing call and no crash has of its own on  *)
(* the instance, by where it stands.                                       *)
SchemaWanted(i) ==
    \/ schema[i] = "public"
    \/ /\ i = run /\ schema[i] = "staged" /\ ~dbStage.active
       /\ pc \in {"load", "beginFiles", "putFiles", "activateDatabase",
                  "closeFiles", "closeDatabase"}
    \/ i = run /\ pc = "dropFailed"
    \/ i = dbStage.previous /\ pc \in Cutover \cup {"finishDatabase"}

GenerationWanted(i) ==
    \/ i = current
    \/ /\ i = run /\ ~fileStage.activated
       /\ pc \in {"putFiles", "activateDatabase", "dropFailed", "closeFiles"} \cup Cutover
    \/ i = fileStage.previous /\ pc \in {"finishDatabase", "finishFiles"}

Wanted(i) ==
    /\ schema[i] # "absent" => SchemaWanted(i)
    /\ generation[i] # "absent" => GenerationWanted(i)

Spotless == faults = 0 /\ crashes = 0

(* Only a failing call makes a switch of the link take effect and be       *)
(* reported as failed: a rollback finds the link where it was.             *)
TidyInv ==
    Spotless => /\ \A i \in Id : Wanted(i)
                /\ pc \in {"rollbackFiles", "rollbackDatabase", "dropFailed"} =>
                       ~fileStage.activated

(* A history without trouble stays one only by steps that work, or that    *)
(* the shutdown interrupts.                                                *)
LEMMA SpotlessSteps ==
    ASSUME TypeOK, Spotless'
    PROVE  /\ ~Breaks /\ ~LosesAck /\ faults' # faults + 2 /\ ~Crash
           /\ Works \/ Interrupted \/ Cancel => Spotless
<1>1. faults \in Nat /\ crashes \in Nat
    BY DEF TypeOK
<1>2. faults' # faults + 1 /\ faults' # faults + 2 /\ crashes' # crashes + 1
    BY <1>1 DEF Spotless
<1> QED
    BY <1>1, <1>2 DEF Spotless, Breaks, LosesAck, Crash, Works, Interrupted, Cancel, budget

LEMMA StartRestoreTidy ==
    ASSUME IInv, TidyInv, StartRestore
    PROVE  TidyInv'
<1> SUFFICES ASSUME Spotless' PROVE TidyInv'
    BY DEF TidyInv
<1> USE DEF StartRestore, disk, database, Goto, Fail
<1>1. TypeOK /\ ~Breaks /\ ~LosesAck /\ faults' # faults + 2
    BY SpotlessSteps DEF IInv
<1>2. Spotless
    BY <1>1, SpotlessSteps DEF IInv, Works
<1>3. (pc \in {"rollbackFiles", "rollbackDatabase", "dropFailed"} => ~fileStage.activated)'
    BY <1>1, <1>2 DEF IInv, TypeOK, GenerationInv, TidyInv
<1>4. ASSUME NEW i \in Id PROVE schema'[i] # "absent" => SchemaWanted(i)'
    BY <1>1, <1>2, IdIsNat DEF IInv, TypeOK, SchemaInv, TidyInv, Wanted, SchemaWanted, Cutover
<1>5. ASSUME NEW i \in Id PROVE generation'[i] # "absent" => GenerationWanted(i)'
    BY <1>1, <1>2, IdIsNat DEF IInv, TypeOK, GenerationInv, OutcomeInv, TidyInv, Wanted, GenerationWanted, Cutover
<1> QED
    BY <1>3, <1>4, <1>5 DEF TidyInv, Wanted

LEMMA ValidateTidy ==
    ASSUME IInv, TidyInv, Validate
    PROVE  TidyInv'
<1> SUFFICES ASSUME Spotless' PROVE TidyInv'
    BY DEF TidyInv
<1> USE DEF Validate, disk, database, Goto, Fail
<1>1. TypeOK /\ ~Breaks /\ ~LosesAck /\ faults' # faults + 2
    BY SpotlessSteps DEF IInv
<1>2. Spotless
    BY <1>1, SpotlessSteps DEF IInv, Works
<1>3. (pc \in {"rollbackFiles", "rollbackDatabase", "dropFailed"} => ~fileStage.activated)'
    BY <1>1, <1>2 DEF IInv, TypeOK, GenerationInv, TidyInv
<1>4. ASSUME NEW i \in Id PROVE schema'[i] # "absent" => SchemaWanted(i)'
    BY <1>1, <1>2, IdIsNat DEF IInv, TypeOK, SchemaInv, TidyInv, Wanted, SchemaWanted, Cutover
<1>5. ASSUME NEW i \in Id PROVE generation'[i] # "absent" => GenerationWanted(i)'
    BY <1>1, <1>2, IdIsNat DEF IInv, TypeOK, GenerationInv, OutcomeInv, TidyInv, Wanted, GenerationWanted, Cutover
<1> QED
    BY <1>3, <1>4, <1>5 DEF TidyInv, Wanted

LEMMA BeginDatabaseTidy ==
    ASSUME IInv, TidyInv, BeginDatabase
    PROVE  TidyInv'
<1> SUFFICES ASSUME Spotless' PROVE TidyInv'
    BY DEF TidyInv
<1> USE DEF BeginDatabase, disk, database, Goto, Fail, NoDbStage
<1>1. TypeOK /\ ~Breaks /\ ~LosesAck /\ faults' # faults + 2
    BY SpotlessSteps DEF IInv
<1>2. Spotless
    BY <1>1, SpotlessSteps DEF IInv, Works
<1>3. (pc \in {"rollbackFiles", "rollbackDatabase", "dropFailed"} => ~fileStage.activated)'
    BY <1>1, <1>2 DEF IInv, TypeOK, GenerationInv, TidyInv
<1>4. ASSUME NEW i \in Id PROVE schema'[i] # "absent" => SchemaWanted(i)'
    BY <1>1, <1>2, IdIsNat DEF IInv, TypeOK, SchemaInv, TidyInv, Wanted, SchemaWanted, Cutover
<1>5. ASSUME NEW i \in Id PROVE generation'[i] # "absent" => GenerationWanted(i)'
    BY <1>1, <1>2, IdIsNat DEF IInv, TypeOK, GenerationInv, OutcomeInv, TidyInv, Wanted, GenerationWanted, Cutover
<1> QED
    BY <1>3, <1>4, <1>5 DEF TidyInv, Wanted

LEMMA LoadAndUpgradeTidy ==
    ASSUME IInv, TidyInv, LoadAndUpgrade
    PROVE  TidyInv'
<1> SUFFICES ASSUME Spotless' PROVE TidyInv'
    BY DEF TidyInv
<1> USE DEF LoadAndUpgrade, disk, database, Goto, Fail
<1>1. TypeOK /\ ~Breaks /\ ~LosesAck /\ faults' # faults + 2
    BY SpotlessSteps DEF IInv
<1>2. Spotless
    BY <1>1, SpotlessSteps DEF IInv, Works
<1>3. (pc \in {"rollbackFiles", "rollbackDatabase", "dropFailed"} => ~fileStage.activated)'
    BY <1>1, <1>2 DEF IInv, TypeOK, GenerationInv, TidyInv
<1>4. ASSUME NEW i \in Id PROVE schema'[i] # "absent" => SchemaWanted(i)'
    BY <1>1, <1>2, IdIsNat DEF IInv, TypeOK, SchemaInv, TidyInv, Wanted, SchemaWanted, Cutover
<1>5. ASSUME NEW i \in Id PROVE generation'[i] # "absent" => GenerationWanted(i)'
    BY <1>1, <1>2, IdIsNat DEF IInv, TypeOK, GenerationInv, OutcomeInv, TidyInv, Wanted, GenerationWanted, Cutover
<1> QED
    BY <1>3, <1>4, <1>5 DEF TidyInv, Wanted

LEMMA BeginFilesTidy ==
    ASSUME IInv, TidyInv, BeginFiles
    PROVE  TidyInv'
<1> SUFFICES ASSUME Spotless' PROVE TidyInv'
    BY DEF TidyInv
<1> USE DEF BeginFiles, disk, database, Goto, Fail, NewFileStage
<1>1. TypeOK /\ ~Breaks /\ ~LosesAck /\ faults' # faults + 2
    BY SpotlessSteps DEF IInv
<1>2. Spotless
    BY <1>1, SpotlessSteps DEF IInv, Works
<1>3. (pc \in {"rollbackFiles", "rollbackDatabase", "dropFailed"} => ~fileStage.activated)'
    BY <1>1, <1>2 DEF IInv, TypeOK, GenerationInv, TidyInv
<1>4. ASSUME NEW i \in Id PROVE schema'[i] # "absent" => SchemaWanted(i)'
    BY <1>1, <1>2, IdIsNat DEF IInv, TypeOK, SchemaInv, TidyInv, Wanted, SchemaWanted, Cutover
<1>5. ASSUME NEW i \in Id PROVE generation'[i] # "absent" => GenerationWanted(i)'
    BY <1>1, <1>2, IdIsNat DEF IInv, TypeOK, GenerationInv, OutcomeInv, TidyInv, Wanted, GenerationWanted, Cutover
<1> QED
    BY <1>3, <1>4, <1>5 DEF TidyInv, Wanted

LEMMA PutFilesTidy ==
    ASSUME IInv, TidyInv, PutFiles
    PROVE  TidyInv'
<1> SUFFICES ASSUME Spotless' PROVE TidyInv'
    BY DEF TidyInv
<1> USE DEF PutFiles, disk, database, Goto, Fail
<1>1. TypeOK /\ ~Breaks /\ ~LosesAck /\ faults' # faults + 2
    BY SpotlessSteps DEF IInv
<1>2. Spotless
    BY <1>1, SpotlessSteps DEF IInv, Works
<1>3. (pc \in {"rollbackFiles", "rollbackDatabase", "dropFailed"} => ~fileStage.activated)'
    BY <1>1, <1>2 DEF IInv, TypeOK, GenerationInv, TidyInv
<1>4. ASSUME NEW i \in Id PROVE schema'[i] # "absent" => SchemaWanted(i)'
    BY <1>1, <1>2, IdIsNat DEF IInv, TypeOK, SchemaInv, TidyInv, Wanted, SchemaWanted, Cutover
<1>5. ASSUME NEW i \in Id PROVE generation'[i] # "absent" => GenerationWanted(i)'
    BY <1>1, <1>2, IdIsNat DEF IInv, TypeOK, GenerationInv, OutcomeInv, TidyInv, Wanted, GenerationWanted, Cutover
<1> QED
    BY <1>3, <1>4, <1>5 DEF TidyInv, Wanted

LEMMA ActivateDatabaseTidy ==
    ASSUME IInv, TidyInv, ActivateDatabase
    PROVE  TidyInv'
<1> SUFFICES ASSUME Spotless' PROVE TidyInv'
    BY DEF TidyInv
<1> USE DEF ActivateDatabase, disk, database, Goto, Fail, SchemaSwapped, AfterDatabase
<1>1. TypeOK /\ ~Breaks /\ ~LosesAck /\ faults' # faults + 2
    BY SpotlessSteps DEF IInv
<1>2. Spotless
    BY <1>1, SpotlessSteps DEF IInv, Works
<1>3. (pc \in {"rollbackFiles", "rollbackDatabase", "dropFailed"} => ~fileStage.activated)'
    BY <1>1, <1>2 DEF IInv, TypeOK, GenerationInv, TidyInv
<1>4. ASSUME NEW i \in Id PROVE schema'[i] # "absent" => SchemaWanted(i)'
    BY <1>1, <1>2, IdIsNat DEF IInv, TypeOK, SchemaInv, TidyInv, Wanted, SchemaWanted, Cutover
<1>5. ASSUME NEW i \in Id PROVE generation'[i] # "absent" => GenerationWanted(i)'
    BY <1>1, <1>2, IdIsNat DEF IInv, TypeOK, GenerationInv, OutcomeInv, TidyInv, Wanted, GenerationWanted, Cutover
<1> QED
    BY <1>3, <1>4, <1>5 DEF TidyInv, Wanted

LEMMA ActivateFilesTidy ==
    ASSUME IInv, TidyInv, ActivateFiles
    PROVE  TidyInv'
<1> SUFFICES ASSUME Spotless' PROVE TidyInv'
    BY DEF TidyInv
<1> USE DEF ActivateFiles, disk, database, Goto, Fail, LinkReadBack, FailedSwitch
<1>1. TypeOK /\ ~Breaks /\ ~LosesAck /\ faults' # faults + 2
    BY SpotlessSteps DEF IInv
<1>2. Spotless
    BY <1>1, SpotlessSteps DEF IInv, Works
<1>3. (pc \in {"rollbackFiles", "rollbackDatabase", "dropFailed"} => ~fileStage.activated)'
    BY <1>1, <1>2 DEF IInv, TypeOK, GenerationInv, TidyInv
<1>4. ASSUME NEW i \in Id PROVE schema'[i] # "absent" => SchemaWanted(i)'
    BY <1>1, <1>2, IdIsNat DEF IInv, TypeOK, SchemaInv, TidyInv, Wanted, SchemaWanted, Cutover
<1>5. ASSUME NEW i \in Id PROVE generation'[i] # "absent" => GenerationWanted(i)'
    BY <1>1, <1>2, IdIsNat DEF IInv, TypeOK, GenerationInv, OutcomeInv, TidyInv, Wanted, GenerationWanted, Cutover
<1> QED
    BY <1>3, <1>4, <1>5 DEF TidyInv, Wanted

LEMMA RollbackFilesTidy ==
    ASSUME IInv, TidyInv, RollbackFiles
    PROVE  TidyInv'
<1> SUFFICES ASSUME Spotless' PROVE TidyInv'
    BY DEF TidyInv
<1> USE DEF RollbackFiles, disk, database, Goto, Fail
<1>1. TypeOK /\ ~Breaks /\ ~LosesAck /\ faults' # faults + 2
    BY SpotlessSteps DEF IInv
<1>2. Spotless
    BY <1>1, SpotlessSteps DEF IInv, Works
<1>3. (pc \in {"rollbackFiles", "rollbackDatabase", "dropFailed"} => ~fileStage.activated)'
    BY <1>1, <1>2 DEF IInv, TypeOK, GenerationInv, TidyInv
<1>4. ASSUME NEW i \in Id PROVE schema'[i] # "absent" => SchemaWanted(i)'
    BY <1>1, <1>2, IdIsNat DEF IInv, TypeOK, SchemaInv, TidyInv, Wanted, SchemaWanted, Cutover
<1>5. ASSUME NEW i \in Id PROVE generation'[i] # "absent" => GenerationWanted(i)'
    BY <1>1, <1>2, IdIsNat DEF IInv, TypeOK, GenerationInv, OutcomeInv, TidyInv, Wanted, GenerationWanted, Cutover
<1> QED
    BY <1>3, <1>4, <1>5 DEF TidyInv, Wanted

LEMMA RollbackDatabaseTidy ==
    ASSUME IInv, TidyInv, RollbackDatabase
    PROVE  TidyInv'
<1> SUFFICES ASSUME Spotless' PROVE TidyInv'
    BY DEF TidyInv
<1> USE DEF RollbackDatabase, disk, Goto, SchemaSwappedBack, NoDbStage
<1>1. TypeOK /\ ~Breaks /\ ~LosesAck
    BY SpotlessSteps DEF IInv
<1>2. Spotless
    BY <1>1, SpotlessSteps DEF IInv, Works
<1>3. (pc \in {"rollbackFiles", "rollbackDatabase", "dropFailed"} => ~fileStage.activated)'
    BY <1>1, <1>2 DEF IInv, TypeOK, GenerationInv, TidyInv
<1>4. ASSUME NEW i \in Id PROVE schema'[i] # "absent" => SchemaWanted(i)'
    <2>1. PICK p \in Id : IsPublic(p)
        BY DEF IInv
    <2>2. Public = p
        BY <1>1, <2>1, PublicIsUnique
    <2>3. p = run
        BY <1>1, <2>1 DEF IInv, TypeOK, SchemaInv, IsPublic, Cutover
    <2>4. schema' = [schema EXCEPT ![run] = "failed", ![dbStage.previous] = "public"]
        BY <1>1, <2>2, <2>3
    <2> QED
        BY <1>1, <1>2, <2>1, <2>3, <2>4 DEF IInv, TypeOK, SchemaInv, TidyInv, Wanted,
           SchemaWanted, Cutover, IsPublic
<1>5. ASSUME NEW i \in Id PROVE generation'[i] # "absent" => GenerationWanted(i)'
    BY <1>1, <1>2, IdIsNat DEF IInv, TypeOK, GenerationInv, TidyInv, Wanted, GenerationWanted, Cutover
<1> QED
    BY <1>3, <1>4, <1>5 DEF TidyInv, Wanted

LEMMA DropFailedTidy ==
    ASSUME IInv, TidyInv, DropFailed
    PROVE  TidyInv'
<1> SUFFICES ASSUME Spotless' PROVE TidyInv'
    BY DEF TidyInv
<1> USE DEF DropFailed, disk, database, Goto, Fail, Drop
<1>1. TypeOK /\ ~Breaks /\ ~LosesAck /\ faults' # faults + 2
    BY SpotlessSteps DEF IInv
<1>2. Spotless
    BY <1>1, SpotlessSteps DEF IInv, Works
<1>3. (pc \in {"rollbackFiles", "rollbackDatabase", "dropFailed"} => ~fileStage.activated)'
    BY <1>1, <1>2 DEF IInv, TypeOK, GenerationInv, TidyInv
<1>4. ASSUME NEW i \in Id PROVE schema'[i] # "absent" => SchemaWanted(i)'
    BY <1>1, <1>2, IdIsNat DEF IInv, TypeOK, SchemaInv, TidyInv, Wanted, SchemaWanted, Cutover
<1>5. ASSUME NEW i \in Id PROVE generation'[i] # "absent" => GenerationWanted(i)'
    BY <1>1, <1>2, IdIsNat DEF IInv, TypeOK, GenerationInv, OutcomeInv, TidyInv, Wanted, GenerationWanted, Cutover
<1> QED
    BY <1>3, <1>4, <1>5 DEF TidyInv, Wanted

LEMMA FinishDatabaseTidy ==
    ASSUME IInv, TidyInv, FinishDatabase
    PROVE  TidyInv'
<1> SUFFICES ASSUME Spotless' PROVE TidyInv'
    BY DEF TidyInv
<1> USE DEF FinishDatabase, disk, database, Goto, Fail, Drop
<1>1. TypeOK /\ ~Breaks /\ ~LosesAck /\ faults' # faults + 2
    BY SpotlessSteps DEF IInv
<1>2. Spotless
    BY <1>1, SpotlessSteps DEF IInv, Works
<1>3. (pc \in {"rollbackFiles", "rollbackDatabase", "dropFailed"} => ~fileStage.activated)'
    BY <1>1, <1>2 DEF IInv, TypeOK, GenerationInv, TidyInv
<1>4. ASSUME NEW i \in Id PROVE schema'[i] # "absent" => SchemaWanted(i)'
    BY <1>1, <1>2, IdIsNat DEF IInv, TypeOK, SchemaInv, TidyInv, Wanted, SchemaWanted, Cutover
<1>5. ASSUME NEW i \in Id PROVE generation'[i] # "absent" => GenerationWanted(i)'
    BY <1>1, <1>2, IdIsNat DEF IInv, TypeOK, GenerationInv, OutcomeInv, TidyInv, Wanted, GenerationWanted, Cutover
<1> QED
    BY <1>3, <1>4, <1>5 DEF TidyInv, Wanted

LEMMA FinishFilesTidy ==
    ASSUME IInv, TidyInv, FinishFiles
    PROVE  TidyInv'
<1> SUFFICES ASSUME Spotless' PROVE TidyInv'
    BY DEF TidyInv
<1> USE DEF FinishFiles, disk, database, Goto, Fail, RemoveAll
<1>1. TypeOK /\ ~Breaks /\ ~LosesAck /\ faults' # faults + 2
    BY SpotlessSteps DEF IInv
<1>2. Spotless
    BY <1>1, SpotlessSteps DEF IInv, Works
<1>3. (pc \in {"rollbackFiles", "rollbackDatabase", "dropFailed"} => ~fileStage.activated)'
    BY <1>1, <1>2 DEF IInv, TypeOK, GenerationInv, TidyInv
<1>4. ASSUME NEW i \in Id PROVE schema'[i] # "absent" => SchemaWanted(i)'
    BY <1>1, <1>2, IdIsNat DEF IInv, TypeOK, SchemaInv, TidyInv, Wanted, SchemaWanted, Cutover
<1>5. ASSUME NEW i \in Id PROVE generation'[i] # "absent" => GenerationWanted(i)'
    BY <1>1, <1>2, IdIsNat DEF IInv, TypeOK, GenerationInv, OutcomeInv, TidyInv, Wanted, GenerationWanted, Cutover
<1> QED
    BY <1>3, <1>4, <1>5 DEF TidyInv, Wanted

LEMMA CloseFilesTidy ==
    ASSUME IInv, TidyInv, CloseFiles
    PROVE  TidyInv'
<1> SUFFICES ASSUME Spotless' PROVE TidyInv'
    BY DEF TidyInv
<1> USE DEF CloseFiles, disk, database, Goto, Fail, RemoveAll, NeverActivated, NoFileStage
<1>1. TypeOK /\ ~Breaks /\ ~LosesAck /\ faults' # faults + 2
    BY SpotlessSteps DEF IInv
<1>2. Spotless
    BY <1>1, SpotlessSteps DEF IInv, Works
<1>3. (pc \in {"rollbackFiles", "rollbackDatabase", "dropFailed"} => ~fileStage.activated)'
    BY <1>1, <1>2 DEF IInv, TypeOK, GenerationInv, TidyInv
<1>4. ASSUME NEW i \in Id PROVE schema'[i] # "absent" => SchemaWanted(i)'
    BY <1>1, <1>2, IdIsNat DEF IInv, TypeOK, SchemaInv, TidyInv, Wanted, SchemaWanted, Cutover
<1>5. ASSUME NEW i \in Id PROVE generation'[i] # "absent" => GenerationWanted(i)'
    BY <1>1, <1>2, IdIsNat DEF IInv, TypeOK, GenerationInv, OutcomeInv, TidyInv, Wanted, GenerationWanted, Cutover
<1> QED
    BY <1>3, <1>4, <1>5 DEF TidyInv, Wanted

LEMMA CloseDatabaseTidy ==
    ASSUME IInv, TidyInv, CloseDatabase
    PROVE  TidyInv'
<1> SUFFICES ASSUME Spotless' PROVE TidyInv'
    BY DEF TidyInv
<1> USE DEF CloseDatabase, disk, database, Goto, Fail, Drop, NoDbStage, Unlock, Return
<1>1. TypeOK /\ ~Breaks /\ ~LosesAck /\ faults' # faults + 2
    BY SpotlessSteps DEF IInv
<1>2. Spotless
    BY <1>1, SpotlessSteps DEF IInv, Works
<1>3. (pc \in {"rollbackFiles", "rollbackDatabase", "dropFailed"} => ~fileStage.activated)'
    BY <1>1, <1>2 DEF IInv, TypeOK, GenerationInv, TidyInv
<1>4. ASSUME NEW i \in Id PROVE schema'[i] # "absent" => SchemaWanted(i)'
    BY <1>1, <1>2, IdIsNat DEF IInv, TypeOK, SchemaInv, TidyInv, Wanted, SchemaWanted, Cutover
<1>5. ASSUME NEW i \in Id PROVE generation'[i] # "absent" => GenerationWanted(i)'
    BY <1>1, <1>2, IdIsNat DEF IInv, TypeOK, GenerationInv, OutcomeInv, TidyInv, Wanted, GenerationWanted, Cutover
<1> QED
    BY <1>3, <1>4, <1>5 DEF TidyInv, Wanted

LEMMA CancelTidy ==
    ASSUME IInv, TidyInv, Cancel
    PROVE  TidyInv'
<1> SUFFICES ASSUME Spotless' PROVE TidyInv'
    BY DEF TidyInv
<1> USE DEF Cancel, disk, database, Goto, Fail
<1>1. TypeOK /\ ~Breaks /\ ~LosesAck /\ faults' # faults + 2
    BY SpotlessSteps DEF IInv
<1>2. Spotless
    BY <1>1, SpotlessSteps DEF IInv, Works
<1>3. (pc \in {"rollbackFiles", "rollbackDatabase", "dropFailed"} => ~fileStage.activated)'
    BY <1>1, <1>2 DEF IInv, TypeOK, GenerationInv, TidyInv
<1>4. ASSUME NEW i \in Id PROVE schema'[i] # "absent" => SchemaWanted(i)'
    BY <1>1, <1>2, IdIsNat DEF IInv, TypeOK, SchemaInv, TidyInv, Wanted, SchemaWanted, Cutover
<1>5. ASSUME NEW i \in Id PROVE generation'[i] # "absent" => GenerationWanted(i)'
    BY <1>1, <1>2, IdIsNat DEF IInv, TypeOK, GenerationInv, OutcomeInv, TidyInv, Wanted, GenerationWanted, Cutover
<1> QED
    BY <1>3, <1>4, <1>5 DEF TidyInv, Wanted

LEMMA ExitTidy ==
    ASSUME IInv, TidyInv, Exit
    PROVE  TidyInv'
<1> SUFFICES ASSUME Spotless' PROVE TidyInv'
    BY DEF TidyInv
<1> USE DEF Exit, disk, database, Goto, Fail, ProcessEnds, NoDbStage, NoFileStage
<1>1. TypeOK /\ ~Breaks /\ ~LosesAck /\ faults' # faults + 2
    BY SpotlessSteps DEF IInv
<1>2. Spotless
    BY <1>1, SpotlessSteps DEF IInv, Works
<1>3. (pc \in {"rollbackFiles", "rollbackDatabase", "dropFailed"} => ~fileStage.activated)'
    BY <1>1, <1>2 DEF IInv, TypeOK, GenerationInv, TidyInv
<1>4. ASSUME NEW i \in Id PROVE schema'[i] # "absent" => SchemaWanted(i)'
    BY <1>1, <1>2, IdIsNat DEF IInv, TypeOK, SchemaInv, TidyInv, Wanted, SchemaWanted, Cutover
<1>5. ASSUME NEW i \in Id PROVE generation'[i] # "absent" => GenerationWanted(i)'
    BY <1>1, <1>2, IdIsNat DEF IInv, TypeOK, GenerationInv, OutcomeInv, TidyInv, Wanted, GenerationWanted, Cutover
<1> QED
    BY <1>3, <1>4, <1>5 DEF TidyInv, Wanted

LEMMA StepTidy == IInv /\ TidyInv /\ [Next]_vars => TidyInv'
<1> SUFFICES ASSUME IInv, TidyInv, [Next]_vars PROVE TidyInv'
    OBVIOUS
<1>1. CASE StartRestore
    BY <1>1, StartRestoreTidy
<1>2. CASE Validate
    BY <1>2, ValidateTidy
<1>3. CASE BeginDatabase
    BY <1>3, BeginDatabaseTidy
<1>4. CASE LoadAndUpgrade
    BY <1>4, LoadAndUpgradeTidy
<1>5. CASE BeginFiles
    BY <1>5, BeginFilesTidy
<1>6. CASE PutFiles
    BY <1>6, PutFilesTidy
<1>7. CASE ActivateDatabase
    BY <1>7, ActivateDatabaseTidy
<1>8. CASE ActivateFiles
    BY <1>8, ActivateFilesTidy
<1>9. CASE RollbackFiles
    BY <1>9, RollbackFilesTidy
<1>10. CASE RollbackDatabase
    BY <1>10, RollbackDatabaseTidy
<1>11. CASE DropFailed
    BY <1>11, DropFailedTidy
<1>12. CASE FinishDatabase
    BY <1>12, FinishDatabaseTidy
<1>13. CASE FinishFiles
    BY <1>13, FinishFilesTidy
<1>14. CASE CloseFiles
    BY <1>14, CloseFilesTidy
<1>15. CASE CloseDatabase
    BY <1>15, CloseDatabaseTidy
<1>16. CASE Cancel
    BY <1>16, CancelTidy
<1>17. CASE Exit
    BY <1>17, ExitTidy
<1>18. CASE Crash
    BY <1>18, SpotlessSteps DEF IInv, TidyInv
<1>19. CASE UNCHANGED vars
    BY <1>19 DEF vars, TidyInv, Spotless, Wanted, SchemaWanted, GenerationWanted, Cutover
<1> QED
    BY <1>1, <1>2, <1>3, <1>4, <1>5, <1>6, <1>7, <1>8, <1>9, <1>10, <1>11, <1>12, <1>13, <1>14, <1>15, <1>16, <1>17, <1>18, <1>19
       DEF Next, RestoreStep

(* Restores that meet no failing call and no crash leave nothing behind:   *)
(* once they are over, the only schema of theirs is the one called public  *)
(* and the only generation the one the link names, whether the restore     *)
(* succeeded, was refused or was interrupted by a shutdown.                *)
THEOREM NothingIsLeft == Spec => []NothingLeftBehind
<1>1. Init => TidyInv
    <2>1. 0 \in Id
        BY RestoreAssumption DEF Id
    <2> QED
        BY <2>1 DEF Init, TidyInv, Wanted, SchemaWanted, GenerationWanted
<1>2. IInv /\ TidyInv => NothingLeftBehind
    <2> SUFFICES ASSUME IInv, TidyInv, pc = "idle", Spotless, NEW i \in Id
                 PROVE  /\ schema[i] # "absent" => i = Public
                        /\ generation[i] # "absent" => i = current
        BY DEF NothingLeftBehind, Spotless
    <2>1. PICK p \in Id : IsPublic(p)
        BY DEF IInv
    <2>2. Public = p
        BY <2>1, PublicIsUnique DEF IInv
    <2>3. Wanted(i)
        BY DEF TidyInv
    <2> QED
        BY <2>1, <2>2, <2>3 DEF Wanted, SchemaWanted, GenerationWanted, IsPublic, Cutover
<1> QED
    BY <1>1, <1>2, Invariance, StepTidy, PTL DEF Spec

-----------------------------------------------------------------------------
LEMMA SumIsMonotone ==
    \A a, b, c, d \in Nat : a <= c /\ b <= d /\ c + d <= 1 => a + b <= 1
OBVIOUS

(* What a step shows of itself, the excuse aside.                          *)
Seen == <<IF pc \in Cutover THEN dbStage.previous ELSE Public,
          IF pc \in Cutover THEN fileStage.previous ELSE current, run, result>>

LEMMA StepImplements ==
    ASSUME Inv, Inv', Next, InBounds'
    PROVE  ~Excused /\ ~Excused' /\ (Atomic!Promised \/ UNCHANGED Seen)
<1> USE DEF Atomic!Promised, Seen, Atomic!Attempt, Atomic!Switch,
        Atomic!Succeed, Atomic!Refuse, Atomic!Lose
<1>1. PICK p \in Id : IsPublic(p)
    BY DEF Inv, IInv
<1>2. Public = p
    BY <1>1, PublicIsUnique DEF Inv, IInv
<1>3. PICK q \in Id : IsPublic(q)'
    BY DEF Inv, IInv
<1>4. Public' = q
    BY <1>3 DEF Public, IsPublic
<1>5. InBounds
    <2>1. faults \in Nat /\ cancels \in Nat
        BY DEF Inv, IInv, TypeOK
    <2>2. Works \/ Breaks \/ Interrupted \/ LosesAck \/ TwoBreaks \/ Cancel \/ Crash
        BY DEF Next, RestoreStep, StartRestore, Validate,
           BeginDatabase, LoadAndUpgrade, BeginFiles, PutFiles, ActivateDatabase,
           ActivateFiles, RollbackFiles, RollbackDatabase, DropFailed,
           FinishDatabase, FinishFiles, RemoveAll, CloseFiles, CloseDatabase, Exit,
           TwoBreaks, Works
    <2>3. faults <= faults' /\ cancels <= cancels'
        BY <2>1, <2>2 DEF Works, Breaks, Interrupted, LosesAck, TwoBreaks, Cancel,
           Crash, budget
    <2>4. (ackLost => ackLost') /\ (torn => torn')
        <3>1. CASE Works \/ Interrupted
            BY <3>1 DEF Works, Interrupted, budget
        <3>2. CASE Breaks \/ TwoBreaks \/ Cancel
            BY <3>2 DEF Breaks, TwoBreaks, Cancel
        <3>3. CASE LosesAck
            BY <3>3 DEF LosesAck
        <3>4. CASE Crash
            BY <3>4 DEF Crash
        <3> QED
            BY <2>2, <3>1, <3>2, <3>3, <3>4
    <2>5. faults' \in Nat /\ cancels' \in Nat
        BY DEF Inv, IInv, TypeOK
    <2>6. faults + cancels <= 1
        <3>1. faults' + cancels' <= 1
            BY DEF InBounds, OneTrouble
        <3> QED
            BY <2>1, <2>3, <2>5, <3>1, SumIsMonotone
    <2> QED
        BY <2>4, <2>6 DEF InBounds, OneTrouble
<1>5a. ~Excused /\ ~Excused'
    BY <1>5 DEF Excused
<1> SUFFICES Atomic!Promised \/ UNCHANGED Seen
    BY <1>5a
<1> USE <1>2, <1>4
<1>6. CASE UNCHANGED <<schema, ready, current, dbStage, fileStage, run, result>>
      /\ (pc \in Cutover <=> pc' \in Cutover)
    BY <1>6 DEF Public
<1>7. CASE StartRestore
    BY <1>7 DEF StartRestore, Goto, database, disk, Cutover, Public, Inv, IInv, OutcomeInv
<1>8. CASE Validate
    BY <1>8, <1>1 DEF Validate, Goto, Cutover, database, disk, Public, Inv, IInv, TypeOK, SchemaInv,
       GenerationInv, OutcomeInv, IsPublic
<1>9. CASE BeginDatabase
    BY <1>9, <1>1, <1>3 DEF BeginDatabase, Goto, Fail, Cutover, disk, Inv, IInv, TypeOK,
       SchemaInv, GenerationInv, OutcomeInv, IsPublic
<1>10. CASE LoadAndUpgrade
    BY <1>10 DEF LoadAndUpgrade, Goto, Fail, Cutover, disk, Public
<1>11. CASE BeginFiles
    BY <1>11 DEF BeginFiles, Goto, Fail, Cutover, database, Public
<1>12. CASE PutFiles
    BY <1>12 DEF PutFiles, Goto, Fail, Cutover, database, Public
<1>13. CASE ActivateDatabase
    BY <1>13, <1>5 DEF ActivateDatabase, AfterDatabase, Goto, Fail, Cutover, disk,
       Public, Inv, IInv, GenerationInv, LosesAck, InBounds, OneTrouble
<1>14. CASE ActivateFiles
    BY <1>14, <1>1, <1>3 DEF ActivateFiles, LinkReadBack, FailedSwitch, Goto, Fail, Cutover,
       database, Inv, IInv, TypeOK, SchemaInv, GenerationInv, OutcomeInv, IsPublic
<1>15. CASE RollbackFiles
    BY <1>15 DEF RollbackFiles, Goto, Cutover, database, Public, Inv, IInv, TypeOK
<1>16. CASE RollbackDatabase
    <2>1. ~Breaks /\ ~LosesAck
        <3>1. faults \in Nat /\ cancels \in Nat /\ faults + cancels > 0
            BY <1>16 DEF RollbackDatabase, Inv, IInv, TypeOK, OutcomeInv, TroubleInv
        <3>2. ASSUME faults' = faults + 1, cancels' = cancels PROVE FALSE
            BY <3>1, <3>2 DEF InBounds, OneTrouble
        <3> QED
            BY <3>2 DEF Breaks, LosesAck
    <2>2. /\ current = fileStage.previous
          /\ dbStage.previous \in Id
          /\ schema[run] = "public" /\ dbStage.previous # run
          /\ run \in Id
        BY <1>16, <1>5 DEF RollbackDatabase, InBounds, Inv, IInv, TypeOK, SchemaInv, TroubleInv,
           SettledInv, Cutover
    <2>3. q = dbStage.previous
        BY <1>16, <1>1, <1>3, <2>1, <2>2 DEF RollbackDatabase, SchemaSwappedBack, Inv, IInv, TypeOK,
           IsPublic
    <2> QED
        BY <1>16, <2>1, <2>2, <2>3 DEF RollbackDatabase, Goto, Cutover, disk
<1>17. CASE DropFailed
    BY <1>17, <1>1, <1>3 DEF DropFailed, Drop, Goto, Cutover, disk, database, Inv, IInv, TypeOK,
       SchemaInv, IsPublic
<1>18. CASE FinishDatabase
    BY <1>18, <1>1, <1>3 DEF FinishDatabase, Drop, Goto, Cutover, disk, database, Inv, IInv, TypeOK,
       SchemaInv, IsPublic
<1>19. CASE FinishFiles
    BY <1>19 DEF FinishFiles, Goto, Cutover, database, Public
<1>20. CASE CloseFiles
    BY <1>20 DEF CloseFiles, Goto, Cutover, database, Public
<1>21. CASE CloseDatabase
    <2>1. p = q
        BY <1>21, <1>1, <1>3 DEF CloseDatabase, Drop, database, Inv, IInv, TypeOK, IsPublic
    <2>2. current' = current /\ run' = run /\ pc = "closeDatabase" /\ pc' = "idle"
        BY <1>21 DEF CloseDatabase, disk, Return
    <2>3. result = "running"
        BY <2>2 DEF Inv, IInv, OutcomeInv
    <2>4. CASE failing
        BY <2>1, <2>2, <2>3, <2>4, <1>1, <1>5, <1>21 DEF CloseDatabase, Return, Cutover, Inv,
           TroubleInv, SettledInv, InBounds, IsPublic
    <2>5. CASE ~failing
        BY <2>1, <2>2, <2>3, <2>5, <1>1, <1>21 DEF CloseDatabase, Return, Cutover, Inv, IInv,
           TypeOK, OutcomeInv, IsPublic
    <2> QED
        BY <2>4, <2>5
<1>22. CASE Cancel
    BY <1>22 DEF Cancel, Cutover, database, disk, Public
<1>23. CASE Exit
    BY <1>23 DEF Exit, ProcessEnds, Cutover, database, disk, Public
<1>24. CASE Crash
    <2>1. pc \notin Cutover
        BY <1>24 DEF Crash, InBounds
    <2> QED
        BY <1>24, <2>1 DEF Crash, ProcessEnds, Cutover, database, disk, Public, Inv, IInv,
           OutcomeInv
<1> QED
    BY <1>7, <1>8, <1>9, <1>10, <1>11, <1>12, <1>13, <1>14, <1>15, <1>16,
       <1>17, <1>18, <1>19, <1>20, <1>21, <1>22, <1>23, <1>24 DEF Next, RestoreStep

(* The staged restore implements the atomic one: every step of it is a     *)
(* step of AtomicRestore or changes nothing a reader sees, until a second  *)
(* thing goes wrong or the process dies between the two switches.          *)
THEOREM StagedImplementsAtomic == Spec => Atomic!AtomicSpec
<1>1. Init => Atomic!AtomicInit
    <2> SUFFICES ASSUME Init PROVE Atomic!AtomicInit
        OBVIOUS
    <2>1. 0 \in Id
        BY RestoreAssumption DEF Id
    <2>2. Public = 0
        BY <2>1, InitIInv, PublicIsUnique DEF Init, Public
    <2>3. Excused = FALSE
        BY DEF Init, Excused, InBounds, OneTrouble
    <2> QED
        BY <2>2, <2>3 DEF Init, Atomic!AtomicInit, Cutover
<1>2. Inv /\ Inv' /\ [Next]_vars => [Atomic!AtomicNext]_(Atomic!avars)
    <2> SUFFICES ASSUME Inv, Inv', [Next]_vars
                 PROVE  [Atomic!AtomicNext]_(Atomic!avars)
        OBVIOUS
    <2>1. CASE UNCHANGED vars
        <3>1. UNCHANGED Excused
            BY <2>1 DEF vars, Excused, InBounds, OneTrouble
        <3> QED
            BY <2>1, <3>1 DEF vars, Atomic!avars, Public
    <2>2. CASE Next /\ ~InBounds'
        BY <2>2 DEF Excused, Atomic!AtomicNext
    <2>3. CASE Next /\ InBounds'
        <3>1. ~Excused /\ ~Excused' /\ (Atomic!Promised \/ UNCHANGED Seen)
            BY <2>3, StepImplements
        <3>2. Excused \in BOOLEAN /\ Excused' \in BOOLEAN
            BY DEF Excused
        <3>3. CASE Atomic!Promised
            BY <3>1, <3>3 DEF Atomic!AtomicNext
        <3>4. CASE UNCHANGED Seen
            BY <3>1, <3>2, <3>4 DEF Seen, Atomic!avars
        <3> QED
            BY <3>1, <3>3, <3>4
    <2> QED
        BY <2>1, <2>2, <2>3
<1> QED
    BY <1>1, <1>2, InvInvariance, PTL DEF Spec, Atomic!AtomicSpec

-----------------------------------------------------------------------------
(***************************************************************************)
(* The safety of the restore gate for any number of requests, background   *)
(* workers, backup configurations and restores.  The invariant that makes  *)
(* it inductive says who owns what at each step of a restore's goroutine:  *)
(* the slot from start to end, the hold on backups until they are resumed, *)
(* the gate from the moment it is asked for until it is unlocked.          *)
(***************************************************************************)
Active == JobStates \ {"none", "done"}
Holding == Active \ {"resumed"}
Gated == {"locking", "restoring", "leaving", "renewed"}
Alone == {"restoring", "leaving", "renewed"}

SlotIsTaken == \A r \in Restores : job[r] \in Active => slot
BackupsAreHeld == \A r \in Restores : job[r] \in Holding => held
HeldMeansNone == held => active = {}
GateIsAskedFor == \A r \in Restores : job[r] \in Gated => writer = r
NobodyReads == \A r \in Restores : job[r] \in Alone => Readers = {}
TiedToNow == \A w \in Work : work[w].at = "working" => work[w].tied = serving
StoppedByOne == stopped => \E r \in Restores : job[r] \in {"stopped", "locking", "restoring", "leaving"}

GateInv ==
    /\ GateTypeOK /\ OneRestoreAtATime
    /\ SlotIsTaken /\ BackupsAreHeld /\ HeldMeansNone
    /\ GateIsAskedFor /\ NobodyReads /\ TiedToNow /\ StoppedByOne

-----------------------------------------------------------------------------
LEMMA GateInitHolds == GateInit => GateInv
<1> SUFFICES ASSUME GateInit PROVE GateInv
  OBVIOUS
<1> USE DEF GateInit, Away
<1>1. GateTypeOK
  BY DEF GateTypeOK, JobStates
<1>2. Readers = {}
  BY DEF Readers
<1> QED
  BY <1>1, <1>2 DEF GateInv, OneRestoreAtATime, SlotIsTaken, BackupsAreHeld, HeldMeansNone,
     GateIsAskedFor, NobodyReads, TiedToNow, StoppedByOne, Active, Holding, Gated, Alone

(* Steps of requests and background work leave the restores alone.         *)
LEMMA WorkSteps ==
    ASSUME GateInv, NEW w \in Work,
           \/ w \in Requests /\ RequireAvailable(w)
           \/ w \in Background /\ InBackground(w)
           \/ TieToServing(w)
           \/ EndWork(w)
    PROVE  GateInv'
<1> USE DEF GateInv
<1>1. UNCHANGED <<writer, locked, serving, stopped, slot, held, active, job>>
  BY DEF RequireAvailable, InBackground, TieToServing, EndWork, gate, restore
<1>2. PICK s \in {Away, Waiting, Admitted, [at |-> "working", tied |-> serving]} :
        /\ work' = [work EXCEPT ![w] = s]
        /\ \/ s.at \notin {"admitted", "working"} \/ writer = "none" \/ w \in Readers
  BY DEF RequireAvailable, InBackground, RLock, TieToServing, EndWork, Readers, Away, Admitted, Waiting
<1>3. GateTypeOK'
  BY <1>1, <1>2 DEF GateTypeOK, Away, Waiting, Admitted
<1>4. Readers' \subseteq Readers \/ writer = "none"
  BY <1>2 DEF Readers, GateTypeOK
<1>5. GateIsAskedFor'
  BY <1>1 DEF GateIsAskedFor
<1>6. NobodyReads'
  BY <1>1, <1>4, <1>5, GateAssumption DEF NobodyReads, GateIsAskedFor, Alone, Gated
<1>7. TiedToNow'
  BY <1>1, <1>2 DEF TiedToNow, GateTypeOK, Away, Waiting, Admitted
<1> QED
  BY <1>1, <1>3, <1>5, <1>6, <1>7 DEF OneRestoreAtATime, SlotIsTaken, BackupsAreHeld, HeldMeansNone, StoppedByOne

(* Backups are claimed only while none is held.                            *)
LEMMA BackupSteps ==
    ASSUME GateInv, NEW c \in Backups, ClaimBackup(c) \/ ReleaseBackup(c)
    PROVE  GateInv'
<1> USE DEF GateInv
<1>1. UNCHANGED <<work, writer, locked, serving, stopped, slot, held, job>>
  BY DEF ClaimBackup, ReleaseBackup, gate
<1>2. GateTypeOK'
  BY <1>1 DEF GateTypeOK, ClaimBackup, ReleaseBackup
<1>3. HeldMeansNone'
  BY <1>1 DEF HeldMeansNone, ClaimBackup, ReleaseBackup
<1> QED
  BY <1>1, <1>2, <1>3 DEF OneRestoreAtATime, SlotIsTaken, BackupsAreHeld, GateIsAskedFor, NobodyReads,
     Readers, TiedToNow, StoppedByOne

(* A step of one restore changes no other, and while it runs all the       *)
(* others have not begun or are over.                                      *)
LEMMA OthersRest ==
    ASSUME GateInv, NEW r \in Restores, job[r] \in Active, NEW q \in Restores, q # r
    PROVE  job[q] \in {"none", "done"}
BY DEF GateInv, GateTypeOK, OneRestoreAtATime, Active, JobStates

LEMMA Accepted ==
    ASSUME GateInv, NEW r \in Restores, AcceptRestore(r)
    PROVE  GateInv'
<1> USE DEF GateInv
<1>1. /\ job[r] = "none" /\ job' = [job EXCEPT ![r] = "entering"]
      /\ ~slot /\ slot' /\ active = {} /\ held' = TRUE
      /\ UNCHANGED <<work, writer, locked, serving, stopped, active>>
  BY DEF AcceptRestore, SlotIsFree, HoldForRestore, gate
<1>2. \A q \in Restores : job[q] \in {"none", "done"}
  BY <1>1 DEF SlotIsTaken, Active, GateTypeOK
<1>3. GateTypeOK'
  BY <1>1 DEF GateTypeOK, AcceptRestore, JobStates
<1>4. \A q \in Restores : job'[q] \in {"none", "done"} \/ (q = r /\ job'[q] = "entering")
  BY <1>1, <1>2 DEF GateTypeOK
<1>5. OneRestoreAtATime'
  BY <1>4 DEF OneRestoreAtATime
<1>6. StoppedByOne'
  BY <1>1, <1>2 DEF StoppedByOne
<1> QED
  BY <1>1, <1>3, <1>4, <1>5, <1>6 DEF SlotIsTaken, BackupsAreHeld, HeldMeansNone, GateIsAskedFor,
     NobodyReads, TiedToNow, Gated, Alone, Holding, Active, JobStates

(* Steps of a restore up to the unlocking of the gate keep the slot, the   *)
(* hold and the backups as they are.                                       *)
LEMMA Underway ==
    ASSUME GateInv, NEW r \in Restores,
           \/ StopsServing(r) \/ AsksForGate(r) \/ EnterMaintenance(r) \/ RestoreDone(r)
           \/ RenewsServing(r) \/ LeaveMaintenance(r)
    PROVE  /\ job[r] \in Active
           /\ \E s \in Holding : job' = [job EXCEPT ![r] = s]
           /\ UNCHANGED <<slot, held, active>>
           /\ OneRestoreAtATime' /\ SlotIsTaken' /\ BackupsAreHeld' /\ HeldMeansNone'
<1> USE DEF GateInv
<1>1. UNCHANGED <<slot, held, active>>
  BY DEF StopsServing, AsksForGate, EnterMaintenance, RestoreDone, RenewsServing, LeaveMaintenance
<1>2. job[r] \in Holding /\ \E s \in Holding : job' = [job EXCEPT ![r] = s]
  BY DEF StopsServing, AsksForGate, EnterMaintenance, RestoreDone, RenewsServing, LeaveMaintenance,
     Holding, Active, JobStates
<1>3. \A q \in Restores : q # r => job[q] \in {"none", "done"}
  BY <1>2, OthersRest DEF Holding
<1>4. \A q \in Restores : q # r => job'[q] = job[q]
  BY <1>2 DEF GateTypeOK
<1>5. OneRestoreAtATime'
  BY <1>3, <1>4 DEF OneRestoreAtATime
<1>6. slot /\ held
  BY <1>2 DEF SlotIsTaken, BackupsAreHeld, Holding
<1> QED
  BY <1>1, <1>2, <1>5, <1>6 DEF SlotIsTaken, BackupsAreHeld, HeldMeansNone, Holding

LEMMA Stopping ==
    ASSUME GateInv, NEW r \in Restores, StopsServing(r) \/ AsksForGate(r)
    PROVE  GateInv'
<1> USE DEF GateInv
<1>1. UNCHANGED <<work, locked, serving>>
  BY DEF StopsServing, AsksForGate
<1>2. \/ job[r] = "entering" /\ job' = [job EXCEPT ![r] = "stopped"] /\ writer' = writer /\ stopped'
      \/ /\ job[r] = "stopped" /\ job' = [job EXCEPT ![r] = "locking"] /\ writer' = r
         /\ stopped' = stopped
  BY DEF StopsServing, StopServing, AsksForGate
<1>3. \A q \in Restores : q # r => job'[q] = job[q] /\ job[q] \in {"none", "done"}
  BY <1>2, OthersRest DEF GateTypeOK, Active, JobStates
<1>4. job'[r] \in {"stopped", "locking"}
  BY <1>2 DEF GateTypeOK
<1>5. GateTypeOK'
  BY <1>1, <1>2, Underway DEF GateTypeOK, StopsServing, StopServing, AsksForGate, JobStates
<1>6. GateIsAskedFor' /\ NobodyReads'
  BY <1>1, <1>2, <1>3, <1>4 DEF GateIsAskedFor, NobodyReads, Gated, Alone, GateTypeOK
<1>7. TiedToNow' /\ StoppedByOne'
  BY <1>1, <1>4 DEF TiedToNow, StoppedByOne
<1> QED
  BY <1>5, <1>6, <1>7, Underway

LEMMA Restoring ==
    ASSUME GateInv, NEW r \in Restores, EnterMaintenance(r) \/ RestoreDone(r)
    PROVE  GateInv'
<1> USE DEF GateInv
<1>1. UNCHANGED <<work, writer, serving, stopped>> /\ locked' \in BOOLEAN
  BY DEF EnterMaintenance, RestoreDone, gate, GateTypeOK
<1>2. /\ job[r] \in {"locking", "restoring"} /\ Readers = {} /\ writer = r
      /\ \E s \in {"restoring", "leaving"} : job' = [job EXCEPT ![r] = s]
  BY DEF EnterMaintenance, RestoreDone, NobodyReads, GateIsAskedFor, Gated, Alone
<1>3. \A q \in Restores : q # r => job'[q] = job[q] /\ job[q] \in {"none", "done"}
  BY <1>2, OthersRest DEF GateTypeOK, Active, JobStates
<1>4. job'[r] \in {"restoring", "leaving"} /\ job' \in [Restores -> JobStates]
  BY <1>2 DEF GateTypeOK, JobStates
<1>5. GateTypeOK'
  BY <1>1, <1>4, Underway DEF GateTypeOK
<1>6. GateIsAskedFor' /\ NobodyReads'
  BY <1>1, <1>2, <1>3, <1>4 DEF GateIsAskedFor, NobodyReads, Gated, Alone, Readers
<1>7. TiedToNow' /\ StoppedByOne'
  BY <1>1, <1>4 DEF TiedToNow, StoppedByOne
<1> QED
  BY <1>5, <1>6, <1>7, Underway

(* The fresh context is there before anybody is let in.                    *)
LEMMA Leaving ==
    ASSUME GateInv, NEW r \in Restores, RenewsServing(r) \/ LeaveMaintenance(r)
    PROVE  GateInv'
<1> USE DEF GateInv
<1>1. \/ /\ job[r] = "leaving" /\ job' = [job EXCEPT ![r] = "renewed"]
         /\ serving' = serving + 1 /\ ~stopped'
         /\ UNCHANGED <<work, writer, locked>>
      \/ /\ job[r] = "renewed" /\ job' = [job EXCEPT ![r] = "resuming"]
         /\ UNCHANGED <<serving, stopped>>
         /\ writer' = "none" /\ ~locked'
         /\ work' = [w \in Work |-> IF work[w].at = "waiting" THEN Admitted ELSE work[w]]
  BY DEF RenewsServing, FreshServing, LeaveMaintenance
<1>2. Readers = {}
  BY <1>1 DEF NobodyReads, Alone
<1>3. \A q \in Restores : q # r => job'[q] = job[q] /\ job[q] \in {"none", "done"}
  BY <1>1, OthersRest DEF GateTypeOK, Active, JobStates
<1>4. \A w \in Work : work[w].at # "working" /\ work'[w].at # "working"
  BY <1>1, <1>2 DEF Readers, Admitted
<1>5. GateTypeOK'
  <2>1. work' \in [Work -> [at : {"away", "waiting", "admitted", "working"}, tied : Nat]]
    BY <1>1 DEF GateTypeOK, Admitted
  <2>2. /\ writer' \in Restores \cup {"none"} /\ serving' \in Nat
        /\ job' \in [Restores -> JobStates]
    BY <1>1 DEF GateTypeOK, JobStates
  <2>3. locked' \in BOOLEAN /\ stopped' \in BOOLEAN
    BY DEF RenewsServing, FreshServing, LeaveMaintenance, GateTypeOK
  <2> QED
    BY <2>1, <2>2, <2>3, Underway DEF GateTypeOK
<1>6. GateIsAskedFor' /\ NobodyReads'
  <2>1. CASE job[r] = "leaving"
    BY <2>1, <1>1, <1>2, <1>3 DEF GateIsAskedFor, NobodyReads, Gated, Alone, Readers, GateTypeOK
  <2>2. CASE job[r] = "renewed"
    BY <2>2, <1>1, <1>3 DEF GateIsAskedFor, NobodyReads, Gated, Alone, GateTypeOK
  <2> QED
    BY <1>1, <2>1, <2>2
<1>7. TiedToNow'
  BY <1>4 DEF TiedToNow
<1>8. StoppedByOne'
  <2>1. CASE job[r] = "leaving"
    BY <2>1, <1>1 DEF StoppedByOne
  <2>2. CASE job[r] = "renewed"
    <3>1. \A q \in Restores : job[q] \notin {"stopped", "locking", "restoring", "leaving"}
      BY <2>2, <1>3
    <3> QED
      BY <2>2, <3>1, <1>1 DEF StoppedByOne
  <2> QED
    BY <1>1, <2>1, <2>2
<1> QED
  BY <1>5, <1>6, <1>7, <1>8, Underway

(* Backups first, then the slot.                                           *)
LEMMA WindingUp ==
    ASSUME GateInv, NEW r \in Restores, WindUp(r)
    PROVE  GateInv'
<1> USE DEF GateInv
<1>1. /\ UNCHANGED <<work, writer, locked, serving, stopped, active>>
      /\ \/ job[r] = "resuming" /\ ~held' /\ slot' = slot /\ job' = [job EXCEPT ![r] = "resumed"]
         \/ job[r] = "resumed" /\ ~slot' /\ held' = held /\ job' = [job EXCEPT ![r] = "done"]
  BY DEF WindUp, Winds, gate
<1>2. \A q \in Restores : q # r => job'[q] = job[q] /\ job[q] \in {"none", "done"}
  BY <1>1, OthersRest DEF GateTypeOK, Active, JobStates
<1>3. job'[r] \in {"resumed", "done"} /\ job' \in [Restores -> JobStates]
  BY <1>1 DEF GateTypeOK, JobStates
<1>4. GateTypeOK'
  BY <1>1, <1>3 DEF GateTypeOK, WindUp, Winds
<1>5. OneRestoreAtATime' /\ BackupsAreHeld' /\ GateIsAskedFor' /\ NobodyReads'
  BY <1>2, <1>3 DEF OneRestoreAtATime, BackupsAreHeld, GateIsAskedFor, NobodyReads,
     Holding, Active, Gated, Alone
<1>6. SlotIsTaken'
  BY <1>1, <1>2, <1>3 DEF SlotIsTaken, Active, GateTypeOK
<1>7. HeldMeansNone' /\ TiedToNow'
  BY <1>1 DEF HeldMeansNone, TiedToNow
<1>8. \A q \in Restores : job[q] \notin {"stopped", "locking", "restoring", "leaving"}
  BY <1>1, <1>2
<1>9. StoppedByOne'
  BY <1>1, <1>8 DEF StoppedByOne
<1> QED
  BY <1>4, <1>5, <1>6, <1>7, <1>9

LEMMA GateStepHolds == GateInv /\ [GateNext]_gateVars => GateInv'
<1> SUFFICES ASSUME GateInv, [GateNext]_gateVars PROVE GateInv'
  OBVIOUS
<1>1. CASE \E w \in Work : \/ w \in Requests /\ RequireAvailable(w)
                           \/ w \in Background /\ InBackground(w)
                           \/ TieToServing(w) \/ EndWork(w)
  BY <1>1, WorkSteps
<1>2. CASE \E r \in Restores : AcceptRestore(r)
  BY <1>2, Accepted
<1>3. CASE \E r \in Restores : RestoreGoesOn(r)
  BY <1>3, Stopping, Restoring, Leaving, WindingUp DEF RestoreGoesOn
<1>4. CASE \E c \in Backups : ClaimBackup(c) \/ ReleaseBackup(c)
  BY <1>4, BackupSteps
<1>5. CASE UNCHANGED gateVars
  BY <1>5 DEF gateVars, GateInv, GateTypeOK, OneRestoreAtATime, SlotIsTaken, BackupsAreHeld, HeldMeansNone,
     GateIsAskedFor, NobodyReads, Readers, TiedToNow, StoppedByOne
<1> QED
  BY <1>1, <1>2, <1>3, <1>4, <1>5 DEF GateNext, Work

LEMMA GateInductive == GateSpec => []GateInv
BY GateInitHolds, GateStepHolds, PTL DEF GateSpec

-----------------------------------------------------------------------------
(* Every variable keeps its type.                                          *)
THEOREM GateTypeCorrect == GateSpec => []GateTypeOK
<1>1. GateInv => GateTypeOK
  BY DEF GateInv
<1> QED
  BY <1>1, GateInductive, PTL

LEMMA RestoreCancels ==
    ASSUME GateInv
    PROVE  OnlyARestoreCancels
<1> SUFFICES ASSUME NEW w \in Work, Cancelled(w)
             PROVE  \E r \in Restores : job[r] \in {"stopped", "locking"}
  BY DEF OnlyARestoreCancels
<1>1. w \in Readers /\ stopped
  BY DEF GateInv, Cancelled, TiedToNow, Readers, GateTypeOK
<1>2. PICK r \in Restores : job[r] \in {"stopped", "locking", "restoring", "leaving"}
  BY <1>1 DEF GateInv, StoppedByOne
<1>3. job[r] \notin {"restoring", "leaving"}
  BY <1>1 DEF GateInv, NobodyReads, Alone
<1> QED
  BY <1>2, <1>3

(* A restore shares the instance with no backup, no other restore and, at  *)
(* work on it, with no request and no background work, and cancels none    *)
(* but what it waits for.                                                  *)
THEOREM NobodySharesARestore == GateSpec => []MaintenanceIsExclusive
<1>1. ASSUME GateInv PROVE MaintenanceIsExclusive
  <2> USE <1>1 DEF GateInv
  <2>1. BackupsStayAway
    BY DEF BackupsStayAway, BackupsAreHeld, HeldMeansNone, Holding, Active, GateTypeOK
  <2>2. RestoreIsAlone
    BY DEF RestoreIsAlone, NobodyReads, Alone
  <2> QED
    BY <2>1, <2>2, <1>1, RestoreCancels DEF MaintenanceIsExclusive
<1> QED
  BY <1>1, GateInductive, PTL

(* Work is cancelled by a restore that waits for it, and by nothing else.  *)
THEOREM CancelledByARestore == GateSpec => []OnlyARestoreCancels
<1>1. GateInv => OnlyARestoreCancels
  BY RestoreCancels
<1> QED
  BY <1>1, GateInductive, PTL
=============================================================================
