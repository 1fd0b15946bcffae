---------------------------- MODULE AtomicRestore ----------------------------
(***************************************************************************)
(* What a whole-instance restore promises: the database and the files of   *)
(* the instance are replaced together or not at all, and the outcome that  *)
(* is reported says which - until more goes wrong than it makes good, from *)
(* when on nothing is promised.                                            *)
(***************************************************************************)
EXTENDS Naturals

VARIABLES
    database,  \* the restore the live database comes from
    files,     \* the restore the live files come from
    attempt,   \* how many restores were started
    outcome,   \* what the last one reported
    excused    \* whether more went wrong than it makes good

avars == <<database, files, attempt, outcome, excused>>

AtomicInit == database = 0 /\ files = 0 /\ attempt = 0 /\ outcome = "none" /\ excused = FALSE

Attempt ==
    /\ outcome # "running"
    /\ attempt' = attempt + 1
    /\ outcome' = "running"
    /\ UNCHANGED <<database, files>>

Switch ==
    /\ outcome = "running"
    /\ database' = attempt
    /\ files' = attempt
    /\ UNCHANGED <<attempt, outcome>>

Succeed ==
    /\ outcome = "running"
    /\ database = attempt /\ files = attempt
    /\ outcome' = "succeeded"
    /\ UNCHANGED <<database, files, attempt>>

Refuse ==
    /\ outcome = "running"
    /\ database # attempt /\ files # attempt
    /\ outcome' = "failed"
    /\ UNCHANGED <<database, files, attempt>>

(* The process dies, before the switch or after it.                        *)
Lose ==
    /\ outcome = "running"
    /\ outcome' = "lost"
    /\ UNCHANGED <<database, files, attempt>>

Promised == Attempt \/ Switch \/ Succeed \/ Refuse \/ Lose

(* What was promised, or anything once it is excused for good.             *)
AtomicNext == (Promised /\ ~excused /\ ~excused') \/ excused'

AtomicSpec == AtomicInit /\ [][AtomicNext]_avars

(* Every attempt is answered, excused or not.                              *)
Answer ==
    /\ outcome = "running"
    /\ outcome' \in {"succeeded", "failed", "lost"}
    /\ UNCHANGED <<database, files, attempt, excused>>

FairAtomicSpec == AtomicSpec /\ WF_avars(Answer)
=============================================================================
