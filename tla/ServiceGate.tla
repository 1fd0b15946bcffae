---------------------------- MODULE ServiceGate ----------------------------
(***************************************************************************)
(* What keeps the rest of the service out of a restore's way: restoreGate, *)
(* shared by API requests and background work and taken whole by a         *)
(* restore, the serving context that ends the work a restore would         *)
(* otherwise wait for, the single restore slot, and the hold on backups.   *)
(***************************************************************************)
EXTENDS Naturals, FiniteSets

CONSTANTS
    Requests,    \* API requests that may be in flight
    Background,  \* work of the service's own that goes through inBackground
    Backups,     \* backup configurations
    Restores     \* restores somebody may ask for, each once

ASSUME GateAssumption ==
    /\ Requests \cap Background = {}
    /\ "none" \notin Restores

Work == Requests \cup Background

VARIABLES
    work,         \* what each request and each background worker is doing
    writer,       \* the restore that asked for the gate exclusively
    locked,       \* ... and whether it has it
    serving,      \* the number of the serving context
    stopped,      \* that context has been cancelled
    slot,         \* restoreActive
    held,         \* Runner.restoring
    active,       \* Runner.active
    job           \* where the goroutine of each restore is

gateVars == <<work, writer, locked, serving, stopped, slot, held, active, job>>
gate == <<writer, locked, serving, stopped>>
restore == <<slot, held, active, job>>

Away == [at |-> "away", tied |-> 0]
Waiting == [at |-> "waiting", tied |-> 0]
Admitted == [at |-> "admitted", tied |-> 0]   \* has the gate, not yet a context

GateInit ==
    /\ work = [w \in Work |-> Away]
    /\ writer = "none" /\ locked = FALSE
    /\ serving = 1 /\ stopped = FALSE
    /\ slot = FALSE /\ held = FALSE /\ active = {}
    /\ job = [r \in Restores |-> "none"]

Readers == {w \in Work : work[w].at \in {"admitted", "working"}}

(* The context a piece of work runs under is over.                         *)
Cancelled(w) ==
    work[w].at = "working" /\ (work[w].tied < serving \/ stopped)

-----------------------------------------------------------------------------
(* requireAvailable: TryRLock fails once a restore has asked for the gate, *)
(* and the request is answered 503.                                        *)
RequireAvailable(r) ==
    /\ work[r].at = "away"
    /\ writer = "none"
    /\ work' = [work EXCEPT ![r] = Admitted]
    /\ UNCHANGED <<gate, restore>>

(* RLock: waits behind a restore that has asked for the gate.              *)
RLock(b) == work' = [work EXCEPT ![b] = IF writer = "none" THEN Admitted ELSE Waiting]

InBackground(b) ==
    /\ work[b].at = "away"
    /\ RLock(b)
    /\ UNCHANGED <<gate, restore>>

(* The serving context is looked up only now, after the gate.              *)
TieToServing(w) ==
    /\ work[w].at = "admitted"
    /\ work' = [work EXCEPT ![w] = [at |-> "working", tied |-> serving]]
    /\ UNCHANGED <<gate, restore>>

(* The work ends of its own accord or because its context did: RUnlock.    *)
EndWork(w) ==
    /\ work[w].at = "working"
    /\ work' = [work EXCEPT ![w] = Away]
    /\ UNCHANGED <<gate, restore>>

-----------------------------------------------------------------------------
HoldForRestore == active = {}

SlotIsFree == ~slot

(* startRestore, inside handleRestore: the slot, the hold on backups and   *)
(* the goroutine, all under restoreJobsMu.                                 *)
AcceptRestore(r) ==
    /\ job[r] = "none"
    /\ \E w \in Requests : work[w].at = "working"
    /\ SlotIsFree
    /\ HoldForRestore
    /\ slot' = TRUE
    /\ held' = TRUE
    /\ job' = [job EXCEPT ![r] = "entering"]
    /\ UNCHANGED <<work, gate, active>>

StopsNothing == UNCHANGED stopped

StopServing == stopped' = TRUE

(* enterMaintenance: every context in flight is cancelled ...              *)
StopsServing(r) ==
    /\ job[r] = "entering"
    /\ StopServing
    /\ job' = [job EXCEPT ![r] = "stopped"]
    /\ UNCHANGED <<work, writer, locked, serving, slot, held, active>>

(* ... and Lock is asked for, which turns newcomers away, ...              *)
AsksForGate(r) ==
    /\ job[r] = "stopped"
    /\ writer = "none"
    /\ writer' = r
    /\ job' = [job EXCEPT ![r] = "locking"]
    /\ UNCHANGED <<work, locked, serving, stopped, slot, held, active>>

(* ... and granted when the last reader has left.                          *)
EnterMaintenance(r) ==
    /\ job[r] = "locking"
    /\ writer = r /\ Readers = {}
    /\ locked' = TRUE
    /\ job' = [job EXCEPT ![r] = "restoring"]
    /\ UNCHANGED <<work, writer, serving, stopped, slot, held, active>>

(* The archive is restored, or the restore fails: either way it ends.      *)
RestoreDone(r) ==
    /\ job[r] = "restoring"
    /\ job' = [job EXCEPT ![r] = "leaving"]
    /\ UNCHANGED <<work, gate, slot, held, active>>

FreshServing == serving' = serving + 1 /\ stopped' = FALSE

(* leaveMaintenance: a fresh serving context first, ...                    *)
RenewsServing(r) ==
    /\ job[r] = "leaving"
    /\ FreshServing
    /\ job' = [job EXCEPT ![r] = "renewed"]
    /\ UNCHANGED <<work, writer, locked, slot, held, active>>

(* ... then Unlock, which lets the waiting readers in at once.             *)
LeaveMaintenance(r) ==
    /\ job[r] = "renewed"
    /\ writer' = "none"
    /\ locked' = FALSE
    /\ work' = [w \in Work |-> IF work[w].at = "waiting" THEN Admitted ELSE work[w]]
    /\ job' = [job EXCEPT ![r] = "resuming"]
    /\ UNCHANGED <<serving, stopped, slot, held, active>>

FreesBeforeResuming(r) ==
    \/ /\ job[r] = "resuming"
       /\ slot' = FALSE /\ job' = [job EXCEPT ![r] = "resumed"]
       /\ UNCHANGED held
    \/ /\ job[r] = "resumed"
       /\ held' = FALSE /\ job' = [job EXCEPT ![r] = "done"]
       /\ UNCHANGED slot

(* runRestore's first deferred function: backups first, then the slot.     *)
Winds(r) ==
    \/ /\ job[r] = "resuming"
       /\ held' = FALSE /\ job' = [job EXCEPT ![r] = "resumed"]
       /\ UNCHANGED slot
    \/ /\ job[r] = "resumed"
       /\ slot' = FALSE /\ job' = [job EXCEPT ![r] = "done"]
       /\ UNCHANGED held

WindUp(r) == Winds(r) /\ UNCHANGED <<work, gate, active>>

-----------------------------------------------------------------------------
(* Runner.claim and release, whoever asked for the backup.                 *)
ClaimBackup(c) ==
    /\ ~held /\ c \notin active
    /\ active' = active \cup {c}
    /\ UNCHANGED <<work, gate, slot, held, job>>

ReleaseBackup(c) ==
    /\ c \in active
    /\ active' = active \ {c}
    /\ UNCHANGED <<work, gate, slot, held, job>>

RestoreGoesOn(r) ==
    \/ StopsServing(r) \/ AsksForGate(r) \/ EnterMaintenance(r) \/ RestoreDone(r)
    \/ RenewsServing(r) \/ LeaveMaintenance(r) \/ WindUp(r)

GateNext ==
    \/ \E r \in Requests : RequireAvailable(r)
    \/ \E b \in Background : InBackground(b)
    \/ \E w \in Work : TieToServing(w) \/ EndWork(w)
    \/ \E r \in Restores : AcceptRestore(r) \/ RestoreGoesOn(r)
    \/ \E c \in Backups : ClaimBackup(c) \/ ReleaseBackup(c)

GateSpec == GateInit /\ [][GateNext]_gateVars

(* The restore's goroutine goes on, admitted work reaches its handler, and *)
(* work whose context was cancelled returns.  Nothing says that work left  *)
(* alone ever ends: that is what the serving context is for.               *)
FairGateSpec ==
    /\ GateSpec
    /\ \A r \in Restores : WF_gateVars(RestoreGoesOn(r))
    /\ \A w \in Work : WF_gateVars(TieToServing(w)) /\ WF_gateVars(Cancelled(w) /\ EndWork(w))

-----------------------------------------------------------------------------
JobStates == {"none", "entering", "stopped", "locking", "restoring", "leaving",
              "renewed", "resuming", "resumed", "done"}

GateTypeOK ==
    /\ work \in [Work -> [at : {"away", "waiting", "admitted", "working"}, tied : Nat]]
    /\ writer \in Restores \cup {"none"}
    /\ serving \in Nat
    /\ locked \in BOOLEAN /\ stopped \in BOOLEAN /\ slot \in BOOLEAN /\ held \in BOOLEAN
    /\ active \subseteq Backups
    /\ job \in [Restores -> JobStates]

(* From the moment a restore is accepted until backups are resumed no      *)
(* backup is being written - not even one started while the restore before *)
(* it is still winding up.                                                 *)
BackupsStayAway ==
    (\E r \in Restores : job[r] \notin {"none", "resumed", "done"}) => active = {}

(* Restores never overlap, from the slot to the last deferred call.        *)
OneRestoreAtATime ==
    \A q, r \in Restores :
        job[q] \notin {"none", "done"} /\ job[r] \notin {"none", "done"} => q = r

(* While the instance is replaced no request and no background work that   *)
(* went through the gate is anywhere in its handler.                       *)
RestoreIsAlone == \A r \in Restores : job[r] \in {"restoring", "leaving"} => Readers = {}

(* Work is only ever cancelled by a restore that is waiting for it: none   *)
(* let in during or after a restore finds its context already over.        *)
OnlyARestoreCancels ==
    (\E w \in Work : Cancelled(w)) => \E r \in Restores : job[r] \in {"stopped", "locking"}

(* A restore shares the instance with nobody who knows of the gate, and    *)
(* cancels nobody's work but what it has to wait for.                      *)
MaintenanceIsExclusive == BackupsStayAway /\ OneRestoreAtATime /\ RestoreIsAlone /\ OnlyARestoreCancels

(* A restore never waits for work that would not end by itself, and the    *)
(* background work that had to wait for a restore gets its turn, which is  *)
(* how the previews a restored instance lacks come to be rendered.         *)
NobodyWaitsForEver ==
    /\ \A r \in Restores : job[r] = "entering" ~> job[r] = "done"
    /\ \A b \in Background : work[b].at = "waiting" ~> work[b].at = "working"
=============================================================================
