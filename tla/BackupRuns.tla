----------------------------- MODULE BackupRuns -----------------------------
(***************************************************************************)
(* Taking backups: the Runner (claim, begin, carry, rotate), the Scheduler *)
(* that works through what is due, the requests that start one by hand,    *)
(* the hold a restore puts on them, and the backup_runs rows and archives  *)
(* they leave.  An archive holds the whole database, these rows included,  *)
(* and a restore puts them back.  Time is counted in periods of the        *)
(* schedules, all of which come due once a period.                         *)
(***************************************************************************)
EXTENDS Naturals, Sequences, FiniteSets

CONSTANTS
    Configs,      \* backup configurations
    Requests,     \* requests of handleRunBackup that may be in flight
    Settings,     \* retention and destination a configuration may be given
    Bounds        \* what happens at most, one of them chosen at the start: the
                  \* configurations and settings there are, periods, backups started
                  \* by hand, restores that hold backups away, and troubles of the named
                  \* kinds: configurations changed or withdrawn, statements that
                  \* fail, processes killed and databases restored

Scheduler == "scheduler"
Carriers == Requests \cup {Scheduler}

(* RetainCount n, RetainDays n, or neither: every archive is kept.         *)
SettingShape == [keep : {"all", "count", "days"}, n : Nat, to : {"local", "sftp"}]

ASSUME BackupAssumption ==
    /\ Scheduler \notin Requests
    /\ Settings \subseteq SettingShape /\ Settings # {}
    /\ \A s \in Settings : s.n > 0
    /\ Bounds \subseteq [configs : SUBSET Configs, settings : SUBSET Settings, periods : Nat,
                        requests : Nat, holds : Nat, troubles : Nat, kinds : SUBSET {"edit", "fault", "crash", "restore"}]

VARIABLES
    time,        \* the current period
    setting,     \* backup_configs: retention and destination of each
    enabled,     \* backup_configs: scheduled and not withdrawn
    deleted,     \* backup_configs: deleted_at is set
    runs,        \* backup_runs of each configuration, in order of started_at
    archives,    \* the archives at the destinations, and what each holds
    born,        \* runs ever begun: the next run's identifier and moment
    active,      \* Runner.active
    restoring,   \* Runner.restoring
    job,         \* what each carrier is doing
    pending,     \* Scheduler.pass: due configurations not reached yet
    counts       \* what happened of what is bounded, and the bound

rows == <<setting, enabled, deleted, runs>>
vars == <<time, setting, enabled, deleted, runs, archives, born, active,
          restoring, job, pending, counts>>

Idle == [at |-> "idle"]

(* A job carries the configuration as it was when it was read.             *)
Job(at, c, s) == [at |-> at, config |-> c, setting |-> s, run |-> 0, stale |-> {}]

Working(k) == job[k].at \notin {"idle", "asked"}

Run(id, by) ==
    [id |-> id, status |-> "running", rotated |-> FALSE, started |-> time, by |-> by]

Database == [setting |-> setting, enabled |-> enabled, deleted |-> deleted, runs |-> runs]

(* Named after the moment its run began, so no two share a name.           *)
Archive(c, id, to) == [config |-> c, id |-> id, to |-> to]

NoCounts(b) ==
    [requests |-> 0, holds |-> 0, edit |-> 0, fault |-> 0, crash |-> 0, restore |-> 0, bound |-> b]

bound == counts.bound

Init ==
    /\ counts \in {NoCounts(b) : b \in Bounds}
    /\ time = 1
    /\ deleted = Configs \ bound.configs
    /\ setting \in [Configs -> Settings]
    /\ \A c \in bound.configs : setting[c] \in bound.settings
    /\ \A c \in deleted : setting[c] = CHOOSE s \in Settings : TRUE
    /\ enabled = [c \in Configs |-> TRUE]
    /\ runs = [c \in Configs |-> <<>>]
    /\ archives = [a \in {} |-> Database]
    /\ born = 0
    /\ active = {}
    /\ restoring = FALSE
    /\ job = [k \in Carriers |-> Idle]
    /\ pending = {}

-----------------------------------------------------------------------------
Counts(what, max) == counts[what] < max /\ counts' = [counts EXCEPT ![what] = @ + 1]

Happens(trouble) ==
    /\ trouble \in bound.kinds
    /\ counts.edit + counts.fault + counts.crash + counts.restore < bound.troubles
    /\ counts' = [counts EXCEPT ![trouble] = @ + 1]

Fails == Happens("fault")
Works == UNCHANGED counts

Goes(k, at) == job' = [job EXCEPT ![k].at = at]

ReleasesNothing(k) ==
    job' = [job EXCEPT ![k] = Idle] /\ UNCHANGED active

(* The deferred release: the configuration may be run again.               *)
Releases(k) ==
    /\ active' = active \ {job[k].config}
    /\ job' = [job EXCEPT ![k] = Idle]

SetsRun(c, id, field, value) ==
    runs' = [runs EXCEPT ![c] = [i \in DOMAIN @ |->
                IF @[i].id = id THEN [@[i] EXCEPT ![field] = value] ELSE @[i]]]

LastStarted(c) == IF runs[c] = <<>> THEN 0 ELSE runs[c][Len(runs[c])].started

(* isDue: never run, or the next due time after the last start has come.   *)
IsDue(c) == enabled[c] /\ c \notin deleted /\ LastStarted(c) < time

(* pass: the configurations are read once, with when each last started,    *)
(* and judged against the instant the pass began.                          *)
SchedulerPass ==
    /\ job[Scheduler].at = "idle"
    /\ pending = {}
    /\ \E c \in Configs : IsDue(c)
    /\ pending' = {[config |-> c, setting |-> setting[c]] : c \in {d \in Configs : IsDue(d)}}
    /\ UNCHANGED <<time, rows, archives, born, active, restoring, job, counts>>

SchedulerTakes ==
    /\ job[Scheduler].at = "idle"
    /\ \E e \in pending :
        /\ pending' = pending \ {e}
        /\ job' = [job EXCEPT ![Scheduler] = Job("asked", e.config, e.setting)]
    /\ UNCHANGED <<time, rows, archives, born, active, restoring, counts>>

(* handleRunBackup: GetConfig, then Start.                                 *)
RequestBackup(r) ==
    /\ job[r].at = "idle"
    /\ Counts("requests", bound.requests)
    /\ \E c \in Configs \ deleted : job' = [job EXCEPT ![r] = Job("asked", c, setting[c])]
    /\ UNCHANGED <<time, rows, archives, born, active, restoring, pending>>

ClaimableTwice(c) == ~restoring

Claimable(c) == ~restoring /\ c \notin active

Claim(k) ==
    /\ job[k].at = "asked"
    /\ \/ /\ Claimable(job[k].config)
          /\ active' = active \cup {job[k].config}
          /\ Goes(k, "claimed")
       \/ /\ ~Claimable(job[k].config)
          /\ job' = [job EXCEPT ![k] = Idle]
          /\ UNCHANGED active
    /\ UNCHANGED <<time, rows, archives, born, restoring, pending, counts>>

(* StartRun: the row is there before the work.                             *)
Begin(k) ==
    LET id == born + 1 IN
    /\ job[k].at = "claimed"
    /\ born' = id
    /\ runs' = [runs EXCEPT ![job[k].config] = Append(@, Run(id, k))]
    /\ \/ /\ Works
          /\ job' = [job EXCEPT ![k].at = "performing", ![k].run = id]
          /\ UNCHANGED active
       \/ Fails /\ Releases(k)
    /\ UNCHANGED <<time, setting, enabled, deleted, archives, restoring, pending>>

(* StartRun failed and left nothing.                                       *)
NotBegun(k) ==
    /\ job[k].at = "claimed"
    /\ Fails
    /\ Releases(k)
    /\ UNCHANGED <<time, rows, archives, born, restoring, pending>>

Stored(new) ==
    archives' = [a \in DOMAIN archives \cup {new} |-> IF a = new THEN Database ELSE archives[a]]

(* The answer of an SFTP server may be lost after it did what it was asked.*)
MayGoUnanswered(s) == s.to = "sftp"

(* Resolve, build from one snapshot of the database and Store: the archive *)
(* appears under its name whole or not at all.  A Store that fails left    *)
(* none, unless it was the answer to an SFTP rename that was lost.         *)
Perform(k) ==
    LET new == Archive(job[k].config, job[k].run, job[k].setting.to) IN
    /\ job[k].at = "performing"
    /\ \/ Stored(new) /\ Goes(k, "recording")
       \/ Goes(k, "failing") /\ UNCHANGED archives
       \/ Goes(k, "failing") /\ MayGoUnanswered(job[k].setting) /\ Stored(new)
    /\ UNCHANGED <<time, rows, born, active, restoring, pending, counts>>

FailureRecorded(k) == SetsRun(job[k].config, job[k].run, "status", "failed")

(* failRun: if even this cannot be recorded the row stays running.         *)
RecordFailure(k) ==
    /\ job[k].at = "failing"
    /\ \/ Works /\ FailureRecorded(k)
       \/ Fails /\ (FailureRecorded(k) \/ UNCHANGED runs)
    /\ Releases(k)
    /\ UNCHANGED <<time, setting, enabled, deleted, archives, born, restoring,
                   pending>>

(* FinishRun of a success.  It may fail having taken effect or not; either *)
(* way the run is left as it is and nothing is rotated.                    *)
RecordSuccess(k) ==
    /\ job[k].at = "recording"
    /\ \/ /\ Works
          /\ SetsRun(job[k].config, job[k].run, "status", "success")
          /\ Goes(k, "rotating")
          /\ UNCHANGED active
       \/ /\ Fails
          /\ \/ UNCHANGED runs
             \/ SetsRun(job[k].config, job[k].run, "status", "success")
          /\ Releases(k)
    /\ UNCHANGED <<time, setting, enabled, deleted, archives, born, restoring,
                   pending>>

-----------------------------------------------------------------------------
Held(r) == r.status = "success" /\ ~r.rotated

Newer(c, n) == {i \in n+1..Len(runs[c]) : Held(runs[c][i])}

HeldOneFewer(c, n, keep) == Cardinality(Newer(c, n)) + 1 >= keep

(* Beyond the newest keep archives: HeldArtifacts' OFFSET.                 *)
HeldBeyond(c, n, keep) == Cardinality(Newer(c, n)) >= keep

(* HeldArtifacts and ExpiredArtifacts: what the retention lets go of.      *)
Outgrown(c, n, s) ==
    /\ Held(runs[c][n])
    /\ \/ s.keep = "count" /\ HeldBeyond(c, n, s.n)
       \/ s.keep = "days" /\ runs[c][n].started + s.n < time

StaleRuns(c, s) == {runs[c][n].id : n \in {m \in 1..Len(runs[c]) : Outgrown(c, m, s)}}

(* Both queries put the newest first, and rotate goes through them so.     *)
Newest(ids) == CHOOSE id \in ids : \A other \in ids : id >= other

Rotate(k) ==
    LET stale == StaleRuns(job[k].config, job[k].setting) IN
    /\ job[k].at = "rotating"
    /\ \/ /\ Works /\ stale # {}
          /\ job' = [job EXCEPT ![k].at = "removing", ![k].stale = stale]
          /\ UNCHANGED active
       \/ Works /\ stale = {} /\ Releases(k)
       \/ Fails /\ Releases(k)
    /\ UNCHANGED <<time, rows, archives, born, restoring, pending>>

MarksAnyway(k) == Goes(k, "marking") /\ UNCHANGED active

StopsRotating(k) == Releases(k)

Removed(gone) == archives' = [a \in DOMAIN archives \ {gone} |-> archives[a]]

(* Remove, at the destination the configuration names now: an archive that *)
(* is not there is no error.                                               *)
RemoveArchive(k) ==
    LET gone == Archive(job[k].config, Newest(job[k].stale), job[k].setting.to) IN
    /\ job[k].at = "removing"
    /\ \/ Removed(gone) /\ Goes(k, "marking") /\ UNCHANGED active
       \/ StopsRotating(k) /\ UNCHANGED archives
       \/ StopsRotating(k) /\ MayGoUnanswered(job[k].setting) /\ Removed(gone)
    /\ UNCHANGED <<time, rows, born, restoring, pending, counts>>

Marked(k) == SetsRun(job[k].config, Newest(job[k].stale), "rotated", TRUE)

MarkRotated(k) ==
    LET rest == job[k].stale \ {Newest(job[k].stale)} IN
    /\ job[k].at = "marking"
    /\ \/ /\ Works
          /\ Marked(k)
          /\ \/ /\ rest # {}
                /\ job' = [job EXCEPT ![k].at = "removing", ![k].stale = rest]
                /\ UNCHANGED active
             \/ rest = {} /\ Releases(k)
       \/ Fails /\ Releases(k) /\ (Marked(k) \/ UNCHANGED runs)
    /\ UNCHANGED <<time, setting, enabled, deleted, archives, born, restoring,
                   pending>>

-----------------------------------------------------------------------------
(* HoldForRestore refuses while any backup is being written.               *)
Holdable == active = {}

HoldForRestore ==
    /\ ~restoring
    /\ Holdable
    /\ Counts("holds", bound.holds)
    /\ restoring' = TRUE
    /\ UNCHANGED <<time, rows, archives, born, active, job, pending>>

(* The restore puts an archive's database in place of this one, with the   *)
(* configurations and the history of the moment its snapshot was taken.    *)
RestoreArchive ==
    /\ restoring
    /\ Happens("restore")
    /\ \E a \in DOMAIN archives :
        /\ setting' = archives[a].setting
        /\ enabled' = archives[a].enabled
        /\ deleted' = archives[a].deleted
        /\ runs' = archives[a].runs
    /\ UNCHANGED <<time, archives, born, active, restoring, job, pending>>

ResumeBackups ==
    /\ restoring
    /\ restoring' = FALSE
    /\ UNCHANGED <<time, rows, archives, born, active, job, pending, counts>>

(* UpdateConfig and DeleteConfig, which know nothing of a run in flight.   *)
EditConfig ==
    /\ Happens("edit")
    /\ \E c \in Configs \ deleted :
        \/ /\ \E s \in bound.settings : setting' = [setting EXCEPT ![c] = s]
           /\ \E e \in BOOLEAN : enabled' = [enabled EXCEPT ![c] = e]
           /\ UNCHANGED deleted
        \/ deleted' = deleted \cup {c} /\ UNCHANGED <<setting, enabled>>
    /\ UNCHANGED <<time, runs, archives, born, active, restoring, job, pending>>

Tick ==
    /\ time < bound.periods
    /\ time' = time + 1
    /\ UNCHANGED <<rows, archives, born, active, restoring, job, pending, counts>>

(* Claims, jobs, the pass and the hold are memory; nothing at start-up     *)
(* looks at the rows or the archives a killed process left.                *)
Crash ==
    /\ Happens("crash")
    /\ active' = {}
    /\ restoring' = FALSE
    /\ job' = [k \in Carriers |-> Idle]
    /\ pending' = {}
    /\ UNCHANGED <<time, rows, archives, born>>

Carry(k) ==
    \/ Claim(k) \/ Begin(k) \/ NotBegun(k) \/ Perform(k) \/ RecordFailure(k)
    \/ RecordSuccess(k) \/ Rotate(k) \/ RemoveArchive(k) \/ MarkRotated(k)

Next ==
    \/ SchedulerPass \/ SchedulerTakes
    \/ \E r \in Requests : RequestBackup(r)
    \/ \E k \in Carriers : Carry(k)
    \/ HoldForRestore \/ RestoreArchive \/ ResumeBackups
    \/ EditConfig \/ Tick \/ Crash

Spec == Init /\ [][Next]_vars

(* The scheduler's ticker keeps firing and its loop keeps going, every     *)
(* goroutine that carries a run goes on, and a restore comes to its end.   *)
FairSpec ==
    /\ Spec
    /\ WF_vars(SchedulerPass) /\ WF_vars(SchedulerTakes)
    /\ \A k \in Carriers : WF_vars(Carry(k))
    /\ WF_vars(ResumeBackups)

-----------------------------------------------------------------------------
(* A configuration is carried by at most one of the scheduler and the      *)
(* requests at a time, and Runner.active names exactly those carried.      *)
OneCarrierPerConfig ==
    /\ \A k, l \in Carriers :
        Working(k) /\ Working(l) /\ job[k].config = job[l].config => k = l
    /\ active = {job[k].config : k \in {l \in Carriers : Working(l)}}

(* Backups and restores do not run at the same time (docs/backups.md).     *)
NoBackupDuringRestore == restoring => \A k \in Carriers : ~Working(k)

(* The backups keep out of each other's way and out of a restore's.        *)
CarriersAreExclusive == OneCarrierPerConfig /\ NoBackupDuringRestore

NeverRestored == counts.restore = 0

IsHeld(c, id) == \E a \in DOMAIN archives : a.config = c /\ a.id = id

(* Rotation looks where the configuration points now, so an archive stored *)
(* before the configuration was given another destination is not found.    *)
OutOfReach(a) == counts.edit > 0 /\ \E s \in Settings : s.to # a.to

(* An archive marked as rotated is gone, unless its configuration was      *)
(* moved away from it, and one that is gone without being marked had been  *)
(* outgrown: the newest success is always there to be restored, unless it  *)
(* is older than a retention by days allows.                               *)
DestinationMatches ==
    \A c \in Configs : \A n \in 1..Len(runs[c]) :
        /\ runs[c][n].rotated =>
              \A a \in DOMAIN archives : a.config = c /\ a.id = runs[c][n].id => OutOfReach(a)
        /\ Held(runs[c][n]) =>
              \/ IsHeld(c, runs[c][n].id)
              \/ Newer(c, n) # {}
              \/ \E s \in Settings : s.keep = "days" /\ runs[c][n].started + s.n < time

(* An archive nobody is still writing belongs to a run recorded as a       *)
(* success, or on an SFTP server, whose answer may have been lost, to one  *)
(* recorded as failed; and every row still running is being carried.  That *)
(* is so however often building, storing or removing an archive fails:     *)
(* only a failing statement or a crash can leave more behind.              *)
AllAccountedFor ==
    counts.fault = 0 /\ counts.crash = 0 =>
        /\ \A a \in DOMAIN archives :
              \/ \E n \in 1..Len(runs[a.config]) :
                     /\ runs[a.config][n].id = a.id
                     /\ \/ runs[a.config][n].status = "success"
                        \/ runs[a.config][n].status = "failed" /\ a.to = "sftp"
              \/ \E k \in Carriers : Working(k) /\ job[k].config = a.config /\ job[k].run = a.id
        /\ \A c \in Configs : \A n \in 1..Len(runs[c]) : runs[c][n].status = "running" =>
              \E k \in Carriers : Working(k) /\ job[k].config = c /\ job[k].run = runs[c][n].id

(* The scheduler starts a configuration at most once in a period, however  *)
(* its run ended and whether or not the service restarted in between.      *)
ScheduledOncePerPeriod ==
    \A c \in Configs : \A m, n \in 1..Len(runs[c]) :
        runs[c][m].by = Scheduler /\ runs[c][n].by = Scheduler
            /\ runs[c][m].started = runs[c][n].started => m = n

(* As long as the history is this service's own, the rows tell what is at  *)
(* the destination and what the scheduler did, through failing statements, *)
(* failing destinations and crashes (docs/backups.md: the history lists    *)
(* every run with its outcome).                                            *)
HistoryIsTrue ==
    NeverRestored => DestinationMatches /\ AllAccountedFor /\ ScheduledOncePerPeriod

(* The configurations and the history are as this service made them.       *)
Undisturbed == NeverRestored /\ counts.edit = 0

(* An archive is removed only when the retention its remover was started   *)
(* under lets go of it at that moment, and the history as it stands records*)
(* it: with a count of n there are n newer successes, and all of them are  *)
(* at the destinations unless somebody changed what was to be kept; with n *)
(* days it is older than that.  Nothing that happens between the query and *)
(* the removal may change that, nor an archive that went earlier without   *)
(* being marked.                                                           *)
RotationKeepsTheNewest ==
    [][\A a \in DOMAIN archives \ DOMAIN archives' :
        \E n \in 1..Len(runs[a.config]), k \in Carriers :
            LET there == {i \in Newer(a.config, n) : IsHeld(a.config, runs[a.config][i].id)}
                s == job[k].setting
            IN
            /\ runs[a.config][n].id = a.id /\ Held(runs[a.config][n])
            /\ job[k].at = "removing" /\ job[k].config = a.config
            /\ \/ /\ s.keep = "count"
                  /\ Cardinality(Newer(a.config, n)) >= s.n
                  /\ Undisturbed => Cardinality(there) >= s.n
               \/ s.keep = "days" /\ runs[a.config][n].started + s.n < time]_vars

(* A due configuration is started, or stops being due because somebody     *)
(* edited or ran it: no backup by hand, failed run, restore or restart     *)
(* makes the scheduler forget it.                                          *)
DueIsStarted == \A c \in Configs : IsDue(c) ~> ~IsDue(c)
=============================================================================
