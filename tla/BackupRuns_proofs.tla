-------------------------- MODULE BackupRuns_proofs --------------------------
(***************************************************************************)
(* Backups keep out of each other's way and out of a restore's, for any    *)
(* number of configurations, requests, periods and troubles.               *)
(*                                                                         *)
(* Runner.active and Runner.restoring are kept by whoever carries a run;   *)
(* the invariant says that they always tell what the carriers are doing.   *)
(* It is stated of any jobs js, names ac and hold re, so that each thing a *)
(* step can do to them - a job goes on, rests, claims or releases - is a   *)
(* lemma of its own.                                                       *)
(*                                                                         *)
(* What the history tells is a second invariant on top of this one.  Past  *)
(* is kept by every step but a restore, which brings an older history      *)
(* back.  Its parts need each other: that a removal leaves something to    *)
(* restore rests on what Rotate saw (Excess) still being so when the       *)
(* archive goes, which rests on nobody else carrying the configuration.    *)
(*                                                                         *)
(* What a rotation may remove is a third, and holds of restored histories  *)
(* as well: the newer successes a count asks for stay to the end of it     *)
(* (KeptInv), and what is gone without being marked had been outgrown      *)
(* (GoneInv), so it is none of those.                                      *)
(***************************************************************************)
EXTENDS BackupRuns, FiniteSetTheorems, WellFoundedInduction, TLAPS

AtWork(j) == j.at \notin {"idle", "asked"}

(* A job says where it is, and which configuration it carries.             *)
IsJob(j) == "at" \in DOMAIN j /\ (j.at # "idle" => "config" \in DOMAIN j)

Exclusive(js, ac, re) ==
    /\ js = [k \in Carriers |-> js[k]]
    /\ \A k \in Carriers : IsJob(js[k])
    /\ \A k, l \in Carriers : AtWork(js[k]) /\ AtWork(js[l]) /\ js[k].config = js[l].config => k = l
    /\ \A c : c \in ac <=> \E k \in Carriers : AtWork(js[k]) /\ js[k].config = c
    /\ re => \A k \in Carriers : ~AtWork(js[k])

IInv == Exclusive(job, active, restoring)

-----------------------------------------------------------------------------
(* A job takes its next step with the configuration it has.                *)
LEMMA GoingOnKeeps ==
    ASSUME NEW js, NEW ac, NEW re, Exclusive(js, ac, re), NEW k \in Carriers, NEW j,
           AtWork(js[k]), AtWork(j), IsJob(j), j.config = js[k].config
    PROVE  Exclusive([js EXCEPT ![k] = j], ac, re)
<1> DEFINE new == [js EXCEPT ![k] = j]
<1>1. /\ new = [l \in Carriers |-> new[l]]
      /\ \A l \in Carriers : new[l] = IF l = k THEN j ELSE js[l]
  BY DEF Exclusive
<1> HIDE DEF new
<1>2. \A l \in Carriers : /\ AtWork(new[l]) <=> AtWork(js[l])
                          /\ AtWork(js[l]) => new[l].config = js[l].config
                          /\ IsJob(new[l])
  BY <1>1 DEF Exclusive
<1>3. Exclusive(new, ac, re)
  BY <1>1, <1>2 DEF Exclusive
<1> QED
  BY <1>3 DEF new

(* A job that carries nothing changes to another that carries nothing.     *)
LEMMA RestingKeeps ==
    ASSUME NEW js, NEW ac, NEW re, Exclusive(js, ac, re), NEW k \in Carriers, NEW j,
           ~AtWork(js[k]), ~AtWork(j), IsJob(j)
    PROVE  Exclusive([js EXCEPT ![k] = j], ac, re)
<1> DEFINE new == [js EXCEPT ![k] = j]
<1>1. /\ new = [l \in Carriers |-> new[l]]
      /\ \A l \in Carriers : new[l] = IF l = k THEN j ELSE js[l]
  BY DEF Exclusive
<1> HIDE DEF new
<1>2. \A l \in Carriers : /\ AtWork(new[l]) <=> AtWork(js[l])
                          /\ AtWork(js[l]) => new[l].config = js[l].config
                          /\ IsJob(new[l])
  BY <1>1 DEF Exclusive
<1>3. Exclusive(new, ac, re)
  BY <1>1, <1>2 DEF Exclusive
<1> QED
  BY <1>3 DEF new

(* A job claims a configuration nobody carries, while nothing is held.     *)
LEMMA ClaimingKeeps ==
    ASSUME NEW js, NEW ac, NEW re, ~re, Exclusive(js, ac, re), NEW k \in Carriers, NEW j,
           ~AtWork(js[k]), AtWork(j), IsJob(j), j.config \notin ac
    PROVE  Exclusive([js EXCEPT ![k] = j], ac \cup {j.config}, re)
<1> DEFINE new == [js EXCEPT ![k] = j]
<1>1. /\ new = [l \in Carriers |-> new[l]]
      /\ \A l \in Carriers : new[l] = IF l = k THEN j ELSE js[l]
  BY DEF Exclusive
<1> HIDE DEF new
<1>2. \A l \in Carriers : /\ AtWork(new[l]) <=> (l = k \/ AtWork(js[l]))
                          /\ AtWork(js[l]) => new[l].config = js[l].config /\ js[l].config \in ac
                          /\ IsJob(new[l])
  BY <1>1 DEF Exclusive
<1>3. new[k].config = j.config
  BY <1>1
<1>4. \A l, m \in Carriers : AtWork(new[l]) /\ AtWork(new[m]) /\ new[l].config = new[m].config => l = m
  BY <1>2, <1>3 DEF Exclusive
<1>5. \A c : c \in ac \cup {j.config} <=> \E l \in Carriers : AtWork(new[l]) /\ new[l].config = c
  BY <1>2, <1>3 DEF Exclusive
<1>6. Exclusive(new, ac \cup {j.config}, re)
  BY <1>1, <1>2, <1>4, <1>5 DEF Exclusive
<1> QED
  BY <1>6 DEF new

(* A job is over and releases its configuration, which no other carries.   *)
LEMMA ReleasingKeeps ==
    ASSUME NEW js, NEW ac, NEW re, Exclusive(js, ac, re), NEW k \in Carriers, AtWork(js[k])
    PROVE  Exclusive([js EXCEPT ![k] = Idle], ac \ {js[k].config}, re)
<1> DEFINE new == [js EXCEPT ![k] = Idle]
<1>1. /\ new = [l \in Carriers |-> new[l]]
      /\ \A l \in Carriers : new[l] = IF l = k THEN Idle ELSE js[l]
  BY DEF Exclusive
<1>2. IsJob(Idle) /\ ~AtWork(Idle)
  BY DEF Idle, IsJob, AtWork
<1> HIDE DEF new
<1>3. \A l \in Carriers : /\ AtWork(new[l]) <=> (l # k /\ AtWork(js[l]))
                          /\ AtWork(new[l]) => new[l].config = js[l].config
                          /\ IsJob(new[l])
  BY <1>1, <1>2 DEF Exclusive
<1>4. \A l \in Carriers : l # k /\ AtWork(js[l]) => js[l].config # js[k].config
  BY DEF Exclusive
<1>5. \A c : c \in ac \ {js[k].config} <=> \E l \in Carriers : AtWork(new[l]) /\ new[l].config = c
  BY <1>3, <1>4 DEF Exclusive
<1>6. Exclusive(new, ac \ {js[k].config}, re)
  BY <1>1, <1>3, <1>5 DEF Exclusive
<1> QED
  BY <1>6 DEF new

-----------------------------------------------------------------------------
(* What EXCEPT and the makers of jobs give, field by field.                *)
LEMMA NextJob ==
    ASSUME NEW j, IsJob(j), AtWork(j), NEW at, at \notin {"idle", "asked"}
    PROVE  LET moved == [j EXCEPT !.at = at] IN
           IsJob(moved) /\ AtWork(moved) /\ moved.config = j.config
BY DEF IsJob, AtWork

LEMMA NewJob ==
    ASSUME NEW c, NEW s
    PROVE  LET j == Job("asked", c, s) IN IsJob(j) /\ ~AtWork(j)
BY DEF IsJob, AtWork, Job

LEMMA NoJob == IsJob(Idle) /\ ~AtWork(Idle)
BY DEF IsJob, AtWork, Idle

(* A carrier at work that goes to another step of its work.                *)
LEMMA Going ==
    ASSUME IInv, NEW k \in Carriers, NEW at, at \notin {"idle", "asked"}, AtWork(job[k])
    PROVE  Exclusive([job EXCEPT ![k].at = at], active, restoring)
<1>1. IsJob(job[k])
  BY DEF IInv, Exclusive
<1> DEFINE moved == [job[k] EXCEPT !.at = at]
<1>2. IsJob(moved) /\ AtWork(moved) /\ moved.config = job[k].config
  BY <1>1, NextJob
<1>3. [job EXCEPT ![k].at = at] = [job EXCEPT ![k] = moved]
  OBVIOUS
<1> HIDE DEF moved
<1> QED
  BY <1>2, <1>3, GoingOnKeeps DEF IInv

(* A carrier at work that releases.                                        *)
LEMMA Releasing ==
    ASSUME IInv, NEW k \in Carriers, AtWork(job[k]), Releases(k), UNCHANGED restoring
    PROVE  IInv'
<1>1. Exclusive([job EXCEPT ![k] = Idle], active \ {job[k].config}, restoring)
  BY ReleasingKeeps DEF IInv
<1> QED
  BY <1>1 DEF Releases, IInv

(* A carrier at work that goes on and claims and releases nothing.         *)
LEMMA GoingOn ==
    ASSUME IInv, NEW k \in Carriers, AtWork(job[k]), NEW at, at \notin {"idle", "asked"},
           Goes(k, at), UNCHANGED <<active, restoring>>
    PROVE  IInv'
BY Going DEF Goes, IInv

(* The same, where the job also gets its run or what it is to remove.      *)
LEMMA GoingOnWith ==
    ASSUME IInv, NEW k \in Carriers, AtWork(job[k]), NEW at, at \notin {"idle", "asked"}, NEW v,
           \/ job' = [job EXCEPT ![k].at = at, ![k].run = v]
           \/ job' = [job EXCEPT ![k].at = at, ![k].stale = v],
           UNCHANGED <<active, restoring>>
    PROVE  IInv'
<1>1. IsJob(job[k]) /\ job = [l \in Carriers |-> job[l]]
  BY DEF IInv, Exclusive
<1>2. CASE job' = [job EXCEPT ![k].at = at, ![k].run = v]
  <2> DEFINE moved == [job[k] EXCEPT !.at = at, !.run = v]
  <2>1. IsJob(moved) /\ AtWork(moved) /\ moved.config = job[k].config
    BY <1>1 DEF IsJob, AtWork
  <2>2. job' = [job EXCEPT ![k] = moved]
    BY <1>1, <1>2
  <2> HIDE DEF moved
  <2> QED
    BY <2>1, <2>2, GoingOnKeeps DEF IInv
<1>3. CASE job' = [job EXCEPT ![k].at = at, ![k].stale = v]
  <2> DEFINE moved == [job[k] EXCEPT !.at = at, !.stale = v]
  <2>1. IsJob(moved) /\ AtWork(moved) /\ moved.config = job[k].config
    BY <1>1 DEF IsJob, AtWork
  <2>2. job' = [job EXCEPT ![k] = moved]
    BY <1>1, <1>3
  <2> HIDE DEF moved
  <2> QED
    BY <2>1, <2>2, GoingOnKeeps DEF IInv
<1> QED
  BY <1>2, <1>3

-----------------------------------------------------------------------------
LEMMA InitExclusive == Init => IInv
<1> SUFFICES ASSUME Init PROVE Exclusive(job, {}, FALSE)
  BY DEF Init, IInv
<1>1. job = [k \in Carriers |-> Idle]
  BY DEF Init
<1> QED
  BY <1>1, NoJob DEF Exclusive

LEMMA ClaimKeeps ==
    ASSUME IInv, NEW k \in Carriers, Claim(k)
    PROVE  IInv'
<1>1. job[k].at = "asked" /\ ~AtWork(job[k]) /\ IsJob(job[k]) /\ job = [l \in Carriers |-> job[l]]
  BY DEF Claim, IInv, Exclusive, AtWork
<1>2. UNCHANGED restoring
  BY DEF Claim
<1>3. ASSUME Claimable(job[k].config), active' = active \cup {job[k].config}, Goes(k, "claimed")
      PROVE  IInv'
  <2> DEFINE moved == [job[k] EXCEPT !.at = "claimed"]
  <2>1. IsJob(moved) /\ AtWork(moved) /\ moved.config = job[k].config
    BY <1>1 DEF IsJob, AtWork
  <2>2. job' = [job EXCEPT ![k] = moved]
    BY <1>1, <1>3 DEF Goes
  <2> HIDE DEF moved
  <2>3. ~restoring /\ moved.config \notin active
    BY <1>3, <2>1 DEF Claimable
  <2>4. Exclusive([job EXCEPT ![k] = moved], active \cup {moved.config}, restoring)
    BY <1>1, <2>1, <2>3, ClaimingKeeps DEF IInv
  <2> QED
    BY <1>2, <1>3, <2>1, <2>2, <2>4 DEF IInv
<1>4. ASSUME job' = [job EXCEPT ![k] = Idle], UNCHANGED active
      PROVE  IInv'
  BY <1>1, <1>2, <1>4, NoJob, RestingKeeps DEF IInv
<1> QED
  BY <1>3, <1>4 DEF Claim

LEMMA CarryKeeps ==
    ASSUME IInv, NEW k \in Carriers, Carry(k)
    PROVE  IInv'
<1>1. CASE Claim(k)
  BY <1>1, ClaimKeeps
<1>2. CASE Begin(k)
  <2>1. AtWork(job[k]) /\ UNCHANGED restoring
    BY <1>2 DEF Begin, AtWork
  <2>2. \/ /\ job' = [job EXCEPT ![k].at = "performing", ![k].run = born + 1]
           /\ UNCHANGED active
        \/ Releases(k)
    BY <1>2 DEF Begin
  <2> QED
    BY <2>1, <2>2, GoingOnWith, Releasing
<1>3. CASE NotBegun(k)
  BY <1>3, Releasing DEF NotBegun, AtWork
<1>4. CASE Perform(k)
  <2>1. AtWork(job[k]) /\ UNCHANGED <<active, restoring>> /\ (Goes(k, "recording") \/ Goes(k, "failing"))
    BY <1>4 DEF Perform, AtWork
  <2> QED
    BY <2>1, GoingOn
<1>5. CASE RecordFailure(k)
  BY <1>5, Releasing DEF RecordFailure, AtWork
<1>6. CASE RecordSuccess(k)
  <2>1. AtWork(job[k]) /\ UNCHANGED restoring
    BY <1>6 DEF RecordSuccess, AtWork
  <2>2. (Goes(k, "rotating") /\ UNCHANGED active) \/ Releases(k)
    BY <1>6 DEF RecordSuccess
  <2> QED
    BY <2>1, <2>2, GoingOn, Releasing
<1>7. CASE Rotate(k)
  <2> DEFINE stale == StaleRuns(job[k].config, job[k].setting)
  <2>1. AtWork(job[k]) /\ UNCHANGED restoring
    BY <1>7 DEF Rotate, AtWork
  <2>2. \/ /\ job' = [job EXCEPT ![k].at = "removing", ![k].stale = stale]
           /\ UNCHANGED active
        \/ Releases(k)
    BY <1>7 DEF Rotate
  <2> HIDE DEF stale
  <2> QED
    BY <2>1, <2>2, GoingOnWith, Releasing
<1>8. CASE RemoveArchive(k)
  <2>1. AtWork(job[k]) /\ UNCHANGED restoring
    BY <1>8 DEF RemoveArchive, AtWork
  <2>2. (Goes(k, "marking") /\ UNCHANGED active) \/ Releases(k)
    BY <1>8 DEF RemoveArchive, StopsRotating
  <2> QED
    BY <2>1, <2>2, GoingOn, Releasing
<1>9. CASE MarkRotated(k)
  <2> DEFINE rest == job[k].stale \ {Newest(job[k].stale)}
  <2>1. AtWork(job[k]) /\ UNCHANGED restoring
    BY <1>9 DEF MarkRotated, AtWork
  <2>2. \/ /\ job' = [job EXCEPT ![k].at = "removing", ![k].stale = rest]
           /\ UNCHANGED active
        \/ Releases(k)
    BY <1>9 DEF MarkRotated
  <2> HIDE DEF rest
  <2> QED
    BY <2>1, <2>2, GoingOnWith, Releasing
<1> QED
  BY <1>1, <1>2, <1>3, <1>4, <1>5, <1>6, <1>7, <1>8, <1>9 DEF Carry

(* Nobody is at work exactly when no configuration is claimed, so a hold   *)
(* that finds no claim finds nobody at work.                               *)
LEMMA HoldKeeps ==
    ASSUME IInv, HoldForRestore
    PROVE  IInv'
<1>1. active = {} /\ UNCHANGED <<job, active>>
  BY DEF HoldForRestore, Holdable
<1>2. \A k \in Carriers : ~AtWork(job[k])
  BY <1>1 DEF IInv, Exclusive
<1> QED
  BY <1>1, <1>2 DEF IInv, Exclusive

LEMMA StepKeeps == IInv /\ [Next]_vars => IInv'
<1> SUFFICES ASSUME IInv, [Next]_vars PROVE IInv'
  OBVIOUS
<1>1. CASE SchedulerTakes
  <2>1. PICK e \in pending : job' = [job EXCEPT ![Scheduler] = Job("asked", e.config, e.setting)]
    BY <1>1 DEF SchedulerTakes
  <2>2. Scheduler \in Carriers /\ ~AtWork(job[Scheduler]) /\ UNCHANGED <<active, restoring>>
    BY <1>1 DEF SchedulerTakes, Carriers, AtWork
  <2> QED
    BY <2>1, <2>2, NewJob, RestingKeeps DEF IInv
<1>2. ASSUME NEW r \in Requests, RequestBackup(r)
      PROVE  IInv'
  <2>1. PICK c \in Configs \ deleted : job' = [job EXCEPT ![r] = Job("asked", c, setting[c])]
    BY <1>2 DEF RequestBackup
  <2>2. r \in Carriers /\ ~AtWork(job[r]) /\ UNCHANGED <<active, restoring>>
    BY <1>2 DEF RequestBackup, Carriers, AtWork
  <2> QED
    BY <2>1, <2>2, NewJob, RestingKeeps DEF IInv
<1>3. ASSUME NEW k \in Carriers, Carry(k)
      PROVE  IInv'
  BY <1>3, CarryKeeps
<1>4. CASE HoldForRestore
  BY <1>4, HoldKeeps
<1>5. CASE ResumeBackups
  BY <1>5 DEF ResumeBackups, IInv, Exclusive
<1>6. CASE Crash
  <2>1. job' = [k \in Carriers |-> Idle] /\ active' = {} /\ restoring' = FALSE
    BY <1>6 DEF Crash
  <2> QED
    BY <2>1, NoJob DEF IInv, Exclusive
<1>7. CASE SchedulerPass \/ RestoreArchive \/ EditConfig \/ Tick \/ UNCHANGED vars
  <2>1. UNCHANGED <<job, active, restoring>>
    BY <1>7 DEF SchedulerPass, RestoreArchive, EditConfig, Tick, vars
  <2> QED
    BY <2>1 DEF IInv
<1> QED
  BY <1>1, <1>2, <1>3, <1>4, <1>5, <1>6, <1>7 DEF Next

LEMMA InvSuffices == IInv => CarriersAreExclusive
<1> SUFFICES ASSUME IInv PROVE CarriersAreExclusive
  OBVIOUS
<1>1. \A k \in Carriers : Working(k) <=> AtWork(job[k])
  BY DEF Working, AtWork
<1>2. active = {job[k].config : k \in {l \in Carriers : Working(l)}}
  <2>1. \A c : c \in active <=> \E k \in Carriers : AtWork(job[k]) /\ job[k].config = c
    BY DEF IInv, Exclusive
  <2> QED
    BY <1>1, <2>1
<1> QED
  BY <1>1, <1>2 DEF IInv, Exclusive, CarriersAreExclusive, OneCarrierPerConfig, NoBackupDuringRestore

(* One configuration is never carried twice at once, Runner.active names   *)
(* exactly what is carried, and nothing is carried while a restore holds   *)
(* backups away: the claim and the hold are each one section under the     *)
(* runner's lock, and every way a run can end passes the deferred release. *)
THEOREM BackupsAreExclusive == Spec => []CarriersAreExclusive
<1>1. IInv /\ [Next]_vars => IInv'
  BY StepKeeps
<1> QED
  BY InitExclusive, <1>1, InvSuffices, PTL DEF Spec

-----------------------------------------------------------------------------
(* What the history says of the destination.                               *)

Status == {"running", "success", "failed"}
Steps == {"asked", "claimed", "performing", "recording", "failing", "rotating",
          "removing", "marking"}

RowShape == [id : Nat, status : Status, rotated : BOOLEAN, started : Nat, by : Carriers]
JobShape == [at : Steps, config : Configs, setting : Settings, run : Nat, stale : SUBSET Nat]
ArchiveShape == [config : Configs, id : Nat, to : {"local", "sftp"}]
CountShape == [requests : Nat, holds : Nat, edit : Nat, fault : Nat, crash : Nat,
               restore : Nat, bound : Bounds]

TypeInv ==
    /\ time \in Nat /\ born \in Nat
    /\ setting \in [Configs -> Settings]
    /\ runs \in [Configs -> Seq(RowShape)]
    /\ DOMAIN archives \subseteq ArchiveShape
    /\ job \in [Carriers -> {Idle} \cup JobShape]
    /\ pending \subseteq [config : Configs, setting : Settings]

(* The rows of a configuration stand in the order they were begun in.      *)
RowsInv ==
    \A c \in Configs : \A n \in 1..Len(runs[c]) :
        /\ runs[c][n].id <= born
        /\ runs[c][n].started <= time
        /\ runs[c][n].rotated => runs[c][n].status = "success"
        /\ \A m \in 1..Len(runs[c]) : m < n =>
              runs[c][m].id < runs[c][n].id /\ runs[c][m].started <= runs[c][n].started

Unfinished == {"performing", "recording", "failing"}
Retaining == {"removing", "marking"}

(* A carrier past Begin has its row, which says running until it is told.  *)
HasRow(k) ==
    LET c == job[k].config IN
    /\ job[k].at \in Unfinished =>
          /\ job[k].run <= born
          /\ \E n \in 1..Len(runs[c]) : runs[c][n].id = job[k].run
          /\ \A n \in 1..Len(runs[c]) : runs[c][n].id = job[k].run => runs[c][n].status = "running"
    /\ job[k].at \in {"performing", "failing"} =>
          \A a \in DOMAIN archives : a.config = c /\ a.id = job[k].run =>
             job[k].at = "failing" /\ a.to = "sftp"
    /\ job[k].at = "recording" => IsHeld(c, job[k].run)

JobRowInv == \A k \in Carriers : HasRow(k)

ArchivesInv == \A a \in DOMAIN archives : a.id <= born

(* What keeps a configuration restorable while its rotation removes        *)
(* archives: a newer one that stays, or that all are older than asked for. *)
Excess(c, s, stale) ==
    \/ /\ s.keep = "count"
       /\ \E m \in 1..Len(runs[c]) :
             /\ Held(runs[c][m]) /\ runs[c][m].id \notin stale
             /\ \A n \in 1..Len(runs[c]) : runs[c][n].id \in stale => n < m
    \/ /\ s.keep = "days"
       /\ \A n \in 1..Len(runs[c]) : runs[c][n].id \in stale => runs[c][n].started + s.n < time

Lets(k) ==
    LET c == job[k].config
        stale == job[k].stale
    IN
    /\ job[k].at \in Retaining =>
          /\ stale # {} /\ \A id \in stale : id <= born
          /\ \A n \in 1..Len(runs[c]) : runs[c][n].id \in stale => runs[c][n].status = "success"
          /\ Excess(c, job[k].setting, stale)
    /\ job[k].at = "marking" =>
          \A a \in DOMAIN archives : a.config = c /\ a.id = Newest(stale) => OutOfReach(a)

StaleInv == \A k \in Carriers : Lets(k)

(* Without an edit everybody goes by the configuration as it is.           *)
UneditedInv ==
    counts.edit = 0 =>
        /\ \A a \in DOMAIN archives : a.to = setting[a.config].to
        /\ \A k \in Carriers : job[k].at # "idle" => job[k].setting = setting[job[k].config]
        /\ \A e \in pending : e.setting = setting[e.config]

(* What a row has to say of the archive of its run.                        *)
Explains(row, a) == row.status = "success" \/ (row.status = "failed" /\ a.to = "sftp")

AccountedInv ==
    counts.fault = 0 /\ counts.crash = 0 =>
        /\ \A a \in DOMAIN archives :
              \/ \E n \in 1..Len(runs[a.config]) : runs[a.config][n].id = a.id /\ Explains(runs[a.config][n], a)
              \/ \E k \in Carriers : /\ job[k].at \in {"recording", "failing"}
                                     /\ job[k].config = a.config /\ job[k].run = a.id
        /\ \A c \in Configs : \A n \in 1..Len(runs[c]) : runs[c][n].status = "running" =>
              \E k \in Carriers : job[k].at \in Unfinished /\ job[k].config = c /\ job[k].run = runs[c][n].id

(* A configuration the pass still has to start was not started by it in    *)
(* this period.                                                            *)
Unserved(c) == \A n \in 1..Len(runs[c]) : runs[c][n].by = Scheduler => runs[c][n].started < time

ServesNext ==
    job[Scheduler].at \in {"asked", "claimed"} =>
        /\ Unserved(job[Scheduler].config)
        /\ \A e \in pending : e.config # job[Scheduler].config

ScheduleInv ==
    /\ \A e \in pending : Unserved(e.config)
    /\ \A e, f \in pending : e.config = f.config => e = f
    /\ ServesNext
    /\ ScheduledOncePerPeriod

(* What a step keeps while nobody restores a database.                     *)
Past ==
    /\ TypeInv /\ RowsInv /\ JobRowInv /\ ArchivesInv /\ StaleInv
    /\ UneditedInv /\ AccountedInv /\ ScheduleInv /\ DestinationMatches

(* What is counted only grows.                                             *)
Growing ==
    /\ counts.edit \in Nat /\ counts'.edit \in Nat /\ counts.edit <= counts'.edit
    /\ counts'.fault = 0 => counts.fault = 0
    /\ counts'.crash = 0 => counts.crash = 0

HistoryInv == counts \in CountShape /\ (NeverRestored => Past)

-----------------------------------------------------------------------------
(* One thing that is counted happens: none of the counts falls.            *)
LEMMA Troubles ==
    ASSUME counts \in CountShape, NEW what \in {"requests", "holds", "edit", "fault", "crash", "restore"},
           counts' = [counts EXCEPT ![what] = @ + 1]
    PROVE  counts' \in CountShape /\ Growing /\ counts'[what] # 0 /\ counts.restore <= counts'.restore
BY DEF CountShape, Growing

LEMMA NoTrouble ==
    ASSUME counts \in CountShape, UNCHANGED counts
    PROVE  counts' \in CountShape /\ Growing /\ counts.restore <= counts'.restore
BY DEF CountShape, Growing

(* No step takes back what was counted.                                    *)
LEMMA CountsGrow ==
    ASSUME counts \in CountShape, [Next]_vars
    PROVE  counts' \in CountShape /\ Growing /\ counts.restore <= counts'.restore
<1>1. \/ UNCHANGED counts
      \/ \E what \in {"requests", "holds", "edit", "fault", "crash", "restore"} :
            counts' = [counts EXCEPT ![what] = @ + 1]
  <2>1. ASSUME NEW k \in Carriers, Carry(k)
        PROVE  UNCHANGED counts \/ counts' = [counts EXCEPT !["fault"] = @ + 1]
    BY <2>1 DEF Carry, Claim, Begin, NotBegun, Perform, RecordFailure, RecordSuccess, Rotate,
       RemoveArchive, MarkRotated, Works, Fails, Happens
  <2>2. CASE \E k \in Carriers : Carry(k)
    BY <2>1, <2>2
  <2>3. CASE SchedulerPass \/ SchedulerTakes \/ ResumeBackups \/ Tick \/ UNCHANGED vars
    BY <2>3 DEF SchedulerPass, SchedulerTakes, ResumeBackups, Tick, vars
  <2>4. CASE \E r \in Requests : RequestBackup(r)
    BY <2>4 DEF RequestBackup, Counts
  <2>5. CASE HoldForRestore \/ RestoreArchive \/ EditConfig \/ Crash
    BY <2>5 DEF HoldForRestore, RestoreArchive, EditConfig, Crash, Counts, Happens
  <2> QED
    BY <2>2, <2>3, <2>4, <2>5 DEF Next
<1> QED
  BY <1>1, Troubles, NoTrouble

(* A job that is not idle carries a configuration.                         *)
LEMMA IsBusy ==
    ASSUME TypeInv, NEW k \in Carriers, job[k].at # "idle"
    PROVE  job[k] \in JobShape
BY DEF TypeInv, Idle

(* One carrier changes its job: to rest, to ask, or to go on.              *)
LEMMA JobBecomes ==
    ASSUME TypeInv, NEW k \in Carriers, NEW j \in {Idle} \cup JobShape, job' = [job EXCEPT ![k] = j]
    PROVE  /\ job' \in [Carriers -> {Idle} \cup JobShape]
           /\ \A l \in Carriers : job'[l] = IF l = k THEN j ELSE job[l]
BY DEF TypeInv

LEMMA JobRests ==
    ASSUME TypeInv, NEW k \in Carriers, Releases(k) \/ job' = [job EXCEPT ![k] = Idle]
    PROVE  /\ job' \in [Carriers -> {Idle} \cup JobShape]
           /\ job'[k].at = "idle"
           /\ \A l \in Carriers \ {k} : job'[l] = job[l]
<1>1. job' = [job EXCEPT ![k] = Idle]
  BY DEF Releases
<1>2. /\ job' \in [Carriers -> {Idle} \cup JobShape]
      /\ \A l \in Carriers : job'[l] = IF l = k THEN Idle ELSE job[l]
  BY <1>1, JobBecomes
<1> QED
  BY <1>2 DEF Idle

LEMMA JobIsAsked ==
    ASSUME TypeInv, NEW k \in Carriers, NEW c \in Configs, NEW s \in Settings,
           job' = [job EXCEPT ![k] = Job("asked", c, s)]
    PROVE  /\ job' \in [Carriers -> {Idle} \cup JobShape]
           /\ job'[k].at = "asked" /\ job'[k].config = c /\ job'[k].setting = s
           /\ \A l \in Carriers \ {k} : job'[l] = job[l]
<1>1. Job("asked", c, s) \in JobShape
  BY DEF Job, JobShape, Steps
<1> QED
  BY <1>1, JobBecomes DEF Job

LEMMA JobGoes ==
    ASSUME TypeInv, NEW k \in Carriers, job[k].at # "idle", NEW at \in Steps, Goes(k, at)
    PROVE  /\ job' \in [Carriers -> {Idle} \cup JobShape]
           /\ job'[k].at = at /\ job'[k].config = job[k].config
           /\ job'[k].setting = job[k].setting /\ job'[k].run = job[k].run
           /\ job'[k].stale = job[k].stale
           /\ \A l \in Carriers \ {k} : job'[l] = job[l]
<1> DEFINE j == [job[k] EXCEPT !.at = at]
<1>1. job[k] \in JobShape
  BY IsBusy
<1>2. /\ j \in JobShape /\ j.at = at /\ j.config = job[k].config /\ j.setting = job[k].setting
      /\ j.run = job[k].run /\ j.stale = job[k].stale
  BY <1>1 DEF JobShape
<1>3. job' = [job EXCEPT ![k] = j]
  BY DEF Goes
<1> HIDE DEF j
<1> QED
  BY <1>2, <1>3, JobBecomes

LEMMA JobGoesWithRun ==
    ASSUME TypeInv, NEW k \in Carriers, job[k].at # "idle", NEW at \in Steps, NEW id \in Nat,
           job' = [job EXCEPT ![k].at = at, ![k].run = id]
    PROVE  /\ job' \in [Carriers -> {Idle} \cup JobShape]
           /\ job'[k].at = at /\ job'[k].config = job[k].config
           /\ job'[k].setting = job[k].setting /\ job'[k].run = id
           /\ \A l \in Carriers \ {k} : job'[l] = job[l]
<1> DEFINE j == [job[k] EXCEPT !.at = at, !.run = id]
<1>1. job[k] \in JobShape
  BY IsBusy
<1>2. j \in JobShape /\ j.at = at /\ j.config = job[k].config /\ j.setting = job[k].setting /\ j.run = id
  BY <1>1 DEF JobShape
<1>3. job' = [job EXCEPT ![k] = j]
  BY DEF TypeInv
<1> HIDE DEF j
<1> QED
  BY <1>2, <1>3, JobBecomes

LEMMA JobGoesWithStale ==
    ASSUME TypeInv, NEW k \in Carriers, job[k].at # "idle", NEW at \in Steps, NEW ids \in SUBSET Nat,
           job' = [job EXCEPT ![k].at = at, ![k].stale = ids]
    PROVE  /\ job' \in [Carriers -> {Idle} \cup JobShape]
           /\ job'[k].at = at /\ job'[k].config = job[k].config
           /\ job'[k].setting = job[k].setting /\ job'[k].stale = ids
           /\ \A l \in Carriers \ {k} : job'[l] = job[l]
<1> DEFINE j == [job[k] EXCEPT !.at = at, !.stale = ids]
<1>1. job[k] \in JobShape
  BY IsBusy
<1>2. j \in JobShape /\ j.at = at /\ j.config = job[k].config /\ j.setting = job[k].setting /\ j.stale = ids
  BY <1>1 DEF JobShape
<1>3. job' = [job EXCEPT ![k] = j]
  BY DEF TypeInv
<1> HIDE DEF j
<1> QED
  BY <1>2, <1>3, JobBecomes

(* FinishRun and MarkRotated change one field of the row they name.        *)
LEMMA StatusIsSet ==
    ASSUME TypeInv, NEW c \in Configs, NEW id \in Nat, NEW v \in Status, SetsRun(c, id, "status", v)
    PROVE  /\ runs' \in [Configs -> Seq(RowShape)]
           /\ \A d \in Configs : Len(runs'[d]) = Len(runs[d])
           /\ \A d \in Configs : \A n \in 1..Len(runs[d]) :
                 /\ runs'[d][n].id = runs[d][n].id /\ runs'[d][n].started = runs[d][n].started
                 /\ runs'[d][n].by = runs[d][n].by /\ runs'[d][n].rotated = runs[d][n].rotated
                 /\ runs'[d][n].status = IF d = c /\ runs[d][n].id = id THEN v ELSE runs[d][n].status
<1> DEFINE Row(n) == IF runs[c][n].id = id THEN [runs[c][n] EXCEPT !["status"] = v] ELSE runs[c][n]
           new == [n \in DOMAIN runs[c] |-> Row(n)]
<1>1. runs' = [runs EXCEPT ![c] = new]
  BY DEF SetsRun
<1>2. runs[c] \in Seq(RowShape) /\ DOMAIN runs[c] = 1..Len(runs[c]) /\ Len(runs[c]) \in Nat
  BY DEF TypeInv
<1>3. ASSUME NEW n \in 1..Len(runs[c])
      PROVE  /\ Row(n) \in RowShape
             /\ Row(n).id = runs[c][n].id /\ Row(n).started = runs[c][n].started
             /\ Row(n).by = runs[c][n].by /\ Row(n).rotated = runs[c][n].rotated
             /\ Row(n).status = IF runs[c][n].id = id THEN v ELSE runs[c][n].status
  <2>1. runs[c][n] \in RowShape
    BY <1>2
  <2> QED
    BY <2>1 DEF RowShape
<1> HIDE DEF Row
<1>4. new \in Seq(RowShape) /\ Len(new) = Len(runs[c])
  BY <1>2, <1>3
<1>5. \A n \in 1..Len(runs[c]) : new[n] = Row(n)
  BY <1>2
<1> HIDE DEF new
<1>6. /\ runs' \in [Configs -> Seq(RowShape)]
      /\ \A d \in Configs : runs'[d] = IF d = c THEN new ELSE runs[d]
  BY <1>1, <1>4 DEF TypeInv
<1> QED
  BY <1>3, <1>4, <1>5, <1>6

LEMMA RowIsMarked ==
    ASSUME TypeInv, NEW c \in Configs, NEW id \in Nat, SetsRun(c, id, "rotated", TRUE)
    PROVE  /\ runs' \in [Configs -> Seq(RowShape)]
           /\ \A d \in Configs : Len(runs'[d]) = Len(runs[d])
           /\ \A d \in Configs : \A n \in 1..Len(runs[d]) :
                 /\ runs'[d][n].id = runs[d][n].id /\ runs'[d][n].started = runs[d][n].started
                 /\ runs'[d][n].by = runs[d][n].by /\ runs'[d][n].status = runs[d][n].status
                 /\ runs'[d][n].rotated <=> (runs[d][n].rotated \/ (d = c /\ runs[d][n].id = id))
<1> DEFINE Row(n) == IF runs[c][n].id = id THEN [runs[c][n] EXCEPT !["rotated"] = TRUE] ELSE runs[c][n]
           new == [n \in DOMAIN runs[c] |-> Row(n)]
<1>1. runs' = [runs EXCEPT ![c] = new]
  BY DEF SetsRun
<1>2. runs[c] \in Seq(RowShape) /\ DOMAIN runs[c] = 1..Len(runs[c]) /\ Len(runs[c]) \in Nat
  BY DEF TypeInv
<1>3. ASSUME NEW n \in 1..Len(runs[c])
      PROVE  /\ Row(n) \in RowShape
             /\ Row(n).id = runs[c][n].id /\ Row(n).started = runs[c][n].started
             /\ Row(n).by = runs[c][n].by /\ Row(n).status = runs[c][n].status
             /\ Row(n).rotated <=> (runs[c][n].rotated \/ runs[c][n].id = id)
  <2>1. runs[c][n] \in RowShape
    BY <1>2
  <2> QED
    BY <2>1 DEF RowShape
<1> HIDE DEF Row
<1>4. new \in Seq(RowShape) /\ Len(new) = Len(runs[c])
  BY <1>2, <1>3
<1>5. \A n \in 1..Len(runs[c]) : new[n] = Row(n)
  BY <1>2
<1> HIDE DEF new
<1>6. /\ runs' \in [Configs -> Seq(RowShape)]
      /\ \A d \in Configs : runs'[d] = IF d = c THEN new ELSE runs[d]
  BY <1>1, <1>4 DEF TypeInv
<1>7. ASSUME NEW d \in Configs, NEW n \in 1..Len(runs[d])
      PROVE  /\ runs'[d][n].id = runs[d][n].id /\ runs'[d][n].started = runs[d][n].started
             /\ runs'[d][n].by = runs[d][n].by /\ runs'[d][n].status = runs[d][n].status
             /\ runs'[d][n].rotated <=> (runs[d][n].rotated \/ (d = c /\ runs[d][n].id = id))
  <2>1. CASE d = c
    <3>1. runs'[d][n] = Row(n) /\ n \in 1..Len(runs[c])
      BY <1>5, <1>6, <2>1
    <3> QED
      BY <1>3, <2>1, <3>1
  <2>2. CASE d # c
    BY <1>6, <2>2
  <2> QED
    BY <2>1, <2>2
<1> QED
  BY <1>4, <1>6, <1>7

(* StartRun puts a row behind the others.                                  *)
LEMMA RowIsBegun ==
    ASSUME TypeInv, NEW c \in Configs, NEW r \in RowShape, runs' = [runs EXCEPT ![c] = Append(@, r)]
    PROVE  /\ runs' \in [Configs -> Seq(RowShape)]
           /\ Len(runs'[c]) = Len(runs[c]) + 1 /\ runs'[c][Len(runs[c]) + 1] = r
           /\ \A n \in 1..Len(runs[c]) : runs'[c][n] = runs[c][n]
           /\ \A d \in Configs \ {c} : runs'[d] = runs[d]
BY DEF TypeInv

-----------------------------------------------------------------------------
(* Two at work carry two configurations.                                   *)
LEMMA Alone ==
    ASSUME IInv, NEW k \in Carriers, NEW l \in Carriers \ {k}, AtWork(job[k]), AtWork(job[l])
    PROVE  job[l].config # job[k].config
BY DEF IInv, Exclusive

(* An excess is seen in the rows of its configuration, and in the time.    *)
LEMMA ExcessStays ==
    ASSUME NEW c, NEW s, NEW stale, Excess(c, s, stale), UNCHANGED time,
           Len(runs'[c]) = Len(runs[c]),
           \A n \in 1..Len(runs[c]) :
              /\ runs'[c][n].id = runs[c][n].id /\ runs'[c][n].started = runs[c][n].started
              /\ Held(runs[c][n]) /\ runs[c][n].id \notin stale => Held(runs'[c][n])
    PROVE  Excess(c, s, stale)'
<1>1. CASE s.keep = "count"
  <2>1. PICK m \in 1..Len(runs[c]) :
           /\ Held(runs[c][m]) /\ runs[c][m].id \notin stale
           /\ \A n \in 1..Len(runs[c]) : runs[c][n].id \in stale => n < m
    BY <1>1 DEF Excess
  <2>2. /\ m \in 1..Len(runs'[c]) /\ Held(runs'[c][m]) /\ runs'[c][m].id \notin stale
        /\ \A n \in 1..Len(runs'[c]) : runs'[c][n].id \in stale => n < m
    BY <2>1
  <2> QED
    BY <1>1, <2>2 DEF Excess
<1>2. CASE s.keep = "days"
  <2>1. \A n \in 1..Len(runs[c]) : runs[c][n].id \in stale => runs[c][n].started + s.n < time
    BY <1>2 DEF Excess
  <2>2. \A n \in 1..Len(runs'[c]) : runs'[c][n].id \in stale => runs'[c][n].started + s.n < time'
    BY <2>1
  <2> QED
    BY <1>2, <2>2 DEF Excess
<1> QED
  BY <1>1, <1>2 DEF Excess

(* A step that changes nothing but what one carrier is doing, and takes at *)
(* most something off the pass.                                            *)
LEMMA OneJobChanges ==
    ASSUME Past, Growing, UNCHANGED <<time, born, setting, runs, archives>>, pending' \subseteq pending,
           NEW k \in Carriers, job' \in [Carriers -> {Idle} \cup JobShape],
           \A l \in Carriers \ {k} : job'[l] = job[l],
           HasRow(k)', Lets(k)', ServesNext',
           counts'.edit = 0 /\ job'[k].at # "idle" => job'[k].setting = setting[job'[k].config],
           job[k].at \in Unfinished => counts'.fault # 0
    PROVE  Past'
<1> USE DEF Past
<1>1. TypeInv' /\ ArchivesInv' /\ RowsInv'
  BY DEF TypeInv, ArchivesInv, RowsInv
<1>2. JobRowInv'
  BY DEF JobRowInv, HasRow, IsHeld
<1>3. \A a : OutOfReach(a) => OutOfReach(a)'
  BY DEF OutOfReach, Growing
<1>4. StaleInv'
  <2>1. ASSUME NEW l \in Carriers \ {k} PROVE Lets(l)'
    <3>1. Lets(l) /\ job'[l] = job[l]
      BY DEF StaleInv
    <3>2. \A c, s, stale : Excess(c, s, stale) => Excess(c, s, stale)'
      BY DEF Excess, Held
    <3> QED
      BY <1>3, <3>1, <3>2 DEF Lets
  <2> QED
    BY <2>1 DEF StaleInv
<1>5. UneditedInv'
  BY DEF UneditedInv, Growing
<1>6. AccountedInv'
  <2> SUFFICES ASSUME counts'.fault = 0, counts'.crash = 0 PROVE AccountedInv'
    BY DEF AccountedInv
  <2>1. counts.fault = 0 /\ counts.crash = 0 /\ job[k].at \notin Unfinished
    BY DEF Growing
  <2>2. \A l \in Carriers : job[l].at \in Unfinished => job'[l] = job[l]
    BY <2>1
  <2> QED
    BY <2>1, <2>2 DEF AccountedInv, Unfinished
<1>7. ScheduleInv'
  BY DEF ScheduleInv, Unserved, ScheduledOncePerPeriod
<1>8. DestinationMatches'
  BY <1>3 DEF DestinationMatches, IsHeld, Held, Newer
<1> QED
  BY <1>1, <1>2, <1>4, <1>5, <1>6, <1>7, <1>8

(* A request asks for a backup.                                            *)
LEMMA RequestKeepsHistory ==
    ASSUME Past, Growing, NEW r \in Requests, RequestBackup(r)
    PROVE  Past'
<1>1. PICK c \in Configs : job' = [job EXCEPT ![r] = Job("asked", c, setting[c])]
  BY DEF RequestBackup
<1>2. r \in Carriers /\ setting[c] \in Settings /\ TypeInv /\ r # Scheduler
  BY BackupAssumption DEF Carriers, Past, TypeInv
<1>3. /\ job' \in [Carriers -> {Idle} \cup JobShape]
      /\ job'[r].at = "asked" /\ job'[r].config = c /\ job'[r].setting = setting[c]
      /\ \A l \in Carriers \ {r} : job'[l] = job[l]
  BY <1>1, <1>2, JobIsAsked
<1>4. UNCHANGED <<time, born, setting, runs, archives, pending>> /\ job[r].at = "idle"
  BY DEF RequestBackup, rows
<1>5. HasRow(r)' /\ Lets(r)'
  BY <1>3 DEF HasRow, Lets, Unfinished, Retaining
<1>6. ServesNext'
  BY <1>2, <1>3, <1>4 DEF Past, ScheduleInv, ServesNext, Unserved, Carriers
<1> QED
  BY <1>2, <1>3, <1>4, <1>5, <1>6, OneJobChanges DEF Unfinished

(* The scheduler asks for the next configuration of its pass.              *)
LEMMA TakesKeepsHistory ==
    ASSUME Past, Growing, SchedulerTakes
    PROVE  Past'
<1>1. PICK e \in pending : /\ pending' = pending \ {e}
                           /\ job' = [job EXCEPT ![Scheduler] = Job("asked", e.config, e.setting)]
  BY DEF SchedulerTakes
<1>2. e.config \in Configs /\ e.setting \in Settings /\ Scheduler \in Carriers /\ TypeInv
  BY DEF Past, TypeInv, Carriers
<1>3. /\ job' \in [Carriers -> {Idle} \cup JobShape]
      /\ job'[Scheduler].at = "asked" /\ job'[Scheduler].config = e.config
      /\ job'[Scheduler].setting = e.setting
      /\ \A l \in Carriers \ {Scheduler} : job'[l] = job[l]
  <2>1. PICK c \in Configs, s \in Settings : c = e.config /\ s = e.setting
    BY <1>2
  <2>2. job' = [job EXCEPT ![Scheduler] = Job("asked", c, s)]
    BY <1>1, <2>1
  <2>3. /\ job' \in [Carriers -> {Idle} \cup JobShape]
        /\ job'[Scheduler].at = "asked" /\ job'[Scheduler].config = c
        /\ job'[Scheduler].setting = s
        /\ \A l \in Carriers \ {Scheduler} : job'[l] = job[l]
    <3>1. Scheduler \in Carriers /\ TypeInv
      BY <1>2
    <3> QED
      BY <3>1, <2>2, JobIsAsked
  <2> QED
    BY <2>1, <2>3
<1>4. UNCHANGED <<time, born, setting, runs, archives, counts>> /\ job[Scheduler].at = "idle"
  BY DEF SchedulerTakes, rows
<1>5. HasRow(Scheduler)' /\ Lets(Scheduler)'
  BY <1>3 DEF HasRow, Lets, Unfinished, Retaining
<1>6. ServesNext'
  BY <1>1, <1>3, <1>4 DEF Past, ScheduleInv, ServesNext, Unserved
<1>7. counts'.edit = 0 => e.setting = setting[e.config]
  BY <1>4 DEF Past, UneditedInv
<1> QED
  BY <1>1, <1>2, <1>3, <1>4, <1>5, <1>6, <1>7, OneJobChanges DEF Unfinished

(* A carrier claims its configuration, or is turned away.                  *)
LEMMA ClaimKeepsHistory ==
    ASSUME Past, Growing, NEW k \in Carriers, Claim(k)
    PROVE  Past'
<1>0. TypeInv /\ job[k].at = "asked" /\ UNCHANGED <<time, born, setting, runs, archives, pending, counts>>
  BY DEF Past, Claim, rows
<1>1. CASE Goes(k, "claimed")
  <2>1. /\ job' \in [Carriers -> {Idle} \cup JobShape]
        /\ job'[k].at = "claimed" /\ job'[k].config = job[k].config /\ job'[k].setting = job[k].setting
        /\ \A l \in Carriers \ {k} : job'[l] = job[l]
    BY <1>0, <1>1, JobGoes DEF Steps
  <2>2. HasRow(k)' /\ Lets(k)'
    BY <2>1 DEF HasRow, Lets, Unfinished, Retaining
  <2>3. ServesNext'
    BY <1>0, <2>1 DEF Past, ScheduleInv, ServesNext, Unserved, Carriers
  <2>4. counts'.edit = 0 => job'[k].setting = setting[job'[k].config]
    BY <1>0, <2>1 DEF Past, UneditedInv
  <2> QED
    BY <1>0, <2>1, <2>2, <2>3, <2>4, OneJobChanges DEF Unfinished
<1>2. CASE job' = [job EXCEPT ![k] = Idle]
  <2>1. /\ job' \in [Carriers -> {Idle} \cup JobShape]
        /\ job'[k].at = "idle"
        /\ \A l \in Carriers \ {k} : job'[l] = job[l]
    BY <1>0, <1>2, JobRests
  <2>2. HasRow(k)' /\ Lets(k)'
    BY <2>1 DEF HasRow, Lets, Unfinished, Retaining
  <2>3. ServesNext'
    BY <1>0, <2>1 DEF Past, ScheduleInv, ServesNext, Unserved, Carriers
  <2> QED
    BY <1>0, <2>1, <2>2, <2>3, OneJobChanges DEF Unfinished
<1> QED
  BY <1>1, <1>2 DEF Claim

(* A carrier that gives up, or is done, with the rows as they are.         *)
LEMMA GivingUpKeepsHistory ==
    ASSUME Past, Growing, NEW k \in Carriers, Releases(k),
           UNCHANGED <<time, born, setting, runs, archives, pending>>,
           job[k].at \in Unfinished => counts'.fault # 0
    PROVE  Past'
<1>1. /\ job' \in [Carriers -> {Idle} \cup JobShape]
      /\ job'[k].at = "idle"
      /\ \A l \in Carriers \ {k} : job'[l] = job[l]
  BY JobRests DEF Past
<1>2. HasRow(k)' /\ Lets(k)'
  BY <1>1 DEF HasRow, Lets, Unfinished, Retaining
<1>3. ServesNext'
  BY <1>1 DEF Past, ScheduleInv, ServesNext, Unserved, Carriers
<1> QED
  BY <1>1, <1>2, <1>3, OneJobChanges

(* A step no part of the history sees.                                     *)
LEMMA UnseenKeepsHistory ==
    ASSUME Past, Growing, UNCHANGED <<time, born, setting, runs, archives, job, pending>>
    PROVE  Past'
<1> USE DEF Past
<1>1. TypeInv' /\ ArchivesInv' /\ RowsInv' /\ JobRowInv'
  BY DEF TypeInv, ArchivesInv, RowsInv, JobRowInv, HasRow, IsHeld
<1>2. \A a : OutOfReach(a) => OutOfReach(a)'
  BY DEF OutOfReach, Growing
<1>3. StaleInv'
  <2>1. \A c, s, stale : Excess(c, s, stale) => Excess(c, s, stale)'
    BY DEF Excess, Held
  <2> QED
    BY <1>2, <2>1 DEF StaleInv, Lets
<1>4. UneditedInv' /\ AccountedInv'
  BY DEF UneditedInv, AccountedInv, Growing
<1>5. ScheduleInv'
  BY DEF ScheduleInv, ServesNext, Unserved, ScheduledOncePerPeriod
<1>6. DestinationMatches'
  BY <1>2 DEF DestinationMatches, IsHeld, Held, Newer
<1> QED
  BY <1>1, <1>3, <1>4, <1>5, <1>6

(* A pass reads what is due.                                               *)
LEMMA PassKeepsHistory ==
    ASSUME Past, Growing, SchedulerPass
    PROVE  Past'
<1> USE DEF Past
<1>1. /\ UNCHANGED <<time, born, setting, runs, archives, job, counts>>
      /\ job[Scheduler].at = "idle"
      /\ pending' = {[config |-> c, setting |-> setting[c]] : c \in {d \in Configs : IsDue(d)}}
  BY DEF SchedulerPass, rows
<1>2. TypeInv' /\ ArchivesInv' /\ RowsInv' /\ JobRowInv'
  BY <1>1 DEF TypeInv, ArchivesInv, RowsInv, JobRowInv, HasRow, IsHeld
<1>3. StaleInv' /\ DestinationMatches'
  BY <1>1 DEF StaleInv, Lets, Excess, Held, OutOfReach, DestinationMatches, IsHeld, Newer
<1>4. UneditedInv' /\ AccountedInv'
  BY <1>1 DEF UneditedInv, AccountedInv
<1>5. ASSUME NEW c \in Configs, IsDue(c) PROVE Unserved(c)
  <2>1. runs[c] \in Seq(RowShape) /\ Len(runs[c]) \in Nat /\ time \in Nat
    BY DEF TypeInv
  <2>2. ASSUME NEW n \in 1..Len(runs[c]) PROVE runs[c][n].started < time
    <3>1. Len(runs[c]) \in 1..Len(runs[c]) /\ runs[c] # <<>>
      BY <2>1
    <3>2. LastStarted(c) = runs[c][Len(runs[c])].started /\ LastStarted(c) < time
      BY <1>5, <3>1 DEF IsDue, LastStarted
    <3>3. runs[c][n] \in RowShape /\ runs[c][Len(runs[c])] \in RowShape
      BY <2>1, <3>1
    <3>4. n = Len(runs[c]) \/ runs[c][n].started <= runs[c][Len(runs[c])].started
      BY <2>1, <3>1 DEF RowsInv
    <3> QED
      BY <2>1, <3>2, <3>3, <3>4 DEF RowShape
  <2> QED
    BY <2>2 DEF Unserved
<1>6. ScheduleInv'
  BY <1>1, <1>5 DEF ScheduleInv, ServesNext, Unserved, ScheduledOncePerPeriod
<1> QED
  BY <1>2, <1>3, <1>4, <1>6

(* A configuration is given one of the settings there are.                 *)
LEMMA SettingsAreKnown ==
    ASSUME counts \in CountShape, EditConfig, setting \in [Configs -> Settings]
    PROVE  setting' \in [Configs -> Settings]
<1>1. bound.settings \subseteq Settings
  BY BackupAssumption DEF bound, CountShape
<1> QED
  BY <1>1 DEF EditConfig

(* A configuration is changed or withdrawn.                                *)
LEMMA EditKeepsHistory ==
    ASSUME Past, Growing, EditConfig, counts'.edit # 0, counts \in CountShape
    PROVE  Past'
<1> USE DEF Past
<1>1. UNCHANGED <<time, runs, archives, born, job, pending>> /\ counts'.fault = counts.fault
      /\ counts'.crash = counts.crash
  BY DEF EditConfig, Happens, Growing
<1>2. setting' \in [Configs -> Settings]
  BY SettingsAreKnown DEF TypeInv
<1>3. TypeInv' /\ ArchivesInv' /\ RowsInv' /\ JobRowInv'
  <2>1. TypeInv'
    BY <1>1, <1>2 DEF TypeInv
  <2>2. ArchivesInv' /\ RowsInv'
    BY <1>1 DEF ArchivesInv, RowsInv
  <2>3. JobRowInv'
    BY <1>1 DEF JobRowInv, HasRow, IsHeld
  <2> QED
    BY <2>1, <2>2, <2>3
<1>4. \A a : OutOfReach(a) => OutOfReach(a)'
  BY DEF OutOfReach, Growing
<1>5. StaleInv'
  <2>1. \A c, s, stale : Excess(c, s, stale) => Excess(c, s, stale)'
    BY <1>1 DEF Excess, Held
  <2> QED
    BY <1>1, <1>4, <2>1 DEF StaleInv, Lets
<1>6. UneditedInv' /\ AccountedInv'
  BY <1>1 DEF UneditedInv, AccountedInv
<1>7. ScheduleInv'
  BY <1>1 DEF ScheduleInv, ServesNext, Unserved, ScheduledOncePerPeriod
<1>8. DestinationMatches'
  BY <1>1, <1>4 DEF DestinationMatches, IsHeld, Held, Newer
<1> QED
  BY <1>3, <1>5, <1>6, <1>7, <1>8

(* What was older than a retention by days allows stays so.                *)
LEMMA TickKeepsHistory ==
    ASSUME Past, Growing, Tick
    PROVE  Past'
<1> USE DEF Past
<1>1. /\ UNCHANGED <<setting, runs, archives, born, job, pending, counts>>
      /\ time \in Nat /\ time' = time + 1
  BY DEF Tick, rows, TypeInv
<1>2. TypeInv' /\ ArchivesInv' /\ JobRowInv'
  <2>1. TypeInv' /\ ArchivesInv'
    BY <1>1 DEF TypeInv, ArchivesInv
  <2>2. JobRowInv'
    BY <1>1 DEF JobRowInv, HasRow, IsHeld
  <2> QED
    BY <2>1, <2>2
<1>3. \A c \in Configs : \A n \in 1..Len(runs[c]) : runs[c][n] \in RowShape
  BY DEF TypeInv
<1>4. \A c \in Configs : \A n \in 1..Len(runs[c]) : runs[c][n].started \in Nat
  BY <1>3 DEF RowShape
<1>5. \A s \in Settings : s.n \in Nat
  BY BackupAssumption DEF SettingShape
<1>6. RowsInv'
  BY <1>1, <1>4 DEF RowsInv
<1>7. \A c \in Configs, s \in Settings : \A stale : Excess(c, s, stale) => Excess(c, s, stale)'
  <2>1. ASSUME NEW c \in Configs, NEW s \in Settings, NEW stale, Excess(c, s, stale)
        PROVE  Excess(c, s, stale)'
    <3>1. ASSUME NEW n \in 1..Len(runs[c]), runs[c][n].started + s.n < time
          PROVE  runs'[c][n].started + s.n < time'
      <4>1. PICK i \in Nat, j \in Nat, t \in Nat : i = runs[c][n].started /\ j = s.n /\ t = time
        BY <1>1, <1>4, <1>5
      <4>2. i + j < t => i + j < t + 1
        BY ONLY i \in Nat, j \in Nat, t \in Nat
      <4> QED
        BY ONLY <1>1, <3>1, <4>1, <4>2
    <3>2. runs' = runs
      BY <1>1
    <3> QED
      BY ONLY <2>1, <3>1, <3>2 DEF Excess, Held
  <2> QED
    BY <2>1
<1>8. StaleInv'
  <2>1. \A k \in Carriers : job[k].at # "idle" => job[k].config \in Configs /\ job[k].setting \in Settings
    BY IsBusy DEF JobShape
  <2> QED
    BY <1>1, <1>7, <2>1 DEF StaleInv, Lets, OutOfReach, Retaining
<1>9. UneditedInv' /\ AccountedInv'
  BY <1>1 DEF UneditedInv, AccountedInv
<1>10. \A c \in Configs : Unserved(c) => Unserved(c)'
  BY <1>1, <1>4 DEF Unserved
<1>11. ScheduleInv'
  <2>1. \A e \in pending : e.config \in Configs
    BY DEF TypeInv
  <2>2. Scheduler \in Carriers
    BY DEF Carriers
  <2>3. job[Scheduler].at # "idle" => job[Scheduler].config \in Configs
    BY <2>2, IsBusy DEF JobShape
  <2> QED
    BY <1>1, <1>10, <2>1, <2>3 DEF ScheduleInv, ServesNext, ScheduledOncePerPeriod
<1>12. DestinationMatches'
  <2>1. \A d, n : Newer(d, n)' = Newer(d, n)
    BY <1>1 DEF Newer
  <2>2. \A a : OutOfReach(a) => OutOfReach(a)'
    BY <1>1 DEF OutOfReach
  <2>3. ASSUME NEW d \in Configs, NEW n \in 1..Len(runs[d]),
               NEW s \in Settings, runs[d][n].started + s.n < time
        PROVE  runs[d][n].started + s.n < time'
    BY <1>1, <1>4, <1>5, <2>3
  <2> QED
    BY <1>1, <2>1, <2>2, <2>3 DEF DestinationMatches, IsHeld
<1> QED
  BY <1>2, <1>6, <1>8, <1>9, <1>11, <1>12

(* The process is killed.                                                  *)
LEMMA CrashKeepsHistory ==
    ASSUME Past, Growing, Crash, counts'.crash # 0
    PROVE  Past'
<1> USE DEF Past
<1>1. /\ UNCHANGED <<time, setting, runs, archives, born>>
      /\ job' = [k \in Carriers |-> Idle] /\ pending' = {}
  BY DEF Crash, rows
<1>2. \A k \in Carriers : job'[k].at = "idle"
  BY <1>1 DEF Idle
<1>3. TypeInv' /\ ArchivesInv' /\ RowsInv'
  BY <1>1 DEF TypeInv, ArchivesInv, RowsInv
<1>4. JobRowInv' /\ StaleInv' /\ AccountedInv'
  BY <1>2 DEF JobRowInv, HasRow, StaleInv, Lets, Unfinished, Retaining, AccountedInv
<1>5. UneditedInv'
  BY <1>1, <1>2 DEF UneditedInv, Growing
<1>6. ScheduleInv'
  BY <1>1, <1>2 DEF ScheduleInv, ServesNext, ScheduledOncePerPeriod, Carriers
<1>7. DestinationMatches'
  BY <1>1 DEF DestinationMatches, OutOfReach, IsHeld, Held, Newer, Growing
<1> QED
  BY <1>3, <1>4, <1>5, <1>6, <1>7

(* A row is begun: behind all others, at this moment, by its carrier.      *)
LEMMA BeginKeepsHistory ==
    ASSUME IInv, Past, Growing, NEW k \in Carriers, Begin(k), Fails => counts'.fault # 0
    PROVE  Past'
<1> DEFINE c == job[k].config
           id == born + 1
           r == Run(id, k)
           size == Len(runs[c])
<1> USE DEF Past
<1>1. /\ UNCHANGED <<time, setting, archives, pending>> /\ born' = id /\ job[k].at = "claimed"
      /\ runs' = [runs EXCEPT ![c] = Append(@, r)]
  BY DEF Begin
<1>2. time \in Nat /\ born \in Nat /\ id \in Nat /\ c \in Configs /\ job[k] \in JobShape /\ AtWork(job[k])
  BY <1>1, IsBusy DEF TypeInv, JobShape, AtWork
<1>3. r \in RowShape /\ r.id = id /\ r.status = "running" /\ ~r.rotated /\ r.started = time /\ r.by = k
  BY <1>2 DEF Run, RowShape, Status, TypeInv
<1> HIDE DEF c, id, r
<1>4. /\ runs' \in [Configs -> Seq(RowShape)]
      /\ Len(runs'[c]) = size + 1 /\ runs'[c][size + 1] = r
      /\ \A n \in 1..size : runs'[c][n] = runs[c][n]
      /\ \A d \in Configs \ {c} : runs'[d] = runs[d]
  BY <1>1, <1>2, <1>3, RowIsBegun
<1>5. /\ job' \in [Carriers -> {Idle} \cup JobShape]
      /\ \A l \in Carriers \ {k} : job'[l] = job[l]
      /\ \/ /\ Works /\ job'[k].at = "performing" /\ job'[k].config = c
            /\ job'[k].setting = job[k].setting /\ job'[k].run = id
         \/ counts'.fault # 0 /\ job'[k].at = "idle"
  <2>1. CASE job' = [job EXCEPT ![k].at = "performing", ![k].run = id] /\ Works
    BY <1>1, <1>2, <2>1, JobGoesWithRun DEF Steps, c
  <2>2. CASE Releases(k) /\ counts'.fault # 0
    BY <1>1, <2>2, JobRests
  <2> QED
    BY <2>1, <2>2 DEF Begin, id
<1>6. \A d \in Configs : /\ Len(runs[d]) \in Nat
                         /\ \A n \in 1..Len(runs[d]) : runs[d][n] \in RowShape
  BY DEF TypeInv
<1>6a. size \in Nat /\ \A d \in Configs : \A n \in 1..Len(runs[d]) :
          runs[d][n].id \in Nat /\ runs[d][n].started \in Nat
  BY <1>2, <1>6 DEF RowShape
<1>7. TypeInv'
  BY <1>1, <1>2, <1>4, <1>5 DEF TypeInv
<1>8. RowsInv'
  <2>1. ASSUME NEW d \in Configs \ {c}, NEW n \in 1..Len(runs'[d])
        PROVE  /\ runs'[d][n].id <= born' /\ runs'[d][n].started <= time'
               /\ runs'[d][n].rotated => runs'[d][n].status = "success"
               /\ \A m \in 1..Len(runs'[d]) : m < n =>
                    runs'[d][m].id < runs'[d][n].id /\ runs'[d][m].started <= runs'[d][n].started
    <3>1. runs'[d] = runs[d] /\ n \in 1..Len(runs[d])
      BY <1>4, <2>1
    <3>2. runs[d][n].id <= born => runs[d][n].id <= born'
      BY <1>1, <1>2, <1>6a, <3>1 DEF id
    <3> QED
      BY <1>1, <3>1, <3>2 DEF RowsInv
  <2>2. ASSUME NEW n \in 1..Len(runs'[c])
        PROVE  /\ runs'[c][n].id <= born' /\ runs'[c][n].started <= time'
               /\ runs'[c][n].rotated => runs'[c][n].status = "success"
               /\ \A m \in 1..Len(runs'[c]) : m < n =>
                    runs'[c][m].id < runs'[c][n].id /\ runs'[c][m].started <= runs'[c][n].started
    <3>1. CASE n \in 1..size
      BY <1>1, <1>2, <1>4, <1>6a, <3>1 DEF RowsInv, id
    <3>2. CASE n = size + 1
      BY <1>1, <1>2, <1>3, <1>4, <1>6a, <3>2 DEF RowsInv, id
    <3> QED
      BY <1>4, <1>6a, <3>1, <3>2
  <2> QED
    BY <2>1, <2>2 DEF RowsInv
<1>9. \A l \in Carriers \ {k} : AtWork(job[l]) => job[l].config \in Configs \ {c} /\ job[l] \in JobShape
  BY <1>2, Alone, IsBusy DEF AtWork, c, JobShape
<1>10. JobRowInv'
  <2>1. ASSUME NEW l \in Carriers \ {k} PROVE HasRow(l)'
    <3>1. CASE job[l].at \in Unfinished
      <4>1. job'[l] = job[l] /\ HasRow(l) /\ job[l] \in JobShape /\ job[l].config \in Configs \ {c}
        BY <1>5, <1>9, <3>1 DEF JobRowInv, Unfinished, AtWork
      <4>2. runs'[job[l].config] = runs[job[l].config]
        BY <1>4, <4>1
      <4>3. job[l].run <= born => job[l].run <= born'
        BY <1>1, <1>2, <4>1 DEF JobShape, id
      <4> QED
        BY <1>1, <4>1, <4>2, <4>3 DEF HasRow, IsHeld
    <3>2. CASE job[l].at \notin Unfinished
      BY <1>5, <3>2 DEF HasRow, Unfinished
    <3> QED
      BY <3>1, <3>2
  <2>2. HasRow(k)'
    <3>1. \A a \in DOMAIN archives : a.id # id /\ a.id \in Nat
      BY <1>2 DEF ArchivesInv, TypeInv, ArchiveShape, id
    <3>2. \A n \in 1..size : runs[c][n].id # id
      BY <1>2, <1>6a DEF RowsInv, id
    <3>3. \A n \in 1..Len(runs'[c]) : n \in 1..size \/ n = size + 1
      BY <1>4, <1>6a
    <3>4. \A n \in 1..Len(runs'[c]) : runs'[c][n].id = id => runs'[c][n].status = "running"
      BY <1>3, <1>4, <3>2, <3>3
    <3>5. \E n \in 1..Len(runs'[c]) : runs'[c][n].id = id
      <4>1. size + 1 \in 1..Len(runs'[c])
        BY <1>4, <1>6a
      <4> QED
        BY <1>3, <1>4, <4>1
    <3>6. CASE /\ job'[k].at = "performing" /\ job'[k].config = c /\ job'[k].run = id
      BY <1>1, <1>2, <3>1, <3>4, <3>5, <3>6 DEF HasRow
    <3>7. CASE job'[k].at = "idle"
      BY <3>7 DEF HasRow, Unfinished
    <3> QED
      BY <1>5, <3>6, <3>7
  <2> QED
    BY <2>1, <2>2 DEF JobRowInv
<1>11. ArchivesInv'
  BY <1>1, <1>2 DEF ArchivesInv, TypeInv, ArchiveShape, id
<1>12. \A a : OutOfReach(a) => OutOfReach(a)'
  BY DEF OutOfReach, Growing
<1>13. StaleInv'
  <2>1. Lets(k)'
    BY <1>5 DEF Lets, Retaining
  <2>2. ASSUME NEW l \in Carriers \ {k} PROVE Lets(l)'
    <3>1. CASE job[l].at \in Retaining
      <4>1. job'[l] = job[l] /\ AtWork(job[l])
        BY <1>5, <3>1 DEF Retaining, AtWork
      <4>2. runs'[job[l].config] = runs[job[l].config] /\ job[l].stale \subseteq Nat
        BY <1>4, <1>9, <4>1 DEF JobShape
      <4>3. \A s, stale : Excess(job[l].config, s, stale) => Excess(job[l].config, s, stale)'
        <5>1. ASSUME NEW d, NEW s, NEW stale, runs'[d] = runs[d], Excess(d, s, stale)
              PROVE  Excess(d, s, stale)'
          BY <1>1, <5>1, ExcessStays
        <5> QED
          BY <4>1, <4>2, <5>1
      <4>4. \A i \in job[l].stale : i <= born => i <= born'
        BY <1>1, <1>2, <4>2 DEF id
      <4>5. Lets(l)
        BY DEF StaleInv
      <4> QED
        BY <1>1, <1>12, <3>1, <4>1, <4>2, <4>3, <4>4, <4>5 DEF Lets
    <3>2. CASE job[l].at \notin Retaining
      BY <1>5, <3>2 DEF Lets, Retaining
    <3> QED
      BY <3>1, <3>2
  <2> QED
    BY <2>1, <2>2 DEF StaleInv
<1>14. UneditedInv'
  BY <1>1, <1>2, <1>5 DEF UneditedInv, Growing, c
<1>15. AccountedInv'
  <2> SUFFICES ASSUME counts'.fault = 0, counts'.crash = 0 PROVE AccountedInv'
    BY DEF AccountedInv
  <2>1. counts.fault = 0 /\ counts.crash = 0
    BY DEF Growing
  <2>2. ASSUME NEW a \in DOMAIN archives'
        PROVE  \/ \E n \in 1..Len(runs'[a.config]) :
                     runs'[a.config][n].id = a.id /\ Explains(runs'[a.config][n], a)
               \/ \E l \in Carriers : job'[l].at \in {"recording", "failing"} /\ job'[l].config = a.config /\ job'[l].run = a.id
    <3>1. a \in DOMAIN archives /\ a.config \in Configs
      BY <1>1, <2>2 DEF TypeInv, ArchiveShape
    <3>2. CASE \E n \in 1..Len(runs[a.config]) :
                  runs[a.config][n].id = a.id /\ Explains(runs[a.config][n], a)
      <4>1. PICK n \in 1..Len(runs[a.config]) :
               runs[a.config][n].id = a.id /\ Explains(runs[a.config][n], a)
        BY <3>2
      <4>2. n \in 1..Len(runs'[a.config]) /\ runs'[a.config][n] = runs[a.config][n]
        <5>1. CASE a.config = c
          BY <1>4, <1>6a, <5>1
        <5>2. CASE a.config # c
          BY <1>4, <3>1, <5>2
        <5> QED
          BY <5>1, <5>2
      <4> QED
        BY <4>1, <4>2
    <3>3. CASE \E l \in Carriers : job[l].at \in {"recording", "failing"} /\ job[l].config = a.config /\ job[l].run = a.id
      BY <1>1, <1>5, <3>3
    <3> QED
      BY <2>1, <3>1, <3>2, <3>3 DEF AccountedInv
  <2>3. ASSUME NEW d \in Configs, NEW n \in 1..Len(runs'[d]), runs'[d][n].status = "running"
        PROVE  \E l \in Carriers : job'[l].at \in Unfinished /\ job'[l].config = d /\ job'[l].run = runs'[d][n].id
    <3>1. CASE n \in 1..Len(runs[d])
      <4>1. runs'[d][n] = runs[d][n]
        BY <1>4, <3>1
      <4>2. PICK l \in Carriers : job[l].at \in Unfinished /\ job[l].config = d /\ job[l].run = runs[d][n].id
        BY <2>1, <2>3, <3>1, <4>1 DEF AccountedInv
      <4> QED
        BY <1>1, <1>5, <4>1, <4>2 DEF Unfinished
    <3>2. CASE n \notin 1..Len(runs[d])
      <4>1. d = c /\ n = size + 1
        BY <1>4, <1>6a, <2>3, <3>2
      <4> QED
        BY <1>3, <1>4, <1>5, <4>1 DEF Unfinished
    <3> QED
      BY <3>1, <3>2
  <2> QED
    BY <2>2, <2>3 DEF AccountedInv
<1>16. ScheduleInv'
  <2>1. \A d \in Configs : Unserved(d) /\ (d # c \/ k # Scheduler) => Unserved(d)'
    BY <1>1, <1>3, <1>4, <1>6a DEF Unserved
  <2>2. k = Scheduler => /\ Unserved(c) /\ \A e \in pending : e.config # c
    BY <1>1 DEF ScheduleInv, ServesNext, c
  <2>3. ServesNext'
    <3>1. CASE k = Scheduler
      BY <1>5, <3>1 DEF ServesNext
    <3>2. CASE k # Scheduler
      <4>1. Scheduler \in Carriers \ {k}
        BY <3>2 DEF Carriers
      <4>2. job'[Scheduler] = job[Scheduler]
        BY <1>5, <4>1
      <4>3. job[Scheduler].at # "idle" => job[Scheduler].config \in Configs
        BY <4>1, IsBusy DEF JobShape
      <4> QED
        BY <1>1, <2>1, <3>2, <4>2, <4>3 DEF ScheduleInv, ServesNext
    <3> QED
      BY <3>1, <3>2
  <2>4. \A e \in pending : Unserved(e.config)'
    BY <2>1, <2>2 DEF ScheduleInv, TypeInv
  <2>5. ScheduledOncePerPeriod'
    <3>1. ASSUME NEW d \in Configs, NEW m \in 1..Len(runs'[d]), NEW n \in 1..Len(runs'[d]),
                 runs'[d][m].by = Scheduler, runs'[d][n].by = Scheduler,
                 runs'[d][m].started = runs'[d][n].started
          PROVE  m = n
      <4>1. CASE m \in 1..Len(runs[d]) /\ n \in 1..Len(runs[d])
        BY <1>4, <3>1, <4>1 DEF ScheduleInv, ScheduledOncePerPeriod
      <4>2. CASE d = c /\ m \in 1..size /\ n = size + 1
        BY <1>2, <1>3, <1>4, <1>6a, <2>2, <3>1, <4>2 DEF Unserved
      <4>3. CASE d = c /\ n \in 1..size /\ m = size + 1
        BY <1>2, <1>3, <1>4, <1>6a, <2>2, <3>1, <4>3 DEF Unserved
      <4>4. \/ m \in 1..Len(runs[d]) /\ n \in 1..Len(runs[d])
            \/ d = c /\ m \in 1..size /\ n = size + 1
            \/ d = c /\ n \in 1..size /\ m = size + 1
            \/ m = n
        BY <1>4, <1>6a, <3>1
      <4> QED
        BY <4>1, <4>2, <4>3, <4>4
    <3> QED
      BY <3>1 DEF ScheduledOncePerPeriod
  <2> QED
    BY <1>1, <2>3, <2>4, <2>5 DEF ScheduleInv
<1>17. DestinationMatches'
  <2>1. ASSUME NEW d \in Configs, NEW n \in 1..Len(runs'[d])
        PROVE  /\ runs'[d][n].rotated => \A a \in DOMAIN archives' :
                     a.config = d /\ a.id = runs'[d][n].id => OutOfReach(a)'
               /\ Held(runs'[d][n]) => \/ \E a \in DOMAIN archives' : a.config = d /\ a.id = runs'[d][n].id
                                       \/ \E i \in n+1..Len(runs'[d]) : Held(runs'[d][i])
                                       \/ \E s \in Settings : s.keep = "days" /\ runs'[d][n].started + s.n < time'
    <3>1. CASE n \in 1..Len(runs[d])
      <4>1. runs'[d][n] = runs[d][n]
        BY <1>4, <3>1
      <4>2. \A i \in n+1..Len(runs[d]) : i \in n+1..Len(runs'[d]) /\ runs'[d][i] = runs[d][i]
        <5>1. CASE d = c
          BY <1>4, <1>6a, <3>1, <5>1
        <5>2. CASE d # c
          BY <1>4, <5>2
        <5> QED
          BY <5>1, <5>2
      <4>3. \/ ~Held(runs[d][n])
            \/ IsHeld(d, runs[d][n].id)
            \/ \E i \in n+1..Len(runs[d]) : Held(runs[d][i])
            \/ \E s \in Settings : s.keep = "days" /\ runs[d][n].started + s.n < time
        BY <3>1 DEF DestinationMatches, Newer
      <4>4. runs[d][n].rotated => \A a \in DOMAIN archives :
                a.config = d /\ a.id = runs[d][n].id => OutOfReach(a)
        BY <3>1 DEF DestinationMatches
      <4> QED
        BY <1>1, <1>12, <4>1, <4>2, <4>3, <4>4 DEF IsHeld
    <3>2. CASE n \notin 1..Len(runs[d])
      <4>1. d = c /\ n = size + 1
        BY <1>4, <1>6a, <2>1, <3>2
      <4> QED
        BY <1>3, <1>4, <4>1 DEF Held
    <3> QED
      BY <3>1, <3>2
  <2> QED
    BY <2>1 DEF DestinationMatches, IsHeld, Newer
<1> QED
  BY <1>7, <1>8, <1>10, <1>11, <1>13, <1>14, <1>15, <1>16, <1>17

(* An archive is there whole, under the name of a run nobody else carries. *)
LEMMA PerformKeepsHistory ==
    ASSUME IInv, Past, Growing, NEW k \in Carriers, Perform(k)
    PROVE  Past'
<1> DEFINE c == job[k].config
           new == Archive(c, job[k].run, job[k].setting.to)
<1> USE DEF Past
<1>1. UNCHANGED <<time, setting, runs, born, pending, counts>> /\ job[k].at = "performing"
  BY DEF Perform, rows
<1>2. c \in Configs /\ job[k] \in JobShape /\ AtWork(job[k]) /\ time \in Nat /\ born \in Nat
  BY <1>1, IsBusy DEF TypeInv, JobShape, AtWork
<1>3. new \in ArchiveShape /\ new.config = c /\ new.id = job[k].run /\ new.to = job[k].setting.to
  <2>1. job[k].setting \in SettingShape /\ job[k].run \in Nat
    BY <1>2, BackupAssumption DEF JobShape
  <2> QED
    BY <1>2, <2>1 DEF Archive, ArchiveShape, SettingShape
<1> HIDE DEF c, new
<1>4. /\ job' \in [Carriers -> {Idle} \cup JobShape]
      /\ \A l \in Carriers \ {k} : job'[l] = job[l]
      /\ job'[k].config = c /\ job'[k].setting = job[k].setting /\ job'[k].run = job[k].run
      /\ job'[k].at \in {"recording", "failing"}
      /\ \/ /\ job'[k].at = "recording" \/ job[k].setting.to = "sftp"
            /\ DOMAIN archives' = DOMAIN archives \cup {new}
         \/ job'[k].at = "failing" /\ archives' = archives
  <2>1. CASE (Goes(k, "recording") \/ (Goes(k, "failing") /\ MayGoUnanswered(job[k].setting))) /\ Stored(new)
    <3>1. DOMAIN archives' = DOMAIN archives \cup {new}
      BY <2>1 DEF Stored
    <3> QED
      BY <1>1, <2>1, <3>1, JobGoes DEF Steps, MayGoUnanswered, c
  <2>2. CASE Goes(k, "failing") /\ UNCHANGED archives
    BY <1>1, <2>2, JobGoes DEF Steps, c
  <2> QED
    BY <2>1, <2>2 DEF Perform, c, new
<1>5. \A a \in DOMAIN archives' : \/ a \in DOMAIN archives
                                  \/ a = new /\ (job'[k].at = "recording" \/ a.to = "sftp")
  BY <1>3, <1>4
<1>5a. DOMAIN archives \subseteq DOMAIN archives'
  BY <1>4
<1>6. TypeInv' /\ ArchivesInv' /\ RowsInv'
  BY <1>1, <1>2, <1>3, <1>4, <1>5 DEF TypeInv, ArchivesInv, RowsInv, JobRowInv, HasRow, Unfinished
<1>7. \A l \in Carriers \ {k} : AtWork(job[l]) => job[l].config # c
  BY <1>2, Alone DEF c
<1>8. JobRowInv'
  <2>1. ASSUME NEW l \in Carriers \ {k} PROVE HasRow(l)'
    <3>1. CASE job[l].at \in Unfinished
      <4>1. job'[l] = job[l] /\ job[l].config # c /\ HasRow(l)
        BY <1>4, <1>7, <3>1 DEF JobRowInv, Unfinished, AtWork
      <4> QED
        BY <1>1, <1>3, <1>5, <1>5a, <4>1 DEF HasRow, IsHeld
    <3>2. CASE job[l].at \notin Unfinished
      BY <1>4, <3>2 DEF HasRow, Unfinished
    <3> QED
      BY <3>1, <3>2
  <2>2. HasRow(k)'
    BY <1>1, <1>3, <1>4 DEF JobRowInv, HasRow, Unfinished, IsHeld, c
  <2> QED
    BY <2>1, <2>2 DEF JobRowInv
<1>9. StaleInv'
  <2>1. \A d, s, stale : Excess(d, s, stale) => Excess(d, s, stale)'
    BY <1>1 DEF Excess, Held
  <2>2. ASSUME NEW l \in Carriers \ {k} PROVE Lets(l)'
    BY <1>1, <1>3, <1>4, <1>5, <1>7, <2>1 DEF StaleInv, Lets, Retaining, AtWork, OutOfReach
  <2>3. Lets(k)'
    BY <1>4 DEF Lets, Retaining
  <2> QED
    BY <2>2, <2>3 DEF StaleInv
<1>10. UneditedInv'
  BY <1>1, <1>3, <1>4, <1>5 DEF UneditedInv, c
<1>11. AccountedInv'
  <2> SUFFICES ASSUME counts'.fault = 0, counts'.crash = 0 PROVE AccountedInv'
    BY DEF AccountedInv
  <2>1. counts.fault = 0 /\ counts.crash = 0
    BY DEF Growing
  <2>2. ASSUME NEW a \in DOMAIN archives'
        PROVE  \/ \E n \in 1..Len(runs'[a.config]) :
                     runs'[a.config][n].id = a.id /\ Explains(runs'[a.config][n], a)
               \/ \E l \in Carriers : job'[l].at \in {"recording", "failing"} /\ job'[l].config = a.config /\ job'[l].run = a.id
    <3>1. CASE a \in DOMAIN archives
      <4>1. \A l \in Carriers : job[l].at \in {"recording", "failing"} => job'[l] = job[l]
        BY <1>1, <1>4
      <4> QED
        BY <1>1, <2>1, <3>1, <4>1 DEF AccountedInv
    <3>2. CASE a = new
      BY <1>3, <1>4, <3>2
    <3> QED
      BY <1>5, <3>1, <3>2
  <2>3. ASSUME NEW d \in Configs, NEW n \in 1..Len(runs'[d]), runs'[d][n].status = "running"
        PROVE  \E l \in Carriers : job'[l].at \in Unfinished /\ job'[l].config = d /\ job'[l].run = runs'[d][n].id
    <3>1. PICK l \in Carriers : job[l].at \in Unfinished /\ job[l].config = d /\ job[l].run = runs[d][n].id
      BY <1>1, <2>1, <2>3 DEF AccountedInv
    <3> QED
      BY <1>1, <1>4, <3>1 DEF Unfinished, c
  <2> QED
    BY <2>2, <2>3 DEF AccountedInv
<1>12. ScheduleInv'
  BY <1>1, <1>4 DEF ScheduleInv, ServesNext, Unserved, ScheduledOncePerPeriod, Carriers
<1>13. DestinationMatches'
  <2>1. ASSUME NEW d \in Configs, NEW n \in 1..Len(runs[d]), runs[d][n].rotated,
               NEW a \in DOMAIN archives', a.config = d, a.id = runs[d][n].id
        PROVE  OutOfReach(a)
    <3>1. a # new
      <4>1. runs[d][n].status = "success"
        BY <2>1 DEF RowsInv
      <4>2. d = c => runs[d][n].id # job[k].run
        BY <1>1, <4>1 DEF JobRowInv, HasRow, Unfinished, c
      <4> QED
        BY <1>3, <2>1, <4>2
    <3> QED
      BY <1>5, <2>1, <3>1 DEF DestinationMatches
  <2>2. ASSUME NEW d \in Configs, NEW n \in 1..Len(runs[d]), Held(runs[d][n])
        PROVE  \/ IsHeld(d, runs[d][n].id)'
               \/ Newer(d, n) # {}
               \/ \E s \in Settings : s.keep = "days" /\ runs[d][n].started + s.n < time
    BY <1>1, <1>5a, <2>2 DEF DestinationMatches, IsHeld
  <2>3. \A d, n : Newer(d, n)' = Newer(d, n)
    BY <1>1 DEF Newer
  <2> QED
    BY <1>1, <2>1, <2>2, <2>3 DEF DestinationMatches, OutOfReach
<1> QED
  BY <1>6, <1>8, <1>9, <1>10, <1>11, <1>12, <1>13

(* FinishRun: a row that was running is told how it ended.                 *)
LEMMA FinishKeepsHistory ==
    ASSUME IInv, Past, Growing, NEW k \in Carriers, NEW v \in {"success", "failed"},
           job[k].at = IF v = "success" THEN "recording" ELSE "failing",
           SetsRun(job[k].config, job[k].run, "status", v),
           UNCHANGED <<time, setting, archives, born, pending>>,
           Releases(k) \/ Goes(k, "rotating")
    PROVE  Past'
<1> DEFINE c == job[k].config
           id == job[k].run
<1> USE DEF Past
<1>1. job[k].at \in {"recording", "failing"}
  OBVIOUS
<1>2. /\ c \in Configs /\ id \in Nat /\ job[k] \in JobShape /\ AtWork(job[k])
      /\ time \in Nat /\ born \in Nat
  BY <1>1, IsBusy DEF TypeInv, JobShape, AtWork
<1> HIDE DEF c, id
<1>3. /\ runs' \in [Configs -> Seq(RowShape)]
      /\ \A d \in Configs : Len(runs'[d]) = Len(runs[d])
      /\ \A d \in Configs : \A n \in 1..Len(runs[d]) :
            /\ runs'[d][n].id = runs[d][n].id /\ runs'[d][n].started = runs[d][n].started
            /\ runs'[d][n].by = runs[d][n].by /\ runs'[d][n].rotated = runs[d][n].rotated
            /\ runs'[d][n].status = IF d = c /\ runs[d][n].id = id THEN v ELSE runs[d][n].status
  BY <1>2, StatusIsSet DEF c, id, Status
<1>4. /\ job' \in [Carriers -> {Idle} \cup JobShape]
      /\ \A l \in Carriers \ {k} : job'[l] = job[l]
      /\ \/ job'[k].at = "idle"
         \/ job'[k].at = "rotating" /\ job'[k].config = c /\ job'[k].setting = job[k].setting
  BY <1>1, <1>2, JobRests, JobGoes DEF Steps, c
<1>5. /\ \E n \in 1..Len(runs[c]) : runs[c][n].id = id
      /\ \A n \in 1..Len(runs[c]) : runs[c][n].id = id => runs[c][n].status = "running"
      /\ v = "success" => IsHeld(c, id)
      /\ v = "failed" => \A a \in DOMAIN archives : a.config = c /\ a.id = id => a.to = "sftp"
  BY <1>1 DEF JobRowInv, HasRow, Unfinished, c, id
<1>6. \A l \in Carriers \ {k} : AtWork(job[l]) => job[l].config \in Configs \ {c}
  BY <1>2, Alone, IsBusy DEF AtWork, c, JobShape
<1>7. TypeInv' /\ ArchivesInv'
  BY <1>3, <1>4 DEF TypeInv, ArchivesInv
<1>8. RowsInv'
  BY <1>3, <1>5 DEF RowsInv
<1>9. JobRowInv'
  <2>1. ASSUME NEW l \in Carriers \ {k} PROVE HasRow(l)'
    <3>1. CASE job[l].at \in Unfinished
      <4>1. job'[l] = job[l] /\ job[l].config \in Configs \ {c} /\ HasRow(l)
        BY <1>4, <1>6, <3>1 DEF JobRowInv, Unfinished, AtWork
      <4> QED
        BY <1>3, <4>1 DEF HasRow, IsHeld
    <3>2. CASE job[l].at \notin Unfinished
      BY <1>4, <3>2 DEF HasRow, Unfinished
    <3> QED
      BY <3>1, <3>2
  <2>2. HasRow(k)'
    BY <1>4 DEF HasRow, Unfinished
  <2> QED
    BY <2>1, <2>2 DEF JobRowInv
<1>10. \A a : OutOfReach(a) => OutOfReach(a)'
  BY DEF OutOfReach, Growing
<1>11. StaleInv'
  <2>1. ASSUME NEW l \in Carriers \ {k} PROVE Lets(l)'
    <3>1. CASE job[l].at \in Retaining
      <4>1. job'[l] = job[l] /\ job[l].config \in Configs \ {c} /\ Lets(l)
        BY <1>4, <1>6, <3>1 DEF StaleInv, Retaining, AtWork
      <4>2. \A s, stale : Excess(job[l].config, s, stale) => Excess(job[l].config, s, stale)'
        <5>1. ASSUME NEW d \in Configs \ {c}, NEW s, NEW stale, Excess(d, s, stale)
              PROVE  Excess(d, s, stale)'
          BY <1>2, <1>3, <5>1, ExcessStays DEF Held
        <5> QED
          BY <4>1, <5>1
      <4> QED
        BY <1>3, <1>10, <4>1, <4>2 DEF Lets
    <3>2. CASE job[l].at \notin Retaining
      BY <1>4, <3>2 DEF Lets, Retaining
    <3> QED
      BY <3>1, <3>2
  <2>2. Lets(k)'
    BY <1>4 DEF Lets, Retaining
  <2> QED
    BY <2>1, <2>2 DEF StaleInv
<1>12. UneditedInv'
  BY <1>1, <1>4 DEF UneditedInv, Growing, c
<1>13. AccountedInv'
  <2> SUFFICES ASSUME counts'.fault = 0, counts'.crash = 0 PROVE AccountedInv'
    BY DEF AccountedInv
  <2>1. counts.fault = 0 /\ counts.crash = 0
    BY DEF Growing
  <2>2. ASSUME NEW a \in DOMAIN archives
        PROVE  \/ \E n \in 1..Len(runs'[a.config]) :
                     runs'[a.config][n].id = a.id /\ Explains(runs'[a.config][n], a)
               \/ \E l \in Carriers : job'[l].at \in {"recording", "failing"} /\ job'[l].config = a.config /\ job'[l].run = a.id
    <3>1. a.config \in Configs
      BY DEF TypeInv, ArchiveShape
    <3>2. CASE \E n \in 1..Len(runs[a.config]) :
                  runs[a.config][n].id = a.id /\ Explains(runs[a.config][n], a)
      BY <1>3, <1>5, <3>1, <3>2 DEF Explains
    <3>3. CASE a.config = c /\ a.id = id
      <4>1. PICK n \in 1..Len(runs[c]) : runs[c][n].id = id
        BY <1>5
      <4>2. Explains(runs'[a.config][n], a)
        BY <1>3, <1>5, <3>1, <3>3, <4>1 DEF Explains
      <4> QED
        BY <1>3, <3>1, <3>3, <4>1, <4>2
    <3>4. ASSUME NEW l \in Carriers, job[l].at \in {"recording", "failing"}, job[l].config = a.config, job[l].run = a.id,
                 ~(a.config = c /\ a.id = id)
          PROVE  job'[l] = job[l]
      BY <1>4, <3>4 DEF c, id
    <3> QED
      BY <2>1, <3>2, <3>3, <3>4 DEF AccountedInv
  <2>3. ASSUME NEW d \in Configs, NEW n \in 1..Len(runs[d]), runs'[d][n].status = "running"
        PROVE  \E l \in Carriers : job'[l].at \in Unfinished /\ job'[l].config = d /\ job'[l].run = runs[d][n].id
    <3>1. runs[d][n].status = "running" /\ ~(d = c /\ runs[d][n].id = id)
      BY <1>3, <2>3
    <3>2. PICK l \in Carriers : job[l].at \in Unfinished /\ job[l].config = d /\ job[l].run = runs[d][n].id
      BY <2>1, <3>1 DEF AccountedInv
    <3>3. job'[l] = job[l]
      BY <1>4, <3>1, <3>2 DEF c, id
    <3> QED
      BY <3>2, <3>3
  <2> QED
    BY <1>3, <2>2, <2>3 DEF AccountedInv
<1>14. ScheduleInv'
  <2>1. \A d \in Configs : Unserved(d) => Unserved(d)'
    BY <1>3 DEF Unserved
  <2>2. \A e \in pending : Unserved(e.config)'
    BY <2>1 DEF ScheduleInv, TypeInv
  <2>3. ServesNext'
    <3>1. Scheduler \in Carriers /\ (job[Scheduler].at # "idle" => job[Scheduler].config \in Configs)
      BY IsBusy DEF Carriers, JobShape
    <3> QED
      BY <1>4, <2>1, <3>1 DEF ScheduleInv, ServesNext
  <2>4. ScheduledOncePerPeriod'
    BY <1>3 DEF ScheduleInv, ScheduledOncePerPeriod
  <2> QED
    BY <2>2, <2>3, <2>4 DEF ScheduleInv
<1>15. DestinationMatches'
  <2>1. ASSUME NEW d \in Configs, NEW n \in 1..Len(runs[d])
        PROVE  \A i \in Newer(d, n) : i \in n+1..Len(runs'[d]) /\ Held(runs'[d][i])
    <3>1. Len(runs[d]) \in Nat
      BY DEF TypeInv
    <3>2. \A i \in Newer(d, n) : i \in 1..Len(runs[d]) /\ i \in n+1..Len(runs'[d])
      BY <1>3, <3>1 DEF Newer
    <3> QED
      BY <1>3, <1>5, <3>2 DEF Newer, Held
  <2>2. ASSUME NEW d \in Configs, NEW n \in 1..Len(runs[d]), Held(runs'[d][n])
        PROVE  Held(runs[d][n]) \/ IsHeld(d, runs[d][n].id)
    BY <1>3, <1>5, <2>2 DEF Held
  <2>4. ASSUME NEW d \in Configs, NEW n \in 1..Len(runs[d]), Held(runs'[d][n])
        PROVE  \/ \E a \in DOMAIN archives' : a.config = d /\ a.id = runs'[d][n].id
               \/ \E i \in n+1..Len(runs'[d]) : Held(runs'[d][i])
               \/ \E s \in Settings : s.keep = "days" /\ runs'[d][n].started + s.n < time'
    <3>1. \/ IsHeld(d, runs[d][n].id)
          \/ Newer(d, n) # {}
          \/ \E s \in Settings : s.keep = "days" /\ runs[d][n].started + s.n < time
      BY <2>2, <2>4 DEF DestinationMatches
    <3> QED
      BY <1>3, <2>1, <3>1 DEF IsHeld
  <2>5. ASSUME NEW d \in Configs, NEW n \in 1..Len(runs[d]), runs'[d][n].rotated,
               NEW a \in DOMAIN archives, a.config = d, a.id = runs'[d][n].id
        PROVE  OutOfReach(a)'
    BY <1>3, <1>10, <2>5 DEF DestinationMatches
  <2> QED
    BY <1>3, <2>4, <2>5 DEF DestinationMatches, IsHeld, Newer
<1> QED
  BY <1>7, <1>8, <1>9, <1>11, <1>12, <1>13, <1>14, <1>15

-----------------------------------------------------------------------------
(* A set of numbers has a least one, and a bounded one a greatest.         *)
LEMMA Least ==
    ASSUME NEW T \in SUBSET Nat, T # {}
    PROVE  \E x \in T : \A y \in T : x <= y
<1> DEFINE R == OpToRel(<, Nat)
<1>1. \A x, y \in Nat : <<x, y>> \in R <=> x < y
  BY DEF OpToRel
<1>2. IsWellFoundedOn(R, Nat)
  BY NatLessThanWellFounded
<1> HIDE DEF R
<1>3. PICK x \in T : \A y \in T : ~(<<y, x>> \in R)
  BY <1>2, WFMin
<1>4. ASSUME NEW y \in T PROVE x <= y
  <2>1. x \in Nat /\ y \in Nat /\ ~(y < x)
    BY <1>1, <1>3
  <2> QED
    BY <2>1
<1> QED
  BY <1>4

LEMMA Greatest ==
    ASSUME NEW N \in Nat, NEW T \in SUBSET (0..N), T # {}
    PROVE  \E x \in T : \A y \in T : y <= x
<1> DEFINE U == {n \in Nat : \E x \in T : n = N - x}
<1>1. \A x \in T : x \in Nat /\ x <= N
  OBVIOUS
<1>2. \A x \in T : N - x \in U
  BY <1>1
<1>3. PICK u \in U : \A v \in U : u <= v
  BY <1>2, Least
<1>4. PICK x \in T : u = N - x
  OBVIOUS
<1>5. ASSUME NEW y \in T PROVE y <= x
  <2>1. x \in Nat /\ y \in Nat /\ u <= N - y
    BY <1>1, <1>2, <1>3
  <2> QED
    BY <2>1, <1>4
<1> QED
  BY <1>5

(* Newest is one of those it is asked about.                               *)
LEMMA NewestIsOne ==
    ASSUME NEW ids \in SUBSET Nat, NEW N \in Nat, \A id \in ids : id <= N, ids # {}
    PROVE  Newest(ids) \in ids
<1>1. ids \in SUBSET (0..N)
  OBVIOUS
<1>2. \E id \in ids : \A other \in ids : other <= id
  <2> HIDE DEF Newest
  <2> QED
    BY <1>1, Greatest
<1>3. \E id \in ids : \A other \in ids : id >= other
  <2>1. PICK id \in ids : \A other \in ids : other <= id
    BY <1>2
  <2>2. ASSUME NEW other \in ids PROVE id >= other
    BY <2>1
  <2> QED
    BY <2>2
<1> QED
  BY <1>3 DEF Newest

(* The newest held row is not beyond any count.                            *)
LEMMA SomeStay ==
    ASSUME TypeInv, NEW c \in Configs, NEW s \in Settings, s.keep = "count",
           NEW p \in 1..Len(runs[c]), Held(runs[c][p])
    PROVE  \E m \in 1..Len(runs[c]) :
              /\ Held(runs[c][m]) /\ ~Outgrown(c, m, s)
              /\ \A n \in 1..Len(runs[c]) : Held(runs[c][n]) => n <= m
<1> DEFINE T == {n \in 1..Len(runs[c]) : Held(runs[c][n])}
<1>1. Len(runs[c]) \in Nat
  BY DEF TypeInv
<1>2. T \in SUBSET (0..Len(runs[c])) /\ T # {}
  BY <1>1
<1>3. PICK m \in T : \A n \in T : n <= m
  BY <1>1, <1>2, Greatest
<1>4. Newer(c, m) = {}
  <2>1. ASSUME NEW i \in m+1..Len(runs[c]), Held(runs[c][i]) PROVE FALSE
    <3>1. m \in Nat /\ i \in Nat /\ i > m /\ i \in T
      BY <1>1, <2>1
    <3> QED
      BY <1>3, <3>1
  <2> QED
    BY <2>1 DEF Newer
<1>5. Cardinality(Newer(c, m)) = 0
  BY <1>4, FS_EmptySet
<1>6. s.n \in Nat /\ s.n > 0
  BY BackupAssumption DEF SettingShape
<1>7. ~Outgrown(c, m, s)
  BY <1>5, <1>6 DEF Outgrown, HeldBeyond
<1> QED
  BY <1>3, <1>7

(* Rotation finds what is more than the retention asks for.                *)
LEMMA RotateKeepsHistory ==
    ASSUME Past, Growing, NEW k \in Carriers, Rotate(k)
    PROVE  Past'
<1> DEFINE c == job[k].config
           s == job[k].setting
           stale == StaleRuns(c, s)
<1> USE DEF Past
<1>1. UNCHANGED <<time, setting, runs, archives, born, pending>> /\ job[k].at = "rotating"
  BY DEF Rotate, rows
<1>2. /\ c \in Configs /\ s \in Settings /\ job[k] \in JobShape /\ time \in Nat /\ born \in Nat
  BY <1>1, IsBusy DEF TypeInv, JobShape
<1>3. s.n \in Nat /\ s.n > 0 /\ s.keep \in {"all", "count", "days"}
  BY <1>2, BackupAssumption DEF SettingShape
<1>4. \A n \in 1..Len(runs[c]) : runs[c][n] \in RowShape
  BY <1>2 DEF TypeInv
<1>5. \A n \in 1..Len(runs[c]) : runs[c][n].id \in Nat /\ runs[c][n].id <= born
  BY <1>2, <1>4 DEF RowShape, RowsInv
<1>6. stale \in SUBSET Nat /\ \A id \in stale : id <= born
  BY <1>5 DEF StaleRuns
<1>7. ASSUME NEW n \in 1..Len(runs[c]), runs[c][n].id \in stale PROVE Outgrown(c, n, s)
  <2>1. PICK m \in 1..Len(runs[c]) : Outgrown(c, m, s) /\ runs[c][m].id = runs[c][n].id
    BY <1>7 DEF StaleRuns
  <2>2. m = n
    <3>1. Len(runs[c]) \in Nat
      BY <1>2 DEF TypeInv
    <3>2. ~(m < n) /\ ~(n < m)
      BY <1>2, <1>5, <2>1 DEF RowsInv
    <3> QED
      BY <3>1, <3>2
  <2> QED
    BY <2>1, <2>2
<1>8. \A n \in 1..Len(runs[c]) : Outgrown(c, n, s) => Held(runs[c][n]) /\ runs[c][n].id \in stale
  BY DEF Outgrown, StaleRuns
<1>9. stale # {} => Excess(c, s, stale)
  <2> SUFFICES ASSUME stale # {} PROVE Excess(c, s, stale)
    OBVIOUS
  <2>1. PICK p \in 1..Len(runs[c]) : Outgrown(c, p, s)
    BY DEF StaleRuns
  <2>2. CASE s.keep = "count"
    <3>1. PICK m \in 1..Len(runs[c]) :
             /\ Held(runs[c][m]) /\ ~Outgrown(c, m, s)
             /\ \A n \in 1..Len(runs[c]) : Held(runs[c][n]) => n <= m
      BY <1>2, <1>8, <2>1, <2>2, SomeStay
    <3>2. runs[c][m].id \notin stale
      BY <1>7, <3>1
    <3>3. ASSUME NEW n \in 1..Len(runs[c]), runs[c][n].id \in stale PROVE n < m
      <4>1. n <= m /\ n # m
        BY <1>7, <1>8, <3>1, <3>3
      <4>2. n \in Nat /\ m \in Nat
        OBVIOUS
      <4> QED
        BY <4>1, <4>2
    <3> QED
      BY <2>2, <3>1, <3>2, <3>3 DEF Excess
  <2>3. CASE s.keep = "days"
    BY <1>7, <2>3 DEF Excess, Outgrown
  <2>4. s.keep # "all"
    BY <2>1 DEF Outgrown
  <2> QED
    BY <1>3, <2>2, <2>3, <2>4
<1>10. CASE Releases(k)
  BY <1>1, <1>10, GivingUpKeepsHistory DEF Unfinished
<1>11. CASE stale # {} /\ Works /\ job' = [job EXCEPT ![k].at = "removing", ![k].stale = stale]
  <2> HIDE DEF stale
  <2>1. /\ job' \in [Carriers -> {Idle} \cup JobShape]
        /\ job'[k].at = "removing" /\ job'[k].config = c
        /\ job'[k].setting = s /\ job'[k].stale = stale
        /\ \A l \in Carriers \ {k} : job'[l] = job[l]
    BY <1>1, <1>6, <1>11, JobGoesWithStale DEF Steps
  <2>2. HasRow(k)'
    BY <2>1 DEF HasRow, Unfinished
  <2>3. Lets(k)'
    <3>1. Excess(job[k].config, job[k].setting, job[k].stale)'
      <4>1. \A d, t, ids : d = job'[k].config /\ t = job'[k].setting /\ ids = job'[k].stale
                => Excess(d, t, ids)'
        <5> SUFFICES ASSUME NEW d, NEW t, NEW ids, d = c, t = s, ids = stale
                     PROVE  Excess(d, t, ids)'
          BY <2>1
        <5>1. Excess(d, t, ids)
          BY <1>9, <1>11
        <5> QED
          BY <1>1, <5>1, ExcessStays
      <4> QED
        BY <4>1
    <3>2. \A n \in 1..Len(runs[c]) : runs[c][n].id \in stale => runs[c][n].status = "success"
      BY <1>7, <1>8 DEF Held
    <3> QED
      BY <1>1, <1>6, <1>11, <2>1, <3>1, <3>2 DEF Lets
  <2>4. ServesNext'
    BY <1>1, <2>1 DEF ScheduleInv, ServesNext, Unserved, Carriers
  <2>5. counts'.edit = 0 => job'[k].setting = setting[job'[k].config]
    BY <1>1, <1>11, <2>1 DEF UneditedInv, Works
  <2> QED
    BY <1>1, <2>1, <2>2, <2>3, <2>4, <2>5, OneJobChanges DEF Unfinished
<1> QED
  BY <1>10, <1>11 DEF Rotate

(* The archive is gone from where the configuration points now.            *)
LEMMA RemoveKeepsHistory ==
    ASSUME IInv, Past, Growing, NEW k \in Carriers, RemoveArchive(k)
    PROVE  Past'
<1> DEFINE c == job[k].config
           s == job[k].setting
           stale == job[k].stale
           gone == Archive(c, Newest(stale), s.to)
<1> USE DEF Past
<1>1. UNCHANGED <<time, setting, runs, born, pending, counts>> /\ job[k].at = "removing"
  BY DEF RemoveArchive, rows
<1>2. /\ c \in Configs /\ s \in Settings /\ stale \in SUBSET Nat /\ job[k] \in JobShape
      /\ AtWork(job[k]) /\ time \in Nat /\ born \in Nat
  BY <1>1, IsBusy DEF TypeInv, JobShape, AtWork
<1>3. CASE Releases(k) /\ UNCHANGED archives
  BY <1>1, <1>3, GivingUpKeepsHistory DEF Unfinished
<1>4. CASE (Goes(k, "marking") \/ Releases(k)) /\ Removed(gone)
  <2>0. /\ stale # {} /\ \A id \in stale : id <= born
        /\ Excess(c, s, stale)
        /\ \A n \in 1..Len(runs[c]) : runs[c][n].id \in stale => runs[c][n].status = "success"
    BY <1>1 DEF StaleInv, Lets, Retaining
  <2>1. Newest(stale) \in stale
    BY <1>2, <2>0, NewestIsOne
  <2>2. gone.config = c /\ gone.id = Newest(stale) /\ gone.to = s.to
    BY DEF Archive
  <2>3. /\ job' \in [Carriers -> {Idle} \cup JobShape]
        /\ job'[k].at \in {"idle", "marking"}
        /\ job'[k].at = "marking" => job'[k].config = c /\ job'[k].setting = s /\ job'[k].stale = stale
        /\ \A l \in Carriers \ {k} : job'[l] = job[l]
    BY <1>1, <1>4, JobGoes, JobRests DEF Steps
  <2>4. DOMAIN archives' = DOMAIN archives \ {gone}
    BY <1>4 DEF Removed
  <2>5. ASSUME NEW a \in DOMAIN archives', a.config = c, a.id = Newest(stale)
        PROVE  OutOfReach(a)
    <3>1. a \in ArchiveShape /\ a # gone /\ a \in DOMAIN archives
      BY <2>4 DEF TypeInv
    <3>2. a = [config |-> a.config, id |-> a.id, to |-> a.to]
      BY <3>1 DEF ArchiveShape
    <3>3. a.to # s.to
      BY <2>5, <3>1, <3>2 DEF Archive
    <3>4. counts.edit # 0
      BY <1>1, <2>5, <3>1, <3>3 DEF UneditedInv
    <3>5. counts.edit > 0
      BY <3>4 DEF Growing
    <3> QED
      BY <1>2, <3>3, <3>5 DEF OutOfReach
  <2> HIDE DEF c, s, stale, gone
  <2>6. \A l \in Carriers \ {k} : AtWork(job[l]) => job[l].config # c
    BY <1>2, Alone DEF c
  <2>7. TypeInv' /\ ArchivesInv' /\ RowsInv'
    BY <1>1, <2>3, <2>4 DEF TypeInv, ArchivesInv, RowsInv
  <2>8. JobRowInv'
    <3>1. ASSUME NEW l \in Carriers \ {k} PROVE HasRow(l)'
      <4>1. CASE job[l].at \in Unfinished
        <5>1. job'[l] = job[l] /\ job[l].config # c /\ HasRow(l)
          BY <2>3, <2>6, <4>1 DEF JobRowInv, Unfinished, AtWork
        <5> QED
          BY <1>1, <2>2, <2>4, <5>1 DEF HasRow, IsHeld
      <4>2. CASE job[l].at \notin Unfinished
        BY <2>3, <4>2 DEF HasRow, Unfinished
      <4> QED
        BY <4>1, <4>2
    <3>2. HasRow(k)'
      BY <2>3 DEF HasRow, Unfinished
    <3> QED
      BY <3>1, <3>2 DEF JobRowInv
  <2>9. StaleInv'
    <3>1. \A d, t, ids : Excess(d, t, ids) => Excess(d, t, ids)'
      BY <1>1 DEF Excess, Held
    <3>2. ASSUME NEW l \in Carriers \ {k} PROVE Lets(l)'
      BY <1>1, <2>3, <2>4, <3>1 DEF StaleInv, Lets, OutOfReach
    <3>3. Lets(k)'
      <4>1. ASSUME job'[k].at = "marking" PROVE Excess(job[k].config, job[k].setting, job[k].stale)'
        <5>1. \A d, t, ids : d = job'[k].config /\ t = job'[k].setting /\ ids = job'[k].stale
                  => Excess(d, t, ids)'
          BY <2>0, <2>3, <3>1, <4>1
        <5> QED
          BY <5>1
      <4> QED
        BY <1>1, <2>0, <2>3, <2>5, <4>1 DEF Lets, Retaining, OutOfReach
    <3> QED
      BY <3>2, <3>3 DEF StaleInv
  <2>10. UneditedInv'
    BY <1>1, <2>3, <2>4 DEF UneditedInv, c, s
  <2>11. AccountedInv'
    BY <1>1, <2>3, <2>4 DEF AccountedInv, Unfinished
  <2>12. ScheduleInv'
    BY <1>1, <2>3 DEF ScheduleInv, ServesNext, Unserved, ScheduledOncePerPeriod, Carriers
  <2>13. DestinationMatches'
    <3>1. ASSUME NEW d \in Configs, NEW n \in 1..Len(runs[d]), Held(runs[d][n])
          PROVE  \/ \E a \in DOMAIN archives' : a.config = d /\ a.id = runs[d][n].id
                 \/ Newer(d, n) # {}
                 \/ \E t \in Settings : t.keep = "days" /\ runs[d][n].started + t.n < time
      <4>1. CASE d = c /\ runs[d][n].id = Newest(stale)
        <5>1. CASE s.keep = "count"
          <6>1. PICK m \in 1..Len(runs[c]) : Held(runs[c][m]) /\ n < m
            BY <2>0, <2>1, <4>1, <5>1 DEF Excess
          <6>2. m \in n+1..Len(runs[c])
            <7>1. Len(runs[c]) \in Nat
              BY <1>2 DEF TypeInv
            <7> QED
              BY <6>1, <7>1
          <6> QED
            BY <4>1, <6>1, <6>2 DEF Newer
        <5>2. CASE s.keep = "days"
          BY <1>2, <2>0, <2>1, <4>1, <5>2 DEF Excess
        <5> QED
          BY <2>0, <5>1, <5>2 DEF Excess
      <4>2. CASE ~(d = c /\ runs[d][n].id = Newest(stale))
        BY <2>2, <2>4, <3>1, <4>2 DEF DestinationMatches, IsHeld
      <4> QED
        BY <4>1, <4>2
    <3>2. \A d, n : Newer(d, n)' = Newer(d, n)
      BY <1>1 DEF Newer
    <3> QED
      BY <1>1, <2>4, <3>1, <3>2 DEF DestinationMatches, IsHeld, OutOfReach
  <2> QED
    BY <2>7, <2>8, <2>9, <2>10, <2>11, <2>12, <2>13
<1> QED
  BY <1>3, <1>4 DEF RemoveArchive, StopsRotating

(* The row of an archive that is gone is marked.                           *)
LEMMA MarkKeepsHistory ==
    ASSUME IInv, Past, Growing, NEW k \in Carriers, job[k].at = "marking", Marked(k),
           UNCHANGED <<time, setting, archives, born, pending>>,
           \/ Releases(k)
           \/ /\ job[k].stale \ {Newest(job[k].stale)} # {}
              /\ job' = [job EXCEPT ![k].at = "removing",
                                    ![k].stale = job[k].stale \ {Newest(job[k].stale)}]
    PROVE  Past'
<1> DEFINE c == job[k].config
           s == job[k].setting
           stale == job[k].stale
           id == Newest(stale)
           rest == stale \ {id}
<1> USE DEF Past
<1>1. /\ c \in Configs /\ s \in Settings /\ stale \in SUBSET Nat /\ job[k] \in JobShape
      /\ AtWork(job[k]) /\ time \in Nat /\ born \in Nat
  BY IsBusy DEF TypeInv, JobShape, AtWork
<1>2. /\ stale # {} /\ \A o \in stale : o <= born
      /\ Excess(c, s, stale)
      /\ \A n \in 1..Len(runs[c]) : runs[c][n].id \in stale => runs[c][n].status = "success"
      /\ \A a \in DOMAIN archives : a.config = c /\ a.id = id => OutOfReach(a)
  BY DEF StaleInv, Lets, Retaining
<1>3. id \in stale /\ id \in Nat
  BY <1>1, <1>2, NewestIsOne
<1>4. /\ runs' \in [Configs -> Seq(RowShape)]
      /\ \A d \in Configs : Len(runs'[d]) = Len(runs[d])
      /\ \A d \in Configs : \A n \in 1..Len(runs[d]) :
            /\ runs'[d][n].id = runs[d][n].id /\ runs'[d][n].started = runs[d][n].started
            /\ runs'[d][n].by = runs[d][n].by /\ runs'[d][n].status = runs[d][n].status
            /\ runs'[d][n].rotated <=> (runs[d][n].rotated \/ (d = c /\ runs[d][n].id = id))
  <2>1. SetsRun(c, id, "rotated", TRUE)
    BY DEF Marked
  <2>2. TypeInv /\ c \in Configs /\ id \in Nat
    BY <1>1, <1>3
  <2> HIDE DEF c, id
  <2> QED
    BY ONLY <2>1, <2>2, RowIsMarked
<1>5. /\ job' \in [Carriers -> {Idle} \cup JobShape]
      /\ \A l \in Carriers \ {k} : job'[l] = job[l]
      /\ \/ job'[k].at = "idle"
         \/ /\ job'[k].at = "removing" /\ job'[k].config = c /\ job'[k].setting = s
            /\ job'[k].stale = rest /\ rest # {}
  <2>1. CASE Releases(k)
    BY <2>1, JobRests
  <2>2. CASE rest # {} /\ job' = [job EXCEPT ![k].at = "removing", ![k].stale = rest]
    <3>1. rest \in SUBSET Nat
      BY <1>1
    <3> HIDE DEF rest
    <3> QED
      BY <2>2, <3>1, JobGoesWithStale DEF Steps
  <2> QED
    BY <2>1, <2>2
<1>6. \A d \in Configs : \A n \in 1..Len(runs[d]) :
          /\ runs[d][n] \in RowShape /\ runs[d][n].started \in Nat
          /\ Held(runs[d][n]) /\ ~(d = c /\ runs[d][n].id = id) => Held(runs'[d][n])
          /\ Held(runs'[d][n]) => Held(runs[d][n])
  <2>1. \A d \in Configs : \A n \in 1..Len(runs[d]) : runs[d][n] \in RowShape
    BY DEF TypeInv
  <2> QED
    BY <1>4, <2>1 DEF RowShape, Held
<1> HIDE DEF c, s, stale, id, rest
<1>4a. \A d \in Configs : /\ 1..Len(runs'[d]) = 1..Len(runs[d])
                           /\ \A n \in 1..Len(runs[d]) :
                                 /\ runs'[d][n].id = runs[d][n].id
                                 /\ runs'[d][n].status = runs[d][n].status
  BY <1>4
<1>7. TypeInv' /\ ArchivesInv'
  BY <1>4, <1>5 DEF TypeInv, ArchivesInv
<1>8. RowsInv'
  BY <1>2, <1>3, <1>4 DEF RowsInv
<1>9. \A l \in Carriers \ {k} : AtWork(job[l]) => job[l].config \in Configs \ {c}
  BY <1>1, Alone, IsBusy DEF AtWork, c, JobShape
<1>10. JobRowInv'
  <2>1. ASSUME NEW l \in Carriers \ {k} PROVE HasRow(l)'
    <3>1. CASE job[l].at \in Unfinished
      <4>1. job'[l] = job[l] /\ job[l].config \in Configs \ {c} /\ HasRow(l)
        BY <1>5, <1>9, <3>1 DEF JobRowInv, Unfinished, AtWork
      <4>2. PICK d \in Configs : d = job[l].config
        BY <4>1
      <4> QED
        BY <1>4a, <4>1, <4>2 DEF HasRow, IsHeld
    <3>2. CASE job[l].at \notin Unfinished
      BY <1>5, <3>2 DEF HasRow, Unfinished
    <3> QED
      BY <3>1, <3>2
  <2>2. HasRow(k)'
    BY <1>5 DEF HasRow, Unfinished
  <2> QED
    BY <2>1, <2>2 DEF JobRowInv
<1>11. \A a : OutOfReach(a) => OutOfReach(a)'
  BY DEF OutOfReach, Growing
<1>12. StaleInv'
  <2>1. ASSUME NEW l \in Carriers \ {k} PROVE Lets(l)'
    <3>1. CASE job[l].at \in Retaining
      <4>1. job'[l] = job[l] /\ job[l].config \in Configs \ {c} /\ Lets(l)
        BY <1>5, <1>9, <3>1 DEF StaleInv, Retaining, AtWork
      <4>2. \A t, ids : Excess(job[l].config, t, ids) => Excess(job[l].config, t, ids)'
        <5>1. ASSUME NEW d \in Configs \ {c}, NEW t, NEW ids, Excess(d, t, ids)
              PROVE  Excess(d, t, ids)'
          BY <1>4, <1>6, <5>1, ExcessStays
        <5> QED
          BY <4>1, <5>1
      <4> QED
        BY <1>4, <1>11, <4>1, <4>2 DEF Lets
    <3>2. CASE job[l].at \notin Retaining
      BY <1>5, <3>2 DEF Lets, Retaining
    <3> QED
      BY <3>1, <3>2
  <2>2. Lets(k)'
    <3>1. CASE job'[k].at = "idle"
      BY <3>1 DEF Lets, Retaining
    <3>2. CASE job'[k].at = "removing"
      <4>1. Excess(job[k].config, job[k].setting, job[k].stale)'
        <5>1. \A d, t, ids : d = job'[k].config /\ t = job'[k].setting /\ ids = job'[k].stale
                  => Excess(d, t, ids)'
          <6> SUFFICES ASSUME NEW d, NEW t, NEW ids, d = c, t = s, ids = rest
                       PROVE  Excess(d, t, ids)'
            BY <1>5, <3>2
          <6>1. CASE t.keep = "count"
            <7>1. PICK m \in 1..Len(runs[d]) :
                     /\ Held(runs[d][m]) /\ runs[d][m].id \notin stale
                     /\ \A n \in 1..Len(runs[d]) : runs[d][n].id \in stale => n < m
              BY <1>2, <6>1 DEF Excess
            <7>2. /\ m \in 1..Len(runs'[d]) /\ Held(runs'[d][m]) /\ runs'[d][m].id \notin ids
                  /\ \A n \in 1..Len(runs'[d]) : runs'[d][n].id \in ids => n < m
              BY <1>1, <1>3, <1>4, <1>6, <7>1 DEF rest
            <7> QED
              BY <6>1, <7>2 DEF Excess
          <6>2. CASE t.keep = "days"
            <7>1. \A n \in 1..Len(runs[d]) : runs[d][n].id \in stale => runs[d][n].started + t.n < time
              BY <1>2, <6>2 DEF Excess
            <7>2. \A n \in 1..Len(runs'[d]) : runs'[d][n].id \in ids => runs'[d][n].started + t.n < time'
              BY <1>1, <1>4, <7>1 DEF rest
            <7> QED
              BY <6>2, <7>2 DEF Excess
          <6> QED
            BY <1>2, <6>1, <6>2 DEF Excess
        <5> QED
          BY <5>1
      <4>2. \A n \in 1..Len(runs'[c]) : runs'[c][n].id \in rest => runs'[c][n].status = "success"
        BY <1>1, <1>2, <1>4 DEF rest
      <4> QED
        BY <1>2, <1>5, <3>2, <4>1, <4>2 DEF Lets, rest
    <3> QED
      BY <1>5, <3>1, <3>2
  <2> QED
    BY <2>1, <2>2 DEF StaleInv
<1>13. UneditedInv'
  BY <1>5 DEF UneditedInv, Growing, c, s
<1>14. AccountedInv'
  <2> SUFFICES ASSUME counts'.fault = 0, counts'.crash = 0 PROVE AccountedInv'
    BY DEF AccountedInv
  <2>1. counts.fault = 0 /\ counts.crash = 0
    BY DEF Growing
  <2>2. \A l \in Carriers : job[l].at \in Unfinished => job'[l] = job[l]
    BY <1>5 DEF Unfinished
  <2>3. \A a \in DOMAIN archives : a.config \in Configs
    BY DEF TypeInv, ArchiveShape
  <2>4. ASSUME NEW a \in DOMAIN archives
        PROVE  \/ \E n \in 1..Len(runs'[a.config]) :
                     runs'[a.config][n].id = a.id /\ Explains(runs'[a.config][n], a)
               \/ \E l \in Carriers : job'[l].at \in {"recording", "failing"} /\ job'[l].config = a.config /\ job'[l].run = a.id
    <3>1. CASE \E n \in 1..Len(runs[a.config]) :
                  runs[a.config][n].id = a.id /\ Explains(runs[a.config][n], a)
      BY <1>4a, <2>3, <3>1 DEF Explains
    <3>2. CASE \E l \in Carriers : job[l].at \in {"recording", "failing"} /\ job[l].config = a.config /\ job[l].run = a.id
      BY <2>2, <3>2 DEF Unfinished
    <3> QED
      BY <2>1, <3>1, <3>2 DEF AccountedInv
  <2>5. ASSUME NEW d \in Configs, NEW n \in 1..Len(runs[d]), runs'[d][n].status = "running"
        PROVE  \E l \in Carriers : job'[l].at \in Unfinished /\ job'[l].config = d /\ job'[l].run = runs'[d][n].id
    <3>1. PICK l \in Carriers : job[l].at \in Unfinished /\ job[l].config = d /\ job[l].run = runs[d][n].id
      BY <1>4a, <2>1, <2>5 DEF AccountedInv
    <3> QED
      BY <1>4a, <2>2, <3>1
  <2> QED
    BY <1>4a, <2>4, <2>5 DEF AccountedInv
<1>15. ScheduleInv'
  <2>1. \A d \in Configs : Unserved(d) => Unserved(d)'
    BY <1>4 DEF Unserved
  <2>2. \A e \in pending : Unserved(e.config)'
    BY <2>1 DEF ScheduleInv, TypeInv
  <2>3. ServesNext'
    <3>1. Scheduler \in Carriers /\ (job[Scheduler].at # "idle" => job[Scheduler].config \in Configs)
      BY IsBusy DEF Carriers, JobShape
    <3> QED
      BY <1>5, <2>1, <3>1 DEF ScheduleInv, ServesNext
  <2>4. ScheduledOncePerPeriod'
    BY <1>4 DEF ScheduleInv, ScheduledOncePerPeriod
  <2> QED
    BY <2>2, <2>3, <2>4 DEF ScheduleInv
<1>16. DestinationMatches'
  <2>1. ASSUME NEW d \in Configs, NEW n \in 1..Len(runs[d]), Held(runs'[d][n])
        PROVE  \/ IsHeld(d, runs[d][n].id)
               \/ \E i \in n+1..Len(runs'[d]) : Held(runs'[d][i])
               \/ \E t \in Settings : t.keep = "days" /\ runs[d][n].started + t.n < time
    <3>1. \/ IsHeld(d, runs[d][n].id)
          \/ Newer(d, n) # {}
          \/ \E t \in Settings : t.keep = "days" /\ runs[d][n].started + t.n < time
      BY <1>6, <2>1 DEF DestinationMatches
    <3>2. ASSUME NEW p \in Newer(d, n)
          PROVE  \/ \E i \in n+1..Len(runs'[d]) : Held(runs'[d][i])
                 \/ \E t \in Settings : t.keep = "days" /\ runs[d][n].started + t.n < time
      <4>0. Len(runs[d]) \in Nat /\ Len(runs'[d]) = Len(runs[d])
        BY <1>4 DEF TypeInv
      <4>1. p \in n+1..Len(runs[d]) /\ p \in 1..Len(runs[d]) /\ Held(runs[d][p]) /\ n < p
        BY <4>0 DEF Newer
      <4>2. CASE ~(d = c /\ runs[d][p].id = id)
        BY <1>4, <1>6, <4>1, <4>2
      <4>3. CASE d = c /\ runs[d][p].id = id
        <5>1. CASE s.keep = "count"
          <6>1. PICK m \in 1..Len(runs[c]) : Held(runs[c][m]) /\ runs[c][m].id \notin stale /\ p < m
            BY <1>2, <1>3, <4>1, <4>3, <5>1 DEF Excess
          <6>2. m \in n+1..Len(runs'[d])
            BY <4>0, <4>1, <4>3, <6>1
          <6>3. Held(runs'[d][m])
            BY <1>1, <1>3, <1>6, <4>3, <6>1
          <6> QED
            BY <6>2, <6>3
        <5>2. CASE s.keep = "days"
          <6>1. runs[c][p].started + s.n < time
            BY <1>2, <1>3, <4>1, <4>3, <5>2 DEF Excess
          <6>2. runs[d][n].started <= runs[d][p].started
            BY <4>1 DEF RowsInv
          <6>3. s.n \in Nat /\ runs[d][n].started \in Nat /\ runs[d][p].started \in Nat
            BY <1>1, <1>6, <4>1, BackupAssumption DEF SettingShape
          <6>4. runs[d][n].started + s.n < time
            BY <1>1, <4>3, <6>1, <6>2, <6>3
          <6> QED
            BY <1>1, <5>2, <6>4
        <5> QED
          BY <1>2, <5>1, <5>2 DEF Excess
      <4> QED
        BY <4>2, <4>3
    <3> QED
      BY <3>1, <3>2
  <2>2. ASSUME NEW d \in Configs, NEW n \in 1..Len(runs[d]), runs'[d][n].rotated,
               NEW a \in DOMAIN archives, a.config = d, a.id = runs[d][n].id
        PROVE  OutOfReach(a)'
    BY <1>2, <1>4, <1>11, <2>2 DEF DestinationMatches
  <2> QED
    BY <1>4, <2>1, <2>2 DEF DestinationMatches, IsHeld, Newer
<1> QED
  BY <1>7, <1>8, <1>10, <1>12, <1>13, <1>14, <1>15, <1>16

-----------------------------------------------------------------------------
(* At the start there is no history.                                       *)
LEMMA InitHistory == Init => HistoryInv
<1> SUFFICES ASSUME Init PROVE counts \in CountShape /\ Past
  BY DEF HistoryInv
<1>1. /\ time = 1 /\ setting \in [Configs -> Settings] /\ born = 0 /\ pending = {}
      /\ runs = [c \in Configs |-> <<>>]
      /\ archives = [a \in {} |-> Database] /\ job = [k \in Carriers |-> Idle]
  BY DEF Init
<1>2. DOMAIN archives = {} /\ \A k \in Carriers : job[k].at = "idle"
  BY <1>1 DEF Idle
<1>3. \A c \in Configs : 1..Len(runs[c]) = {}
  BY <1>1
<1>4. counts \in CountShape
  BY BackupAssumption DEF Init, NoCounts, CountShape
<1>5. TypeInv
  <2>1. runs \in [Configs -> Seq(RowShape)]
    BY <1>1
  <2>2. job \in [Carriers -> {Idle} \cup JobShape]
    BY <1>1
  <2> QED
    BY <1>1, <1>2, <2>1, <2>2 DEF TypeInv
<1>6. RowsInv /\ DestinationMatches /\ ScheduledOncePerPeriod
  BY <1>3 DEF RowsInv, DestinationMatches, ScheduledOncePerPeriod
<1>7. JobRowInv /\ ArchivesInv /\ StaleInv
  BY <1>2 DEF JobRowInv, HasRow, Unfinished, ArchivesInv, StaleInv, Lets, Retaining
<1>8. UneditedInv /\ AccountedInv
  BY <1>1, <1>2, <1>3 DEF UneditedInv, AccountedInv
<1>9. ScheduleInv
  BY <1>1, <1>2, <1>6 DEF ScheduleInv, ServesNext, Carriers
<1> QED
  BY <1>4, <1>5, <1>6, <1>7, <1>8, <1>9 DEF Past

LEMMA TroubleIsCounted ==
    ASSUME counts \in CountShape, NEW what \in {"edit", "fault", "crash", "restore"}, Happens(what)
    PROVE  counts'[what] # 0
BY Troubles DEF Happens

(* A step of whoever carries a run.                                        *)
LEMMA CarryKeepsHistory ==
    ASSUME IInv, Past, Growing, counts \in CountShape, NEW k \in Carriers, Carry(k)
    PROVE  Past'
<1>1. Fails => counts'.fault # 0
  BY TroubleIsCounted DEF Fails
<1>2. CASE Claim(k)
  BY <1>2, ClaimKeepsHistory
<1>3. CASE Begin(k)
  BY <1>1, <1>3, BeginKeepsHistory
<1>4. CASE NotBegun(k)
  BY <1>1, <1>4, GivingUpKeepsHistory DEF NotBegun, rows
<1>5. CASE Perform(k)
  BY <1>5, PerformKeepsHistory
<1>6. CASE RecordFailure(k)
  <2>1. /\ job[k].at = "failing" /\ Releases(k)
        /\ UNCHANGED <<time, setting, archives, born, pending>>
    BY <1>6 DEF RecordFailure
  <2>2. CASE FailureRecorded(k)
    BY <2>1, <2>2, FinishKeepsHistory DEF FailureRecorded
  <2>3. CASE Fails /\ UNCHANGED runs
    BY <1>1, <2>1, <2>3, GivingUpKeepsHistory
  <2> QED
    BY <1>6, <2>2, <2>3 DEF RecordFailure
<1>7. CASE RecordSuccess(k)
  <2>1. /\ job[k].at = "recording" /\ (Releases(k) \/ Goes(k, "rotating"))
        /\ UNCHANGED <<time, setting, archives, born, pending>>
    BY <1>7 DEF RecordSuccess
  <2>2. CASE SetsRun(job[k].config, job[k].run, "status", "success")
    BY <2>1, <2>2, FinishKeepsHistory
  <2>3. CASE Fails /\ Releases(k) /\ UNCHANGED runs
    BY <1>1, <2>1, <2>3, GivingUpKeepsHistory
  <2> QED
    BY <1>7, <2>2, <2>3 DEF RecordSuccess
<1>8. CASE Rotate(k)
  BY <1>8, RotateKeepsHistory
<1>9. CASE RemoveArchive(k)
  BY <1>9, RemoveKeepsHistory
<1>10. CASE MarkRotated(k)
  <2>1. /\ job[k].at = "marking"
        /\ UNCHANGED <<time, setting, archives, born, pending>>
    BY <1>10 DEF MarkRotated
  <2>2. CASE Releases(k) /\ UNCHANGED runs
    BY <2>1, <2>2, GivingUpKeepsHistory DEF Unfinished
  <2>3. CASE /\ Marked(k)
             /\ \/ Releases(k)
                \/ /\ job[k].stale \ {Newest(job[k].stale)} # {}
                   /\ job' = [job EXCEPT ![k].at = "removing",
                                         ![k].stale = job[k].stale \ {Newest(job[k].stale)}]
    BY <2>1, <2>3, MarkKeepsHistory
  <2> QED
    BY <1>10, <2>2, <2>3 DEF MarkRotated
<1> QED
  BY <1>2, <1>3, <1>4, <1>5, <1>6, <1>7, <1>8, <1>9, <1>10 DEF Carry

LEMMA StepKeepsHistory == IInv /\ HistoryInv /\ [Next]_vars => HistoryInv'
<1> SUFFICES ASSUME IInv, HistoryInv, [Next]_vars PROVE HistoryInv'
  OBVIOUS
<1>1. counts \in CountShape /\ counts' \in CountShape /\ Growing /\ counts.restore <= counts'.restore
  BY CountsGrow DEF HistoryInv
<1>2. SUFFICES ASSUME counts'.restore = 0 PROVE Past'
  BY <1>1 DEF HistoryInv, NeverRestored
<1>3. Past
  <2>1. counts.restore = 0
    BY <1>1, <1>2 DEF CountShape
  <2> QED
    BY <2>1 DEF HistoryInv, NeverRestored
<1>4. ASSUME NEW k \in Carriers, Carry(k) PROVE Past'
  BY <1>1, <1>3, <1>4, CarryKeepsHistory
<1>5. ASSUME NEW r \in Requests, RequestBackup(r) PROVE Past'
  BY <1>1, <1>3, <1>5, RequestKeepsHistory
<1>6. CASE SchedulerPass
  BY <1>1, <1>3, <1>6, PassKeepsHistory
<1>7. CASE SchedulerTakes
  BY <1>1, <1>3, <1>7, TakesKeepsHistory
<1>8. CASE HoldForRestore \/ ResumeBackups \/ UNCHANGED vars
  <2>1. UNCHANGED <<time, born, setting, runs, archives, job, pending>>
    BY <1>8 DEF HoldForRestore, ResumeBackups, rows, vars
  <2> QED
    BY <1>1, <1>3, <2>1, UnseenKeepsHistory
<1>9. ~RestoreArchive
  BY <1>1, <1>2, TroubleIsCounted DEF RestoreArchive
<1>10. CASE EditConfig
  <2>1. counts'.edit # 0
    BY <1>1, <1>10, TroubleIsCounted DEF EditConfig
  <2> QED
    BY <1>1, <1>3, <1>10, <2>1, EditKeepsHistory
<1>11. CASE Tick
  BY <1>1, <1>3, <1>11, TickKeepsHistory
<1>12. CASE Crash
  <2>1. counts'.crash # 0
    BY <1>1, <1>12, TroubleIsCounted DEF Crash
  <2> QED
    BY <1>1, <1>3, <1>12, <2>1, CrashKeepsHistory
<1> QED
  BY <1>4, <1>5, <1>6, <1>7, <1>8, <1>9, <1>10, <1>11, <1>12 DEF Next

(* Past says more than the history has to.                                 *)
LEMMA HistorySuffices == HistoryInv => HistoryIsTrue
<1> SUFFICES ASSUME Past PROVE DestinationMatches /\ AllAccountedFor /\ ScheduledOncePerPeriod
  BY DEF HistoryInv, HistoryIsTrue
<1>1. \A k \in Carriers : job[k].at = "recording" \/ job[k].at \in Unfinished => Working(k)
  BY DEF Working, Unfinished
<1>2. AllAccountedFor
  <2>1. AccountedInv
    BY DEF Past
  <2> QED
    BY <1>1, <2>1 DEF AccountedInv, AllAccountedFor, Explains, Unfinished
<1> QED
  BY <1>2 DEF Past, ScheduleInv

(* As long as nobody put an older database in place, the rows tell what is *)
(* at the destinations and what the scheduler did: an archive marked as    *)
(* removed is gone (or was left behind where the configuration pointed     *)
(* before an edit), the newest success can be restored or is older than a  *)
(* retention by days allows, without failing statements and crashes there  *)
(* is neither an archive nor a running row nobody answers for, and the     *)
(* scheduler started nothing twice in a period.  For any configurations,   *)
(* settings, bounds, requests and any order of their steps.                *)
THEOREM HistoryStaysTrue == Spec => []HistoryIsTrue
<1>1. Init => IInv /\ HistoryInv
  BY InitExclusive, InitHistory
<1>2. IInv /\ HistoryInv /\ [Next]_vars => (IInv /\ HistoryInv)'
  BY StepKeeps, StepKeepsHistory
<1>3. IInv /\ HistoryInv => HistoryIsTrue
  BY HistorySuffices
<1> QED
  BY <1>1, <1>2, <1>3, PTL DEF Spec
-----------------------------------------------------------------------------
(* What rotation removes.  Nobody but its carrier changes the history of a *)
(* configuration while it is carried, so what Rotate found stays found:    *)
(* enough newer successes that are not outgrown themselves.  That holds of *)
(* a restored history as well, since every archive's database is in order. *)

Ordered(rs, last) ==
    /\ rs \in [Configs -> Seq(RowShape)]
    /\ \A c \in Configs : \A n \in 1..Len(rs[c]) :
          /\ rs[c][n].id <= last
          /\ \A m \in 1..Len(rs[c]) : m < n => rs[c][m].id < rs[c][n].id

DatabasesInv ==
    /\ Ordered(runs, born)
    /\ \A a \in DOMAIN archives :
          archives[a].setting \in [Configs -> Settings] /\ Ordered(archives[a].runs, born)

(* The successes a count keeps, all newer than what is to go.              *)
Kept(c, keep, stale) ==
    {m \in 1..Len(runs[c]) :
        /\ Held(runs[c][m]) /\ ~HeldBeyond(c, m, keep)
        /\ \A n \in 1..Len(runs[c]) : runs[c][n].id \in stale => n < m}

Keeps(k) ==
    LET c == job[k].config
        s == job[k].setting
        stale == job[k].stale
    IN
    job[k].at \in Retaining =>
        /\ stale # {} /\ s.keep # "all"
        /\ \A id \in stale : \E n \in 1..Len(runs[c]) : runs[c][n].id = id /\ Held(runs[c][n])
        /\ s.keep = "count" => Cardinality(Kept(c, s.n, stale)) >= s.n
        /\ s.keep = "days" =>
              \A n \in 1..Len(runs[c]) : runs[c][n].id \in stale => runs[c][n].started + s.n < time

KeptInv == counts \in CountShape /\ TypeInv /\ DatabasesInv /\ \A k \in Carriers : Keeps(k)

(* What is gone without being marked was outgrown, and still is.           *)
GoneInv ==
    Undisturbed =>
        \A c \in Configs : \A n \in 1..Len(runs[c]) :
            Held(runs[c][n]) /\ ~IsHeld(c, runs[c][n].id) => Outgrown(c, n, setting[c])

-----------------------------------------------------------------------------
(* The rows a count keeps are among those newer than any row that goes.    *)
LEMMA NewerIsFinite ==
    ASSUME TypeInv, NEW c \in Configs, NEW n \in Nat
    PROVE  IsFiniteSet(Newer(c, n)) /\ Cardinality(Newer(c, n)) \in Nat
<1>1. Len(runs[c]) \in Nat
  BY DEF TypeInv
<1>2. IsFiniteSet(n+1..Len(runs[c]))
  BY <1>1, FS_Interval
<1>3. Newer(c, n) \subseteq n+1..Len(runs[c])
  BY DEF Newer
<1> QED
  BY <1>2, <1>3, FS_Subset, FS_CardinalityType

LEMMA KeptIsFinite ==
    ASSUME TypeInv, NEW c \in Configs, NEW keep, NEW stale
    PROVE  IsFiniteSet(Kept(c, keep, stale)) /\ Cardinality(Kept(c, keep, stale)) \in Nat
<1>1. Len(runs[c]) \in Nat
  BY DEF TypeInv
<1>2. IsFiniteSet(1..Len(runs[c]))
  BY <1>1, FS_Interval
<1>3. Kept(c, keep, stale) \subseteq 1..Len(runs[c])
  BY DEF Kept
<1> QED
  BY <1>2, <1>3, FS_Subset, FS_CardinalityType

LEMMA KeptIsNewer ==
    ASSUME TypeInv, NEW c \in Configs, NEW s \in Settings, NEW stale,
           Cardinality(Kept(c, s.n, stale)) >= s.n,
           NEW n \in 1..Len(runs[c]), runs[c][n].id \in stale
    PROVE  Kept(c, s.n, stale) \subseteq Newer(c, n) /\ HeldBeyond(c, n, s.n)
<1>1. n \in Nat /\ Len(runs[c]) \in Nat /\ s.n \in Nat
  BY BackupAssumption DEF TypeInv, SettingShape
<1>2. Kept(c, s.n, stale) \subseteq Newer(c, n)
  <2>1. ASSUME NEW m \in Kept(c, s.n, stale) PROVE m \in Newer(c, n)
    <3>1. m \in 1..Len(runs[c]) /\ Held(runs[c][m]) /\ n < m
      BY DEF Kept
    <3>2. m \in n+1..Len(runs[c])
      BY <1>1, <3>1
    <3> QED
      BY <3>1, <3>2 DEF Newer
  <2> QED
    BY <2>1
<1>3. Cardinality(Kept(c, s.n, stale)) <= Cardinality(Newer(c, n))
  BY <1>1, <1>2, NewerIsFinite, FS_Subset
<1>4. Cardinality(Kept(c, s.n, stale)) \in Nat /\ Cardinality(Newer(c, n)) \in Nat
  BY <1>1, NewerIsFinite, KeptIsFinite
<1>5. HeldBeyond(c, n, s.n)
  BY <1>1, <1>3, <1>4 DEF HeldBeyond
<1> QED
  BY <1>2, <1>5

(* Whoever's configuration is left alone keeps what Rotate found.          *)
LEMMA KeepsStays ==
    ASSUME TypeInv, NEW k \in Carriers, Keeps(k), job'[k] = job[k],
           time' \in Nat, time <= time',
           job[k].at \in Retaining => runs'[job[k].config] = runs[job[k].config]
    PROVE  Keeps(k)'
<1> DEFINE c == job[k].config
           s == job[k].setting
           stale == job[k].stale
<1> SUFFICES ASSUME job[k].at \in Retaining PROVE Keeps(k)'
  BY DEF Keeps
<1>1. job[k] \in JobShape
  BY IsBusy DEF Retaining
<1>2. c \in Configs /\ s \in Settings /\ time \in Nat /\ Len(runs[c]) \in Nat
  BY <1>1 DEF JobShape, TypeInv
<1>3. s.n \in Nat /\ \A n \in 1..Len(runs[c]) : runs[c][n] \in RowShape
  BY <1>2, BackupAssumption DEF TypeInv, SettingShape
<1>4. \A n \in 1..Len(runs[c]) : runs[c][n].started \in Nat
  BY <1>3 DEF RowShape
<1>5. /\ stale # {} /\ s.keep # "all"
      /\ \A id \in stale : \E n \in 1..Len(runs[c]) : runs[c][n].id = id /\ Held(runs[c][n])
      /\ s.keep = "count" => Cardinality(Kept(c, s.n, stale)) >= s.n
      /\ s.keep = "days" =>
            \A n \in 1..Len(runs[c]) : runs[c][n].id \in stale => runs[c][n].started + s.n < time
  BY DEF Keeps
<1>6. job'[k] = job[k] /\ runs'[c] = runs[c]
  OBVIOUS
<1>7. Kept(c, s.n, stale)' = Kept(c, s.n, stale)
  BY <1>6 DEF Kept, HeldBeyond, Newer
<1>8. s.keep = "days" =>
          \A n \in 1..Len(runs'[c]) : runs'[c][n].id \in stale => runs'[c][n].started + s.n < time'
  BY <1>2, <1>3, <1>4, <1>5, <1>6
<1> QED
  BY <1>5, <1>6, <1>7, <1>8 DEF Keeps

(* A step of one carrier, in the history of its own configuration.         *)
LEMMA OthersKeep ==
    ASSUME IInv, KeptInv, NEW k \in Carriers, AtWork(job[k]) \/ UNCHANGED runs,
           \A l \in Carriers \ {k} : job'[l] = job[l], UNCHANGED time,
           \A d \in Configs \ {job[k].config} : runs'[d] = runs[d]
    PROVE  \A l \in Carriers \ {k} : Keeps(l)'
<1>1. ASSUME NEW l \in Carriers \ {k} PROVE Keeps(l)'
  <2>1. TypeInv /\ Keeps(l) /\ time \in Nat
    BY DEF KeptInv, TypeInv
  <2>2. ASSUME job[l].at \in Retaining PROVE runs'[job[l].config] = runs[job[l].config]
    <3>1. AtWork(job[l]) /\ job[l].config \in Configs
      BY <2>1, <2>2, IsBusy DEF Retaining, AtWork, JobShape
    <3>2. CASE AtWork(job[k])
      <4>1. job[l].config # job[k].config
        BY <3>1, <3>2, Alone
      <4> QED
        BY <3>1, <4>1
    <3> QED
      BY <3>2
  <2>3. time' \in Nat /\ time <= time'
    BY <2>1
  <2> QED
    BY <2>1, <2>2, <2>3, KeepsStays
<1> QED
  BY <1>1

LEMMA SameDatabases ==
    ASSUME DatabasesInv, UNCHANGED <<runs, born>>,
           \A a \in DOMAIN archives' : a \in DOMAIN archives /\ archives'[a] = archives[a]
    PROVE  DatabasesInv'
BY DEF DatabasesInv, Ordered

(* A carrier does nothing to the history and removes nothing after it.     *)
LEMMA JobAloneKeeps ==
    ASSUME IInv, KeptInv, counts' \in CountShape, NEW k \in Carriers,
           UNCHANGED <<time, setting, runs, archives, born>>,
           pending' \subseteq [config : Configs, setting : Settings],
           job' \in [Carriers -> {Idle} \cup JobShape],
           \A l \in Carriers \ {k} : job'[l] = job[l],
           job'[k].at \notin Retaining \/ Keeps(k)'
    PROVE  KeptInv'
<1>1. TypeInv'
  BY DEF KeptInv, TypeInv
<1>2. DatabasesInv'
  BY SameDatabases DEF KeptInv
<1>3. \A l \in Carriers \ {k} : Keeps(l)'
  BY OthersKeep
<1>4. Keeps(k)'
  BY DEF Keeps
<1> QED
  BY <1>1, <1>2, <1>3, <1>4 DEF KeptInv

(* A carrier releases what it carried and touches no history.              *)
LEMMA ReleasingLeavesKept ==
    ASSUME IInv, KeptInv, counts' \in CountShape, NEW k \in Carriers,
           Releases(k) \/ job' = [job EXCEPT ![k] = Idle],
           UNCHANGED <<time, setting, runs, archives, born, pending>>
    PROVE  KeptInv'
<1>1. TypeInv
  BY DEF KeptInv
<1>2. /\ job' \in [Carriers -> {Idle} \cup JobShape] /\ job'[k].at = "idle"
      /\ \A l \in Carriers \ {k} : job'[l] = job[l]
  BY <1>1, JobRests
<1>3. pending' \subseteq [config : Configs, setting : Settings]
  BY <1>1 DEF TypeInv
<1> QED
  BY <1>2, <1>3, JobAloneKeeps DEF Retaining

LEMMA AskingLeavesKept ==
    ASSUME IInv, KeptInv, counts' \in CountShape, NEW k \in Carriers, NEW c \in Configs,
           NEW s \in Settings, job' = [job EXCEPT ![k] = Job("asked", c, s)],
           UNCHANGED <<time, setting, runs, archives, born>>, pending' \subseteq pending
    PROVE  KeptInv'
<1>1. TypeInv
  BY DEF KeptInv
<1>2. /\ job' \in [Carriers -> {Idle} \cup JobShape] /\ job'[k].at = "asked"
      /\ \A l \in Carriers \ {k} : job'[l] = job[l]
  BY <1>1, JobIsAsked
<1>3. pending' \subseteq [config : Configs, setting : Settings]
  BY <1>1 DEF TypeInv
<1> QED
  BY <1>2, <1>3, JobAloneKeeps DEF Retaining

LEMMA GoingLeavesKept ==
    ASSUME IInv, KeptInv, counts' \in CountShape, NEW k \in Carriers, job[k].at # "idle",
           NEW at \in Steps \ Retaining, Goes(k, at),
           UNCHANGED <<time, setting, runs, archives, born, pending>>
    PROVE  KeptInv'
<1>1. TypeInv
  BY DEF KeptInv
<1>2. /\ job' \in [Carriers -> {Idle} \cup JobShape] /\ job'[k].at = at
      /\ \A l \in Carriers \ {k} : job'[l] = job[l]
  BY <1>1, JobGoes
<1>3. pending' \subseteq [config : Configs, setting : Settings]
  BY <1>1 DEF TypeInv
<1> QED
  BY <1>2, <1>3, JobAloneKeeps

(* A run begins: its row is behind the others and has the newest name.     *)
LEMMA BeginLeavesKept ==
    ASSUME IInv, KeptInv, counts' \in CountShape, NEW k \in Carriers, Begin(k)
    PROVE  KeptInv'
<1> DEFINE c == job[k].config
           id == born + 1
           r == Run(id, k)
           size == Len(runs[c])
<1>0. TypeInv
  BY DEF KeptInv
<1>1. /\ UNCHANGED <<time, setting, archives, pending>> /\ born' = id /\ job[k].at = "claimed"
      /\ runs' = [runs EXCEPT ![c] = Append(@, r)]
  BY DEF Begin
<1>2. time \in Nat /\ born \in Nat /\ id \in Nat /\ c \in Configs /\ AtWork(job[k])
  BY <1>0, <1>1, IsBusy DEF TypeInv, JobShape, AtWork
<1>3. r \in RowShape /\ r.id = id
  BY <1>2 DEF Run, RowShape, Status
<1>4. /\ job' \in [Carriers -> {Idle} \cup JobShape]
      /\ \A l \in Carriers \ {k} : job'[l] = job[l]
      /\ job'[k].at \notin Retaining
  <2>1. CASE job' = [job EXCEPT ![k].at = "performing", ![k].run = id]
    <3>1. job[k].at # "idle" /\ "performing" \in Steps /\ "performing" \notin Retaining /\ id \in Nat
      BY <1>1, <1>2 DEF Steps, Retaining
    <3> HIDE DEF id
    <3>2. /\ job' \in [Carriers -> {Idle} \cup JobShape] /\ job'[k].at = "performing"
          /\ \A l \in Carriers \ {k} : job'[l] = job[l]
      BY <1>0, <2>1, <3>1, JobGoesWithRun
    <3> QED
      BY <3>1, <3>2
  <2>2. CASE Releases(k)
    BY <1>0, <2>2, JobRests DEF Retaining
  <2> QED
    BY <2>1, <2>2 DEF Begin
<1> HIDE DEF id, r
<1>5. /\ runs' \in [Configs -> Seq(RowShape)]
      /\ Len(runs'[c]) = size + 1 /\ runs'[c][size + 1] = r
      /\ \A n \in 1..size : runs'[c][n] = runs[c][n]
      /\ \A d \in Configs \ {c} : runs'[d] = runs[d]
  BY <1>0, <1>1, <1>2, <1>3, RowIsBegun
<1> HIDE DEF c
<1>6. TypeInv'
  BY <1>0, <1>1, <1>2, <1>4, <1>5 DEF TypeInv
<1>7. \A d \in Configs : \A n \in 1..Len(runs[d]) : runs[d][n].id \in Nat /\ runs[d][n].id <= born
  <2>1. \A d \in Configs : \A n \in 1..Len(runs[d]) : runs[d][n] \in RowShape
    BY <1>0 DEF TypeInv
  <2> QED
    BY <2>1 DEF KeptInv, DatabasesInv, Ordered, RowShape
<1>8. size \in Nat
  BY <1>0, <1>2 DEF TypeInv
<1>9. Ordered(runs, born)'
  <2>1. ASSUME NEW d \in Configs \ {c}, NEW n \in 1..Len(runs'[d])
        PROVE  /\ runs'[d][n].id <= born'
               /\ \A m \in 1..Len(runs'[d]) : m < n => runs'[d][m].id < runs'[d][n].id
    <3>1. runs'[d] = runs[d] /\ runs[d][n].id \in Nat /\ runs[d][n].id <= born
      BY <1>5, <1>7
    <3>2. \A m \in 1..Len(runs[d]) : m < n => runs[d][m].id < runs[d][n].id
      BY <3>1 DEF KeptInv, DatabasesInv, Ordered
    <3> QED
      BY <1>1, <1>2, <3>1, <3>2 DEF id
  <2>2. ASSUME NEW n \in 1..Len(runs'[c])
        PROVE  /\ runs'[c][n].id <= born'
               /\ \A m \in 1..Len(runs'[c]) : m < n => runs'[c][m].id < runs'[c][n].id
    <3>1. CASE n \in 1..size
      <4>1. runs'[c][n] = runs[c][n] /\ runs[c][n].id \in Nat /\ runs[c][n].id <= born
        BY <1>2, <1>5, <1>7, <3>1
      <4>2. ASSUME NEW m \in 1..Len(runs'[c]), m < n PROVE runs'[c][m].id < runs'[c][n].id
        <5>1. m \in 1..size
          BY <1>5, <1>8, <3>1, <4>2
        <5>2. runs'[c][m] = runs[c][m]
          BY <1>5, <5>1
        <5>3. runs[c][m].id < runs[c][n].id
          BY <1>2, <3>1, <4>2, <5>1 DEF KeptInv, DatabasesInv, Ordered
        <5> QED
          BY <4>1, <5>2, <5>3
      <4> QED
        BY <1>1, <1>2, <4>1, <4>2 DEF id
    <3>2. CASE n = size + 1
      <4>1. runs'[c][n].id = born + 1 /\ born' = born + 1
        BY <1>1, <1>3, <1>5, <3>2 DEF id
      <4>2. ASSUME NEW m \in 1..Len(runs'[c]), m < n PROVE runs'[c][m].id < runs'[c][n].id
        <5>1. m \in 1..size
          BY <1>5, <1>8, <3>2, <4>2
        <5>2. runs'[c][m] = runs[c][m] /\ runs[c][m].id \in Nat /\ runs[c][m].id <= born
          BY <1>2, <1>5, <1>7, <5>1
        <5> QED
          BY <1>2, <4>1, <5>2
      <4> QED
        BY <1>2, <4>1, <4>2
    <3>3. n \in 1..size \/ n = size + 1
      BY <1>5, <1>8
    <3> QED
      BY <3>1, <3>2, <3>3
  <2> QED
    BY <1>5, <2>1, <2>2 DEF Ordered
<1>10. \A a \in DOMAIN archives : Ordered(archives[a].runs, born) => Ordered(archives[a].runs, born)'
  <2>1. ASSUME NEW a \in DOMAIN archives, Ordered(archives[a].runs, born)
        PROVE  Ordered(archives[a].runs, born)'
    <3>0. archives' = archives /\ born' = born + 1
      BY <1>1 DEF id
    <3> DEFINE rs == archives[a].runs
    <3>1. rs \in [Configs -> Seq(RowShape)]
      BY <2>1 DEF Ordered
    <3>2. ASSUME NEW d \in Configs, NEW n \in 1..Len(rs[d]) PROVE rs[d][n].id <= born + 1
      <4>1. rs[d][n] \in RowShape /\ rs[d][n].id <= born
        BY <2>1, <3>1, <3>2 DEF Ordered
      <4>2. rs[d][n].id \in Nat
        BY <4>1 DEF RowShape
      <4> QED
        BY <1>2, <4>1, <4>2
    <3>3. \A d \in Configs : \A n \in 1..Len(rs[d]) :
             \A m \in 1..Len(rs[d]) : m < n => rs[d][m].id < rs[d][n].id
      BY <2>1 DEF Ordered
    <3>4. rs' = rs
      BY <3>0
    <3> HIDE DEF rs
    <3>5. Ordered(rs, born)'
      BY <3>0, <3>1, <3>2, <3>3, <3>4 DEF Ordered
    <3> QED
      BY <3>5 DEF rs
  <2> QED
    BY <2>1
<1>11. DatabasesInv'
  BY <1>1, <1>9, <1>10 DEF KeptInv, DatabasesInv
<1>12. \A l \in Carriers \ {k} : Keeps(l)'
  BY <1>1, <1>2, <1>4, <1>5, OthersKeep DEF c
<1>13. Keeps(k)'
  BY <1>4 DEF Keeps
<1> QED
  BY <1>6, <1>11, <1>12, <1>13 DEF KeptInv

(* An archive holds the database as it is.                                 *)
LEMMA PerformLeavesKept ==
    ASSUME IInv, KeptInv, counts' \in CountShape, NEW k \in Carriers, Perform(k)
    PROVE  KeptInv'
<1> DEFINE new == Archive(job[k].config, job[k].run, job[k].setting.to)
<1>1. TypeInv /\ UNCHANGED <<time, setting, runs, born, pending>> /\ job[k].at = "performing"
  BY DEF Perform, rows, KeptInv
<1>2. job[k] \in JobShape /\ AtWork(job[k]) /\ job[k].at # "idle"
  BY <1>1, IsBusy DEF AtWork
<1>3. CASE Goes(k, "failing") /\ UNCHANGED archives
  BY <1>1, <1>2, <1>3, GoingLeavesKept DEF Steps, Retaining
<1>4. CASE (Goes(k, "recording") \/ Goes(k, "failing")) /\ Stored(new)
  <2>1. new \in ArchiveShape
    <3>1. job[k].setting \in SettingShape /\ job[k].run \in Nat /\ job[k].config \in Configs
      BY <1>2, BackupAssumption DEF JobShape
    <3> QED
      BY <3>1 DEF Archive, ArchiveShape, SettingShape
  <2> HIDE DEF new
  <2>2. /\ DOMAIN archives' = DOMAIN archives \cup {new}
        /\ \A a \in DOMAIN archives' : archives'[a] = IF a = new THEN Database ELSE archives[a]
    BY <1>4 DEF Stored
  <2>3. /\ job' \in [Carriers -> {Idle} \cup JobShape] /\ job'[k].at \in {"recording", "failing"}
        /\ \A l \in Carriers \ {k} : job'[l] = job[l]
    BY <1>1, <1>2, <1>4, JobGoes DEF Steps
  <2>4. TypeInv'
    BY <1>1, <2>1, <2>2, <2>3 DEF TypeInv
  <2>5. Database.setting = setting /\ Database.runs = runs
    BY DEF Database
  <2>6. \A a \in DOMAIN archives' :
            archives'[a].setting \in [Configs -> Settings] /\ Ordered(archives'[a].runs, born)
    <3>1. Ordered(runs, born) /\ setting \in [Configs -> Settings]
      BY <1>1 DEF KeptInv, DatabasesInv, TypeInv
    <3> QED
      BY <2>2, <2>5, <3>1 DEF KeptInv, DatabasesInv
  <2>7. DatabasesInv'
    BY <1>1, <2>6 DEF KeptInv, DatabasesInv, Ordered
  <2>8. \A l \in Carriers \ {k} : Keeps(l)'
    BY <1>1, <2>3, OthersKeep
  <2>9. Keeps(k)'
    BY <2>3 DEF Keeps, Retaining
  <2> QED
    BY <2>4, <2>7, <2>8, <2>9 DEF KeptInv
<1> QED
  BY <1>3, <1>4 DEF Perform

(* Rows that keep their names are in order as they were.                   *)
LEMMA NamesStay ==
    ASSUME DatabasesInv, UNCHANGED <<born, archives>>, runs' \in [Configs -> Seq(RowShape)],
           \A d \in Configs : Len(runs'[d]) = Len(runs[d]),
           \A d \in Configs : \A n \in 1..Len(runs[d]) : runs'[d][n].id = runs[d][n].id
    PROVE  DatabasesInv'
<1>1. Ordered(runs, born)'
  <2>1. ASSUME NEW d \in Configs, NEW n \in 1..Len(runs'[d])
        PROVE  /\ runs'[d][n].id <= born'
               /\ \A m \in 1..Len(runs'[d]) : m < n => runs'[d][m].id < runs'[d][n].id
    <3>1. /\ 1..Len(runs'[d]) = 1..Len(runs[d])
          /\ \A m \in 1..Len(runs[d]) : runs'[d][m].id = runs[d][m].id
      OBVIOUS
    <3>2. /\ runs[d][n].id <= born
          /\ \A m \in 1..Len(runs[d]) : m < n => runs[d][m].id < runs[d][n].id
      BY <3>1 DEF DatabasesInv, Ordered
    <3> QED
      BY <3>1, <3>2
  <2> QED
    BY <2>1 DEF Ordered
<1>2. \A a \in DOMAIN archives : Ordered(archives[a].runs, born)'
  <2>1. ASSUME NEW a \in DOMAIN archives PROVE Ordered(archives[a].runs, born)'
    BY DEF DatabasesInv, Ordered
  <2> QED
    BY <2>1
<1> QED
  BY <1>1, <1>2 DEF DatabasesInv

(* A run's outcome is recorded: nothing of it is being rotated yet.        *)
LEMMA FinishLeavesKept ==
    ASSUME IInv, KeptInv, counts' \in CountShape, NEW k \in Carriers, NEW v \in Status,
           job[k].at \in {"recording", "failing"},
           SetsRun(job[k].config, job[k].run, "status", v),
           UNCHANGED <<time, setting, archives, born, pending>>,
           Releases(k) \/ Goes(k, "rotating")
    PROVE  KeptInv'
<1> DEFINE c == job[k].config
           id == job[k].run
<1>1. TypeInv
  BY DEF KeptInv
<1>2. c \in Configs /\ id \in Nat /\ AtWork(job[k]) /\ job[k].at # "idle"
  BY <1>1, IsBusy DEF JobShape, AtWork
<1> HIDE DEF c, id
<1>3. /\ runs' \in [Configs -> Seq(RowShape)]
      /\ \A d \in Configs : Len(runs'[d]) = Len(runs[d])
      /\ \A d \in Configs : \A n \in 1..Len(runs[d]) : runs'[d][n].id = runs[d][n].id
  BY <1>1, <1>2, StatusIsSet DEF c, id
<1>4. \A d \in Configs \ {c} : runs'[d] = runs[d]
  BY <1>1, <1>2 DEF SetsRun, TypeInv, c
<1>5. /\ job' \in [Carriers -> {Idle} \cup JobShape] /\ job'[k].at \notin Retaining
      /\ \A l \in Carriers \ {k} : job'[l] = job[l]
  BY <1>1, <1>2, JobRests, JobGoes DEF Steps, Retaining
<1>6. TypeInv'
  BY <1>1, <1>3, <1>5 DEF TypeInv
<1>7. DatabasesInv'
  BY <1>3, NamesStay DEF KeptInv
<1>8. \A l \in Carriers \ {k} : Keeps(l)'
  BY <1>2, <1>4, <1>5, OthersKeep DEF c
<1>9. Keeps(k)'
  BY <1>5 DEF Keeps
<1> QED
  BY <1>6, <1>7, <1>8, <1>9 DEF KeptInv

(* No two rows of a configuration have one name.                           *)
LEMMA OneRowPerName ==
    ASSUME TypeInv, DatabasesInv, NEW c \in Configs, NEW m \in 1..Len(runs[c]),
           NEW n \in 1..Len(runs[c]), runs[c][m].id = runs[c][n].id
    PROVE  m = n
<1>1. runs[c][m] \in RowShape /\ runs[c][n] \in RowShape /\ Len(runs[c]) \in Nat
  BY DEF TypeInv
<1>2. runs[c][m].id \in Nat /\ runs[c][n].id \in Nat
  BY <1>1 DEF RowShape
<1>3. /\ m < n => runs[c][m].id < runs[c][n].id
      /\ n < m => runs[c][n].id < runs[c][m].id
  BY DEF DatabasesInv, Ordered
<1> QED
  BY <1>1, <1>2, <1>3

(* The newest outgrown row has what the count keeps after it.              *)
LEMMA OutgrownLeavesKept ==
    ASSUME TypeInv, DatabasesInv, NEW c \in Configs, NEW s \in Settings, s.keep = "count",
           StaleRuns(c, s) # {}
    PROVE  Cardinality(Kept(c, s.n, StaleRuns(c, s))) >= s.n
<1> DEFINE T == {n \in 1..Len(runs[c]) : Outgrown(c, n, s)}
           stale == StaleRuns(c, s)
<1>1. Len(runs[c]) \in Nat /\ s.n \in Nat
  BY BackupAssumption DEF TypeInv, SettingShape
<1>2. T \in SUBSET (0..Len(runs[c])) /\ T # {}
  BY <1>1 DEF StaleRuns
<1>3. PICK p \in T : \A n \in T : n <= p
  BY <1>1, <1>2, Greatest
<1>4. ASSUME NEW n \in 1..Len(runs[c]), runs[c][n].id \in stale PROVE n <= p
  <2>1. PICK m \in 1..Len(runs[c]) : Outgrown(c, m, s) /\ runs[c][m].id = runs[c][n].id
    BY <1>4 DEF StaleRuns
  <2>2. m = n
    BY <2>1, OneRowPerName
  <2> QED
    BY <1>3, <2>1, <2>2
<1>5. Newer(c, p) \subseteq Kept(c, s.n, stale)
  <2>1. ASSUME NEW m \in Newer(c, p) PROVE m \in Kept(c, s.n, stale)
    <3>1. m \in p+1..Len(runs[c]) /\ Held(runs[c][m])
      BY DEF Newer
    <3>2. m \in 1..Len(runs[c]) /\ p < m /\ m \in Nat /\ p \in Nat
      BY <1>1, <3>1
    <3>3. m \notin T
      BY <1>3, <3>2
    <3>4. ~HeldBeyond(c, m, s.n)
      BY <3>1, <3>2, <3>3 DEF Outgrown
    <3>5. ASSUME NEW n \in 1..Len(runs[c]), runs[c][n].id \in stale PROVE n < m
      <4>1. n <= p /\ n \in Nat
        BY <1>4, <3>5
      <4> QED
        BY <3>2, <4>1
    <3> HIDE DEF stale
    <3> QED
      BY <3>1, <3>2, <3>4, <3>5 DEF Kept
  <2> QED
    BY <2>1
<1>6. Cardinality(Newer(c, p)) >= s.n /\ p \in Nat
  BY <1>3 DEF Outgrown, HeldBeyond
<1> HIDE DEF stale, T
<1>7. Cardinality(Newer(c, p)) <= Cardinality(Kept(c, s.n, stale))
  BY <1>5, KeptIsFinite, FS_Subset
<1>8. Cardinality(Newer(c, p)) \in Nat /\ Cardinality(Kept(c, s.n, stale)) \in Nat
  BY <1>6, NewerIsFinite, KeptIsFinite
<1> QED
  BY <1>1, <1>6, <1>7, <1>8 DEF stale

LEMMA RotateLeavesKept ==
    ASSUME IInv, KeptInv, counts' \in CountShape, NEW k \in Carriers, Rotate(k)
    PROVE  KeptInv'
<1> DEFINE c == job[k].config
           s == job[k].setting
           stale == StaleRuns(c, s)
<1>1. /\ TypeInv /\ DatabasesInv /\ job[k].at = "rotating"
      /\ UNCHANGED <<time, setting, runs, archives, born, pending>>
  BY DEF Rotate, rows, KeptInv
<1>2. c \in Configs /\ s \in Settings
  BY <1>1, IsBusy DEF JobShape
<1>3. CASE Releases(k)
  BY <1>1, <1>3, ReleasingLeavesKept
<1>4. CASE stale # {} /\ job' = [job EXCEPT ![k].at = "removing", ![k].stale = stale]
  <2>1. stale \in SUBSET Nat
    <3>1. \A n \in 1..Len(runs[c]) : runs[c][n].id \in Nat
      <4>1. \A n \in 1..Len(runs[c]) : runs[c][n] \in RowShape
        BY <1>1, <1>2 DEF TypeInv
      <4> QED
        BY <4>1 DEF RowShape
    <3> QED
      BY <3>1 DEF StaleRuns
  <2>2. s.keep # "all"
    BY <1>4 DEF StaleRuns, Outgrown
  <2>3. \A id \in stale : \E n \in 1..Len(runs[c]) : runs[c][n].id = id /\ Held(runs[c][n])
    BY DEF StaleRuns, Outgrown
  <2>4. s.keep = "count" => Cardinality(Kept(c, s.n, stale)) >= s.n
    BY <1>1, <1>2, <1>4, OutgrownLeavesKept
  <2>5. ASSUME s.keep = "days", NEW n \in 1..Len(runs[c]), runs[c][n].id \in stale
        PROVE  runs[c][n].started + s.n < time
    <3>1. PICK m \in 1..Len(runs[c]) : Outgrown(c, m, s) /\ runs[c][m].id = runs[c][n].id
      BY <2>5 DEF StaleRuns
    <3>2. m = n
      BY <1>1, <1>2, <3>1, OneRowPerName
    <3> QED
      BY <2>5, <3>1, <3>2 DEF Outgrown
  <2> HIDE DEF stale
  <2>6. /\ job' \in [Carriers -> {Idle} \cup JobShape]
        /\ job'[k].at = "removing" /\ job'[k].config = c
        /\ job'[k].setting = s /\ job'[k].stale = stale
        /\ \A l \in Carriers \ {k} : job'[l] = job[l]
    BY <1>1, <1>4, <2>1, JobGoesWithStale DEF Steps
  <2> HIDE DEF c, s
  <2>8. Keeps(k)'
    <3>1. \A d, keep, ids : d = job'[k].config /\ keep = job'[k].setting.n /\ ids = job'[k].stale
              /\ s.keep = "count" => Cardinality(Kept(d, keep, ids)') >= keep
      <4>1. \A d, keep, ids : Kept(d, keep, ids)' = Kept(d, keep, ids)
        BY <1>1 DEF Kept, HeldBeyond, Newer
      <4> QED
        BY <2>4, <2>6, <4>1
    <3>2. s.keep = "count" => Cardinality(Kept(job[k].config, job[k].setting.n, job[k].stale)') >= s.n
      BY <2>6, <3>1
    <3> QED
      BY <1>1, <1>4, <2>2, <2>3, <2>5, <2>6, <3>2 DEF Keeps
  <2>9. pending' \subseteq [config : Configs, setting : Settings]
    BY <1>1 DEF TypeInv
  <2> QED
    BY <1>1, <2>6, <2>8, <2>9, JobAloneKeeps
<1> QED
  BY <1>3, <1>4 DEF Rotate

LEMMA RemoveLeavesKept ==
    ASSUME IInv, KeptInv, counts' \in CountShape, NEW k \in Carriers, RemoveArchive(k)
    PROVE  KeptInv'
<1> DEFINE gone == Archive(job[k].config, Newest(job[k].stale), job[k].setting.to)
<1>1. /\ TypeInv /\ DatabasesInv /\ Keeps(k) /\ job[k].at = "removing" /\ job[k].at # "idle"
      /\ UNCHANGED <<time, setting, runs, born, pending>>
  BY DEF RemoveArchive, rows, KeptInv
<1>2. CASE Releases(k) /\ UNCHANGED archives
  BY <1>1, <1>2, ReleasingLeavesKept
<1>3. CASE (Goes(k, "marking") \/ Releases(k)) /\ Removed(gone)
  <2> HIDE DEF gone
  <2>1. /\ job' \in [Carriers -> {Idle} \cup JobShape]
        /\ job'[k].at \in {"idle", "marking"}
        /\ job'[k].at = "marking" => /\ job'[k].config = job[k].config
                                    /\ job'[k].setting = job[k].setting /\ job'[k].stale = job[k].stale
        /\ \A l \in Carriers \ {k} : job'[l] = job[l]
    BY <1>1, <1>3, JobGoes, JobRests DEF Steps
  <2>2. \A a \in DOMAIN archives' : a \in DOMAIN archives /\ archives'[a] = archives[a]
    BY <1>3 DEF Removed
  <2>3. TypeInv'
    BY <1>1, <2>1, <2>2 DEF TypeInv
  <2>4. DatabasesInv'
    BY <1>1, <2>2, SameDatabases
  <2>5. \A l \in Carriers \ {k} : Keeps(l)'
    BY <1>1, <2>1, OthersKeep
  <2>6. \A c, keep, ids : Kept(c, keep, ids)' = Kept(c, keep, ids)
    BY <1>1 DEF Kept, HeldBeyond, Newer
  <2>7. job'[k].at = "marking" => Kept(job[k].config, job[k].setting.n, job[k].stale)'
                                    = Kept(job[k].config, job[k].setting.n, job[k].stale)
    BY <1>1, <2>1 DEF Kept, HeldBeyond, Newer
  <2>8. Keeps(k)'
    BY <1>1, <2>1, <2>7 DEF Keeps, Retaining
  <2> QED
    BY <2>3, <2>4, <2>5, <2>8 DEF KeptInv
<1> QED
  BY <1>2, <1>3 DEF RemoveArchive, StopsRotating

(* Marking takes a row from those that are to go, and none that is kept.   *)
LEMMA MarkingLeavesKept ==
    ASSUME TypeInv, DatabasesInv, NEW c \in Configs, NEW keep \in Nat, NEW stale, NEW id \in stale,
           NEW rest, rest = stale \ {id}, Cardinality(Kept(c, keep, stale)) >= keep,
           \E n \in 1..Len(runs[c]) : runs[c][n].id = id,
           Len(runs'[c]) = Len(runs[c]),
           \A n \in 1..Len(runs[c]) :
              runs'[c][n].id = runs[c][n].id /\ (Held(runs'[c][n]) <=> Held(runs[c][n]) /\ runs[c][n].id # id)
    PROVE  Cardinality(Kept(c, keep, rest)') >= keep
<1>1. Len(runs'[c]) = Len(runs[c]) /\ Len(runs[c]) \in Nat
  BY DEF TypeInv
<1>2. PICK p \in 1..Len(runs[c]) : runs[c][p].id = id
  OBVIOUS
<1>3. ASSUME NEW m \in Kept(c, keep, stale) PROVE m \in Kept(c, keep, rest)'
  <2>1. /\ m \in 1..Len(runs[c]) /\ Held(runs[c][m]) /\ ~HeldBeyond(c, m, keep)
        /\ \A n \in 1..Len(runs[c]) : runs[c][n].id \in stale => n < m
    BY DEF Kept
  <2>2. p < m
    BY <1>2, <2>1
  <2>3. \A i \in m..Len(runs[c]) : i \in 1..Len(runs[c]) /\ i # p /\ runs[c][i].id # id
    <3>1. ASSUME NEW i \in m..Len(runs[c])
          PROVE  i \in 1..Len(runs[c]) /\ i # p /\ runs[c][i].id # id
      <4>1. i \in 1..Len(runs[c]) /\ i # p
        BY <1>1, <2>1, <2>2
      <4> QED
        BY <1>2, <4>1, OneRowPerName
    <3> QED
      BY <3>1
  <2>4. Newer(c, m)' = Newer(c, m)
    <3>1. \A i \in m+1..Len(runs[c]) : Held(runs'[c][i]) <=> Held(runs[c][i])
      <4>1. \A i \in m+1..Len(runs[c]) : i \in m..Len(runs[c])
        BY <1>1, <2>1
      <4> QED
        BY <2>3, <4>1
    <3>2. Newer(c, m)' = {i \in m+1..Len(runs'[c]) : Held(runs'[c][i])}
      BY DEF Newer, Held
    <3> QED
      BY <1>1, <3>1, <3>2 DEF Newer
  <2>5. ~HeldBeyond(c, m, keep)'
    BY <2>1, <2>4 DEF HeldBeyond
  <2>6. Held(runs'[c][m])
    <3>1. m \in m..Len(runs[c])
      BY <1>1, <2>1
    <3> QED
      BY <2>1, <2>3, <3>1
  <2>7. \A n \in 1..Len(runs'[c]) : runs'[c][n].id \in rest => n < m
    BY <1>1, <2>1
  <2> QED
    BY <1>1, <2>1, <2>5, <2>6, <2>7 DEF Kept, Held
<1>4. Kept(c, keep, stale) \subseteq Kept(c, keep, rest)'
  BY <1>3
<1>5. IsFiniteSet(Kept(c, keep, rest)')
  <2>1. Kept(c, keep, rest)' \subseteq 1..Len(runs'[c])
    BY DEF Kept
  <2>2. IsFiniteSet(1..Len(runs'[c]))
    BY <1>1, FS_Interval
  <2> QED
    BY <2>1, <2>2, FS_Subset
<1>6. Cardinality(Kept(c, keep, stale)) <= Cardinality(Kept(c, keep, rest)')
  BY <1>4, <1>5, FS_Subset
<1>7. /\ Cardinality(Kept(c, keep, stale)) \in Nat /\ Cardinality(Kept(c, keep, rest)') \in Nat
      /\ keep \in Nat
  BY <1>5, KeptIsFinite, FS_CardinalityType
<1> QED
  BY <1>6, <1>7
LEMMA MarkLeavesKept ==
    ASSUME IInv, KeptInv, counts' \in CountShape, NEW k \in Carriers, job[k].at = "marking", Marked(k),
           UNCHANGED <<time, setting, archives, born, pending>>,
           \/ Releases(k)
           \/ /\ job[k].stale \ {Newest(job[k].stale)} # {}
              /\ job' = [job EXCEPT ![k].at = "removing",
                                    ![k].stale = job[k].stale \ {Newest(job[k].stale)}]
    PROVE  KeptInv'
<1> DEFINE c == job[k].config
           s == job[k].setting
           stale == job[k].stale
           id == Newest(stale)
           rest == stale \ {id}
<1>1. /\ TypeInv /\ DatabasesInv /\ job[k] \in JobShape /\ AtWork(job[k]) /\ job[k].at # "idle"
      /\ time \in Nat /\ born \in Nat
  BY IsBusy DEF KeptInv, TypeInv, AtWork
<1>2. c \in Configs /\ s \in Settings /\ stale \in SUBSET Nat
  BY <1>1 DEF JobShape
<1>3. /\ stale # {} /\ s.keep # "all"
      /\ \A o \in stale : \E n \in 1..Len(runs[c]) : runs[c][n].id = o /\ Held(runs[c][n])
      /\ s.keep = "count" => Cardinality(Kept(c, s.n, stale)) >= s.n
      /\ s.keep = "days" =>
            \A n \in 1..Len(runs[c]) : runs[c][n].id \in stale => runs[c][n].started + s.n < time
  BY DEF KeptInv, Keeps, Retaining
<1>4. \A o \in stale : o <= born
  BY <1>1, <1>2, <1>3 DEF DatabasesInv, Ordered
<1>5. id \in stale /\ id \in Nat
  BY <1>1, <1>2, <1>3, <1>4, NewestIsOne
<1>6. /\ runs' \in [Configs -> Seq(RowShape)]
      /\ \A d \in Configs : Len(runs'[d]) = Len(runs[d])
      /\ \A d \in Configs : \A n \in 1..Len(runs[d]) :
            /\ runs'[d][n].id = runs[d][n].id /\ runs'[d][n].started = runs[d][n].started
            /\ runs'[d][n].by = runs[d][n].by /\ runs'[d][n].status = runs[d][n].status
            /\ runs'[d][n].rotated <=> (runs[d][n].rotated \/ (d = c /\ runs[d][n].id = id))
  <2>1. SetsRun(c, id, "rotated", TRUE)
    BY DEF Marked
  <2>2. TypeInv /\ c \in Configs /\ id \in Nat
    BY <1>1, <1>2, <1>5
  <2> HIDE DEF c, id
  <2> QED
    BY ONLY <2>1, <2>2, RowIsMarked
<1>6a. \A d \in Configs \ {c} : runs'[d] = runs[d]
  BY <1>1, <1>2 DEF Marked, SetsRun, TypeInv
<1>7. /\ job' \in [Carriers -> {Idle} \cup JobShape]
      /\ \A l \in Carriers \ {k} : job'[l] = job[l]
      /\ \/ job'[k].at = "idle"
         \/ /\ job'[k].at = "removing" /\ job'[k].config = c /\ job'[k].setting = s
            /\ job'[k].stale = rest /\ rest # {}
  <2>1. CASE Releases(k)
    BY <1>1, <2>1, JobRests
  <2>2. CASE rest # {} /\ job' = [job EXCEPT ![k].at = "removing", ![k].stale = rest]
    <3>1. rest \in SUBSET Nat
      BY <1>2
    <3> HIDE DEF rest
    <3> QED
      BY <1>1, <2>2, <3>1, JobGoesWithStale DEF Steps
  <2> QED
    BY <2>1, <2>2
<1> HIDE DEF c, s, stale, id, rest
<1>8. \A n \in 1..Len(runs[c]) : Held(runs'[c][n]) <=> Held(runs[c][n]) /\ runs[c][n].id # id
  BY <1>2, <1>6 DEF Held
<1>9. \A n \in 1..Len(runs[c]) : runs'[c][n].id \in rest => runs[c][n].id \in stale /\ runs[c][n].id # id
  BY <1>2, <1>6 DEF rest
<1>10. Len(runs'[c]) = Len(runs[c]) /\ Len(runs[c]) \in Nat
  BY <1>1, <1>2, <1>6 DEF TypeInv
<1>11. s.keep = "count" => Cardinality(Kept(job[k].config, job[k].setting.n, job[k].stale)') >= s.n
           \/ job'[k].at = "idle"
  <2> SUFFICES ASSUME s.keep = "count", job'[k].at # "idle"
               PROVE  Cardinality(Kept(job[k].config, job[k].setting.n, job[k].stale)') >= s.n
    OBVIOUS
  <2>1. \A d, keep, ids : d = c /\ keep = s.n /\ ids = rest => Cardinality(Kept(d, keep, ids)') >= keep
    <3> SUFFICES ASSUME NEW d, NEW keep, NEW ids, d = c, keep = s.n, ids = rest
                 PROVE  Cardinality(Kept(d, keep, ids)') >= keep
      OBVIOUS
    <3>1. d \in Configs /\ keep \in Nat
      BY <1>2, BackupAssumption DEF SettingShape
    <3>2. PICK o : o = id
      OBVIOUS
    <3>3. PICK old : old = stale
      OBVIOUS
    <3>4. /\ Len(runs'[d]) = Len(runs[d])
          /\ \A n \in 1..Len(runs[d]) :
                runs'[d][n].id = runs[d][n].id /\ (Held(runs'[d][n]) <=> Held(runs[d][n]) /\ runs[d][n].id # o)
      BY <1>2, <1>6, <1>8, <3>2
    <3>5. /\ o \in old /\ ids = old \ {o} /\ Cardinality(Kept(d, keep, old)) >= keep
          /\ \E n \in 1..Len(runs[d]) : runs[d][n].id = o
      BY <1>3, <1>5, <3>2, <3>3 DEF rest
    <3>6. TypeInv /\ DatabasesInv
      BY <1>1
    <3> QED
      BY ONLY <3>1, <3>4, <3>5, <3>6, MarkingLeavesKept
  <2> QED
    BY <1>7, <2>1
<1>12. Keeps(k)'
  <2>1. CASE job'[k].at = "idle"
    BY <2>1 DEF Keeps, Retaining
  <2>2. CASE /\ job'[k].at = "removing" /\ job'[k].config = c /\ job'[k].setting = s
             /\ job'[k].stale = rest /\ rest # {}
    <3>1. \A o \in rest : \E n \in 1..Len(runs'[c]) : runs'[c][n].id = o /\ Held(runs'[c][n])
      BY <1>2, <1>3, <1>6, <1>8, <1>10 DEF rest
    <3>2. s.keep = "days" =>
            \A n \in 1..Len(runs'[c]) : runs'[c][n].id \in rest => runs'[c][n].started + s.n < time'
      BY <1>2, <1>3, <1>6, <1>9, <1>10
    <3> QED
      BY <1>3, <1>11, <2>2, <3>1, <3>2 DEF Keeps
  <2> QED
    BY <1>7, <2>1, <2>2
<1>13. TypeInv' /\ DatabasesInv'
  <2>1. TypeInv'
    BY <1>1, <1>6, <1>7 DEF TypeInv
  <2>2. DatabasesInv'
    BY <1>1, <1>6, NamesStay
  <2> QED
    BY <2>1, <2>2
<1>14. \A l \in Carriers \ {k} : Keeps(l)'
  BY <1>1, <1>6a, <1>7, OthersKeep DEF c
<1> QED
  BY <1>12, <1>13, <1>14 DEF KeptInv

(* A restore puts an older database in place while nobody is at work.      *)
LEMMA RestoreLeavesKept ==
    ASSUME IInv, KeptInv, counts' \in CountShape, RestoreArchive
    PROVE  KeptInv'
<1>1. PICK a \in DOMAIN archives : setting' = archives[a].setting /\ runs' = archives[a].runs
  BY DEF RestoreArchive
<1>2. restoring /\ UNCHANGED <<time, archives, born, job, pending>>
  BY DEF RestoreArchive
<1>3. setting' \in [Configs -> Settings] /\ Ordered(runs', born)
  BY <1>1 DEF KeptInv, DatabasesInv
<1>4. TypeInv'
  BY <1>2, <1>3 DEF KeptInv, TypeInv, Ordered
<1>5. DatabasesInv'
  <2>1. \A b \in DOMAIN archives :
            archives[b].setting \in [Configs -> Settings] /\ Ordered(archives[b].runs, born)
    BY DEF KeptInv, DatabasesInv
  <2> QED
    BY <1>2, <1>3, <2>1 DEF DatabasesInv, Ordered
<1>6. \A k \in Carriers : job[k].at \notin Retaining
  BY <1>2 DEF IInv, Exclusive, AtWork, Retaining
<1>7. \A k \in Carriers : Keeps(k)'
  BY <1>2, <1>6 DEF Keeps
<1> QED
  BY <1>4, <1>5, <1>7 DEF KeptInv

(* Steps that touch neither the history nor a rotation.                    *)
LEMMA UnrelatedLeavesKept ==
    ASSUME KeptInv, counts' \in CountShape, UNCHANGED <<runs, archives, born, job>>,
           setting' \in [Configs -> Settings], pending' \subseteq [config : Configs, setting : Settings],
           time' \in Nat, time <= time'
    PROVE  KeptInv'
<1>1. TypeInv'
  BY DEF KeptInv, TypeInv
<1>2. DatabasesInv'
  BY SameDatabases DEF KeptInv
<1>3. ASSUME NEW k \in Carriers PROVE Keeps(k)'
  BY KeepsStays DEF KeptInv
<1> QED
  BY <1>1, <1>2, <1>3 DEF KeptInv

LEMMA CrashLeavesKept ==
    ASSUME KeptInv, counts' \in CountShape, Crash
    PROVE  KeptInv'
<1>1. /\ UNCHANGED <<time, setting, runs, archives, born>>
      /\ job' = [k \in Carriers |-> Idle] /\ pending' = {}
  BY DEF Crash, rows
<1>2. TypeInv'
  BY <1>1 DEF KeptInv, TypeInv
<1>3. DatabasesInv'
  BY <1>1, SameDatabases DEF KeptInv
<1>4. \A k \in Carriers : Keeps(k)'
  BY <1>1 DEF Keeps, Retaining, Idle
<1> QED
  BY <1>2, <1>3, <1>4 DEF KeptInv

LEMMA CarryLeavesKept ==
    ASSUME IInv, KeptInv, counts' \in CountShape, NEW k \in Carriers, Carry(k)
    PROVE  KeptInv'
<1>1. CASE Claim(k)
  <2>1. job[k].at = "asked" /\ UNCHANGED <<time, setting, runs, archives, born, pending>>
    BY <1>1 DEF Claim, rows
  <2>2. CASE Goes(k, "claimed")
    BY <2>1, <2>2, GoingLeavesKept DEF Steps, Retaining
  <2>3. CASE job' = [job EXCEPT ![k] = Idle]
    BY <2>1, <2>3, ReleasingLeavesKept
  <2> QED
    BY <1>1, <2>2, <2>3 DEF Claim
<1>2. CASE Begin(k)
  BY <1>2, BeginLeavesKept
<1>3. CASE NotBegun(k)
  BY <1>3, ReleasingLeavesKept DEF NotBegun, rows
<1>4. CASE Perform(k)
  BY <1>4, PerformLeavesKept
<1>5. CASE RecordFailure(k)
  <2>1. /\ job[k].at = "failing" /\ Releases(k)
        /\ UNCHANGED <<time, setting, archives, born, pending>>
    BY <1>5 DEF RecordFailure
  <2>2. CASE FailureRecorded(k)
    BY <2>1, <2>2, FinishLeavesKept DEF FailureRecorded, Status
  <2>3. CASE UNCHANGED runs
    BY <2>1, <2>3, ReleasingLeavesKept
  <2> QED
    BY <1>5, <2>2, <2>3 DEF RecordFailure
<1>6. CASE RecordSuccess(k)
  <2>1. /\ job[k].at = "recording" /\ (Releases(k) \/ Goes(k, "rotating"))
        /\ UNCHANGED <<time, setting, archives, born, pending>>
    BY <1>6 DEF RecordSuccess
  <2>2. CASE SetsRun(job[k].config, job[k].run, "status", "success")
    BY <2>1, <2>2, FinishLeavesKept DEF Status
  <2>3. CASE Releases(k) /\ UNCHANGED runs
    BY <2>1, <2>3, ReleasingLeavesKept
  <2> QED
    BY <1>6, <2>2, <2>3 DEF RecordSuccess
<1>7. CASE Rotate(k)
  BY <1>7, RotateLeavesKept
<1>8. CASE RemoveArchive(k)
  BY <1>8, RemoveLeavesKept
<1>9. CASE MarkRotated(k)
  <2>1. /\ job[k].at = "marking"
        /\ UNCHANGED <<time, setting, archives, born, pending>>
    BY <1>9 DEF MarkRotated
  <2>2. CASE Releases(k) /\ UNCHANGED runs
    BY <2>1, <2>2, ReleasingLeavesKept
  <2>3. CASE /\ Marked(k)
             /\ \/ Releases(k)
                \/ /\ job[k].stale \ {Newest(job[k].stale)} # {}
                   /\ job' = [job EXCEPT ![k].at = "removing",
                                         ![k].stale = job[k].stale \ {Newest(job[k].stale)}]
    BY <2>1, <2>3, MarkLeavesKept
  <2> QED
    BY <1>9, <2>2, <2>3 DEF MarkRotated
<1> QED
  BY <1>1, <1>2, <1>3, <1>4, <1>5, <1>6, <1>7, <1>8, <1>9 DEF Carry

LEMMA StepLeavesKept == IInv /\ KeptInv /\ [Next]_vars => KeptInv'
<1> SUFFICES ASSUME IInv, KeptInv, [Next]_vars PROVE KeptInv'
  OBVIOUS
<1>1. /\ counts' \in CountShape /\ TypeInv /\ time \in Nat
      /\ setting \in [Configs -> Settings] /\ pending \subseteq [config : Configs, setting : Settings]
  BY CountsGrow DEF KeptInv, TypeInv
<1>2. ASSUME NEW k \in Carriers, Carry(k) PROVE KeptInv'
  BY <1>1, <1>2, CarryLeavesKept
<1>3. ASSUME NEW r \in Requests, RequestBackup(r) PROVE KeptInv'
  <2>1. PICK c \in Configs : job' = [job EXCEPT ![r] = Job("asked", c, setting[c])]
    BY <1>3 DEF RequestBackup
  <2>2. r \in Carriers /\ setting[c] \in Settings
    BY <1>1 DEF Carriers
  <2>3. UNCHANGED <<time, setting, runs, archives, born, pending>>
    BY <1>3 DEF RequestBackup, rows
  <2> QED
    BY <1>1, <2>1, <2>2, <2>3, AskingLeavesKept
<1>4. CASE SchedulerTakes
  <2>1. PICK e \in pending : /\ pending' = pending \ {e}
                            /\ job' = [job EXCEPT ![Scheduler] = Job("asked", e.config, e.setting)]
    BY <1>4 DEF SchedulerTakes
  <2>2. Scheduler \in Carriers /\ e.config \in Configs /\ e.setting \in Settings
    BY <1>1 DEF Carriers
  <2>3. UNCHANGED <<time, setting, runs, archives, born>>
    BY <1>4 DEF SchedulerTakes, rows
  <2> QED
    BY <1>1, <2>1, <2>2, <2>3, AskingLeavesKept
<1>5. CASE SchedulerPass
  <2>1. /\ pending' = {[config |-> c, setting |-> setting[c]] : c \in {d \in Configs : IsDue(d)}}
        /\ UNCHANGED <<time, setting, runs, archives, born, job>>
    BY <1>5 DEF SchedulerPass, rows
  <2>2. pending' \subseteq [config : Configs, setting : Settings]
    BY <1>1, <2>1
  <2> QED
    BY <1>1, <2>1, <2>2, UnrelatedLeavesKept
<1>6. CASE HoldForRestore \/ ResumeBackups \/ UNCHANGED vars
  <2>1. UNCHANGED <<time, setting, runs, archives, born, job, pending>>
    BY <1>6 DEF HoldForRestore, ResumeBackups, rows, vars
  <2> QED
    BY <1>1, <2>1, UnrelatedLeavesKept
<1>7. CASE RestoreArchive
  BY <1>1, <1>7, RestoreLeavesKept
<1>8. CASE EditConfig
  <2>1. UNCHANGED <<time, runs, archives, born, job, pending>>
    BY <1>8 DEF EditConfig
  <2>2. setting' \in [Configs -> Settings]
    BY <1>1, <1>8, SettingsAreKnown DEF KeptInv
  <2> QED
    BY <1>1, <2>1, <2>2, UnrelatedLeavesKept
<1>9. CASE Tick
  <2>1. time' = time + 1 /\ UNCHANGED <<setting, runs, archives, born, job, pending>>
    BY <1>9 DEF Tick, rows
  <2>2. time' \in Nat /\ time <= time'
    BY <1>1, <2>1
  <2> QED
    BY <1>1, <2>1, <2>2, UnrelatedLeavesKept
<1>10. CASE Crash
  BY <1>1, <1>10, CrashLeavesKept
<1> QED
  BY <1>2, <1>3, <1>4, <1>5, <1>6, <1>7, <1>8, <1>9, <1>10 DEF Next

LEMMA InitKept == Init => KeptInv
<1> SUFFICES ASSUME Init PROVE KeptInv
  OBVIOUS
<1>1. /\ setting \in [Configs -> Settings] /\ runs = [c \in Configs |-> <<>>]
      /\ archives = [a \in {} |-> Database] /\ job = [k \in Carriers |-> Idle]
  BY DEF Init
<1>2. DOMAIN archives = {} /\ \A k \in Carriers : job[k].at = "idle"
  BY <1>1 DEF Idle
<1>3. \A c \in Configs : 1..Len(runs[c]) = {}
  BY <1>1
<1>4. runs \in [Configs -> Seq(RowShape)]
  BY <1>1
<1>5. DatabasesInv
  BY <1>2, <1>3, <1>4 DEF DatabasesInv, Ordered
<1>6. \A k \in Carriers : Keeps(k)
  BY <1>2 DEF Keeps, Retaining
<1>7. counts \in CountShape /\ TypeInv
  <2>1. NeverRestored
    BY DEF Init, NeverRestored, NoCounts
  <2> QED
    BY <2>1, InitHistory DEF HistoryInv, Past
<1> QED
  BY <1>5, <1>6, <1>7 DEF KeptInv

-----------------------------------------------------------------------------
(* A row is outgrown for good: newer successes are only added, and time    *)
(* goes on.                                                                *)
LEMMA OutgrownStays ==
    ASSUME TypeInv, NEW c \in Configs, NEW n \in 1..Len(runs[c]), NEW s \in Settings,
           Outgrown(c, n, s), Len(runs'[c]) \in Nat, Len(runs[c]) <= Len(runs'[c]),
           Held(runs'[c][n]), runs'[c][n].started = runs[c][n].started,
           time' \in Nat, time <= time',
           \A m \in n+1..Len(runs[c]) : Held(runs[c][m]) => Held(runs'[c][m])
    PROVE  Outgrown(c, n, s)'
<1>1. n \in Nat /\ Len(runs[c]) \in Nat /\ s.n \in Nat /\ time \in Nat
  BY BackupAssumption DEF TypeInv, SettingShape
<1>2. runs[c][n].started \in Nat
  <2>1. runs[c][n] \in RowShape
    BY DEF TypeInv
  <2> QED
    BY <2>1 DEF RowShape
<1>3. ASSUME s.keep = "count", HeldBeyond(c, n, s.n) PROVE HeldBeyond(c, n, s.n)'
  <2>1. Newer(c, n)' = {i \in n+1..Len(runs'[c]) : Held(runs'[c][i])}
    BY DEF Newer, Held
  <2>2. Newer(c, n) \subseteq Newer(c, n)'
    <3>1. ASSUME NEW i \in n+1..Len(runs[c]) PROVE i \in n+1..Len(runs'[c])
      BY <1>1
    <3>2. ASSUME NEW i \in Newer(c, n) PROVE i \in n+1..Len(runs'[c]) /\ Held(runs'[c][i])
      <4>1. i \in n+1..Len(runs[c]) /\ Held(runs[c][i])
        BY DEF Newer
      <4> QED
        BY <3>1, <4>1
    <3> QED
      BY <2>1, <3>2
  <2>3. IsFiniteSet(Newer(c, n)')
    <3>1. n+1 \in Int /\ Len(runs'[c]) \in Int
      BY <1>1
    <3>2. IsFiniteSet(n+1..Len(runs'[c]))
      BY <3>1, FS_Interval
    <3> QED
      BY <2>1, <3>2, FS_Subset
  <2>4. Cardinality(Newer(c, n)) <= Cardinality(Newer(c, n)')
    BY <2>2, <2>3, FS_Subset
  <2>5. Cardinality(Newer(c, n)) \in Nat /\ Cardinality(Newer(c, n)') \in Nat
    BY <1>1, <2>3, NewerIsFinite, FS_CardinalityType
  <2> QED
    BY <1>1, <1>3, <2>4, <2>5 DEF HeldBeyond
<1>4. ASSUME s.keep = "days", runs[c][n].started + s.n < time PROVE runs'[c][n].started + s.n < time'
  BY <1>1, <1>2, <1>4
<1>5. \/ s.keep = "count" /\ HeldBeyond(c, n, s.n)
      \/ s.keep = "days" /\ runs[c][n].started + s.n < time
  BY DEF Outgrown
<1> QED
  BY <1>3, <1>4, <1>5 DEF Outgrown, Held

(* What GoneInv asks of one configuration.                                 *)
Gone(c, s) ==
    \A n \in 1..Len(runs[c]) : Held(runs[c][n]) /\ ~IsHeld(c, runs[c][n].id) => Outgrown(c, n, s)

(* No row loses a newer success, and no archive goes.                      *)
LEMMA GoneStays ==
    ASSUME TypeInv, NEW c \in Configs, NEW s \in Settings, Gone(c, s),
           Len(runs'[c]) \in Nat, Len(runs[c]) <= Len(runs'[c]), time' \in Nat, time <= time',
           DOMAIN archives \subseteq DOMAIN archives',
           \A n \in 1..Len(runs[c]) :
              /\ runs'[c][n].id = runs[c][n].id /\ runs'[c][n].started = runs[c][n].started
              /\ Held(runs[c][n]) => Held(runs'[c][n]),
           \A n \in 1..Len(runs'[c]) : Held(runs'[c][n]) /\ ~IsHeld(c, runs[c][n].id)' =>
              n \in 1..Len(runs[c]) /\ Held(runs[c][n])
    PROVE  Gone(c, s)'
<1>1. ASSUME NEW n \in 1..Len(runs'[c]), Held(runs'[c][n]), ~IsHeld(c, runs[c][n].id)'
      PROVE  Outgrown(c, n, s)'
  <2>1. n \in 1..Len(runs[c]) /\ Held(runs[c][n]) /\ runs'[c][n].id = runs[c][n].id
    BY <1>1
  <2>2. ~IsHeld(c, runs[c][n].id)
    BY <1>1, <2>1 DEF IsHeld
  <2>3. Outgrown(c, n, s)
    BY <2>1, <2>2 DEF Gone
  <2>4. \A m \in n+1..Len(runs[c]) : m \in 1..Len(runs[c])
    BY <2>1 DEF TypeInv
  <2>5. \A m \in n+1..Len(runs[c]) : Held(runs[c][m]) => Held(runs'[c][m])
    BY <2>4
  <2> QED
    BY <1>1, <2>1, <2>3, <2>5, OutgrownStays
<1> QED
  BY <1>1 DEF Gone, Held

(* An archive goes only of a row that is outgrown.                         *)
LEMMA RemoveLeavesGone ==
    ASSUME Past, KeptInv, counts.edit = 0, NEW k \in Carriers, RemoveArchive(k),
           NEW c \in Configs, NEW s \in Settings, s = setting[c], Gone(c, s)
    PROVE  Gone(c, s)'
<1> DEFINE gone == Archive(job[k].config, Newest(job[k].stale), job[k].setting.to)
<1>1. /\ TypeInv /\ UNCHANGED <<time, setting, runs>> /\ job[k].at = "removing"
  BY DEF RemoveArchive, rows, Past
<1>2. /\ DOMAIN archives \ {gone} \subseteq DOMAIN archives'
  BY DEF RemoveArchive, Removed
<1>3. gone.config = job[k].config /\ gone.id = Newest(job[k].stale)
  BY DEF Archive
<1> HIDE DEF gone
<1>4. /\ job[k].setting = setting[job[k].config]
      /\ job[k].stale \in SUBSET Nat
  BY <1>1, IsBusy DEF Past, UneditedInv, JobShape
<1>5. /\ job[k].stale # {} /\ job[k].setting.keep # "all"
      /\ job[k].setting.keep = "count" =>
            Cardinality(Kept(job[k].config, job[k].setting.n, job[k].stale)) >= job[k].setting.n
      /\ job[k].setting.keep = "days" =>
            \A n \in 1..Len(runs[job[k].config]) : runs[job[k].config][n].id \in job[k].stale =>
                runs[job[k].config][n].started + job[k].setting.n < time
      /\ \A id \in job[k].stale : id <= born
  BY <1>1 DEF KeptInv, Keeps, Retaining, Past, StaleInv, Lets
<1>6. Newest(job[k].stale) \in job[k].stale
  BY <1>1, <1>4, <1>5, NewestIsOne DEF TypeInv
<1>7. ASSUME NEW n \in 1..Len(runs[c]), Held(runs[c][n]), ~IsHeld(c, runs[c][n].id)'
      PROVE  Outgrown(c, n, s)
  <2>1. CASE ~IsHeld(c, runs[c][n].id)
    BY <1>7, <2>1 DEF Gone
  <2>2. CASE IsHeld(c, runs[c][n].id)
    <3>1. PICK a \in DOMAIN archives : a.config = c /\ a.id = runs[c][n].id
      BY <2>2 DEF IsHeld
    <3>2. a \notin DOMAIN archives'
      BY <1>1, <1>7, <3>1 DEF IsHeld
    <3>3. a = gone
      BY <1>2, <3>2
    <3>4. c = job[k].config /\ runs[c][n].id \in job[k].stale /\ s = job[k].setting
      BY <1>3, <1>4, <1>6, <3>1, <3>3
    <3>5. s.keep = "count" => HeldBeyond(c, n, s.n)
      <4>1. PICK stale : stale = job[k].stale
        OBVIOUS
      <4>2. s.keep = "count" => Cardinality(Kept(c, s.n, stale)) >= s.n
        BY <1>5, <3>4, <4>1
      <4>3. runs[c][n].id \in stale
        BY <3>4, <4>1
      <4> QED
        BY <1>1, <4>2, <4>3, KeptIsNewer
    <3>6. s.keep = "days" => runs[c][n].started + s.n < time
      BY <1>5, <3>4
    <3>7. s.keep \in {"all", "count", "days"} /\ s.keep # "all"
      BY <1>5, <3>4, BackupAssumption DEF SettingShape
    <3> QED
      BY <1>7, <3>5, <3>6, <3>7 DEF Outgrown
  <2> QED
    BY <2>1, <2>2
<1> QED
  BY <1>1, <1>7 DEF Gone, Outgrown, HeldBeyond, Newer

(* Marking takes no newer success from a row that was outgrown without it. *)
LEMMA MarkLeavesGone ==
    ASSUME Past, KeptInv, counts.edit = 0, NEW k \in Carriers, job[k].at = "marking", Marked(k),
           UNCHANGED <<time, setting, archives>>,
           NEW c \in Configs, NEW s \in Settings, s = setting[c], Gone(c, s)
    PROVE  Gone(c, s)'
<1>1. TypeInv /\ DatabasesInv /\ job[k] \in JobShape /\ time \in Nat /\ born \in Nat
  BY IsBusy DEF KeptInv, TypeInv
<1>2. /\ job[k].config \in Configs /\ job[k].stale \in SUBSET Nat
      /\ job[k].setting = setting[job[k].config]
  BY <1>1 DEF JobShape, Past, UneditedInv
<1>3. /\ job[k].stale # {} /\ \A id \in job[k].stale : id <= born
      /\ job[k].setting.keep # "all"
      /\ \A id \in job[k].stale : \E n \in 1..Len(runs[job[k].config]) : runs[job[k].config][n].id = id
      /\ job[k].setting.keep = "count" =>
            Cardinality(Kept(job[k].config, job[k].setting.n, job[k].stale)) >= job[k].setting.n
  BY DEF KeptInv, Keeps, Retaining, Past, StaleInv, Lets
<1>4. PICK id : id = Newest(job[k].stale)
  OBVIOUS
<1>5. id \in job[k].stale /\ id \in Nat
  BY <1>1, <1>2, <1>3, <1>4, NewestIsOne
<1>6. PICK d \in Configs : d = job[k].config
  BY <1>2
<1>7. /\ runs' \in [Configs -> Seq(RowShape)]
      /\ \A e \in Configs : Len(runs'[e]) = Len(runs[e])
      /\ \A e \in Configs : \A n \in 1..Len(runs[e]) :
            /\ runs'[e][n].id = runs[e][n].id /\ runs'[e][n].started = runs[e][n].started
            /\ runs'[e][n].by = runs[e][n].by /\ runs'[e][n].status = runs[e][n].status
            /\ runs'[e][n].rotated <=> (runs[e][n].rotated \/ (e = d /\ runs[e][n].id = id))
  <2>1. SetsRun(d, id, "rotated", TRUE)
    BY <1>4, <1>6 DEF Marked
  <2> QED
    BY ONLY <1>1, <1>5, <2>1, RowIsMarked
<1>8. \A n \in 1..Len(runs[c]) :
          Held(runs'[c][n]) <=> Held(runs[c][n]) /\ ~(c = d /\ runs[c][n].id = id)
  BY <1>7 DEF Held
<1>9. Len(runs'[c]) = Len(runs[c]) /\ Len(runs[c]) \in Nat
  BY <1>1, <1>7 DEF TypeInv
<1>10. CASE c # d
  <2>1. /\ Len(runs'[c]) \in Nat /\ Len(runs[c]) <= Len(runs'[c]) /\ time' \in Nat /\ time <= time'
        /\ DOMAIN archives \subseteq DOMAIN archives' /\ 1..Len(runs'[c]) = 1..Len(runs[c])
    BY <1>1, <1>9
  <2>2. \A n \in 1..Len(runs[c]) :
            /\ runs'[c][n].id = runs[c][n].id /\ runs'[c][n].started = runs[c][n].started
            /\ Held(runs[c][n]) => Held(runs'[c][n])
    BY <1>7, <1>8, <1>10
  <2>3. \A n \in 1..Len(runs'[c]) : Held(runs'[c][n]) => n \in 1..Len(runs[c]) /\ Held(runs[c][n])
    BY <1>8, <2>1
  <2> QED
    BY <1>1, <2>1, <2>2, <2>3, GoneStays
<1>11. CASE c = d
  <2>1. PICK p \in 1..Len(runs[c]) : runs[c][p].id = id
    BY <1>3, <1>5, <1>6, <1>11
  <2>2. ASSUME NEW n \in 1..Len(runs'[c]), Held(runs'[c][n]), ~IsHeld(c, runs[c][n].id)'
        PROVE  Outgrown(c, n, s)'
    <3>1. /\ n \in 1..Len(runs[c]) /\ Held(runs[c][n]) /\ runs[c][n].id # id /\ n # p
          /\ runs'[c][n].id = runs[c][n].id /\ runs'[c][n].started = runs[c][n].started
      BY <1>7, <1>8, <1>9, <1>11, <2>1, <2>2
    <3>2. Outgrown(c, n, s)
      <4>1. ~IsHeld(c, runs[c][n].id)
        BY <2>2, <3>1 DEF IsHeld
      <4> QED
        BY <3>1, <4>1 DEF Gone
    <3>3. CASE s.keep = "count" /\ n < p
      <4>1. PICK stale : stale = job[k].stale
        OBVIOUS
      <4>2. /\ Cardinality(Kept(c, s.n, stale)) >= s.n /\ id \in stale /\ s.n \in Nat
        BY <1>2, <1>3, <1>5, <1>6, <1>11, <3>3, <4>1, BackupAssumption DEF SettingShape
      <4>3. Newer(c, n)' = {i \in n+1..Len(runs'[c]) : Held(runs'[c][i])}
        BY DEF Newer, Held
      <4>4. Kept(c, s.n, stale) \subseteq Newer(c, n)'
        <5>1. ASSUME NEW m \in Kept(c, s.n, stale) PROVE m \in Newer(c, n)'
          <6>1. /\ m \in 1..Len(runs[c]) /\ Held(runs[c][m])
                /\ \A i \in 1..Len(runs[c]) : runs[c][i].id \in stale => i < m
            BY DEF Kept
          <6>2. p < m
            BY <2>1, <4>2, <6>1
          <6>3. runs[c][m].id # id
            BY <1>1, <2>1, <6>1, <6>2, OneRowPerName
          <6>4. m \in n+1..Len(runs'[c])
            BY <1>9, <3>1, <3>3, <6>1, <6>2
          <6>5. Held(runs'[c][m])
            BY <1>8, <6>1, <6>3
          <6> QED
            BY <4>3, <6>4, <6>5
        <5> QED
          BY <5>1
      <4>5. IsFiniteSet(Newer(c, n)')
        <5>1. n+1 \in Int /\ Len(runs'[c]) \in Int
          BY <1>9, <3>1
        <5>2. IsFiniteSet(n+1..Len(runs'[c]))
          BY <5>1, FS_Interval
        <5> QED
          BY <4>3, <5>2, FS_Subset
      <4>6. Cardinality(Kept(c, s.n, stale)) <= Cardinality(Newer(c, n)')
        BY <4>4, <4>5, FS_Subset
      <4>7. Cardinality(Kept(c, s.n, stale)) \in Nat /\ Cardinality(Newer(c, n)') \in Nat
        BY <1>1, <4>5, KeptIsFinite, FS_CardinalityType
      <4>8. HeldBeyond(c, n, s.n)'
        BY <4>2, <4>6, <4>7 DEF HeldBeyond
      <4> QED
        BY <2>2, <3>3, <4>8 DEF Outgrown, Held
    <3>4. CASE s.keep = "days"
      BY <2>2, <3>1, <3>2, <3>4 DEF Outgrown, Held
    <3>5. CASE p < n
      <4>1. \A m \in n+1..Len(runs[c]) : m \in 1..Len(runs[c]) /\ m # p
        BY <1>9, <3>1, <3>5
      <4>2. \A m \in n+1..Len(runs[c]) : runs[c][m].id # id
        BY <1>1, <2>1, <4>1, OneRowPerName
      <4>3. \A m \in n+1..Len(runs[c]) : Held(runs[c][m]) => Held(runs'[c][m])
        BY <1>8, <4>1, <4>2
      <4>4. time' \in Nat /\ time <= time' /\ Len(runs'[c]) \in Nat /\ Len(runs[c]) <= Len(runs'[c])
        BY <1>1, <1>9
      <4> QED
        BY <1>1, <2>2, <3>1, <3>2, <4>3, <4>4, OutgrownStays
    <3>6. n < p \/ p < n
      BY <1>9, <2>1, <3>1
    <3>7. s.keep \in {"count", "days"}
      BY <3>2 DEF Outgrown
    <3> QED
      BY <3>3, <3>4, <3>5, <3>6, <3>7
  <2> QED
    BY <2>2 DEF Gone, Held
<1> QED
  BY <1>10, <1>11

(* A run that begins or ends is no newer success until its archive is      *)
(* there.                                                                  *)
LEMMA BeginLeavesGone ==
    ASSUME Past, NEW k \in Carriers, Begin(k), NEW c \in Configs, NEW s \in Settings, Gone(c, s)
    PROVE  Gone(c, s)'
<1> DEFINE r == Run(born + 1, k)
<1>1. /\ TypeInv /\ UNCHANGED <<time, archives>> /\ job[k].at = "claimed"
      /\ runs' = [runs EXCEPT ![job[k].config] = Append(@, r)]
  BY DEF Begin, Past
<1>2. PICK d \in Configs : d = job[k].config
  BY <1>1, IsBusy DEF JobShape
<1>3. r \in RowShape /\ ~Held(r) /\ time \in Nat
  BY <1>1 DEF Run, RowShape, Status, Held, TypeInv
<1> HIDE DEF r
<1>4. /\ runs' \in [Configs -> Seq(RowShape)]
      /\ Len(runs'[d]) = Len(runs[d]) + 1 /\ runs'[d][Len(runs[d]) + 1] = r
      /\ \A n \in 1..Len(runs[d]) : runs'[d][n] = runs[d][n]
      /\ \A e \in Configs \ {d} : runs'[e] = runs[e]
  BY <1>1, <1>2, <1>3, RowIsBegun
<1>5. Len(runs[c]) \in Nat /\ Len(runs[d]) \in Nat
  BY <1>1 DEF TypeInv
<1>6. /\ Len(runs'[c]) \in Nat /\ Len(runs[c]) <= Len(runs'[c]) /\ time' \in Nat /\ time <= time'
      /\ DOMAIN archives \subseteq DOMAIN archives'
  BY <1>1, <1>3, <1>4, <1>5
<1>7. \A n \in 1..Len(runs[c]) : runs'[c][n] = runs[c][n]
  BY <1>4
<1>8. ASSUME NEW n \in 1..Len(runs'[c]), Held(runs'[c][n])
      PROVE  n \in 1..Len(runs[c]) /\ Held(runs[c][n])
  <2>1. CASE c # d
    BY <1>4, <1>8, <2>1
  <2>2. CASE c = d
    <3>1. n \in 1..Len(runs[c]) \/ n = Len(runs[d]) + 1
      BY <1>4, <1>5, <2>2
    <3>2. n # Len(runs[d]) + 1
      BY <1>3, <1>4, <1>8, <2>2
    <3> QED
      BY <1>7, <1>8, <3>1, <3>2
  <2> QED
    BY <2>1, <2>2
<1> QED
  BY <1>1, <1>6, <1>7, <1>8, GoneStays

LEMMA FinishLeavesGone ==
    ASSUME Past, NEW k \in Carriers, NEW v \in {"success", "failed"},
           job[k].at = IF v = "success" THEN "recording" ELSE "failing",
           SetsRun(job[k].config, job[k].run, "status", v), UNCHANGED <<time, archives>>,
           NEW c \in Configs, NEW s \in Settings, Gone(c, s)
    PROVE  Gone(c, s)'
<1>1. TypeInv /\ time \in Nat /\ job[k] \in JobShape
  BY IsBusy DEF Past, TypeInv
<1>2. PICK d \in Configs, id \in Nat : d = job[k].config /\ id = job[k].run
  BY <1>1 DEF JobShape
<1>3. /\ runs' \in [Configs -> Seq(RowShape)]
      /\ \A e \in Configs : Len(runs'[e]) = Len(runs[e])
      /\ \A e \in Configs : \A n \in 1..Len(runs[e]) :
            /\ runs'[e][n].id = runs[e][n].id /\ runs'[e][n].started = runs[e][n].started
            /\ runs'[e][n].by = runs[e][n].by /\ runs'[e][n].rotated = runs[e][n].rotated
            /\ runs'[e][n].status = IF e = d /\ runs[e][n].id = id THEN v ELSE runs[e][n].status
  <2>1. TypeInv /\ d \in Configs /\ id \in Nat /\ v \in Status /\ SetsRun(d, id, "status", v)
    BY <1>1, <1>2 DEF Status
  <2> QED
    BY ONLY <2>1, StatusIsSet
<1>4. /\ \A n \in 1..Len(runs[d]) : runs[d][n].id = id => runs[d][n].status = "running"
      /\ v = "success" => IsHeld(d, id)
  BY <1>2 DEF Past, JobRowInv, HasRow, Unfinished
<1>5. Len(runs[c]) \in Nat /\ 1..Len(runs'[c]) = 1..Len(runs[c])
  BY <1>1, <1>3 DEF TypeInv
<1>6. /\ Len(runs'[c]) \in Nat /\ Len(runs[c]) <= Len(runs'[c]) /\ time' \in Nat /\ time <= time'
      /\ DOMAIN archives \subseteq DOMAIN archives'
  BY <1>1, <1>3, <1>5
<1>7. \A n \in 1..Len(runs[c]) :
          /\ runs'[c][n].id = runs[c][n].id /\ runs'[c][n].started = runs[c][n].started
          /\ Held(runs[c][n]) => Held(runs'[c][n])
  BY <1>3, <1>4 DEF Held
<1>8. ASSUME NEW n \in 1..Len(runs'[c]), Held(runs'[c][n]), ~IsHeld(c, runs[c][n].id)'
      PROVE  n \in 1..Len(runs[c]) /\ Held(runs[c][n])
  <2>1. n \in 1..Len(runs[c]) /\ runs'[c][n].id = runs[c][n].id
    BY <1>5, <1>7
  <2>2. ~IsHeld(c, runs[c][n].id)
    BY <1>8, <2>1 DEF IsHeld
  <2>3. ~(c = d /\ runs[c][n].id = id)
    <3>1. CASE v = "success"
      BY <1>4, <2>2, <3>1
    <3>2. CASE v = "failed"
      BY <1>3, <1>8, <2>1, <3>2 DEF Held
    <3> QED
      BY <3>1, <3>2
  <2> QED
    BY <1>3, <1>8, <2>1, <2>3 DEF Held
<1> QED
  BY <1>1, <1>6, <1>7, <1>8, GoneStays

(* Steps that change no row and remove no archive.                         *)
LEMMA UnrelatedLeavesGone ==
    ASSUME TypeInv, UNCHANGED runs, DOMAIN archives \subseteq DOMAIN archives', time' \in Nat,
           time <= time', NEW c \in Configs, NEW s \in Settings, Gone(c, s)
    PROVE  Gone(c, s)'
<1>1. Len(runs'[c]) \in Nat /\ Len(runs[c]) <= Len(runs'[c])
  BY DEF TypeInv
<1>2. \A n \in 1..Len(runs[c]) :
          /\ runs'[c][n].id = runs[c][n].id /\ runs'[c][n].started = runs[c][n].started
          /\ Held(runs[c][n]) => Held(runs'[c][n])
  OBVIOUS
<1>3. \A n \in 1..Len(runs'[c]) : Held(runs'[c][n]) => n \in 1..Len(runs[c]) /\ Held(runs[c][n])
  OBVIOUS
<1> QED
  BY <1>1, <1>2, <1>3, GoneStays

(* Only a rotation takes archives away.                                    *)
LEMMA OnlyRotationRemoves ==
    ASSUME [Next]_vars
    PROVE  \/ DOMAIN archives \subseteq DOMAIN archives'
           \/ \E k \in Carriers : RemoveArchive(k)
<1>1. ASSUME NEW k \in Carriers, Carry(k), ~RemoveArchive(k)
      PROVE  DOMAIN archives \subseteq DOMAIN archives'
  <2>1. CASE Perform(k)
    <3>1. \/ archives' = archives
          \/ \E new : archives' = [a \in DOMAIN archives \cup {new} |->
                                      IF a = new THEN Database ELSE archives[a]]
      BY <2>1 DEF Perform, Stored
    <3> QED
      BY <3>1
  <2>2. CASE UNCHANGED archives
    BY <2>2
  <2> QED
    BY <1>1, <2>1, <2>2 DEF Carry, Claim, Begin, NotBegun, RecordFailure, RecordSuccess, Rotate, MarkRotated
<1>2. ASSUME ~\E k \in Carriers : Carry(k) PROVE UNCHANGED archives
  BY <1>2 DEF Next, SchedulerPass, SchedulerTakes, RequestBackup, HoldForRestore, RestoreArchive,
     ResumeBackups, EditConfig, Tick, Crash, vars
<1> QED
  BY <1>1, <1>2

LEMMA StepLeavesGone == IInv /\ HistoryInv /\ KeptInv /\ GoneInv /\ [Next]_vars => GoneInv'
<1> SUFFICES ASSUME IInv, HistoryInv, KeptInv, GoneInv, [Next]_vars, Undisturbed' PROVE GoneInv'
  BY DEF GoneInv
<1>1. counts \in CountShape /\ counts' \in CountShape /\ Growing /\ counts.restore <= counts'.restore
  BY CountsGrow DEF KeptInv
<1>2. Undisturbed /\ counts.edit = 0 /\ counts'.edit = 0 /\ counts'.restore = 0
  <2>1. counts.restore \in Nat /\ counts'.restore = 0 /\ counts'.edit = 0
    BY <1>1 DEF CountShape, Undisturbed, NeverRestored
  <2> QED
    BY <1>1, <2>1 DEF Undisturbed, NeverRestored, Growing
<1>3. Past /\ TypeInv /\ time \in Nat
  BY <1>2 DEF HistoryInv, Undisturbed, Past, TypeInv
<1>4. ~RestoreArchive /\ ~EditConfig
  BY <1>1, <1>2, TroubleIsCounted DEF RestoreArchive, EditConfig
<1>5. setting' = setting
  <2>1. ASSUME NEW k \in Carriers, Carry(k) PROVE setting' = setting
    BY <2>1 DEF Carry, Claim, Begin, NotBegun, Perform, RecordFailure, RecordSuccess, Rotate,
       RemoveArchive, MarkRotated, rows
  <2>2. CASE ~\E k \in Carriers : Carry(k)
    BY <1>4, <2>2 DEF Next, SchedulerPass, SchedulerTakes, RequestBackup, HoldForRestore,
       ResumeBackups, Tick, Crash, vars, rows
  <2> QED
    BY <2>1, <2>2
<1>6. ASSUME NEW c \in Configs, NEW s \in Settings, s = setting[c], Gone(c, s) PROVE Gone(c, s)'
  <2>1. ASSUME UNCHANGED runs, DOMAIN archives \subseteq DOMAIN archives', time' \in Nat, time <= time'
        PROVE  Gone(c, s)'
    BY <1>3, <1>6, <2>1, UnrelatedLeavesGone
  <2>2. ASSUME NEW k \in Carriers, Carry(k) PROVE Gone(c, s)'
    <3>0. UNCHANGED time
      BY <2>2 DEF Carry, Claim, Begin, NotBegun, Perform, RecordFailure, RecordSuccess, Rotate,
         RemoveArchive, MarkRotated
    <3>1. CASE Begin(k)
      BY <1>3, <1>6, <3>1, BeginLeavesGone
    <3>2. CASE RemoveArchive(k)
      BY <1>2, <1>3, <1>6, <3>2, RemoveLeavesGone
    <3>3. CASE MarkRotated(k) /\ Marked(k)
      BY <1>2, <1>3, <1>6, <3>3, MarkLeavesGone DEF MarkRotated
    <3>4. CASE RecordSuccess(k) /\ SetsRun(job[k].config, job[k].run, "status", "success")
      BY <1>3, <1>6, <3>4, FinishLeavesGone DEF RecordSuccess
    <3>5. CASE RecordFailure(k) /\ FailureRecorded(k)
      BY <1>3, <1>6, <3>5, FinishLeavesGone DEF RecordFailure, FailureRecorded
    <3>6. CASE ~RemoveArchive(k) /\ UNCHANGED runs
      <4>1. DOMAIN archives \subseteq DOMAIN archives'
        <5>1. CASE Perform(k)
          <6>1. \/ archives' = archives
                \/ \E new : archives' = [a \in DOMAIN archives \cup {new} |->
                                            IF a = new THEN Database ELSE archives[a]]
            BY <5>1 DEF Perform, Stored
          <6> QED
            BY <6>1
        <5>2. CASE UNCHANGED archives
          BY <5>2
        <5> QED
          BY <2>2, <3>6, <5>1, <5>2 DEF Carry, Claim, Begin, NotBegun, RecordFailure, RecordSuccess,
             Rotate, MarkRotated
      <4> QED
        BY <1>3, <2>1, <3>0, <3>6, <4>1
    <3> QED
      BY <2>2, <3>1, <3>2, <3>3, <3>4, <3>5, <3>6 DEF Carry, Claim, NotBegun, Perform, RecordFailure,
         RecordSuccess, Rotate, MarkRotated, rows
  <2>3. CASE ~\E k \in Carriers : Carry(k)
    <3>1. UNCHANGED <<runs, archives>>
      BY <1>4, <2>3 DEF Next, SchedulerPass, SchedulerTakes, RequestBackup, HoldForRestore,
         ResumeBackups, Tick, Crash, vars, rows
    <3>2. time' = time \/ time' = time + 1
      BY <1>4, <2>3 DEF Next, SchedulerPass, SchedulerTakes, RequestBackup, HoldForRestore,
         ResumeBackups, Tick, Crash, vars, rows
    <3>3. time' \in Nat /\ time <= time'
      BY <1>3, <3>2
    <3> QED
      BY <2>1, <3>1, <3>3
  <2> QED
    BY <2>2, <2>3
<1>7. ASSUME NEW c \in Configs, NEW n \in 1..Len(runs'[c]), Held(runs'[c][n]), ~IsHeld(c, runs[c][n].id)'
      PROVE  Outgrown(c, n, setting[c])'
  <2>1. PICK s \in Settings : s = setting[c]
    BY <1>3 DEF TypeInv
  <2>2. Gone(c, s)
    BY <1>2, <2>1 DEF GoneInv, Gone
  <2>3. Gone(c, s)'
    BY <1>6, <2>1, <2>2
  <2>4. Outgrown(c, n, s)'
    BY <1>7, <2>3 DEF Gone, Held
  <2> QED
    BY <1>5, <2>1, <2>4 DEF Outgrown, HeldBeyond, Newer
<1> QED
  BY <1>7 DEF GoneInv, Held

LEMMA InitGone == Init => GoneInv
<1> SUFFICES ASSUME Init PROVE GoneInv
  OBVIOUS
<1>1. \A c \in Configs : 1..Len(runs[c]) = {}
  BY DEF Init
<1> QED
  BY <1>1 DEF GoneInv

(* Carrier k may remove archive a, made by the run in row n.               *)
LetGo(a, k, n) ==
    LET there == {i \in Newer(a.config, n) : IsHeld(a.config, runs[a.config][i].id)}
        s == job[k].setting
    IN
    /\ runs[a.config][n].id = a.id /\ Held(runs[a.config][n])
    /\ job[k].at = "removing" /\ job[k].config = a.config
    /\ \/ /\ s.keep = "count"
          /\ Cardinality(Newer(a.config, n)) >= s.n
          /\ Undisturbed => Cardinality(there) >= s.n
       \/ s.keep = "days" /\ runs[a.config][n].started + s.n < time

(* The removal is let go of by the retention of its remover.               *)
LEMMA RemovalIsLetGo ==
    ASSUME IInv, HistoryInv, KeptInv, GoneInv, NEW k \in Carriers, RemoveArchive(k),
           NEW a \in DOMAIN archives, a \notin DOMAIN archives'
    PROVE  \E n \in 1..Len(runs[a.config]) : LetGo(a, k, n)
<1> DEFINE gone == Archive(job[k].config, Newest(job[k].stale), job[k].setting.to)
<1>1. TypeInv /\ DatabasesInv /\ Keeps(k) /\ job[k].at = "removing"
  BY DEF RemoveArchive, KeptInv
<1>2. DOMAIN archives \ {gone} \subseteq DOMAIN archives'
  BY DEF RemoveArchive, Removed
<1>3. a = gone
  BY <1>2
<1>4. a.config = job[k].config /\ a.id = Newest(job[k].stale)
  BY <1>3 DEF Archive
<1> HIDE DEF gone
<1>5. job[k] \in JobShape
  BY <1>1, IsBusy
<1>6. PICK c \in Configs, s \in Settings, stale \in SUBSET Nat :
          c = job[k].config /\ s = job[k].setting /\ stale = job[k].stale
  BY <1>5 DEF JobShape
<1>7. /\ stale # {} /\ s.keep # "all"
      /\ \A id \in stale : \E n \in 1..Len(runs[c]) : runs[c][n].id = id /\ Held(runs[c][n])
      /\ s.keep = "count" => Cardinality(Kept(c, s.n, stale)) >= s.n
      /\ s.keep = "days" => \A n \in 1..Len(runs[c]) : runs[c][n].id \in stale => runs[c][n].started + s.n < time
  BY <1>1, <1>6 DEF Keeps, Retaining
<1>8. /\ \A id \in stale : id <= born
      /\ time \in Nat /\ born \in Nat
  <2>1. ASSUME NEW id \in stale PROVE id <= born
    <3>1. PICK n \in 1..Len(runs[c]) : runs[c][n].id = id
      BY <1>7, <2>1
    <3> QED
      BY <1>1, <3>1 DEF DatabasesInv, Ordered
  <2> QED
    BY <1>1, <2>1 DEF TypeInv
<1>9. a.config = c /\ a.id \in stale
  <2>1. Newest(stale) \in stale
    BY <1>6, <1>7, <1>8, NewestIsOne
  <2> QED
    BY <1>4, <1>6, <2>1
<1>10. PICK n \in 1..Len(runs[c]) : runs[c][n].id = a.id /\ Held(runs[c][n])
  BY <1>7, <1>9
<1> DEFINE there == {i \in Newer(c, n) : IsHeld(c, runs[c][i].id)}
<1>11. ASSUME s.keep = "count"
       PROVE  Cardinality(Newer(c, n)) >= s.n /\ (Undisturbed => Cardinality(there) >= s.n)
  <2>1. Kept(c, s.n, stale) \subseteq Newer(c, n) /\ HeldBeyond(c, n, s.n)
    BY <1>1, <1>7, <1>9, <1>10, <1>11, KeptIsNewer
  <2>2. ASSUME Undisturbed PROVE Cardinality(there) >= s.n
    <3>1. s = setting[c]
      BY <1>1, <1>6, <2>2 DEF Undisturbed, HistoryInv, Past, UneditedInv
    <3>2. ASSUME NEW m \in Kept(c, s.n, stale) PROVE IsHeld(c, runs[c][m].id)
      <4>1. m \in 1..Len(runs[c]) /\ Held(runs[c][m]) /\ ~HeldBeyond(c, m, s.n)
        BY DEF Kept
      <4>2. ~Outgrown(c, m, s)
        BY <1>11, <4>1 DEF Outgrown
      <4> QED
        BY <2>2, <3>1, <4>1, <4>2 DEF GoneInv
    <3>3. Kept(c, s.n, stale) \subseteq there
      BY <2>1, <3>2
    <3>4. IsFiniteSet(there)
      <4>1. n \in Nat
        BY <1>1 DEF TypeInv
      <4>2. IsFiniteSet(Newer(c, n))
        BY <1>1, <4>1, NewerIsFinite
      <4> QED
        BY <4>2, FS_Subset
    <3>5. Cardinality(Kept(c, s.n, stale)) <= Cardinality(there)
      BY <3>3, <3>4, FS_Subset
    <3>6. Cardinality(Kept(c, s.n, stale)) \in Nat /\ Cardinality(there) \in Nat /\ s.n \in Nat
      BY <1>1, <3>4, KeptIsFinite, FS_CardinalityType, BackupAssumption DEF SettingShape
    <3> HIDE DEF there
    <3> QED
      BY <1>7, <1>11, <3>5, <3>6
  <2> QED
    BY <2>1, <2>2 DEF HeldBeyond
<1>12. s.keep = "days" => runs[c][n].started + s.n < time
  BY <1>7, <1>9, <1>10
<1>13. s.keep = "count" \/ s.keep = "days"
  BY <1>7, BackupAssumption DEF SettingShape
<1>14. /\ job[k].setting = s /\ job[k].config = c
  BY <1>6
<1> HIDE DEF there
<1>15. \/ /\ s.keep = "count"
          /\ Cardinality(Newer(c, n)) >= s.n
          /\ Undisturbed => Cardinality(there) >= s.n
       \/ s.keep = "days" /\ runs[c][n].started + s.n < time
  BY <1>11, <1>12, <1>13
<1> USE DEF there
<1> QED
  BY <1>1, <1>9, <1>10, <1>14, <1>15 DEF LetGo

LEMMA StepsRemoveWhatTheyMay ==
    ASSUME IInv, HistoryInv, KeptInv, GoneInv, [Next]_vars
    PROVE  \A a \in DOMAIN archives \ DOMAIN archives' :
              \E n \in 1..Len(runs[a.config]), k \in Carriers : LetGo(a, k, n)
<1> TAKE a \in DOMAIN archives \ DOMAIN archives'
<1>1. PICK k \in Carriers : RemoveArchive(k)
  BY OnlyRotationRemoves
<1> QED
  BY <1>1, RemovalIsLetGo

(* Rotation removes only what the retention it was started under lets go   *)
(* of at that moment, as the history tells it: with a count of n there are *)
(* n newer successes, whose archives are all there when nobody edited or   *)
(* restored anything; with n days it is older than that.  Whatever happens *)
(* between the queries and the removals, whatever fails, for any           *)
(* configurations, settings, bounds and requests.                          *)
THEOREM RotationIsCareful == Spec => RotationKeepsTheNewest
<1> DEFINE All == IInv /\ HistoryInv /\ KeptInv /\ GoneInv
<1>1. Init => All
  BY InitExclusive, InitHistory, InitKept, InitGone
<1>2. All /\ [Next]_vars => All'
  BY StepKeeps, StepKeepsHistory, StepLeavesKept, StepLeavesGone
<1>3. All /\ [Next]_vars =>
          [\A a \in DOMAIN archives \ DOMAIN archives' :
              \E n \in 1..Len(runs[a.config]), k \in Carriers : LetGo(a, k, n)]_vars
  BY StepsRemoveWhatTheyMay
<1> HIDE DEF All
<1> QED
  BY <1>1, <1>2, <1>3, PTL DEF Spec, RotationKeepsTheNewest, LetGo
=============================================================================
