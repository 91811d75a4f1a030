-------------------------- MODULE JobSystemProofs ---------------------------
(***************************************************************************)
(* Theorems about JobSystem, for every set of jobs and tenants, every      *)
(* setting and every policy, with proofs for TLAPS.                        *)
(***************************************************************************)
EXTENDS JobSystemProperties, FiniteSetTheorems, TLAPS

\* The part of the inductive invariant that types the process: the call the
\* pc is at has a job, and a job past the quota check was counted and found
\* below the quota.
CurrentExists == HasCurrent => work # <<>>

Admitted ==
    pc \in {"ensure", "create", "reject", "mark"} =>
        /\ counted[TenantOf[Current]] \in Nat
        /\ counted[TenantOf[Current]] < TenantMaxRunning

ProcessInv == SchedulerTypeOK /\ CurrentExists /\ Admitted

SystemInv == RepoTypeOK /\ ClusterTypeOK /\ ProcessInv

CancelTypeOK == canceling \in [CancelHandlers -> Jobs \cup {Null}]

TypeInv == SystemInv /\ CancelTypeOK

-----------------------------------------------------------------------------
(* What the repository's statements do to the table.                       *)

\* Any set of jobs can be counted.
LEMMA JobsCountable ==
    \A S \in SUBSET Jobs : IsFiniteSet(S) /\ Cardinality(S) \in Nat
BY FS_Subset, FS_CardinalityType, JobsAssumption

\* A deadline in the future is a time of the clock.
LEMMA AtIsTime == \A t \in Nat : At(t) \in Times
BY TimeAssumption DEF At, Times

\* A row may be replaced by another, a QUEUED one by one with a ready time.
LEMMA ReplaceRow ==
    ASSUME RepoTypeOK, NEW j \in Jobs, NEW r \in Row,
           r.status = "QUEUED" => r.next_retry_at \in Times
    PROVE  IsTable([jobs EXCEPT ![j] = r])
BY DEF RepoTypeOK, IsTable

\* What a row becomes when its columns are set.
LEMMA RowTypes ==
    ASSUME NEW r \in Row, NEW t \in Times, NEW s \in Terminal,
           NEW e \in Errors \cup {Null}
    PROVE  /\ [r EXCEPT !.status = "RUNNING", !.started_at = t,
                        !.attempts = r.attempts + 1] \in Row
           /\ [r EXCEPT !.status = "QUEUED", !.last_error = e,
                        !.next_retry_at = t] \in Row
           /\ [r EXCEPT !.status = s, !.last_error = e,
                        !.next_retry_at = Null] \in Row
           /\ [r EXCEPT !.status = s, !.last_error = e] \in Row
<1>1. r.attempts + 1 \in Nat
  BY DEF Row
<1>2. s \in Status /\ "RUNNING" \in Status /\ "QUEUED" \in Status
  BY DEF Status
<1>3. QED
  BY <1>1, <1>2 DEF Row

\* Every statement leaves a table of rows, and a QUEUED row its ready time.
LEMMA CreateJobType ==
    ASSUME RepoTypeOK, NEW j \in Jobs
    PROVE  IsTable(CreateJob(j))
<1>1. Cardinality(Jobs \ HasStatus("ABSENT")) + 1 \in Nat
  BY JobsCountable DEF HasStatus
<1>2. QED
  BY <1>1 DEF RepoTypeOK, IsTable, CreateJob, Row, NoRow, Status, Terminal, Times

LEMMA MarkJobRunningType ==
    ASSUME RepoTypeOK, NEW j \in Jobs
    PROVE  IsTable(MarkJobRunning(j))
<1> DEFINE r == [jobs[j] EXCEPT !.status = "RUNNING", !.started_at = now,
                                !.attempts = jobs[j].attempts + 1]
<1>1. jobs[j] \in Row /\ now \in Times /\ jobs \in [Jobs -> Row]
  BY DEF RepoTypeOK, IsTable
<1>2. r \in Row /\ r.status = "RUNNING"
  BY <1>1, RowTypes DEF Row, Terminal
<1>3. MarkJobRunning(j) = [jobs EXCEPT ![j] = r]
  BY <1>1 DEF MarkJobRunning
<1>4. QED
  BY <1>2, <1>3, ReplaceRow

LEMMA MarkJobForRetryType ==
    ASSUME RepoTypeOK, NEW j \in Jobs, NEW e \in Errors, NEW t \in Times
    PROVE  IsTable(MarkJobForRetry(j, e, t))
<1> DEFINE r == [jobs[j] EXCEPT !.status = "QUEUED", !.last_error = e,
                                !.next_retry_at = t]
<1>1. jobs[j] \in Row /\ jobs \in [Jobs -> Row] /\ IsTable(jobs)
  BY DEF RepoTypeOK, IsTable
<1>2. r \in Row /\ r.next_retry_at \in Times
  BY <1>1, RowTypes DEF Row, Terminal
<1>3. MarkJobForRetry(j, e, t) \in {jobs, [jobs EXCEPT ![j] = r]}
  BY <1>1 DEF MarkJobForRetry
<1>4. QED
  BY <1>1, <1>2, <1>3, ReplaceRow

LEMMA MarkJobTerminalType ==
    ASSUME RepoTypeOK, NEW j \in Jobs, NEW s \in Terminal, NEW e \in Errors \cup {Null}
    PROVE  IsTable(MarkJobTerminal(j, s, e))
<1> DEFINE r == [jobs[j] EXCEPT !.status = s, !.last_error = e,
                                !.next_retry_at = Null]
<1>1. jobs[j] \in Row /\ jobs \in [Jobs -> Row] /\ IsTable(jobs)
  BY DEF RepoTypeOK, IsTable
<1>2. r \in Row
  BY <1>1, RowTypes DEF RepoTypeOK
<1>3. r.status # "QUEUED"
  BY <1>1 DEF Row, Terminal
<1>4. MarkJobTerminal(j, s, e) \in {jobs, [jobs EXCEPT ![j] = r]}
  BY <1>1 DEF MarkJobTerminal
<1>5. QED
  BY <1>1, <1>2, <1>3, <1>4, ReplaceRow

LEMMA UpdateJobStatusType ==
    ASSUME RepoTypeOK, NEW j \in Jobs, NEW s \in Terminal, NEW e \in Errors \cup {Null}
    PROVE  /\ IsTable(UpdateJobStatus(j, s, e))
           /\ \A t : IsTable(UpdateJobStatusForTenant(t, j, s, e))
<1> DEFINE r == [jobs[j] EXCEPT !.status = s, !.last_error = e]
<1>1. jobs[j] \in Row /\ jobs \in [Jobs -> Row] /\ IsTable(jobs)
  BY DEF RepoTypeOK, IsTable
<1>2. r \in Row
  BY <1>1, RowTypes DEF RepoTypeOK
<1>3. r.status # "QUEUED"
  BY <1>1 DEF Row, Terminal
<1>4. UpdateJobStatus(j, s, e) = [jobs EXCEPT ![j] = r]
  BY <1>1 DEF UpdateJobStatus
<1>5. IsTable(UpdateJobStatus(j, s, e))
  BY <1>2, <1>3, <1>4, ReplaceRow
<1>6. QED
  BY <1>1, <1>5 DEF UpdateJobStatusForTenant

LEMMA ComputeNextRetryAtType ==
    ASSUME now \in Times, NEW a \in Nat, NEW b \in Nat
    PROVE  ComputeNextRetryAt(a, b) \in Times
<1>1. b * a * (a + 1) \in Nat
  OBVIOUS
<1>2. (b * a * (a + 1)) \div 2 \in Nat
  BY <1>1
<1>3. now + (b * a * (a + 1)) \div 2 \in Nat
  BY <1>2, TimeAssumption DEF Times
<1>4. QED
  BY <1>3, AtIsTime DEF ComputeNextRetryAt

-----------------------------------------------------------------------------
(* What the process holds.                                                 *)

LEMMA TailType ==
    ASSUME NEW s \in Seq(Snapshot), s # <<>>
    PROVE  /\ s[1] \in Snapshot
           /\ Tail(s) \in Seq(Snapshot)
           /\ Len(s) # 1 => Tail(s) # <<>>
<1>1. s[1] \in Snapshot /\ Tail(s) \in Seq(Snapshot)
  OBVIOUS
<1>2. Len(s) \in Nat /\ Len(s) # 0 /\ Len(Tail(s)) = Len(s) - 1
  OBVIOUS
<1>3. QED
  BY <1>1, <1>2

\* A page of jobs becomes a work list, empty when the page is.
LEMMA SnapshotsType ==
    ASSUME RepoTypeOK, NEW page \in Pages
    PROVE  /\ Snapshots(page) \in Seq(Snapshot)
           /\ page # <<>> => Snapshots(page) # <<>>
<1>1. PICK n \in Nat : page \in [1..n -> Jobs]
  BY JobsCountable DEF Pages, SeqOf
<1>2. page \in Seq(Jobs) /\ Len(page) = n
  BY <1>1
<1>3. \A j \in Jobs : SnapshotOf(j) \in Snapshot
  BY DEF RepoTypeOK, IsTable, Row, SnapshotOf, Snapshot
<1>4. Snapshots(page) \in [1..n -> Snapshot]
  BY <1>1, <1>2, <1>3 DEF Snapshots
<1>5. QED
  BY <1>1, <1>2, <1>4

LEMMA CurrentType ==
    ASSUME SystemInv, work # <<>>
    PROVE  /\ Current \in Jobs
           /\ TenantOf[Current] \in Tenants
           /\ work[1].attempts \in Nat
           /\ NextAttempt \in Nat
           /\ Tail(work) \in Seq(Snapshot)
<1>1. work[1] \in Snapshot /\ Tail(work) \in Seq(Snapshot)
  BY TailType DEF SystemInv, ProcessInv, SchedulerTypeOK
<1>2. QED
  BY <1>1, JobsAssumption DEF Current, NextAttempt, Snapshot

LEMMA RunningCountType ==
    ASSUME SystemInv, NEW t \in Tenants
    PROVE  RunningCount(t) \in Nat
<1>1. CountRunningJobsByTenant(t) \in Nat
  BY JobsCountable DEF CountRunningJobsByTenant, Running, HasStatus
<1>2. QED
  BY <1>1 DEF RunningCount, SystemInv, ProcessInv, SchedulerTypeOK

\* The process starts, and starts again, with nothing.
LEMMA FreshProcess ==
    /\ <<>> \in Seq(Snapshot)
    /\ NothingCounted \in [Tenants -> Nat \cup {Null}]
BY DEF NothingCounted

-----------------------------------------------------------------------------
(* Dispatch steps keep the types.                                          *)

LEMMA ListCandidatesType == SystemInv /\ ListCandidates => SystemInv'
<1> SUFFICES ASSUME SystemInv, ListCandidates PROVE SystemInv'
  OBVIOUS
<1>1. work' \in Seq(Snapshot)
  BY SnapshotsType DEF ListCandidates, SystemInv
<1>2. QED
  BY <1>1, FreshProcess DEF ListCandidates, SystemInv, ProcessInv, RepoTypeOK,
     ClusterTypeOK, SchedulerTypeOK, CurrentExists, HasCurrent, Admitted, PC,
     repoVars, clusterVars

LEMMA EndDispatchType == SystemInv /\ EndDispatch => SystemInv'
BY FreshProcess DEF EndDispatch, SystemInv, ProcessInv, RepoTypeOK,
   ClusterTypeOK, SchedulerTypeOK, CurrentExists, HasCurrent, Admitted, PC,
   repoVars, clusterVars

LEMMA PickType == SystemInv /\ (SkipOverQuota \/ Admit) => SystemInv'
<1> SUFFICES ASSUME SystemInv, Picks PROVE
        /\ SkipOverQuota => SystemInv'
        /\ Admit => SystemInv'
  BY DEF SkipOverQuota, Admit
<1>1. /\ TenantOf[Current] \in Tenants
      /\ RunningCount(TenantOf[Current]) \in Nat
      /\ Tail(work) \in Seq(Snapshot)
  BY CurrentType, RunningCountType DEF Picks
<1>2. /\ counted' \in [Tenants -> Nat \cup {Null}]
      /\ counted'[TenantOf[Current]] = RunningCount(TenantOf[Current])
  BY <1>1 DEF Picks, SystemInv, ProcessInv, SchedulerTypeOK
<1>3. SkipOverQuota => SystemInv'
  BY <1>1, <1>2 DEF SkipOverQuota, Picks, SystemInv, ProcessInv, RepoTypeOK,
     ClusterTypeOK, SchedulerTypeOK, CurrentExists, HasCurrent, Admitted,
     repoVars, clusterVars
<1>4. Admit => SystemInv'
  BY <1>1, <1>2 DEF Admit, UnderQuota, Picks, SystemInv, ProcessInv, RepoTypeOK,
     ClusterTypeOK, SchedulerTypeOK, CurrentExists, HasCurrent, Admitted, Current,
     PC, repoVars, clusterVars
<1>5. QED
  BY <1>3, <1>4

LEMMA EnsureType ==
    SystemInv /\ (FindExisting \/ BuildManifest \/ CreateConflicts) => SystemInv'
BY DEF FindExisting, BuildManifest, CreateConflicts, SystemInv, ProcessInv,
   RepoTypeOK, ClusterTypeOK, SchedulerTypeOK, CurrentExists, HasCurrent,
   Admitted, Current, PC, repoVars, clusterVars, localVars

\* A cluster of objects stays one.
LEMMA ClusterTypes ==
    ASSUME ClusterTypeOK
    PROVE  /\ \A j \in Jobs, a \in Nat : CreateObject(j, a) => ClusterTypeOK'
           /\ \A o \in objects :
                 /\ DeleteObject(o) => ClusterTypeOK'
                 /\ Finish(o) => ClusterTypeOK'
                 /\ Expire(o) => ClusterTypeOK'
<1>1. ASSUME NEW j \in Jobs, NEW a \in Nat, CreateObject(j, a)
      PROVE  ClusterTypeOK'
  BY <1>1 DEF ClusterTypeOK, CreateObject, Object, Phase
<1>2. ASSUME NEW o \in objects PROVE o \in Object
  BY DEF ClusterTypeOK
<1>3. ASSUME NEW o \in objects, DeleteObject(o) PROVE ClusterTypeOK'
  BY <1>2, <1>3 DEF ClusterTypeOK, DeleteObject, Object
<1>4. ASSUME NEW o \in objects, Finish(o) PROVE ClusterTypeOK'
  <2>1. PICK how \in Ends[o.job] :
          /\ objects' = (objects \ {o}) \cup {[o EXCEPT !.phase = how]}
          /\ ended' = ended \cup {[job |-> o.job, attempt |-> o.attempt,
                                   how |-> how]}
    BY <1>4 DEF Finish
  <2>2. how \in {"succeeded", "failed"}
    BY <1>2, EndsAssumption DEF Object
  <2>3. [o EXCEPT !.phase = how] \in Object
    BY <1>2, <2>2 DEF Object, Phase
  <2>4. QED
    BY <1>2, <2>1, <2>2, <2>3 DEF ClusterTypeOK, Object
<1>5. ASSUME NEW o \in objects, Expire(o) PROVE ClusterTypeOK'
  BY <1>5 DEF ClusterTypeOK, Expire
<1>6. QED
  BY <1>1, <1>3, <1>4, <1>5

LEMMA FaultType ==
    ASSUME faults \in 0..MaxFaults, Fault
    PROVE  faults' \in 0..MaxFaults
BY SchedulerAssumption DEF Fault

LEMMA CreateType ==
    SystemInv /\ (CreateJobObject \/ CreateFails) => SystemInv'
<1> SUFFICES ASSUME SystemInv, CreateJobObject \/ CreateFails PROVE SystemInv'
  OBVIOUS
<1>1. pc = "create" /\ work # <<>>
  BY DEF CreateJobObject, CreateFails, SystemInv, ProcessInv, CurrentExists, HasCurrent
<1>2. Current \in Jobs /\ NextAttempt \in Nat
  BY <1>1, CurrentType
<1>3. ClusterTypeOK'
  <2>1. CreateObject(Current, NextAttempt) \/ UNCHANGED clusterVars
    BY DEF CreateJobObject, CreateFails
  <2>2. QED
    BY <1>2, <2>1, ClusterTypes DEF SystemInv, ClusterTypeOK, clusterVars
<1>4. faults' \in 0..MaxFaults
  BY FaultType DEF CreateJobObject, CreateFails, SystemInv, ProcessInv, SchedulerTypeOK
<1>5. pc' \in {"mark", "reject"} /\ UNCHANGED <<repoVars, localVars>>
  BY DEF CreateJobObject, CreateFails
<1>6. QED
  BY <1>1, <1>3, <1>4, <1>5 DEF SystemInv, ProcessInv, RepoTypeOK, SchedulerTypeOK,
     CurrentExists, HasCurrent, Admitted, Current, PC, repoVars, localVars

LEMMA RejectType == SystemInv /\ RejectJob => SystemInv'
<1> SUFFICES ASSUME SystemInv, RejectJob PROVE SystemInv'
  OBVIOUS
<1>1. work # <<>>
  BY DEF RejectJob, SystemInv, ProcessInv, CurrentExists, HasCurrent
<1>2. IsTable(jobs')
  BY <1>1, CurrentType, UpdateJobStatusType DEF RejectJob, SystemInv, Terminal, Errors
<1>3. QED
  BY <1>1, <1>2, CurrentType DEF RejectJob, SystemInv, ProcessInv, RepoTypeOK,
     ClusterTypeOK, SchedulerTypeOK, CurrentExists, HasCurrent, Admitted, PC,
     clusterVars

LEMMA MarkType == SystemInv /\ (MarkRunning \/ SkipStateChanged) => SystemInv'
<1> SUFFICES ASSUME SystemInv, MarkRunning \/ SkipStateChanged PROVE SystemInv'
  OBVIOUS
<1>1. pc = "mark" /\ work # <<>>
  BY DEF MarkRunning, SkipStateChanged, SystemInv, ProcessInv, CurrentExists, HasCurrent
<1>2. CASE MarkRunning
  <2>1. IsTable(jobs')
    BY <1>1, <1>2, CurrentType, MarkJobRunningType DEF MarkRunning, SystemInv
  <2>2. counted' \in [Tenants -> Nat \cup {Null}]
    BY <1>1, <1>2, CurrentType DEF MarkRunning, SystemInv, ProcessInv,
       SchedulerTypeOK, Admitted
  <2>3. QED
    BY <1>1, <1>2, <2>1, <2>2, CurrentType DEF MarkRunning, SystemInv, ProcessInv,
       RepoTypeOK, ClusterTypeOK, SchedulerTypeOK, CurrentExists, HasCurrent,
       Admitted, PC, clusterVars
<1>3. CASE SkipStateChanged
  BY <1>1, <1>3, CurrentType DEF SkipStateChanged, SystemInv, ProcessInv,
     RepoTypeOK, ClusterTypeOK, SchedulerTypeOK, CurrentExists, HasCurrent,
     Admitted, PC, repoVars, clusterVars
<1>4. QED
  BY <1>2, <1>3

LEMMA DiesType ==
    SystemInv /\ (ManifestRaises \/ Crash \/ Restart) => SystemInv'
<1> SUFFICES ASSUME SystemInv, ManifestRaises \/ Crash \/ Restart PROVE SystemInv'
  OBVIOUS
<1>1. faults' \in 0..MaxFaults
  BY FaultType DEF ManifestRaises, Crash, Restart, SystemInv, ProcessInv, SchedulerTypeOK
<1>2. RepoTypeOK' /\ ClusterTypeOK'
  BY DEF ManifestRaises, Crash, Restart, Dies, SystemInv, RepoTypeOK,
     ClusterTypeOK, repoVars, clusterVars
<1>3. pc' \in {"down", "list"}
  BY DEF ManifestRaises, Crash, Restart, Dies
<1>4. CASE Restart
  BY <1>1, <1>2, <1>3, <1>4 DEF Restart, SystemInv, ProcessInv, SchedulerTypeOK,
     CurrentExists, HasCurrent, Admitted, PC, localVars
<1>5. CASE Dies
  <2>1. /\ work' \in Seq(Snapshot)
        /\ counted' \in [Tenants -> Nat \cup {Null}]
        /\ dispatched' \in Nat
        /\ cursor' \in Tenants \cup {Null}
        /\ observed' \in Phase \cup {"missing"}
    BY <1>5, FreshProcess DEF Dies
  <2>2. QED
    BY <1>1, <1>2, <1>3, <2>1 DEF SystemInv, ProcessInv, SchedulerTypeOK,
       CurrentExists, HasCurrent, Admitted, PC
<1>6. QED
  BY <1>4, <1>5 DEF ManifestRaises, Crash

-----------------------------------------------------------------------------
(* Reconcile steps keep the types.                                         *)

LEMMA ScanType == SystemInv /\ (ScanRunning \/ Probe) => SystemInv'
<1>1. ASSUME SystemInv, ScanRunning PROVE SystemInv'
  <2>1. PICK page \in Pages :
          /\ work' = Snapshots(page)
          /\ pc' = IF page = <<>> THEN "list" ELSE "probe"
    BY <1>1 DEF ScanRunning
  <2>2. QED
    BY <1>1, <2>1, SnapshotsType DEF ScanRunning, SystemInv, ProcessInv, RepoTypeOK,
       ClusterTypeOK, SchedulerTypeOK, CurrentExists, HasCurrent, Admitted, PC,
       repoVars, clusterVars
<1>2. ASSUME SystemInv, Probe PROVE SystemInv'
  <2>1. observed' \in Phase \cup {"missing"}
    BY <1>2 DEF Probe, SystemInv, ClusterTypeOK, Labelled, Object
  <2>2. /\ pc = "probe" /\ pc' = "judge"
        /\ UNCHANGED <<repoVars, clusterVars, work, counted, dispatched, cursor, faults>>
    BY <1>2 DEF Probe
  <2>3. RepoTypeOK' /\ ClusterTypeOK'
    BY <1>2, <2>2 DEF SystemInv, RepoTypeOK, ClusterTypeOK, repoVars, clusterVars
  <2>4. SchedulerTypeOK'
    BY <1>2, <2>1, <2>2 DEF SystemInv, ProcessInv, SchedulerTypeOK, PC
  <2>5. CurrentExists' /\ Admitted'
    BY <1>2, <2>2 DEF SystemInv, ProcessInv, CurrentExists, HasCurrent, Admitted
  <2>6. QED
    BY <2>3, <2>4, <2>5 DEF SystemInv, ProcessInv
<1>3. QED
  BY <1>1, <1>2

LEMMA TimesOutType == SystemInv /\ (TimesOut \/ DeleteTimedOut) => SystemInv'
<1> SUFFICES ASSUME SystemInv, TimesOut \/ DeleteTimedOut PROVE SystemInv'
  OBVIOUS
<1>1. pc \in {"judge", "delete"} /\ work # <<>>
  BY DEF TimesOut, DeleteTimedOut, SystemInv, ProcessInv, CurrentExists, HasCurrent
<1>2. ClusterTypeOK'
  <2>1. \/ \E o \in objects : DeleteObject(o)
        \/ UNCHANGED clusterVars
    BY DEF TimesOut, DeleteTimedOut, Named
  <2>2. QED
    BY <2>1, ClusterTypes DEF SystemInv, ClusterTypeOK, clusterVars
<1>3. faults' \in 0..MaxFaults
  BY FaultType DEF TimesOut, DeleteTimedOut, SystemInv, ProcessInv, SchedulerTypeOK
<1>4. pc' \in {"delete", "expire"} /\ UNCHANGED <<repoVars, localVars>>
  BY DEF TimesOut, DeleteTimedOut
<1>5. QED
  BY <1>1, <1>2, <1>3, <1>4 DEF SystemInv, ProcessInv, RepoTypeOK, SchedulerTypeOK,
     CurrentExists, HasCurrent, Admitted, PC, repoVars, localVars

\* The steps that end with NextRunning differ in what they write.
LEMMA NextRunningType ==
    ASSUME SystemInv, work # <<>>, NextRunning, IsTable(jobs')
    PROVE  SystemInv'
<1>1. Tail(work) \in Seq(Snapshot) /\ (Len(work) # 1 => Tail(work) # <<>>)
  BY TailType DEF SystemInv, ProcessInv, SchedulerTypeOK
<1>2. QED
  BY <1>1 DEF NextRunning, SystemInv, ProcessInv, RepoTypeOK, ClusterTypeOK,
     SchedulerTypeOK, CurrentExists, HasCurrent, Admitted, PC, clusterVars

Verdict == FailMissing \/ Succeed \/ LeaveRunning \/ Requeue \/ FailForGood \/ ExpireJob

LEMMA VerdictType == SystemInv /\ Verdict => SystemInv'
<1> SUFFICES ASSUME SystemInv, Verdict PROVE SystemInv'
  OBVIOUS
<1>1. pc \in {"judge", "expire"} /\ NextRunning
  BY DEF Verdict, FailMissing, Succeed, LeaveRunning, Requeue, FailForGood,
     ExpireJob, Judges
<1>2. work # <<>>
  BY <1>1 DEF SystemInv, ProcessInv, CurrentExists, HasCurrent
<1>3. RepoTypeOK /\ Current \in Jobs /\ work[1].attempts \in Nat
  BY <1>2, CurrentType DEF SystemInv
<1>4. IsTable(jobs')
  <2>1. CASE Requeue
    <3>1. ComputeNextRetryAt(work[1].attempts, BackoffSeconds[Current]) \in Times
      BY <1>3, ComputeNextRetryAtType, PolicyAssumption DEF RepoTypeOK
    <3>2. QED
      BY <1>3, <2>1, <3>1, MarkJobForRetryType DEF Requeue, Errors
  <2>2. CASE LeaveRunning
    BY <1>3, <2>2 DEF LeaveRunning, RepoTypeOK
  <2>3. CASE FailMissing \/ Succeed \/ FailForGood \/ ExpireJob
    BY <1>3, <2>3, MarkJobTerminalType DEF FailMissing, Succeed, FailForGood,
       ExpireJob, Terminal, Errors
  <2>4. QED
    BY <2>1, <2>2, <2>3 DEF Verdict
<1>5. QED
  BY <1>1, <1>2, <1>4, NextRunningType

LEMMA SchedulerType == SystemInv /\ (SchedulerStep \/ Crash) => SystemInv'
BY ListCandidatesType, EndDispatchType, PickType, EnsureType, CreateType,
   RejectType, MarkType, DiesType, ScanType, TimesOutType, VerdictType
   DEF SchedulerStep, Dispatch, Reconcile, Verdict

-----------------------------------------------------------------------------
(* Type correctness.                                                       *)

LEMMA APIType == TypeInv /\ API => TypeInv'
<1>1. ASSUME TypeInv, NEW j \in Jobs, SubmitJob(j) PROVE TypeInv'
  <2>1. IsTable(jobs')
    BY <1>1, CreateJobType DEF SubmitJob, TypeInv, SystemInv
  <2>2. QED
    BY <1>1, <2>1 DEF SubmitJob, TypeInv, SystemInv, CancelTypeOK, ProcessInv,
       RepoTypeOK, ClusterTypeOK, SchedulerTypeOK, CurrentExists, HasCurrent,
       Admitted, Current, clusterVars, schedulerVars, localVars
<1>2. ASSUME TypeInv, NEW h \in CancelHandlers, CancelWrite(h) PROVE TypeInv'
  <2>1. canceling[h] \in Jobs
    BY <1>2 DEF CancelWrite, TypeInv, CancelTypeOK
  <2>2. IsTable(jobs')
    BY <1>2, <2>1, UpdateJobStatusType DEF CancelWrite, TypeInv, SystemInv, Terminal
  <2>3. QED
    BY <1>2, <2>2 DEF CancelWrite, TypeInv, SystemInv, CancelTypeOK, ProcessInv,
       RepoTypeOK, ClusterTypeOK, SchedulerTypeOK, CurrentExists, HasCurrent,
       Admitted, Current, clusterVars, schedulerVars, localVars
<1>3. ASSUME TypeInv, NEW h \in CancelHandlers, NEW j \in Jobs, CancelRead(h, j)
      PROVE  TypeInv'
  BY <1>3 DEF CancelRead, TypeInv, SystemInv, CancelTypeOK, ProcessInv,
     RepoTypeOK, ClusterTypeOK, SchedulerTypeOK, CurrentExists, HasCurrent,
     Admitted, Current, systemVars, repoVars, clusterVars, schedulerVars, localVars
<1>4. QED
  BY <1>1, <1>2, <1>3 DEF API

LEMMA EnvironmentType ==
    TypeInv /\ ((\E j \in Jobs : ContainerEnds(j)) \/ TtlExpires \/ ClockTicks) => TypeInv'
<1> SUFFICES ASSUME TypeInv,
                    (\E j \in Jobs : ContainerEnds(j)) \/ TtlExpires \/ ClockTicks
             PROVE  TypeInv'
  OBVIOUS
<1>1. ClusterTypeOK'
  <2>1. \/ \E o \in objects : Finish(o) \/ Expire(o)
        \/ UNCHANGED clusterVars
    BY DEF ContainerEnds, TtlExpires, ClockTicks
  <2>2. QED
    BY <2>1, ClusterTypes DEF TypeInv, SystemInv, ClusterTypeOK, clusterVars
<1>2. RepoTypeOK'
  BY TimeAssumption DEF ContainerEnds, TtlExpires, ClockTicks, Tick, TypeInv,
     SystemInv, RepoTypeOK, Times, repoVars
<1>3. UNCHANGED <<schedulerVars, canceling>>
  BY DEF ContainerEnds, TtlExpires, ClockTicks
<1>4. QED
  BY <1>1, <1>2, <1>3 DEF TypeInv, SystemInv, CancelTypeOK, ProcessInv,
     SchedulerTypeOK, CurrentExists, HasCurrent, Admitted, Current,
     schedulerVars, localVars

LEMMA TypeInvInit == Init => TypeInv
<1> SUFFICES ASSUME Init PROVE TypeInv
  OBVIOUS
<1>1. RepoTypeOK
  BY TimeAssumption DEF Init, RepoInit, RepoTypeOK, IsTable, Row, NoRow, Status, Times
<1>2. ClusterTypeOK
  BY DEF Init, ClusterInit, ClusterTypeOK
<1>3. ProcessInv
  BY FreshProcess, SchedulerAssumption DEF Init, SchedulerInit, ProcessInv,
     SchedulerTypeOK, CurrentExists, HasCurrent, Admitted, PC
<1>4. QED
  BY <1>1, <1>2, <1>3 DEF Init, TypeInv, SystemInv, CancelTypeOK

LEMMA TypeInvStep == TypeInv /\ [Next]_vars => TypeInv'
<1> SUFFICES ASSUME TypeInv, [Next]_vars PROVE TypeInv'
  OBVIOUS
<1>1. CASE API
  BY <1>1, APIType
<1>2. CASE SchedulerRuns \/ SchedulerCrashes
  BY <1>2, SchedulerType DEF SchedulerRuns, SchedulerCrashes, TypeInv, CancelTypeOK
<1>3. CASE (\E j \in Jobs : ContainerEnds(j)) \/ TtlExpires \/ ClockTicks
  BY <1>3, EnvironmentType
<1>4. CASE UNCHANGED vars
  BY <1>4 DEF vars, systemVars, TypeInv, SystemInv, CancelTypeOK, ProcessInv,
     RepoTypeOK, ClusterTypeOK, SchedulerTypeOK, CurrentExists, HasCurrent,
     Admitted, Current, repoVars, clusterVars, schedulerVars, localVars
<1>5. QED
  BY <1>1, <1>2, <1>3, <1>4 DEF Next

LEMMA TypeInvAlways == Spec => []TypeInv
BY TypeInvInit, TypeInvStep, PTL DEF Spec

\* Rows, objects, snapshots and requests stay within their types, and a
\* QUEUED row always has the time it is ready at, whatever the API, the
\* scheduler, the cluster and a crash do in between.
THEOREM TypeCorrect == Spec => []TypeOK
<1>1. TypeInv => TypeOK
  BY DEF TypeInv, SystemInv, CancelTypeOK, ProcessInv, TypeOK
<1>2. QED
  BY <1>1, TypeInvAlways, PTL

-----------------------------------------------------------------------------
(* What a statement does to the statuses of the rows.                      *)

\* Only one row changes, and to what.
Sets(table, j, s) ==
    \A k \in Jobs : table[k].status = IF k = j THEN s ELSE jobs[k].status

LEMMA StatementStatus ==
    ASSUME RepoTypeOK, NEW j \in Jobs
    PROVE  /\ Sets(CreateJob(j), j, "QUEUED")
           /\ Sets(MarkJobRunning(j), j, "RUNNING")
           /\ \A s, e : Sets(UpdateJobStatus(j, s, e), j, s)
           /\ \A t, s, e : \/ UpdateJobStatusForTenant(t, j, s, e) = jobs
                           \/ Sets(UpdateJobStatusForTenant(t, j, s, e), j, s)
           /\ \A e, t : \/ MarkJobForRetry(j, e, t) = jobs
                        \/ /\ MarksFromRunning(j)
                           /\ Sets(MarkJobForRetry(j, e, t), j, "QUEUED")
           /\ \A s, e : \/ MarkJobTerminal(j, s, e) = jobs
                        \/ /\ MarksFromRunning(j)
                           /\ Sets(MarkJobTerminal(j, s, e), j, s)
<1>1. jobs \in [Jobs -> Row]
  BY DEF RepoTypeOK, IsTable
<1>2. Sets(CreateJob(j), j, "QUEUED")
  BY <1>1 DEF Sets, CreateJob, NoRow
<1>3. Sets(MarkJobRunning(j), j, "RUNNING")
  BY <1>1 DEF Sets, MarkJobRunning, Row
<1>4. ASSUME NEW s, NEW e PROVE Sets(UpdateJobStatus(j, s, e), j, s)
  BY <1>1 DEF Sets, UpdateJobStatus, Row
<1>5. ASSUME NEW e, NEW t, MarksFromRunning(j)
      PROVE  Sets(MarkJobForRetry(j, e, t), j, "QUEUED")
  BY <1>1, <1>5 DEF Sets, MarkJobForRetry, Row
<1>6. ASSUME NEW s, NEW e, MarksFromRunning(j)
      PROVE  Sets(MarkJobTerminal(j, s, e), j, s)
  BY <1>1, <1>6 DEF Sets, MarkJobTerminal, Row
<1>7. QED
  BY <1>2, <1>3, <1>4, <1>5, <1>6 DEF UpdateJobStatusForTenant, MarkJobForRetry,
     MarkJobTerminal

\* Every step leaves the statuses alone or moves one row, and these are all
\* the moves.
Moves(j, s) ==
    /\ Sets(jobs', j, s)
    /\ \/ jobs[j].status = "ABSENT" /\ s = "QUEUED"
       \/ jobs[j].status = "RUNNING" /\ s \in {"QUEUED", "SUCCEEDED", "FAILED"}
       \/ s \in {"CANCELED", "FAILED"}

LEMMA StepMoves ==
    ASSUME TypeInv, [Next]_vars
    PROVE  \/ UNCHANGED jobs
           \/ MarkRunning
           \/ \E j \in Jobs, s \in Status : Moves(j, s)
<1>1. CASE API
  <2>1. ASSUME NEW j \in Jobs, SubmitJob(j) PROVE Moves(j, "QUEUED")
    BY <2>1, StatementStatus DEF SubmitJob, TypeInv, SystemInv, Moves
  <2>2. ASSUME NEW h \in CancelHandlers, CancelWrite(h)
        PROVE  UNCHANGED jobs \/ Moves(canceling[h], "CANCELED")
    BY <2>2, StatementStatus DEF CancelWrite, TypeInv, SystemInv, CancelTypeOK, Moves
  <2>3. ASSUME NEW h \in CancelHandlers, CancelWrite(h) PROVE canceling[h] \in Jobs
    BY <2>3 DEF CancelWrite, TypeInv, CancelTypeOK
  <2>4. ASSUME NEW h \in CancelHandlers, NEW j \in Jobs, CancelRead(h, j)
        PROVE  UNCHANGED jobs
    BY <2>4 DEF CancelRead, systemVars, repoVars
  <2>5. QED
    BY <1>1, <2>1, <2>2, <2>3, <2>4 DEF API, Status, Terminal
<1>2. CASE RejectJob
  <2>1. Current \in Jobs
    BY <1>2, CurrentType DEF RejectJob, TypeInv, SystemInv, ProcessInv,
       CurrentExists, HasCurrent
  <2>2. Moves(Current, "FAILED")
    BY <1>2, <2>1, StatementStatus DEF RejectJob, TypeInv, SystemInv, Moves
  <2>3. QED
    BY <2>1, <2>2 DEF Status, Terminal
<1>3. CASE Verdict
  <2>1. Current \in Jobs
    <3>1. pc \in {"judge", "expire"}
      BY <1>3 DEF Verdict, FailMissing, Succeed, LeaveRunning, Requeue, FailForGood,
         ExpireJob, Judges
    <3>2. QED
      BY <3>1, CurrentType DEF TypeInv, SystemInv, ProcessInv, CurrentExists, HasCurrent
  <2>2. \/ UNCHANGED jobs
        \/ \E s \in {"QUEUED", "SUCCEEDED", "FAILED"} : Moves(Current, s)
    BY <1>3, <2>1, StatementStatus DEF Verdict, FailMissing, Succeed, LeaveRunning,
       Requeue, FailForGood, ExpireJob, TypeInv, SystemInv, Moves, MarksFromRunning
  <2>3. QED
    BY <2>1, <2>2 DEF Status, Terminal
<1>4. CASE SchedulerStep /\ ~Verdict /\ ~RejectJob /\ ~MarkRunning
  BY <1>4 DEF SchedulerStep, Dispatch, Reconcile, Verdict, ListCandidates,
     EndDispatch, SkipOverQuota, Admit, FindExisting, BuildManifest, ManifestRaises,
     Dies, CreateJobObject, CreateConflicts, CreateFails, SkipStateChanged,
     ScanRunning, Probe, TimesOut, DeleteTimedOut, Restart, repoVars
<1>5. CASE \/ SchedulerCrashes \/ \E j \in Jobs : ContainerEnds(j)
           \/ TtlExpires \/ ClockTicks \/ UNCHANGED vars
  BY <1>5 DEF SchedulerCrashes, Crash, Dies, ContainerEnds, TtlExpires,
     ClockTicks, Tick, vars, systemVars, repoVars
<1>6. QED
  BY <1>1, <1>2, <1>3, <1>4, <1>5 DEF Next, SchedulerRuns

-----------------------------------------------------------------------------
(* A terminal row is never taken up again.                                 *)

\* Once SUCCEEDED, FAILED or CANCELED, a row never becomes QUEUED or RUNNING,
\* although a cancel and a refused create write it without looking: neither
\* writes a status that is not terminal.
THEOREM NoReopening == Spec => NeverReopened
<1>1. ASSUME TypeInv, [Next]_vars, NEW j \in Jobs, StatusOf(j) \in Terminal
      PROVE  StatusOf(j)' \in Terminal
  <2>1. CASE UNCHANGED jobs
    BY <1>1, <2>1 DEF StatusOf
  <2>2. CASE MarkRunning
    <3>1. Current \in Jobs /\ jobs[Current].status = "QUEUED"
      BY <1>1, <2>2, CurrentType DEF MarkRunning, MarksRunning, TypeInv, SystemInv,
         ProcessInv, CurrentExists, HasCurrent
    <3>2. Sets(jobs', Current, "RUNNING")
      BY <1>1, <2>2, <3>1, StatementStatus DEF MarkRunning, TypeInv, SystemInv
    <3>3. QED
      BY <1>1, <3>1, <3>2 DEF Sets, StatusOf, Terminal
  <2>3. ASSUME NEW k \in Jobs, NEW s \in Status, Moves(k, s)
        PROVE  StatusOf(j)' \in Terminal
    BY <1>1, <2>3 DEF Moves, Sets, StatusOf, Terminal
  <2>4. QED
    BY <1>1, <2>1, <2>2, <2>3, StepMoves
<1>2. TypeInv /\ [Next]_vars =>
        [\A j \in Jobs : StatusOf(j) \in Terminal => StatusOf(j)' \in Terminal]_vars
  BY <1>1
<1>3. QED
  BY <1>2, TypeInvAlways, PTL DEF Spec, NeverReopened

-----------------------------------------------------------------------------
(* The quota.                                                              *)

\* TenantQuota is not inductive: the quota check is made on counted, which
\* may be older than the table.  What saves it is that a count in
\* running_by_tenant is never below the number of RUNNING rows, for nobody
\* but this process makes a row RUNNING; and that a job past the check keeps
\* its place (Admitted) until it is marked.
CountIsBound ==
    \A t \in Tenants :
        counted[t] # Null => CountRunningJobsByTenant(t) <= counted[t]

QuotaInv == TenantQuota /\ CountIsBound

LEMMA CountType ==
    \A t \in Tenants : IsFiniteSet(Running(t)) /\ CountRunningJobsByTenant(t) \in Nat
BY JobsCountable DEF CountRunningJobsByTenant, Running, HasStatus

\* A step that makes no row RUNNING raises no tenant's count.
LEMMA FewerRunning ==
    ASSUME \A j \in Jobs : jobs'[j].status = "RUNNING" => jobs[j].status = "RUNNING",
           NEW t \in Tenants
    PROVE  CountRunningJobsByTenant(t)' <= CountRunningJobsByTenant(t)
<1>1. Running(t)' \subseteq Running(t)
  BY DEF Running, HasStatus
<1>2. QED
  BY <1>1, CountType, FS_Subset DEF CountRunningJobsByTenant

\* The dict only gains counts just read from the table.
CountsKept ==
    \A t \in Tenants :
        counted'[t] \in {Null, counted[t], CountRunningJobsByTenant(t)}

LEMMA QuotaUnlessMarked ==
    ASSUME TypeInv, QuotaInv, CountsKept,
           \A j \in Jobs : jobs'[j].status = "RUNNING" => jobs[j].status = "RUNNING"
    PROVE  QuotaInv'
<1>1. ASSUME NEW t \in Tenants
      PROVE  /\ CountRunningJobsByTenant(t)' <= CountRunningJobsByTenant(t)
             /\ CountRunningJobsByTenant(t) \in Nat
             /\ CountRunningJobsByTenant(t)' \in Nat
             /\ counted[t] \in Nat \cup {Null}
  <2>1. CountRunningJobsByTenant(t)' \in Nat
    BY JobsCountable DEF CountRunningJobsByTenant, Running, HasStatus
  <2>2. QED
    BY <2>1, FewerRunning, CountType DEF TypeInv, SystemInv, ProcessInv, SchedulerTypeOK
<1>2. TenantQuota'
  BY <1>1, SchedulerAssumption DEF QuotaInv, TenantQuota
<1>3. ASSUME NEW t \in Tenants, counted'[t] # Null
      PROVE  CountRunningJobsByTenant(t)' <= counted'[t]
  BY <1>1, <1>3 DEF CountsKept, QuotaInv, CountIsBound
<1>4. QED
  BY <1>2, <1>3 DEF QuotaInv, CountIsBound

LEMMA QuotaWhenMarked ==
    ASSUME TypeInv, QuotaInv, MarkRunning
    PROVE  QuotaInv'
<1>1. PICK j \in Jobs, owner \in Tenants :
        j = Current /\ owner = TenantOf[j] /\ jobs[j].status = "QUEUED"
  BY CurrentType DEF MarkRunning, MarksRunning, TypeInv, SystemInv, ProcessInv,
     CurrentExists, HasCurrent
<1>2. Sets(jobs', j, "RUNNING")
  BY <1>1, StatementStatus DEF MarkRunning, TypeInv, SystemInv
<1>3. /\ counted[owner] \in Nat
      /\ counted[owner] < TenantMaxRunning
      /\ CountRunningJobsByTenant(owner) <= counted[owner]
  BY <1>1, TimeAssumption DEF MarkRunning, TypeInv, SystemInv, ProcessInv, Admitted,
     QuotaInv, CountIsBound
<1>4. counted' = [counted EXCEPT ![owner] = counted[owner] + 1]
  BY <1>1 DEF MarkRunning
<1>5. Running(owner)' = Running(owner) \cup {j}
  BY <1>1, <1>2 DEF Running, HasStatus, Sets
<1>6. CountRunningJobsByTenant(owner)' = CountRunningJobsByTenant(owner) + 1
  <2>1. j \notin Running(owner)
    BY <1>1 DEF Running, HasStatus
  <2>2. Cardinality(Running(owner) \cup {j}) = Cardinality(Running(owner)) + 1
    BY <2>1, CountType, FS_AddElement
  <2>3. QED
    BY <1>5, <2>2 DEF CountRunningJobsByTenant
<1>7. ASSUME NEW t \in Tenants, t # owner
      PROVE  CountRunningJobsByTenant(t)' = CountRunningJobsByTenant(t)
  <2>1. Running(t)' = Running(t)
    BY <1>1, <1>2, <1>7 DEF Running, HasStatus, Sets
  <2>2. QED
    BY <2>1 DEF CountRunningJobsByTenant
<1>8. counted \in [Tenants -> Nat \cup {Null}] /\ TenantMaxRunning \in Nat
  BY SchedulerAssumption DEF TypeInv, SystemInv, ProcessInv, SchedulerTypeOK
<1>9. CountIsBound'
  <2>1. ASSUME NEW t \in Tenants, counted'[t] # Null
        PROVE  CountRunningJobsByTenant(t)' <= counted'[t]
    <3>1. CASE t = owner
      BY <1>1, <1>3, <1>4, <1>6, <1>8, <3>1, CountType
    <3>2. CASE t # owner
      BY <1>4, <1>7, <1>8, <2>1, <3>2 DEF QuotaInv, CountIsBound
    <3>3. QED
      BY <3>1, <3>2
  <2>2. QED
    BY <2>1 DEF CountIsBound
<1>10. TenantQuota'
  <2>1. ASSUME NEW t \in Tenants
        PROVE  CountRunningJobsByTenant(t)' <= TenantMaxRunning
    <3>1. CASE t = owner
      BY <1>1, <1>3, <1>6, <1>8, <3>1, CountType
    <3>2. CASE t # owner
      BY <1>7, <3>2 DEF QuotaInv, TenantQuota
    <3>3. QED
      BY <3>1, <3>2
  <2>2. QED
    BY <2>1 DEF TenantQuota
<1>11. QED
  BY <1>9, <1>10 DEF QuotaInv

\* Which counts a step may put into the dict.
LEMMA StepCounts ==
    ASSUME TypeInv, [Next]_vars, ~MarkRunning
    PROVE  CountsKept
<1>1. counted \in [Tenants -> Nat \cup {Null}]
  BY DEF TypeInv, SystemInv, ProcessInv, SchedulerTypeOK
<1>2. CASE SkipOverQuota \/ Admit
  <2>1. TenantOf[Current] \in Tenants
    BY <1>2, CurrentType DEF SkipOverQuota, Admit, Picks, TypeInv
  <2>2. counted' = [counted EXCEPT ![TenantOf[Current]] = RunningCount(TenantOf[Current])]
    BY <1>2 DEF SkipOverQuota, Admit, Picks
  <2>3. QED
    BY <1>1, <2>1, <2>2 DEF CountsKept, RunningCount
<1>3. CASE UNCHANGED counted
  BY <1>3 DEF CountsKept
<1>4. CASE counted' = NothingCounted
  BY <1>4 DEF CountsKept, NothingCounted
<1>5. UNCHANGED counted \/ counted' = NothingCounted \/ SkipOverQuota \/ Admit
  <2>1. CASE SchedulerStep
    BY <2>1 DEF SchedulerStep, Dispatch, Reconcile, ListCandidates, EndDispatch,
       FindExisting, BuildManifest, ManifestRaises, Dies, CreateJobObject,
       CreateConflicts, CreateFails, RejectJob, SkipStateChanged, ScanRunning,
       Probe, TimesOut, FailMissing, Succeed, LeaveRunning, Requeue, FailForGood,
       Judges, NextRunning, DeleteTimedOut, ExpireJob, Restart, localVars
  <2>2. CASE Crash
    BY <2>2 DEF Crash, Dies
  <2>3. CASE UNCHANGED schedulerVars
    BY <2>3 DEF schedulerVars, localVars
  <2>4. QED
    BY <2>1, <2>2, <2>3 DEF Next, API, SubmitJob, CancelRead, CancelWrite,
       SchedulerRuns, SchedulerCrashes, ContainerEnds, TtlExpires, ClockTicks,
       vars, systemVars
<1>6. QED
  BY <1>2, <1>3, <1>4, <1>5

LEMMA QuotaInvInit == Init => QuotaInv
<1> SUFFICES ASSUME Init PROVE QuotaInv
  OBVIOUS
<1>1. ASSUME NEW t \in Tenants PROVE CountRunningJobsByTenant(t) = 0
  <2>1. Running(t) = {}
    BY DEF Init, RepoInit, NoRow, Running, HasStatus
  <2>2. QED
    BY <2>1, FS_EmptySet DEF CountRunningJobsByTenant
<1>2. QED
  BY <1>1, SchedulerAssumption DEF Init, SchedulerInit, NothingCounted, QuotaInv,
     TenantQuota, CountIsBound

LEMMA QuotaInvStep == TypeInv /\ QuotaInv /\ [Next]_vars => QuotaInv'
<1> SUFFICES ASSUME TypeInv, QuotaInv, [Next]_vars PROVE QuotaInv'
  OBVIOUS
<1>1. CASE MarkRunning
  BY <1>1, QuotaWhenMarked
<1>2. CASE ~MarkRunning
  <2>1. \A j \in Jobs : jobs'[j].status = "RUNNING" => jobs[j].status = "RUNNING"
    BY <1>2, StepMoves DEF Moves, Sets
  <2>2. QED
    BY <1>2, <2>1, StepCounts, QuotaUnlessMarked
<1>3. QED
  BY <1>1, <1>2

\* However many jobs, tenants, cancels and crashes there are, no tenant has
\* more than TENANT_MAX_RUNNING rows in RUNNING, with one scheduler.
THEOREM QuotaKept == Spec => []TenantQuota
<1>1. QuotaInv => TenantQuota
  BY DEF QuotaInv
<1>2. QED
  BY <1>1, QuotaInvInit, QuotaInvStep, TypeInvAlways, PTL DEF Spec
=============================================================================
