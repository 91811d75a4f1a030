----------------------- MODULE JobSystemOutcomeProofs -----------------------
(***************************************************************************)
(* What the rows report against what happened in the cluster: what was     *)
(* created for a RUNNING row, that a verdict is real, that no attempt runs *)
(* twice while nothing fails.                                              *)
(*                                                                         *)
(* With shared names the 409 of another job's object is taken for the      *)
(* job's own, and a timeout may delete another job's object.  What is true *)
(* all the same comes first (NameWasCreated, OutcomeIsOwn); that a verdict *)
(* is real, "missing" included, holds if no two jobs share a name.         *)
(***************************************************************************)
EXTENDS JobSystemClusterProofs

NamesDiffer == \A i, k \in Jobs : NamePrefix[i] = NamePrefix[k] => i = k

MarkCreated == pc = "mark" => Created(Current, NextAttempt)

\* Where names differ, a RUNNING row has an object of its own, as a 409 is
\* taken to say (main.py:235).
RunningWasCreated ==
    \A j \in Jobs : StatusOf(j) = "RUNNING" =>
        \/ Labelled(j, jobs[j].attempts) # {}
        \/ \E e \in ended : e.job = j /\ e.attempt = jobs[j].attempts

DeadlinePassed == pc = "delete" => IsTimedOut(work[1])

\* An execution was cut short only behind a row that is past its deadline:
\* the row stays so, over a crash too, until ExpireJob writes it.
DeletedLate ==
    \A e \in ended :
        e.how = "deleted" =>
            /\ e.attempt <= jobs[e.job].attempts
            /\ jobs[e.job].status = "RUNNING" /\ e.attempt = jobs[e.job].attempts
                  => IsTimedOut(SnapshotOf(e.job))

\* What was created stays found or recorded, what was recorded stays.
LEMMA CreatedStays ==
    ASSUME TypeInv, ClusterInv, [Next]_vars
    PROVE  /\ ended \subseteq ended'
           /\ \A j \in Jobs, a \in Nat : Created(j, a) => Created(j, a)'
<1>1. CASE UNCHANGED clusterVars
  BY <1>1 DEF clusterVars, Created, Labelled, Over
<1>2. CASE Creates
  BY <1>2 DEF Creates, CreateObject, Created, Labelled, Over
<1>3. CASE Wanes
  <2>1. PICK o \in objects : DeleteObject(o) \/ Finish(o) \/ Expire(o)
    BY <1>3 DEF Wanes
  <2>2. CASE DeleteObject(o) \/ Expire(o)
    <3>1. objects' = objects \ {o} /\ ended \subseteq ended'
      BY <2>2 DEF DeleteObject, Expire
    <3>2. PICK e : \/ e = [job |-> o.job, attempt |-> o.attempt, how |-> "deleted"]
                      /\ o.phase = "active"
                   \/ e = [job |-> o.job, attempt |-> o.attempt, how |-> o.phase]
                      /\ o.phase # "active"
      OBVIOUS
    <3>3. e.job = o.job /\ e.attempt = o.attempt
      BY <3>2
    <3>4. e \in ended'
      BY <2>2, <3>2 DEF DeleteObject, Expire, ClusterInv, ObjectInv, FinishedRecorded, Executed
    <3>5. QED
      BY <3>1, <3>3, <3>4 DEF Created, Labelled, Over
  <2>3. CASE Finish(o)
    <3>1. PICK e, how : /\ e = [job |-> o.job, attempt |-> o.attempt, how |-> how]
                        /\ ended' = ended \cup {e}
                        /\ objects \ {o} \subseteq objects'
      BY <2>3 DEF Finish
    <3>2. e.job = o.job /\ e.attempt = o.attempt
      BY <3>1
    <3>3. QED
      BY <3>1, <3>2 DEF Created, Labelled, Over
  <2>4. QED
    BY <2>1, <2>2, <2>3
<1>4. QED
  BY <1>1, <1>2, <1>3, StepCluster

\* How the process gets to the calls whose job is known to be created, or late.
LEMMA PassReaches ==
    ASSUME [Next]_vars, ~UNCHANGED <<pc, work>>
    PROVE  /\ pc' = "mark" => FindExisting \/ CreateJobObject \/ CreateConflicts
           /\ pc' = "delete" => TimesOut
<1>1. CASE Dispatch /\ pc' = "mark"
  BY <1>1 DEF Dispatch, ListCandidates, EndDispatch, SkipOverQuota, Admit, Picks,
     BuildManifest, ManifestRaises, Dies, CreateFails, RejectJob, MarkRunning,
     SkipStateChanged
<1>2. CASE Dispatch /\ pc' = "delete"
  BY <1>2 DEF Dispatch, ListCandidates, EndDispatch, SkipOverQuota, Admit, Picks,
     FindExisting, BuildManifest, ManifestRaises, Dies, CreateJobObject,
     CreateConflicts, CreateFails, RejectJob, MarkRunning, SkipStateChanged
<1>3. CASE (Reconcile \/ Restart) /\ ~TimesOut
  BY <1>3 DEF Reconcile, ScanRunning, Probe, FailMissing, Succeed, LeaveRunning,
     Requeue, FailForGood, Judges, NextRunning, DeleteTimedOut, ExpireJob, Restart
<1>4. CASE TimesOut
  BY <1>4 DEF TimesOut
<1>5. CASE SchedulerCrashes
  BY <1>5 DEF SchedulerCrashes, Crash, Dies
<1>6. QED
  BY <1>1, <1>2, <1>3, <1>4, <1>5 DEF SchedulerStep, Next, API, SubmitJob,
     CancelRead, CancelWrite, SchedulerRuns, ContainerEnds, TtlExpires, ClockTicks,
     vars, systemVars, schedulerVars, localVars

LEMMA MarkCreatedStep ==
    ASSUME NamesDiffer, TypeInv, ClusterInv, MarkCreated, [Next]_vars
    PROVE  MarkCreated'
<1> SUFFICES ASSUME pc' = "mark" PROVE Created(Current, NextAttempt)'
  BY DEF MarkCreated
<1>1. CASE UNCHANGED <<pc, work>>
  <2>1. Current \in Jobs /\ NextAttempt \in Nat
    BY <1>1, CurrentIsJob, CurrentType DEF HasCurrent, TypeInv
  <2>2. UNCHANGED <<Current, NextAttempt>>
    BY <1>1 DEF Current, NextAttempt
  <2>3. PICK j \in Jobs, a \in Nat : j = Current /\ a = NextAttempt
    BY <2>1
  <2>4. Created(j, a)
    BY <1>1, <2>3 DEF MarkCreated
  <2>5. Created(j, a)'
    BY <2>4, CreatedStays
  <2>6. QED
    BY <2>2, <2>3, <2>5 DEF Created, Labelled, Over
<1>2. CASE FindExisting
  BY <1>2 DEF FindExisting, Created, Labelled, Current, NextAttempt, clusterVars, localVars
<1>3. CASE CreateJobObject
  <2>1. PICK o : o = [job |-> Current, attempt |-> NextAttempt, phase |-> "active"]
    OBVIOUS
  <2>2. o \in objects' /\ o.job = Current /\ o.attempt = NextAttempt /\ UNCHANGED work
    BY <1>3, <2>1 DEF CreateJobObject, CreateObject, localVars
  <2>3. QED
    BY <2>2 DEF Created, Labelled, Current, NextAttempt
<1>4. CASE CreateConflicts
  <2>1. Current \in Jobs
    BY <1>4, CurrentIsJob DEF CreateConflicts, HasCurrent
  <2>2. PICK o \in objects : NamePrefix[o.job] = NamePrefix[Current] /\ o.attempt = NextAttempt
    BY <1>4 DEF CreateConflicts, NameTaken, Named
  <2>3. o.job = Current
    BY <2>1, <2>2, ObjectTypes DEF NamesDiffer
  <2>4. QED
    BY <1>4, <2>2, <2>3 DEF CreateConflicts, Created, Labelled, Current, NextAttempt,
       clusterVars, localVars
<1>5. QED
  BY <1>1, <1>2, <1>3, <1>4, PassReaches

\* A row becomes RUNNING when its next attempt is known to be created.
LEMMA RunningWasCreatedStep ==
    ASSUME TypeInv, HistoryInv, ClusterInv, RunningWasCreated, MarkCreated, [Next]_vars
    PROVE  RunningWasCreated'
<1> SUFFICES ASSUME NEW j \in Jobs, jobs'[j].status = "RUNNING"
             PROVE  Created(j, jobs[j].attempts)'
  BY DEF RunningWasCreated, StatusOf, Created, Over
<1>1. jobs[j].attempts \in Nat
  BY ObjectTypes
<1>2. CASE jobs'[j] = jobs[j]
  <2>1. PICK a \in Nat : a = jobs[j].attempts
    BY <1>1
  <2>2. Created(j, a)
    BY <1>2, <2>1 DEF RunningWasCreated, StatusOf, Created, Over
  <2>3. Created(j, a)'
    BY <2>2, CreatedStays
  <2>4. QED
    BY <1>2, <2>1, <2>3 DEF Created, Labelled, Over
<1>3. CASE MarkRunning /\ j = Current
  <2>1. Waiting(work[1]) /\ Begun(j)
    BY <1>3, HeadOfPass, MarkBegins DEF MarkRunning, HasCurrent, Dispatching, HistoryInv
  <2>2. PICK a \in Nat : a = jobs[j].attempts + 1
    BY <1>1
  <2>3. a = NextAttempt /\ jobs'[j].attempts = a
    BY <1>3, <2>1, <2>2 DEF Waiting, Begun, NextAttempt, Current
  <2>4. Created(j, a)
    BY <1>3, <2>3 DEF MarkCreated, MarkRunning
  <2>5. Created(j, a)'
    BY <2>4, CreatedStays
  <2>6. QED
    BY <2>3, <2>5 DEF Created, Labelled, Over
<1>4. jobs'[j] = jobs[j] \/ (MarkRunning /\ j = Current)
  BY TableKept, SubmitInserts, CancelOverwrites, RejectOverwrites, MarkBegins,
     VerdictLeaves DEF Inserted, Overwritten, Begun, Left, Only
<1>5. QED
  BY <1>2, <1>3, <1>4

-----------------------------------------------------------------------------
(* Deadlines.                                                              *)

\* The clock does not go back.
LEMMA ClockGrows ==
    ASSUME TypeInv, [Next]_vars
    PROVE  now \in Int /\ now' \in Int /\ now <= now'
<1>1. now' \in {now, now + 1}
  BY DEF Next, API, SubmitJob, CancelRead, CancelWrite, SchedulerRuns, SchedulerStep,
     Dispatch, Reconcile, ListCandidates, EndDispatch, SkipOverQuota, Admit,
     FindExisting, BuildManifest, ManifestRaises, Dies, CreateJobObject,
     CreateConflicts, CreateFails, RejectJob, MarkRunning, SkipStateChanged,
     ScanRunning, Probe, TimesOut, FailMissing, Succeed, LeaveRunning, Requeue,
     FailForGood, Judges, NextRunning, DeleteTimedOut, ExpireJob, Restart,
     SchedulerCrashes, Crash, ContainerEnds, TtlExpires, ClockTicks, Tick, vars,
     systemVars, repoVars
<1>2. now \in Nat
  BY TimeAssumption DEF TypeInv, SystemInv, RepoTypeOK, Times
<1>3. QED
  BY <1>1, <1>2

\* A deadline that has passed stays passed.
LEMMA LateStays ==
    ASSUME TypeInv, [Next]_vars, NEW s \in Snapshot, IsTimedOut(s)
    PROVE  IsTimedOut(s)'
<1>1. PICK d : d = At(s.started_at + TimeoutSeconds[s.job])
  OBVIOUS
<1>2. d \in Int
  <2>1. s.started_at \in Times /\ s.job \in Jobs
    BY DEF IsTimedOut, Snapshot
  <2>2. s.started_at + TimeoutSeconds[s.job] \in Nat
    BY <2>1, PolicyAssumption, TimeAssumption DEF Times
  <2>3. d \in Times
    BY <1>1, <2>2, AtIsTime
  <2>4. QED
    BY <2>3, TimeAssumption DEF Times
<1>3. now' >= d
  BY <1>1, <1>2, ClockGrows DEF IsTimedOut
<1>4. QED
  BY <1>1, <1>3 DEF IsTimedOut

LEMMA SnapshotTypes ==
    ASSUME TypeInv
    PROVE  /\ work # <<>> => work[1] \in Snapshot
           /\ \A j \in Jobs : SnapshotOf(j) \in Snapshot /\ SnapshotOf(j).job = j
<1>1. work \in Seq(Snapshot) /\ jobs \in [Jobs -> Row]
  BY DEF TypeInv, SystemInv, ProcessInv, SchedulerTypeOK, RepoTypeOK, IsTable
<1>2. work # <<>> => work[1] \in Snapshot
  BY <1>1, TailType
<1>3. QED
  BY <1>1, <1>2 DEF Snapshot, SnapshotOf, Row

LEMMA DeadlinePassedStep ==
    ASSUME TypeInv, DeadlinePassed, [Next]_vars
    PROVE  DeadlinePassed'
<1> SUFFICES ASSUME pc' = "delete" PROVE IsTimedOut(work[1])'
  BY DEF DeadlinePassed
<1>1. work # <<>> /\ UNCHANGED work /\ IsTimedOut(work[1])
  <2>1. CASE UNCHANGED <<pc, work>>
    BY <2>1, CurrentIsJob DEF HasCurrent, DeadlinePassed
  <2>2. CASE TimesOut
    BY <2>2, CurrentIsJob DEF HasCurrent, TimesOut, localVars
  <2>3. QED
    BY <2>1, <2>2, PassReaches
<1>2. PICK s \in Snapshot : s = work[1]
  BY <1>1, SnapshotTypes
<1>3. IsTimedOut(s)'
  BY <1>1, <1>2, LateStays
<1>4. QED
  BY <1>1, <1>2, <1>3 DEF IsTimedOut

\* Who ends an execution: its container, or a timeout.
LEMMA EndedBy ==
    ASSUME [Next]_vars
    PROVE  \/ UNCHANGED ended
           \/ SchedulerRuns /\ DeleteTimedOut
           \/ \E j \in Jobs : ContainerEnds(j)
<1>1. CASE SchedulerRuns /\ ~DeleteTimedOut
  BY <1>1 DEF SchedulerRuns, SchedulerStep, Dispatch, Reconcile, ListCandidates,
     EndDispatch, SkipOverQuota, Admit, FindExisting, BuildManifest, ManifestRaises,
     Dies, CreateJobObject, CreateConflicts, CreateFails, CreateObject, RejectJob,
     MarkRunning, SkipStateChanged, ScanRunning, Probe, TimesOut, FailMissing,
     Succeed, LeaveRunning, Requeue, FailForGood, Judges, NextRunning, ExpireJob,
     Restart, clusterVars
<1>2. CASE API \/ SchedulerCrashes \/ TtlExpires \/ ClockTicks \/ UNCHANGED vars
  BY <1>2 DEF API, SubmitJob, CancelRead, CancelWrite, SchedulerCrashes, Crash, Dies,
     TtlExpires, Expire, ClockTicks, vars, systemVars, clusterVars
<1>3. QED
  BY <1>1, <1>2 DEF Next

\* A timeout deletes the late attempt of the row it is about, by its name.
LEMMA NewDeletion ==
    ASSUME NamesDiffer, TypeInv, PassInv, DeadlinePassed, [Next]_vars,
           NEW e \in ended' \ ended, e.how = "deleted"
    PROVE  /\ UNCHANGED <<jobs, now>>
           /\ e.attempt = jobs[e.job].attempts
           /\ IsTimedOut(SnapshotOf(e.job))
<1>1. CASE \E j \in Jobs : ContainerEnds(j)
  <2>1. PICK o \in objects :
          \E how \in Ends[o.job] : e = [job |-> o.job, attempt |-> o.attempt, how |-> how]
    BY <1>1 DEF ContainerEnds, Finish
  <2>2. \A how \in Ends[o.job] : how \in {"succeeded", "failed"}
    BY <2>1, ObjectTypes, EndsAssumption
  <2>3. QED
    BY <2>1, <2>2
<1>2. CASE DeleteTimedOut
  <2>1. Current \in Jobs /\ Watched(work[1]) /\ IsTimedOut(work[1])
    BY <1>2, HeadOfPass DEF DeleteTimedOut, HasCurrent, Reconciling, DeadlinePassed
  <2>2. PICK o \in Named(Current, work[1].attempts) : DeleteObject(o)
    BY <1>2 DEF DeleteTimedOut, clusterVars
  <2>3. o.job = Current /\ o.attempt = work[1].attempts
    BY <2>1, <2>2, ObjectTypes DEF Named, NamesDiffer
  <2>4. e = [job |-> o.job, attempt |-> o.attempt, how |-> "deleted"]
    BY <2>2 DEF DeleteObject
  <2>5. e.job = work[1].job /\ e.attempt = work[1].attempts
    BY <2>3, <2>4 DEF Current
  <2>6. QED
    BY <1>2, <2>1, <2>5 DEF DeleteTimedOut, repoVars, Watched, IsTimedOut, SnapshotOf
<1>3. QED
  BY <1>1, <1>2, EndedBy

\* A row that had something created keeps or raises its attempts, and is not
\* started anew but by raising them.
LEMMA RowOfCreated ==
    ASSUME TypeInv, HistoryInv, ClusterInv, [Next]_vars,
           NEW x \in objects \cup ended
    PROVE  /\ x.job \in Jobs /\ jobs[x.job].attempts \in Nat
           /\ \/ jobs'[x.job] = jobs[x.job]
              \/ /\ jobs'[x.job].attempts = jobs[x.job].attempts
                 /\ jobs'[x.job].status # "RUNNING"
              \/ jobs'[x.job].attempts = jobs[x.job].attempts + 1
<1>1. x.job \in Jobs /\ jobs[x.job].attempts \in Nat
  BY ObjectTypes
<1>2. jobs[x.job].status # "ABSENT"
  BY DEF ClusterInv, ObjectInv, WithinCount
<1>3. ASSUME NEW j \in Jobs, SubmitJob(j) PROVE jobs'[x.job] = jobs[x.job]
  BY <1>1, <1>2, <1>3, SubmitInserts DEF Inserted, Only
<1>4. CASE Verdict /\ ~UNCHANGED jobs
  BY <1>1, <1>4, VerdictLeaves DEF Left, Only
<1>5. QED
  BY <1>1, <1>3, <1>4, TableKept, CancelOverwrites, RejectOverwrites, MarkBegins
     DEF Overwritten, Begun, Only

LEMMA DeletedLateStep ==
    ASSUME NamesDiffer, TypeInv, HistoryInv, ClusterInv, DeadlinePassed, DeletedLate,
           [Next]_vars
    PROVE  DeletedLate'
<1>1. ASSUME NEW e \in ended' \ ended, e.how = "deleted"
      PROVE  /\ e.attempt <= jobs'[e.job].attempts
             /\ IsTimedOut(SnapshotOf(e.job))'
  <2>1. /\ UNCHANGED <<jobs, now>>
        /\ e.attempt = jobs[e.job].attempts
        /\ IsTimedOut(SnapshotOf(e.job))
    BY <1>1, NewDeletion DEF HistoryInv
  <2>2. e.attempt \in Nat
    BY TypeInvStep, ObjectTypes DEF TypeInv, SystemInv, ClusterTypeOK
  <2>3. QED
    BY <2>1, <2>2 DEF IsTimedOut, SnapshotOf
<1>2. ASSUME NEW e \in ended, e.how = "deleted"
      PROVE  /\ e.attempt <= jobs'[e.job].attempts
             /\ jobs'[e.job].status = "RUNNING" /\ e.attempt = jobs'[e.job].attempts
                  => IsTimedOut(SnapshotOf(e.job))'
  <2>1. e.job \in Jobs /\ e.attempt \in Nat /\ jobs[e.job].attempts \in Nat
    BY ObjectTypes
  <2>2. e.attempt <= jobs[e.job].attempts
    BY <1>2 DEF DeletedLate
  <2>3. CASE jobs'[e.job] = jobs[e.job]
    <3>1. PICK s \in Snapshot : s = SnapshotOf(e.job)
      BY <2>1, SnapshotTypes
    <3>2. jobs[e.job].status = "RUNNING" /\ e.attempt = jobs[e.job].attempts
             => IsTimedOut(s)'
      BY <1>2, <3>1, LateStays DEF DeletedLate
    <3>3. IsTimedOut(s)' => IsTimedOut(SnapshotOf(e.job))'
      BY <2>3, <3>1 DEF IsTimedOut, SnapshotOf
    <3>4. QED
      BY <2>2, <2>3, <3>2, <3>3
  <2>4. CASE /\ jobs'[e.job].attempts = jobs[e.job].attempts
             /\ jobs'[e.job].status # "RUNNING"
    BY <2>2, <2>4
  <2>5. CASE jobs'[e.job].attempts = jobs[e.job].attempts + 1
    BY <2>1, <2>2, <2>5
  <2>6. QED
    BY <2>3, <2>4, <2>5, RowOfCreated
<1>3. QED
  BY <1>1, <1>2 DEF DeletedLate

-----------------------------------------------------------------------------
(* Verdicts.                                                               *)

\* What OutcomeIsOwn, and with names of their own VerdictIsReal, asks of one
\* row.
Real(j, a, s, e) ==
    /\ s = "SUCCEEDED" => Executed(j, a, "succeeded")
    /\ s \in {"QUEUED", "FAILED"} /\ e = "job_failed" => Executed(j, a, "failed")
    /\ NamesDiffer /\ s \in {"QUEUED", "FAILED"} /\ e = "missing"
          => Executed(j, a, "failed") \/ Executed(j, a, "succeeded")

RealRow(j) == Real(j, jobs[j].attempts, jobs[j].status, jobs[j].last_error)

RealRows == \A j \in Jobs : RealRow(j)

\* What was created, when names differ.
OwnObjects == NamesDiffer => RunningWasCreated /\ MarkCreated /\ DeletedLate

OutcomeInv == DeadlinePassed /\ OwnObjects /\ RealRows

\* A Kubernetes Job that is gone had finished: it was created, and a timeout
\* would have come first.
LEMMA MissingHadFinished ==
    ASSUME TypeInv, HistoryInv, ClusterInv, RunningWasCreated, DeletedLate,
           FailMissing, NEW j \in Jobs, j = Current, jobs[j].status = "RUNNING"
    PROVE  \/ Executed(j, jobs[j].attempts, "failed")
           \/ Executed(j, jobs[j].attempts, "succeeded")
<1>1. Watched(work[1])
  BY HeadOfPass DEF FailMissing, Judges, HasCurrent, Reconciling, HistoryInv
<1>2. jobs[j].attempts = work[1].attempts /\ jobs[j].started_at = work[1].started_at
  BY <1>1 DEF Watched, Current
<1>3. Labelled(j, jobs[j].attempts) = {}
  BY <1>2 DEF ClusterInv, LiveInv, VerdictHolds, FailMissing, Judges
<1>4. PICK e \in ended : e.job = j /\ e.attempt = jobs[j].attempts
  BY <1>3 DEF RunningWasCreated, StatusOf
<1>5. e \in [job: Jobs, attempt: Nat, how: {"succeeded", "failed", "deleted"}]
  BY DEF TypeInv, SystemInv, ClusterTypeOK
<1>6. e.how # "deleted"
  <2>1. ASSUME e.how = "deleted" PROVE IsTimedOut(SnapshotOf(j))
    BY <1>4, <2>1 DEF DeletedLate
  <2>2. IsTimedOut(SnapshotOf(j)) <=> IsTimedOut(work[1])
    BY <1>2 DEF IsTimedOut, SnapshotOf, Current
  <2>3. QED
    BY <2>1, <2>2 DEF FailMissing, Judges
<1>7. e = [job |-> j, attempt |-> jobs[j].attempts, how |-> e.how]
  BY <1>4, <1>5
<1>8. QED
  BY <1>5, <1>6, <1>7 DEF Executed

\* What the scheduler writes of the attempt it judged is what that attempt did.
LEMMA ClosingIsReal ==
    ASSUME TypeInv, HistoryInv, ClusterInv, OwnObjects,
           NEW j \in Jobs, j = Current, Watched(work[1]), jobs[j].status = "RUNNING",
           NEW s, NEW e \in Errors \cup {Null}, Closing(s, e)
    PROVE  Real(j, jobs[j].attempts, s, e)
<1>1. jobs[j].attempts = work[1].attempts
  BY DEF Watched, Current
<1>2. CASE FailMissing /\ s = "FAILED" /\ e = "missing"
  BY <1>2, MissingHadFinished DEF Real, OwnObjects
<1>3. CASE Succeed /\ s = "SUCCEEDED" /\ e = Null
  BY <1>1, <1>3 DEF Real, Succeed, Judges, ClusterInv, LiveInv, VerdictHolds
<1>4. CASE (Requeue \/ FailForGood) /\ s \in {"QUEUED", "FAILED"} /\ e = "job_failed"
  BY <1>1, <1>4 DEF Real, Requeue, FailForGood, Judges, ClusterInv, LiveInv, VerdictHolds
<1>5. CASE s = "FAILED" /\ e = "timeout"
  BY <1>5 DEF Real
<1>6. QED
  BY <1>2, <1>3, <1>4, <1>5 DEF Closing

LEMMA RealRowsStep ==
    ASSUME TypeInv, HistoryInv, ClusterInv, OwnObjects, RealRows, [Next]_vars
    PROVE  RealRows'
<1>1. \A j \in Jobs : RealRow(j)
  BY DEF RealRows
<1>2. ended \subseteq ended'
  BY CreatedStays
<1>3. ASSUME NEW j \in Jobs, jobs'[j] = jobs[j] PROVE RealRow(j)'
  BY <1>1, <1>2, <1>3 DEF RealRow, Real, Executed
<1>4. ASSUME NEW j \in Jobs, SubmitJob(j) PROVE \A k \in Jobs : RealRow(k)'
  <2>1. Inserted(j)
    BY <1>4, SubmitInserts
  <2>2. RealRow(j)'
    BY <2>1, ErrorsAssumption DEF RealRow, Real, Inserted, Errors
  <2>3. QED
    BY <1>3, <2>1, <2>2 DEF Inserted, Only
<1>5. ASSUME NEW j \in Jobs, NEW s \in {"CANCELED", "FAILED"}, NEW e, Overwritten(j, s, e),
             s = "FAILED" => e = "create_failed"
      PROVE  \A k \in Jobs : RealRow(k)'
  <2>1. RealRow(j)'
    BY <1>5 DEF RealRow, Real, Overwritten
  <2>2. QED
    BY <1>3, <1>5, <2>1 DEF Overwritten, Only
<1>6. ASSUME MarkRunning PROVE \A k \in Jobs : RealRow(k)'
  <2>1. PICK j \in Jobs : j = Current /\ Begun(j)
    BY <1>6, CurrentIsJob, MarkBegins DEF MarkRunning, HasCurrent
  <2>2. RealRow(j)'
    BY <2>1 DEF RealRow, Real, Begun
  <2>3. QED
    BY <1>3, <2>1, <2>2 DEF Begun, Only
<1>7. ASSUME Verdict, ~UNCHANGED jobs PROVE \A k \in Jobs : RealRow(k)'
  <2>1. PICK j \in Jobs, s \in {"QUEUED", "SUCCEEDED", "FAILED"}, e \in Errors \cup {Null} :
          j = Current /\ Watched(work[1]) /\ Left(j, s, e) /\ Closing(s, e)
    BY <1>7, VerdictLeaves, HeadOfPass DEF HistoryInv
  <2>2. PICK a : a = jobs[j].attempts
    OBVIOUS
  <2>3. Real(j, a, s, e)
    BY <2>1, <2>2, ClosingIsReal DEF Left
  <2>4. Real(j, a, s, e)'
    BY <1>2, <2>3 DEF Real, Executed
  <2>5. RealRow(j)'
    BY <2>1, <2>2, <2>4 DEF RealRow, Left, Real, Executed
  <2>6. QED
    BY <1>3, <2>1, <2>5 DEF Left, Only
<1>8. \A j \in Jobs : RealRow(j)'
  <2>1. CASE UNCHANGED jobs
    BY <1>3, <2>1
  <2>2. CASE \E h \in CancelHandlers : CancelWrite(h)
    BY <1>5, <2>2, CancelOverwrites
  <2>3. CASE RejectJob
    <3>1. Current \in Jobs
      BY <2>3, CurrentIsJob DEF RejectJob, HasCurrent
    <3>2. QED
      BY <1>5, <2>3, <3>1, RejectOverwrites
  <2>4. QED
    BY <1>4, <1>6, <1>7, <2>1, <2>2, <2>3, TableKept
<1>9. QED
  BY <1>8 DEF RealRows

-----------------------------------------------------------------------------
LEMMA OutcomeInvStep ==
    ASSUME TypeInv, HistoryInv, ClusterInv, OutcomeInv, [Next]_vars
    PROVE  OutcomeInv'
<1>1. DeadlinePassed' /\ RealRows'
  BY DeadlinePassedStep, RealRowsStep DEF OutcomeInv
<1>2. ASSUME NamesDiffer PROVE RunningWasCreated' /\ MarkCreated' /\ DeletedLate'
  BY <1>2, RunningWasCreatedStep, MarkCreatedStep, DeletedLateStep
     DEF OutcomeInv, OwnObjects
<1>3. NamesDiffer' <=> NamesDiffer
  BY DEF NamesDiffer
<1>4. QED
  BY <1>1, <1>2, <1>3 DEF OutcomeInv, OwnObjects

LEMMA OutcomeInvInit == Init => OutcomeInv
<1> SUFFICES ASSUME Init PROVE OutcomeInv
  OBVIOUS
<1>1. /\ pc = "list" /\ ended = {}
      /\ \A j \in Jobs : jobs[j].status = "ABSENT"
  BY DEF Init, RepoInit, NoRow, ClusterInit, SchedulerInit
<1>2. QED
  BY <1>1 DEF OutcomeInv, OwnObjects, RunningWasCreated, MarkCreated, DeadlinePassed,
     DeletedLate, RealRows, RealRow, Real, StatusOf

LEMMA OutcomeInvAlways == Spec => []OutcomeInv
<1>1. TypeInv /\ HistoryInv /\ ClusterInv /\ OutcomeInv /\ [Next]_vars => OutcomeInv'
  BY OutcomeInvStep
<1>2. QED
  BY <1>1, OutcomeInvInit, TypeInvAlways, HistoryInvAlways, ClusterInvAlways, PTL
     DEF Spec

\* A job's outcome is that of its own attempt, whatever the names of objects:
\* they are looked up by job and attempt, and a verdict stays true until it
\* is written.
THEOREM OutcomesOwn == Spec => []OutcomeIsOwn
<1>1. OutcomeInv => OutcomeIsOwn
  BY DEF OutcomeInv, RealRows, RealRow, Real, OutcomeIsOwn, StatusOf
<1>2. QED
  BY <1>1, OutcomeInvAlways, PTL

\* What a row reports, its attempt did, if no two jobs share a name: no crash,
\* cancel, collected object or timeout makes the scheduler write the verdict of
\* another attempt, or call missing what it deleted itself.
THEOREM VerdictsReal ==
    ASSUME NamesDiffer
    PROVE  Spec => []VerdictIsReal
<1>1. OutcomeInv => VerdictIsReal
  BY DEF OutcomeInv, RealRows, RealRow, Real, VerdictIsReal, StatusOf
<1>2. QED
  BY <1>1, OutcomeInvAlways, PTL

-----------------------------------------------------------------------------
(* Whatever the names.                                                     *)

MarkNamed == pc = "mark" => NameCreated(Current, NextAttempt)

\* The name of what was created stays taken or recorded.
LEMMA NameStays ==
    ASSUME TypeInv, ClusterInv, [Next]_vars,
           NEW j \in Jobs, NEW a \in Nat, NameCreated(j, a)
    PROVE  NameCreated(j, a)'
<1>1. PICK x \in objects \cup ended : NamePrefix[x.job] = NamePrefix[j] /\ x.attempt = a
  BY DEF NameCreated
<1>2. PICK i \in Jobs : i = x.job
  BY ObjectTypes
<1>3. Created(i, a)
  BY <1>1, <1>2 DEF Created, Labelled, Over
<1>4. Created(i, a)'
  BY <1>3, CreatedStays
<1>5. PICK y \in objects' \cup ended' : y.job = i /\ y.attempt = a
  BY <1>4 DEF Created, Labelled, Over
<1>6. QED
  BY <1>1, <1>2, <1>5 DEF NameCreated

LEMMA MarkNamedStep ==
    ASSUME TypeInv, ClusterInv, MarkNamed, [Next]_vars
    PROVE  MarkNamed'
<1> SUFFICES ASSUME pc' = "mark" PROVE NameCreated(Current, NextAttempt)'
  BY DEF MarkNamed
<1>1. CASE UNCHANGED <<pc, work>>
  <2>1. Current \in Jobs /\ NextAttempt \in Nat
    BY <1>1, CurrentIsJob, CurrentType DEF HasCurrent, TypeInv
  <2>2. UNCHANGED <<Current, NextAttempt>>
    BY <1>1 DEF Current, NextAttempt
  <2>3. PICK j \in Jobs, a \in Nat : j = Current /\ a = NextAttempt
    BY <2>1
  <2>4. NameCreated(j, a)'
    BY <1>1, <2>3, NameStays DEF MarkNamed
  <2>5. QED
    BY <2>2, <2>3, <2>4 DEF NameCreated
<1>2. CASE FindExisting
  BY <1>2 DEF FindExisting, NameCreated, Labelled, Current, NextAttempt, clusterVars, localVars
<1>3. CASE CreateJobObject
  <2>1. PICK o : o = [job |-> Current, attempt |-> NextAttempt, phase |-> "active"]
    OBVIOUS
  <2>2. o \in objects' /\ o.job = Current /\ o.attempt = NextAttempt /\ UNCHANGED work
    BY <1>3, <2>1 DEF CreateJobObject, CreateObject, localVars
  <2>3. QED
    BY <2>2 DEF NameCreated, Current, NextAttempt
<1>4. CASE CreateConflicts
  BY <1>4 DEF CreateConflicts, NameTaken, Named, NameCreated, Current, NextAttempt,
     clusterVars, localVars
<1>5. QED
  BY <1>1, <1>2, <1>3, <1>4, PassReaches

LEMMA NameWasCreatedStep ==
    ASSUME TypeInv, HistoryInv, ClusterInv, NameWasCreated, MarkNamed, [Next]_vars
    PROVE  NameWasCreated'
<1> SUFFICES ASSUME NEW j \in Jobs, jobs'[j].status = "RUNNING"
             PROVE  NameCreated(j, jobs[j].attempts)'
  BY DEF NameWasCreated, StatusOf, NameCreated
<1>1. jobs[j].attempts \in Nat
  BY ObjectTypes
<1>2. CASE jobs'[j] = jobs[j]
  <2>1. PICK a \in Nat : a = jobs[j].attempts
    BY <1>1
  <2>2. NameCreated(j, a)'
    BY <1>2, <2>1, NameStays DEF NameWasCreated, StatusOf
  <2>3. QED
    BY <1>2, <2>1, <2>2 DEF NameCreated
<1>3. CASE MarkRunning /\ j = Current
  <2>1. Waiting(work[1]) /\ Begun(j)
    BY <1>3, HeadOfPass, MarkBegins DEF MarkRunning, HasCurrent, Dispatching, HistoryInv
  <2>2. PICK a \in Nat : a = jobs[j].attempts + 1
    BY <1>1
  <2>3. a = NextAttempt /\ jobs'[j].attempts = a
    BY <1>3, <2>1, <2>2 DEF Waiting, Begun, NextAttempt, Current
  <2>4. NameCreated(j, a)'
    BY <1>3, <2>3, NameStays DEF MarkNamed, MarkRunning
  <2>5. QED
    BY <2>3, <2>4 DEF NameCreated
<1>4. jobs'[j] = jobs[j] \/ (MarkRunning /\ j = Current)
  BY TableKept, SubmitInserts, CancelOverwrites, RejectOverwrites, MarkBegins,
     VerdictLeaves DEF Inserted, Overwritten, Begun, Left, Only
<1>5. QED
  BY <1>2, <1>3, <1>4

\* A RUNNING row's name was created, over crashes, failed calls and 409s:
\* nothing else leads to mark_job_running, and what was created stays in the
\* cluster or in the record of what ended.
THEOREM NamesCreated == Spec => []NameWasCreated
<1>1. Init => MarkNamed /\ NameWasCreated
  BY DEF Init, RepoInit, NoRow, SchedulerInit, MarkNamed, NameWasCreated, StatusOf
<1>2. TypeInv /\ HistoryInv /\ ClusterInv /\ MarkNamed /\ NameWasCreated /\ [Next]_vars
         => (MarkNamed /\ NameWasCreated)'
  BY MarkNamedStep, NameWasCreatedStep
<1>3. QED
  BY <1>1, <1>2, TypeInvAlways, HistoryInvAlways, ClusterInvAlways, PTL DEF Spec

-----------------------------------------------------------------------------
(* Without faults no attempt runs twice, whatever the names.               *)

\* What runs has not ended before.
RunsFirst ==
    \A o \in Active : \A e \in ended : ~(e.job = o.job /\ e.attempt = o.attempt)

EndsOnce ==
    \A e, f \in ended : e.job = f.job /\ e.attempt = f.attempt => e = f

\* The next attempt of a QUEUED row is only there between its creation and
\* mark_job_running.
NextIsNew ==
    \A j \in Jobs :
        jobs[j].status = "QUEUED" /\ Created(j, jobs[j].attempts + 1)
            => pc = "mark" /\ Current = j

\* The same of a candidate, canceled or not.
CandidateIsNew ==
    Dispatching =>
        \A i \in DOMAIN work :
            Created(work[i].job, work[i].attempts + 1) => pc = "mark" /\ i = 1

OnceInv == faults = 0 => RunsFirst /\ EndsOnce /\ NextIsNew /\ CandidateIsNew

\* A step that is no fault.
LEMMA FaultFree ==
    ASSUME TypeInv, [Next]_vars, faults' = 0
    PROVE  /\ faults = 0
           /\ pc = "mark" => UNCHANGED <<pc, work>> \/ MarkRunning \/ SkipStateChanged
           /\ Creates => pc' = "mark"
<1>1. faults \in Nat
  BY SchedulerAssumption DEF TypeInv, SystemInv, ProcessInv, SchedulerTypeOK
<1>2. ~Fault
  BY <1>1 DEF Fault
<1>3. CASE SchedulerRuns
  <2>1. faults' = faults
    BY <1>2, <1>3 DEF SchedulerRuns, SchedulerStep, Dispatch, Reconcile,
       ListCandidates, EndDispatch, SkipOverQuota, Admit, FindExisting,
       BuildManifest, ManifestRaises, CreateJobObject, CreateConflicts, CreateFails,
       RejectJob, MarkRunning, SkipStateChanged, ScanRunning, Probe, TimesOut,
       FailMissing, Succeed, LeaveRunning, Requeue, FailForGood, Judges, NextRunning,
       DeleteTimedOut, ExpireJob, Restart
  <2>2. pc = "mark" => MarkRunning \/ SkipStateChanged
    BY <1>3 DEF SchedulerRuns, SchedulerStep, Dispatch, Reconcile,
       ListCandidates, EndDispatch, SkipOverQuota, Admit, Picks, FindExisting,
       BuildManifest, ManifestRaises, CreateJobObject, CreateConflicts, CreateFails,
       RejectJob, ScanRunning, Probe, TimesOut, FailMissing, Succeed, LeaveRunning,
       Requeue, FailForGood, Judges, DeleteTimedOut, ExpireJob, Restart
  <2>3. pc = "create" => pc' = "mark"
    BY <1>2, <1>3 DEF SchedulerRuns, SchedulerStep, Dispatch, Reconcile,
       ListCandidates, EndDispatch, SkipOverQuota, Admit, Picks, FindExisting,
       BuildManifest, ManifestRaises, CreateJobObject, CreateConflicts, CreateFails,
       RejectJob, MarkRunning, SkipStateChanged, ScanRunning, Probe, TimesOut,
       FailMissing, Succeed, LeaveRunning, Requeue, FailForGood, Judges,
       DeleteTimedOut, ExpireJob, Restart
  <2>4. QED
    BY <2>1, <2>2, <2>3 DEF Creates
<1>4. CASE UNCHANGED <<pc, work, faults>>
  BY <1>4 DEF Creates
<1>5. ~SchedulerCrashes
  BY <1>2 DEF SchedulerCrashes, Crash
<1>6. QED
  BY <1>3, <1>4, <1>5 DEF Next, API, SubmitJob, CancelRead, CancelWrite,
     ContainerEnds, TtlExpires, ClockTicks, vars, systemVars, schedulerVars, localVars

\* Nothing is created but by the create call.
LEMMA CreatedBefore ==
    ASSUME TypeInv, ClusterInv, [Next]_vars, NEW j \in Jobs, NEW a \in Nat,
           Created(j, a)'
    PROVE  Created(j, a) \/ (Creates /\ j = Current /\ a = NextAttempt)
<1>1. CASE UNCHANGED clusterVars
  BY <1>1 DEF clusterVars, Created, Labelled, Over
<1>2. CASE Creates
  BY <1>2 DEF Creates, CreateObject, Created, Labelled, Over
<1>3. CASE Wanes
  BY <1>3, WhatRemains DEF ClusterInv, Created, Labelled, Over, Active
<1>4. QED
  BY <1>1, <1>2, <1>3, StepCluster

\* An execution ends once, and nothing else of its job runs on.
LEMMA OneEnds ==
    ASSUME TypeInv, ClusterInv, Wanes
    PROVE  /\ Active' \subseteq Active
           /\ \/ ended' = ended
              \/ \E o \in Active : \E x :
                    /\ ended' = ended \cup {x}
                    /\ x.job = o.job /\ x.attempt = o.attempt
                    /\ \A p \in Active' : p.job # o.job
<1>1. PICK o \in objects : DeleteObject(o) \/ Finish(o) \/ Expire(o)
  BY DEF Wanes
<1>2. Active' \subseteq Active
  BY WhatRemains DEF ClusterInv, Active
<1>3. ASSUME o \in Active, o \notin objects'
      PROVE  \A p \in Active' : p.job # o.job
  BY <1>2, <1>3 DEF ClusterInv, LiveInv, SingleExecution, Active
<1>4. CASE DeleteObject(o)
  <2>1. PICK x : x = [job |-> o.job, attempt |-> o.attempt, how |-> "deleted"]
    OBVIOUS
  <2>2. x.job = o.job /\ x.attempt = o.attempt
    BY <2>1
  <2>3. QED
    BY <1>2, <1>3, <1>4, <2>1, <2>2 DEF DeleteObject, Active
<1>5. CASE Finish(o)
  <2>1. PICK how \in Ends[o.job] :
          /\ objects' = (objects \ {o}) \cup {[o EXCEPT !.phase = how]}
          /\ ended' = ended \cup {[job |-> o.job, attempt |-> o.attempt, how |-> how]}
          /\ o.phase = "active"
    BY <1>5 DEF Finish
  <2>2. o \in Object /\ how # "active"
    BY ObjectTypes, EndsAssumption
  <2>3. [o EXCEPT !.phase = how].phase = how
    BY <2>2 DEF Object
  <2>4. o \in Active /\ o \notin objects'
    BY <2>1, <2>2, <2>3 DEF Active
  <2>5. PICK x : x = [job |-> o.job, attempt |-> o.attempt, how |-> how]
    OBVIOUS
  <2>6. x.job = o.job /\ x.attempt = o.attempt
    BY <2>5
  <2>7. QED
    BY <1>2, <1>3, <2>1, <2>4, <2>5, <2>6
<1>6. CASE Expire(o)
  BY <1>2, <1>6 DEF Expire
<1>7. QED
  BY <1>1, <1>4, <1>5, <1>6

LEMMA OneEndStep ==
    ASSUME TypeInv, HistoryInv, ClusterInv, [Next]_vars,
           RunsFirst, EndsOnce, CandidateIsNew
    PROVE  RunsFirst' /\ EndsOnce'
<1>1. CASE UNCHANGED clusterVars
  BY <1>1, ObjectsStand DEF RunsFirst, EndsOnce, clusterVars
<1>2. CASE Creates
  <2>1. PICK n : n = [job |-> Current, attempt |-> NextAttempt, phase |-> "active"]
    OBVIOUS
  <2>2. /\ Active' \subseteq Active \cup {n} /\ ended' = ended
        /\ n.job = Current /\ n.attempt = NextAttempt
    BY <1>2, <2>1 DEF Creates, CreateObject, Active
  <2>3. 1 \in DOMAIN work
    BY <1>2, CurrentIsJob, WorkTypes, EmptySeq DEF Creates, HasCurrent
  <2>4. ~Created(work[1].job, work[1].attempts + 1)
    BY <1>2, <2>3 DEF CandidateIsNew, Creates, Dispatching
  <2>5. \A e \in ended : ~(e.job = n.job /\ e.attempt = n.attempt)
    BY <2>2, <2>4 DEF Created, Over, Current, NextAttempt
  <2>6. QED
    BY <2>2, <2>5 DEF RunsFirst, EndsOnce
<1>3. CASE Wanes
  BY <1>3, OneEnds DEF RunsFirst, EndsOnce
<1>4. QED
  BY <1>1, <1>2, <1>3, StepCluster

LEMMA NextIsNewStep ==
    ASSUME TypeInv, HistoryInv, ClusterInv, [Next]_vars, faults' = 0, NextIsNew
    PROVE  NextIsNew'
<1> SUFFICES ASSUME NEW j \in Jobs, jobs'[j].status = "QUEUED",
                    Created(j, jobs[j].attempts + 1)'
             PROVE  pc' = "mark" /\ Current' = j
  BY DEF NextIsNew
<1>1. jobs[j].attempts \in Nat /\ \A x \in objects \cup ended : x.attempt \in Nat
  BY ObjectTypes
<1>2. CASE jobs'[j] = jobs[j]
  <2>1. PICK a \in Nat : a = jobs[j].attempts + 1
    BY <1>1
  <2>2. Created(j, a)'
    BY <1>2, <2>1 DEF Created, Labelled, Over
  <2>3. CASE Created(j, a)
    <3>1. pc = "mark" /\ Current = j
      BY <1>2, <2>1, <2>3 DEF NextIsNew
    <3>2. ~MarkRunning /\ ~SkipStateChanged
      BY <1>2, <3>1, MarkBegins DEF SkipStateChanged, MarksRunning, Begun
    <3>3. QED
      BY <3>1, <3>2, FaultFree DEF Current
  <2>4. CASE Creates /\ j = Current
    BY <2>4, FaultFree DEF Creates, Current
  <2>5. QED
    BY <2>2, <2>3, <2>4, CreatedBefore
<1>3. CASE (\E k \in Jobs : SubmitJob(k)) /\ jobs'[j] # jobs[j]
  <2>1. Inserted(j) /\ UNCHANGED clusterVars
    BY <1>3, SubmitInserts DEF Inserted, Only, SubmitJob
  <2>2. \A x \in objects \cup ended : x.job # j
    BY <2>1 DEF Inserted, ClusterInv, ObjectInv, WithinCount
  <2>3. QED
    BY <2>1, <2>2 DEF Created, Labelled, Over, clusterVars
<1>4. CASE Verdict /\ jobs'[j] # jobs[j]
  <2>1. /\ jobs[j].status = "RUNNING" /\ jobs'[j].attempts = jobs[j].attempts
        /\ UNCHANGED clusterVars
    BY <1>4, VerdictLeaves DEF Left, Only, NextRunning
  <2>2. \A x \in objects \cup ended : x.job = j => x.attempt <= jobs[j].attempts
    BY <2>1 DEF ClusterInv, ObjectInv, WithinCount
  <2>3. \A x \in objects \cup ended : x.job = j => x.attempt # jobs[j].attempts + 1
    BY <1>1, <2>2
  <2>4. QED
    BY <2>1, <2>3 DEF Created, Labelled, Over, clusterVars
<1>5. CASE jobs'[j] # jobs[j] /\ ~(\E k \in Jobs : SubmitJob(k)) /\ ~Verdict
  BY <1>5, TableKept, CancelOverwrites, RejectOverwrites, MarkBegins
     DEF Overwritten, Begun, Only
<1>6. QED
  BY <1>2, <1>3, <1>4, <1>5

LEMMA CandidateIsNewStep ==
    ASSUME TypeInv, HistoryInv, HistoryInv', ClusterInv, [Next]_vars, faults' = 0,
           NextIsNew, CandidateIsNew
    PROVE  CandidateIsNew'
<1> SUFFICES ASSUME Dispatching', NEW i \in DOMAIN work',
                    Created(work[i].job, work[i].attempts + 1)'
             PROVE  pc' = "mark" /\ i = 1
  BY DEF CandidateIsNew
<1>1. work' \in Seq(Snapshot)
  BY TypeInvStep DEF TypeInv, SystemInv, ProcessInv, SchedulerTypeOK
<1>2. PICK j \in Jobs, a \in Nat : j = work'[i].job /\ a = work'[i].attempts + 1
  <2>1. PICK w \in Seq(Snapshot) : w = work'
    BY <1>1
  <2>2. DOMAIN w = 1..Len(w)
    OBVIOUS
  <2>3. w[i] \in Snapshot
    BY <2>1, <2>2
  <2>4. QED
    BY <2>1, <2>3 DEF Snapshot
<1>3. Created(j, a)'
  BY <1>2 DEF Created, Labelled, Over
<1>4. Created(j, a) \/ (Creates /\ j = Current /\ a = NextAttempt)
  BY <1>3, CreatedBefore
<1>5. CASE Creates
  <2>1. work' = work /\ pc' = "mark" /\ pc = "create" /\ 1 \in DOMAIN work
    BY <1>5, FaultFree, CurrentIsJob, WorkTypes, EmptySeq DEF Creates, HasCurrent
  <2>2. ~Created(j, a)
    BY <1>2, <2>1 DEF CandidateIsNew, Dispatching
  <2>3. work[i].job = work[1].job
    BY <1>2, <1>4, <2>1, <2>2 DEF Current
  <2>4. QED
    BY <2>1, <2>3 DEF HistoryInv, PassInv, OneEach
<1>6. CASE Created(j, a) /\ ListCandidates
  <2>1. UNCHANGED jobs /\ pc = "list"
    BY <1>6 DEF ListCandidates, repoVars
  <2>2. Waiting(work[i])'
    BY DEF HistoryInv, PassInv
  <2>3. jobs[j].attempts + 1 = a
    BY <1>2, <2>1, <2>2 DEF Waiting
  <2>4. jobs[j].status = "QUEUED"
    <3>1. PICK page \in Pages, order \in Pages :
            /\ ListDispatchableJobs(page, CandidateLimit)
            /\ IsRoundRobin(order, page, cursor)
            /\ work' = Snapshots(order)
      BY <1>6 DEF ListCandidates
    <3>2. /\ {order[k] : k \in DOMAIN order} \subseteq Dispatchable
          /\ Cardinality({order[k] : k \in DOMAIN order}) = Len(order)
      BY <3>1 DEF ListDispatchableJobs, IsPage, IsRoundRobin
    <3>3. work'[i].job \in Dispatchable
      BY <3>1, <3>2, SnapshotsOfPage DEF TypeInv, SystemInv
    <3>4. QED
      BY <1>2, <3>3 DEF Dispatchable, HasStatus
  <2>5. QED
    BY <1>6, <2>1, <2>3, <2>4 DEF NextIsNew
<1>7. CASE /\ Created(j, a) /\ ~Creates /\ Dispatching
           /\ work # <<>> /\ work' = Tail(work)
  <2>1. i + 1 \in DOMAIN work /\ work'[i] = work[i + 1] /\ i + 1 # 1
    <3>1. i + 1 \in DOMAIN work /\ work'[i] = work[i + 1] /\ work'[i].job # work[1].job
      BY <1>7, WorkTypes, TailElements DEF HistoryInv, PassInv, OneEach
    <3>2. QED
      BY <3>1
  <2>2. QED
    BY <1>2, <1>7, <2>1 DEF CandidateIsNew
<1>8. CASE /\ Created(j, a) /\ ~Creates /\ Dispatching /\ work' = work
  <2>1. pc = "mark" /\ i = 1
    BY <1>2, <1>8 DEF CandidateIsNew
  <2>2. CASE UNCHANGED pc
    BY <2>1, <2>2
  <2>3. CASE MarkRunning \/ SkipStateChanged
    BY <1>7, <1>8, <2>1, <2>3, CurrentIsJob DEF MarkRunning, SkipStateChanged, HasCurrent
  <2>4. QED
    BY <2>1, <2>2, <2>3, FaultFree
<1>9. CASE Probe
  BY <1>9 DEF Probe, Dispatching
<1>10. QED
  BY <1>4, <1>5, <1>6, <1>7, <1>8, <1>9, PassMoves

LEMMA OnceInvAlways == Spec => []OnceInv
<1>1. Init => OnceInv
  BY DEF Init, ClusterInit, SchedulerInit, OnceInv, RunsFirst, EndsOnce, NextIsNew,
     CandidateIsNew, Dispatching, Created, Labelled, Over
<1>2. TypeInv /\ HistoryInv /\ HistoryInv' /\ ClusterInv /\ OnceInv /\ [Next]_vars
         => OnceInv'
  BY FaultFree, OneEndStep, NextIsNewStep, CandidateIsNewStep DEF OnceInv
<1>3. QED
  BY <1>1, <1>2, TypeInvAlways, HistoryInvAlways, ClusterInvAlways, PTL DEF Spec

\* As long as nothing fails an attempt is executed once and has one verdict,
\* although what ended may be collected before a look at it: the row counts
\* the attempt before anybody looks again.
THEOREM RunsOnce == Spec => []AttemptRunsOnce
<1>1. OnceInv => AttemptRunsOnce
  <2> SUFFICES ASSUME EndsOnce,
                      NEW j \in Jobs, NEW a \in 1..(MaxRetries[j] + 1),
                      Executed(j, a, "succeeded"), Executed(j, a, "failed")
               PROVE  FALSE
    BY DEF OnceInv, AttemptRunsOnce
  <2>1. PICK e, f \in ended :
          /\ e = [job |-> j, attempt |-> a, how |-> "succeeded"]
          /\ f = [job |-> j, attempt |-> a, how |-> "failed"]
    BY DEF Executed
  <2>2. e = f
    BY <2>1 DEF EndsOnce
  <2>3. QED
    BY <2>1, <2>2
<1>2. QED
  BY <1>1, OnceInvAlways, PTL
=============================================================================
