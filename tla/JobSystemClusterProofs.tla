----------------------- MODULE JobSystemClusterProofs -----------------------
(***************************************************************************)
(* The Kubernetes Jobs against the table: that an attempt runs alone, that *)
(* what runs is what the table says, that a row reports what happened.     *)
(***************************************************************************)
EXTENDS JobSystemPassProofs

\* Attempt a of job j is over.
Over(j, a) == \E e \in ended : e.job = j /\ e.attempt = a

Created(j, a) == Labelled(j, a) # {} \/ Over(j, a)

\* A label pair selects one object.
OneObject ==
    \A o, p \in objects : o.job = p.job /\ o.attempt = p.attempt => o = p

FinishedRecorded ==
    \A o \in objects : o.phase # "active" => Executed(o.job, o.attempt, o.phase)

\* What was created is an attempt its row counts, or the next one.
WithinCount ==
    \A x \in objects \cup ended :
        LET r == jobs[x.job] IN
        /\ r.status # "ABSENT"
        /\ x.attempt <= r.attempts + 1
        /\ r.status = "RUNNING" => x.attempt <= r.attempts

\* What runs of a candidate is the attempt the pass is about to start.
LiveIsNext ==
    Dispatching =>
        \A i \in DOMAIN work : \A o \in Active :
            o.job = work[i].job => o.attempt = work[i].attempts + 1

\* A verdict stays true of the attempt until it is written.
VerdictHolds ==
    pc = "judge" /\ observed # "active" =>
        LET a == work[1].attempts IN
        /\ \A o \in Labelled(Current, a) : o.phase # "active"
        /\ observed = "missing" => Labelled(Current, a) = {}
        /\ observed # "missing" => Executed(Current, a, observed)

ObjectInv == OneObject /\ FinishedRecorded /\ WithinCount

LiveInv == LiveWorkIsCurrent /\ SingleExecution /\ LiveIsNext /\ VerdictHolds

ClusterInv == ObjectInv /\ LiveInv

-----------------------------------------------------------------------------
(* What a step does to the cluster.                                        *)

Creates ==
    /\ pc = "create" /\ pc' \in {"mark", "reject"}
    /\ CreateObject(Current, NextAttempt)
    /\ UNCHANGED <<jobs, work, canceling>>

\* An object ends, is deleted or is collected.
Wanes ==
    /\ \E o \in objects : DeleteObject(o) \/ Finish(o) \/ Expire(o)
    /\ UNCHANGED <<jobs, work, canceling>>
    /\ UNCHANGED <<pc, observed>> \/ (pc = "delete" /\ pc' = "expire")

LEMMA StepCluster ==
    ASSUME [Next]_vars
    PROVE  UNCHANGED clusterVars \/ Creates \/ Wanes
<1>1. CASE SchedulerRuns
  <2>1. CASE CreateJobObject \/ CreateFails
    BY <1>1, <2>1 DEF SchedulerRuns, CreateJobObject, CreateFails, Creates,
       CreateObject, clusterVars, repoVars, localVars
  <2>2. CASE DeleteTimedOut
    BY <1>1, <2>2 DEF SchedulerRuns, DeleteTimedOut, Named, Wanes, clusterVars,
       repoVars, localVars
  <2>3. CASE SchedulerStep /\ ~CreateJobObject /\ ~CreateFails /\ ~DeleteTimedOut
    BY <2>3 DEF SchedulerStep, Dispatch, Reconcile, ListCandidates, EndDispatch,
       SkipOverQuota, Admit, FindExisting, BuildManifest, ManifestRaises, Dies,
       CreateConflicts, RejectJob, MarkRunning, SkipStateChanged, ScanRunning,
       Probe, TimesOut, FailMissing, Succeed, LeaveRunning, Requeue, FailForGood,
       Judges, NextRunning, ExpireJob, Restart
  <2>4. QED
    BY <1>1, <2>1, <2>2, <2>3 DEF SchedulerRuns
<1>2. CASE (\E j \in Jobs : ContainerEnds(j)) \/ TtlExpires
  BY <1>2 DEF ContainerEnds, TtlExpires, Wanes, repoVars, schedulerVars, localVars
<1>3. CASE API \/ SchedulerCrashes \/ ClockTicks \/ UNCHANGED vars
  BY <1>3 DEF API, SubmitJob, CancelRead, CancelWrite, SchedulerCrashes, Crash,
     Dies, ClockTicks, vars, systemVars
<1>4. QED
  BY <1>1, <1>2, <1>3 DEF Next

LEMMA ObjectTypes ==
    ASSUME TypeInv
    PROVE  /\ \A o \in objects : /\ o \in Object
                                 /\ o.job \in Jobs /\ o.attempt \in Nat
                                 /\ o.phase \in Phase
           /\ \A e \in ended : e.job \in Jobs /\ e.attempt \in Nat
           /\ \A j \in Jobs : jobs[j].attempts \in Nat
BY DEF TypeInv, SystemInv, ClusterTypeOK, Object, RepoTypeOK, IsTable, Row

\* When the cluster wanes, what remains was there, what runs ran, and what is
\* over was over or ran.
LEMMA WhatRemains ==
    ASSUME TypeInv, ObjectInv, Wanes
    PROVE  /\ \A p \in objects' : \E o \in objects :
                 /\ o.job = p.job /\ o.attempt = p.attempt
                 /\ p.phase = "active" => o = p
           /\ ended \subseteq ended'
           /\ \A e \in ended' \ ended :
                 \E o \in Active : o.job = e.job /\ o.attempt = e.attempt
           /\ OneObject'
           /\ FinishedRecorded'
<1>1. PICK o \in objects : DeleteObject(o) \/ Finish(o) \/ Expire(o)
  BY DEF Wanes
<1>2. o \in Object /\ o.job \in Jobs /\ o.attempt \in Nat
  BY ObjectTypes
<1>3. CASE DeleteObject(o)
  BY <1>2, <1>3 DEF DeleteObject, Active, ObjectInv, OneObject, FinishedRecorded, Executed
<1>4. CASE Finish(o)
  <2>1. PICK how \in Ends[o.job] :
          /\ objects' = (objects \ {o}) \cup {[o EXCEPT !.phase = how]}
          /\ ended' = ended \cup {[job |-> o.job, attempt |-> o.attempt, how |-> how]}
          /\ o.phase = "active"
    BY <1>4 DEF Finish
  <2>2. how \in {"succeeded", "failed"} /\ how # "active"
    BY <1>2, EndsAssumption
  <2>3. PICK q : q = [o EXCEPT !.phase = how]
    OBVIOUS
  <2>4. q.job = o.job /\ q.attempt = o.attempt /\ q.phase = how
    BY <1>2, <2>3 DEF Object
  <2>5. /\ objects' = (objects \ {o}) \cup {q}
        /\ \A p \in objects' : (p \in objects /\ p # o) \/ p = q
    BY <2>1, <2>3
  <2>6. OneObject'
    BY <2>4, <2>5 DEF ObjectInv, OneObject
  <2>7. FinishedRecorded'
    BY <2>1, <2>4, <2>5 DEF ObjectInv, FinishedRecorded, Executed
  <2>8. \A e \in ended' \ ended : o \in Active /\ o.job = e.job /\ o.attempt = e.attempt
    BY <2>1 DEF Active
  <2>9. \A p \in objects' : \E r \in objects :
          /\ r.job = p.job /\ r.attempt = p.attempt
          /\ p.phase = "active" => r = p
    BY <2>2, <2>4, <2>5
  <2>10. QED
    BY <2>1, <2>6, <2>7, <2>8, <2>9
<1>5. CASE Expire(o)
  BY <1>5 DEF Expire, ObjectInv, OneObject, FinishedRecorded, Executed
<1>6. QED
  BY <1>1, <1>3, <1>4, <1>5

LEMMA ClusterInvWanes ==
    ASSUME TypeInv, ClusterInv, Wanes
    PROVE  ClusterInv'
<1>1. ObjectInv
  BY DEF ClusterInv
<1>2. WithinCount'
  <2>1. \A x \in objects' \cup ended' : \E y \in objects \cup ended :
          x.job = y.job /\ x.attempt = y.attempt
    BY <1>1, WhatRemains DEF Active
  <2>2. QED
    BY <1>1, <2>1 DEF ObjectInv, WithinCount, Wanes
<1>3. Active' \subseteq Active
  BY <1>1, WhatRemains DEF Active
<1>4. LiveWorkIsCurrent' /\ SingleExecution' /\ LiveIsNext'
  BY <1>3 DEF ClusterInv, LiveInv, LiveWorkIsCurrent, SingleExecution, LiveIsNext,
     Dispatching, Wanes
<1>5. VerdictHolds'
  <2>1. ASSUME pc = "judge", UNCHANGED <<pc, observed, work>> PROVE VerdictHolds'
    <3>1. ended \subseteq ended'
      BY <1>1, WhatRemains
    <3>2. \A p \in objects' : \E o \in objects :
            /\ o.job = p.job /\ o.attempt = p.attempt
            /\ p.phase = "active" => o = p
      BY <1>1, WhatRemains
    <3>3. QED
      BY <2>1, <3>1, <3>2 DEF ClusterInv, LiveInv, VerdictHolds, Labelled, Current, Executed
  <2>2. QED
    BY <2>1 DEF Wanes, VerdictHolds
<1>6. QED
  BY <1>1, <1>2, <1>4, <1>5, WhatRemains DEF ClusterInv, ObjectInv, LiveInv

\* The object of the next attempt is the only one its job has running.
LEMMA ClusterInvCreates ==
    ASSUME TypeInv, HistoryInv, ClusterInv, Creates
    PROVE  ClusterInv'
<1>1. PICK j \in Jobs, a \in Nat :
        /\ j = Current /\ a = work[1].attempts + 1
        /\ Waiting(work[1]) /\ 1 \in DOMAIN work
  <2>1. HasCurrent /\ Dispatching
    BY DEF Creates, HasCurrent, Dispatching
  <2>2. work # <<>> /\ work \in Seq(Snapshot)
    BY <2>1, CurrentIsJob, WorkTypes
  <2>3. 1 \in DOMAIN work
    BY <2>2, EmptySeq
  <2>4. QED
    BY <2>1, <2>3, HeadOfPass, WorkTypes DEF HistoryInv
<1>2. PICK n : n = [job |-> j, attempt |-> a, phase |-> "active"]
  OBVIOUS
<1>3. /\ objects' = objects \cup {n} /\ UNCHANGED <<ended, jobs, work>>
      /\ n.job = j /\ n.attempt = a /\ n.phase = "active"
      /\ \A o \in objects : ~(o.job = j /\ o.attempt = a)
  BY <1>1, <1>2 DEF Creates, CreateObject, NameTaken, Named, Current, NextAttempt
<1>4. /\ jobs[j].status \in {"QUEUED", "CANCELED"}
      /\ jobs[j].attempts + 1 = a
  BY <1>1 DEF Waiting, Current
<1>5. \A o \in Active : o.job = j => o.attempt = a
  BY <1>1 DEF ClusterInv, LiveInv, LiveIsNext, Dispatching, Creates, Current
<1>6. ObjectInv'
  <2>1. OneObject' /\ FinishedRecorded'
    BY <1>3 DEF ClusterInv, ObjectInv, OneObject, FinishedRecorded, Executed
  <2>2. WithinCount'
    BY <1>3, <1>4 DEF ClusterInv, ObjectInv, WithinCount
  <2>3. QED
    BY <2>1, <2>2 DEF ObjectInv
<1>7. Active' = Active \cup {n}
  BY <1>3 DEF Active
<1>8. SingleExecution'
  BY <1>3, <1>5, <1>7 DEF ClusterInv, LiveInv, SingleExecution, Active
<1>9. LiveWorkIsCurrent'
  BY <1>3, <1>4, <1>7 DEF ClusterInv, LiveInv, LiveWorkIsCurrent
<1>10. LiveIsNext'
  <2>1. ASSUME NEW i \in DOMAIN work, work[i].job = j
        PROVE  work[i].attempts + 1 = a
    BY <1>1, <2>1 DEF HistoryInv, PassInv, OneEach, Current
  <2>2. QED
    BY <1>3, <1>7, <2>1 DEF ClusterInv, LiveInv, LiveIsNext, Dispatching, Creates
<1>11. VerdictHolds'
  BY DEF Creates, VerdictHolds
<1>12. QED
  BY <1>6, <1>8, <1>9, <1>10, <1>11 DEF ClusterInv, LiveInv

\* While the cluster stands still, what depends on it alone is kept.
LEMMA ObjectsStand ==
    ASSUME ClusterInv, UNCHANGED clusterVars
    PROVE  OneObject' /\ FinishedRecorded' /\ SingleExecution' /\ Active' = Active
BY DEF ClusterInv, ObjectInv, LiveInv, OneObject, FinishedRecorded, SingleExecution,
   Active, Executed, clusterVars

\* Statements about one row keep the count above what was created and what
\* runs accounted for.
LEMMA ClusterTableInserted ==
    ASSUME TypeInv, ClusterInv, UNCHANGED clusterVars, NEW j \in Jobs, Inserted(j)
    PROVE  WithinCount' /\ LiveWorkIsCurrent'
<1>1. \A x \in objects \cup ended : x.job \in Jobs /\ x.job # j
  BY ObjectTypes DEF ClusterInv, ObjectInv, WithinCount, Inserted
<1>2. \A x \in objects \cup ended : jobs'[x.job] = jobs[x.job]
  BY <1>1 DEF Inserted, Only
<1>3. QED
  BY <1>2 DEF ClusterInv, ObjectInv, LiveInv, WithinCount, LiveWorkIsCurrent, Active,
     clusterVars

LEMMA ClusterTableOverwritten ==
    ASSUME TypeInv, ClusterInv, UNCHANGED clusterVars, NEW j \in Jobs,
           \/ Overwritten(j, "CANCELED", Null)
           \/ /\ Overwritten(j, "FAILED", "create_failed")
              /\ \A o \in Active : o.job = j => o.attempt = jobs[j].attempts + 1
    PROVE  WithinCount' /\ LiveWorkIsCurrent'
<1>1. /\ \A x \in objects \cup ended : x.job \in Jobs
      /\ \A k \in Jobs : k # j => jobs'[k] = jobs[k]
  BY ObjectTypes DEF Overwritten, Only
<1>2. WithinCount'
  BY <1>1 DEF ClusterInv, ObjectInv, WithinCount, Overwritten, clusterVars
<1>3. ASSUME NEW o \in Active
      PROVE  LET r == jobs'[o.job] IN
             \/ r.status = "RUNNING" /\ o.attempt = r.attempts
             \/ r.status = "QUEUED" /\ o.attempt = r.attempts + 1
             \/ r.status = "CANCELED" /\ o.attempt \in {r.attempts, r.attempts + 1}
             \/ /\ r.status = "FAILED"
                /\ r.last_error = "create_failed" /\ o.attempt = r.attempts + 1
             \/ /\ r.status = "FAILED"
                /\ r.last_error = "timeout" /\ o.attempt = r.attempts
  <2>1. CASE o.job # j
    BY <1>1, <2>1 DEF ClusterInv, LiveInv, LiveWorkIsCurrent, Active
  <2>2. CASE o.job = j
    BY <2>2 DEF ClusterInv, LiveInv, LiveWorkIsCurrent, Overwritten
  <2>3. QED
    BY <2>1, <2>2
<1>4. QED
  BY <1>2, <1>3, ObjectsStand DEF LiveWorkIsCurrent

LEMMA ClusterTableBegun ==
    ASSUME TypeInv, ClusterInv, UNCHANGED clusterVars, NEW j \in Jobs, Begun(j)
    PROVE  WithinCount' /\ LiveWorkIsCurrent'
<1>1. /\ \A x \in objects \cup ended : x.job \in Jobs /\ x.attempt \in Nat
      /\ \A k \in Jobs : k # j => jobs'[k] = jobs[k]
      /\ jobs[j].attempts \in Nat /\ jobs'[j].attempts = jobs[j].attempts + 1
  BY ObjectTypes DEF Begun, Only
<1>2. WithinCount'
  <2>1. ASSUME NEW x \in objects \cup ended, x.job = j
        PROVE  x.attempt <= jobs'[j].attempts /\ x.attempt <= jobs'[j].attempts + 1
    <3>1. x.attempt <= jobs[j].attempts + 1
      BY <2>1 DEF ClusterInv, ObjectInv, WithinCount
    <3>2. QED
      BY <1>1, <3>1
  <2>2. QED
    BY <1>1, <2>1 DEF ClusterInv, ObjectInv, WithinCount, Begun, clusterVars
<1>3. \A o \in Active : o.job = j => o.attempt = jobs[j].attempts + 1
  BY DEF ClusterInv, LiveInv, LiveWorkIsCurrent, Begun
<1>4. LiveWorkIsCurrent'
  BY <1>1, <1>3, ObjectsStand DEF ClusterInv, LiveInv, LiveWorkIsCurrent, Begun, Active
<1>5. QED
  BY <1>2, <1>4

LEMMA ClusterTableLeft ==
    ASSUME TypeInv, ClusterInv, UNCHANGED clusterVars, NEW j \in Jobs,
           NEW s \in {"QUEUED", "SUCCEEDED", "FAILED"}, NEW e, Left(j, s, e),
           \/ s = "FAILED" /\ e = "timeout"
           \/ \A o \in Active : ~(o.job = j /\ o.attempt = jobs[j].attempts)
    PROVE  WithinCount' /\ LiveWorkIsCurrent'
<1>1. /\ \A x \in objects \cup ended : x.job \in Jobs /\ x.attempt \in Nat
      /\ \A k \in Jobs : k # j => jobs'[k] = jobs[k]
      /\ jobs[j].attempts \in Nat
  BY ObjectTypes DEF Left, Only
<1>2. WithinCount'
  BY <1>1 DEF ClusterInv, ObjectInv, WithinCount, Left, clusterVars
<1>3. \A o \in Active : o.job = j => o.attempt = jobs[j].attempts
  BY DEF ClusterInv, LiveInv, LiveWorkIsCurrent, Left
<1>4. LiveWorkIsCurrent'
  BY <1>1, <1>3, ObjectsStand DEF ClusterInv, LiveInv, LiveWorkIsCurrent, Left, Active
<1>5. QED
  BY <1>2, <1>4

-----------------------------------------------------------------------------
(* ClusterInv is inductive.                                                *)

\* What the scan found is all there is of the attempt.
LEMMA VerdictAtProbe ==
    ASSUME TypeInv, ClusterInv, Probe
    PROVE  VerdictHolds'
<1> DEFINE found == Labelled(Current, work[1].attempts)
<1>1. \/ found = {} /\ observed' = "missing"
      \/ \E o \in found : observed' = o.phase
  BY DEF Probe
<1>2. UNCHANGED <<objects, ended, work>>
  BY DEF Probe, clusterVars
<1>3. ASSUME NEW o \in found, o.phase # "active"
      PROVE  /\ \A p \in found : p = o
             /\ Executed(Current, work[1].attempts, o.phase)
             /\ o.phase # "missing"
  BY <1>3, ObjectTypes DEF ClusterInv, ObjectInv, OneObject, FinishedRecorded,
     Labelled, Phase
<1>4. CASE found = {} /\ observed' = "missing"
  BY <1>2, <1>4 DEF VerdictHolds, Labelled, Current
<1>5. ASSUME NEW o \in found, observed' = o.phase PROVE VerdictHolds'
  BY <1>2, <1>3, <1>5 DEF VerdictHolds, Labelled, Current, Executed
<1>6. QED
  BY <1>1, <1>4, <1>5

\* A new pass lists jobs that are QUEUED.
LEMMA CandidatesQueued ==
    ASSUME TypeInv, ListCandidates
    PROVE  \A i \in DOMAIN work' : work'[i].job \in Dispatchable
<1>1. PICK page \in Pages, order \in Pages :
        /\ ListDispatchableJobs(page, CandidateLimit)
        /\ IsRoundRobin(order, page, cursor)
        /\ work' = Snapshots(order)
  BY DEF ListCandidates
<1>2. /\ {order[i] : i \in DOMAIN order} \subseteq Dispatchable
      /\ Cardinality({order[i] : i \in DOMAIN order}) = Len(order)
  BY <1>1 DEF ListDispatchableJobs, IsPage, IsRoundRobin
<1>3. QED
  BY <1>1, <1>2, SnapshotsOfPage DEF TypeInv, SystemInv

\* The candidates of a new pass have nothing running but their next attempt.
LEMMA NextAtList ==
    ASSUME TypeInv, ClusterInv, ListCandidates, PassInv'
    PROVE  LiveIsNext'
<1>1. UNCHANGED <<jobs, objects>> /\ Dispatching'
  BY DEF ListCandidates, repoVars, clusterVars, Dispatching
<1>2. ASSUME NEW i \in DOMAIN work', NEW o \in Active, o.job = work'[i].job
      PROVE  o.attempt = work'[i].attempts + 1
  <2>1. jobs[o.job].status = "QUEUED"
    BY <1>2, CandidatesQueued DEF Dispatchable, HasStatus
  <2>2. jobs[o.job].attempts = work'[i].attempts
    BY <1>1, <1>2 DEF PassInv, Waiting
  <2>3. QED
    BY <2>1, <2>2 DEF ClusterInv, LiveInv, LiveWorkIsCurrent
<1>3. QED
  BY <1>1, <1>2 DEF LiveIsNext, Active

\* How far the pass is after a step with the cluster standing.
LEMMA PassMoves ==
    ASSUME TypeInv, [Next]_vars
    PROVE  \/ ListCandidates \/ Probe
           \/ /\ work' = work \/ (work # <<>> /\ work' = Tail(work))
              /\ Dispatching' => Dispatching
              /\ pc' = "judge" => UNCHANGED <<pc, work, observed>>
           \/ ~Dispatching' /\ pc' # "judge"
<1>1. CASE SchedulerRuns
  <2>1. CASE SkipOverQuota \/ SkipStateChanged \/ RejectJob \/ MarkRunning
    BY <2>1, CurrentIsJob DEF SkipOverQuota, Picks, SkipStateChanged, RejectJob,
       MarkRunning, HasCurrent, Dispatching
  <2>2. CASE Verdict
    BY <2>2, VerdictLeaves DEF NextRunning, Dispatching
  <2>3. CASE \/ Admit \/ FindExisting \/ BuildManifest \/ CreateJobObject
             \/ CreateConflicts \/ CreateFails
    BY <2>3 DEF Admit, Picks, FindExisting, BuildManifest, CreateJobObject,
       CreateConflicts, CreateFails, localVars, Dispatching
  <2>4. CASE \/ EndDispatch \/ ManifestRaises \/ ScanRunning \/ TimesOut
             \/ DeleteTimedOut \/ Restart
    BY <2>4 DEF EndDispatch, ManifestRaises, Dies, ScanRunning, TimesOut,
       DeleteTimedOut, Restart, Dispatching
  <2>5. QED
    BY <1>1, <2>1, <2>2, <2>3, <2>4 DEF SchedulerRuns, SchedulerStep, Dispatch,
       Reconcile, Verdict
<1>2. CASE SchedulerCrashes
  BY <1>2 DEF SchedulerCrashes, Crash, Dies, Dispatching
<1>3. CASE UNCHANGED <<pc, work, observed>>
  BY <1>3 DEF Dispatching
<1>4. QED
  BY <1>1, <1>2, <1>3 DEF Next, API, SubmitJob, CancelRead, CancelWrite,
     ContainerEnds, TtlExpires, ClockTicks, vars, systemVars, schedulerVars, localVars

LEMMA PassKeepsLive ==
    ASSUME TypeInv, HistoryInv, PassInv', ClusterInv, [Next]_vars, UNCHANGED clusterVars
    PROVE  LiveIsNext' /\ VerdictHolds'
<1>1. CASE ListCandidates
  BY <1>1, NextAtList DEF VerdictHolds, ListCandidates
<1>2. CASE Probe
  BY <1>2, VerdictAtProbe DEF LiveIsNext, Probe, Dispatching
<1>3. CASE /\ work' = work \/ (work # <<>> /\ work' = Tail(work))
           /\ Dispatching' => Dispatching
           /\ pc' = "judge" => UNCHANGED <<pc, work, observed>>
  <2>1. \A i \in DOMAIN work' : \E k \in DOMAIN work : work'[i] = work[k]
    BY <1>3, WorkTypes, TailElements DEF HistoryInv, PassInv, OneEach
  <2>2. LiveIsNext'
    BY <1>3, <2>1, ObjectsStand DEF ClusterInv, LiveInv, LiveIsNext
  <2>3. VerdictHolds'
    BY <1>3 DEF ClusterInv, LiveInv, VerdictHolds, Labelled, Current, Executed, clusterVars
  <2>4. QED
    BY <2>2, <2>3
<1>4. CASE ~Dispatching' /\ pc' # "judge"
  BY <1>4 DEF LiveIsNext, VerdictHolds
<1>5. QED
  BY <1>1, <1>2, <1>3, <1>4, PassMoves

LEMMA TableKeepsLive ==
    ASSUME TypeInv, HistoryInv, ClusterInv, [Next]_vars, UNCHANGED clusterVars
    PROVE  WithinCount' /\ LiveWorkIsCurrent'
<1>1. CASE UNCHANGED jobs
  BY <1>1 DEF ClusterInv, ObjectInv, LiveInv, WithinCount, LiveWorkIsCurrent, Active,
     clusterVars
<1>2. ASSUME NEW j \in Jobs, SubmitJob(j) PROVE WithinCount' /\ LiveWorkIsCurrent'
  BY <1>2, SubmitInserts, ClusterTableInserted
<1>3. ASSUME NEW h \in CancelHandlers, CancelWrite(h)
      PROVE  WithinCount' /\ LiveWorkIsCurrent'
  BY <1>3, CancelOverwrites, ClusterTableOverwritten
<1>4. CASE RejectJob
  <2>1. PICK j \in Jobs : j = Current /\ Waiting(work[1])
    BY <1>4, HeadOfPass DEF RejectJob, HasCurrent, Dispatching, HistoryInv
  <2>2. work # <<>> /\ 1 \in DOMAIN work
    BY <1>4, CurrentIsJob, WorkTypes, EmptySeq DEF RejectJob, HasCurrent
  <2>3. \A o \in Active : o.job = j => o.attempt = jobs[j].attempts + 1
    BY <1>4, <2>1, <2>2 DEF RejectJob, Dispatching, ClusterInv, LiveInv, LiveIsNext,
       Waiting, Current
  <2>4. QED
    BY <1>4, <2>1, <2>3, RejectOverwrites, ClusterTableOverwritten
<1>5. CASE MarkRunning
  BY <1>5, MarkBegins, CurrentIsJob, ClusterTableBegun DEF MarkRunning, HasCurrent
<1>6. CASE Verdict /\ ~UNCHANGED jobs
  <2>1. PICK j \in Jobs, s \in {"QUEUED", "SUCCEEDED", "FAILED"}, e \in Errors \cup {Null} :
          j = Current /\ Watched(work[1]) /\ Left(j, s, e) /\ Closing(s, e)
    BY <1>6, VerdictLeaves, HeadOfPass DEF HistoryInv
  <2>2. CASE ExpireJob /\ s = "FAILED" /\ e = "timeout"
    BY <2>1, <2>2, ClusterTableLeft
  <2>3. CASE pc = "judge" /\ observed # "active"
    <3>1. \A o \in Active : ~(o.job = j /\ o.attempt = jobs[j].attempts)
      BY <2>1, <2>3 DEF ClusterInv, LiveInv, VerdictHolds, Watched, Current, Labelled,
         Active
    <3>2. QED
      BY <2>1, <3>1, ClusterTableLeft
  <2>4. QED
    BY <2>1, <2>2, <2>3 DEF Closing, FailMissing, Succeed, FailForGood, Requeue, Judges
<1>7. QED
  BY <1>1, <1>2, <1>3, <1>4, <1>5, <1>6, TableKept

LEMMA ClusterInvStep ==
    ASSUME TypeInv, HistoryInv, HistoryInv', ClusterInv, [Next]_vars
    PROVE  ClusterInv'
<1>1. CASE UNCHANGED clusterVars
  BY <1>1, ObjectsStand, TableKeepsLive, PassKeepsLive
     DEF ClusterInv, ObjectInv, LiveInv, HistoryInv
<1>2. QED
  BY <1>1, StepCluster, ClusterInvCreates, ClusterInvWanes

LEMMA ClusterInvInit == Init => ClusterInv
BY DEF Init, ClusterInit, SchedulerInit, ClusterInv, ObjectInv, LiveInv, OneObject,
   FinishedRecorded, WithinCount, LiveWorkIsCurrent, SingleExecution, LiveIsNext,
   Dispatching, VerdictHolds, Active

LEMMA ClusterInvAlways == Spec => []ClusterInv
<1>1. TypeInv /\ HistoryInv /\ HistoryInv' /\ ClusterInv /\ [Next]_vars => ClusterInv'
  BY ClusterInvStep
<1>2. QED
  BY <1>1, ClusterInvInit, TypeInvAlways, HistoryInvAlways, PTL DEF Spec

\* Two attempts of one job never run at once: a pass creates nothing for a
\* job that has something running but under the very same name, also after a
\* crash between create and mark_job_running.
THEOREM ExecutesAlone == Spec => []SingleExecution
<1>1. ClusterInv => SingleExecution
  BY DEF ClusterInv, LiveInv
<1>2. QED
  BY <1>1, ClusterInvAlways, PTL

\* Every running container is accounted for by its row, wherever a crash, a
\* cancel, a failed call or the end of a container falls.
THEOREM LiveWorkAccounted == Spec => []LiveWorkIsCurrent
<1>1. ClusterInv => LiveWorkIsCurrent
  BY DEF ClusterInv, LiveInv
<1>2. QED
  BY <1>1, ClusterInvAlways, PTL
=============================================================================
