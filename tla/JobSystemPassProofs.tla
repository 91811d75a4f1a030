------------------------ MODULE JobSystemPassProofs -------------------------
(***************************************************************************)
(* The snapshots of a pass against the table.  A pass reads rows once and  *)
(* uses them after many later calls; PassInv says what of a snapshot is    *)
(* still true of its row.  The retry budget, the backoff and the           *)
(* refinement of JobLifecycle follow from it.                              *)
(***************************************************************************)
EXTENDS JobSystemProofs, SequenceTheorems

Dispatching == pc \in {"pick", "ensure", "create", "reject", "mark"}

Reconciling == pc \in {"probe", "judge", "delete", "expire"}

\* A pass lists a job once.
OneEach == \A i, k \in DOMAIN work : work[i].job = work[k].job => i = k

IdleEmpty == ~Dispatching /\ ~Reconciling => work = <<>>

\* A candidate is QUEUED, with the attempts and the backoff it was listed
\* with, unless a cancel came between.
Waiting(s) ==
    LET r == jobs[s.job] IN
    /\ r.status \in {"QUEUED", "CANCELED"}
    /\ r.attempts = s.attempts
    /\ r.next_retry_at \in Times
    /\ r.next_retry_at <= now

\* A listed RUNNING row is still the same attempt, unless an overtaken cancel
\* came between.
Watched(s) ==
    LET r == jobs[s.job] IN
    /\ r.status \in {"RUNNING", "CANCELED"}
    /\ r.attempts = s.attempts
    /\ r.started_at = s.started_at

PassInv ==
    /\ OneEach
    /\ IdleEmpty
    /\ Dispatching => \A i \in DOMAIN work : Waiting(work[i])
    /\ Reconciling => \A i \in DOMAIN work : Watched(work[i])

\* What every row satisfies: a QUEUED row is fresh or has a retry left.
RowSound(j) ==
    LET r == jobs[j] IN
    /\ r.status = "ABSENT" => r.attempts = 0
    /\ r.status = "QUEUED" => r.attempts = 0 \/ r.attempts < MaxRetries[j]
    /\ r.attempts <= 1 \/ r.attempts <= MaxRetries[j]
    /\ r.status = "RUNNING" =>
          /\ r.started_at \in Times
          /\ r.next_retry_at \in Times
          /\ r.next_retry_at <= r.started_at

RowsSound == \A j \in Jobs : RowSound(j)

HistoryInv == PassInv /\ RowsSound

-----------------------------------------------------------------------------
(* What a statement does to the columns of the rows.                       *)

Only(j) == \A k \in Jobs : k # j => jobs'[k] = jobs[k]

Inserted(j) ==
    /\ Only(j)
    /\ jobs[j].status = "ABSENT"
    /\ jobs'[j].status = "QUEUED"
    /\ jobs'[j].attempts = 0
    /\ jobs'[j].last_error = Null

Overwritten(j, s, e) ==
    /\ Only(j)
    /\ jobs'[j].status = s
    /\ jobs'[j].last_error = e
    /\ jobs'[j].attempts = jobs[j].attempts
    /\ jobs'[j].next_retry_at = jobs[j].next_retry_at
    /\ jobs'[j].started_at = jobs[j].started_at

Begun(j) ==
    /\ Only(j)
    /\ jobs[j].status = "QUEUED"
    /\ jobs'[j].status = "RUNNING"
    /\ jobs'[j].attempts = jobs[j].attempts + 1
    /\ jobs'[j].next_retry_at = jobs[j].next_retry_at
    /\ jobs'[j].started_at = now

\* A RUNNING row leaves RUNNING and keeps its attempts.
Left(j, s, e) ==
    /\ Only(j)
    /\ jobs[j].status = "RUNNING"
    /\ jobs'[j].status = s
    /\ jobs'[j].last_error = e
    /\ jobs'[j].attempts = jobs[j].attempts

LEMMA CurrentIsJob ==
    ASSUME TypeInv, HasCurrent
    PROVE  work # <<>> /\ Current \in Jobs
BY CurrentType DEF TypeInv, SystemInv, ProcessInv, CurrentExists

LEMMA SubmitInserts ==
    ASSUME TypeInv, NEW j \in Jobs, SubmitJob(j)
    PROVE  Inserted(j)
<1>1. jobs \in [Jobs -> Row]
  BY DEF TypeInv, SystemInv, RepoTypeOK, IsTable
<1>2. QED
  BY <1>1 DEF SubmitJob, CreateJob, NoRow, Inserted, Only

LEMMA CancelOverwrites ==
    ASSUME TypeInv, NEW h \in CancelHandlers, CancelWrite(h)
    PROVE  canceling[h] \in Jobs /\ Overwritten(canceling[h], "CANCELED", Null)
<1>1. jobs \in [Jobs -> Row] /\ canceling[h] \in Jobs
  BY DEF TypeInv, SystemInv, RepoTypeOK, IsTable, CancelTypeOK, CancelWrite
<1>2. QED
  BY <1>1 DEF CancelWrite, UpdateJobStatusForTenant, UpdateJobStatus, Overwritten,
     Only, Row

LEMMA RejectOverwrites ==
    ASSUME TypeInv, RejectJob
    PROVE  Overwritten(Current, "FAILED", "create_failed")
<1>1. jobs \in [Jobs -> Row] /\ Current \in Jobs
  BY CurrentIsJob DEF RejectJob, HasCurrent, TypeInv, SystemInv, RepoTypeOK, IsTable
<1>2. QED
  BY <1>1 DEF RejectJob, UpdateJobStatus, Overwritten, Only, Row

LEMMA MarkBegins ==
    ASSUME TypeInv, MarkRunning
    PROVE  Begun(Current)
<1>1. jobs \in [Jobs -> Row] /\ Current \in Jobs
  BY CurrentIsJob DEF MarkRunning, HasCurrent, TypeInv, SystemInv, RepoTypeOK, IsTable
<1>2. QED
  BY <1>1 DEF MarkRunning, MarksRunning, MarkJobRunning, Begun, Only, Row

LEMMA StatementLeaves ==
    ASSUME TypeInv, NEW j \in Jobs, NEW s, NEW e, NEW t
    PROVE  /\ jobs' = MarkJobTerminal(j, s, e) => UNCHANGED jobs \/ Left(j, s, e)
           /\ jobs' = MarkJobForRetry(j, e, t) => UNCHANGED jobs \/ Left(j, "QUEUED", e)
<1>1. jobs \in [Jobs -> Row]
  BY DEF TypeInv, SystemInv, RepoTypeOK, IsTable
<1>2. QED
  BY <1>1 DEF MarkJobTerminal, MarkJobForRetry, MarksFromRunning, Left, Only, Row

\* What the end of a RUNNING row's pass writes, and why.
Closing(s, e) ==
    \/ FailMissing /\ s = "FAILED" /\ e = "missing"
    \/ Succeed /\ s = "SUCCEEDED" /\ e = Null
    \/ FailForGood /\ s = "FAILED" /\ e = "job_failed"
    \/ ExpireJob /\ s = "FAILED" /\ e = "timeout"
    \/ Requeue /\ s = "QUEUED" /\ e = "job_failed"

LEMMA VerdictLeaves ==
    ASSUME TypeInv, Verdict
    PROVE  /\ HasCurrent /\ Reconciling /\ NextRunning
           /\ \/ UNCHANGED jobs
              \/ \E s \in {"QUEUED", "SUCCEEDED", "FAILED"}, e \in Errors \cup {Null} :
                    Left(Current, s, e) /\ Closing(s, e)
<1>1. HasCurrent /\ Reconciling /\ NextRunning
  BY DEF Verdict, FailMissing, Succeed, LeaveRunning, Requeue, FailForGood,
     ExpireJob, Judges, HasCurrent, Reconciling
<1>2. Current \in Jobs
  BY <1>1, CurrentIsJob
<1>3. CASE LeaveRunning
  BY <1>1, <1>3 DEF LeaveRunning
<1>4. CASE Requeue
  <2>1. UNCHANGED jobs \/ Left(Current, "QUEUED", "job_failed")
    BY <1>2, <1>4, StatementLeaves DEF Requeue
  <2>2. QED
    BY <1>1, <1>4, <2>1 DEF Closing, Errors
<1>5. CASE FailMissing
  <2>1. UNCHANGED jobs \/ Left(Current, "FAILED", "missing")
    BY <1>2, <1>5, StatementLeaves DEF FailMissing
  <2>2. QED
    BY <1>1, <1>5, <2>1 DEF Closing, Errors
<1>6. CASE Succeed
  <2>1. UNCHANGED jobs \/ Left(Current, "SUCCEEDED", Null)
    BY <1>2, <1>6, StatementLeaves DEF Succeed
  <2>2. QED
    BY <1>1, <1>6, <2>1 DEF Closing
<1>7. CASE FailForGood
  <2>1. UNCHANGED jobs \/ Left(Current, "FAILED", "job_failed")
    BY <1>2, <1>7, StatementLeaves DEF FailForGood
  <2>2. QED
    BY <1>1, <1>7, <2>1 DEF Closing, Errors
<1>8. CASE ExpireJob
  <2>1. UNCHANGED jobs \/ Left(Current, "FAILED", "timeout")
    BY <1>2, <1>8, StatementLeaves DEF ExpireJob
  <2>2. QED
    BY <1>1, <1>8, <2>1 DEF Closing, Errors
<1>9. QED
  BY <1>3, <1>4, <1>5, <1>6, <1>7, <1>8 DEF Verdict

\* The steps that leave the table alone.
LEMMA TableKept ==
    ASSUME [Next]_vars
    PROVE  \/ UNCHANGED jobs
           \/ \E j \in Jobs : SubmitJob(j)
           \/ \E h \in CancelHandlers : CancelWrite(h)
           \/ RejectJob \/ MarkRunning \/ Verdict
<1>1. CASE SchedulerStep
  BY <1>1 DEF SchedulerStep, Dispatch, Reconcile, Verdict, ListCandidates,
     EndDispatch, SkipOverQuota, Admit, FindExisting, BuildManifest, ManifestRaises,
     Dies, CreateJobObject, CreateConflicts, CreateFails, SkipStateChanged,
     ScanRunning, Probe, TimesOut, DeleteTimedOut, Restart, repoVars
<1>2. CASE \/ SchedulerCrashes \/ \E j \in Jobs : ContainerEnds(j)
           \/ TtlExpires \/ ClockTicks \/ UNCHANGED vars
           \/ \E h \in CancelHandlers, j \in Jobs : CancelRead(h, j)
  BY <1>2 DEF SchedulerCrashes, Crash, Dies, ContainerEnds, TtlExpires, CancelRead,
     ClockTicks, Tick, vars, systemVars, repoVars
<1>3. QED
  BY <1>1, <1>2 DEF Next, SchedulerRuns, API

-----------------------------------------------------------------------------
(* Lists without repetition.                                               *)

\* As many values as positions: no value twice.
LEMMA DistinctElements ==
    ASSUME NEW S, NEW n \in Nat, NEW f \in [1..n -> S],
           Cardinality({f[i] : i \in 1..n}) = n
    PROVE  \A i, k \in 1..n : f[i] = f[k] => i = k
<1> DEFINE T == {f[i] : i \in 1..n}
<1>1. f \in Surjection(1..n, T)
  BY DEF Surjection
<1>2. IsFiniteSet(1..n) /\ Cardinality(1..n) = n
  BY FS_Interval
<1>3. f \in Injection(1..n, T)
  BY <1>1, <1>2, FS_SurjSameCardinalityImpliesInj
<1>4. QED
  BY <1>3 DEF Injection, IsInjective

\* The snapshots of a page without repetition: of its rows, each once.
LEMMA SnapshotsOfPage ==
    ASSUME RepoTypeOK, NEW page \in Pages, NEW rows,
           {page[i] : i \in DOMAIN page} \subseteq rows,
           Cardinality({page[i] : i \in DOMAIN page}) = Len(page)
    PROVE  LET w == Snapshots(page) IN
           /\ \A i, k \in DOMAIN w : w[i].job = w[k].job => i = k
           /\ \A i \in DOMAIN w : w[i].job \in rows \cap Jobs /\ w[i] = SnapshotOf(w[i].job)
<1>1. PICK n \in Nat : page \in [1..n -> Jobs]
  BY JobsCountable DEF Pages, SeqOf
<1>2. DOMAIN page = 1..n /\ Len(page) = n
  BY <1>1
<1>3. \A i, k \in 1..n : page[i] = page[k] => i = k
  <2>1. Cardinality({page[i] : i \in 1..n}) = n
    BY <1>2
  <2>2. QED
    BY <1>1, <2>1, DistinctElements
<1>4. /\ DOMAIN Snapshots(page) = 1..n
      /\ \A i \in 1..n : Snapshots(page)[i] = SnapshotOf(page[i])
  BY <1>2 DEF Snapshots
<1>5. \A i \in 1..n : SnapshotOf(page[i]).job = page[i]
  BY DEF SnapshotOf
<1>6. QED
  BY <1>1, <1>2, <1>3, <1>4, <1>5

\* What is left after the head.
LEMMA TailElements ==
    ASSUME NEW s \in Seq(Snapshot), s # <<>>,
           \A i, k \in DOMAIN s : s[i].job = s[k].job => i = k
    PROVE  /\ \A i \in DOMAIN Tail(s) : /\ i + 1 \in DOMAIN s
                                        /\ Tail(s)[i] = s[i + 1]
                                        /\ Tail(s)[i].job # s[1].job
           /\ \A i, k \in DOMAIN Tail(s) : Tail(s)[i].job = Tail(s)[k].job => i = k
<1>1. Len(s) \in Nat /\ Len(s) # 0 /\ DOMAIN s = 1..Len(s)
  OBVIOUS
<1>2. Tail(s) \in Seq(Snapshot) /\ Len(Tail(s)) = Len(s) - 1
  OBVIOUS
<1>3. DOMAIN Tail(s) = 1..(Len(s) - 1)
  BY <1>2
<1>4. \A i \in 1..(Len(s) - 1) : Tail(s)[i] = s[i + 1] /\ i + 1 \in 1..Len(s)
  BY <1>1
<1>5. 1 \in 1..Len(s) /\ \A i \in 1..(Len(s) - 1) : i + 1 # 1
  BY <1>1
<1>6. QED
  BY <1>1, <1>3, <1>4, <1>5

LEMMA LastTail ==
    ASSUME NEW s \in Seq(Snapshot), Len(s) = 1
    PROVE  Tail(s) = <<>>
<1>1. s # <<>>
  BY EmptySeq
<1>2. Tail(s) \in Seq(Snapshot) /\ Len(Tail(s)) = 0
  BY <1>1
<1>3. QED
  BY <1>2, EmptySeq

-----------------------------------------------------------------------------
(* PassInv is inductive.                                                   *)

LEMMA WorkTypes ==
    ASSUME TypeInv
    PROVE  /\ work \in Seq(Snapshot)
           /\ \A i \in DOMAIN work : /\ work[i].job \in Jobs
                                     /\ work[i].attempts \in Nat
<1>1. work \in Seq(Snapshot)
  BY DEF TypeInv, SystemInv, ProcessInv, SchedulerTypeOK
<1>2. \A i \in 1..Len(work) : work[i] \in Snapshot
  BY <1>1
<1>3. DOMAIN work = 1..Len(work)
  BY <1>1
<1>4. QED
  BY <1>1, <1>2, <1>3 DEF Snapshot

\* A step that leaves table and snapshots alone, within the pass.
LEMMA PassUntouched ==
    ASSUME TypeInv, TypeInv', PassInv, UNCHANGED <<jobs, work>>, now <= now',
           Dispatching' <=> Dispatching, Reconciling' <=> Reconciling
    PROVE  PassInv'
BY DEF PassInv, OneEach, IdleEmpty, Waiting, Watched, TypeInv, SystemInv, RepoTypeOK, Times

\* The head of the pass is dealt with and no other row changed.
LEMMA PassAdvances ==
    ASSUME TypeInv, PassInv, work # <<>>, work' = Tail(work), UNCHANGED now,
           Only(Current), Dispatching' => Dispatching, Reconciling' => Reconciling,
           Dispatching' \/ Reconciling' \/ Tail(work) = <<>>
    PROVE  PassInv'
<1>1. work \in Seq(Snapshot)
  BY WorkTypes
<1>2. /\ \A i \in DOMAIN Tail(work) : /\ i + 1 \in DOMAIN work
                                      /\ Tail(work)[i] = work[i + 1]
                                      /\ Tail(work)[i].job # Current
      /\ OneEach'
  BY <1>1, TailElements DEF PassInv, OneEach, Current
<1>3. \A i \in DOMAIN Tail(work) : jobs'[work[i + 1].job] = jobs[work[i + 1].job]
  <2>1. \A i \in DOMAIN work : work[i].job \in Jobs
    BY WorkTypes
  <2>2. QED
    BY <1>2, <2>1 DEF Only
<1>4. ASSUME NEW i \in DOMAIN work'
      PROVE  /\ Dispatching' => Waiting(work[i])'
             /\ Reconciling' => Watched(work[i])'
  <2>1. work'[i] = work[i + 1] /\ i + 1 \in DOMAIN work
    BY <1>2
  <2>2. jobs'[work'[i].job] = jobs[work'[i].job]
    BY <1>3, <2>1
  <2>3. QED
    BY <2>1, <2>2 DEF PassInv, Waiting, Watched
<1>5. QED
  BY <1>2, <1>4 DEF PassInv, IdleEmpty

LEMMA PassEmpty == work' = <<>> => PassInv'
BY DEF PassInv, OneEach, IdleEmpty

\* A submitted row was in no list; a canceled one stays Waiting or Watched.
LEMMA PassUnderAPI ==
    ASSUME TypeInv, PassInv, UNCHANGED <<pc, work, now>>, NEW j \in Jobs,
           Inserted(j) \/ Overwritten(j, "CANCELED", Null)
    PROVE  PassInv'
<1>1. \A i \in DOMAIN work : work[i].job \in Jobs
  BY WorkTypes
<1>2. ASSUME NEW i \in DOMAIN work, Waiting(work[i])
      PROVE  Waiting(work[i])'
  BY <1>1, <1>2 DEF Waiting, Inserted, Overwritten, Only
<1>3. ASSUME NEW i \in DOMAIN work, Watched(work[i])
      PROVE  Watched(work[i])'
  BY <1>1, <1>3 DEF Watched, Inserted, Overwritten, Only
<1>4. QED
  BY <1>2, <1>3 DEF PassInv, OneEach, IdleEmpty, Dispatching, Reconciling

LEMMA PassListed == TypeInv /\ (ListCandidates \/ ScanRunning) => PassInv'
<1>1. ASSUME TypeInv, ListCandidates PROVE PassInv'
  <2>1. PICK page \in Pages, order \in Pages :
          /\ ListDispatchableJobs(page, CandidateLimit)
          /\ IsRoundRobin(order, page, cursor)
          /\ work' = Snapshots(order)
    BY <1>1 DEF ListCandidates
  <2>2. /\ {order[i] : i \in DOMAIN order} \subseteq Dispatchable
        /\ Cardinality({order[i] : i \in DOMAIN order}) = Len(order)
    BY <2>1 DEF ListDispatchableJobs, IsPage, IsRoundRobin
  <2>3. /\ \A i, k \in DOMAIN work' : work'[i].job = work'[k].job => i = k
        /\ \A i \in DOMAIN work' :
              work'[i].job \in Dispatchable \cap Jobs /\ work'[i] = SnapshotOf(work'[i].job)
    BY <1>1, <2>1, <2>2, SnapshotsOfPage DEF TypeInv, SystemInv
  <2>4. pc' = "pick" /\ UNCHANGED <<jobs, now>>
    BY <1>1 DEF ListCandidates, repoVars
  <2>5. ASSUME NEW i \in DOMAIN work' PROVE Waiting(work[i])'
    BY <1>1, <2>3, <2>4 DEF Waiting, Dispatchable, HasStatus, ReadyAt, SnapshotOf,
       TypeInv, SystemInv, RepoTypeOK, IsTable
  <2>6. QED
    BY <2>3, <2>4, <2>5 DEF PassInv, OneEach, IdleEmpty, Dispatching, Reconciling
<1>2. ASSUME TypeInv, ScanRunning PROVE PassInv'
  <2>1. PICK page \in Pages :
          /\ ListRunningJobs(page, RunningScanLimit)
          /\ work' = Snapshots(page)
          /\ pc' = IF page = <<>> THEN "list" ELSE "probe"
    BY <1>2 DEF ScanRunning
  <2>2. /\ {page[i] : i \in DOMAIN page} \subseteq HasStatus("RUNNING")
        /\ Cardinality({page[i] : i \in DOMAIN page}) = Len(page)
    BY <2>1 DEF ListRunningJobs, IsPage
  <2>3. /\ \A i, k \in DOMAIN work' : work'[i].job = work'[k].job => i = k
        /\ \A i \in DOMAIN work' :
              work'[i].job \in HasStatus("RUNNING") \cap Jobs /\ work'[i] = SnapshotOf(work'[i].job)
    BY <1>2, <2>1, <2>2, SnapshotsOfPage DEF TypeInv, SystemInv
  <2>4. UNCHANGED <<jobs, now>>
    BY <1>2 DEF ScanRunning, repoVars
  <2>5. ASSUME NEW i \in DOMAIN work' PROVE Watched(work[i])'
    BY <2>3, <2>4 DEF Watched, HasStatus, SnapshotOf
  <2>6. page = <<>> => work' = <<>>
    BY <2>1 DEF Snapshots
  <2>7. QED
    BY <2>1, <2>3, <2>5, <2>6 DEF PassInv, OneEach, IdleEmpty, Dispatching, Reconciling
<1>3. QED
  BY <1>1, <1>2

LEMMA PassAtSchedulerStep ==
    ASSUME TypeInv, TypeInv', PassInv, SchedulerStep \/ Crash
    PROVE  PassInv'
<1>1. now <= now
  BY DEF TypeInv, SystemInv, RepoTypeOK, Times
<1>2. CASE ListCandidates \/ ScanRunning
  BY <1>2, PassListed
<1>3. CASE \/ Admit \/ FindExisting \/ BuildManifest \/ CreateJobObject
           \/ CreateConflicts \/ CreateFails \/ Probe \/ TimesOut
           \/ DeleteTimedOut \/ Restart
  <2>1. UNCHANGED <<jobs, work, now>>
    BY <1>3 DEF Admit, FindExisting, BuildManifest, CreateJobObject,
       CreateConflicts, CreateFails, Probe, TimesOut, DeleteTimedOut, Restart,
       repoVars, localVars
  <2>2. (Dispatching' <=> Dispatching) /\ (Reconciling' <=> Reconciling)
    BY <1>3 DEF Admit, Picks, FindExisting, BuildManifest, CreateJobObject,
       CreateConflicts, CreateFails, Probe, TimesOut, DeleteTimedOut, Restart,
       Dispatching, Reconciling
  <2>3. QED
    BY <1>1, <2>1, <2>2, PassUntouched
<1>4. CASE SkipOverQuota \/ SkipStateChanged
  <2>1. /\ work # <<>> /\ work' = Tail(work)
        /\ UNCHANGED <<jobs, now>>
        /\ Dispatching /\ Dispatching' /\ ~Reconciling'
    BY <1>4, CurrentIsJob DEF SkipOverQuota, Picks, SkipStateChanged, HasCurrent,
       Dispatching, Reconciling, repoVars
  <2>2. QED
    BY <2>1, PassAdvances DEF Only
<1>5. CASE EndDispatch \/ ManifestRaises \/ Crash
  BY <1>5, PassEmpty DEF EndDispatch, ManifestRaises, Crash, Dies
<1>6. CASE RejectJob \/ MarkRunning
  <2>1. /\ work # <<>> /\ work' = Tail(work) /\ UNCHANGED now
        /\ Dispatching /\ Dispatching' /\ ~Reconciling'
    BY <1>6, CurrentIsJob DEF RejectJob, MarkRunning, HasCurrent, Dispatching, Reconciling
  <2>2. Only(Current)
    BY <1>6, RejectOverwrites, MarkBegins DEF Overwritten, Begun
  <2>3. QED
    BY <2>1, <2>2, PassAdvances
<1>7. CASE Verdict
  <2>1. work # <<>> /\ NextRunning /\ Reconciling /\ Only(Current)
    BY <1>7, VerdictLeaves, CurrentIsJob DEF Left, Only
  <2>2. Len(work) = 1 => Tail(work) = <<>>
    BY WorkTypes, LastTail
  <2>3. QED
    BY <2>1, <2>2, PassAdvances DEF NextRunning, Dispatching, Reconciling
<1>8. QED
  BY <1>2, <1>3, <1>4, <1>5, <1>6, <1>7 DEF SchedulerStep, Dispatch, Reconcile, Verdict

LEMMA PassStep ==
    ASSUME TypeInv, TypeInv', PassInv, [Next]_vars
    PROVE  PassInv'
<1>1. CASE SchedulerRuns \/ SchedulerCrashes
  BY <1>1, PassAtSchedulerStep DEF SchedulerRuns, SchedulerCrashes
<1>2. ASSUME NEW j \in Jobs, SubmitJob(j) PROVE PassInv'
  BY <1>2, SubmitInserts, PassUnderAPI DEF SubmitJob, schedulerVars, localVars
<1>3. ASSUME NEW h \in CancelHandlers, CancelWrite(h) PROVE PassInv'
  BY <1>3, CancelOverwrites, PassUnderAPI DEF CancelWrite, schedulerVars, localVars
<1>4. CASE \/ \E h \in CancelHandlers, j \in Jobs : CancelRead(h, j)
           \/ \E j \in Jobs : ContainerEnds(j)
           \/ TtlExpires \/ ClockTicks \/ UNCHANGED vars
  <2>1. UNCHANGED <<jobs, work, pc>> /\ now' \in {now, now + 1}
    BY <1>4 DEF CancelRead, ContainerEnds, TtlExpires, ClockTicks, Tick, vars,
       systemVars, repoVars, schedulerVars, localVars
  <2>2. now <= now'
    BY <2>1 DEF TypeInv, SystemInv, RepoTypeOK, Times
  <2>3. QED
    BY <2>1, <2>2, PassUntouched DEF Dispatching, Reconciling
<1>5. QED
  BY <1>1, <1>2, <1>3, <1>4 DEF Next, API

-----------------------------------------------------------------------------
(* RowsSound is inductive.                                                 *)

\* The head of a pass, in its phase.
LEMMA HeadOfPass ==
    ASSUME TypeInv, PassInv, HasCurrent
    PROVE  /\ Dispatching => Waiting(work[1])
           /\ Reconciling => Watched(work[1])
           /\ Current \in Jobs
<1>1. work \in Seq(Snapshot) /\ work # <<>> /\ Current \in Jobs
  BY WorkTypes, CurrentIsJob
<1>2. 1 \in DOMAIN work
  BY <1>1
<1>3. QED
  BY <1>1, <1>2 DEF PassInv

LEMMA RowsSoundStep ==
    ASSUME TypeInv, HistoryInv, [Next]_vars
    PROVE  RowsSound'
<1>1. \A j \in Jobs : /\ RowSound(j)
                      /\ jobs[j].attempts \in Nat
                      /\ MaxRetries[j] \in Nat
                      /\ jobs[j].status = "QUEUED" => jobs[j].next_retry_at \in Times
  BY PolicyAssumption DEF HistoryInv, RowsSound, TypeInv, SystemInv, RepoTypeOK, IsTable, Row
<1>2. CASE UNCHANGED jobs
  BY <1>1, <1>2 DEF RowsSound, RowSound
<1>3. ASSUME NEW j \in Jobs, SubmitJob(j) PROVE RowsSound'
  BY <1>1, <1>3, SubmitInserts DEF RowsSound, RowSound, Inserted, Only
<1>4. ASSUME NEW h \in CancelHandlers, CancelWrite(h) PROVE RowsSound'
  BY <1>1, <1>4, CancelOverwrites DEF RowsSound, RowSound, Overwritten, Only
<1>5. CASE RejectJob
  BY <1>1, <1>5, RejectOverwrites, CurrentIsJob
     DEF RowsSound, RowSound, Overwritten, Only, RejectJob, HasCurrent
<1>6. CASE MarkRunning
  <2>1. PICK j \in Jobs : j = Current /\ Begun(j) /\ Waiting(work[1])
    BY <1>6, MarkBegins, HeadOfPass DEF MarkRunning, HasCurrent, Dispatching, HistoryInv
  <2>2. now \in Times
    BY DEF TypeInv, SystemInv, RepoTypeOK
  <2>3. RowSound(j)'
    BY <1>1, <2>1, <2>2 DEF RowSound, Begun, Waiting, Current
  <2>4. QED
    BY <1>1, <2>1, <2>3 DEF RowsSound, RowSound, Begun, Only
<1>7. CASE Verdict
  <2>1. PICK j \in Jobs : j = Current /\ Watched(work[1])
    BY <1>7, VerdictLeaves, HeadOfPass DEF HistoryInv
  <2>2. ASSUME NEW s \in {"QUEUED", "SUCCEEDED", "FAILED"}, NEW e \in Errors \cup {Null},
               Left(j, s, e), Closing(s, e)
        PROVE  RowsSound'
    <3>1. s = "QUEUED" => jobs[j].attempts < MaxRetries[j]
      BY <2>1, <2>2 DEF Closing, Requeue, RetriesLeft, Watched, Current
    <3>2. RowSound(j)'
      BY <1>1, <2>1, <2>2, <3>1 DEF RowSound, Left
    <3>3. QED
      BY <1>1, <2>1, <2>2, <3>2 DEF RowsSound, RowSound, Left, Only
  <2>3. QED
    BY <1>2, <1>7, <2>1, <2>2, VerdictLeaves
<1>8. QED
  BY <1>2, <1>3, <1>4, <1>5, <1>6, <1>7, TableKept

LEMMA HistoryInvInit == Init => HistoryInv
<1> SUFFICES ASSUME Init PROVE HistoryInv
  OBVIOUS
<1>1. work = <<>> /\ pc = "list" /\ \A j \in Jobs : jobs[j] = NoRow
  BY DEF Init, RepoInit, SchedulerInit
<1>2. QED
  BY <1>1 DEF HistoryInv, PassInv, OneEach, IdleEmpty, Dispatching, Reconciling,
     RowsSound, RowSound, NoRow

LEMMA HistoryInvAlways == Spec => []HistoryInv
<1>1. TypeInv /\ TypeInv' /\ HistoryInv /\ [Next]_vars => HistoryInv'
  BY PassStep, RowsSoundStep DEF HistoryInv
<1>2. QED
  BY <1>1, HistoryInvInit, TypeInvAlways, PTL DEF Spec

-----------------------------------------------------------------------------
\* What Max is, for two numbers.
LEMMA MaxOfTwo ==
    ASSUME NEW m \in Nat, NEW n \in Nat
    PROVE  m <= Max({m, n}) /\ n <= Max({m, n}) /\ Max({m, n}) \in {m, n}
<1>1. \E x \in {m, n} : \A y \in {m, n} : x >= y
  OBVIOUS
<1>2. QED
  BY <1>1 DEF Max

\* No job is started more often than its retries allow, whatever crashes come
\* between creating its Kubernetes Job, marking its row and reading its outcome.
THEOREM BudgetKept == Spec => []AttemptBudget
<1>1. ASSUME TypeInv, HistoryInv PROVE AttemptBudget
  <2>1. ASSUME NEW j \in Jobs
        PROVE  jobs[j].attempts <= Max({1, MaxRetries[j]})
    <3>1. jobs[j].attempts \in Nat /\ MaxRetries[j] \in Nat /\ RowSound(j)
      BY <1>1, PolicyAssumption DEF HistoryInv, RowsSound, TypeInv, SystemInv,
         RepoTypeOK, IsTable, Row
    <3>2. 1 <= Max({1, MaxRetries[j]}) /\ MaxRetries[j] <= Max({1, MaxRetries[j]})
      BY <3>1, MaxOfTwo
    <3>3. Max({1, MaxRetries[j]}) \in {1, MaxRetries[j]}
      BY <3>1, MaxOfTwo
    <3>4. QED
      BY <3>1, <3>2, <3>3 DEF RowSound
  <2>2. QED
    BY <2>1 DEF AttemptBudget
<1>2. QED
  BY <1>1, TypeInvAlways, HistoryInvAlways, PTL

\* An attempt only starts when the backoff of the one before is over, although
\* the dispatch pass compared the two some calls earlier: nobody but the
\* scheduler itself gives a row a later ready time.
THEOREM BackoffKept == Spec => []NotBeforeBackoff
<1>1. HistoryInv => NotBeforeBackoff
  BY DEF HistoryInv, RowsSound, RowSound, NotBeforeBackoff, StatusOf, Times
<1>2. QED
  BY <1>1, HistoryInvAlways, PTL

-----------------------------------------------------------------------------
(* The refinement of JobLifecycle.                                         *)

Statuses == [j \in Jobs |-> jobs[j].status]

Attempts == [j \in Jobs |-> jobs[j].attempts]

Asked == {canceling[h] : h \in CancelHandlers} \ {Null}

Refused == IF pc = "reject" THEN {Current} ELSE {}

\* A cancel was only accepted for a job that is in the table, and no statement
\* takes a row out of it.
AskedExist ==
    \A h \in CancelHandlers :
        canceling[h] # Null => jobs[canceling[h]].status # "ABSENT"

\* A statement about one row is an update of the abstract functions there.
LEMMA MapsToUpdate ==
    ASSUME NEW j \in Jobs, Only(j)
    PROVE  /\ Statuses' = [Statuses EXCEPT ![j] = jobs'[j].status]
           /\ Attempts' = [Attempts EXCEPT ![j] = jobs'[j].attempts]
           /\ jobs'[j].attempts = jobs[j].attempts => Attempts' = Attempts
BY DEF Statuses, Attempts, Only

\* Nobody but a cancel handler changes what it was asked for.
LEMMA AskedKept ==
    ASSUME [Next]_vars,
           \A h \in CancelHandlers :
              ~CancelWrite(h) /\ \A j \in Jobs : ~CancelRead(h, j)
    PROVE  UNCHANGED canceling
BY DEF Next, API, SubmitJob, SchedulerRuns, SchedulerCrashes, ContainerEnds,
   TtlExpires, ClockTicks, vars

LEMMA AskedUpdates ==
    ASSUME CancelTypeOK, NEW h \in CancelHandlers
    PROVE  /\ \A j \in Jobs : canceling[h] = Null /\ canceling' = [canceling EXCEPT ![h] = j]
                 => Asked' = Asked \/ Asked' = Asked \cup {j}
           /\ canceling[h] # Null /\ canceling' = [canceling EXCEPT ![h] = Null]
                 => Asked' \in {Asked, Asked \ {canceling[h]}}
<1>1. ASSUME NEW j \in Jobs, canceling[h] = Null, canceling' = [canceling EXCEPT ![h] = j]
      PROVE  Asked' = Asked \/ Asked' = Asked \cup {j}
  BY <1>1 DEF CancelTypeOK, Asked
<1>2. ASSUME canceling[h] # Null, canceling' = [canceling EXCEPT ![h] = Null]
      PROVE  Asked' \in {Asked, Asked \ {canceling[h]}}
  <2>1. CASE \E k \in CancelHandlers : k # h /\ canceling[k] = canceling[h]
    BY <1>2, <2>1 DEF CancelTypeOK, Asked
  <2>2. CASE \A k \in CancelHandlers : k # h => canceling[k] # canceling[h]
    BY <1>2, <2>2 DEF CancelTypeOK, Asked
  <2>3. QED
    BY <2>1, <2>2
<1>3. QED
  BY <1>1, <1>2

LEMMA AskedExistAlways == Spec => []AskedExist
<1>1. TypeInv /\ AskedExist /\ [Next]_vars => AskedExist'
  <2> SUFFICES ASSUME TypeInv, AskedExist, [Next]_vars
               PROVE  AskedExist'
    OBVIOUS
  <2>1. \A j \in Jobs : jobs[j].status # "ABSENT" => jobs'[j].status # "ABSENT"
    <3>1. ASSUME NEW j \in Jobs, NEW s, NEW e, s # "ABSENT",
                 Overwritten(j, s, e) \/ Left(j, s, e) \/ Begun(j) \/ Inserted(j)
          PROVE  \A k \in Jobs : jobs[k].status # "ABSENT" => jobs'[k].status # "ABSENT"
      BY <3>1 DEF Overwritten, Left, Begun, Inserted, Only
    <3>2. ASSUME NEW j \in Jobs, SubmitJob(j)
          PROVE  Inserted(j)
      BY <3>2, SubmitInserts
    <3>3. ASSUME NEW h \in CancelHandlers, CancelWrite(h)
          PROVE  \E j \in Jobs : Overwritten(j, "CANCELED", Null)
      BY <3>3, CancelOverwrites
    <3>4. CASE RejectJob
      <4>1. Current \in Jobs /\ Overwritten(Current, "FAILED", "create_failed")
        BY <3>4, CurrentIsJob, RejectOverwrites DEF RejectJob, HasCurrent
      <4>2. QED
        BY <3>1, <4>1
    <3>5. CASE MarkRunning
      <4>1. Current \in Jobs /\ Begun(Current)
        BY <3>5, CurrentIsJob, MarkBegins DEF MarkRunning, HasCurrent
      <4>2. QED
        BY <3>1, <4>1
    <3>6. CASE Verdict
      <4>1. \/ UNCHANGED jobs
            \/ \E j \in Jobs, s \in {"QUEUED", "SUCCEEDED", "FAILED"}, e \in Errors \cup {Null} :
                  Left(j, s, e)
        BY <3>6, VerdictLeaves, CurrentIsJob
      <4>2. QED
        BY <3>1, <4>1
    <3>7. CASE UNCHANGED jobs
      BY <3>7
    <3>8. QED
      BY <3>1, <3>2, <3>3, <3>4, <3>5, <3>6, <3>7, TableKept
  <2>2. ASSUME NEW h \in CancelHandlers, canceling'[h] # Null
        PROVE  jobs'[canceling'[h]].status # "ABSENT"
    <3>1. canceling \in [CancelHandlers -> Jobs \cup {Null}]
      BY DEF TypeInv, CancelTypeOK
    <3>2. CASE canceling'[h] = canceling[h]
      BY <2>1, <2>2, <3>1, <3>2 DEF AskedExist
    <3>3. ASSUME NEW k \in CancelHandlers, NEW j \in Jobs, CancelRead(k, j)
          PROVE  jobs'[canceling'[h]].status # "ABSENT"
      <4>1. jobs' = jobs /\ jobs[j].status = "QUEUED" /\ canceling' = [canceling EXCEPT ![k] = j]
        BY <3>3 DEF CancelRead, systemVars, repoVars
      <4>2. QED
        BY <2>2, <3>1, <4>1 DEF AskedExist
    <3>4. ASSUME NEW k \in CancelHandlers, CancelWrite(k)
          PROVE  canceling'[h] = canceling[h]
      BY <2>2, <3>1, <3>4 DEF CancelWrite
    <3>5. QED
      BY <3>2, <3>3, <3>4, AskedKept
  <2>3. QED
    BY <2>2 DEF AskedExist
<1>2. Init => AskedExist
  BY DEF Init, AskedExist
<1>3. QED
  BY <1>1, <1>2, TypeInvAlways, PTL DEF Spec

\* Who remembers a refused create, and for how long.
LEMMA RefusedKept ==
    ASSUME [Next]_vars
    PROVE  \/ Refused' = Refused
           \/ RejectJob /\ Refused' = {} /\ UNCHANGED canceling
           \/ CreateFails /\ UNCHANGED canceling
           \/ Crash /\ Refused' = {} /\ UNCHANGED canceling
<1>1. UNCHANGED <<pc, work>> => Refused' = Refused
  BY DEF Refused, Current
<1>2. pc # "reject" /\ pc' # "reject" => Refused' = Refused
  BY DEF Refused
<1>3. CASE API \/ TtlExpires \/ ClockTicks \/ (\E j \in Jobs : ContainerEnds(j)) \/ UNCHANGED vars
  <2>1. UNCHANGED schedulerVars
    BY <1>3 DEF API, SubmitJob, CancelRead, CancelWrite, TtlExpires, ClockTicks,
       ContainerEnds, vars, systemVars
  <2>2. QED
    BY <1>1, <2>1 DEF schedulerVars, localVars
<1>4. CASE SchedulerCrashes
  BY <1>4 DEF SchedulerCrashes, Crash, Dies, Refused
<1>5. CASE SchedulerRuns
  <2>1. CASE RejectJob
    BY <1>5, <2>1 DEF RejectJob, Refused, SchedulerRuns
  <2>2. CASE CreateFails
    BY <1>5, <2>2 DEF SchedulerRuns
  <2>3. CASE Dispatch /\ ~RejectJob /\ ~CreateFails
    BY <1>2, <2>3 DEF Dispatch, ListCandidates, EndDispatch, SkipOverQuota, Admit, Picks,
       FindExisting, BuildManifest, ManifestRaises, Dies, CreateJobObject,
       CreateConflicts, MarkRunning, SkipStateChanged
  <2>4. CASE Reconcile
    BY <1>2, <2>4 DEF Reconcile, ScanRunning, Probe, TimesOut, FailMissing, Succeed,
       LeaveRunning, Requeue, FailForGood, DeleteTimedOut, ExpireJob, Judges, NextRunning
  <2>5. CASE Restart
    BY <1>2, <2>5 DEF Restart
  <2>6. QED
    BY <1>5, <2>1, <2>2, <2>3, <2>4, <2>5 DEF SchedulerRuns, SchedulerStep
<1>6. QED
  BY <1>3, <1>4, <1>5 DEF Next

LEMMA LifecycleStep ==
    ASSUME TypeInv, HistoryInv, AskedExist, [Next]_vars
    PROVE  [Lifecycle!LifecycleNext]_<<Statuses, Attempts, Asked, Refused>>
<1> USE DEF Lifecycle!LifecycleNext, Lifecycle!Allowed, Lifecycle!Exception, Lifecycle!Move
<1>1. ASSUME NEW j \in Jobs, SubmitJob(j)
      PROVE  Lifecycle!LifecycleNext
  <2>1. /\ Inserted(j) /\ jobs[j].attempts = 0 /\ Asked' = Asked /\ Refused' = Refused
    BY <1>1, SubmitInserts DEF HistoryInv, RowsSound, RowSound, Inserted, SubmitJob, Asked,
       Refused, Current, schedulerVars, localVars
  <2>2. Lifecycle!Submitted(j)
    BY <2>1, MapsToUpdate DEF Inserted, Lifecycle!Submitted, Statuses, Attempts, Asked, Refused
  <2>3. QED
    BY <2>2
<1>2. ASSUME NEW h \in CancelHandlers, CancelWrite(h)
      PROVE  Lifecycle!LifecycleNext
  <2>1. PICK j \in Jobs : j = canceling[h] /\ Overwritten(j, "CANCELED", Null)
    BY <1>2, CancelOverwrites
  <2>2. j \in Asked /\ Asked' \in {Asked, Asked \ {j}}
    BY <1>2, <2>1, AskedUpdates DEF CancelWrite, TypeInv, Asked
  <2>3. Refused' = Refused
    BY <1>2 DEF CancelWrite, Refused, Current, schedulerVars, localVars
  <2>4. Lifecycle!Answered(j)
    BY <2>1, <2>2, <2>3, MapsToUpdate DEF Overwritten, Lifecycle!Answered,
       Statuses, Attempts, Asked, Refused
  <2>5. jobs[j].status \in {"QUEUED", "RUNNING"} \cup Terminal
    <3>1. jobs[j].status \in Status
      BY DEF TypeInv, SystemInv, RepoTypeOK, IsTable, Row
    <3>2. jobs[j].status # "ABSENT"
      BY <1>2, <2>1 DEF AskedExist, CancelWrite
    <3>3. QED
      BY <3>1, <3>2 DEF Status
  <2>6. /\ Statuses[j] \in {"QUEUED"} \/ Statuses[j] \in {"RUNNING"} \cup Terminal
        /\ Statuses' = [Statuses EXCEPT ![j] = "CANCELED"]
    BY <2>1, <2>5, MapsToUpdate DEF Overwritten, Statuses
  <2>7. Lifecycle!Canceled(j) \/ Lifecycle!CanceledLate(j)
    BY <2>4, <2>6 DEF Lifecycle!Canceled, Lifecycle!CanceledLate, Lifecycle!Terminal,
       Terminal, Statuses
  <2>8. QED
    BY <2>7
<1>3. ASSUME NEW h \in CancelHandlers, NEW j \in Jobs, CancelRead(h, j)
      PROVE  [Lifecycle!LifecycleNext]_<<Statuses, Attempts, Asked, Refused>>
  <2>1. UNCHANGED <<Statuses, Attempts, Refused>> /\ jobs[j].status = "QUEUED"
    BY <1>3 DEF CancelRead, systemVars, repoVars, schedulerVars, localVars, Statuses,
       Attempts, Refused, Current
  <2>2. Asked' = Asked \/ Asked' = Asked \cup {j}
    BY <1>3, AskedUpdates DEF CancelRead, TypeInv
  <2>3. Asked' = Asked \cup {j} => Lifecycle!CancelAsked(j)
    BY <2>1 DEF Lifecycle!CancelAsked, Statuses, Attempts, Asked, Refused
  <2>4. QED
    BY <2>1, <2>2, <2>3
<1>4. CASE RejectJob /\ UNCHANGED canceling
  <2>1. PICK j \in Jobs : j = Current /\ Waiting(work[1])
    BY <1>4, HeadOfPass DEF RejectJob, HasCurrent, Dispatching, HistoryInv
  <2>2. Overwritten(j, "FAILED", "create_failed") /\ Asked' = Asked
    BY <1>4, <2>1, RejectOverwrites DEF Asked
  <2>3. Refused = {j} /\ Refused' = {}
    BY <1>4, <2>1 DEF RejectJob, Refused
  <2>4. Lifecycle!FailedUncreated(j)
    BY <1>4, <2>1, <2>2, <2>3, MapsToUpdate DEF Overwritten, Waiting, Current,
       Lifecycle!FailedUncreated, Statuses, Attempts, Asked, Refused
  <2>5. QED
    BY <2>4
<1>5. CASE MarkRunning /\ UNCHANGED canceling
  <2>1. PICK j \in Jobs : j = Current /\ Begun(j) /\ Asked' = Asked
    BY <1>5, CurrentIsJob, MarkBegins DEF MarkRunning, HasCurrent, Asked
  <2>2. Refused = {} /\ Refused' = {}
    BY <1>5 DEF MarkRunning, Refused
  <2>3. Lifecycle!Started(j)
    BY <2>1, <2>2, MapsToUpdate DEF Begun, Lifecycle!Started,
       Statuses, Attempts, Asked, Refused
  <2>4. QED
    BY <2>3
<1>6. CASE Verdict /\ ~UNCHANGED jobs /\ UNCHANGED canceling
  <2>1. PICK j \in Jobs, s \in {"QUEUED", "SUCCEEDED", "FAILED"}, e \in Errors \cup {Null} :
          /\ j = Current /\ Watched(work[1]) /\ Left(j, s, e) /\ Closing(s, e)
          /\ Asked' = Asked
    BY <1>6, VerdictLeaves, HeadOfPass DEF HistoryInv, Asked
  <2>2. Refused' = Refused
    BY <1>6, VerdictLeaves DEF Reconciling, NextRunning, Refused
  <2>3. CASE s = "QUEUED"
    <3>1. jobs[j].attempts < MaxRetries[j]
      BY <2>1, <2>3 DEF Closing, Requeue, RetriesLeft, Watched, Current
    <3>2. Lifecycle!Retried(j)
      BY <2>1, <2>2, <2>3, <3>1, MapsToUpdate DEF Left, Lifecycle!Retried,
         Statuses, Attempts, Asked, Refused
    <3>3. QED
      BY <3>2
  <2>4. CASE s # "QUEUED"
    <3>1. Lifecycle!Finished(j)
      BY <2>1, <2>2, <2>4, MapsToUpdate DEF Left, Lifecycle!Finished,
         Statuses, Attempts, Asked, Refused
    <3>2. QED
      BY <3>1
  <2>5. QED
    BY <2>3, <2>4
<1>7. CASE CreateFails /\ UNCHANGED canceling
  <2>1. PICK j \in Jobs : j = Current /\ Waiting(work[1])
    BY <1>7, HeadOfPass DEF CreateFails, HasCurrent, Dispatching, HistoryInv
  <2>2. Refused = {} /\ Refused' = {j}
    BY <1>7, <2>1 DEF CreateFails, Refused, Current, localVars
  <2>3. UNCHANGED <<Statuses, Attempts, Asked>>
    BY <1>7 DEF CreateFails, repoVars, Statuses, Attempts, Asked
  <2>4. Lifecycle!CreateRefused(j)
    BY <2>1, <2>2, <2>3 DEF Waiting, Current, Lifecycle!CreateRefused,
       Statuses, Attempts, Asked, Refused
  <2>5. QED
    BY <2>4
<1>8. CASE Crash /\ UNCHANGED canceling /\ Refused' = {}
  <2>1. UNCHANGED <<Statuses, Attempts, Asked>>
    BY <1>8 DEF Crash, Dies, repoVars, Statuses, Attempts, Asked
  <2>2. CASE pc # "reject"
    BY <1>8, <2>1, <2>2 DEF Refused
  <2>3. CASE pc = "reject"
    <3>1. Current \in Jobs /\ Refused = {Current}
      BY <2>3, CurrentIsJob DEF HasCurrent, Refused
    <3>2. PICK j \in Jobs : Refused = {j}
      BY <3>1
    <3>3. Lifecycle!RefusalForgotten(j)
      BY <1>8, <2>1, <3>2 DEF Lifecycle!RefusalForgotten, Statuses, Attempts, Asked, Refused
    <3>4. QED
      BY <3>3
  <2>4. QED
    BY <2>2, <2>3
<1>9. CASE UNCHANGED <<jobs, canceling, Refused>>
  BY <1>9 DEF Statuses, Attempts, Asked
<1>10. CASE \E h \in CancelHandlers : CancelWrite(h) \/ \E j \in Jobs : CancelRead(h, j)
  BY <1>2, <1>3, <1>10
<1>11. CASE UNCHANGED canceling
  <2>1. CASE UNCHANGED jobs
    BY <1>4, <1>7, <1>8, <1>9, <1>11, <2>1, RefusedKept
  <2>2. CASE ~UNCHANGED jobs
    <3>1. \/ \E h \in CancelHandlers : CancelWrite(h)
          \/ \E j \in Jobs : SubmitJob(j)
          \/ RejectJob \/ MarkRunning \/ Verdict
      BY <2>2, TableKept
    <3>2. QED
      BY <1>1, <1>2, <1>4, <1>5, <1>6, <1>11, <2>2, <3>1
  <2>3. QED
    BY <2>1, <2>2
<1>12. QED
  BY <1>10, <1>11, AskedKept

\* Status and attempts of every job change only by the documented transitions,
\* but for two exceptions with a cause each: CANCELED over a later status, for
\* a cancel that read the row as QUEUED (api/main.py:425), and FAILED without
\* RUNNING, for a job whose create call this process saw fail (main.py:238).
THEOREM ImplementsLifecycle == Spec => LifecycleRefined
<1>1. Init => Lifecycle!LifecycleInit
  BY DEF Init, RepoInit, SchedulerInit, NoRow, Lifecycle!LifecycleInit
<1>2. TypeInv /\ HistoryInv /\ AskedExist /\ [Next]_vars
        => [Lifecycle!LifecycleNext]_Lifecycle!lifecycleVars
  BY LifecycleStep DEF Lifecycle!lifecycleVars, Statuses, Attempts, Asked, Refused
<1>3. QED
  BY <1>1, <1>2, TypeInvAlways, HistoryInvAlways, AskedExistAlways, PTL
     DEF Spec, LifecycleRefined, Lifecycle!LifecycleSpec
=============================================================================
