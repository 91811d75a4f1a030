----------------------------- MODULE Scheduler ------------------------------
(***************************************************************************)
(* The scheduler process, src/services/scheduler/main.py: one thread that  *)
(* repeats reconcile_once, a dispatch pass and then a pass over the        *)
(* RUNNING jobs.  Every call it makes to the database or to the Kubernetes *)
(* API is a step of its own, so that the API's requests, the containers,   *)
(* the clock and a crash fall between any two of them.  Local computation  *)
(* goes with the call before or after it.                                  *)
(*                                                                         *)
(* A pass works on snapshots: rows read once, by the list call, and used   *)
(* after later calls.                                                      *)
(***************************************************************************)
EXTENDS JobRepository, Cluster, RoundRobin

CONSTANTS
    TenantMaxRunning,     \* TENANT_MAX_RUNNING
    DispatchBatchSize,    \* SCHEDULER_DISPATCH_BATCH_SIZE
    CandidateMultiplier,  \* SCHEDULER_FAIR_CANDIDATE_MULTIPLIER
    RunningScanLimit,     \* SCHEDULER_RUNNING_SCAN_LIMIT
    Malformed,            \* jobs _build_k8s_job_manifest raises on
    MaxFaults             \* crashes, refused and failed calls (BOUND)

ASSUME SchedulerAssumption ==
    /\ TenantMaxRunning \in Nat
    /\ DispatchBatchSize \in Nat
    /\ CandidateMultiplier \in Int
    /\ RunningScanLimit \in Nat
    /\ Malformed \subseteq Jobs
    /\ MaxFaults \in Nat

VARIABLES
    pc,          \* the call the process makes next
    work,        \* the snapshots left of the pass, the current one first
    counted,     \* running_by_tenant; Null: not in the dict
    dispatched,  \* dispatched
    cursor,      \* _rr_last_tenant
    observed,    \* k8s_job of the current RUNNING job
    faults       \* the faults so far

localVars == <<work, counted, dispatched, cursor, observed>>
schedulerVars == <<pc, localVars, faults>>
systemVars == <<repoVars, clusterVars, schedulerVars>>

Snapshot == [job: Jobs, attempts: Nat, started_at: Times \cup {Null}]

PC == {"list", "pick", "ensure", "create", "reject", "mark",
       "scan", "probe", "judge", "delete", "expire", "down"}

SchedulerTypeOK ==
    /\ pc \in PC
    /\ work \in Seq(Snapshot)
    /\ counted \in [Tenants -> Nat \cup {Null}]
    /\ dispatched \in Nat
    /\ cursor \in Tenants \cup {Null}
    /\ observed \in Phase \cup {"missing"}
    /\ faults \in 0..MaxFaults

\* The pc is at a call about the job at the head of work.
HasCurrent == pc \in {"ensure", "create", "reject", "mark",
                      "probe", "judge", "delete", "expire"}

NothingCounted == [t \in Tenants |-> Null]

SchedulerInit ==
    /\ pc = "list"
    /\ work = <<>>
    /\ counted = NothingCounted
    /\ dispatched = 0
    /\ cursor = Null
    /\ observed = "missing"
    /\ faults = 0

SnapshotOf(j) == [job |-> j,
                  attempts |-> jobs[j].attempts,
                  started_at |-> jobs[j].started_at]

Snapshots(page) == [i \in 1..Len(page) |-> SnapshotOf(page[i])]

Pages == SeqOf(Jobs, Cardinality(Jobs))

Current == work[1].job
\* Mutant: the attempt that is over is created again.
SameAttempt == work[1].attempts

NextAttempt == work[1].attempts + 1

Fault ==
    /\ faults < MaxFaults
    /\ faults' = faults + 1

-----------------------------------------------------------------------------
(* _dispatch_queued_jobs                                                   *)

\* Mutant: the multiplier is taken for the limit.
MultiplierOnly == Max({1, CandidateMultiplier})

CandidateLimit ==
    Max({DispatchBatchSize, DispatchBatchSize * Max({1, CandidateMultiplier})})

ListCandidates ==
    /\ pc = "list"
    /\ \E page \in Pages :
        /\ ListDispatchableJobs(page, CandidateLimit)
        /\ \E order \in Pages :
            /\ IsRoundRobin(order, page, cursor)
            /\ work' = Snapshots(order)
    /\ counted' = NothingCounted
    /\ dispatched' = 0
    /\ pc' = "pick"
    /\ UNCHANGED <<repoVars, clusterVars, cursor, observed, faults>>

\* The batch is full or the candidates are used up.
EndDispatch ==
    /\ pc = "pick"
    /\ work = <<>> \/ dispatched >= DispatchBatchSize
    /\ work' = <<>>
    /\ counted' = NothingCounted
    /\ dispatched' = 0
    /\ pc' = "scan"
    /\ UNCHANGED <<repoVars, clusterVars, cursor, observed, faults>>

\* running_by_tenant answers for a tenant asked about before in this pass.
RunningCount(t) ==
    IF counted[t] = Null THEN CountRunningJobsByTenant(t) ELSE counted[t]

UnderQuota(t) == RunningCount(t) < TenantMaxRunning

Picks ==
    /\ pc = "pick"
    /\ work # <<>>
    /\ dispatched < DispatchBatchSize
    /\ counted' = [counted EXCEPT ![TenantOf[Current]] = RunningCount(TenantOf[Current])]

SkipOverQuota ==
    /\ Picks
    /\ ~UnderQuota(TenantOf[Current])
    /\ work' = Tail(work)
    /\ UNCHANGED <<repoVars, clusterVars, pc, dispatched, cursor, observed, faults>>

Admit ==
    /\ Picks
    /\ UnderQuota(TenantOf[Current])
    /\ pc' = "ensure"
    /\ UNCHANGED <<repoVars, clusterVars, work, dispatched, cursor, observed, faults>>

\* The process ends and everything it held in memory is gone.
Dies ==
    /\ pc' = "down"
    /\ work' = <<>>
    /\ counted' = NothingCounted
    /\ dispatched' = 0
    /\ cursor' = Null
    /\ observed' = "missing"
    /\ UNCHANGED <<repoVars, clusterVars>>

\* _ensure_k8s_job_exists: the list call, and the manifest when it finds
\* nothing; the manifest is built outside the try block.
FindExisting ==
    /\ pc = "ensure"
    /\ Labelled(Current, NextAttempt) # {}
    /\ pc' = "mark"
    /\ UNCHANGED <<repoVars, clusterVars, localVars, faults>>

BuildManifest ==
    /\ pc = "ensure"
    /\ Labelled(Current, NextAttempt) = {}
    /\ Current \notin Malformed
    /\ pc' = "create"
    /\ UNCHANGED <<repoVars, clusterVars, localVars, faults>>

ManifestRaises ==
    /\ pc = "ensure"
    /\ Labelled(Current, NextAttempt) = {}
    /\ Current \in Malformed
    /\ Dies
    /\ UNCHANGED faults

CreateJobObject ==
    /\ pc = "create"
    /\ CreateObject(Current, NextAttempt)
    /\ pc' = "mark"
    /\ UNCHANGED <<repoVars, localVars, faults>>

\* 409 is taken to mean that this attempt's object is there already.
CreateConflicts ==
    /\ pc = "create"
    /\ NameTaken(Current, NextAttempt)
    /\ pc' = "mark"
    /\ UNCHANGED <<repoVars, clusterVars, localVars, faults>>

\* Mutant: an error is logged and the row marked all the same.
CreateFailsUnnoticed ==
    /\ pc = "create"
    /\ Fault
    /\ pc' = "mark"
    /\ UNCHANGED <<repoVars, clusterVars, localVars>>

\* Any other ApiException: the request was refused for what it asks, or it
\* failed on its way, before the object was persisted or after.
CreateFails ==
    /\ pc = "create"
    /\ Fault
    /\ pc' = "reject"
    /\ UNCHANGED clusterVars \/ CreateObject(Current, NextAttempt)
    /\ UNCHANGED <<repoVars, localVars>>

RejectJob ==
    /\ pc = "reject"
    /\ jobs' = UpdateJobStatus(Current, "FAILED", "create_failed")
    /\ work' = Tail(work)
    /\ pc' = "pick"
    /\ UNCHANGED <<now, clusterVars, counted, dispatched, cursor, observed, faults>>

\* Mutant: running_by_tenant keeps the count of the first look.
MarkRunningUncounted ==
    /\ pc = "mark"
    /\ MarksRunning(Current)
    /\ jobs' = MarkJobRunning(Current)
    /\ dispatched' = dispatched + 1
    /\ cursor' = TenantOf[Current]
    /\ work' = Tail(work)
    /\ pc' = "pick"
    /\ UNCHANGED <<now, clusterVars, counted, observed, faults>>

\* Mutant: the cursor remembers the job instead of its tenant.
MarkRunningWrongCursor ==
    /\ pc = "mark"
    /\ MarksRunning(Current)
    /\ jobs' = MarkJobRunning(Current)
    /\ counted' = [counted EXCEPT ![TenantOf[Current]] = @ + 1]
    /\ dispatched' = dispatched + 1
    /\ cursor' = Current
    /\ work' = Tail(work)
    /\ pc' = "pick"
    /\ UNCHANGED <<now, clusterVars, observed, faults>>

MarkRunning ==
    /\ pc = "mark"
    /\ MarksRunning(Current)
    /\ jobs' = MarkJobRunning(Current)
    /\ counted' = [counted EXCEPT ![TenantOf[Current]] = @ + 1]
    /\ dispatched' = dispatched + 1
    /\ cursor' = TenantOf[Current]
    /\ work' = Tail(work)
    /\ pc' = "pick"
    /\ UNCHANGED <<now, clusterVars, observed, faults>>

\* mark_job_running returned None: a cancel came between.
SkipStateChanged ==
    /\ pc = "mark"
    /\ ~MarksRunning(Current)
    /\ work' = Tail(work)
    /\ pc' = "pick"
    /\ UNCHANGED <<repoVars, clusterVars, counted, dispatched, cursor, observed, faults>>

-----------------------------------------------------------------------------
(* _reconcile_running_jobs                                                 *)

\* Mutant: the scan is limited by the wrong setting.
ScanOneTenant ==
    /\ pc = "scan"
    /\ \E page \in Pages :
        /\ ListRunningJobs(page, TenantMaxRunning)
        /\ work' = Snapshots(page)
        /\ pc' = IF page = <<>> THEN "list" ELSE "probe"
    /\ UNCHANGED <<repoVars, clusterVars, counted, dispatched, cursor, observed, faults>>

ScanRunning ==
    /\ pc = "scan"
    /\ \E page \in Pages :
        /\ ListRunningJobs(page, RunningScanLimit)
        /\ work' = Snapshots(page)
        /\ pc' = IF page = <<>> THEN "list" ELSE "probe"
    /\ UNCHANGED <<repoVars, clusterVars, counted, dispatched, cursor, observed, faults>>

\* _get_k8s_job_for_job_id
Probe ==
    LET found == Labelled(Current, work[1].attempts) IN
    /\ pc = "probe"
    /\ \/ found = {} /\ observed' = "missing"
       \/ \E o \in found : observed' = o.phase
    /\ pc' = "judge"
    /\ UNCHANGED <<repoVars, clusterVars, work, counted, dispatched, cursor, faults>>

IsTimedOut(snapshot) ==
    /\ TimeoutSeconds[snapshot.job] # 0
    /\ snapshot.started_at # Null
    /\ now >= At(snapshot.started_at + TimeoutSeconds[snapshot.job])

\* The next RUNNING job, or the next reconcile_once.
NextRunning ==
    /\ work' = Tail(work)
    /\ pc' = IF Len(work) = 1 THEN "list" ELSE "probe"
    /\ observed' = "missing"
    /\ UNCHANGED <<now, clusterVars, counted, dispatched, cursor, faults>>

\* Mutant: without a Kubernetes Job a timeout has nothing to do.
TimesOutWhenFound ==
    /\ pc = "judge"
    /\ IsTimedOut(work[1])
    /\ \/ observed = "missing" /\ NextRunning
       \/ observed # "missing" /\ pc' = "delete" /\ UNCHANGED <<now, clusterVars, localVars, faults>>
    /\ UNCHANGED jobs

\* The timeout is looked at before what Kubernetes reported.
TimesOut ==
    /\ pc = "judge"
    /\ IsTimedOut(work[1])
    /\ pc' = IF observed = "missing" THEN "expire" ELSE "delete"
    /\ UNCHANGED <<repoVars, clusterVars, localVars, faults>>

Judges(verdict) ==
    /\ pc = "judge"
    /\ ~IsTimedOut(work[1])
    /\ observed = verdict
    /\ NextRunning

FailMissing ==
    /\ Judges("missing")
    /\ jobs' = MarkJobTerminal(Current, "FAILED", "missing")

Succeed ==
    /\ Judges("succeeded")
    /\ jobs' = MarkJobTerminal(Current, "SUCCEEDED", Null)

LeaveRunning ==
    /\ Judges("active")
    /\ UNCHANGED jobs

\* Mutant: max_retries retries after the first attempt.
RetriesLeftOrEqual(snapshot) == snapshot.attempts <= MaxRetries[snapshot.job]

RetriesLeft(snapshot) == snapshot.attempts < MaxRetries[snapshot.job]

\* Mutant: whatever has not succeeded is retried.
RequeueUnlessSucceeded ==
    /\ \E verdict \in {"failed", "active"} : Judges(verdict)
    /\ RetriesLeft(work[1])
    /\ jobs' = MarkJobForRetry(Current, "job_failed",
                   ComputeNextRetryAt(work[1].attempts, BackoffSeconds[Current]))

Requeue ==
    /\ Judges("failed")
    /\ RetriesLeft(work[1])
    /\ jobs' = MarkJobForRetry(Current, "job_failed",
                   ComputeNextRetryAt(work[1].attempts, BackoffSeconds[Current]))

FailForGood ==
    /\ Judges("failed")
    /\ ~RetriesLeft(work[1])
    /\ jobs' = MarkJobTerminal(Current, "FAILED", "job_failed")

\* _handle_timeout: the delete call, by name, whose ApiException (nothing has
\* that name any more, or a fault) is logged and forgotten, then the row.
DeleteTimedOut ==
    /\ pc = "delete"
    /\ pc' = "expire"
    /\ \/ /\ \E o \in Named(Current, work[1].attempts) : DeleteObject(o)
          /\ UNCHANGED faults
       \/ /\ Named(Current, work[1].attempts) = {}
          /\ UNCHANGED <<clusterVars, faults>>
       \/ Fault /\ UNCHANGED clusterVars
    /\ UNCHANGED <<repoVars, localVars>>

ExpireJob ==
    /\ pc = "expire"
    /\ jobs' = MarkJobTerminal(Current, "FAILED", "timeout")
    /\ NextRunning

-----------------------------------------------------------------------------
\* The process is killed, or a call outside a try block raises.
Crash ==
    /\ pc # "down"
    /\ Fault
    /\ Dies

\* The Deployment starts it again: Scheduler() with nothing remembered.
Restart ==
    /\ pc = "down"
    /\ pc' = "list"
    /\ UNCHANGED <<repoVars, clusterVars, localVars, faults>>

Dispatch ==
    \/ ListCandidates \/ EndDispatch \/ SkipOverQuota \/ Admit
    \/ FindExisting \/ BuildManifest \/ ManifestRaises
    \/ CreateJobObject \/ CreateConflicts \/ CreateFails
    \/ RejectJob \/ MarkRunning \/ SkipStateChanged

Reconcile ==
    \/ ScanRunning \/ Probe \/ TimesOut \/ FailMissing \/ Succeed
    \/ LeaveRunning \/ Requeue \/ FailForGood \/ DeleteTimedOut \/ ExpireJob

\* What the process does by itself.
SchedulerStep == Dispatch \/ Reconcile \/ Restart
=============================================================================
