------------------------ MODULE JobSystemProperties -------------------------
(***************************************************************************)
(* What makes the job system correct, and what its documents claim.        *)
(***************************************************************************)
EXTENDS JobSystem

StatusOf(j) == jobs[j].status

Executed(j, a, how) == [job |-> j, attempt |-> a, how |-> how] \in ended

Active == {o \in objects : o.phase = "active"}

-----------------------------------------------------------------------------
(* Safety                                                                  *)

\* A tenant never has more than TENANT_MAX_RUNNING rows in RUNNING, although
\* the dispatch loop reads the count once per pass and then keeps its own.
TenantQuota ==
    \A t \in Tenants : CountRunningJobsByTenant(t) <= TenantMaxRunning

\* A job is never started more often than max_retries allows (once when it
\* is 0), whatever crashes fall between creating its Kubernetes Job, marking
\* the row and reading the outcome.
AttemptBudget ==
    \A j \in Jobs : jobs[j].attempts <= Max({1, MaxRetries[j]})

\* Two attempts of one job never run at the same time: a retry is only
\* scheduled once the attempt before it is over, and a crash between create
\* and mark_job_running leads back to the same Kubernetes Job.
SingleExecution ==
    \A o, p \in Active : o.job = p.job => o = p

\* What runs in the cluster is what the table says: an active Kubernetes Job
\* is the attempt its RUNNING row counts, or the next one of a row about to
\* be marked.  Only a cancel, a create call that reported an error, and a
\* timeout whose delete call failed, leave one running behind a row that is
\* terminal.
LiveWorkIsCurrent ==
    \A o \in Active :
        LET r == jobs[o.job] IN
        \/ r.status = "RUNNING" /\ o.attempt = r.attempts
        \/ r.status = "QUEUED" /\ o.attempt = r.attempts + 1
        \/ r.status = "CANCELED" /\ o.attempt \in {r.attempts, r.attempts + 1}
        \/ /\ r.status = "FAILED"
           /\ r.last_error = "create_failed" /\ o.attempt = r.attempts + 1
        \/ /\ r.status = "FAILED"
           /\ r.last_error = "timeout" /\ o.attempt = r.attempts

\* The row reports what the attempt it counts really did: SUCCEEDED only
\* when that attempt's container succeeded, a job error (final, or waiting
\* for its retry) only when it failed, and "missing" only when its
\* Kubernetes Job had finished and was collected before it was looked at.
VerdictIsReal ==
    \A j \in Jobs :
        LET a == jobs[j].attempts IN
        /\ StatusOf(j) = "SUCCEEDED" => Executed(j, a, "succeeded")
        /\ StatusOf(j) \in {"QUEUED", "FAILED"} =>
              CASE jobs[j].last_error = "job_failed" -> Executed(j, a, "failed")
                [] jobs[j].last_error = "missing" ->
                      Executed(j, a, "failed") \/ Executed(j, a, "succeeded")
                [] OTHER -> TRUE

\* A row is only RUNNING when a Kubernetes Job of the name of its attempt was
\* created, also after a create call that failed, or whose answer a crash
\* lost.  It need not be the job's own: that is all a 409 tells (main.py:235)
\* when names collide.
NameCreated(j, a) ==
    \E x \in objects \cup ended :
        NamePrefix[x.job] = NamePrefix[j] /\ x.attempt = a

NameWasCreated ==
    \A j \in Jobs : StatusOf(j) = "RUNNING" => NameCreated(j, jobs[j].attempts)

\* Names may collide (main.py:35), outcomes do not: a job that SUCCEEDED, and
\* one whose error is a failed Kubernetes Job, reports its own attempt, never
\* that of the job whose object it was marked RUNNING for, or whose object a
\* timeout deleted by name (main.py:336).
OutcomeIsOwn ==
    \A j \in Jobs :
        LET a == jobs[j].attempts IN
        /\ StatusOf(j) = "SUCCEEDED" => Executed(j, a, "succeeded")
        /\ StatusOf(j) \in {"QUEUED", "FAILED"} /\ jobs[j].last_error = "job_failed"
              => Executed(j, a, "failed")

\* While nothing fails, no attempt is executed twice, with two verdicts
\* (main.py:213-219): a retry gets a number of its own, although a finished
\* Kubernetes Job that would have been found may be collected at any time.
\* After a crash between create and mark_job_running the promise is gone.
AttemptRunsOnce ==
    faults = 0 =>
        \A j \in Jobs : \A a \in 1..(MaxRetries[j] + 1) :
            ~(Executed(j, a, "succeeded") /\ Executed(j, a, "failed"))

\* A retry never starts before its backoff is over.
NotBeforeBackoff ==
    \A j \in Jobs :
        StatusOf(j) = "RUNNING" =>
            jobs[j].started_at >= jobs[j].next_retry_at

-----------------------------------------------------------------------------
(* Steps                                                                   *)

\* A job that reached a terminal status never becomes QUEUED or RUNNING
\* again, even under the writes that do not look at the status they replace.
NeverReopened ==
    [][\A j \in Jobs : StatusOf(j) \in Terminal => StatusOf(j)' \in Terminal]_vars

\* Every behaviour of the table is one of JobLifecycle: beyond the documented
\* transitions a status changes only by a cancel that was accepted while the
\* job was QUEUED (api/main.py:425), and to FAILED for a job whose create call
\* this very process saw fail (scheduler/main.py:238).
Lifecycle == INSTANCE JobLifecycle WITH
    status <- [j \in Jobs |-> jobs[j].status],
    attempts <- [j \in Jobs |-> jobs[j].attempts],
    asked <- {canceling[h] : h \in CancelHandlers} \ {Null},
    refused <- IF pc = "reject" THEN {Current} ELSE {}

LifecycleRefined == Lifecycle!LifecycleSpec

\* docs/contracts/job-lifecycle.md:61 forbids "QUEUED -> SUCCEEDED|FAILED
\* directly" and :60 any way out of CANCELED: a job fails only from RUNNING.
FailsOnlyFromRunning ==
    [][\A j \in Jobs :
          StatusOf(j) # "FAILED" /\ StatusOf(j)' = "FAILED"
             => StatusOf(j) = "RUNNING"]_vars

\* docs/contracts/job-lifecycle.md:62 "RUNNING -> CANCELED (not implemented
\* yet)" is a forbidden transition.
RunningNeverCanceled ==
    [][\A j \in Jobs : StatusOf(j) = "RUNNING" => StatusOf(j)' # "CANCELED"]_vars

-----------------------------------------------------------------------------
(* Liveness                                                                *)

\* Every job ends, whatever crashes happen: the scheduler goes on from the
\* statuses in the table (docs/contracts/job-lifecycle.md:92), as soon as no
\* queued job makes it raise while it builds a manifest.
QueueIsSound == \A j \in Malformed : StatusOf(j) # "QUEUED"

EveryJobSettles ==
    <>[]QueueIsSound =>
        \A j \in Jobs : StatusOf(j) # "ABSENT" ~> StatusOf(j) \in Terminal

\* Without that condition: a restarted scheduler brings every job it can
\* build a manifest for to an end (docs/contracts/job-lifecycle.md:92,
\* docs/operations/scaling-and-ha.md:24).
OtherJobsSettle ==
    \A j \in Jobs \ Malformed :
        StatusOf(j) # "ABSENT" ~> StatusOf(j) \in Terminal

\* A container that ended is seen: its row leaves RUNNING
\* (docs/architecture/diagram-overview.md:37), however long other jobs run.
OutcomeIsWritten ==
    \A j \in Jobs :
        /\ StatusOf(j) = "RUNNING"
        /\ \E e \in ended : e.job = j /\ e.attempt = jobs[j].attempts
        ~> StatusOf(j) # "RUNNING"

AtQuota(t) == CountRunningJobsByTenant(t) >= TenantMaxRunning

\* docs/plans/phase4.md:120 "No starvation when one tenant floods submissions":
\* a queued job leaves the queue, however many jobs of another tenant wait
\* with it, unless its own tenant is at its quota.
NoStarvation ==
    \A j \in Jobs :
        StatusOf(j) = "QUEUED" ~> StatusOf(j) # "QUEUED" \/ AtQuota(TenantOf[j])

\* What the candidate window does keep of that (main.py:132, db.py:169): a job
\* does not stay in the queue while fewer jobs than the window has places are
\* as early as it, even if all of these wait for the quota of their tenant.
InWindow(j) ==
    /\ j \in Dispatchable
    /\ Cardinality({i \in Dispatchable \ {j} : ~DispatchedBefore(j, i)})
          < DispatchBatchSize * CandidateMultiplier

WindowServed ==
    \A j \in Jobs : ~<>[](InWindow(j) /\ ~AtQuota(TenantOf[j]))
=============================================================================
