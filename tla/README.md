# A TLA+ model of the k8s distributed job system

The repository runs batch jobs on Kubernetes for several tenants.  An HTTP API
stores jobs in a Postgres table; one scheduler process reads the table, creates
a Kubernetes Job for each attempt, watches it, and writes the outcome back.
All coordination goes through that table and through Kubernetes: there are no
messages between API and scheduler, no locks, and nothing but the table
survives a restart.

This directory holds the model, the instances TLC checks, and the theorems TLAPS
proves.  Line numbers below refer to files of the repository.

## 1. Inventory

| component | state it keeps | operations | model |
|---|---|---|---|
| jobs table, `JobRepository` (`pkg/job_system/db.py`, `models.py`, `db/migrations`) | one row per job | `create_job`, `list_dispatchable_jobs`, `list_jobs`, `count_running_jobs_by_tenant`, `mark_job_running`, `mark_job_for_retry`, `mark_job_terminal`, `update_job_status[_for_tenant]`, key lookup, totals | `JobModel`, `JobRepository` |
| scheduler (`services/scheduler/main.py`) | round-robin cursor, the snapshots of a pass | `reconcile_once`: dispatch pass, reconcile pass, timeout handling; crash and restart | `Scheduler`, `RoundRobin`, `RoundRobinLoop` |
| Kubernetes (external) | Job objects | list by label, create by name (409), delete, the container's end, TTL collection | `Cluster` |
| HTTP API, submit and cancel (`services/api/main.py`) | the requests its threads serve | `POST /jobs`, `POST /jobs/{id}/cancel`, reads | `SubmitPath`, `SubmitContract`, `JobSystem` |
| HTTP API, rate limiter | token bucket per tenant, a lock | `allow` | `RateLimiter` |
| metrics (`pkg/job_system/metrics.py`) | counters, last totals seen, a lock; one registry in each process | event increments, sync from the table | `Metrics` |
| lifecycle contract (`docs/contracts/job-lifecycle.md`) | | the transitions of a job | `JobLifecycle`: the documented ones, and two the document forbids and the code makes |
| demo model server, worker, manifests, scripts, experiments | | | not modelled |

How they interact, and what is hard about it:

- **Check, then act.**  `cancel_job` reads a row in one call and writes it in
  another; the scheduler works on rows it read at the start of a pass and counts
  a tenant's RUNNING rows once per pass.  Dispatch, completion, other cancels
  and a crash fall between any two calls.
- **Two writes in two systems.**  Starting an attempt creates a Kubernetes Job and
  then marks the row; a timeout deletes the Job and then writes the row.  The
  process may die between them, and the first may fail, or report failure after
  it took effect.
- **Time.**  Retry backoff, timeouts and TTL collection race with outcomes.
- **Limits.**  A batch, a candidate window and a scan of RUNNING rows, each a
  prefix of some order, decide who is looked at; whoever is not looked at waits.
- **Threads of the API.**  Requests with one idempotency key race between the lookup and
  the INSERT; a thread may hold one connection of the pool and wait for another; the
  rate limiter reads the clock before it takes its lock; scrapes read totals before they
  take theirs.
- **Restart.**  The restarted process must go on from statuses alone and must not
  run an attempt twice at once, count it twice, or lose its outcome.

What makes the components correct: the tenant quota; the retry budget and the
backoff; one execution of a job at a time; rows that report what really ran;
terminal rows that stay terminal; fair order of dispatch; no starvation; and every
job reaching an end although the scheduler crashes; one job per idempotency key and
answers that tell the truth about it; no tenant over its submit rate and a `Retry-After`
that can be relied on; counters that neither lose outcomes nor count them
again.  `PROJECT.json` lists each
hazard with its line and the property that covers it.

## 2. The modules

    JobModel            jobs, policies, rows, time
      JobRepository     the table: one operator per SQL statement
      Cluster           Kubernetes Job objects (external)
      RoundRobin        the dispatch order in closed form
        Scheduler       = the three above + the scheduler process
          JobSystem     + API handlers, containers, TTL, the clock; Spec, FairSpec
            JobSystemProperties   what is claimed of it
              MCJobSystem         instances for TLC
              JobSystemProofs     theorems for TLAPS: types, quota, terminal rows
                JobSystemPassProofs       the snapshots of a pass: retries, backoff, lifecycle
                  JobSystemClusterProofs  rows and objects: what runs, and runs alone
                    JobSystemOutcomeProofs  outcomes: verdicts, and executions without faults
      JobLifecycle      abstract specification of one job's transitions
      RoundRobinLoop    the ordering loop of the code, against RoundRobin
        MCRoundRobin    instance for TLC
        RoundRobinProofs  theorems for TLAPS
      Metrics           JobSystem + the counters of both processes (EXTENDS JobSystem)
        MCMetrics       instances for TLC
        MetricsProofs   theorems for TLAPS (with JobSystemClusterProofs)

    RateLimiter         the token buckets of the API process, with a Spec of its own
      RateLimiterProofs theorems for TLAPS
      MCRateLimiter     instance for TLC
      SubmitPath        + POST /jobs in threads, the connection pool, the table's keys
        MCSubmit        instances for TLC
        SubmitPathProofs  theorems for TLAPS (with RateLimiterProofs)
    SubmitContract      abstract specification of submitting

**JobModel.**  What the submitter fixes for good (tenant, priority, `max_retries`,
`backoff_seconds`, `timeout_seconds`) is a constant function on `Jobs`; what
transitions rewrite is a `Row`.  Left out: image, command, environment and request
metadata, and the columns that no transition reads.  `queued_at` is one of them:
`COALESCE(next_retry_at, queued_at, created_at)` (db.py:168) never falls back,
because both statements that make a row QUEUED set `next_retry_at` (the type
invariant says so).  `created_at` is the rank of the insert; the code takes the
time just before the insert, so two simultaneous submits may rank the other way
round, which is the same model with the two jobs exchanged.
One clock `now` serves all processes.  It runs over `0..Horizon`, and a deadline
beyond is moved to the last tick (`At`): the last tick stands for all later time.

**JobRepository.**  Every method is one statement in one transaction, so it is one
atomic operator.  Guarded updates return the table unchanged when their WHERE
clause does not hold, like the `None` of the code.  List calls are relations:
`ListDispatchableJobs(page, limit)` holds of every page the ORDER BY allows.
Between two jobs ready in the same tick one of which is a retry, either may come
first, since ticks are coarser than timestamps.

**Cluster.**  A set of objects labelled with job and attempt, each active,
succeeded or failed.  The name is a prefix of the id plus the attempt
(`NamePrefix` is a constant, so that two ids may share their first eight
characters); create is refused with 409 when the name is taken, delete goes by
name, lookups by label.  `backoffLimit: 0` and `restartPolicy: Never` (main.py:61-68)
make an object end at most once.  The TTL controller may collect a finished
object at any time.  `ended` is a history variable that records how executions
ended; no action reads it.

**Scheduler.**  `pc` names the next call to the database or Kubernetes.  One step is
one call, with the local computation around it: Python code between two calls
touches only the process's own variables, so it commutes with everything else.

| `pc` | code | actions |
|---|---|---|
| `list` | `list_dispatchable_jobs` and the ordering, main.py:128-142 | `ListCandidates` |
| `pick` | quota check, main.py:143-166 | `SkipOverQuota`, `Admit`, `EndDispatch` |
| `ensure` | lookup and manifest, main.py:213-221 | `FindExisting`, `BuildManifest`, `ManifestRaises` |
| `create` | `create_namespaced_job`, main.py:222-237 | `CreateJobObject`, `CreateConflicts`, `CreateFails` |
| `reject` | `update_job_status(FAILED)`, main.py:238 | `RejectJob` |
| `mark` | `mark_job_running`, main.py:170-176 | `MarkRunning`, `SkipStateChanged` |
| `scan` | `list_jobs(RUNNING)`, main.py:246 | `ScanRunning` |
| `probe` | `_get_k8s_job_for_job_id`, main.py:250 | `Probe` |
| `judge` | the verdict and its write, main.py:251-305 | `TimesOut`, `FailMissing`, `Succeed`, `LeaveRunning`, `Requeue`, `FailForGood` |
| `delete` | `delete_namespaced_job`, main.py:336-347 | `DeleteTimedOut` |
| `expire` | `mark_job_terminal(timeout)`, main.py:348 | `ExpireJob` |
| `down` | dead, to be restarted | `Restart` |

`judge` reads the clock and writes the row in one step; the clock is read a moment
earlier in the code, which only matters for a tick that falls between, and a later
read is a behaviour of the code too.  `Crash` may happen at every `pc`: it stands
for a killed process and for a call outside a `try` block that raises, such as a
list call or any database call.  It loses the cursor and everything else in
memory.  The calls of `refresh_gauges_from_db` and `sync_counters_from_db` at the
start of a pass read the table for metrics only; what they add is one more place
to crash.

**JobSystem.**  Adds `SubmitJob` (a request that inserts a row), the two halves of
`cancel_job` (`CancelRead`, `CancelWrite`, one pair per request thread in
`CancelHandlers`; a handler that dies between them is one that never takes its
second step), the containers, TTL and the clock.

**JobLifecycle** is the abstract specification of one job.  `Allowed` is the documented contract: the
five transitions of job-lifecycle.md:53-57, `attempts` counted as :79-80 say, and a cancel in two halves.
`Exception` is what the code does beyond it, which the same document forbids (:60-62): a cancel may land on
any later status (`CanceledLate`), and a refused create makes a QUEUED or CANCELED job FAILED
(`FailedUncreated`).  Neither is a free step.  The first needs a cancel that was accepted while the job was
QUEUED (`asked`, the handlers of `JobSystem` that have yet to write), the second a create call that this
scheduler process saw fail and has yet to write down (`refused`, the job at `pc = "reject"`).  That
`LifecycleRefined` holds therefore says that there are no other exceptions; that these two are violations of
the contract is shown by the runs `cancel_running` and `refused_create`.

**RoundRobin / RoundRobinLoop.**  The scheduler needs the dispatch order as a
relation; `IsRoundRobin` states it in closed form.  `RoundRobinLoop` is the three
loops of `_order_dispatchable_jobs_round_robin`, one iteration a step, and is
checked to end with exactly that order.

**RateLimiter.**  `ReadClock` is the call of `allow` up to the lock, `Allows` and `Refuses` what is
done under it.  Between the two another thread may read a later time and take the
lock first; then `last` moves back, and the time in between is paid for once more, since
`max(0, now - last)` hides it from the first of the two calls only.  Tokens are whole units,
`Rate` of which arrive in a tick and `Unit` of which make a token, so that every rational rate is an
instance; rounding of floating-point numbers is left out.  `past` is a history of
each bucket that no action reads: since when, how many it let through, by how
much its time was moved back, and the earliest end of a `Retry-After` it announced.

**SubmitPath.**  `at` names the next call of each thread of the API:

| `at` | code | actions |
|---|---|---|
| `idle` | caps, and the first line of `allow`, api/main.py:284-295 | `Arrive` |
| `allow` | the bucket, 295-307 | `Limit` |
| `lookup` | `get_job_by_idempotency_key`, 309-331 | `LookUp` |
| `insert` | the INSERT of `create_job`, db.py:88-96 | `Insert`, `InsertViolates` |
| `relookup` | the lookup in `create_job`, which holds a connection, db.py:97-100 | `LookUpAgain` |
| `check` | the fingerprint again and the answer, 350-368 | `AnswerCreated` |

`PoolTimesOut` ends a wait for a connection with the exception of the pool after its 30
seconds; it is enabled only while no connection is free.  `DatabaseFails` breaks a call, for an INSERT
before or after its commit.  `ProcessDies` loses the buckets and the requests, not the
rows.  A call that takes a connection and gives it back is one step, since within it
the thread waits for nothing but the database.  A body stands for everything the
fingerprints compare but the tenant; the JSON round trip of a body through the table is taken to
preserve it.  `rows` keeps for each row the request that made it: what becomes of the row
afterwards is the matter of `JobSystem` (whose `SubmitJob` is `Insert` here), and no answer but its
`status` field depends on it.

**SubmitContract** is what `SubmitPath` implements: jobs, each made for a request, no two
for one key, and answers.  201 names a job made for exactly this tenant and body (its own,
when there is no key), 409 says that the key made a job for another request, 500 says nothing.

**Metrics.**  Each of the two processes has a registry: the three reliability counters and
`_LAST_SYNC_TOTALS`.  `SchedulerSyncs` precedes every pass; `SchedulerActs` is a scheduler step with
the `record_*` call that follows its write, and both are gone when the process dies.  The total of
retries is the number of pairs of a job and an attempt before its last, which is the sum of
`max(attempts - 1, 0)` of the query (db.py:203) without a sum.  In the API
`ScrapeReads` reads the totals and `ScrapeSyncs` uses them under the lock, in several threads.
Two variables are histories that no action reads.  `happened` holds what each counter is about: the jobs that ever
became SUCCEEDED, those that ever became FAILED, and, for retries, the pairs of a job and the attempt after which its
row did go back to QUEUED; a failed execution whose requeue a cancel prevented is not among them, nor is a row that
was canceled and never failed.  `overlapped` tells whether two scrapes of this API process ever ran at once.

## 3. Properties and runs

| run | instance | checks | result |
|---|---|---|---|
| `attempts` | 1 job, 3 attempts, backoff, timeout, 2 faults, 2 cancel threads, horizon 5 | `AttemptBudget`, `SingleExecution`, `LiveWorkIsCurrent`, `VerdictIsReal`, `NameWasCreated`, `NotBeforeBackoff`, `AttemptRunsOnce`, `NeverReopened`, `LifecycleRefined` | holds |
| `settle` | 1 job with retries and timeout, 1 with a bad manifest, 1 fault | `EveryJobSettles` | holds |
| `fair` | quota 1, batch 2; a job that hangs and one that waits, and a second tenant; a cancel; two jobs that share a name | `TypeOK`, `TenantQuota`, `NameWasCreated`, `OutcomeIsOwn`, `WindowServed`, `OutcomeIsWritten` | holds |
| `round_robin` | every page of 5 jobs of 3 tenants, every cursor | `ReturnsRoundRobin`, `EqualShares`, `Returns` | holds |
| `limiter` | 3 threads, 1 tenant, a burst of 2, 2 tokens in 3 seconds, 7 ticks, restarts | `LimiterTypeOK`, `RateKept`, `RetryAfterKept` | holds |
| `submit` | 3 threads, 2 connections, 2 tenants with one key, an empty key, no key, 3 requests, 1 fault | `SubmitTypeOK`, `ContractKept`, `EveryRequestAnswered` | holds |
| `metrics` | 1 job with 3 attempts, a cancel, 2 scrapes at once, 1 fault | `MetricsTypeOK`, `NeverUndercounts`, `CountedAtMostTwice`, `SingleScrapeCountsOnce`, `CoversTable` | holds |
| `cancel_running` | 1 job, 1 cancel | `RunningNeverCanceled` | violated |
| `refused_create` | 1 job, 1 fault | `FailsOnlyFromRunning` | violated |
| `flood` | quota 1, a window of 2; 3 jobs of one tenant, the first of which hangs, and 1 of another | `NoStarvation` | violated |
| `bad_manifest` | 1 sound job, 1 with a bad manifest | `OtherJobsSettle` | violated |
| `duplicate` | 3 duplicates of one request, 2 connections, no fault | `DuplicateAnswered` | violated |

`settle`, `fair`, `submit`, `bad_manifest` and `flood` run under weak fairness (below), `round_robin` under the fairness of a
function that runs until it returns; the rest checks safety only.

**Bounds, and why they are enough.**  Numbers of jobs, tenants and limits, the
horizon, `MaxFaults` and `CancelHandlers` are the bounds; every one is a constant of a
`.cfg`.

- For the quota, `fair` has a tenant with more jobs than its quota and a batch larger than the
  quota, so that the cached count decides and not the batch.  What crashes and cancels do to
  the count is proved for every instance (`QuotaKept`).
- `attempts` is about one row and its objects.  Other jobs only delay it, since every
  action but the quota check concerns one job, and that check belongs to `fair`.
  `max_retries` counts attempts (`attempts < max_retries`, main.py:277), so 3 gives a first,
  a middle and a last one; two faults allow a crash
  after create and another one after that or a failed delete; two cancel threads
  allow a write that arrives after another cancel.  The backoffs are 1 and 3 ticks (triangular
  numbers, db.py:395), so that the last attempt of a quick job may start at tick 4, before the horizon of 5, and the timeout is 2.
- Two jobs of `fair` share a name.  One of them never ends by itself, so that the other meets its object running; in the other order
  it meets one that ended, or was collected; a cancel of a RUNNING row lets both happen within the quota of one.
  `attempts` adds what failed creates and crashes do to `NameWasCreated`; both at once are proved
  (`NamesCreated`, `OutcomesOwn`).
- In `settle` one fault is enough to crash anywhere once; more crashes lead back to the
  same states with the process fresh.
- `limiter`: two threads are enough for one to overtake another and a third lets two
  overtakings overlap; seven ticks see the bucket run dry, fill, and a promise of two
  seconds kept.  Buckets of different tenants share nothing, so one tenant is enough.
- `submit`: three requests with one key are the least that make two threads hold both
  connections; the second tenant makes the 409, a fault the lost answer or the restart.
  The burst of two lets the limiter refuse.  Two ticks are enough there, `limiter` has more.
- `metrics`: the totals are sums over the jobs, so one job is enough; with `max_retries` 3 it
  is requeued twice, so a total can grow by more than one between two syncs.  A cancel lets totals fall, and lets a
  requeue be prevented.
- In `fair` the candidate window (2) holds the waiting job of the tenant at its quota and one more,
  and the scan (3) holds all jobs.  `flood`, where two jobs wait in a window of two, shows what happens when the
  window does not; a scan of one RUNNING row out of two makes `OutcomeIsWritten` false in the same way.

**Fairness.**  Weak fairness of the scheduler's own steps, including its restart: it is a
single thread in a `while True` (main.py:116) and a Deployment restarts it.  Weak
fairness of the clock, and of the end of every container that can end (`Ends` is
empty for one that hangs).  No fairness for submits, cancels, TTL collection, crashes
and failed calls: nobody has to do these.  Faults are bounded by `MaxFaults`, so
liveness says what happens once they stop.  In `submit`, weak fairness of every
serving thread: the database answers, and the pool lets a waiter go after 30 seconds.  Nobody has to
send a request.

Symmetry is used where threads are alike, in `limiter`, `metrics` and `duplicate`, and in no liveness run.

**What the properties say.**  Each is stated at its definition in
`JobSystemProperties` or in the module of its component.  `LiveWorkIsCurrent` is the central one for
crash safety: it lists every way in which a container may run that the table
does not count as RUNNING.  There are three: a cancel that overtook the dispatch, a
create that reported an error after it had taken effect, and a timeout whose delete
failed.  `VerdictIsReal` relates rows to the history of executions.  `EveryJobSettles`
has the premise that queued jobs with a bad manifest do not stay; without it the
system has no such property, which `bad_manifest` shows.  `WindowServed` is what is
left of `NoStarvation` (`flood`): a job does not wait for ever while fewer jobs than the window has places are as early
as it, even if all of them wait for their tenant's quota.

Names hold eight characters of the id (main.py:35).  When two ids share them, the 409 that main.py:235 takes for "job
already exists for this attempt" may be for the other's object, and a row is RUNNING for which nothing was dispatched.
`NameWasCreated` is what a 409 does tell, and `OutcomeIsOwn` says how far the confusion goes: such a job may be
FAILED as missing or timed out, but SUCCEEDED and a job error are its own, because
the verdict is looked up by label.  `AttemptRunsOnce` is restricted to behaviours without faults: after a crash between create
and mark, and a TTL collection, an attempt is executed again, and the code promises nothing else.

`RateKept` is the budget of a bucket: what it let through and still holds is at most the burst, its
age times the rate, and the time by which overtaken readings moved it back.  The last term is needed: without
it the property fails, since a call that comes late with an early reading lets the next one be paid for the
same time again.  `RateKept` thus bounds the double refill and does not forbid it.  `RetryAfterKept` is not hurt by overtaking.  With several API processes each has its own buckets,
and both hold per process.  `ContractKept` says that races, timeouts and crashes leave a client with a true
answer or none.  An empty `Idempotency-Key` (`EmptyKey`) is the odd case: it is stored, never looked up, and from
the second time on answered 500 (db.py:95), which `ContractKept` allows although job-lifecycle.md:67 promises the existing job.

Of the counters, `NeverUndercounts` says that none falls behind what it was last synced with, and `CoversTable` that
it was synced with everything: a scheduler's counters cover the table from its first sync on, also after a restart.
They do not count what their help texts say (metrics.py:40 "Total number of succeeded jobs.", :48 "Total number
of retry requeues."), and `CountedAtMostTwice` says by how much they are off.  An outcome counts as the scheduler
writes it (metrics.py:143) and again when the next sync finds the total grown (metrics.py:131): the evidence kept in the
repository shows it, of twenty jobs, ten made to succeed and ten to fail (`docs/evidence/phase3/m3.5`), the scheduler
reported twenty and twenty.  And `record_retry` (main.py:287) does not ask whether `mark_job_for_retry` changed the row, so that
a retry that a cancel prevented counts, once (`Prevented`).  Nothing else does.  The API has one source only and counts
once, as long as no two of its scrapes overlap (`SingleScrapeCountsOnce`).  The premise is needed: totals are read before the
lock is taken (metrics.py:124), so a scrape with older totals may come later and set `_LAST_SYNC_TOTALS` back, and the next one
counts the same growth again.

**Findings**, each with a short counterexample:

1. *A cancel overwrites RUNNING* (`cancel_running`).  `cancel_job` checks for QUEUED
   (main.py:419) and writes with an UPDATE that names no status (db.py:337).  If the
   dispatch falls between, a RUNNING row becomes CANCELED and its container runs on.
   The contract forbids this transition and says transitions are guarded by
   `WHERE status = ...` (job-lifecycle.md:62, :69).  The write may hit a SUCCEEDED or FAILED row
   as well.
2. *A bad manifest stops everything* (`bad_manifest`).  An exception in
   `_build_k8s_job_manifest` (main.py:53, unknown key in `resources`) is outside the
   `try`; the process dies, and dies again on the same job after each restart, before it
   reconciles anything.
3. *Duplicates starve the pool* (`duplicate`).  `create_job` keeps its connection while it looks up the row that
   stood in its way (db.py:97) through another one.  As many duplicates at once as the pool has
   connections wait for each other until the pool's timeout, and a client gets 500 where the contract
   promises the existing job (job-lifecycle.md:67).  `EveryRequestAnswered` holds: the timeout ends the wait.
4. *A refused create fails a job that never ran* (`refused_create`).  main.py:238 writes FAILED over QUEUED, or over a
   CANCELED that came in between, with an UPDATE that names no status (db.py:326).  The contract
   forbids both transitions (job-lifecycle.md:60-61).
5. *A flood starves another tenant* (`flood`).  Candidates are the first `dispatch_batch_size * candidate_multiplier`
   rows by priority and age (main.py:132, db.py:169), whoever owns them.  A tenant at its quota with that many queued jobs
   hides every later one.  phase4.md:120 claims "No starvation when one tenant floods
   submissions."; reflection.md:1059 narrows it to the window, which is `WindowServed`.

## 4. Proofs

Every invariant that a run checks, every action property and both refinements are proved, for every value of the
constants.  Liveness is not: see the end of this section.

The proofs assume what the modules assume of their constants, and nothing more but where it is said:
finitely many jobs, each with a tenant and an integer priority (`JobsAssumption`); naturals for policies, clock and
limits (`PolicyAssumption`, `TimeAssumption`, `SchedulerAssumption`); `EndsAssumption`; and that `Null` is not the text of
an error (`ErrorsAssumption`: `last_error` is SQL NULL or a text, and the scheduler writes a text with every failure, main.py:239,
:256, :262-297, :348).  The numbers of jobs, faults, cancel threads,
retries and ticks are any.

**`JobSystemProofs`** (of `JobSystem`).

- `TypeCorrect`, `Spec => []TypeOK`.  `TypeOK` alone is not inductive: `Tail(work)` is only a sequence if
  `work` is not empty, and `counted[t] + 1` a number only if the tenant was counted.
  `TypeInv` adds `CurrentExists` (a `pc` at a call about a job has a job) and
  `Admitted` (a job past the quota check has been counted below the quota).
- `QuotaKept`, `Spec => []TenantQuota`.  The invariant that carries it is `CountIsBound`: as long as
  an entry of `running_by_tenant` exists, the table's count is not above it.  Only the scheduler
  makes a row RUNNING, and it does so together with the increment; everybody else's
  writes only lower the count.  With `Admitted`, marking a row keeps it at
  `TENANT_MAX_RUNNING` at most.  The argument depends on a single scheduler.
- `NoReopening`, `Spec => NeverReopened`.  The unguarded writes can replace one terminal status by
  another, but every write that makes a row QUEUED or RUNNING has a guard that a
  terminal row fails.

**`JobSystemPassProofs`.**  A pass acts on rows it read some calls ago.  `PassInv` says what is still true of them: of a
candidate (`Waiting`) and of a row under reconciliation (`Watched`) the attempts are those of the snapshot, and the
status is, unless a cancel came between.  It needs that a pass lists a job once (`OneEach`), since the scheduler's
own write is the one that would make the second entry stale.  `RowsSound` adds that a QUEUED row is fresh or has a
retry left, which `attempts < max_retries` establishes only because the row still has the attempts of the snapshot.
From `HistoryInv` (both together):

- `BudgetKept` (`AttemptBudget`) and `BackoffKept` (`NotBeforeBackoff`);
- `ImplementsLifecycle`, `Spec => LifecycleRefined`: each action is one of the forms in which a statement changes a
  row (`Inserted`, `Overwritten`, `Begun`, `Left`), and each form is a step of `JobLifecycle` or a stutter.
  Late cancels need that a job asked to be canceled exists (`AskedExist`); a failed create needs that the row at `reject`
  is still QUEUED or was canceled, which the pass's invariant gives (`Refused`).

**`JobSystemClusterProofs`.**  Here the table and the cluster meet.  `SingleExecution` and `LiveWorkIsCurrent` are not
inductive: nothing in them says that the attempt a pass is about to create is the one a live object already has, nor that
what a probe saw still holds when the verdict is written.  `ClusterInv` adds that two objects never have the same labels
(`OneObject`), that what finished is recorded (`FinishedRecorded`), that no object is of an attempt beyond the next one
(`WithinCount`), that what runs of a candidate is the attempt the pass would start (`LiveIsNext`), and that a
verdict stays true (`VerdictHolds`).  Results: `ExecutesAlone` and `LiveWorkAccounted`, also when names collide.

**`JobSystemOutcomeProofs`.**

- `NamesCreated` (`NameWasCreated`), for any names: a `pc` at the mark has an object of the name behind it
  (`MarkNamed`), and an object is never lost without a record of how it ended.
- `OutcomesOwn` (`OutcomeIsOwn`), for any names: the verdict comes from an object with the job's own labels, and
  what finished is recorded (`FinishedRecorded`, `VerdictHolds`).
- `VerdictsReal` (`VerdictIsReal`), for jobs whose object names differ (`NamesDiffer`, its hypothesis).  It is needed: it
  also speaks of "missing", which with a shared name is reported for a job that had no object.
  Under the same hypothesis a RUNNING row has an object of its own (`RunningWasCreated`), which is a step of this
  proof and no result: two ids may share their first eight characters.
  `OutcomeInv` adds that a `pc` at the mark has a created object behind it, and that an execution was only
  deleted behind a row past its deadline, which it stays until `ExpireJob` writes it, also over a crash (`DeletedLate`).
- `RunsOnce` (`AttemptRunsOnce`), for any names.  `OnceInv` speaks of the behaviours in which no
  call has failed yet.  It adds that the next attempt of a QUEUED row has not been created before, but between
  `create` and `mark` (`NextIsNew`), and the same of the candidates of the pass, canceled or not (`CandidateIsNew`).

**`RoundRobinProofs`** (of `RoundRobinLoop`).  `LoopInv` relates the loop to the closed form: while grouping, a group
holds the tenant's candidates seen so far, and `tenant_order` is in the order of first candidates; from
the rotation on, the k-th job of a group is the one of the k-th round from now (`GroupsInv`), the tenants are in the
order of `TenantBefore` (`InTurn`), and some number of rounds is over, the tenants before
`next_tenant` having had one more turn (`RoundsInv`).  So a job that is appended comes after all before it.

- `OrdersRoundRobin` (`ReturnsRoundRobin`): for every page and every cursor.  This is what lets `Scheduler` use
  `IsRoundRobin` in place of the loop.
- `SharesEqually` (`EqualShares`).

**`RateLimiterProofs`** (of `RateLimiter`), from `LimiterAssumption` (positive naturals for unit, rate, burst
and second), for every number of threads, every tenant and any length of time:

- `LimiterTypeCorrect` and `RateLimitKept`.  `RateKept` is inductive with the type: when a call moves `last` to
  its reading, the age of the bucket with what it was moved back grows by exactly the time the call was paid for
  (`AgeGrows`), whether the reading is later or earlier.
- `RetryAfterHonoured`.  `RetryAfterKept` needs the invariant `PromiseCovered`: a bucket's tokens and its refill up to
  the promised time make a token.  A refusal makes the promise true because the period is rounded up
  (`RetryAfterSuffices`), and later refusals keep it because an uncapped refill loses nothing
  (`RefusalKeepsCover`).

**`SubmitPathProofs`** (of `SubmitPath`), for any number of threads, connections, requests and faults:

- `SubmitTypeCorrect`.
- `LimiterAmongSubmits`: the submit path implements the limiter's specification, so its two properties hold in it.
- `KeepsContract`, `SubmitSpec => ContractKept`: every step is a step of `SubmitContract` or a stutter.  A
  thread that answers must know whose row it found.  `SubmitInv` says so: the row has the thread's key
  (`ThreadSound`), or, without a key, nobody else knows it and nobody was given it (`RowIsOwn`).  Then 201
  names a job made for this request, and no two answers without a key name one job.

**`MetricsProofs`** (of `Metrics`).  The invariants of the system are carried over to the system with its registries (`KeptInv`),
where the API's process may also forget.

- `MetricsTypeCorrect` (`MetricsTypeOK`) and `ExportsNoLess` (`NeverUndercounts`).
- `CountsTwiceAtMost` (`CountedAtMostTwice`).  `Noted` says what `happened` has to do with the rows: a row that shows an
  outcome has become it, the retries of a row are requeues that happened, and a row past an attempt was requeued after
  it.  Syncs add at most the total they remember, which is at most what happened.  Events add one for each thing that happens, which
  is new because the row says that it had not happened yet; a prevented retry is charged to its CANCELED row, of which no pass
  will look again (`Spared`).  `Tallies` adds the two up.
- `SingleScrapesCountOnce` (`SingleScrapeCountsOnce`).  With one scrape at a time, what it read is not older than
  what was last synced, except for rows a cancel has overwritten.  `ScrapeInv` bounds the counter and what a pending
  scrape will add, for statuses by the rows that have become it, for retries by the rows' own.
- `SchedulerCoversTable` (`CoversTable`).  A scheduler step adds at most one row to a total, and it is the step that counts it
  (`OneMoreShown`); all others only take away.

Totals are cardinalities, compared by inclusion and by injections.

Each module is laid out as lemmas about the statements or the operators, one lemma for a group of actions, and a
final temporal step.  Every strengthening was checked with TLC, as an invariant of the run of its component, before it
was proved.

Only model-checked: liveness (`EveryJobSettles`, `WindowServed`, `OutcomeIsWritten`, `Returns`,
`EveryRequestAnswered`), since fairness and ENABLED are out of this prover's reach; and the five violations, which are
counterexamples.

## 5. Not modelled

- Gauges, the counters of dispatch decisions, quota blocks and rate-limited requests, and the latency histogram:
  they are set or advanced once per event and nothing reads them.
- The headers `X-Tenant-Id`, `X-Submitted-By` and `X-Request-Id` and the conversion of rows to answers: pure functions of one
  request or row.  The caps are the set `OverCaps`.
- The get and list endpoints, which read one statement and change nothing.
- The construction of limiter and repository by the first requests of a process (`lru_cache`).
- Several API processes: each has its own buckets, pool and registry; their rows are those of one with more threads.
- Two schedulers.  The Deployment sets one replica (`k8s/job-system/scheduler-deployment.yaml:9`);
  a rolling update may overlap two, see the plan.
- Loss of the database (it has no persistent volume), which ends every promise.
- Clock differences between processes.
- The earlier phases of the repository (model server, worker, experiments), packaging and scripts.

## 6. Plan

All safety properties of section 3 are proved.  What is left, the most important first.

1. What the liveness runs lean on, as far as safety can say it: that a pass is never stuck, that each of its steps
   shortens `work` or moves on, and that a settled job is never looked at again, so that a bound on
   a pass's steps is proved and only the fairness argument stays with TLC.
2. `SchedulerOverlap`: two scheduler processes over one table, to show which properties of section 3 survive; the
   repository does not support it yet (docs/operations/scaling-and-ha.md:14).
