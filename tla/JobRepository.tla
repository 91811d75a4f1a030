--------------------------- MODULE JobRepository ----------------------------
(***************************************************************************)
(* The jobs table and the methods of JobRepository, src/pkg/job_system/    *)
(* db.py.  A method is one SQL statement in one transaction, so each       *)
(* operator below is one atomic read or write of the table; callers        *)
(* interleave between them.                                                *)
(*                                                                         *)
(* A transition is its WHERE clause and its SET clause apart: the guarded  *)
(* ones return None, and change nothing, when the clause does not hold.    *)
(***************************************************************************)
EXTENDS JobModel, Sequences, SequencesExt

VARIABLES
    jobs,   \* the table: [Jobs -> Row]
    now     \* the clock the processes read: 0..Horizon

repoVars == <<jobs, now>>

IsTable(table) ==
    /\ table \in [Jobs -> Row]
    /\ \A j \in Jobs :
          table[j].status = "QUEUED" => table[j].next_retry_at \in Times

RepoTypeOK == IsTable(jobs) /\ now \in Times

RepoInit ==
    /\ jobs = [j \in Jobs |-> NoRow]
    /\ now = 0

Tick ==
    /\ now < Horizon
    /\ now' = now + 1
    /\ UNCHANGED jobs

-----------------------------------------------------------------------------
(* Reads.                                                                  *)

HasStatus(s) == {j \in Jobs : jobs[j].status = s}

Running(t) == {j \in HasStatus("RUNNING") : TenantOf[j] = t}

CountRunningJobsByTenant(t) == Cardinality(Running(t))

\* COALESCE(next_retry_at, queued_at, created_at): both statements that make
\* a row QUEUED set next_retry_at, so its fallbacks are never reached.
ReadyAt(j) == jobs[j].next_retry_at

\* Mutant: the backoff is not looked at.
DispatchableAtOnce == HasStatus("QUEUED")

Dispatchable == {j \in HasStatus("QUEUED") : ReadyAt(j) <= now}

\* ORDER BY priority DESC, ready ASC, created_at ASC.  Ticks are coarser than
\* the timestamps, so of two jobs ready at one tick, one of them after a
\* retry, either may come first.
DispatchedBefore(a, b) ==
    \/ PriorityOf[a] > PriorityOf[b]
    \/ /\ PriorityOf[a] = PriorityOf[b]
       /\ \/ ReadyAt(a) < ReadyAt(b)
          \/ /\ ReadyAt(a) = ReadyAt(b)
             /\ jobs[a].attempts = 0
             /\ jobs[b].attempts = 0
             /\ jobs[a].created_at < jobs[b].created_at

CreatedAfter(a, b) == jobs[a].created_at > jobs[b].created_at

\* page is the first limit members of rows, in an order that respects Before.
IsPage(page, rows, limit, Before(_, _)) ==
    LET listed == {page[i] : i \in DOMAIN page} IN
    /\ listed \subseteq rows
    /\ Cardinality(listed) = Len(page)
    /\ Len(page) = limit \/ listed = rows
    /\ \A i, k \in DOMAIN page : i < k => ~Before(page[k], page[i])
    /\ \A j \in rows \ listed : \A i \in DOMAIN page : ~Before(j, page[i])

ListDispatchableJobs(page, limit) ==
    IsPage(page, Dispatchable, limit, DispatchedBefore)

\* list_jobs(status="RUNNING", limit): newest first.
ListRunningJobs(page, limit) ==
    IsPage(page, HasStatus("RUNNING"), limit, CreatedAfter)

-----------------------------------------------------------------------------
(* Writes: the table after the statement.                                  *)

CreateJob(j) ==
    [jobs EXCEPT ![j] = [NoRow EXCEPT
        !.status = "QUEUED",
        !.created_at = Cardinality(Jobs \ HasStatus("ABSENT")) + 1,
        !.next_retry_at = now]]

\* Mutant: the WHERE clause only keeps a RUNNING row from starting twice.
MarksUnlessRunning(j) == jobs[j].status # "RUNNING"

MarksRunning(j) == jobs[j].status = "QUEUED"

MarkJobRunning(j) ==
    [jobs EXCEPT ![j].status = "RUNNING",
                 ![j].started_at = now,
                 ![j].attempts = @ + 1]

MarksFromRunning(j) == jobs[j].status = "RUNNING"

\* Mutant: the attempt that failed is given back.
MarkJobForRetryRefunded(j, error, retry_at) ==
    IF ~MarksFromRunning(j) THEN jobs
    ELSE [jobs EXCEPT ![j].status = "QUEUED",
                      ![j].attempts = @ - 1,
                      ![j].last_error = error,
                      ![j].next_retry_at = retry_at]

MarkJobForRetry(j, error, retry_at) ==
    IF ~MarksFromRunning(j) THEN jobs
    ELSE [jobs EXCEPT ![j].status = "QUEUED",
                      ![j].last_error = error,
                      ![j].next_retry_at = retry_at]

MarkJobTerminal(j, status, error) ==
    IF ~MarksFromRunning(j) THEN jobs
    ELSE [jobs EXCEPT ![j].status = status,
                      ![j].last_error = error,
                      ![j].next_retry_at = Null]

\* update_job_status and update_job_status_for_tenant have no status in
\* their WHERE clause: they write whatever the row holds.
UpdateJobStatus(j, status, error) ==
    [jobs EXCEPT ![j].status = status, ![j].last_error = error]

UpdateJobStatusForTenant(t, j, status, error) ==
    IF TenantOf[j] # t THEN jobs ELSE UpdateJobStatus(j, status, error)

-----------------------------------------------------------------------------
\* Triangular-number backoff, from the attempts a snapshot reports.
ComputeNextRetryAt(attempts_completed, backoff_seconds) ==
    At(now + (backoff_seconds * attempts_completed
                              * (attempts_completed + 1)) \div 2)
=============================================================================
