------------------------------ MODULE JobModel ------------------------------
(***************************************************************************)
(* A job as src/pkg/job_system/models.py and the jobs table hold it.       *)
(*                                                                         *)
(* What the submitter fixed for good (tenant, priority, retry policy,      *)
(* timeout) is a CONSTANT function of the job; what a transition rewrites  *)
(* is a row.  Image, command, environment, request metadata and the        *)
(* columns no transition reads (queued_at, updated_at, finished_at,         *)
(* desired_status) are left out.                                           *)
(***************************************************************************)
EXTENDS Integers, FiniteSets

CONSTANTS
    Jobs,             \* job ids (UUIDs)
    Tenants,          \* tenant ids
    TenantOf,         \* tenant_id of a job
    PriorityOf,       \* priority of a job
    MaxRetries,       \* max_retries of a job
    BackoffSeconds,   \* backoff_seconds of a job, in clock ticks
    TimeoutSeconds,   \* timeout_seconds of a job, in clock ticks; 0: none
    Horizon,          \* last tick of the clock (BOUND)
    Null              \* SQL NULL and Python None

ASSUME JobsAssumption ==
    /\ IsFiniteSet(Jobs)
    /\ TenantOf \in [Jobs -> Tenants]
    /\ PriorityOf \in [Jobs -> Int]

ASSUME PolicyAssumption ==
    /\ MaxRetries \in [Jobs -> Nat]
    /\ BackoffSeconds \in [Jobs -> Nat]
    /\ TimeoutSeconds \in [Jobs -> Nat]

ASSUME TimeAssumption ==
    /\ Horizon \in Nat
    /\ Null \notin Nat

-----------------------------------------------------------------------------
Times == 0..Horizon

\* A deadline t.  The last tick stands for all the time after the horizon,
\* so that a deadline beyond it still comes.
At(t) == IF t > Horizon THEN Horizon ELSE t

\* The CHECK constraint on jobs.status; ABSENT: there is no such row yet.
Terminal == {"SUCCEEDED", "FAILED", "CANCELED"}
Status == {"ABSENT", "QUEUED", "RUNNING"} \cup Terminal

\* last_error, by the place that writes it: a refused create (main.py:239), a
\* missing object (:256), the reason Kubernetes gives of a failure, whose text
\* is left out (:276, :297), and _handle_timeout (:348).
Errors == {"create_failed", "missing", "job_failed", "timeout"}

ASSUME ErrorsAssumption == Null \notin Errors

\* created_at is the rank of the INSERT: two rows never share a timestamp.
Row == [status: Status,
        attempts: Nat,
        created_at: Nat,
        next_retry_at: Times \cup {Null},
        started_at: Times \cup {Null},
        last_error: Errors \cup {Null}]

NoRow == [status |-> "ABSENT",
          attempts |-> 0,
          created_at |-> 0,
          next_retry_at |-> Null,
          started_at |-> Null,
          last_error |-> Null]
=============================================================================
