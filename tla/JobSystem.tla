----------------------------- MODULE JobSystem ------------------------------
(***************************************************************************)
(* The whole job system: the HTTP API's submit and cancel handlers, the    *)
(* scheduler, the jobs table they share and the Kubernetes cluster, under  *)
(* a clock.                                                                *)
(***************************************************************************)
EXTENDS Scheduler

CONSTANT CancelHandlers   \* threads that may serve a cancel request at once

VARIABLE canceling        \* the job each of them read as QUEUED; Null: idle

vars == <<systemVars, canceling>>

TypeOK ==
    /\ RepoTypeOK
    /\ ClusterTypeOK
    /\ SchedulerTypeOK
    /\ canceling \in [CancelHandlers -> Jobs \cup {Null}]

Init ==
    /\ RepoInit
    /\ ClusterInit
    /\ SchedulerInit
    /\ canceling = [h \in CancelHandlers |-> Null]

-----------------------------------------------------------------------------
(* src/services/api/main.py                                                *)

\* submit_job: a request that creates a row.
SubmitJob(j) ==
    /\ jobs[j].status = "ABSENT"
    /\ jobs' = CreateJob(j)
    /\ UNCHANGED <<now, clusterVars, schedulerVars, canceling>>

\* Mutant: the status is not looked at before the write.
CancelReadAnyStatus(h, j) ==
    /\ canceling[h] = Null
    /\ jobs[j].status # "ABSENT"
    /\ canceling' = [canceling EXCEPT ![h] = j]
    /\ UNCHANGED systemVars

\* cancel_job: the row is read and, when QUEUED, written by a later call.
\* A request for any other row is answered 404 or 409 and changes nothing.
CancelRead(h, j) ==
    /\ canceling[h] = Null
    /\ jobs[j].status = "QUEUED"
    /\ canceling' = [canceling EXCEPT ![h] = j]
    /\ UNCHANGED systemVars

CancelWrite(h) ==
    LET j == canceling[h] IN
    /\ j # Null
    /\ jobs' = UpdateJobStatusForTenant(TenantOf[j], j, "CANCELED", Null)
    /\ canceling' = [canceling EXCEPT ![h] = Null]
    /\ UNCHANGED <<now, clusterVars, schedulerVars>>

API ==
    \/ \E j \in Jobs : SubmitJob(j)
    \/ \E h \in CancelHandlers : CancelWrite(h) \/ \E j \in Jobs : CancelRead(h, j)

-----------------------------------------------------------------------------
ContainerEnds(j) ==
    /\ \E o \in objects : o.job = j /\ Finish(o)
    /\ UNCHANGED <<repoVars, schedulerVars, canceling>>

TtlExpires ==
    /\ \E o \in objects : Expire(o)
    /\ UNCHANGED <<repoVars, schedulerVars, canceling>>

ClockTicks == Tick /\ UNCHANGED <<clusterVars, schedulerVars, canceling>>

SchedulerRuns == SchedulerStep /\ UNCHANGED canceling

SchedulerCrashes == Crash /\ UNCHANGED canceling

Next ==
    \/ API
    \/ SchedulerRuns
    \/ SchedulerCrashes
    \/ \E j \in Jobs : ContainerEnds(j)
    \/ TtlExpires
    \/ ClockTicks

Spec == Init /\ [][Next]_vars

\* The scheduler thread keeps running and is restarted when it dies, a
\* container that can end does, time passes.  Nobody has to submit or
\* cancel, nothing has to fail, the TTL controller may take its time.
Fairness ==
    /\ WF_vars(SchedulerRuns)
    /\ WF_vars(ClockTicks)
    /\ \A j \in Jobs : WF_vars(ContainerEnds(j))

FairSpec == Spec /\ Fairness
=============================================================================
