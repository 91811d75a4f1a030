------------------------------ MODULE Cluster -------------------------------
(***************************************************************************)
(* The Kubernetes API as the scheduler uses it (external): a set of Job    *)
(* objects, one per (job-id, attempt) label pair the scheduler wrote, each *)
(* with the phase its status reports.                                      *)
(*                                                                         *)
(* The manifest sets backoffLimit 0 and restartPolicy Never, so an object  *)
(* ends once; ttlSecondsAfterFinished then lets the TTL controller remove  *)
(* it.  ended is a history variable: how each execution ended.             *)
(***************************************************************************)
EXTENDS JobModel

CONSTANTS
    NamePrefix,   \* what _build_k8s_job_manifest puts of the id in the name
    Ends          \* the ways the container of a job can end; {}: it hangs

ASSUME EndsAssumption == Ends \in [Jobs -> SUBSET {"succeeded", "failed"}]

VARIABLES
    objects,   \* the Job objects of the namespace
    ended      \* history: the executions that ended, and how

clusterVars == <<objects, ended>>

Phase == {"active", "succeeded", "failed"}

Object == [job: Jobs, attempt: Nat, phase: Phase]

ClusterTypeOK ==
    /\ objects \subseteq Object
    /\ ended \subseteq [job: Jobs, attempt: Nat, how: {"succeeded", "failed", "deleted"}]

ClusterInit ==
    /\ objects = {}
    /\ ended = {}

\* Mutant: the attempt is left out of the selector.
LabelledAnyAttempt(j, a) == {o \in objects : o.job = j}

\* Mutant: a job is looked up by its name.
LabelledByName(j, a) ==
    {o \in objects : NamePrefix[o.job] = NamePrefix[j] /\ o.attempt = a}

\* The label selector job-id=j, attempt=a.
Labelled(j, a) == {o \in objects : o.job = j /\ o.attempt = a}

\* The objects that have the name of j's attempt a, whoever they belong to.
Named(j, a) ==
    {o \in objects : NamePrefix[o.job] = NamePrefix[j] /\ o.attempt = a}

\* The API server refuses a second object of one name with 409.
NameTaken(j, a) == Named(j, a) # {}

CreateObject(j, a) ==
    /\ ~NameTaken(j, a)
    /\ objects' = objects \cup {[job |-> j, attempt |-> a, phase |-> "active"]}
    /\ UNCHANGED ended

\* Propagation "Background": the object goes at once, its pod after it.
DeleteObject(o) ==
    /\ objects' = objects \ {o}
    /\ ended' = IF o.phase # "active" THEN ended
                ELSE ended \cup {[job |-> o.job, attempt |-> o.attempt,
                                  how |-> "deleted"]}

\* The container of o ends and the Job controller reports it.
Finish(o) ==
    /\ o.phase = "active"
    /\ \E how \in Ends[o.job] :
        /\ objects' = (objects \ {o}) \cup {[o EXCEPT !.phase = how]}
        /\ ended' = ended \cup {[job |-> o.job, attempt |-> o.attempt,
                                 how |-> how]}

\* The TTL controller removes a finished object.
Expire(o) ==
    /\ o.phase # "active"
    /\ objects' = objects \ {o}
    /\ UNCHANGED ended
=============================================================================
