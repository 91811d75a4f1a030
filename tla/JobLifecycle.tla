---------------------------- MODULE JobLifecycle ----------------------------
(***************************************************************************)
(* What the job system promises of one job's status and attempts, without  *)
(* tables, clusters or processes.                                          *)
(*                                                                         *)
(* Allowed is the contract of docs/contracts/job-lifecycle.md:53-57 and    *)
(* :79-80, with a cancel in its two halves.  Exception is what the two     *)
(* UPDATEs that name no status (db.py:326, :337) do beyond it: the same    *)
(* document forbids both (:60-62).  Each is confined to its cause: a       *)
(* cancel that was accepted while the job was QUEUED, and a create call    *)
(* that reported an error and has yet to be written down.                  *)
(***************************************************************************)
EXTENDS JobModel

VARIABLES
    status,     \* [Jobs -> Status]
    attempts,   \* [Jobs -> Nat]
    asked,      \* the jobs a cancel request read as QUEUED and has yet to write
    refused     \* the jobs whose create call failed and who have yet to be failed

lifecycleVars == <<status, attempts, asked, refused>>

LifecycleInit ==
    /\ status = [j \in Jobs |-> "ABSENT"]
    /\ attempts = [j \in Jobs |-> 0]
    /\ asked = {}
    /\ refused = {}

Move(j, from, to) ==
    /\ status[j] \in from
    /\ status' = [status EXCEPT ![j] = to]

-----------------------------------------------------------------------------
(* The documented transitions.                                             *)

Submitted(j) ==
    /\ Move(j, {"ABSENT"}, "QUEUED")
    /\ UNCHANGED <<attempts, asked, refused>>

Started(j) ==
    /\ j \notin refused
    /\ Move(j, {"QUEUED"}, "RUNNING")
    /\ attempts' = [attempts EXCEPT ![j] = @ + 1]
    /\ UNCHANGED <<asked, refused>>

Retried(j) ==
    /\ Move(j, {"RUNNING"}, "QUEUED")
    /\ attempts[j] < MaxRetries[j]
    /\ UNCHANGED <<attempts, asked, refused>>

Finished(j) ==
    /\ \E verdict \in {"SUCCEEDED", "FAILED"} : Move(j, {"RUNNING"}, verdict)
    /\ UNCHANGED <<attempts, asked, refused>>

CancelAsked(j) ==
    /\ status[j] = "QUEUED"
    /\ asked' = asked \cup {j}
    /\ UNCHANGED <<status, attempts, refused>>

\* Another request for the same job may still be on its way.
Answered(j) ==
    /\ j \in asked
    /\ asked' \in {asked, asked \ {j}}
    /\ UNCHANGED <<attempts, refused>>

Canceled(j) ==
    /\ Move(j, {"QUEUED"}, "CANCELED")
    /\ Answered(j)

Allowed(j) ==
    \/ Submitted(j) \/ Started(j) \/ Retried(j) \/ Finished(j)
    \/ CancelAsked(j) \/ Canceled(j)

-----------------------------------------------------------------------------
(* The exceptions.                                                         *)

\* The job was dispatched, or has ended, since the cancel was accepted.
CanceledLate(j) ==
    /\ Move(j, {"RUNNING"} \cup Terminal, "CANCELED")
    /\ Answered(j)

\* Nobody writes what a refused create leads to but the process that saw it.
CreateRefused(j) ==
    /\ status[j] \in {"QUEUED", "CANCELED"}
    /\ refused' = refused \cup {j}
    /\ UNCHANGED <<status, attempts, asked>>

RefusalForgotten(j) ==
    /\ refused' = refused \ {j}
    /\ UNCHANGED <<status, attempts, asked>>

\* FAILED without an attempt, also of a job canceled in the meantime.
FailedUncreated(j) ==
    /\ j \in refused
    /\ Move(j, {"QUEUED", "CANCELED"}, "FAILED")
    /\ refused' = refused \ {j}
    /\ UNCHANGED <<attempts, asked>>

Exception(j) ==
    \/ CanceledLate(j)
    \/ CreateRefused(j) \/ RefusalForgotten(j) \/ FailedUncreated(j)

LifecycleNext == \E j \in Jobs : Allowed(j) \/ Exception(j)

LifecycleSpec == LifecycleInit /\ [][LifecycleNext]_lifecycleVars
=============================================================================
