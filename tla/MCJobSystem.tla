---------------------------- MODULE MCJobSystem -----------------------------
(***************************************************************************)
(* Small instances of JobSystem for TLC.                                   *)
(***************************************************************************)
EXTENDS JobSystemProperties

CONSTANTS j1, j2, j3, t1, t2

\* Who owns the jobs.
OneTenant == [j \in Jobs |-> t1]
LastJobApart == [j \in Jobs |-> IF j = j3 THEN t2 ELSE t1]

\* Priorities, retry policies, timeouts, names.
Zero == [j \in Jobs |-> 0]
One == [j \in Jobs |-> 1]
Two == [j \in Jobs |-> 2]
Three == [j \in Jobs |-> 3]
OwnName == [j \in Jobs |-> j]
CollidingNames == [j \in Jobs |-> IF j = j3 THEN "js-job-3" ELSE "js-job-1"]

\* How containers end.
AnyEnd == [j \in Jobs |-> {"succeeded", "failed"}]
OthersEnd == [j \in Jobs |-> IF j = j1 THEN {} ELSE {"succeeded", "failed"}]
FirstHangs == [j \in Jobs |-> IF j = j1 THEN {} ELSE {"succeeded"}]
Succeeds == [j \in Jobs |-> {"succeeded"}]
=============================================================================
