----------------------------- MODULE MCMetrics -----------------------------
(***************************************************************************)
(* Small instances of Metrics for TLC.                                     *)
(***************************************************************************)
EXTENDS Metrics

CONSTANTS j1, t1

Owner == [j \in Jobs |-> t1]
Zero == [j \in Jobs |-> 0]
Three == [j \in Jobs |-> 3]
OwnName == [j \in Jobs |-> j]
AnyEnd == [j \in Jobs |-> {"succeeded", "failed"}]

Alike == Permutations(Scrapers)
=============================================================================
