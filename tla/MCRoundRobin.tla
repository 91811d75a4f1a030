---------------------------- MODULE MCRoundRobin ----------------------------
(***************************************************************************)
(* A small instance of RoundRobinLoop for TLC: a tenant with three jobs,   *)
(* two with one, one that never has a candidate.                           *)
(***************************************************************************)
EXTENDS RoundRobinLoop

CONSTANTS j1, j2, j3, j4, j5, t1, t2, t3, t4

Owners == [j \in Jobs |-> CASE j = j4 -> t2 [] j = j5 -> t3 [] OTHER -> t1]
Zero == [j \in Jobs |-> 0]
=============================================================================
