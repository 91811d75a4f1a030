----------------------------- MODULE RoundRobin -----------------------------
(***************************************************************************)
(* The order in which _order_dispatchable_jobs_round_robin, src/services/  *)
(* scheduler/main.py, hands a page of candidates to the dispatch loop, in  *)
(* closed form: round by round, in each round one job of every tenant that *)
(* has one left, tenants in the order of their first candidate, rotated so *)
(* that the tenant dispatched last comes last.  RoundRobinLoop is the loop *)
(* the code runs; it is checked to produce this order.                     *)
(***************************************************************************)
EXTENDS JobModel, Sequences

\* A page lists a job once.
Position(page, j) == CHOOSE i \in DOMAIN page : page[i] = j

FirstOf(page, t) ==
    CHOOSE i \in DOMAIN page :
        /\ TenantOf[page[i]] = t
        /\ \A k \in 1..(i - 1) : TenantOf[page[k]] # t

\* The round in which j is taken: how many of its tenant's candidates the
\* page lists up to j (bucket.pop(0) keeps their order).
Round(page, j) ==
    Cardinality({i \in 1..Position(page, j) : TenantOf[page[i]] = TenantOf[j]})

\* The rotation puts the tenants up to the cursor's behind the others.
Rotated(page, cursor, t) ==
    /\ \E i \in DOMAIN page : TenantOf[page[i]] = cursor
    /\ FirstOf(page, t) <= FirstOf(page, cursor)

TenantBefore(page, cursor, t, u) ==
    \/ ~Rotated(page, cursor, t) /\ Rotated(page, cursor, u)
    \/ /\ Rotated(page, cursor, t) = Rotated(page, cursor, u)
       /\ FirstOf(page, t) < FirstOf(page, u)

TakenBefore(page, cursor, a, b) ==
    \/ Round(page, a) < Round(page, b)
    \/ /\ Round(page, a) = Round(page, b)
       /\ TenantBefore(page, cursor, TenantOf[a], TenantOf[b])

IsRoundRobin(order, page, cursor) ==
    /\ Len(order) = Len(page)
    /\ {order[i] : i \in DOMAIN order} = {page[i] : i \in DOMAIN page}
    /\ \A i, k \in DOMAIN order :
          i < k => TakenBefore(page, cursor, order[i], order[k])
=============================================================================
