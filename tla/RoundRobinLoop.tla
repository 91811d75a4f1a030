--------------------------- MODULE RoundRobinLoop ---------------------------
(***************************************************************************)
(* The loops of _order_dispatchable_jobs_round_robin, src/services/        *)
(* scheduler/main.py, one iteration a step, for every page of candidates   *)
(* and every cursor.  RoundRobin states the order they are to produce.     *)
(***************************************************************************)
EXTENDS RoundRobin, SequencesExt

VARIABLES
    page,          \* the argument jobs
    cursor,        \* _rr_last_tenant
    grouped,       \* how many of the page the first loop has seen
    groups,        \* groups, with an empty list for a tenant not in the dict
    tenant_order,
    ordered,
    pending,
    next_tenant,   \* position of the for loop in tenant_order
    at             \* the loop the function is in

vars == <<page, cursor, grouped, groups, tenant_order, ordered, pending,
          next_tenant, at>>

Pages == {p \in SeqOf(Jobs, Cardinality(Jobs)) : IsInjective(p)}

Init ==
    /\ page \in Pages
    /\ cursor \in Tenants \cup {Null}
    /\ grouped = 0
    /\ groups = [t \in Tenants |-> <<>>]
    /\ tenant_order = <<>>
    /\ ordered = <<>>
    /\ pending = FALSE
    /\ next_tenant = 1
    /\ at = "group"

GroupJob ==
    LET job == page[grouped + 1]
        tenant == TenantOf[job]
    IN
    /\ at = "group"
    /\ grouped < Len(page)
    /\ grouped' = grouped + 1
    /\ groups' = [groups EXCEPT ![tenant] = Append(@, job)]
    /\ tenant_order' = IF Contains(tenant_order, tenant) THEN tenant_order
                       ELSE Append(tenant_order, tenant)
    /\ UNCHANGED <<page, cursor, ordered, pending, next_tenant, at>>

\* Mutant: tenant_order[idx :] + tenant_order[: idx].
RotationOffByOne(order, last) ==
    LET idx == SelectInSeq(order, LAMBDA t : t = last)
    IN SubSeq(order, idx, Len(order)) \o SubSeq(order, 1, idx - 1)

\* tenant_order[idx + 1 :] + tenant_order[: idx + 1]
Rotation(order, last) ==
    LET idx == SelectInSeq(order, LAMBDA t : t = last)
    IN SubSeq(order, idx + 1, Len(order)) \o SubSeq(order, 1, idx)

Rotate ==
    /\ at = "group"
    /\ grouped = Len(page)
    /\ tenant_order' = IF Contains(tenant_order, cursor)
                       THEN Rotation(tenant_order, cursor) ELSE tenant_order
    /\ at' = "rounds"
    /\ UNCHANGED <<page, cursor, grouped, groups, ordered, pending, next_tenant>>

\* Mutant: a tenant is served until its bucket is empty.
DrainTenant ==
    LET tenant == tenant_order[next_tenant] IN
    /\ at = "rounds"
    /\ next_tenant <= Len(tenant_order)
    /\ \/ /\ groups[tenant] = <<>>
          /\ next_tenant' = next_tenant + 1
          /\ UNCHANGED <<groups, ordered, pending>>
       \/ /\ groups[tenant] # <<>>
          /\ ordered' = Append(ordered, Head(groups[tenant]))
          /\ groups' = [groups EXCEPT ![tenant] = Tail(@)]
          /\ pending' = TRUE
          /\ UNCHANGED next_tenant
    /\ UNCHANGED <<page, cursor, grouped, tenant_order, at>>

VisitTenant ==
    LET tenant == tenant_order[next_tenant] IN
    /\ at = "rounds"
    /\ next_tenant <= Len(tenant_order)
    /\ next_tenant' = next_tenant + 1
    /\ \/ groups[tenant] = <<>> /\ UNCHANGED <<groups, ordered, pending>>
       \/ /\ groups[tenant] # <<>>
          /\ ordered' = Append(ordered, Head(groups[tenant]))
          /\ groups' = [groups EXCEPT ![tenant] = Tail(@)]
          /\ pending' = TRUE
    /\ UNCHANGED <<page, cursor, grouped, tenant_order, at>>

\* Mutant: pending is not reset when a round begins.
EndRoundStillPending ==
    /\ at = "rounds"
    /\ next_tenant > Len(tenant_order)
    /\ at' = IF pending THEN "rounds" ELSE "done"
    /\ next_tenant' = 1
    /\ UNCHANGED <<page, cursor, grouped, groups, tenant_order, ordered, pending>>

\* while pending: pending = False
EndRound ==
    /\ at = "rounds"
    /\ next_tenant > Len(tenant_order)
    /\ at' = IF pending THEN "rounds" ELSE "done"
    /\ pending' = FALSE
    /\ next_tenant' = 1
    /\ UNCHANGED <<page, cursor, grouped, groups, tenant_order, ordered>>

Returned == at = "done" /\ UNCHANGED vars

Next == GroupJob \/ Rotate \/ VisitTenant \/ EndRound \/ Returned

\* A function call runs until it returns.
Spec == Init /\ [][Next]_vars /\ WF_vars(Next)

-----------------------------------------------------------------------------
\* The list returned is the round-robin order of the page.
ReturnsRoundRobin == at = "done" => IsRoundRobin(ordered, page, cursor)

Taken(t) == Cardinality({i \in DOMAIN ordered : TenantOf[ordered[i]] = t})

\* At every prefix of the list, no tenant is more than one job ahead of a
\* tenant with candidates left, and a tenant dispatched last in the pass
\* before is not ahead of such a tenant at all.
EqualShares ==
    at # "group" => \A t, u \in Tenants :
        groups[t] # <<>> =>
            /\ Taken(u) <= Taken(t) + 1
            /\ u = cursor => Taken(u) <= Taken(t)

\* The while loop ends.
Returns == <>(at = "done")
=============================================================================
