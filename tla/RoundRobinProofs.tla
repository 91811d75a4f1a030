-------------------------- MODULE RoundRobinProofs --------------------------
(***************************************************************************)
(* The loops of RoundRobinLoop produce the order that RoundRobin states,   *)
(* for every page of candidates, every cursor and every set of tenants.    *)
(***************************************************************************)
EXTENDS RoundRobinLoop, FiniteSetTheorems, SequenceTheorems, TLAPS

\* The positions of t's candidates among the first n of the page.
Candidates(t, n) == {i \in 1..n : TenantOf[page[i]] = t}

OnPage(j) == \E i \in DOMAIN page : page[i] = j

Has(order, t) == \E p \in DOMAIN order : order[p] = t

LoopTypeOK ==
    /\ page \in Seq(Jobs) /\ IsInjective(page)
    /\ cursor \in Tenants \cup {Null}
    /\ grouped \in 0..Len(page)
    /\ groups \in [Tenants -> Seq(Jobs)]
    /\ tenant_order \in Seq(Tenants)
    /\ ordered \in Seq(Jobs)
    /\ pending \in BOOLEAN
    /\ next_tenant \in 1..(Len(tenant_order) + 1)
    /\ at \in {"group", "rounds", "done"}

\* The k-th job waiting in the group of a tenant is the one for the k-th
\* round from now.
GroupsInv ==
    \A t \in Tenants : \A k \in DOMAIN groups[t] :
        LET j == groups[t][k] IN
        /\ OnPage(j) /\ TenantOf[j] = t
        /\ Round(page, j) = Taken(t) + k

\* No candidate is lost.
NoneLost ==
    \A i \in 1..grouped :
        \/ \E k \in DOMAIN ordered : ordered[k] = page[i]
        \/ \E k \in DOMAIN groups[TenantOf[page[i]]] :
              groups[TenantOf[page[i]]][k] = page[i]

\* The tenants are those of the candidates seen.
TenantsSeen ==
    \A t \in Tenants : Has(tenant_order, t) <=> Candidates(t, grouped) # {}

\* While grouping: tenants in the order of their first candidate.
IsFirst(t, i) ==
    /\ i \in 1..grouped
    /\ TenantOf[page[i]] = t
    /\ \A k \in 1..(i - 1) : TenantOf[page[k]] # t

Grouping ==
    at = "group" =>
        /\ ordered = <<>> /\ ~pending /\ next_tenant = 1
        /\ \A t \in Tenants : Len(groups[t]) = Cardinality(Candidates(t, grouped))
        /\ \A p \in DOMAIN tenant_order : \E i \in DOMAIN page : IsFirst(tenant_order[p], i)
        /\ \A p, q \in DOMAIN tenant_order :
              p < q => FirstOf(page, tenant_order[p]) < FirstOf(page, tenant_order[q])

\* From then on: rotated, the tenant dispatched last at the end.
InTurn ==
    at # "group" =>
        /\ grouped = Len(page)
        /\ IsInjective(tenant_order)
        /\ \A p, q \in DOMAIN tenant_order :
              p < q => TenantBefore(page, cursor, tenant_order[p], tenant_order[q])
        /\ \A p \in DOMAIN tenant_order :
              tenant_order[p] = cursor => p = Len(tenant_order)

\* What is ordered is ordered, and of the rounds its tenant has taken.
OrderedInv ==
    /\ IsInjective(ordered)
    /\ \A i \in DOMAIN ordered :
          /\ OnPage(ordered[i])
          /\ Round(page, ordered[i]) <= Taken(TenantOf[ordered[i]])
    /\ \A i, k \in DOMAIN ordered :
          i < k => TakenBefore(page, cursor, ordered[i], ordered[k])

\* r rounds are over, and the tenants before next_tenant had their turn in
\* the next one.
Turns(r, p) == IF p < next_tenant THEN r + 1 ELSE r

RoundsInv ==
    at = "rounds" =>
        \E r \in Nat : \A p \in DOMAIN tenant_order :
            LET t == tenant_order[p] IN
            /\ Taken(t) <= Turns(r, p)
            /\ groups[t] # <<>> => Taken(t) = Turns(r, p)

\* A round in which nothing was pending finds the groups empty.
Drained ==
    /\ at = "rounds" /\ ~pending =>
          \A p \in DOMAIN tenant_order :
              p < next_tenant => groups[tenant_order[p]] = <<>>
    /\ at = "done" => \A t \in Tenants : groups[t] = <<>>

LoopInv ==
    /\ LoopTypeOK /\ GroupsInv /\ NoneLost /\ TenantsSeen /\ Grouping
    /\ InTurn /\ OrderedInv /\ RoundsInv /\ Drained

-----------------------------------------------------------------------------
(* What the operators of the closed form are, along a page.                *)

LEMMA JobTenants == \A j \in Jobs : TenantOf[j] \in Tenants
BY JobsAssumption

LEMMA CandidatesCount ==
    ASSUME NEW t, NEW n \in Nat
    PROVE  /\ IsFiniteSet(Candidates(t, n)) /\ Cardinality(Candidates(t, n)) \in Nat
           /\ TenantOf[page[n + 1]] = t =>
                 /\ Candidates(t, n + 1) = Candidates(t, n) \cup {n + 1}
                 /\ Cardinality(Candidates(t, n + 1)) = Cardinality(Candidates(t, n)) + 1
           /\ TenantOf[page[n + 1]] # t => Candidates(t, n + 1) = Candidates(t, n)
<1>1. IsFiniteSet(Candidates(t, n))
  <2>1. IsFiniteSet(1..n) /\ Candidates(t, n) \subseteq 1..n
    BY FS_Interval DEF Candidates
  <2>2. QED
    BY <2>1, FS_Subset
<1>2. 1..(n + 1) = (1..n) \cup {n + 1} /\ n + 1 \notin 1..n
  OBVIOUS
<1>3. TenantOf[page[n + 1]] = t => Candidates(t, n + 1) = Candidates(t, n) \cup {n + 1}
  BY <1>2 DEF Candidates
<1>4. TenantOf[page[n + 1]] # t => Candidates(t, n + 1) = Candidates(t, n)
  BY <1>2 DEF Candidates
<1>5. n + 1 \notin Candidates(t, n)
  BY <1>2 DEF Candidates
<1>6. QED
  BY <1>1, <1>3, <1>4, <1>5, FS_AddElement, FS_CardinalityType

LEMMA PagePosition ==
    ASSUME page \in Seq(Jobs), IsInjective(page), NEW i \in DOMAIN page
    PROVE  /\ i \in Nat /\ i \in 1..Len(page)
           /\ Position(page, page[i]) = i
           /\ Round(page, page[i]) = Cardinality(Candidates(TenantOf[page[i]], i))
<1>1. \A k \in DOMAIN page : page[k] = page[i] => k = i
  BY DEF IsInjective
<1>2. Position(page, page[i]) = i
  BY <1>1 DEF Position
<1>3. QED
  BY <1>2 DEF Round, Candidates

LEMMA FirstIs ==
    ASSUME page \in Seq(Jobs), NEW t, NEW i \in DOMAIN page, TenantOf[page[i]] = t,
           \A k \in 1..(i - 1) : TenantOf[page[k]] # t
    PROVE  FirstOf(page, t) = i
<1>1. \A k \in DOMAIN page :
        TenantOf[page[k]] = t /\ (\A l \in 1..(k - 1) : TenantOf[page[l]] # t) => k = i
  <2> SUFFICES ASSUME NEW k \in DOMAIN page, TenantOf[page[k]] = t,
                      \A l \in 1..(k - 1) : TenantOf[page[l]] # t
               PROVE  k = i
    OBVIOUS
  <2>1. k \in Nat /\ i \in Nat /\ k >= 1 /\ i >= 1
    OBVIOUS
  <2>2. ~(k < i) /\ ~(i < k)
    BY <2>1
  <2>3. QED
    BY <2>1, <2>2
<1>2. QED
  BY <1>1 DEF FirstOf

\* A job taken is one more of its tenant's.
LEMMA TakenAppend ==
    ASSUME ordered \in Seq(Jobs)
    PROVE  /\ \A t : Taken(t) \in Nat
           /\ \A j \in Jobs : ordered' = Append(ordered, j) =>
                 \A t : Taken(t)' = IF TenantOf[j] = t THEN Taken(t) + 1 ELSE Taken(t)
<1> DEFINE Of(t) == {i \in DOMAIN ordered : TenantOf[ordered[i]] = t}
<1>1. \A t : IsFiniteSet(Of(t)) /\ Cardinality(Of(t)) \in Nat
  <2>1. DOMAIN ordered = 1..Len(ordered) /\ Len(ordered) \in Nat
    OBVIOUS
  <2>2. IsFiniteSet(DOMAIN ordered)
    BY <2>1, FS_Interval
  <2>3. \A t : IsFiniteSet(Of(t))
    BY <2>2, FS_Subset
  <2>4. QED
    BY <2>3, FS_CardinalityType
<1>2. ASSUME NEW j \in Jobs, ordered' = Append(ordered, j), NEW t
      PROVE  Taken(t)' = IF TenantOf[j] = t THEN Taken(t) + 1 ELSE Taken(t)
  <2> DEFINE n == Len(ordered) + 1
             new == {i \in DOMAIN ordered' : TenantOf[ordered'[i]] = t}
  <2>1. /\ DOMAIN ordered' = (DOMAIN ordered) \cup {n} /\ n \notin DOMAIN ordered
        /\ ordered'[n] = j /\ \A i \in DOMAIN ordered : ordered'[i] = ordered[i]
    BY <1>2
  <2>2. TenantOf[j] = t => new = Of(t) \cup {n}
    BY <2>1
  <2>3. TenantOf[j] # t => new = Of(t)
    BY <2>1
  <2>4. n \notin Of(t)
    BY <2>1
  <2>5. Taken(t)' = Cardinality(new) /\ Taken(t) = Cardinality(Of(t))
    BY DEF Taken
  <2> HIDE DEF new, Of, n
  <2>6. QED
    BY <1>1, <2>2, <2>3, <2>4, <2>5, FS_AddElement
<1>3. QED
  BY <1>1, <1>2 DEF Taken

-----------------------------------------------------------------------------
(* The first loop groups the page by tenant.                               *)

LEMMA LoopInvInit == Init => LoopInv
<1> SUFFICES ASSUME Init PROVE LoopInv
  OBVIOUS
<1>1. /\ grouped = 0 /\ groups = [t \in Tenants |-> <<>>] /\ tenant_order = <<>>
      /\ ordered = <<>> /\ pending = FALSE /\ next_tenant = 1 /\ at = "group"
  BY DEF Init
<1>2. page \in Seq(Jobs) /\ IsInjective(page)
  <2>1. PICK n \in Nat : page \in [1..n -> Jobs]
    BY JobsAssumption, FS_CardinalityType DEF Init, Pages, SeqOf
  <2>2. QED
    BY <2>1 DEF Init, Pages
<1>3. LoopTypeOK
  <2>1. grouped \in 0..Len(page)
    BY <1>1, <1>2
  <2>2. groups \in [Tenants -> Seq(Jobs)]
    BY <1>1
  <2>3. next_tenant \in 1..(Len(tenant_order) + 1) /\ tenant_order \in Seq(Tenants)
    BY <1>1
  <2>4. ordered \in Seq(Jobs)
    BY <1>1, EmptySeq
  <2>5. cursor \in Tenants \cup {Null}
    BY DEF Init
  <2>6. QED
    BY <1>1, <1>2, <2>1, <2>2, <2>3, <2>4, <2>5 DEF LoopTypeOK
<1>4. \A t : Candidates(t, 0) = {}
  BY DEF Candidates
<1>5. Grouping
  BY <1>1, <1>4, FS_EmptySet DEF Grouping
<1>6. QED
  BY <1>1, <1>3, <1>4, <1>5 DEF LoopInv, GroupsInv, NoneLost, TenantsSeen, Has, InTurn,
     OrderedInv, RoundsInv, Drained, IsInjective

LEMMA GroupJobKeeps ==
    ASSUME LoopInv, GroupJob
    PROVE  LoopInv'
<1>0. /\ page \in Seq(Jobs) /\ grouped \in Nat /\ grouped + 1 \in DOMAIN page
  BY DEF LoopInv, LoopTypeOK, GroupJob
<1> PICK n \in Nat : n = grouped + 1
  BY <1>0
<1> PICK job \in Jobs : job = page[n]
  BY <1>0
<1> PICK tenant \in Tenants : tenant = TenantOf[job]
  BY JobTenants
<1>1. /\ page \in Seq(Jobs) /\ IsInjective(page) /\ grouped \in Nat /\ n \in DOMAIN page
      /\ groups \in [Tenants -> Seq(Jobs)] /\ tenant_order \in Seq(Tenants)
  BY <1>0 DEF LoopInv, LoopTypeOK
<1>2. /\ at = "group" /\ grouped' = n
      /\ groups' = [groups EXCEPT ![tenant] = Append(@, job)]
      /\ tenant_order' = IF Contains(tenant_order, tenant) THEN tenant_order
                         ELSE Append(tenant_order, tenant)
      /\ UNCHANGED <<page, cursor, ordered, pending, next_tenant, at>>
  BY DEF GroupJob
<1>3. ordered = <<>> /\ \A t : Taken(t) \in Nat
  BY <1>2, TakenAppend DEF LoopInv, LoopTypeOK, Grouping
<1>4. \A t : Taken(t)' = Taken(t) /\ Taken(t) = 0
  BY <1>2, <1>3, FS_EmptySet DEF Taken
<1>5. \A t \in Tenants : Len(groups[t]) = Cardinality(Candidates(t, grouped))
  BY <1>2 DEF LoopInv, Grouping
<1>6. /\ \A t \in Tenants : t # tenant => groups'[t] = groups[t]
      /\ groups'[tenant] = Append(groups[tenant], job)
      /\ groups[tenant] \in Seq(Jobs)
  BY <1>1, <1>2
<1>7. \A t : Candidates(t, grouped)' = Candidates(t, n)
  BY <1>2 DEF Candidates
<1>8. LoopTypeOK'
  BY <1>1, <1>2 DEF LoopInv, LoopTypeOK, Grouping
<1>9. GroupsInv'
  <2>1. ASSUME NEW t \in Tenants, NEW k \in DOMAIN groups'[t]
        PROVE  /\ OnPage(groups'[t][k]) /\ TenantOf[groups'[t][k]] = t
               /\ Round(page, groups'[t][k]) = k
    <3>1. CASE t # tenant \/ k \in DOMAIN groups[t]
      <4>1. k \in DOMAIN groups[t] /\ groups'[t][k] = groups[t][k]
        BY <1>6, <2>1, <3>1
      <4>2. k \in Nat
        BY <1>1, <4>1
      <4>3. QED
        BY <1>4, <4>1, <4>2 DEF LoopInv, GroupsInv
    <3>2. CASE t = tenant /\ k \notin DOMAIN groups[t]
      <4>1. k = Len(groups[tenant]) + 1 /\ groups'[t][k] = job
        BY <1>6, <2>1, <3>2
      <4>2. Round(page, job) = Cardinality(Candidates(tenant, n))
        BY <1>1, PagePosition
      <4>3. Cardinality(Candidates(tenant, n)) = Cardinality(Candidates(tenant, grouped)) + 1
        BY <1>1, CandidatesCount
      <4>4. OnPage(job)
        BY <1>1 DEF OnPage
      <4>5. QED
        BY <1>1, <1>5, <3>2, <4>1, <4>2, <4>3, <4>4
    <3>3. QED
      BY <3>1, <3>2
  <2>2. ASSUME NEW t \in Tenants, NEW k \in DOMAIN groups'[t] PROVE 0 + k = k
    <3>1. groups'[t] \in Seq(Jobs)
      <4>1. groups[t] \in Seq(Jobs)
        BY <1>1
      <4>2. CASE t = tenant
        <5>1. Append(groups[tenant], job) \in Seq(Jobs)
          BY <1>6
        <5>2. QED
          BY <1>6, <4>2, <5>1
      <4>3. CASE t # tenant
        BY <1>6, <4>1, <4>3
      <4>4. QED
        BY <4>2, <4>3
    <3>2. k \in Nat
      BY <2>2, <3>1
    <3>3. QED
      BY <3>2
  <2>3. ASSUME NEW t \in Tenants, NEW k \in DOMAIN groups'[t]
        PROVE  /\ \E i \in DOMAIN page' : page'[i] = groups'[t][k]
               /\ TenantOf[groups'[t][k]] = t
               /\ Round(page', groups'[t][k]) = Taken(t)' + k
    <3>1. Taken(t)' = 0 /\ page' = page
      BY <1>2, <1>4
    <3>2. QED
      BY <2>1, <2>2, <2>3, <3>1 DEF OnPage
  <2>4. QED
    BY <2>3 DEF GroupsInv, OnPage
<1>10. NoneLost'
  <2>1. ASSUME NEW i \in 1..n
        PROVE  \E k \in DOMAIN groups'[TenantOf[page[i]]] :
                  groups'[TenantOf[page[i]]][k] = page[i]
    <3>1. CASE i = n
      <4>1. Len(groups[tenant]) + 1 \in DOMAIN groups'[tenant]
        BY <1>6
      <4>2. groups'[tenant][Len(groups[tenant]) + 1] = job
        BY <1>6
      <4>3. QED
        BY <3>1, <4>1, <4>2
    <3>2. CASE i # n
      <4>1. i \in 1..grouped /\ i \in DOMAIN page /\ TenantOf[page[i]] \in Tenants
        BY <1>1, <2>1, <3>2, JobTenants
      <4>2. PICK k \in DOMAIN groups[TenantOf[page[i]]] :
              groups[TenantOf[page[i]]][k] = page[i]
        BY <1>3, <4>1 DEF LoopInv, NoneLost
      <4>3. /\ k \in DOMAIN groups'[TenantOf[page[i]]]
            /\ groups'[TenantOf[page[i]]][k] = page[i]
        <5>1. CASE TenantOf[page[i]] = tenant
          <6>1. k \in DOMAIN groups[tenant] /\ groups[tenant][k] = page[i]
            BY <4>2, <5>1
          <6>2. /\ k \in DOMAIN Append(groups[tenant], job)
                /\ Append(groups[tenant], job)[k] = groups[tenant][k]
            BY <1>1, <1>6, <6>1
          <6>3. QED
            BY <1>6, <5>1, <6>1, <6>2
        <5>2. CASE TenantOf[page[i]] # tenant
          BY <1>6, <4>1, <4>2, <5>2
        <5>3. QED
          BY <5>1, <5>2
      <4>4. QED
        BY <4>3
    <3>3. QED
      BY <3>1, <3>2
  <2>2. QED
    BY <1>2, <2>1 DEF NoneLost
<1>11. /\ tenant_order' \in Seq(Tenants)
       /\ \/ tenant_order' = tenant_order /\ Has(tenant_order, tenant)
          \/ tenant_order' = Append(tenant_order, tenant) /\ ~Has(tenant_order, tenant)
  BY <1>1, <1>2 DEF Contains, Has
<1>12. ASSUME NEW t
       PROVE  (\E p \in DOMAIN tenant_order' : tenant_order'[p] = t)
                 <=> Has(tenant_order, t) \/ t = tenant
  <2>1. CASE tenant_order' = tenant_order /\ Has(tenant_order, tenant)
    BY <2>1 DEF Has
  <2>2. CASE tenant_order' = Append(tenant_order, tenant)
    <3>1. /\ DOMAIN tenant_order' = DOMAIN tenant_order \cup {Len(tenant_order) + 1}
          /\ tenant_order'[Len(tenant_order) + 1] = tenant
          /\ \A p \in DOMAIN tenant_order : tenant_order'[p] = tenant_order[p]
      BY <1>1, <2>2
    <3>2. QED
      BY <3>1 DEF Has
  <2>3. QED
    BY <1>11, <2>1, <2>2
<1>13. TenantsSeen'
  <2>1. ASSUME NEW t \in Tenants
        PROVE  Has(tenant_order, t) \/ t = tenant <=> Candidates(t, n) # {}
    <3>1. Candidates(t, n) = IF t = tenant THEN Candidates(t, grouped) \cup {n}
                                           ELSE Candidates(t, grouped)
      BY <1>1, CandidatesCount
    <3>2. Has(tenant_order, t) <=> Candidates(t, grouped) # {}
      BY DEF LoopInv, TenantsSeen
    <3>3. QED
      BY <3>1, <3>2
  <2>2. QED
    BY <1>7, <1>12, <2>1 DEF TenantsSeen, Has
<1>14. Grouping'
  <2>1. \A t \in Tenants : Len(groups'[t]) = Cardinality(Candidates(t, n))
    <3>1. Len(groups'[tenant]) = Len(groups[tenant]) + 1
      BY <1>6
    <3>2. Cardinality(Candidates(tenant, n)) = Cardinality(Candidates(tenant, grouped)) + 1
      BY <1>1, CandidatesCount
    <3>3. \A t \in Tenants : t # tenant => Candidates(t, n) = Candidates(t, grouped)
      BY <1>1, CandidatesCount
    <3>4. QED
      BY <1>5, <1>6, <3>1, <3>2, <3>3
  <2>2. \A t, i : IsFirst(t, i) => IsFirst(t, i)'
    <3>1. 1..grouped \subseteq 1..n
      BY <1>1
    <3>2. QED
      BY <1>2, <3>1 DEF IsFirst
  <2>3. ASSUME ~Has(tenant_order, tenant) PROVE IsFirst(tenant, n)'
    <3>1. Candidates(tenant, grouped) = {}
      BY <1>1, <2>3 DEF LoopInv, TenantsSeen
    <3>2. \A k \in 1..(n - 1) : TenantOf[page[k]] # tenant
      <4>1. n - 1 = grouped
        BY <1>1
      <4>2. QED
        BY <3>1, <4>1 DEF Candidates
    <3>3. n \in 1..n /\ TenantOf[page[n]] = tenant
      BY <1>1
    <3>4. QED
      BY <1>2, <3>2, <3>3 DEF IsFirst
  <2>4. ASSUME NEW p \in DOMAIN tenant_order'
        PROVE  \/ /\ p \in DOMAIN tenant_order
                  /\ tenant_order'[p] = tenant_order[p]
               \/ /\ ~Has(tenant_order, tenant) /\ tenant_order'[p] = tenant
                  /\ p = Len(tenant_order) + 1
    <3>1. CASE tenant_order' = tenant_order
      BY <2>4, <3>1
    <3>2. CASE tenant_order' = Append(tenant_order, tenant) /\ ~Has(tenant_order, tenant)
      BY <1>1, <2>4, <3>2
    <3>3. QED
      BY <1>11, <3>1, <3>2
  <2>5. ASSUME NEW p \in DOMAIN tenant_order'
        PROVE  \E i \in DOMAIN page : /\ i \in 1..n
                                       /\ TenantOf[page[i]] = tenant_order'[p]
                                       /\ \A k \in 1..(i - 1) : TenantOf[page[k]] # tenant_order'[p]
    <3>1. CASE p \in DOMAIN tenant_order /\ tenant_order'[p] = tenant_order[p]
      <4>1. PICK i \in DOMAIN page : IsFirst(tenant_order[p], i)
        BY <1>2, <3>1 DEF LoopInv, Grouping
      <4>2. i \in 1..n
        BY <1>1, <4>1 DEF IsFirst
      <4>3. QED
        BY <3>1, <4>1, <4>2 DEF IsFirst
    <3>2. CASE ~Has(tenant_order, tenant) /\ tenant_order'[p] = tenant
      <4>1. IsFirst(tenant, n)'
        BY <2>3, <3>2
      <4>2. n \in 1..n /\ TenantOf[page[n]] = tenant /\ \A k \in 1..(n - 1) : TenantOf[page[k]] # tenant
        BY <1>2, <4>1 DEF IsFirst
      <4>3. QED
        BY <1>1, <3>2, <4>2
    <3>3. QED
      BY <2>4, <3>1, <3>2
  <2>6. ASSUME NEW p \in DOMAIN tenant_order', NEW q \in DOMAIN tenant_order', p < q
        PROVE  FirstOf(page, tenant_order'[p]) < FirstOf(page, tenant_order'[q])
    <3>1. p \in DOMAIN tenant_order /\ tenant_order'[p] = tenant_order[p]
      <4>1. p \in Nat /\ q \in Nat /\ q <= Len(tenant_order) + 1
        BY <1>1, <1>11, <2>6
      <4>2. p # Len(tenant_order) + 1
        BY <1>1, <2>6, <4>1
      <4>3. QED
        BY <2>4, <4>2
    <3>2. CASE q \in DOMAIN tenant_order /\ tenant_order'[q] = tenant_order[q]
      BY <1>2, <2>6, <3>1, <3>2 DEF LoopInv, Grouping
    <3>3. CASE ~Has(tenant_order, tenant) /\ tenant_order'[q] = tenant
      <4>1. IsFirst(tenant, n)'
        BY <2>3, <3>3
      <4>2. FirstOf(page, tenant) = n
        <5>1. TenantOf[page[n]] = tenant /\ \A k \in 1..(n - 1) : TenantOf[page[k]] # tenant
          BY <1>2, <4>1 DEF IsFirst
        <5>2. QED
          BY <1>1, <5>1, FirstIs
      <4>3. PICK i \in DOMAIN page : IsFirst(tenant_order[p], i)
        BY <1>2, <3>1 DEF LoopInv, Grouping
      <4>4. FirstOf(page, tenant_order[p]) = i /\ i < n
        BY <1>1, <4>3, FirstIs DEF IsFirst
      <4>5. QED
        BY <3>1, <3>3, <4>2, <4>4
    <3>4. QED
      BY <2>4, <3>2, <3>3
  <2>7. QED
    BY <1>2, <1>7, <2>1, <2>5, <2>6 DEF LoopInv, Grouping, IsFirst
<1>15. InTurn' /\ RoundsInv' /\ Drained'
  BY <1>2 DEF InTurn, RoundsInv, Drained
<1>16. OrderedInv'
  BY <1>2, <1>3 DEF OrderedInv, IsInjective
<1>17. QED
  BY <1>8, <1>9, <1>10, <1>13, <1>14, <1>15, <1>16 DEF LoopInv

-----------------------------------------------------------------------------
(* The rotation: tenant_order from behind the cursor, then up to it.       *)

LEMMA RotationIs ==
    ASSUME NEW order \in Seq(Tenants), NEW idx \in DOMAIN order,
           \A p \in DOMAIN order : order[p] = order[idx] => p = idx
    PROVE  /\ Rotation(order, order[idx]) \in Seq(Tenants)
           /\ Len(Rotation(order, order[idx])) = Len(order)
           /\ \A p \in 1..(Len(order) - idx) :
                 Rotation(order, order[idx])[p] = order[p + idx]
           /\ \A p \in (Len(order) - idx + 1)..Len(order) :
                 Rotation(order, order[idx])[p] = order[p - (Len(order) - idx)]
<1> DEFINE I == {i \in 1..Len(order) : order[i] = order[idx]}
<1>1. I = {idx} /\ idx \in Nat /\ idx <= Len(order) /\ 1 <= idx /\ Len(order) \in Nat
  OBVIOUS
<1>2. SelectInSeq(order, LAMBDA t : t = order[idx]) = idx
  <2>1. Min({idx}) = idx
    BY <1>1 DEF Min
  <2>2. SelectInSeq(order, LAMBDA t : t = order[idx]) = IF I # {} THEN Min(I) ELSE 0
    BY DEF SelectInSeq
  <2>3. QED
    BY <1>1, <2>1, <2>2
<1> DEFINE front == SubSeq(order, idx + 1, Len(order))
           back == SubSeq(order, 1, idx)
<1>3. Rotation(order, order[idx]) = front \o back
  BY <1>2 DEF Rotation
<1>4. /\ front \in Seq(Tenants) /\ Len(front) = Len(order) - idx
      /\ \A p \in 1..(Len(order) - idx) : front[p] = order[p + idx]
  BY <1>1
<1>5. /\ back \in Seq(Tenants) /\ Len(back) = idx
      /\ \A p \in 1..idx : back[p] = order[p]
  BY <1>1
<1> HIDE DEF front, back
<1>6. /\ front \o back \in Seq(Tenants) /\ Len(front \o back) = Len(order)
      /\ DOMAIN (front \o back) = 1..Len(order)
  BY <1>1, <1>4, <1>5
<1>7. /\ \A p \in 1..Len(front) : (front \o back)[p] = front[p]
      /\ \A p \in (Len(front) + 1)..(Len(front) + Len(back)) :
            (front \o back)[p] = back[p - Len(front)]
  <2>1. front \in Seq(Tenants) /\ back \in Seq(Tenants)
    BY <1>4, <1>5
  <2>2. QED
    BY <2>1, ConcatProperties
<1>8. \A p \in (Len(order) - idx + 1)..Len(order) : p - (Len(order) - idx) \in 1..idx
  BY <1>1
<1>9. Len(front) + Len(back) = Len(order)
  BY <1>1, <1>4, <1>5
<1>10. QED
  BY <1>3, <1>4, <1>5, <1>6, <1>7, <1>8, <1>9

LEMMA OnThePage ==
    ASSUME LoopInv, grouped = Len(page), NEW j, OnPage(j)
    PROVE  /\ j \in Jobs /\ TenantOf[j] \in Tenants
           /\ Has(tenant_order, TenantOf[j])
           /\ Round(page, j) \in Nat
<1>1. page \in Seq(Jobs) /\ IsInjective(page)
  BY DEF LoopInv, LoopTypeOK
<1>2. PICK i \in DOMAIN page : page[i] = j
  BY DEF OnPage
<1>3. j \in Jobs /\ TenantOf[j] \in Tenants
  BY <1>1, <1>2, JobTenants
<1>4. i \in Candidates(TenantOf[j], grouped)
  BY <1>1, <1>2 DEF Candidates
<1>5. Round(page, j) \in Nat
  <2>1. i \in Nat /\ Round(page, page[i]) = Cardinality(Candidates(TenantOf[page[i]], i))
    BY <1>1, PagePosition
  <2>2. QED
    BY <1>2, <2>1, CandidatesCount
<1>6. QED
  BY <1>3, <1>4, <1>5 DEF LoopInv, TenantsSeen

LEMMA RotateKeeps ==
    ASSUME LoopInv, Rotate
    PROVE  LoopInv'
<1> PICK order \in Seq(Tenants) : order = tenant_order
  BY DEF LoopInv, LoopTypeOK
<1> PICK n \in Nat : n = Len(page)
  BY DEF LoopInv, LoopTypeOK
<1>1. /\ page \in Seq(Jobs) /\ IsInjective(page) /\ grouped = n
      /\ groups \in [Tenants -> Seq(Jobs)] /\ ordered \in Seq(Jobs)
      /\ cursor \in Tenants \cup {Null} /\ grouped \in 0..Len(page)
  BY DEF LoopInv, LoopTypeOK, Rotate
<1>2. /\ at = "group" /\ at' = "rounds"
      /\ tenant_order' = IF Contains(order, cursor) THEN Rotation(order, cursor) ELSE order
      /\ UNCHANGED <<page, cursor, grouped, groups, ordered, pending, next_tenant>>
  BY DEF Rotate
<1>3. ordered = <<>> /\ ~pending /\ next_tenant = 1
  BY <1>2 DEF LoopInv, Grouping
<1>4. \A t : Taken(t)' = Taken(t) /\ Taken(t) = 0
  BY <1>2, <1>3, FS_EmptySet DEF Taken
<1>5. ASSUME NEW p \in DOMAIN order
      PROVE  /\ FirstOf(page, order[p]) \in Nat
             /\ \E i \in DOMAIN page : TenantOf[page[i]] = order[p]
  <2>1. PICK i \in DOMAIN page : IsFirst(order[p], i)
    BY <1>2 DEF LoopInv, Grouping
  <2>2. FirstOf(page, order[p]) = i /\ i \in Nat
    <3>1. TenantOf[page[i]] = order[p] /\ \A k \in 1..(i - 1) : TenantOf[page[k]] # order[p]
      BY <2>1 DEF IsFirst
    <3>2. FirstOf(page, order[p]) = i
      BY <1>1, <3>1, FirstIs
    <3>3. QED
      BY <1>1, <3>2
  <2>3. QED
    BY <2>1, <2>2 DEF IsFirst
<1>6. \A p, q \in DOMAIN order : p < q => FirstOf(page, order[p]) < FirstOf(page, order[q])
  BY <1>2 DEF LoopInv, Grouping
<1>7. \A p, q \in DOMAIN order : order[p] = order[q] => p = q
  <2>1. ASSUME NEW p \in DOMAIN order, NEW q \in DOMAIN order, order[p] = order[q], p # q
        PROVE  FALSE
    <3>1. p \in Nat /\ q \in Nat
      OBVIOUS
    <3>2. p < q \/ q < p
      BY <2>1, <3>1
    <3>3. QED
      BY <1>5, <1>6, <2>1, <3>2
  <2>2. QED
    BY <2>1
<1>8. \A p, q \in DOMAIN order :
        p <= q <=> FirstOf(page, order[p]) <= FirstOf(page, order[q])
  <2>1. ASSUME NEW p \in DOMAIN order, NEW q \in DOMAIN order
        PROVE  p <= q <=> FirstOf(page, order[p]) <= FirstOf(page, order[q])
    <3>1. p \in Nat /\ q \in Nat /\ (p < q \/ p = q \/ q < p)
      OBVIOUS
    <3>2. FirstOf(page, order[p]) \in Nat /\ FirstOf(page, order[q]) \in Nat
      BY <1>5
    <3>3. p < q => FirstOf(page, order[p]) < FirstOf(page, order[q])
      BY <1>6
    <3>4. q < p => FirstOf(page, order[q]) < FirstOf(page, order[p])
      BY <1>6
    <3>5. QED
      BY <3>1, <3>2, <3>3, <3>4
  <2>2. QED
    BY <2>1
<1>9. /\ tenant_order' \in Seq(Tenants) /\ Len(tenant_order') = Len(order)
      /\ \A t : (\E p \in DOMAIN tenant_order' : tenant_order'[p] = t) <=> Has(order, t)
      /\ \A p, q \in DOMAIN tenant_order' : tenant_order'[p] = tenant_order'[q] => p = q
      /\ \A p, q \in DOMAIN tenant_order' :
            p < q => TenantBefore(page, cursor, tenant_order'[p], tenant_order'[q])
      /\ \A p \in DOMAIN tenant_order' : tenant_order'[p] = cursor => p = Len(tenant_order')
  <2>1. CASE ~Has(order, cursor)
    <3>1. tenant_order' = order
      BY <1>2, <2>1 DEF Contains, Has
    <3>2. \A t : Rotated(page, cursor, t) = FALSE
      <4>1. ASSUME NEW i \in DOMAIN page, TenantOf[page[i]] = cursor PROVE FALSE
        <5>1. OnPage(page[i])
          BY DEF OnPage
        <5>2. QED
          BY <1>1, <2>1, <4>1, <5>1, OnThePage
      <4>2. QED
        BY <4>1 DEF Rotated
    <3>3. \A p, q \in DOMAIN order : p < q => TenantBefore(page, cursor, order[p], order[q])
      <4>1. \A p, q \in DOMAIN order :
               Rotated(page, cursor, order[p]) = Rotated(page, cursor, order[q])
        BY <3>2
      <4>2. QED
        BY <1>6, <4>1 DEF TenantBefore
    <3>4. \A p \in DOMAIN order : order[p] # cursor
      BY <2>1 DEF Has
    <3>5. QED
      BY <1>7, <3>1, <3>3, <3>4 DEF Has
  <2>2. CASE Has(order, cursor)
    <3> PICK idx \in DOMAIN order : order[idx] = cursor
      BY <2>2 DEF Has
    <3> PICK len \in Nat : len = Len(order)
      OBVIOUS
    <3>1. idx \in 1..len /\ idx \in Nat /\ DOMAIN order = 1..len
      OBVIOUS
    <3> PICK behind \in Nat : behind = len - idx
      BY <3>1
    <3>2. tenant_order' = Rotation(order, order[idx])
      BY <1>2, <2>2 DEF Contains, Has
    <3>3. /\ tenant_order' \in Seq(Tenants) /\ Len(tenant_order') = len
          /\ \A p \in 1..behind : tenant_order'[p] = order[p + idx]
          /\ \A p \in (behind + 1)..len : tenant_order'[p] = order[p - behind]
      <4>1. order \in Seq(Tenants) /\ idx \in DOMAIN order
               /\ \A p \in DOMAIN order : order[p] = order[idx] => p = idx
        BY <1>7
      <4>2. /\ Rotation(order, order[idx]) \in Seq(Tenants)
            /\ Len(Rotation(order, order[idx])) = Len(order)
            /\ \A p \in 1..(Len(order) - idx) : Rotation(order, order[idx])[p] = order[p + idx]
            /\ \A p \in (Len(order) - idx + 1)..Len(order) :
                  Rotation(order, order[idx])[p] = order[p - (Len(order) - idx)]
        BY <4>1, RotationIs
      <4>3. QED
        BY <3>2, <4>2
    <3> DEFINE src(p) == IF p <= behind THEN p + idx ELSE p - behind
    <3>4. \A p \in 1..len : src(p) \in 1..len /\ tenant_order'[p] = order[src(p)]
      BY <3>1, <3>3
    <3>5. \A p, q \in 1..len : src(p) = src(q) => p = q
      BY <3>1
    <3>6. \A s \in 1..len : \E p \in 1..len : src(p) = s
      <4>1. ASSUME NEW s \in 1..len, s <= idx PROVE s + behind \in 1..len /\ src(s + behind) = s
        BY <3>1, <4>1
      <4>2. ASSUME NEW s \in 1..len, s > idx PROVE s - idx \in 1..len /\ src(s - idx) = s
        BY <3>1, <4>2
      <4>3. \A s \in 1..len : s <= idx \/ s > idx
        BY <3>1
      <4> HIDE DEF src
      <4>4. QED
        BY <4>1, <4>2, <4>3
    <3>7. \A p, q \in 1..len : p < q =>
             \/ src(p) > idx /\ src(q) <= idx
             \/ (src(p) <= idx <=> src(q) <= idx) /\ src(p) < src(q)
      BY <3>1
    <3>8. \A p \in 1..len : src(p) = idx => p = len
      BY <3>1
    <3>9. \A s \in 1..len : Rotated(page, cursor, order[s]) <=> s <= idx
      BY <1>5, <1>8, <3>1 DEF Rotated
    <3>10. DOMAIN tenant_order' = 1..len
      BY <3>3
    <3> HIDE DEF src
    <3>11. \A t : (\E p \in 1..len : tenant_order'[p] = t) <=> Has(order, t)
      <4>1. ASSUME NEW p \in 1..len PROVE Has(order, tenant_order'[p])
        BY <3>1, <3>4, <4>1 DEF Has
      <4>2. ASSUME NEW s \in DOMAIN order PROVE \E p \in 1..len : tenant_order'[p] = order[s]
        BY <3>1, <3>4, <3>6, <4>2
      <4>3. ASSUME NEW t
            PROVE  (\E p \in 1..len : tenant_order'[p] = t) <=> Has(order, t)
        <5>1. (\E p \in 1..len : tenant_order'[p] = t) => Has(order, t)
          BY <4>1
        <5>2. Has(order, t) => \E p \in 1..len : tenant_order'[p] = t
          BY <4>2 DEF Has
        <5>3. QED
          BY <5>1, <5>2
      <4>4. QED
        BY <4>3
    <3>12. \A p, q \in 1..len : tenant_order'[p] = tenant_order'[q] => p = q
      BY <1>7, <3>1, <3>4, <3>5
    <3>13. ASSUME NEW p \in 1..len, NEW q \in 1..len, p < q
           PROVE  TenantBefore(page, cursor, tenant_order'[p], tenant_order'[q])
      <4>1. src(p) \in 1..len /\ src(q) \in 1..len
        BY <3>4
      <4>2. CASE src(p) > idx /\ src(q) <= idx
        BY <3>1, <3>4, <3>9, <4>1, <4>2 DEF TenantBefore
      <4>3. CASE (src(p) <= idx <=> src(q) <= idx) /\ src(p) < src(q)
        <5>1. FirstOf(page, order[src(p)]) < FirstOf(page, order[src(q)])
          BY <1>6, <3>1, <4>1, <4>3
        <5>2. Rotated(page, cursor, order[src(p)]) = Rotated(page, cursor, order[src(q)])
          BY <3>9, <4>1, <4>3 DEF Rotated
        <5>3. QED
          BY <3>4, <5>1, <5>2 DEF TenantBefore
      <4>4. QED
        BY <3>7, <3>13, <4>2, <4>3
    <3>14. \A p \in 1..len : tenant_order'[p] = cursor => p = len
      BY <1>7, <3>1, <3>4, <3>8
    <3>15. QED
      BY <3>3, <3>10, <3>11, <3>12, <3>13, <3>14
  <2>3. QED
    BY <2>1, <2>2
<1>10. LoopTypeOK'
  BY <1>1, <1>2, <1>3, <1>9 DEF LoopInv, LoopTypeOK
<1>11. GroupsInv'
  BY <1>2, <1>4 DEF LoopInv, GroupsInv, OnPage
<1>12. NoneLost' /\ OrderedInv'
  BY <1>2, <1>3 DEF LoopInv, NoneLost, OrderedInv, IsInjective
<1>13. TenantsSeen'
  <2>1. \A t : Candidates(t, grouped)' = Candidates(t, grouped)
    BY <1>2 DEF Candidates
  <2>2. \A t \in Tenants : Has(order, t) <=> Candidates(t, grouped) # {}
    BY DEF LoopInv, TenantsSeen
  <2>3. QED
    BY <1>9, <2>1, <2>2 DEF TenantsSeen, Has
<1>14. Grouping'
  BY <1>2 DEF Grouping
<1>15. InTurn'
  BY <1>1, <1>2, <1>9 DEF InTurn, IsInjective
<1>16. RoundsInv'
  <2>1. ASSUME NEW p \in DOMAIN tenant_order'
        PROVE  p \in Nat /\ ~(p < 1)
    BY <1>9
  <2>2. \A p \in DOMAIN tenant_order' : ~(p < next_tenant')
    BY <1>2, <1>3, <2>1
  <2>3. \A p \in DOMAIN tenant_order' : Taken(tenant_order[p])' = 0
    BY <1>4 DEF Taken
  <2>4. QED
    BY <1>2, <2>2, <2>3 DEF RoundsInv, Turns
<1>17. Drained'
  BY <1>2, <1>3, <1>9 DEF Drained
<1>18. QED
  BY <1>10, <1>11, <1>12, <1>13, <1>14, <1>15, <1>16, <1>17 DEF LoopInv

-----------------------------------------------------------------------------
(* The rounds: one job of every tenant that has one left.                  *)

\* The tenant of a job that waits or is ordered has its turn in a round.
LEMMA InARound ==
    ASSUME LoopInv, at # "group"
    PROVE  /\ \A t \in Tenants : groups[t] # <<>> => Has(tenant_order, t)
           /\ \A i \in DOMAIN ordered : Has(tenant_order, TenantOf[ordered[i]])
<1>1. grouped = Len(page)
  BY DEF LoopInv, InTurn
<1>2. ASSUME NEW t \in Tenants, groups[t] # <<>> PROVE Has(tenant_order, t)
  <2>1. 1 \in DOMAIN groups[t]
    <3>1. groups[t] \in Seq(Jobs)
      BY DEF LoopInv, LoopTypeOK
    <3>2. QED
      BY <1>2, <3>1, EmptySeq
  <2>2. OnPage(groups[t][1]) /\ TenantOf[groups[t][1]] = t
    BY <2>1 DEF LoopInv, GroupsInv
  <2>3. Has(tenant_order, TenantOf[groups[t][1]])
    BY <1>1, <2>2, OnThePage
  <2>4. QED
    BY <2>2, <2>3
<1>3. ASSUME NEW i \in DOMAIN ordered PROVE Has(tenant_order, TenantOf[ordered[i]])
  <2>1. OnPage(ordered[i])
    BY DEF LoopInv, OrderedInv
  <2>2. QED
    BY <1>1, <2>1, OnThePage
<1>4. QED
  BY <1>2, <1>3

LEMMA VisitTenantKeeps ==
    ASSUME LoopInv, VisitTenant
    PROVE  LoopInv'
<1>1. /\ page \in Seq(Jobs) /\ groups \in [Tenants -> Seq(Jobs)]
      /\ tenant_order \in Seq(Tenants) /\ ordered \in Seq(Jobs)
      /\ next_tenant \in Nat /\ next_tenant \in DOMAIN tenant_order
      /\ grouped = Len(page) /\ at = "rounds"
      /\ \A p, q \in DOMAIN tenant_order : tenant_order[p] = tenant_order[q] => p = q
  <2>1. next_tenant \in 1..(Len(tenant_order) + 1) /\ next_tenant <= Len(tenant_order)
    BY DEF LoopInv, LoopTypeOK, VisitTenant
  <2>2. tenant_order \in Seq(Tenants)
    BY DEF LoopInv, LoopTypeOK
  <2>3. next_tenant \in Nat /\ next_tenant \in DOMAIN tenant_order
    BY <2>1, <2>2
  <2>4. at = "rounds"
    BY DEF VisitTenant
  <2>5. QED
    BY <2>2, <2>3, <2>4 DEF LoopInv, LoopTypeOK, InTurn, IsInjective
<1> PICK tenant \in Tenants : tenant = tenant_order[next_tenant]
  BY <1>1
<1>2. next_tenant' = next_tenant + 1 /\ UNCHANGED <<page, cursor, grouped, tenant_order, at>>
  BY DEF VisitTenant
<1>3. PICK r \in Nat : \A p \in DOMAIN tenant_order :
        /\ Taken(tenant_order[p]) <= Turns(r, p)
        /\ groups[tenant_order[p]] # <<>> => Taken(tenant_order[p]) = Turns(r, p)
  BY <1>1 DEF LoopInv, RoundsInv
<1>4. \A t : Taken(t) \in Nat
  BY <1>1, TakenAppend
<1>5. \A p \in DOMAIN tenant_order :
        /\ p < next_tenant => Turns(r, p) = r + 1 /\ p < next_tenant + 1
        /\ p = next_tenant => Turns(r, p) = r /\ p < next_tenant + 1
        /\ p > next_tenant => Turns(r, p) = r /\ ~(p < next_tenant + 1)
        /\ p \in Nat
  BY <1>1 DEF Turns
<1>6. /\ next_tenant' \in 1..(Len(tenant_order') + 1)
      /\ TenantsSeen' /\ Grouping' /\ InTurn'
  <2>1. next_tenant' \in 1..(Len(tenant_order') + 1)
    BY <1>1, <1>2
  <2>2. TenantsSeen'
    BY <1>2 DEF LoopInv, TenantsSeen, Has, Candidates
  <2>3. Grouping' /\ InTurn'
    BY <1>1, <1>2 DEF LoopInv, Grouping, InTurn
  <2>4. QED
    BY <2>1, <2>2, <2>3
<1>7. CASE groups[tenant] = <<>>
  <2>1. UNCHANGED <<groups, ordered, pending>>
    BY <1>7 DEF VisitTenant
  <2>2. LoopTypeOK'
    BY <1>2, <1>6, <2>1 DEF LoopInv, LoopTypeOK
  <2>3. \A t : Taken(t)' = Taken(t)
    BY <2>1 DEF Taken
  <2>4. GroupsInv' /\ NoneLost' /\ OrderedInv'
    BY <1>2, <2>1, <2>3 DEF LoopInv, GroupsInv, NoneLost, OrderedInv, OnPage
  <2>5. RoundsInv'
    <3>1. ASSUME NEW p \in DOMAIN tenant_order
          PROVE  /\ Taken(tenant_order[p]) <= IF p < next_tenant + 1 THEN r + 1 ELSE r
                 /\ groups[tenant_order[p]] # <<>> =>
                       Taken(tenant_order[p]) = IF p < next_tenant + 1 THEN r + 1 ELSE r
      <4>1. p < next_tenant \/ p = next_tenant \/ p > next_tenant
        BY <1>1, <1>5
      <4>2. QED
        BY <1>3, <1>4, <1>5, <1>7, <4>1
    <3>2. \A p \in DOMAIN tenant_order : Taken(tenant_order[p])' = Taken(tenant_order[p])
      BY <1>2, <2>1 DEF Taken
    <3>3. QED
      BY <1>2, <2>1, <3>1, <3>2 DEF RoundsInv, Turns
  <2>6. Drained'
    <3>1. ASSUME ~pending, NEW p \in DOMAIN tenant_order, p < next_tenant + 1
          PROVE  groups[tenant_order[p]] = <<>>
      <4>1. p < next_tenant \/ p = next_tenant
        BY <1>1, <1>5, <3>1
      <4>2. QED
        BY <1>1, <1>7, <3>1, <4>1 DEF LoopInv, Drained
    <3>2. QED
      BY <1>1, <1>2, <2>1, <3>1 DEF Drained
  <2>7. QED
    BY <1>6, <2>2, <2>4, <2>5, <2>6 DEF LoopInv
<1>8. CASE groups[tenant] # <<>>
  <2>1. /\ ordered' = Append(ordered, Head(groups[tenant]))
        /\ groups' = [groups EXCEPT ![tenant] = Tail(@)] /\ pending' = TRUE
    BY <1>8 DEF VisitTenant
  <2>2. /\ groups[tenant] \in Seq(Jobs) /\ 1 \in DOMAIN groups[tenant]
        /\ Head(groups[tenant]) = groups[tenant][1]
        /\ Tail(groups[tenant]) \in Seq(Jobs)
        /\ \A k \in DOMAIN Tail(groups[tenant]) :
              /\ k \in Nat /\ k + 1 \in DOMAIN groups[tenant]
              /\ Tail(groups[tenant])[k] = groups[tenant][k + 1]
        /\ \A k \in DOMAIN groups[tenant] :
              k # 1 => /\ k - 1 \in DOMAIN Tail(groups[tenant])
                       /\ Tail(groups[tenant])[k - 1] = groups[tenant][k]
    BY <1>1, <1>8, EmptySeq
  <2> PICK job \in Jobs : job = groups[tenant][1]
    BY <2>2
  <2> PICK n \in Nat : n = Len(ordered) + 1
    BY <1>1
  <2>3. /\ OnPage(job) /\ TenantOf[job] = tenant /\ Round(page, job) = Taken(tenant) + 1
    BY <2>2 DEF LoopInv, GroupsInv
  <2>4. Taken(tenant) = r
    BY <1>1, <1>3, <1>5, <1>8
  <2>5. /\ ordered' \in Seq(Jobs) /\ DOMAIN ordered' = DOMAIN ordered \cup {n}
        /\ ordered'[n] = job /\ \A i \in DOMAIN ordered : ordered'[i] = ordered[i] /\ i < n
        /\ n \notin DOMAIN ordered
    BY <1>1, <2>1, <2>2
  <2>6. \A t : Taken(t)' = IF t = tenant THEN r + 1 ELSE Taken(t)
    BY <1>1, <2>1, <2>2, <2>3, <2>4, TakenAppend
  <2>7. /\ groups' \in [Tenants -> Seq(Jobs)] /\ groups'[tenant] = Tail(groups[tenant])
        /\ \A t \in Tenants : t # tenant => groups'[t] = groups[t]
    BY <1>1, <2>1, <2>2
  <2>8. LoopTypeOK'
    BY <1>2, <1>6, <2>1, <2>5, <2>7 DEF LoopInv, LoopTypeOK
  <2>9. GroupsInv'
    <3>1. ASSUME NEW t \in Tenants, NEW k \in DOMAIN groups'[t]
          PROVE  /\ OnPage(groups'[t][k]) /\ TenantOf[groups'[t][k]] = t
                 /\ Round(page, groups'[t][k]) = Taken(t)' + k
      <4>1. CASE t = tenant
        <5>1. k \in Nat /\ k + 1 \in DOMAIN groups[tenant] /\ groups'[t][k] = groups[tenant][k + 1]
          <6>1. groups'[t] = Tail(groups[tenant])
            BY <2>7, <4>1
          <6>2. k \in DOMAIN Tail(groups[tenant])
            BY <3>1, <6>1
          <6>3. QED
            BY <2>2, <6>1, <6>2
        <5>2. /\ OnPage(groups[tenant][k + 1]) /\ TenantOf[groups[tenant][k + 1]] = tenant
              /\ Round(page, groups[tenant][k + 1]) = Taken(tenant) + (k + 1)
          BY <5>1 DEF LoopInv, GroupsInv
        <5>3. Taken(t)' + k = r + (k + 1)
          BY <2>6, <4>1, <5>1
        <5>4. QED
          BY <2>4, <4>1, <5>1, <5>2, <5>3
      <4>2. CASE t # tenant
        <5>1. k \in DOMAIN groups[t] /\ groups'[t][k] = groups[t][k] /\ Taken(t)' = Taken(t)
          BY <2>6, <2>7, <3>1, <4>2
        <5>2. QED
          BY <5>1 DEF LoopInv, GroupsInv
      <4>3. QED
        BY <4>1, <4>2
    <3>2. QED
      BY <1>2, <3>1 DEF GroupsInv, OnPage
  <2>10. NoneLost'
    <3>1. ASSUME NEW i \in 1..grouped
          PROVE  \/ \E k \in DOMAIN ordered' : ordered'[k] = page[i]
                 \/ \E k \in DOMAIN groups'[TenantOf[page[i]]] :
                       groups'[TenantOf[page[i]]][k] = page[i]
      <4>1. CASE \E k \in DOMAIN ordered : ordered[k] = page[i]
        BY <2>5, <4>1
      <4>2. CASE \E k \in DOMAIN groups[TenantOf[page[i]]] :
                    groups[TenantOf[page[i]]][k] = page[i]
        <5>1. PICK k \in DOMAIN groups[TenantOf[page[i]]] :
                    groups[TenantOf[page[i]]][k] = page[i]
          BY <4>2
        <5>2. TenantOf[page[i]] \in Tenants
          BY <1>1, <3>1, JobTenants
        <5>3. CASE TenantOf[page[i]] # tenant
          BY <2>7, <5>1, <5>2, <5>3
        <5>4. CASE TenantOf[page[i]] = tenant /\ k = 1
          BY <2>5, <5>1, <5>4
        <5>5. CASE TenantOf[page[i]] = tenant /\ k # 1
          <6>1. k \in DOMAIN groups[tenant] /\ groups[tenant][k] = page[i]
            BY <5>1, <5>5
          <6>2. /\ k - 1 \in DOMAIN Tail(groups[tenant])
                /\ Tail(groups[tenant])[k - 1] = page[i]
            BY <2>2, <5>5, <6>1
          <6>3. /\ k - 1 \in DOMAIN groups'[TenantOf[page[i]]]
                /\ groups'[TenantOf[page[i]]][k - 1] = page[i]
            BY <2>7, <5>5, <6>2
          <6>4. QED
            BY <6>3
        <5>6. QED
          BY <5>3, <5>4, <5>5
      <4>3. QED
        BY <4>1, <4>2 DEF LoopInv, NoneLost
    <3>2. QED
      BY <1>2, <3>1 DEF NoneLost
  <2>11. ASSUME NEW i \in DOMAIN ordered
         PROVE  /\ OnPage(ordered[i]) /\ TenantOf[ordered[i]] \in Tenants
                /\ Round(page, ordered[i]) \in Nat
                /\ Round(page, ordered[i]) <= Taken(TenantOf[ordered[i]])
                /\ ordered[i] # job
                /\ TakenBefore(page, cursor, ordered[i], job)
    <3>1. /\ OnPage(ordered[i]) /\ Round(page, ordered[i]) <= Taken(TenantOf[ordered[i]])
      BY DEF LoopInv, OrderedInv
    <3>2. TenantOf[ordered[i]] \in Tenants /\ Round(page, ordered[i]) \in Nat
      BY <1>1, <3>1, OnThePage
    <3>4. ordered[i] # job
      BY <2>3, <2>4, <3>1, <3>2
    <3>5. PICK p \in DOMAIN tenant_order : tenant_order[p] = TenantOf[ordered[i]]
      BY <1>1, InARound DEF Has
    <3>6. CASE p < next_tenant
      <4>1. Round(page, ordered[i]) <= r + 1
        BY <1>3, <1>4, <1>5, <3>1, <3>2, <3>5, <3>6
      <4>2. TenantBefore(page, cursor, TenantOf[ordered[i]], TenantOf[job])
        BY <1>1, <2>3, <3>5, <3>6 DEF LoopInv, InTurn
      <4>3. QED
        BY <2>3, <2>4, <3>1, <3>2, <3>4, <4>1, <4>2 DEF TakenBefore
    <3>7. CASE ~(p < next_tenant)
      <4>1. Turns(r, p) = r
        BY <1>1, <1>5, <3>7
      <4>2. Round(page, ordered[i]) <= r
        BY <1>3, <1>4, <3>1, <3>2, <3>5, <4>1
      <4>3. QED
        BY <2>3, <2>4, <3>1, <3>2, <3>4, <4>2 DEF TakenBefore
    <3>8. QED
      BY <3>6, <3>7
  <2>12. OrderedInv'
    <3>1. \A i, k \in DOMAIN ordered' : ordered'[i] = ordered'[k] => i = k
      BY <2>5, <2>11 DEF LoopInv, OrderedInv, IsInjective
    <3>2. ASSUME NEW i \in DOMAIN ordered', NEW t, t = TenantOf[ordered'[i]]
          PROVE  /\ OnPage(ordered'[i])
                 /\ Round(page, ordered'[i]) <= Taken(t)'
      <4>1. CASE i = n
        <5>1. ordered'[i] = job /\ t = tenant
          BY <2>3, <2>5, <3>2, <4>1
        <5>2. Taken(t)' = r + 1
          BY <2>6, <5>1
        <5>3. QED
          BY <2>3, <2>4, <5>1, <5>2
      <4>2. CASE i \in DOMAIN ordered
        <5>1. ordered'[i] = ordered[i] /\ t = TenantOf[ordered[i]]
          BY <2>5, <3>2, <4>2
        <5>2. Taken(t) \in Nat /\ Taken(t)' \in Nat /\ Taken(t) <= Taken(t)'
          BY <1>4, <2>4, <2>6
        <5>3. Round(page, ordered[i]) \in Nat /\ Round(page, ordered[i]) <= Taken(t)
          BY <2>11, <4>2, <5>1
        <5>4. QED
          BY <2>11, <4>2, <5>1, <5>2, <5>3
      <4>3. QED
        BY <2>5, <4>1, <4>2
    <3>3. ASSUME NEW i \in DOMAIN ordered', NEW k \in DOMAIN ordered', i < k
          PROVE  TakenBefore(page, cursor, ordered'[i], ordered'[k])
      <4>1. i \in DOMAIN ordered
        BY <1>1, <2>5, <3>3
      <4>2. CASE k = n
        BY <2>5, <2>11, <4>1, <4>2
      <4>3. CASE k \in DOMAIN ordered
        BY <2>5, <3>3, <4>1, <4>3 DEF LoopInv, OrderedInv
      <4>4. QED
        BY <2>5, <4>2, <4>3
    <3>4. QED
      <4>1. ASSUME NEW i \in DOMAIN ordered'
            PROVE  /\ \E x \in DOMAIN page' : page'[x] = ordered'[i]
                   /\ Round(page', ordered'[i]) <= Taken(TenantOf[ordered[i]])'
        <5>1. PICK t : t = TenantOf[ordered'[i]]
          OBVIOUS
        <5>2. OnPage(ordered'[i]) /\ Round(page, ordered'[i]) <= Taken(t)'
          BY <3>2, <4>1, <5>1
        <5>3. Taken(TenantOf[ordered[i]])' = Taken(t)'
          BY <5>1 DEF Taken
        <5>4. QED
          BY <1>2, <5>2, <5>3 DEF OnPage
      <4>2. QED
        BY <1>2, <3>1, <3>3, <4>1 DEF OrderedInv, IsInjective, OnPage
  <2>13. RoundsInv'
    <3>1. ASSUME NEW p \in DOMAIN tenant_order, NEW t, t = tenant_order[p]
          PROVE  /\ Taken(t)' <= IF p < next_tenant + 1 THEN r + 1 ELSE r
                 /\ groups'[t] # <<>> =>
                       Taken(t)' = IF p < next_tenant + 1 THEN r + 1 ELSE r
      <4>1. CASE p = next_tenant
        <5>1. t = tenant
          BY <3>1, <4>1
        <5>2. Taken(t)' = r + 1
          BY <2>6, <5>1
        <5>3. QED
          BY <1>5, <4>1, <5>2
      <4>2. CASE p # next_tenant
        <5>1. t # tenant /\ t \in Tenants
          BY <1>1, <3>1, <4>2
        <5>2. Taken(t)' = Taken(t) /\ groups'[t] = groups[t]
          BY <2>6, <2>7, <5>1
        <5>3. p < next_tenant \/ p > next_tenant
          BY <1>1, <1>5, <4>2
        <5>4. /\ Taken(t) <= Turns(r, p)
              /\ groups[t] # <<>> => Taken(t) = Turns(r, p)
          BY <1>3, <3>1
        <5>5. QED
          BY <1>4, <1>5, <5>2, <5>3, <5>4
      <4>3. QED
        BY <4>1, <4>2
    <3>2. ASSUME NEW p \in DOMAIN tenant_order'
          PROVE  /\ Taken(tenant_order[p])' <= IF p < next_tenant + 1 THEN r + 1 ELSE r
                 /\ groups'[tenant_order'[p]] # <<>> =>
                       Taken(tenant_order[p])' = IF p < next_tenant + 1 THEN r + 1 ELSE r
      <4>1. PICK t : t = tenant_order[p]
        OBVIOUS
      <4>2. Taken(tenant_order[p])' = Taken(t)'
        BY <1>2, <4>1 DEF Taken
      <4>3. QED
        BY <1>2, <3>1, <3>2, <4>1, <4>2
    <3>3. QED
      BY <1>2, <3>2 DEF RoundsInv, Turns
  <2>14. Drained'
    BY <1>1, <1>2, <2>1 DEF Drained
  <2>15. QED
    BY <1>6, <2>8, <2>9, <2>10, <2>12, <2>13, <2>14 DEF LoopInv
<1>9. QED
  BY <1>7, <1>8

LEMMA EndRoundKeeps ==
    ASSUME LoopInv, EndRound
    PROVE  LoopInv'
<1>1. /\ at = "rounds" /\ at' = IF pending THEN "rounds" ELSE "done"
      /\ pending' = FALSE /\ next_tenant' = 1
      /\ UNCHANGED <<page, cursor, grouped, groups, tenant_order, ordered>>
  BY DEF EndRound
<1>2. /\ tenant_order \in Seq(Tenants) /\ next_tenant \in Nat
      /\ next_tenant > Len(tenant_order) /\ groups \in [Tenants -> Seq(Jobs)]
  BY DEF LoopInv, LoopTypeOK, EndRound
<1>3. \A p \in DOMAIN tenant_order : p \in Nat /\ p < next_tenant /\ ~(p < 1)
  BY <1>2
<1>4. LoopTypeOK'
  <2>1. next_tenant' \in 1..(Len(tenant_order') + 1)
    BY <1>1, <1>2
  <2>2. QED
    BY <1>1, <2>1 DEF LoopInv, LoopTypeOK
<1>5. GroupsInv'
  BY <1>1 DEF LoopInv, GroupsInv, OnPage, Taken
<1>6. NoneLost' /\ TenantsSeen'
  BY <1>1 DEF LoopInv, NoneLost, TenantsSeen, Has, Candidates
<1>7. Grouping' /\ InTurn'
  BY <1>1 DEF LoopInv, Grouping, InTurn
<1>8. OrderedInv'
  BY <1>1 DEF LoopInv, OrderedInv, OnPage, Taken
<1>9. RoundsInv'
  <2>1. PICK r \in Nat : \A p \in DOMAIN tenant_order :
          /\ Taken(tenant_order[p]) <= Turns(r, p)
          /\ groups[tenant_order[p]] # <<>> => Taken(tenant_order[p]) = Turns(r, p)
    BY <1>1 DEF LoopInv, RoundsInv
  <2>2. \A p \in DOMAIN tenant_order : Turns(r, p) = r + 1
    BY <1>3 DEF Turns
  <2>3. \A p \in DOMAIN tenant_order : Taken(tenant_order[p])' = Taken(tenant_order[p])
    BY <1>1 DEF Taken
  <2>4. ASSUME NEW p \in DOMAIN tenant_order'
        PROVE  /\ Taken(tenant_order[p])' <= r + 1
               /\ groups'[tenant_order'[p]] # <<>> => Taken(tenant_order[p])' = r + 1
               /\ ~(p < next_tenant')
    BY <1>1, <1>3, <2>1, <2>2, <2>3, <2>4
  <2>5. r + 1 \in Nat
    OBVIOUS
  <2>6. QED
    BY <2>4, <2>5 DEF RoundsInv, Turns
<1>10. Drained'
  <2>1. at' = "rounds" => \A p \in DOMAIN tenant_order' : ~(p < next_tenant')
    BY <1>1, <1>3
  <2>2. ASSUME ~pending, NEW t \in Tenants, groups[t] # <<>> PROVE FALSE
    <3>1. PICK p \in DOMAIN tenant_order : tenant_order[p] = t
      BY <1>1, <2>2, InARound DEF Has
    <3>2. groups[tenant_order[p]] = <<>>
      BY <1>1, <1>3, <2>2 DEF LoopInv, Drained
    <3>3. QED
      BY <2>2, <3>1, <3>2
  <2>3. QED
    BY <1>1, <2>1, <2>2 DEF Drained
<1>11. QED
  BY <1>4, <1>5, <1>6, <1>7, <1>8, <1>9, <1>10 DEF LoopInv

LEMMA LoopInvStays == ASSUME LoopInv, UNCHANGED vars PROVE LoopInv'
<1> USE DEF vars, LoopInv
<1>1. LoopTypeOK' /\ InTurn' /\ Drained'
  BY DEF LoopTypeOK, InTurn, Drained
<1>2. GroupsInv' /\ OrderedInv'
  BY DEF GroupsInv, OrderedInv, OnPage, Taken
<1>3. NoneLost' /\ TenantsSeen'
  BY DEF NoneLost, TenantsSeen, Has, Candidates
<1>4. Grouping'
  BY DEF Grouping, Candidates, IsFirst
<1>5. RoundsInv'
  BY DEF RoundsInv, Taken, Turns
<1>6. QED
  BY <1>1, <1>2, <1>3, <1>4, <1>5

LEMMA LoopInvNext == LoopInv /\ [Next]_vars => LoopInv'
<1> SUFFICES ASSUME LoopInv, [Next]_vars PROVE LoopInv'
  OBVIOUS
<1>1. CASE GroupJob
  BY <1>1, GroupJobKeeps
<1>2. CASE Rotate
  BY <1>2, RotateKeeps
<1>3. CASE VisitTenant
  BY <1>3, VisitTenantKeeps
<1>4. CASE EndRound
  BY <1>4, EndRoundKeeps
<1>5. CASE UNCHANGED vars
  BY <1>5, LoopInvStays
<1>6. QED
  BY <1>1, <1>2, <1>3, <1>4, <1>5 DEF Next, Returned

-----------------------------------------------------------------------------
\* What was appended was ordered when it was appended: the list returned is
\* that of the closed form, whatever the page and the cursor.
THEOREM OrdersRoundRobin == Spec => []ReturnsRoundRobin
<1>1. ASSUME LoopInv, at = "done" PROVE IsRoundRobin(ordered, page, cursor)
  <2>1. /\ page \in Seq(Jobs) /\ ordered \in Seq(Jobs) /\ IsInjective(page)
        /\ IsInjective(ordered) /\ grouped = Len(page)
    BY <1>1 DEF LoopInv, LoopTypeOK, OrderedInv, InTurn
  <2> DEFINE S == {page[i] : i \in DOMAIN page}
             T == {ordered[i] : i \in DOMAIN ordered}
  <2>2. T \subseteq S
    BY <1>1 DEF LoopInv, OrderedInv, OnPage
  <2>3. ASSUME NEW i \in DOMAIN page PROVE page[i] \in T
    <3>1. TenantOf[page[i]] \in Tenants /\ i \in 1..grouped
      BY <2>1, JobTenants
    <3>2. groups[TenantOf[page[i]]] = <<>>
      BY <1>1, <3>1 DEF LoopInv, Drained
    <3>3. ~ \E k \in DOMAIN groups[TenantOf[page[i]]] :
               groups[TenantOf[page[i]]][k] = page[i]
      BY <3>2
    <3>4. \E k \in DOMAIN ordered : ordered[k] = page[i]
      BY <1>1, <3>1, <3>3 DEF LoopInv, NoneLost
    <3>5. QED
      BY <3>4
  <2>4. S = T
    BY <2>2, <2>3
  <2>5. Len(ordered) = Len(page)
    <3>1. page \in Bijection(1..Len(page), S)
      BY <2>1 DEF Bijection, Injection, Surjection, IsInjective
    <3>2. ordered \in Bijection(1..Len(ordered), T)
      BY <2>1 DEF Bijection, Injection, Surjection, IsInjective
    <3> HIDE DEF S, T
    <3>3. ExistsBijection(1..Len(page), S) /\ ExistsBijection(1..Len(ordered), T)
      BY <3>1, <3>2 DEF ExistsBijection
    <3>4. Len(page) \in Nat /\ Len(ordered) \in Nat
      BY <2>1
    <3>5. Cardinality(S) = Len(page) /\ Cardinality(T) = Len(ordered)
      BY <3>3, <3>4, FS_CountingElements
    <3>6. QED
      BY <2>4, <3>5
  <2>6. \A i, k \in DOMAIN ordered : i < k => TakenBefore(page, cursor, ordered[i], ordered[k])
    BY <1>1 DEF LoopInv, OrderedInv
  <2>7. QED
    BY <2>4, <2>5, <2>6 DEF IsRoundRobin
<1>2. LoopInv => ReturnsRoundRobin
  BY <1>1 DEF ReturnsRoundRobin
<1>3. QED
  BY <1>2, LoopInvInit, LoopInvNext, PTL DEF Spec

\* Whoever has candidates left is at most one job behind any tenant, and not
\* at all behind the tenant the pass before dispatched last.
THEOREM SharesEqually == Spec => []EqualShares
<1>1. ASSUME LoopInv, at # "group", NEW t \in Tenants, NEW u \in Tenants, groups[t] # <<>>
      PROVE  /\ Taken(u) <= Taken(t) + 1
             /\ u = cursor => Taken(u) <= Taken(t)
  <2>1. /\ tenant_order \in Seq(Tenants) /\ ordered \in Seq(Jobs)
        /\ next_tenant \in Nat /\ at = "rounds"
    BY <1>1 DEF LoopInv, LoopTypeOK, Drained
  <2>2. \A v : Taken(v) \in Nat
    BY <2>1, TakenAppend
  <2>3. PICK p \in DOMAIN tenant_order : tenant_order[p] = t
    BY <1>1, InARound DEF Has
  <2>4. PICK r \in Nat : \A q \in DOMAIN tenant_order :
          /\ Taken(tenant_order[q]) <= Turns(r, q)
          /\ groups[tenant_order[q]] # <<>> => Taken(tenant_order[q]) = Turns(r, q)
    BY <1>1, <2>1 DEF LoopInv, RoundsInv
  <2>5. Taken(t) = Turns(r, p)
    BY <1>1, <2>3, <2>4
  <2>6. CASE \E q \in DOMAIN tenant_order : tenant_order[q] = u
    <3>1. PICK q \in DOMAIN tenant_order : tenant_order[q] = u
      BY <2>6
    <3>2. Taken(u) <= Turns(r, q)
      BY <2>4, <3>1
    <3>3. u = cursor => p <= q
      <4>1. u = cursor => q = Len(tenant_order)
        BY <1>1, <3>1 DEF LoopInv, InTurn
      <4>2. QED
        BY <2>1, <4>1
    <3>4. p \in Nat /\ q \in Nat
      BY <2>1
    <3>5. QED
      BY <2>1, <2>2, <2>5, <3>2, <3>3, <3>4 DEF Turns
  <2>7. CASE ~ \E q \in DOMAIN tenant_order : tenant_order[q] = u
    <3>1. \A i \in DOMAIN ordered : TenantOf[ordered[i]] # u
      BY <1>1, <2>7, InARound DEF Has
    <3>2. Taken(u) = 0
      BY <3>1, FS_EmptySet DEF Taken
    <3>3. QED
      BY <2>2, <3>2
  <2>8. QED
    BY <2>6, <2>7
<1>2. LoopInv => EqualShares
  BY <1>1 DEF EqualShares
<1>3. QED
  BY <1>2, LoopInvInit, LoopInvNext, PTL DEF Spec
=============================================================================
