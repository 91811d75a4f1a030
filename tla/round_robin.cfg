\* Every page of five jobs of three tenants, every cursor.
CONSTANTS
    j1 = j1
    j2 = j2
    j3 = j3
    j4 = j4
    j5 = j5
    t1 = t1
    t2 = t2
    t3 = t3
    t4 = t4
    Null = Null
    Jobs = {j1, j2, j3, j4, j5}
    Tenants = {t1, t2, t3, t4}
    TenantOf <- Owners
    PriorityOf <- Zero
    MaxRetries <- Zero
    BackoffSeconds <- Zero
    TimeoutSeconds <- Zero
    Horizon = 0
SPECIFICATION Spec
INVARIANTS
    ReturnsRoundRobin
    EqualShares
PROPERTIES
    Returns
