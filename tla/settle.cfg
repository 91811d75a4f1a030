\* Liveness: one job that may fail, be retried and time out, and one whose
\* manifest cannot be built.
CONSTANTS
    j1 = j1
    j2 = j2
    j3 = j3
    t1 = t1
    t2 = t2
    Null = Null
    Jobs = {j1, j2}
    Tenants = {t1}
    TenantOf <- OneTenant
    PriorityOf <- Zero
    MaxRetries <- Two
    BackoffSeconds <- One
    TimeoutSeconds <- Two
    Horizon = 2
    NamePrefix <- OwnName
    Ends <- AnyEnd
    TenantMaxRunning = 2
    DispatchBatchSize = 2
    CandidateMultiplier = 1
    RunningScanLimit = 2
    Malformed = {j2}
    MaxFaults = 1
    CancelHandlers = {h1}
SPECIFICATION FairSpec
PROPERTIES
    EveryJobSettles
