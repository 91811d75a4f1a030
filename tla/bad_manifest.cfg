\* A queued job whose manifest cannot be built.
CONSTANTS
    j1 = j1
    j2 = j2
    j3 = j3
    t1 = t1
    t2 = t2
    Null = Null
    Jobs = {j1, j2}
    Tenants = {t1}
    TenantOf <- OneTenant
    PriorityOf <- Zero
    MaxRetries <- Zero
    BackoffSeconds <- Zero
    TimeoutSeconds <- Zero
    Horizon = 0
    NamePrefix <- OwnName
    Ends <- Succeeds
    TenantMaxRunning = 2
    DispatchBatchSize = 1
    CandidateMultiplier = 1
    RunningScanLimit = 2
    Malformed = {j2}
    MaxFaults = 0
    CancelHandlers = {}
SPECIFICATION FairSpec
PROPERTIES
    OtherJobsSettle
