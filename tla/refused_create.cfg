\* A job whose create call is refused.
CONSTANTS
    j1 = j1
    j2 = j2
    j3 = j3
    t1 = t1
    t2 = t2
    Null = Null
    Jobs = {j1}
    Tenants = {t1}
    TenantOf <- OneTenant
    PriorityOf <- Zero
    MaxRetries <- Zero
    BackoffSeconds <- Zero
    TimeoutSeconds <- Zero
    Horizon = 0
    NamePrefix <- OwnName
    Ends <- AnyEnd
    TenantMaxRunning = 1
    DispatchBatchSize = 1
    CandidateMultiplier = 1
    RunningScanLimit = 1
    Malformed = {}
    MaxFaults = 1
    CancelHandlers = {}
SPECIFICATION Spec
PROPERTIES
    FailsOnlyFromRunning
