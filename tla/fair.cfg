\* Quota and liveness: a tenant with a job that never ends and one that waits,
\* beside the job of another tenant; a cancel; a batch of two; the scan holds all
\* jobs.  The ids of the first two share their first eight characters.
CONSTANTS
    j1 = j1
    j2 = j2
    j3 = j3
    t1 = t1
    t2 = t2
    Null = Null
    Jobs = {j1, j2, j3}
    Tenants = {t1, t2}
    TenantOf <- LastJobApart
    PriorityOf <- Zero
    MaxRetries <- Zero
    BackoffSeconds <- Zero
    TimeoutSeconds <- Zero
    Horizon = 0
    NamePrefix <- CollidingNames
    Ends <- OthersEnd
    TenantMaxRunning = 1
    DispatchBatchSize = 2
    CandidateMultiplier = 1
    RunningScanLimit = 3
    Malformed = {}
    MaxFaults = 0
    CancelHandlers = {h1}
SPECIFICATION FairSpec
INVARIANTS
    TypeOK
    TenantQuota
    NameWasCreated
    OutcomeIsOwn
PROPERTIES
    WindowServed
    OutcomeIsWritten
