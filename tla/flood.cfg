\* A tenant at its quota that fills the candidate window, and the job of another.
CONSTANTS
    j1 = j1
    j2 = j2
    j3 = j3
    t1 = t1
    t2 = t2
    Null = Null
    Jobs = {j1, j2, j3, j4}
    Tenants = {t1, t2}
    TenantOf <- LastJobApart
    PriorityOf <- Zero
    MaxRetries <- Zero
    BackoffSeconds <- Zero
    TimeoutSeconds <- Zero
    Horizon = 0
    NamePrefix <- OwnName
    Ends <- FirstHangs
    TenantMaxRunning = 1
    DispatchBatchSize = 1
    CandidateMultiplier = 2
    RunningScanLimit = 4
    Malformed = {}
    MaxFaults = 0
    CancelHandlers = {}
SPECIFICATION FairSpec
PROPERTIES
    NoStarvation
