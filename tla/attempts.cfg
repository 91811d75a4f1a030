\* One job through its attempts: retries, backoff, timeout, TTL, two faults, two
\* cancel requests at once.
CONSTANTS
    j1 = j1
    j2 = j2
    j3 = j3
    t1 = t1
    t2 = t2
    Null = Null
    Jobs = {j1}
    Tenants = {t1}
    TenantOf <- OneTenant
    PriorityOf <- Zero
    MaxRetries <- Three
    BackoffSeconds <- One
    TimeoutSeconds <- Two
    Horizon = 5
    NamePrefix <- OwnName
    Ends <- AnyEnd
    TenantMaxRunning = 1
    DispatchBatchSize = 1
    CandidateMultiplier = 1
    RunningScanLimit = 1
    Malformed = {}
    MaxFaults = 2
    CancelHandlers = {h1, h2}
SPECIFICATION Spec
INVARIANTS
    AttemptBudget
    SingleExecution
    LiveWorkIsCurrent
    VerdictIsReal
    NameWasCreated
    NotBeforeBackoff
    AttemptRunsOnce
PROPERTIES
    NeverReopened
    LifecycleRefined
