\* Counters: a job with two retries, two scrapes at once, a cancel, a fault of
\* either process.
CONSTANTS
    j1 = j1
    t1 = t1
    Null = Null
    Jobs = {j1}
    Tenants = {t1}
    TenantOf <- Owner
    PriorityOf <- Zero
    MaxRetries <- Three
    BackoffSeconds <- Zero
    TimeoutSeconds <- Zero
    Horizon = 0
    NamePrefix <- OwnName
    Ends <- AnyEnd
    TenantMaxRunning = 1
    DispatchBatchSize = 1
    CandidateMultiplier = 1
    RunningScanLimit = 1
    Malformed = {}
    MaxFaults = 1
    CancelHandlers = {h1}
    Scrapers = {s1, s2}
SPECIFICATION MetricsSpec
SYMMETRY Alike
INVARIANTS
    MetricsTypeOK
    NeverUndercounts
    CountedAtMostTwice
    SingleScrapeCountsOnce
    CoversTable
