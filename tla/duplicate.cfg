\* Three duplicates of one request at once, and two connections.
CONSTANTS
    t1 = t1
    t2 = t2
    b1 = b1
    k = k
    Null = Null
    EmptyKey = ""
    Handlers = {h1, h2, h3}
    Tenants = {t1}
    Unit = 3
    Rate = 2
    Burst = 3
    Second = 1
    LastTick = 0
    Bodies = {b1}
    Keys = {k}
    Requests <- Same
    OverCaps = {}
    PoolSize = 2
    MaxRequests = 3
    MaxFaults = 0
CHECK_DEADLOCK FALSE
SPECIFICATION SubmitSpec
SYMMETRY Threads
INVARIANT
    DuplicateAnswered
