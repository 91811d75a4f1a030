\* Submits: one key for two tenants, an empty key, none; more threads than
\* connections, a burst of two tokens and one fault.  The system stops when
\* the clients have sent their last request.
CONSTANTS
    t1 = t1
    t2 = t2
    b1 = b1
    k = k
    Null = Null
    EmptyKey = ""
    Handlers = {h1, h2, h3}
    Tenants = {t1, t2}
    Unit = 3
    Rate = 2
    Burst = 2
    Second = 1
    LastTick = 1
    Bodies = {b1, "huge"}
    Keys = {k, "", Null}
    Requests <- Mixed
    OverCaps = {"huge"}
    PoolSize = 2
    MaxRequests = 3
    MaxFaults = 1
CHECK_DEADLOCK FALSE
SPECIFICATION FairSubmitSpec
INVARIANTS
    SubmitTypeOK
PROPERTIES
    ContractKept
    EveryRequestAnswered
