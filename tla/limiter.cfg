\* Limiter: three threads that overtake one another, a burst of two and two
\* tokens in three seconds; the process dies at any time.
CONSTANTS
    Null = Null
    Handlers = {h1, h2, h3}
    Tenants = {t1}
    Unit = 3
    Rate = 2
    Burst = 2
    Second = 1
    LastTick = 6
SPECIFICATION LimiterSpec
SYMMETRY Alike
INVARIANTS
    LimiterTypeOK
    RateKept
    RetryAfterKept
