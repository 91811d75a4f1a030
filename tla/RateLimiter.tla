---------------------------- MODULE RateLimiter -----------------------------
(***************************************************************************)
(* TenantRateLimiter, src/services/api/main.py: a token bucket per tenant, *)
(* in the memory of the API process, shared by the threads that serve      *)
(* submit requests.  allow() reads the clock first and takes the lock      *)
(* afterwards, so the holders of the lock may come in another order than   *)
(* their readings.                                                         *)
(*                                                                         *)
(* Tokens are counted in units, of which the bucket gains Rate a tick and  *)
(* a request takes Unit, so that rps = Rate * Second / Unit.               *)
(***************************************************************************)
EXTENDS Integers

CONSTANTS
    Handlers,    \* threads that may be in allow() at once
    Tenants,     \* tenant ids
    Unit,        \* units that make a token
    Rate,        \* units a bucket gains in a tick: max(rps, 0.001)
    Burst,       \* tokens a bucket holds: max(burst, 1)
    Second,      \* ticks in a second
    LastTick,    \* last tick of the clock (BOUND)
    Null         \* no entry in the dict, no call, no promise

ASSUME LimiterAssumption ==
    /\ {Unit, Rate, Burst, Second} \subseteq Nat \ {0}
    /\ LastTick \in Nat
    /\ Null \notin Nat

VARIABLES
    clock,      \* time.monotonic()
    calls,      \* [tenant, now] of the call of allow() each thread is in
    buckets,    \* _state: tokens and last, per tenant
    past        \* history of each bucket: Past

limiterVars == <<clock, calls, buckets, past>>

Call == [tenant: Tenants, now: Nat]

Bucket == [tokens: 0..(Burst * Unit), last: Nat]

\* The history of a bucket.  since: the reading it was made with; admitted: requests it let through;
\* overtaken: by how much its time was moved back, in total; promised: the
\* earliest end of a Retry-After period it announced after the last of them.
Past == [since: Nat, admitted: Nat, overtaken: Nat, promised: Nat \cup {Null}]

NothingPast == [since |-> 0, admitted |-> 0, overtaken |-> 0, promised |-> Null]

NoBuckets == [t \in Tenants |-> Null]

LimiterTypeOK ==
    /\ clock \in Nat
    /\ calls \in [Handlers -> Call \cup {Null}]
    /\ buckets \in [Tenants -> Bucket \cup {Null}]
    /\ past \in [Tenants -> Past]

LimiterInit ==
    /\ clock = 0
    /\ calls = [h \in Handlers |-> Null]
    /\ buckets = NoBuckets
    /\ past = [t \in Tenants |-> NothingPast]

-----------------------------------------------------------------------------
Least(a, b) == IF a < b THEN a ELSE b

\* How far b is past a.
Beyond(a, b) == IF b > a THEN b - a ELSE 0

\* Mutant: abs(now - last).
ElapsedEitherWay(last, now) == Beyond(last, now) + Beyond(now, last)

\* max(0.0, now - last)
Elapsed(last, now) == Beyond(last, now)

\* Mutant: the period is rounded down.
RetryAfterFloor(tokens) ==
    LET seconds == (Unit - tokens) \div (Rate * Second)
    IN IF seconds < 1 THEN 1 ELSE seconds

\* max(1, int(math.ceil(needed / self.rps))), in whole seconds.
RetryAfter(tokens) ==
    LET perSecond == Rate * Second
        seconds == (Unit - tokens + perSecond - 1) \div perSecond
    IN IF seconds < 1 THEN 1 ELSE seconds

\* self._state.get(tenant_id, (float(self.burst), now))
BucketOf(t, now) ==
    IF buckets[t] = Null THEN [tokens |-> Burst * Unit, last |-> now] ELSE buckets[t]

PastOf(t, now) ==
    IF buckets[t] = Null THEN [NothingPast EXCEPT !.since = now] ELSE past[t]

\* Mutant: without min(self.burst, ...).
RefilledUncapped(b, now) == b.tokens + Elapsed(b.last, now) * Rate

\* min(float(self.burst), tokens + elapsed * self.rps)
Refilled(b, now) ==
    Least(Burst * Unit, b.tokens + Elapsed(b.last, now) * Rate)

Tokens(h) == Refilled(BucketOf(calls[h].tenant, calls[h].now), calls[h].now)

-----------------------------------------------------------------------------
ReadClock(h, t) ==
    /\ calls[h] = Null
    /\ calls' = [calls EXCEPT ![h] = [tenant |-> t, now |-> clock]]
    /\ UNCHANGED <<clock, buckets, past>>

\* What a holder of the lock leaves behind, and the history of it.
Leaves(h, tokens, admitted, promise) ==
    LET t == calls[h].tenant
        reading == calls[h].now
        b == BucketOf(t, reading)
        p == PastOf(t, reading)
    IN
    /\ buckets' = [buckets EXCEPT ![t] = [tokens |-> tokens, last |-> reading]]
    /\ past' = [past EXCEPT ![t] =
                   [since |-> p.since,
                    admitted |-> p.admitted + admitted,
                    overtaken |-> p.overtaken + Beyond(reading, b.last),
                    promised |-> promise]]
    /\ calls' = [calls EXCEPT ![h] = Null]
    /\ UNCHANGED clock

Allows(h) ==
    /\ calls[h] # Null
    /\ Tokens(h) >= Unit
    /\ Leaves(h, Tokens(h) - Unit, 1, Null)

Refuses(h) ==
    LET end == calls[h].now + RetryAfter(Tokens(h)) * Second
        promised == PastOf(calls[h].tenant, calls[h].now).promised
    IN
    /\ calls[h] # Null
    /\ Tokens(h) < Unit
    /\ Leaves(h, Tokens(h), 0, IF promised = Null THEN end ELSE Least(promised, end))

\* The process dies: its threads and its buckets are gone, and a new one begins.
LimiterDies ==
    /\ calls' = [h \in Handlers |-> Null]
    /\ buckets' = NoBuckets
    /\ past' = [t \in Tenants |-> NothingPast]
    /\ UNCHANGED clock

TimePasses ==
    /\ clock < LastTick
    /\ clock' = clock + 1
    /\ UNCHANGED <<calls, buckets, past>>

LimiterNext ==
    \/ \E h \in Handlers : Allows(h) \/ Refuses(h) \/ \E t \in Tenants : ReadClock(h, t)
    \/ LimiterDies
    \/ TimePasses

LimiterSpec == LimiterInit /\ [][LimiterNext]_limiterVars

-----------------------------------------------------------------------------
\* A tenant is never let through more often than its burst and its rate
\* allow (main.py:102-118), where a call that overtook another between the
\* clock and the lock makes the time in between count once more: what the
\* bucket gave away and still holds is at most what it began with and gained.
RateKept ==
    \A t \in Tenants : buckets[t] # Null =>
        past[t].admitted * Unit + buckets[t].tokens
            <= Burst * Unit
               + Rate * (buckets[t].last - past[t].since + past[t].overtaken)

\* Retry-After is kept: a call that reads the clock when such a period is
\* over is let through, if the tenant was not let through in between,
\* whatever calls overtake one another (main.py:116).
RetryAfterKept ==
    \A h \in Handlers :
        calls[h] # Null =>
            LET promised == PastOf(calls[h].tenant, calls[h].now).promised IN
            promised # Null /\ calls[h].now >= promised => Tokens(h) >= Unit
=============================================================================
