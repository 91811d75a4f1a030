------------------------- MODULE RateLimiterProofs --------------------------
(***************************************************************************)
(* The rate limiter for every number of threads and tenants, every rate    *)
(* and burst.                                                              *)
(***************************************************************************)
EXTENDS RateLimiter, TLAPS

-----------------------------------------------------------------------------
(* Arithmetic.                                                             *)

LEMMA Distributes ==
    \A a, b, c \in Int : a * (b + c) = a * b + a * c
BY Z3

LEMMA Grows ==
    ASSUME NEW a \in Nat, NEW b \in Int, NEW c \in Int, b <= c
    PROVE  a * b <= a * c
BY Z3

LEMMA DivIsFloor ==
    ASSUME NEW x \in Nat, NEW d \in Nat \ {0}
    PROVE  /\ x \div d \in Nat
           /\ x < d * (x \div d) + d
BY Z3

\* A Retry-After period is long enough for the tokens that are missing.
LEMMA RetryAfterSuffices ==
    ASSUME LimiterAssumption, NEW tokens \in Nat, tokens < Unit
    PROVE  /\ RetryAfter(tokens) \in Nat
           /\ Unit <= tokens + RetryAfter(tokens) * Second * Rate
<1> DEFINE perSecond == Rate * Second
           missing == Unit - tokens
           seconds == (missing + perSecond - 1) \div perSecond
<1>1. {Unit, Rate, Second} \subseteq Nat \ {0}
  BY DEF LimiterAssumption
<1>2. perSecond \in Nat \ {0}
  BY <1>1, Z3
<1>3. missing \in Nat \ {0} /\ missing + perSecond - 1 \in Nat
  BY <1>1, <1>2
<1> HIDE DEF perSecond, missing
<1>4. seconds \in Nat /\ missing + perSecond - 1 < perSecond * seconds + perSecond
  BY <1>2, <1>3, DivIsFloor
<1>5. missing <= perSecond * seconds /\ perSecond * seconds \in Int
  <2>1. perSecond * seconds \in Int
    BY <1>2, <1>4, Z3
  <2>2. QED
    BY <1>2, <1>3, <1>4, <2>1
<1>6. seconds >= 1
  <2>1. seconds # 0
    BY <1>2, <1>3, <1>5
  <2>2. QED
    BY <1>4, <2>1
<1>7. RetryAfter(tokens) = seconds
  BY <1>4, <1>6 DEF RetryAfter, perSecond, missing
<1>8. RetryAfter(tokens) * Second * Rate = perSecond * seconds
  BY <1>1, <1>4, <1>7, Z3 DEF perSecond
<1>9. QED
  BY <1>1, <1>4, <1>5, <1>7, <1>8 DEF missing

-----------------------------------------------------------------------------
(* One call of allow().                                                    *)

LEMMA BucketType ==
    ASSUME LimiterAssumption, LimiterTypeOK, NEW t \in Tenants, NEW reading \in Nat
    PROVE  /\ BucketOf(t, reading) \in Bucket
           /\ PastOf(t, reading) \in Past
BY Z3 DEF LimiterAssumption, LimiterTypeOK, BucketOf, PastOf, Bucket, Past, NothingPast

LEMMA RefilledType ==
    ASSUME LimiterAssumption, NEW b \in Bucket, NEW reading \in Nat
    PROVE  /\ Elapsed(b.last, reading) \in Nat
           /\ Elapsed(b.last, reading) * Rate \in Nat
           /\ Refilled(b, reading) \in 0..(Burst * Unit)
<1>1. Elapsed(b.last, reading) \in Nat
  BY DEF Bucket, Elapsed, Beyond
<1>2. Elapsed(b.last, reading) * Rate \in Nat
  BY <1>1, Z3 DEF LimiterAssumption
<1>3. Burst * Unit \in Nat
  BY Z3 DEF LimiterAssumption
<1>4. QED
  BY <1>1, <1>2, <1>3 DEF Bucket, Refilled, Least

LEMMA CallType ==
    ASSUME LimiterAssumption, LimiterTypeOK, NEW h \in Handlers, calls[h] # Null
    PROVE  /\ calls[h].tenant \in Tenants
           /\ calls[h].now \in Nat
           /\ BucketOf(calls[h].tenant, calls[h].now) \in Bucket
           /\ PastOf(calls[h].tenant, calls[h].now) \in Past
           /\ Tokens(h) \in 0..(Burst * Unit)
<1>1. calls[h].tenant \in Tenants /\ calls[h].now \in Nat
  BY DEF LimiterTypeOK, Call
<1>2. QED
  BY <1>1, BucketType, RefilledType DEF Tokens

\* Whatever a call leaves behind is a bucket again, and so is its history.
LEMMA LeavesType ==
    ASSUME LimiterAssumption, LimiterTypeOK,
           NEW h \in Handlers, calls[h] # Null,
           NEW tokens \in 0..(Burst * Unit), NEW admitted \in Nat,
           NEW promise \in Nat \cup {Null},
           Leaves(h, tokens, admitted, promise)
    PROVE  LimiterTypeOK'
<1> DEFINE t == calls[h].tenant
           reading == calls[h].now
           b == BucketOf(t, reading)
           p == PastOf(t, reading)
<1>1. t \in Tenants /\ reading \in Nat /\ b \in Bucket /\ p \in Past
  BY CallType
<1>2. [tokens |-> tokens, last |-> reading] \in Bucket
  BY <1>1 DEF Bucket
<1>3. [since |-> p.since, admitted |-> p.admitted + admitted,
       overtaken |-> p.overtaken + Beyond(reading, b.last), promised |-> promise] \in Past
  BY <1>1 DEF Past, Bucket, Beyond
<1>4. QED
  BY <1>1, <1>2, <1>3 DEF Leaves, LimiterTypeOK

\* What RateKept says of one bucket and its history.
WithinRate(b, p) ==
    p.admitted * Unit + b.tokens
        <= Burst * Unit + Rate * (b.last - p.since + p.overtaken)

\* The age of a bucket, with what it was moved back, grows by what it is paid for.
LEMMA AgeGrows ==
    \A last, since, overtaken, n \in Int :
        /\ Elapsed(last, n) \in Int
        /\ n - since + (overtaken + Beyond(n, last))
              = last - since + overtaken + Elapsed(last, n)
BY DEF Elapsed, Beyond

LEMMA WithinRateAtCall ==
    ASSUME LimiterAssumption, LimiterTypeOK, RateKept,
           NEW t \in Tenants, NEW reading \in Nat
    PROVE  WithinRate(BucketOf(t, reading), PastOf(t, reading))
<1>1. CASE buckets[t] # Null
  BY <1>1 DEF RateKept, WithinRate, BucketOf, PastOf
<1>2. CASE buckets[t] = Null
  <2>1. /\ BucketOf(t, reading) = [tokens |-> Burst * Unit, last |-> reading]
        /\ PastOf(t, reading) =
              [since |-> reading, admitted |-> 0, overtaken |-> 0, promised |-> Null]
    BY <1>2 DEF BucketOf, PastOf, NothingPast
  <2>2. Burst * Unit \in Nat /\ 0 * Unit = 0 /\ Rate * (reading - reading + 0) = 0
    BY Z3 DEF LimiterAssumption
  <2>3. QED
    BY <2>1, <2>2 DEF WithinRate
<1>3. QED
  BY <1>1, <1>2

\* What a call gives away and keeps is paid for by what it found and the time it adds.
LEMMA CallWithinRate ==
    ASSUME LimiterAssumption,
           NEW b \in Bucket, NEW p \in Past, NEW n \in Nat, WithinRate(b, p),
           NEW admitted \in {0, 1}, NEW promise
    PROVE  WithinRate([tokens |-> Refilled(b, n) - admitted * Unit, last |-> n],
                      [since |-> p.since, admitted |-> p.admitted + admitted,
                       overtaken |-> p.overtaken + Beyond(n, b.last), promised |-> promise])
<1> DEFINE age == b.last - p.since + p.overtaken
           gain == Elapsed(b.last, n)
           age2 == n - p.since + (p.overtaken + Beyond(n, b.last))
           tokens == Refilled(b, n)
<1>1. {Unit, Rate, Burst} \subseteq Nat \ {0}
  BY DEF LimiterAssumption
<1>2. /\ b.tokens \in Int /\ b.last \in Int /\ p.since \in Int
      /\ p.overtaken \in Int /\ p.admitted \in Int
  BY <1>1, Z3 DEF Bucket, Past
<1>3. age \in Int /\ gain \in Int /\ age2 = age + gain
  <2>1. \A last, since, overtaken \in Int :
           /\ Elapsed(last, n) \in Int
           /\ n - since + (overtaken + Beyond(n, last))
                 = last - since + overtaken + Elapsed(last, n)
    BY AgeGrows
  <2>2. gain \in Int
    BY <1>2, <2>1, Zenon
  <2>3. age2 = age + gain
    BY <1>2, <2>1, Zenon
  <2>4. QED
    BY <1>2, <2>2, <2>3
<1>4. p.admitted * Unit + b.tokens <= Burst * Unit + Rate * age
  BY DEF WithinRate
<1>5. tokens \in Int /\ tokens <= b.tokens + gain * Rate
  <2>1. Burst * Unit \in Int /\ b.tokens + gain * Rate \in Int
    BY <1>1, <1>2, <1>3, Z3
  <2>2. tokens = Least(Burst * Unit, b.tokens + gain * Rate)
    BY DEF Refilled
  <2> HIDE DEF tokens, gain
  <2>3. QED
    BY <2>1, <2>2 DEF Least
<1> HIDE DEF age, gain, age2, tokens
<1>6. Rate * age2 = Rate * age + Rate * gain
  BY <1>1, <1>3, Distributes
<1>7. /\ gain * Rate = Rate * gain
      /\ {Rate * gain, Rate * age, Burst * Unit, p.admitted * Unit, admitted * Unit} \subseteq Int
      /\ (p.admitted + admitted) * Unit = p.admitted * Unit + admitted * Unit
  BY <1>1, <1>2, <1>3, Z3
<1>8. (p.admitted + admitted) * Unit + (tokens - admitted * Unit)
         <= Burst * Unit + Rate * age2
  BY <1>2, <1>4, <1>5, <1>6, <1>7
<1>9. QED
  BY <1>8 DEF WithinRate, age2, tokens

LEMMA LeavesRate ==
    ASSUME LimiterAssumption, LimiterTypeOK, RateKept,
           NEW h \in Handlers, calls[h] # Null,
           NEW admitted \in {0, 1}, NEW promise \in Nat \cup {Null},
           Leaves(h, Tokens(h) - admitted * Unit, admitted, promise)
    PROVE  RateKept'
<1> DEFINE t == calls[h].tenant
           n == calls[h].now
           b == BucketOf(t, n)
           p == PastOf(t, n)
           b2 == [tokens |-> Tokens(h) - admitted * Unit, last |-> n]
           p2 == [since |-> p.since, admitted |-> p.admitted + admitted,
                  overtaken |-> p.overtaken + Beyond(n, b.last), promised |-> promise]
<1>1. t \in Tenants /\ n \in Nat /\ b \in Bucket /\ p \in Past
  BY CallType
<1>2. Tokens(h) = Refilled(b, n)
  BY DEF Tokens
<1>3. /\ buckets' = [buckets EXCEPT ![t] = b2]
      /\ past' = [past EXCEPT ![t] = p2]
  BY DEF Leaves
<1>4. WithinRate(b, p)
  BY <1>1, WithinRateAtCall
<1> HIDE DEF b, p, t, n
<1>5. WithinRate(b2, p2)
  BY <1>1, <1>2, <1>4, CallWithinRate
<1> HIDE DEF b2, p2
<1>6. ASSUME NEW u \in Tenants, buckets'[u] # Null
      PROVE  WithinRate(buckets'[u], past'[u])
  <2>1. CASE u = t
    <3>1. buckets'[u] = b2 /\ past'[u] = p2
      BY <1>3, <2>1 DEF LimiterTypeOK
    <3>2. QED
      BY <1>5, <3>1
  <2>2. CASE u # t
    <3>1. buckets'[u] = buckets[u] /\ past'[u] = past[u]
      BY <1>3, <2>2 DEF LimiterTypeOK
    <3>2. QED
      BY <1>6, <3>1 DEF WithinRate, RateKept
  <2>3. QED
    BY <2>1, <2>2
<1>7. QED
  BY <1>6 DEF RateKept, WithinRate
-----------------------------------------------------------------------------
(* Retry-After.                                                            *)

\* By the end of the promised period a bucket has a token, whatever calls
\* come in between, if they are refused.
Covered(b, p) ==
    p.promised # Null => Unit <= b.tokens + Elapsed(b.last, p.promised) * Rate

PromiseCovered ==
    \A t \in Tenants : buckets[t] # Null => Covered(buckets[t], past[t])

LEMMA CoveredAtCall ==
    ASSUME PromiseCovered, NEW t \in Tenants, NEW reading \in Nat
    PROVE  Covered(BucketOf(t, reading), PastOf(t, reading))
<1>1. CASE buckets[t] # Null
  BY <1>1 DEF PromiseCovered, BucketOf, PastOf
<1>2. CASE buckets[t] = Null
  BY <1>2 DEF PastOf, NothingPast, Covered
<1>3. QED
  BY <1>1, <1>2

LEMMA ElapsedFacts ==
    /\ \A a, b \in Nat : Elapsed(a, b) \in Nat
    /\ \A a, b, c \in Nat : Elapsed(a, c) <= Elapsed(a, b) + Elapsed(b, c)
    /\ \A a, b, c \in Nat : b <= c => Elapsed(a, b) <= Elapsed(a, c)
    /\ \A a, b \in Nat : Elapsed(a, a + b) = b
BY DEF Elapsed, Beyond

\* A bucket that holds a token once it is refilled is not below one for good.
LEMMA RefillCovers ==
    ASSUME LimiterAssumption, NEW b \in Bucket, NEW n \in Nat, NEW m \in Nat, m <= n,
           Unit <= b.tokens + Elapsed(b.last, m) * Rate
    PROVE  Unit <= Refilled(b, n)
<1>1. {Unit, Rate, Burst} \subseteq Nat \ {0}
  BY DEF LimiterAssumption
<1>2. b.tokens \in Int /\ b.last \in Nat
  BY <1>1, Z3 DEF Bucket
<1> DEFINE e == Elapsed(b.last, m)
           f == Elapsed(b.last, n)
<1>3. e \in Nat /\ f \in Nat /\ e <= f
  BY <1>2, ElapsedFacts
<1> HIDE DEF e, f
<1>4. e * Rate <= f * Rate /\ {e * Rate, f * Rate} \subseteq Int
  BY <1>1, <1>3, Z3
<1>5. Unit <= Burst * Unit /\ Burst * Unit \in Int
  BY <1>1, Z3
<1>6. Unit <= b.tokens + e * Rate
  BY DEF e
<1>7. Refilled(b, n) = Least(Burst * Unit, b.tokens + f * Rate)
  BY DEF Refilled, f
<1>8. QED
  BY <1>1, <1>2, <1>4, <1>5, <1>6, <1>7 DEF Least

LEMMA RetryAfterFromCover ==
    ASSUME LimiterAssumption, LimiterTypeOK, PromiseCovered
    PROVE  RetryAfterKept
<1> SUFFICES ASSUME NEW h \in Handlers, calls[h] # Null,
                    PastOf(calls[h].tenant, calls[h].now).promised # Null,
                    calls[h].now >= PastOf(calls[h].tenant, calls[h].now).promised
             PROVE  Tokens(h) >= Unit
  BY DEF RetryAfterKept
<1> DEFINE n == calls[h].now
           b == BucketOf(calls[h].tenant, n)
           p == PastOf(calls[h].tenant, n)
<1>1. n \in Nat /\ b \in Bucket /\ p \in Past /\ Tokens(h) \in Int
  BY CallType, Z3 DEF LimiterAssumption
<1>2. Covered(b, p)
  BY CallType, CoveredAtCall
<1>3. p.promised \in Nat /\ p.promised <= n
  BY <1>1 DEF Past
<1> HIDE DEF n, b, p
<1>4. Unit <= b.tokens + Elapsed(b.last, p.promised) * Rate
  BY <1>2, <1>3 DEF Covered, LimiterAssumption
<1>5. Unit <= Refilled(b, n)
  BY <1>1, <1>3, <1>4, RefillCovers
<1>6. QED
  BY <1>1, <1>5 DEF Tokens, b, n, LimiterAssumption

\* A refused call leaves a bucket that covers what was promised before.
LEMMA RefusalKeepsCover ==
    ASSUME LimiterAssumption, NEW b \in Bucket, NEW n \in Nat, NEW m \in Nat,
           Refilled(b, n) < Unit,
           Unit <= b.tokens + Elapsed(b.last, m) * Rate
    PROVE  Unit <= Refilled(b, n) + Elapsed(n, m) * Rate
<1>1. {Unit, Rate, Burst} \subseteq Nat \ {0}
  BY DEF LimiterAssumption
<1>2. b.tokens \in Int /\ b.last \in Nat
  BY <1>1, Z3 DEF Bucket
<1> DEFINE e == Elapsed(b.last, n)
           f == Elapsed(n, m)
           g == Elapsed(b.last, m)
<1>3. e \in Nat /\ f \in Nat /\ g \in Nat /\ g <= e + f
  BY <1>2, ElapsedFacts
<1>4. Refilled(b, n) = Least(Burst * Unit, b.tokens + e * Rate)
  BY DEF Refilled
<1>5. Unit <= b.tokens + g * Rate
  OBVIOUS
<1> HIDE DEF e, f, g
<1>6. {e * Rate, f * Rate, g * Rate} \subseteq Int /\ g * Rate <= e * Rate + f * Rate
  BY <1>1, <1>3, Z3
<1>7. Unit <= Burst * Unit /\ Burst * Unit \in Int
  BY <1>1, Z3
<1>8. Refilled(b, n) = b.tokens + e * Rate
  BY <1>1, <1>2, <1>4, <1>6, <1>7 DEF Least
<1>9. Unit <= Refilled(b, n) + f * Rate
  BY <1>1, <1>2, <1>5, <1>6, <1>8
<1>10. QED
  BY <1>9 DEF f

\* The period a refusal announces is covered by the bucket it leaves.
LEMMA RefusalCovers ==
    ASSUME LimiterAssumption, NEW tokens \in Nat, tokens < Unit, NEW n \in Nat
    PROVE  /\ n + RetryAfter(tokens) * Second \in Nat
           /\ Unit <= tokens + Elapsed(n, n + RetryAfter(tokens) * Second) * Rate
<1> DEFINE period == RetryAfter(tokens) * Second
<1>1. Second \in Nat /\ RetryAfter(tokens) \in Nat
  BY RetryAfterSuffices DEF LimiterAssumption
<1>2. period \in Nat
  BY <1>1, Z3
<1>3. Unit <= tokens + period * Rate
  BY RetryAfterSuffices
<1> HIDE DEF period
<1>4. Elapsed(n, n + period) = period
  BY <1>2, ElapsedFacts
<1>5. n + period \in Nat /\ Unit <= tokens + Elapsed(n, n + period) * Rate
  BY <1>2, <1>3, <1>4
<1>6. QED
  BY <1>5 DEF period

LEMMA LeavesCover ==
    ASSUME LimiterAssumption, LimiterTypeOK, PromiseCovered,
           NEW h \in Handlers, calls[h] # Null,
           NEW tokens, NEW admitted, NEW promise,
           Leaves(h, tokens, admitted, promise),
           promise # Null => Unit <= tokens + Elapsed(calls[h].now, promise) * Rate
    PROVE  PromiseCovered'
<1> DEFINE t == calls[h].tenant
<1>1. t \in Tenants
  BY CallType
<1>2. /\ buckets' = [buckets EXCEPT ![t] = [tokens |-> tokens, last |-> calls[h].now]]
      /\ past' = [past EXCEPT ![t] = past'[t]]
      /\ past'[t].promised = promise
  BY <1>1 DEF Leaves, LimiterTypeOK
<1> HIDE DEF t
<1>3. ASSUME NEW u \in Tenants, buckets'[u] # Null
      PROVE  Covered(buckets'[u], past'[u])
  <2>1. CASE u = t
    <3>1. buckets'[u] = [tokens |-> tokens, last |-> calls[h].now]
      BY <1>2, <2>1 DEF LimiterTypeOK
    <3>2. QED
      BY <1>2, <2>1, <3>1 DEF Covered
  <2>2. CASE u # t
    <3>1. buckets'[u] = buckets[u] /\ past'[u] = past[u]
      BY <1>2, <2>2 DEF LimiterTypeOK
    <3>2. QED
      BY <1>3, <3>1 DEF PromiseCovered
  <2>3. QED
    BY <2>1, <2>2
<1>4. QED
  BY <1>3 DEF PromiseCovered, Covered

-----------------------------------------------------------------------------
(* The invariant.                                                          *)

LimiterInv ==
    /\ LimiterTypeOK
    /\ RateKept
    /\ PromiseCovered

LEMMA LimiterInitInv ==
    ASSUME LimiterAssumption, LimiterInit
    PROVE  LimiterInv
BY DEF LimiterInit, LimiterInv, LimiterTypeOK, RateKept, PromiseCovered,
       NoBuckets, NothingPast, Past

LEMMA AllowsInv ==
    ASSUME LimiterAssumption, LimiterInv, NEW h \in Handlers, Allows(h)
    PROVE  LimiterInv'
<1>1. LimiterTypeOK /\ RateKept /\ PromiseCovered
  BY DEF LimiterInv
<1>2. /\ calls[h] # Null
      /\ Unit <= Tokens(h)
      /\ Leaves(h, Tokens(h) - Unit, 1, Null)
  BY DEF Allows
<1>3. Tokens(h) \in 0..(Burst * Unit) /\ Unit \in Nat /\ Burst * Unit \in Int
  BY <1>1, <1>2, CallType, Z3 DEF LimiterAssumption
<1>4. Tokens(h) - Unit \in 0..(Burst * Unit) /\ 1 * Unit = Unit
  BY <1>2, <1>3
<1>5. LimiterTypeOK'
  BY <1>1, <1>2, <1>4, LeavesType
<1>6. RateKept'
  BY <1>1, <1>2, <1>4, LeavesRate
<1>7. PromiseCovered'
  BY <1>1, <1>2, LeavesCover
<1>8. QED
  BY <1>5, <1>6, <1>7 DEF LimiterInv

LEMMA RefusesInv ==
    ASSUME LimiterAssumption, LimiterInv, NEW h \in Handlers, Refuses(h)
    PROVE  LimiterInv'
<1> DEFINE n == calls[h].now
           b == BucketOf(calls[h].tenant, n)
           p == PastOf(calls[h].tenant, n)
           end == n + RetryAfter(Tokens(h)) * Second
           promise == IF p.promised = Null THEN end ELSE Least(p.promised, end)
<1>1. LimiterTypeOK /\ RateKept /\ PromiseCovered
  BY DEF LimiterInv
<1>2. calls[h] # Null /\ Tokens(h) < Unit /\ Leaves(h, Tokens(h), 0, promise)
  BY DEF Refuses
<1>3. /\ n \in Nat /\ b \in Bucket /\ p \in Past
      /\ Tokens(h) \in 0..(Burst * Unit) /\ Tokens(h) = Refilled(b, n)
  BY <1>1, <1>2, CallType DEF Tokens
<1>4. Tokens(h) \in Nat /\ Unit \in Nat
  BY <1>3, Z3 DEF LimiterAssumption
<1>5. end \in Nat /\ Unit <= Tokens(h) + Elapsed(n, end) * Rate
  BY <1>2, <1>3, <1>4, RefusalCovers
<1>6. p.promised # Null =>
         /\ p.promised \in Nat
         /\ Unit <= Tokens(h) + Elapsed(n, p.promised) * Rate
  <2>1. Covered(b, p)
    BY <1>1, <1>2, CallType, CoveredAtCall
  <2>2. p.promised # Null => p.promised \in Nat
    BY <1>3 DEF Past
  <2> HIDE DEF n, b, p
  <2>3. QED
    BY <1>2, <1>3, <2>1, <2>2, RefusalKeepsCover DEF Covered
<1> HIDE DEF n, b, p, end
<1>7. promise \in Nat /\ Unit <= Tokens(h) + Elapsed(n, promise) * Rate
  BY <1>5, <1>6 DEF Least
<1> HIDE DEF promise
<1>8. LimiterTypeOK'
  BY <1>1, <1>2, <1>3, <1>7, LeavesType
<1>9. RateKept'
  <2>1. Tokens(h) - 0 * Unit = Tokens(h)
    BY <1>4
  <2>2. QED
    BY <1>1, <1>2, <1>7, <2>1, LeavesRate
<1>10. PromiseCovered'
  BY <1>1, <1>2, <1>7, LeavesCover DEF n
<1>11. QED
  BY <1>8, <1>9, <1>10 DEF LimiterInv

LEMMA LimiterStepInv ==
    ASSUME LimiterAssumption, LimiterInv, [LimiterNext]_limiterVars
    PROVE  LimiterInv'
<1>1. ASSUME NEW h \in Handlers, Allows(h) PROVE LimiterInv'
  BY <1>1, AllowsInv
<1>2. ASSUME NEW h \in Handlers, Refuses(h) PROVE LimiterInv'
  BY <1>2, RefusesInv
<1>3. ASSUME NEW h \in Handlers, NEW t \in Tenants, ReadClock(h, t) PROVE LimiterInv'
  BY <1>3 DEF ReadClock, LimiterInv, LimiterTypeOK, Call, RateKept, PromiseCovered, Covered
<1>4. CASE LimiterDies
  BY <1>4 DEF LimiterDies, LimiterInv, LimiterTypeOK, RateKept, PromiseCovered,
              NoBuckets, NothingPast, Past
<1>5. CASE TimePasses
  BY <1>5 DEF TimePasses, LimiterInv, LimiterTypeOK, RateKept, PromiseCovered, Covered
<1>6. CASE UNCHANGED limiterVars
  BY <1>6 DEF limiterVars, LimiterInv, LimiterTypeOK, RateKept, PromiseCovered, Covered
<1>7. QED
  BY <1>1, <1>2, <1>3, <1>4, <1>5, <1>6 DEF LimiterNext

LEMMA LimiterInvariance == LimiterSpec => []LimiterInv
<1>1. LimiterInit => LimiterInv
  BY LimiterAssumption, LimiterInitInv
<1>2. LimiterInv /\ [LimiterNext]_limiterVars => LimiterInv'
  BY LimiterAssumption, LimiterStepInv
<1>3. QED
  BY <1>1, <1>2, PTL DEF LimiterSpec

\* The limiter's state keeps its type: no call leaves a bucket with fewer
\* than no tokens or more than the burst (main.py:102-118).
THEOREM LimiterTypeCorrect == LimiterSpec => []LimiterTypeOK
<1>1. LimiterInv => LimiterTypeOK
  BY DEF LimiterInv
<1>2. QED
  BY <1>1, LimiterInvariance, PTL

\* Whatever the order in which the threads take the lock, a tenant is let
\* through no more often than its burst, its rate and the time that was
\* counted twice allow (main.py:102-118).
THEOREM RateLimitKept == LimiterSpec => []RateKept
<1>1. LimiterInv => RateKept
  BY DEF LimiterInv
<1>2. QED
  BY <1>1, LimiterInvariance, PTL

\* A client that waits for the announced Retry-After is let through, unless
\* its tenant was let through meanwhile (main.py:116).
THEOREM RetryAfterHonoured == LimiterSpec => []RetryAfterKept
<1>1. LimiterInv => RetryAfterKept
  BY LimiterAssumption, RetryAfterFromCover DEF LimiterInv
<1>2. QED
  BY <1>1, LimiterInvariance, PTL
=============================================================================
