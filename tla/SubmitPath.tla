----------------------------- MODULE SubmitPath -----------------------------
(***************************************************************************)
(* POST /jobs, src/services/api/main.py: the threads that serve it, the    *)
(* rate limiter they share, and their connections to the jobs table, whose *)
(* unique index on idempotency_key (external) decides races.               *)
(*                                                                         *)
(* A call of the repository takes a connection of its pool and gives it    *)
(* back, and is one step, except for create_job after a UniqueViolation:   *)
(* it looks the row up through a second connection and keeps the first     *)
(* meanwhile.  A body stands for everything _job_spec_fingerprint compares *)
(* except the tenant.                                                      *)
(***************************************************************************)
EXTENDS RateLimiter, Sequences, FiniteSets

CONSTANTS
    Bodies,        \* request bodies
    Keys,          \* Idempotency-Keys, EmptyKey and Null among them
    Requests,      \* the requests clients may send
    EmptyKey,      \* the key of a request with an empty Idempotency-Key header
    OverCaps,      \* bodies _validate_submit_caps refuses
    PoolSize,      \* connections of the repository's pool
    MaxRequests,   \* requests sent in a behaviour (BOUND)
    MaxFaults      \* failed calls and deaths of the process (BOUND)

ASSUME SubmitAssumption ==
    /\ Requests \subseteq [tenant: Tenants, body: Bodies, key: Keys]
    /\ EmptyKey # Null
    /\ PoolSize \in Nat \ {0}
    /\ {MaxRequests, MaxFaults} \subseteq Nat

VARIABLES
    at,         \* the call each thread makes next
    serving,    \* the request each thread serves; Null: none
    found,      \* created: the job create_job returned to it; Null: none yet
    rows,       \* the table: the request a row was inserted for, by rank
    answers,    \* history: the answers 201, 409 and 500 clients got
    sent,       \* history: requests sent so far
    faults      \* the faults so far

threadVars == <<at, serving, found>>
submitVars == <<limiterVars, threadVars, rows, answers, sent, faults>>

Codes == {"accepted", "conflict", "error"}

Answers == [request: Requests, code: Codes, job: Nat \cup {Null}]

SubmitTypeOK ==
    /\ LimiterTypeOK
    /\ at \in [Handlers -> {"idle", "allow", "lookup", "insert", "relookup", "check"}]
    /\ serving \in [Handlers -> Requests \cup {Null}]
    /\ found \in [Handlers -> DOMAIN rows \cup {Null}]
    /\ rows \in Seq(Requests)
    /\ answers \subseteq Answers
    /\ sent \in 0..MaxRequests
    /\ faults \in 0..MaxFaults

SubmitInit ==
    /\ LimiterInit
    /\ at = [h \in Handlers |-> "idle"]
    /\ serving = [h \in Handlers |-> Null]
    /\ found = [h \in Handlers |-> Null]
    /\ rows = <<>>
    /\ answers = {}
    /\ sent = 0
    /\ faults = 0

-----------------------------------------------------------------------------
\* _validate_submit_caps raises.
ExceedsCaps(r) == r.body \in OverCaps

\* if idempotency_key: neither a missing nor an empty one.
Keyed(r) == r.key \notin {Null, EmptyKey}

\* get_job_by_idempotency_key: the ranks of the rows with the key.
RowsOfKey(key) == {i \in DOMAIN rows : rows[i].key = key}

\* The unique index lets any number of NULLs in, but only one empty key.
KeyTaken(r) == r.key # Null /\ RowsOfKey(r.key) # {}

\* Threads that hold a connection while they wait for another.
Holding == {h \in Handlers : at[h] = "relookup"}

\* self.pool.connection() returns.
ConnectionFree == Cardinality(Holding) < PoolSize

SameFingerprint(r, i) == rows[i].tenant = r.tenant /\ rows[i].body = r.body

Ends(h) ==
    /\ at' = [at EXCEPT ![h] = "idle"]
    /\ serving' = [serving EXCEPT ![h] = Null]
    /\ found' = [found EXCEPT ![h] = Null]

Replies(h, code, job) ==
    /\ answers' = answers \cup {[request |-> serving[h], code |-> code, job |-> job]}
    /\ Ends(h)

GoesOn(h, to, job) ==
    /\ at' = [at EXCEPT ![h] = to]
    /\ found' = [found EXCEPT ![h] = job]
    /\ UNCHANGED <<serving, answers>>

Fault ==
    /\ faults < MaxFaults
    /\ faults' = faults + 1

-----------------------------------------------------------------------------
\* A request arrives.  One over the caps is answered 400 and leaves nothing
\* behind; for any other allow() is called at once, and reads the clock.
Arrive(h, r) ==
    /\ at[h] = "idle"
    /\ \/ /\ ExceedsCaps(r)
          /\ UNCHANGED <<limiterVars, threadVars, sent>>
       \/ /\ ~ExceedsCaps(r)
          /\ sent < MaxRequests
          /\ sent' = sent + 1
          /\ ReadClock(h, r.tenant)
          /\ at' = [at EXCEPT ![h] = "allow"]
          /\ serving' = [serving EXCEPT ![h] = r]
          /\ UNCHANGED found
    /\ UNCHANGED <<rows, answers, faults>>

\* 429 leaves nothing behind but the bucket.
Limit(h) ==
    /\ at[h] = "allow"
    /\ \/ /\ Allows(h)
          /\ GoesOn(h, IF Keyed(serving[h]) THEN "lookup" ELSE "insert", Null)
       \/ Refuses(h) /\ Ends(h) /\ UNCHANGED answers
    /\ UNCHANGED <<rows, sent, faults>>

\* The first look for the key: nothing, the same request, or another one.
LookUp(h) ==
    LET r == serving[h] IN
    /\ at[h] = "lookup"
    /\ ConnectionFree
    /\ \/ RowsOfKey(r.key) = {} /\ GoesOn(h, "insert", Null)
       \/ \E i \in RowsOfKey(r.key) :
            IF SameFingerprint(r, i) THEN Replies(h, "accepted", i)
            ELSE Replies(h, "conflict", Null)
    /\ UNCHANGED <<limiterVars, rows, sent, faults>>

\* Mutant: the connection goes back without a commit.
InsertUncommitted(h) ==
    /\ at[h] = "insert"
    /\ ConnectionFree
    /\ ~KeyTaken(serving[h])
    /\ GoesOn(h, "check", Len(rows) + 1)
    /\ UNCHANGED <<limiterVars, rows, sent, faults>>

\* create_job: the INSERT and its commit.
Insert(h) ==
    LET r == serving[h] IN
    /\ at[h] = "insert"
    /\ ConnectionFree
    /\ ~KeyTaken(r)
    /\ rows' = Append(rows, r)
    /\ GoesOn(h, "check", Len(rows) + 1)
    /\ UNCHANGED <<limiterVars, sent, faults>>

\* UniqueViolation: raised again for a key that is falsy; otherwise the row
\* is to be looked up, with the connection still taken.
InsertViolates(h) ==
    LET r == serving[h] IN
    /\ at[h] = "insert"
    /\ ConnectionFree
    /\ KeyTaken(r)
    /\ IF Keyed(r) THEN GoesOn(h, "relookup", Null) ELSE Replies(h, "error", Null)
    /\ UNCHANGED <<limiterVars, rows, sent, faults>>

\* get_job_by_idempotency_key inside create_job.
LookUpAgain(h) ==
    /\ at[h] = "relookup"
    /\ ConnectionFree
    /\ \E i \in RowsOfKey(serving[h].key) : GoesOn(h, "check", i)
    /\ UNCHANGED <<limiterVars, rows, sent, faults>>

\* Mutant: whatever create_job returned is this request's job.
AnswerUnchecked(h) ==
    /\ at[h] = "check"
    /\ Replies(h, "accepted", found[h])
    /\ UNCHANGED <<limiterVars, rows, sent, faults>>

\* The fingerprint is compared once more after create_job.
AnswerCreated(h) ==
    LET r == serving[h] IN
    /\ at[h] = "check"
    /\ IF Keyed(r) /\ ~SameFingerprint(r, found[h])
       THEN Replies(h, "conflict", Null)
       ELSE Replies(h, "accepted", found[h])
    /\ UNCHANGED <<limiterVars, rows, sent, faults>>

\* Mutant: a thread that holds a connection waits without end.
TimesOutEmptyHanded(h) ==
    /\ at[h] \in {"lookup", "insert"}
    /\ ~ConnectionFree
    /\ Replies(h, "error", Null)
    /\ UNCHANGED <<limiterVars, rows, sent, faults>>

\* No connection within the pool's 30 seconds: PoolTimeout, which nothing
\* catches, and the connection the thread holds goes back.
PoolTimesOut(h) ==
    /\ at[h] \in {"lookup", "insert", "relookup"}
    /\ ~ConnectionFree
    /\ Replies(h, "error", Null)
    /\ UNCHANGED <<limiterVars, rows, sent, faults>>

\* The connection breaks during a call, an INSERT before its commit or after.
DatabaseFails(h) ==
    LET r == serving[h] IN
    /\ at[h] \in {"lookup", "insert", "relookup"}
    /\ Fault
    /\ Replies(h, "error", Null)
    /\ \/ rows' = rows
       \/ /\ at[h] = "insert" /\ ConnectionFree /\ ~KeyTaken(r)
          /\ rows' = Append(rows, r)
    /\ UNCHANGED <<limiterVars, sent>>

\* The API process dies and is started again: requests go unanswered.
ProcessDies ==
    /\ Fault
    /\ LimiterDies
    /\ at' = [h \in Handlers |-> "idle"]
    /\ serving' = [h \in Handlers |-> Null]
    /\ found' = [h \in Handlers |-> Null]
    /\ UNCHANGED <<rows, answers, sent>>

ClockTicks ==
    /\ TimePasses
    /\ UNCHANGED <<threadVars, rows, answers, sent, faults>>

Serve(h) ==
    \/ Limit(h) \/ LookUp(h) \/ Insert(h) \/ InsertViolates(h)
    \/ LookUpAgain(h) \/ AnswerCreated(h) \/ PoolTimesOut(h)

SubmitNext ==
    \/ \E h \in Handlers :
        Serve(h) \/ DatabaseFails(h) \/ \E r \in Requests : Arrive(h, r)
    \/ ProcessDies
    \/ ClockTicks

SubmitSpec == SubmitInit /\ [][SubmitNext]_submitVars

\* A thread that serves a request goes on with it.
FairSubmitSpec == SubmitSpec /\ \A h \in Handlers : WF_submitVars(Serve(h))

-----------------------------------------------------------------------------
\* Submitting keeps the contract of SubmitContract (docs/contracts/
\* job-lifecycle.md:66-68): one job for a key at most, 201 only for a job made
\* for this tenant and body, 409 only when the key's job is another, through
\* races between lookup and INSERT, pool timeouts and lost answers.
Contract == INSTANCE SubmitContract WITH made <- rows

ContractKept == Contract!ContractSpec

\* Every request is answered, however many threads hold a connection and wait
\* for another, unless the process dies (db.py:97).
EveryRequestAnswered ==
    \A h \in Handlers : at[h] # "idle" ~> at[h] = "idle"

\* docs/contracts/job-lifecycle.md:67 "same `Idempotency-Key` + same request
\* fingerprint -> return existing job id/status": with nothing failing, a
\* request that carries a key is never answered 500.
DuplicateAnswered ==
    faults = 0 => \A a \in answers : a.request.key # Null => a.code # "error"
=============================================================================
