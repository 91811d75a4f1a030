-------------------------- MODULE SubmitPathProofs --------------------------
(***************************************************************************)
(* POST /jobs keeps its contract: SubmitPath implements SubmitContract for *)
(* any number of threads, connections, requests and faults, and the rate   *)
(* limiter keeps its promises among the calls around it.                   *)
(***************************************************************************)
EXTENDS SubmitPath, RateLimiterProofs, SequenceTheorems

\* A thread has the request it is at a call for; it only looks for a key it
\* has; and create_job returned a row of this key, or the row inserted for it.
ThreadSound(a, r, i, table) ==
    /\ a # "idle" => r \in Requests
    /\ a \in {"lookup", "relookup"} => Keyed(r)
    /\ a = "check" =>
          /\ i \in DOMAIN table
          /\ IF Keyed(r) THEN table[i].key = r.key ELSE table[i] = r

ThreadsSound == \A h \in Handlers : ThreadSound(at[h], serving[h], found[h], rows)

AnsweredJobs == \A a \in answers : a.job \in DOMAIN rows \cup {Null}

\* A row without a key is known to the thread that inserted it alone, until
\* it answers.
RowIsOwn(h) ==
    at[h] = "check" /\ rows[found[h]].key = Null =>
        /\ \A a \in answers : a.job # found[h]
        /\ \A g \in Handlers : at[g] = "check" /\ found[g] = found[h] => g = h

SubmitInv ==
    /\ LimiterInv
    /\ SubmitTypeOK
    /\ ThreadsSound
    /\ AnsweredJobs
    /\ \A h \in Handlers : RowIsOwn(h)

-----------------------------------------------------------------------------
(* The table.                                                              *)

\* At most one row is inserted, after the others.
RowsGrow == rows' = rows \/ \E r \in Requests : rows' = Append(rows, r)

LEMMA RowsAppended ==
    ASSUME rows \in Seq(Requests), NEW r \in Requests, rows' = Append(rows, r)
    PROVE  /\ rows' \in Seq(Requests)
           /\ DOMAIN rows \subseteq DOMAIN rows'
           /\ \A i \in DOMAIN rows : rows'[i] = rows[i]
           /\ Len(rows) + 1 \in DOMAIN rows' /\ Len(rows) + 1 \notin DOMAIN rows
           /\ rows'[Len(rows) + 1] = r
<1>1. Len(rows) \in Nat /\ DOMAIN rows = 1..Len(rows)
  OBVIOUS
<1>2. rows' \in Seq(Requests) /\ Len(rows') = Len(rows) + 1
  OBVIOUS
<1>3. DOMAIN rows' = 1..(Len(rows) + 1)
  BY <1>2
<1>4. \A i \in 1..Len(rows) : rows'[i] = rows[i]
  OBVIOUS
<1>5. rows'[Len(rows) + 1] = r
  OBVIOUS
<1>6. QED
  BY <1>1, <1>2, <1>3, <1>4, <1>5

LEMMA RowsStay ==
    ASSUME rows \in Seq(Requests), RowsGrow
    PROVE  /\ rows' \in Seq(Requests)
           /\ DOMAIN rows \subseteq DOMAIN rows'
           /\ \A i \in DOMAIN rows : rows'[i] = rows[i]
<1>1. CASE rows' = rows
  BY <1>1
<1>2. ASSUME NEW r \in Requests, rows' = Append(rows, r)
      PROVE  /\ rows' \in Seq(Requests)
             /\ DOMAIN rows \subseteq DOMAIN rows'
             /\ \A i \in DOMAIN rows : rows'[i] = rows[i]
  BY <1>2, RowsAppended
<1>3. QED
  BY <1>1, <1>2 DEF RowsGrow

\* A rank is a number, Null is none.
LEMMA RanksAreNumbers ==
    ASSUME rows \in Seq(Requests)
    PROVE  DOMAIN rows \subseteq Nat /\ Null \notin DOMAIN rows
<1>1. DOMAIN rows \subseteq Nat
  OBVIOUS
<1>2. QED
  BY <1>1, LimiterAssumption

-----------------------------------------------------------------------------
(* The threads.                                                            *)

\* Thread h is at a, serving r, with row i found; the others go on as before.
Becomes(h, a, r, i) ==
    /\ at' = [at EXCEPT ![h] = a]
    /\ serving' = [serving EXCEPT ![h] = r]
    /\ found' = [found EXCEPT ![h] = i]

Places == {"idle", "allow", "lookup", "insert", "relookup", "check"}

LEMMA ThreadBecomes ==
    ASSUME SubmitInv, RowsGrow, NEW h \in Handlers,
           NEW a \in Places, NEW r \in Requests \cup {Null},
           NEW i \in DOMAIN rows' \cup {Null},
           Becomes(h, a, r, i), ThreadSound(a, r, i, rows')
    PROVE  /\ at' \in [Handlers -> Places]
           /\ serving' \in [Handlers -> Requests \cup {Null}]
           /\ found' \in [Handlers -> DOMAIN rows' \cup {Null}]
           /\ ThreadsSound'
<1>1. /\ at \in [Handlers -> Places]
      /\ serving \in [Handlers -> Requests \cup {Null}]
      /\ found \in [Handlers -> DOMAIN rows \cup {Null}]
      /\ rows \in Seq(Requests)
  BY DEF SubmitInv, SubmitTypeOK, Places
<1>2. DOMAIN rows \subseteq DOMAIN rows' /\ \A k \in DOMAIN rows : rows'[k] = rows[k]
  BY <1>1, RowsStay
<1>3. ASSUME NEW g \in Handlers
      PROVE  ThreadSound(at'[g], serving'[g], found'[g], rows')
  <2>1. CASE g = h
    BY <1>1, <2>1 DEF Becomes
  <2>2. CASE g # h
    <3>1. ThreadSound(at[g], serving[g], found[g], rows)
      BY DEF SubmitInv, ThreadsSound
    <3>2. at'[g] = at[g] /\ serving'[g] = serving[g] /\ found'[g] = found[g]
      BY <1>1, <2>2 DEF Becomes
    <3>3. QED
      BY <1>2, <3>1, <3>2 DEF ThreadSound
  <2>3. QED
    BY <2>1, <2>2
<1>4. QED
  BY <1>1, <1>2, <1>3 DEF Becomes, ThreadsSound

\* The calls of the other threads stay apart from what h is told or tells.
LEMMA OwnBecomes ==
    ASSUME SubmitInv, RowsGrow, NEW h \in Handlers, NEW a, NEW r, NEW i, NEW new,
           Becomes(h, a, r, i), answers' = answers \cup new,
           \A x \in new :
              \/ x.job = Null
              \/ /\ x.job \in DOMAIN rows
                 /\ \A g \in Handlers \ {h} :
                       at[g] = "check" /\ rows[found[g]].key = Null => found[g] # x.job,
           a = "check" =>
              /\ new = {}
              /\ \/ i \notin DOMAIN rows /\ i # Null
                 \/ i \in DOMAIN rows /\ rows[i].key # Null
    PROVE  AnsweredJobs' /\ \A g \in Handlers : RowIsOwn(g)'
<1>1. /\ at \in [Handlers -> Places]
      /\ found \in [Handlers -> DOMAIN rows \cup {Null}]
      /\ rows \in Seq(Requests)
  BY DEF SubmitInv, SubmitTypeOK, Places
<1>2. /\ DOMAIN rows \subseteq DOMAIN rows' /\ \A k \in DOMAIN rows : rows'[k] = rows[k]
      /\ Null \notin DOMAIN rows
  BY <1>1, RowsStay, RanksAreNumbers
<1>3. AnsweredJobs'
  BY <1>2 DEF SubmitInv, AnsweredJobs
<1>4. /\ at'[h] = a /\ found'[h] = i
      /\ \A g \in Handlers \ {h} : at'[g] = at[g] /\ found'[g] = found[g]
  BY <1>1 DEF Becomes
<1>5. \A g \in Handlers : at[g] = "check" => found[g] \in DOMAIN rows
  BY DEF SubmitInv, ThreadsSound, ThreadSound
<1>6. \A g \in Handlers \ {h} :
          at[g] = "check" /\ rows[found[g]].key = Null /\ a = "check" => found[g] # i
  BY <1>5
<1>7. ASSUME NEW g \in Handlers \ {h} PROVE RowIsOwn(g)'
  BY <1>2, <1>4, <1>5, <1>6, <1>7 DEF SubmitInv, RowIsOwn
<1>8. RowIsOwn(h)'
  <2>1. CASE a = "check" /\ i \notin DOMAIN rows /\ i # Null
    <3>1. \A x \in answers' : x.job # i
      BY <2>1 DEF SubmitInv, AnsweredJobs
    <3>2. QED
      BY <1>4, <1>5, <2>1, <3>1 DEF RowIsOwn
  <2>2. CASE a = "check" /\ i \in DOMAIN rows /\ rows[i].key # Null
    BY <1>2, <1>4, <2>2 DEF RowIsOwn
  <2>3. CASE a # "check"
    BY <1>4, <2>3 DEF RowIsOwn
  <2>4. QED
    BY <2>1, <2>2, <2>3
<1>9. QED
  BY <1>3, <1>7, <1>8

-----------------------------------------------------------------------------
(* SubmitInv is inductive.                                                 *)

\* What a call leaves of the limiter: one of its own steps, or itself.
LEMMA LimiterAmongCalls ==
    ASSUME [SubmitNext]_submitVars
    PROVE  [LimiterNext]_limiterVars
<1>1. \A r \in Requests : r.tenant \in Tenants
  BY SubmitAssumption
<1>2. ASSUME NEW h \in Handlers, NEW r \in Requests, Arrive(h, r)
      PROVE  [LimiterNext]_limiterVars
  BY <1>1, <1>2 DEF Arrive, LimiterNext
<1>3. ASSUME NEW h \in Handlers, Serve(h) \/ DatabaseFails(h)
      PROVE  [LimiterNext]_limiterVars
  BY <1>3 DEF Serve, Limit, LookUp, Insert, InsertViolates, LookUpAgain,
     AnswerCreated, PoolTimesOut, DatabaseFails, LimiterNext
<1>4. CASE ProcessDies \/ ClockTicks \/ UNCHANGED submitVars
  BY <1>4 DEF ProcessDies, ClockTicks, LimiterNext, submitVars
<1>5. QED
  BY <1>2, <1>3, <1>4 DEF SubmitNext

LEMMA CountersType ==
    ASSUME SubmitInv, [SubmitNext]_submitVars
    PROVE  sent' \in 0..MaxRequests /\ faults' \in 0..MaxFaults
<1>1. /\ sent \in 0..MaxRequests /\ faults \in 0..MaxFaults
      /\ MaxRequests \in Nat /\ MaxFaults \in Nat
  BY SubmitAssumption DEF SubmitInv, SubmitTypeOK
<1>2. sent' = sent \/ (sent < MaxRequests /\ sent' = sent + 1)
  BY DEF SubmitNext, Serve, Limit, LookUp, Insert, InsertViolates, LookUpAgain,
     AnswerCreated, PoolTimesOut, DatabaseFails, Arrive, ProcessDies, ClockTicks,
     submitVars
<1>3. faults' = faults \/ (faults < MaxFaults /\ faults' = faults + 1)
  BY DEF SubmitNext, Serve, Limit, LookUp, Insert, InsertViolates, LookUpAgain,
     AnswerCreated, PoolTimesOut, DatabaseFails, Arrive, ProcessDies, ClockTicks,
     Fault, submitVars
<1>4. QED
  BY <1>1, <1>2, <1>3

\* The part of SubmitInv a thread's step must keep.
CallInv ==
    /\ at \in [Handlers -> Places]
    /\ serving \in [Handlers -> Requests \cup {Null}]
    /\ found \in [Handlers -> DOMAIN rows \cup {Null}]
    /\ rows \in Seq(Requests)
    /\ answers \subseteq Answers
    /\ ThreadsSound
    /\ AnsweredJobs
    /\ \A h \in Handlers : RowIsOwn(h)

LEMMA CallTypes ==
    ASSUME SubmitInv
    PROVE  /\ CallInv
           /\ \A h \in Handlers :
                 /\ at[h] # "idle" => serving[h] \in Requests
                 /\ at[h] \in {"lookup", "relookup"} => Keyed(serving[h])
BY DEF SubmitInv, SubmitTypeOK, CallInv, Places, ThreadsSound, ThreadSound

\* A call that goes on.
LEMMA GoesOnKeeps ==
    ASSUME SubmitInv, RowsGrow, NEW h \in Handlers, at[h] # "idle",
           NEW to \in Places, NEW job \in DOMAIN rows' \cup {Null},
           GoesOn(h, to, job), ThreadSound(to, serving[h], job, rows'),
           to = "check" =>
              \/ job \notin DOMAIN rows
              \/ job \in DOMAIN rows /\ rows[job].key # Null
    PROVE  CallInv'
<1>1. PICK r \in Requests : r = serving[h]
  BY CallTypes
<1>2. Becomes(h, to, r, job)
  BY <1>1, CallTypes DEF GoesOn, Becomes, CallInv
<1>3. PICK new : new = {}
  OBVIOUS
<1>4. answers' = answers \cup new /\ answers' \subseteq Answers
  BY <1>3, CallTypes DEF GoesOn, CallInv
<1>5. ThreadSound(to, r, job, rows') /\ rows' \in Seq(Requests)
  BY <1>1, RowsStay, CallTypes DEF CallInv
<1>6. to = "check" =>
         /\ new = {}
         /\ \/ job \notin DOMAIN rows /\ job # Null
            \/ job \in DOMAIN rows /\ rows[job].key # Null
  <2>1. to = "check" => job \in DOMAIN rows'
    BY <1>5 DEF ThreadSound
  <2>2. DOMAIN rows' \subseteq Nat
    BY <1>5
  <2>3. QED
    BY <1>3, <2>1, <2>2, LimiterAssumption
<1>7. \A x \in new :
         \/ x.job = Null
         \/ /\ x.job \in DOMAIN rows
            /\ \A g \in Handlers \ {h} :
                  at[g] = "check" /\ rows[found[g]].key = Null => found[g] # x.job
  BY <1>3
<1>8. AnsweredJobs' /\ \A g \in Handlers : RowIsOwn(g)'
  BY <1>2, <1>4, <1>6, <1>7, OwnBecomes
<1>9. QED
  BY <1>2, <1>4, <1>5, <1>8, ThreadBecomes DEF CallInv

\* A call that ends, with an answer or, refused by the limiter, without.
LEMMA EndsKeeps ==
    ASSUME SubmitInv, RowsGrow, NEW h \in Handlers, Ends(h),
           answers' \subseteq Answers,
           NEW new, answers' = answers \cup new,
           \A x \in new :
              \/ x.job = Null
              \/ /\ x.job \in DOMAIN rows
                 /\ \A g \in Handlers \ {h} :
                       at[g] = "check" /\ rows[found[g]].key = Null => found[g] # x.job
    PROVE  CallInv'
<1>1. Becomes(h, "idle", Null, Null) /\ ThreadSound("idle", Null, Null, rows')
  BY DEF Ends, Becomes, ThreadSound
<1>2. rows' \in Seq(Requests)
  BY RowsStay, CallTypes DEF CallInv
<1>3. AnsweredJobs' /\ \A g \in Handlers : RowIsOwn(g)'
  BY <1>1, OwnBecomes
<1>4. QED
  BY <1>1, <1>2, <1>3, ThreadBecomes DEF CallInv, Places

LEMMA RepliesKeep ==
    ASSUME SubmitInv, RowsGrow, NEW h \in Handlers, at[h] # "idle",
           NEW code \in Codes, NEW job, Replies(h, code, job),
           \/ job = Null
           \/ /\ job \in DOMAIN rows
              /\ \A g \in Handlers \ {h} :
                    at[g] = "check" /\ rows[found[g]].key = Null => found[g] # job
    PROVE  CallInv'
<1>1. PICK x : x = [request |-> serving[h], code |-> code, job |-> job]
  OBVIOUS
<1>2. x.job = job /\ answers' = answers \cup {x}
  BY <1>1 DEF Replies
<1>3. x \in Answers
  <2>1. serving[h] \in Requests /\ DOMAIN rows \subseteq Nat
    BY CallTypes, RanksAreNumbers DEF CallInv
  <2>2. QED
    BY <1>1, <2>1 DEF Answers
<1>4. answers' \subseteq Answers
  BY <1>2, <1>3, CallTypes DEF CallInv
<1>5. PICK new : new = {x}
  OBVIOUS
<1>6. Ends(h) /\ answers' = answers \cup new
  BY <1>2, <1>5 DEF Replies
<1>7. QED
  BY <1>2, <1>4, <1>5, <1>6, EndsKeeps

LEMMA ArriveKeeps ==
    ASSUME SubmitInv, NEW h \in Handlers, NEW r \in Requests, Arrive(h, r)
    PROVE  CallInv'
<1>1. UNCHANGED <<rows, answers>>
  BY DEF Arrive
<1>2. CASE UNCHANGED threadVars
  BY <1>1, <1>2, CallTypes DEF threadVars, CallInv, ThreadsSound, AnsweredJobs, RowIsOwn
<1>3. CASE /\ at' = [at EXCEPT ![h] = "allow"] /\ serving' = [serving EXCEPT ![h] = r]
           /\ UNCHANGED found /\ at[h] = "idle"
  <2>1. Becomes(h, "allow", r, found[h])
    BY <1>3, CallTypes DEF Becomes, CallInv
  <2>2. ThreadSound("allow", r, found[h], rows') /\ RowsGrow
    BY <1>1 DEF ThreadSound, RowsGrow
  <2>3. found[h] \in DOMAIN rows' \cup {Null} /\ "allow" \in Places
    BY <1>1, CallTypes DEF CallInv, Places
  <2>4. PICK new : new = {}
    OBVIOUS
  <2>5. answers' = answers \cup new /\ \A x \in new : x.job = Null
    BY <1>1, <2>4
  <2>6. AnsweredJobs' /\ \A g \in Handlers : RowIsOwn(g)'
    BY <2>1, <2>2, <2>5, OwnBecomes
  <2>7. QED
    BY <1>1, <2>1, <2>2, <2>3, <2>6, ThreadBecomes, CallTypes DEF CallInv
<1>4. QED
  BY <1>2, <1>3 DEF Arrive

LEMMA LimitKeeps ==
    ASSUME SubmitInv, NEW h \in Handlers, Limit(h)
    PROVE  CallInv'
<1>1. at[h] # "idle" /\ UNCHANGED rows /\ RowsGrow
  BY DEF Limit, RowsGrow
<1>2. ASSUME NEW to \in {"lookup", "insert"}, to = "lookup" => Keyed(serving[h]),
             GoesOn(h, to, Null)
      PROVE  CallInv'
  <2>1. ThreadSound(to, serving[h], Null, rows') /\ to \in Places
    BY <1>1, <1>2, CallTypes DEF ThreadSound, Places
  <2>2. QED
    BY <1>1, <1>2, <2>1, GoesOnKeeps
<1>3. CASE Ends(h) /\ UNCHANGED answers
  <2>1. PICK new : new = {}
    OBVIOUS
  <2>2. /\ answers' \subseteq Answers /\ answers' = answers \cup new
        /\ \A x \in new : x.job = Null
    BY <1>3, <2>1, CallTypes DEF CallInv
  <2>3. QED
    BY <1>1, <1>3, <2>2, EndsKeeps
<1>4. QED
  BY <1>2, <1>3 DEF Limit

\* A row of a key is not one that a thread keeps to itself.
LEMMA RowOfKey ==
    ASSUME SubmitInv, NEW h \in Handlers, at[h] \in {"lookup", "relookup"},
           NEW i \in RowsOfKey(serving[h].key)
    PROVE  /\ i \in DOMAIN rows /\ rows[i].key = serving[h].key /\ rows[i].key # Null
           /\ \A g : rows[found[g]].key = Null => found[g] # i
BY CallTypes DEF RowsOfKey, Keyed

LEMMA LookUpKeeps ==
    ASSUME SubmitInv, NEW h \in Handlers, LookUp(h)
    PROVE  CallInv'
<1>1. at[h] = "lookup" /\ UNCHANGED rows /\ RowsGrow
  BY DEF LookUp, RowsGrow
<1>2. CASE GoesOn(h, "insert", Null)
  <2>1. ThreadSound("insert", serving[h], Null, rows') /\ "insert" \in Places
    BY <1>1, CallTypes DEF ThreadSound, Places
  <2>2. QED
    BY <1>1, <1>2, <2>1, GoesOnKeeps
<1>3. ASSUME NEW i \in RowsOfKey(serving[h].key), Replies(h, "accepted", i)
      PROVE  CallInv'
  BY <1>1, <1>3, RowOfKey, RepliesKeep DEF Codes
<1>4. CASE Replies(h, "conflict", Null)
  BY <1>1, <1>4, RepliesKeep DEF Codes
<1>5. QED
  BY <1>2, <1>3, <1>4 DEF LookUp

LEMMA InsertKeeps ==
    ASSUME SubmitInv, NEW h \in Handlers, Insert(h)
    PROVE  CallInv'
<1>1. PICK r \in Requests, i \in Nat : r = serving[h] /\ i = Len(rows) + 1
  BY CallTypes DEF Insert
<1>2. at[h] = "insert" /\ rows' = Append(rows, r) /\ GoesOn(h, "check", i) /\ RowsGrow
  BY <1>1 DEF Insert, RowsGrow
<1>3. i \in DOMAIN rows' /\ i \notin DOMAIN rows /\ rows'[i] = r
  BY <1>1, <1>2, RowsAppended, CallTypes DEF CallInv
<1>4. ThreadSound("check", serving[h], i, rows') /\ "check" \in Places
  BY <1>1, <1>3 DEF ThreadSound, Places
<1>5. QED
  BY <1>2, <1>3, <1>4, GoesOnKeeps

LEMMA InsertViolatesKeeps ==
    ASSUME SubmitInv, NEW h \in Handlers, InsertViolates(h)
    PROVE  CallInv'
<1>1. at[h] = "insert" /\ UNCHANGED rows /\ RowsGrow
  BY DEF InsertViolates, RowsGrow
<1>2. CASE Keyed(serving[h]) /\ GoesOn(h, "relookup", Null)
  <2>1. ThreadSound("relookup", serving[h], Null, rows') /\ "relookup" \in Places
    BY <1>1, <1>2, CallTypes DEF ThreadSound, Places
  <2>2. QED
    BY <1>1, <1>2, <2>1, GoesOnKeeps
<1>3. CASE Replies(h, "error", Null)
  BY <1>1, <1>3, RepliesKeep DEF Codes
<1>4. QED
  BY <1>2, <1>3 DEF InsertViolates

LEMMA LookUpAgainKeeps ==
    ASSUME SubmitInv, NEW h \in Handlers, LookUpAgain(h)
    PROVE  CallInv'
<1>1. at[h] = "relookup" /\ UNCHANGED rows /\ RowsGrow
  BY DEF LookUpAgain, RowsGrow
<1>2. PICK i \in RowsOfKey(serving[h].key) : GoesOn(h, "check", i)
  BY DEF LookUpAgain
<1>3. i \in DOMAIN rows' /\ i \in DOMAIN rows /\ rows[i].key # Null
  BY <1>1, RowOfKey
<1>4. ThreadSound("check", serving[h], i, rows') /\ "check" \in Places
  BY <1>1, RowOfKey, CallTypes DEF ThreadSound, Places
<1>5. QED
  BY <1>1, <1>2, <1>3, <1>4, GoesOnKeeps

LEMMA AnswerCreatedKeeps ==
    ASSUME SubmitInv, NEW h \in Handlers, AnswerCreated(h)
    PROVE  CallInv'
<1>1. at[h] = "check" /\ UNCHANGED rows /\ RowsGrow
  BY DEF AnswerCreated, RowsGrow
<1>2. CASE Replies(h, "conflict", Null)
  BY <1>1, <1>2, RepliesKeep DEF Codes
<1>3. CASE Replies(h, "accepted", found[h])
  <2>1. PICK i \in DOMAIN rows : i = found[h]
    BY <1>1 DEF SubmitInv, ThreadsSound, ThreadSound
  <2>2. \A g \in Handlers \ {h} :
            at[g] = "check" /\ rows[found[g]].key = Null => found[g] # i
    BY <1>1, <2>1 DEF SubmitInv, RowIsOwn
  <2>3. QED
    BY <1>1, <1>3, <2>1, <2>2, RepliesKeep DEF Codes
<1>4. QED
  BY <1>2, <1>3 DEF AnswerCreated

LEMMA FailureKeeps ==
    ASSUME SubmitInv, NEW h \in Handlers, PoolTimesOut(h) \/ DatabaseFails(h)
    PROVE  CallInv'
<1>1. at[h] # "idle" /\ Replies(h, "error", Null)
  BY DEF PoolTimesOut, DatabaseFails
<1>2. RowsGrow
  BY <1>1, CallTypes DEF PoolTimesOut, DatabaseFails, RowsGrow
<1>3. QED
  BY <1>1, <1>2, RepliesKeep DEF Codes

LEMMA DiesKeeps == SubmitInv /\ ProcessDies => CallInv'
BY CallTypes DEF ProcessDies, CallInv, ThreadsSound, ThreadSound, AnsweredJobs,
   RowIsOwn, Places

LEMMA SubmitInvStep ==
    ASSUME SubmitInv, [SubmitNext]_submitVars
    PROVE  SubmitInv'
<1>1. LimiterInv'
  BY LimiterAmongCalls, LimiterStepInv, LimiterAssumption DEF SubmitInv
<1>2. CallInv'
  <2>1. CASE UNCHANGED <<at, serving, found, rows, answers>>
    BY <2>1, CallTypes DEF CallInv, ThreadsSound, AnsweredJobs, RowIsOwn
  <2>2. QED
    BY <2>1, ArriveKeeps, LimitKeeps, LookUpKeeps, InsertKeeps, InsertViolatesKeeps,
       LookUpAgainKeeps, AnswerCreatedKeeps, FailureKeeps, DiesKeeps
       DEF SubmitNext, Serve, ClockTicks, submitVars, threadVars
<1>3. QED
  BY <1>1, <1>2, CountersType DEF SubmitInv, SubmitTypeOK, LimiterInv, CallInv, Places

LEMMA SubmitInvInit == SubmitInit => SubmitInv
<1> SUFFICES ASSUME SubmitInit PROVE SubmitInv
  OBVIOUS
<1>1. LimiterInv
  BY LimiterInitInv, LimiterAssumption DEF SubmitInit
<1>2. 0 \in 0..MaxRequests /\ 0 \in 0..MaxFaults /\ <<>> \in Seq(Requests)
  BY SubmitAssumption
<1>3. QED
  BY <1>1, <1>2 DEF SubmitInit, SubmitInv, SubmitTypeOK, LimiterInv, ThreadsSound,
     ThreadSound, AnsweredJobs, RowIsOwn

LEMMA SubmitInvAlways == SubmitSpec => []SubmitInv
BY SubmitInvInit, SubmitInvStep, PTL DEF SubmitSpec

\* Threads, table and answers stay within their types: a thread only has a row
\* that there is.
THEOREM SubmitTypeCorrect == SubmitSpec => []SubmitTypeOK
<1>1. SubmitInv => SubmitTypeOK
  BY DEF SubmitInv
<1>2. QED
  BY <1>1, SubmitInvAlways, PTL

\* The limiter inside the submit path is TenantRateLimiter: lookups, INSERTs
\* and answers between its calls add nothing to what it does, so that its rate
\* and its Retry-After periods are kept.
THEOREM LimiterAmongSubmits ==
    SubmitSpec => LimiterSpec /\ []RateKept /\ []RetryAfterKept
<1>1. SubmitSpec => LimiterSpec
  BY LimiterAmongCalls, PTL DEF SubmitSpec, SubmitInit, LimiterSpec
<1>2. QED
  BY <1>1, RateLimitKept, RetryAfterHonoured, PTL

-----------------------------------------------------------------------------
(* The refinement of SubmitContract.                                       *)

\* The job a thread looks up or is given is a job made for its request, or,
\* with the request's key, for another one.
LEMMA SameRequest ==
    ASSUME SubmitInv, NEW r \in Requests, NEW i \in DOMAIN rows, rows[i].key = r.key
    PROVE  SameFingerprint(r, i) <=> rows[i] = r
<1>1. rows[i] \in Requests
  <2>1. rows \in Seq(Requests)
    BY CallTypes DEF CallInv
  <2>2. i \in 1..Len(rows)
    BY <2>1
  <2>3. QED
    BY <2>1, <2>2
<1>2. Requests \subseteq [tenant: Tenants, body: Bodies, key: Keys]
  BY SubmitAssumption
<1>3. rows[i] = [tenant |-> rows[i].tenant, body |-> rows[i].body, key |-> rows[i].key]
  BY <1>1, <1>2
<1>4. r = [tenant |-> r.tenant, body |-> r.body, key |-> r.key]
  BY <1>2
<1>5. QED
  BY <1>3, <1>4 DEF SameFingerprint

\* An answer about a job with the request's key.
LEMMA KeyedAnswer ==
    ASSUME SubmitInv, UNCHANGED rows, NEW h \in Handlers, NEW r \in Requests,
           r = serving[h], Keyed(r), NEW i \in DOMAIN rows, rows[i].key = r.key,
           \/ SameFingerprint(r, i) /\ Replies(h, "accepted", i)
           \/ ~SameFingerprint(r, i) /\ Replies(h, "conflict", Null)
    PROVE  Contract!ContractNext
<1>1. r.key # Null
  BY DEF Keyed
<1>2. CASE SameFingerprint(r, i) /\ Replies(h, "accepted", i)
  <2>1. Contract!Accept(r)
    BY <1>1, <1>2, SameRequest DEF Contract!Accept, Contract!Answer, Contract!Reply, Replies
  <2>2. QED
    BY <2>1 DEF Contract!ContractNext
<1>3. CASE ~SameFingerprint(r, i) /\ Replies(h, "conflict", Null)
  <2>1. Contract!Conflict(r)
    BY <1>1, <1>3, SameRequest DEF Contract!Conflict, Contract!Answer, Contract!Reply, Replies
  <2>2. QED
    BY <2>1 DEF Contract!ContractNext
<1>4. QED
  BY <1>2, <1>3

\* A 500, for a request whose row is there, or not.
LEMMA ErrorAnswer ==
    ASSUME SubmitInv, NEW h \in Handlers, at[h] # "idle", Replies(h, "error", Null),
           rows' = rows \/ (rows' = Append(rows, serving[h]) /\ ~KeyTaken(serving[h]))
    PROVE  Contract!ContractNext
<1>1. PICK r \in Requests : r = serving[h]
  BY CallTypes
<1>2. CASE rows' = rows
  <2>1. Contract!Fail(r)
    BY <1>1, <1>2 DEF Contract!Fail, Contract!Answer, Contract!Reply, Replies
  <2>2. QED
    BY <2>1 DEF Contract!ContractNext
<1>3. CASE rows' = Append(rows, r) /\ ~KeyTaken(r)
  <2>1. Contract!Make(r)
    BY <1>1, <1>3 DEF Contract!Make, Contract!Reply, Replies, KeyTaken, RowsOfKey
  <2>2. QED
    BY <2>1 DEF Contract!ContractNext
<1>4. QED
  BY <1>1, <1>2, <1>3

LEMMA ContractStep ==
    ASSUME SubmitInv, [SubmitNext]_submitVars
    PROVE  [Contract!ContractNext]_<<rows, answers>>
<1>1. ASSUME NEW h \in Handlers, LookUp(h)
      PROVE  [Contract!ContractNext]_<<rows, answers>>
  <2>1. PICK r \in Requests : r = serving[h] /\ Keyed(r)
    BY <1>1, CallTypes DEF LookUp
  <2>2. \A i \in RowsOfKey(r.key) : i \in DOMAIN rows /\ rows[i].key = r.key
    BY DEF RowsOfKey
  <2>3. UNCHANGED rows
    BY <1>1 DEF LookUp
  <2>4. CASE GoesOn(h, "insert", Null)
    BY <2>3, <2>4 DEF GoesOn
  <2>5. ASSUME NEW i \in RowsOfKey(r.key),
               IF SameFingerprint(r, i) THEN Replies(h, "accepted", i)
               ELSE Replies(h, "conflict", Null)
        PROVE  Contract!ContractNext
    BY <2>1, <2>2, <2>3, <2>5, KeyedAnswer
  <2>6. QED
    BY <1>1, <2>1, <2>4, <2>5 DEF LookUp
<1>2. ASSUME NEW h \in Handlers, Insert(h) PROVE Contract!ContractNext
  <2>1. PICK r \in Requests : r = serving[h]
    BY <1>2, CallTypes DEF Insert
  <2>2. Contract!Make(r)
    BY <1>2, <2>1 DEF Insert, GoesOn, KeyTaken, RowsOfKey, Contract!Make
  <2>3. QED
    BY <2>2 DEF Contract!ContractNext
<1>3. ASSUME NEW h \in Handlers, AnswerCreated(h) PROVE Contract!ContractNext
  <2>1. PICK r \in Requests, i \in DOMAIN rows :
          /\ r = serving[h] /\ i = found[h]
          /\ IF Keyed(r) THEN rows[i].key = r.key ELSE rows[i] = r
    BY <1>3, CallTypes DEF AnswerCreated, SubmitInv, ThreadsSound, ThreadSound
  <2>2. UNCHANGED rows /\ at[h] = "check"
    BY <1>3 DEF AnswerCreated
  <2>3. CASE Keyed(r)
    BY <1>3, <2>1, <2>2, <2>3, KeyedAnswer DEF AnswerCreated
  <2>4. CASE ~Keyed(r)
    <3>1. Replies(h, "accepted", i) /\ rows[i] = r
      BY <1>3, <2>1, <2>4 DEF AnswerCreated
    <3>2. r.key = Null => \A a \in answers : a.job # i
      BY <2>1, <2>2, <3>1 DEF SubmitInv, RowIsOwn
    <3>3. Contract!Accept(r)
      BY <2>1, <2>2, <3>1, <3>2
         DEF Contract!Accept, Contract!Answer, Contract!Reply, Replies
    <3>4. QED
      BY <3>3 DEF Contract!ContractNext
  <2>5. QED
    BY <2>3, <2>4
<1>4. ASSUME NEW h \in Handlers, InsertViolates(h) \/ PoolTimesOut(h) \/ DatabaseFails(h)
      PROVE  [Contract!ContractNext]_<<rows, answers>>
  <2>1. CASE Replies(h, "error", Null)
    BY <1>4, <2>1, ErrorAnswer DEF InsertViolates, PoolTimesOut, DatabaseFails
  <2>2. CASE InsertViolates(h) /\ GoesOn(h, "relookup", Null)
    BY <2>2 DEF InsertViolates, GoesOn
  <2>3. QED
    BY <1>4, <2>1, <2>2 DEF InsertViolates, PoolTimesOut, DatabaseFails
<1>5. ASSUME NEW h \in Handlers,
             Limit(h) \/ LookUpAgain(h) \/ \E r \in Requests : Arrive(h, r)
      PROVE  UNCHANGED <<rows, answers>>
  BY <1>5 DEF Limit, LookUpAgain, Arrive, GoesOn
<1>6. CASE ProcessDies \/ ClockTicks \/ UNCHANGED submitVars
  BY <1>6 DEF ProcessDies, ClockTicks, submitVars
<1>7. QED
  BY <1>1, <1>2, <1>3, <1>4, <1>5, <1>6 DEF SubmitNext, Serve

\* One job for a key at most, 201 only for a job made for this very request,
\* 409 only for a key that made a job for another, whatever requests race
\* between lookup and INSERT, whatever pool timeout, lost connection or death
\* of the process falls in between.
THEOREM KeepsContract == SubmitSpec => ContractKept
<1>1. SubmitInit => Contract!ContractInit
  BY DEF SubmitInit, Contract!ContractInit
<1>2. SubmitInv /\ [SubmitNext]_submitVars
         => [Contract!ContractNext]_Contract!contractVars
  BY ContractStep DEF Contract!contractVars
<1>3. QED
  BY <1>1, <1>2, SubmitInvAlways, PTL DEF SubmitSpec, ContractKept, Contract!ContractSpec
=============================================================================
