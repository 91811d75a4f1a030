---------------------------- MODULE MetricsProofs ----------------------------
(***************************************************************************)
(* Theorems about Metrics, for every set of jobs, of scraping threads and  *)
(* every setting: the counters beside a system that keeps what was proved  *)
(* of its passes, though the API may now die in the middle of a request.   *)
(***************************************************************************)
EXTENDS Metrics, JobSystemClusterProofs

-----------------------------------------------------------------------------
(* What the registries read.                                               *)

\* Attempts that another followed, one pair for each.
RetryPairs(attempts) == UNION {{j} \X (1..attempts[j] - 1) : j \in Jobs}

LEMMA PairsCountable ==
    ASSUME NEW attempts \in [Jobs -> Nat]
    PROVE  /\ IsFiniteSet(RetryPairs(attempts))
           /\ Cardinality(RetryPairs(attempts)) \in Nat
<1> DEFINE Of(j) == {j} \X (1..attempts[j] - 1)
           Each == {Of(j) : j \in Jobs}
           of == [j \in Jobs |-> Of(j)]
<1>1. ASSUME NEW j \in Jobs PROVE IsFiniteSet(Of(j))
  <2>1. IsFiniteSet(1..attempts[j] - 1)
    BY FS_Interval
  <2>2. IsFiniteSet({j})
    BY FS_Singleton
  <2>3. QED
    BY <2>1, <2>2, FS_Product
<1>2. IsFiniteSet(Each)
  <2>1. of \in Surjection(Jobs, Each)
    BY DEF Surjection
  <2>2. IsFiniteSet(Jobs)
    BY JobsAssumption
  <2> HIDE DEF of
  <2>3. QED
    BY <2>1, <2>2, FS_Surjection
<1>3. IsFiniteSet(UNION Each)
  BY <1>1, <1>2, FS_UNION
<1>4. QED
  BY <1>3, FS_CardinalityType DEF RetryPairs

LEMMA RetriesType ==
    ASSUME TypeInv
    PROVE  /\ Attempts \in [Jobs -> Nat]
           /\ Retries = Cardinality(RetryPairs(Attempts))
           /\ IsFiniteSet(RetryPairs(Attempts))
           /\ Retries \in Nat
<1>1. Attempts \in [Jobs -> Nat]
  BY ObjectTypes DEF Attempts
<1>2. \A j \in Jobs : Attempts[j] = jobs[j].attempts
  BY DEF Attempts
<1>3. RetryPairs(Attempts) = UNION {{j} \X (1..jobs[j].attempts - 1) : j \in Jobs}
  BY <1>2 DEF RetryPairs
<1>4. QED
  BY <1>1, <1>3, PairsCountable DEF Retries

LEMMA TotalsType ==
    ASSUME TypeInv
    PROVE  ReliabilityTotals \in Totals
<1>1. \A s : Cardinality(HasStatus(s)) \in Nat
  BY JobsCountable DEF HasStatus
<1>2. Retries \in Nat
  BY RetriesType
<1>3. QED
  BY <1>1, <1>2 DEF ReliabilityTotals, Totals, Keys

LEMMA GrowthType ==
    ASSUME NEW t \in Nat, NEW s \in Nat
    PROVE  /\ Growth(t, s) \in Nat
           /\ \A c \in Nat : c >= s => c + Growth(t, s) >= t
BY DEF Growth

-----------------------------------------------------------------------------
(* The system beside the registries.                                       *)

\* The API dies between two calls of the scheduler: a cancel it had read is
\* never written.
ApiForgets ==
    /\ faults' \in 0..MaxFaults
    /\ canceling' = [h \in CancelHandlers |-> Null]
    /\ UNCHANGED <<repoVars, clusterVars, pc, localVars>>

LEMMA SystemMoves ==
    ASSUME TypeInv, [MetricsNext]_metricsVars
    PROVE  [Next]_vars \/ ApiForgets
<1>1. ASSUME ApiDies PROVE ApiForgets
  BY <1>1, FaultType DEF ApiDies, ApiForgets, TypeInv, SystemInv, ProcessInv,
     SchedulerTypeOK
<1>2. ASSUME NEW s \in Scrapers, ScrapeReads(s) \/ ScrapeSyncs(s)
      PROVE  UNCHANGED vars
  BY <1>2 DEF ScrapeReads, ScrapeSyncs
<1>3. SchedulerSyncs \/ UNCHANGED metricsVars => UNCHANGED vars
  BY DEF SchedulerSyncs, metricsVars
<1>4. SchedulerActs \/ SchedulerDies \/ Elsewhere => Next
  BY DEF SchedulerActs, SchedulerDies, Elsewhere, Next
<1>5. QED
  BY <1>1, <1>2, <1>3, <1>4 DEF MetricsNext

\* What was proved of the system holds of it whatever the API forgets.
KeptInv == TypeInv /\ HistoryInv

LEMMA ForgettingKeeps ==
    ASSUME KeptInv, ApiForgets
    PROVE  KeptInv'
<1>1. UNCHANGED <<jobs, now, objects, ended, pc, work, counted, dispatched, cursor, observed>>
  BY DEF ApiForgets, repoVars, clusterVars, localVars
<1>2. TypeInv'
  <2>1. RepoTypeOK' /\ ClusterTypeOK'
    BY <1>1 DEF KeptInv, TypeInv, SystemInv, RepoTypeOK, ClusterTypeOK
  <2>2. ProcessInv'
    BY <1>1 DEF KeptInv, TypeInv, SystemInv, ProcessInv, SchedulerTypeOK,
       CurrentExists, HasCurrent, Admitted, Current, ApiForgets
  <2>3. CancelTypeOK'
    BY DEF ApiForgets, CancelTypeOK
  <2>4. QED
    BY <2>1, <2>2, <2>3 DEF TypeInv, SystemInv
<1>3. PassInv' /\ RowsSound'
  BY <1>1 DEF KeptInv, HistoryInv, PassInv, OneEach, IdleEmpty, Dispatching,
     Reconciling, Waiting, Watched, RowsSound, RowSound
<1>4. QED
  BY <1>2, <1>3 DEF KeptInv, HistoryInv

LEMMA KeptInvStep ==
    ASSUME KeptInv, [MetricsNext]_metricsVars
    PROVE  KeptInv'
<1>1. CASE ApiForgets
  BY <1>1, ForgettingKeeps
<1>2. CASE [Next]_vars
  <2>1. TypeInv'
    BY <1>2, TypeInvStep DEF KeptInv
  <2>2. HistoryInv'
    BY <1>2, <2>1, PassStep, RowsSoundStep DEF KeptInv, HistoryInv
  <2>3. QED
    BY <2>1, <2>2 DEF KeptInv
<1>3. QED
  BY <1>1, <1>2, SystemMoves DEF KeptInv

LEMMA KeptInvAlways == MetricsSpec => []KeptInv
<1>1. MetricsInit => KeptInv
  BY TypeInvInit, HistoryInvInit DEF MetricsInit, KeptInv
<1>2. KeptInv /\ [MetricsNext]_metricsVars => KeptInv'
  BY KeptInvStep
<1>3. QED
  BY <1>1, <1>2, PTL DEF MetricsSpec

-----------------------------------------------------------------------------
(* The registries.                                                         *)

\* A step of a registry: nothing, a sync with totals that were read, events
\* of the process counted one by one, or the end of the process.
Counts(p) ==
    /\ \A q \in Processes : q # p => /\ counters'[q] = counters[q]
                                     /\ synced'[q] = synced[q]
    /\ \/ \E totals \in Totals : Sync(p, totals)
       \/ Forgets(p)
       \/ /\ counters' = [counters EXCEPT ![p] = [key \in Keys |->
                  counters[p][key] + IF Recorded(key) THEN 1 ELSE 0]]
          /\ UNCHANGED synced

LEMMA RegistryMoves ==
    ASSUME TypeInv, MetricsTypeOK, [MetricsNext]_metricsVars
    PROVE  UNCHANGED registryVars \/ \E p \in Processes : Counts(p)
<1>1. ASSUME NEW p \in Processes, NEW totals \in Totals, Sync(p, totals)
      PROVE  Counts(p)
  BY <1>1 DEF Sync, Counts, MetricsTypeOK
<1>2. ASSUME NEW p \in Processes, Forgets(p) PROVE Counts(p)
  BY <1>2 DEF Forgets, Counts, MetricsTypeOK
<1>3. "scheduler" \in Processes /\ "api" \in Processes
  BY DEF Processes
<1>4. CASE SchedulerSyncs
  BY <1>1, <1>3, <1>4, TotalsType DEF SchedulerSyncs
<1>5. CASE SchedulerActs
  <2>1. CASE Forgets("scheduler")
    BY <2>1, <1>2, <1>3
  <2>2. CASE ~Forgets("scheduler")
    BY <2>2, <1>3, <1>5 DEF SchedulerActs, Counts, MetricsTypeOK
  <2>3. QED
    BY <2>1, <2>2
<1>6. CASE SchedulerDies \/ ApiDies
  BY <1>2, <1>3, <1>6 DEF SchedulerDies, ApiDies
<1>7. ASSUME NEW s \in Scrapers, ScrapeReads(s) \/ ScrapeSyncs(s)
      PROVE  UNCHANGED registryVars \/ Counts("api")
  <2>1. CASE ScrapeReads(s)
    BY <2>1 DEF ScrapeReads
  <2>2. CASE ScrapeSyncs(s)
    BY <2>2, <1>1, <1>3 DEF ScrapeSyncs, MetricsTypeOK
  <2>3. QED
    BY <1>7, <2>1, <2>2
<1>8. CASE Elsewhere \/ UNCHANGED metricsVars
  BY <1>8 DEF Elsewhere, metricsVars
<1>9. QED
  BY <1>3, <1>4, <1>5, <1>6, <1>7, <1>8 DEF MetricsNext

\* What a step leaves in the registry of a process.
LEMMA RegistryAfter ==
    ASSUME MetricsTypeOK, NEW p \in Processes, Counts(p)
    PROVE  /\ counters' \in [Processes -> Totals]
           /\ synced' \in [Processes -> Totals]
           /\ \A key \in Keys :
                 counters[p][key] >= synced[p][key] =>
                    counters'[p][key] >= synced'[p][key]
<1>1. /\ counters \in [Processes -> Totals] /\ synced \in [Processes -> Totals]
      /\ counters[p] \in Totals /\ synced[p] \in Totals
      /\ \A key \in Keys : counters[p][key] \in Nat /\ synced[p][key] \in Nat
  BY DEF MetricsTypeOK, Totals
<1>2. CASE \E totals \in Totals : Sync(p, totals)
  <2>1. PICK totals \in Totals : Sync(p, totals)
    BY <1>2
  <2> DEFINE grown == [key \in Keys |->
                          counters[p][key] + Growth(totals[key], synced[p][key])]
  <2>2. \A key \in Keys : totals[key] \in Nat
    BY DEF Totals
  <2>3. \A key \in Keys : /\ Growth(totals[key], synced[p][key]) \in Nat
                          /\ counters[p][key] >= synced[p][key] =>
                                grown[key] >= totals[key]
    BY <1>1, <2>2, GrowthType
  <2>4. grown \in Totals
    BY <1>1, <2>3 DEF Totals
  <2> HIDE DEF grown
  <2>5. /\ counters' = [counters EXCEPT ![p] = grown]
        /\ synced' = [synced EXCEPT ![p] = totals]
    BY <2>1 DEF Sync, grown
  <2>6. QED
    BY <1>1, <2>3, <2>4, <2>5
<1>3. CASE Forgets(p)
  <2>1. NoTotals \in Totals /\ \A key \in Keys : NoTotals[key] = 0
    BY DEF NoTotals, Totals
  <2>2. QED
    BY <1>1, <1>3, <2>1 DEF Forgets
<1>4. CASE /\ counters' = [counters EXCEPT ![p] = [key \in Keys |->
                  counters[p][key] + IF Recorded(key) THEN 1 ELSE 0]]
           /\ UNCHANGED synced
  <2> DEFINE counted2 == [key \in Keys |->
                             counters[p][key] + IF Recorded(key) THEN 1 ELSE 0]
  <2>1. /\ counted2 \in Totals
        /\ \A key \in Keys : counters[p][key] >= synced[p][key] =>
                                 counted2[key] >= synced[p][key]
    BY <1>1 DEF Totals
  <2> HIDE DEF counted2
  <2>2. counters' = [counters EXCEPT ![p] = counted2]
    BY <1>4 DEF counted2
  <2>3. QED
    BY <1>1, <1>4, <2>1, <2>2
<1>5. QED
  BY <1>2, <1>3, <1>4 DEF Counts

LEMMA HappensCountable ==
    ASSUME TypeInv, NEW key \in Keys
    PROVE  Happens(key) \in SUBSET Countable
<1>1. \A s : Become(s) \subseteq Countable
  BY DEF Become, Countable
<1>2. \A j \in Jobs : jobs[j].attempts \in Nat
  BY ObjectTypes
<1>3. Requeued \subseteq Countable
  BY <1>2 DEF Requeued, Countable
<1>4. QED
  BY <1>1, <1>3 DEF Happens, Keys

LEMMA MetricsTypeStep ==
    ASSUME TypeInv, MetricsTypeOK, [MetricsNext]_metricsVars
    PROVE  MetricsTypeOK'
<1>1. counters' \in [Processes -> Totals] /\ synced' \in [Processes -> Totals]
  BY RegistryMoves, RegistryAfter DEF MetricsTypeOK, registryVars
<1>2. scrapes' \in [Scrapers -> Totals \cup {Null}]
  <2>1. CASE \E s \in Scrapers : ScrapeReads(s) \/ ScrapeSyncs(s)
    BY <2>1, TotalsType DEF ScrapeReads, ScrapeSyncs, MetricsTypeOK
  <2>2. CASE ApiDies
    BY <2>2 DEF ApiDies
  <2>3. CASE UNCHANGED scrapes
    BY <2>3 DEF MetricsTypeOK
  <2>4. QED
    BY <2>1, <2>2, <2>3 DEF MetricsNext, SchedulerSyncs, SchedulerActs, SchedulerDies,
       Elsewhere, metricsVars
<1>3. metered' \in BOOLEAN
  BY DEF MetricsNext, SchedulerSyncs, SchedulerActs, SchedulerDies, ScrapeReads,
     ScrapeSyncs, ApiDies, Elsewhere, MetricsTypeOK, metricsVars
<1>4. happened' \in [Keys -> SUBSET Countable]
  <2>1. CASE Remembers
    BY <2>1, HappensCountable DEF Remembers, MetricsTypeOK
  <2>2. CASE UNCHANGED happened
    BY <2>2 DEF MetricsTypeOK
  <2>3. QED
    BY <2>1, <2>2 DEF MetricsNext, SchedulerSyncs, SchedulerActs, SchedulerDies,
       ScrapeReads, ScrapeSyncs, ApiDies, Elsewhere, metricsVars, historyVars
<1>5. overlapped' \in BOOLEAN
  BY DEF MetricsNext, SchedulerSyncs, SchedulerActs, SchedulerDies, ScrapeReads,
     ScrapeSyncs, ApiDies, Elsewhere, MetricsTypeOK, metricsVars, historyVars
<1>6. QED
  BY <1>1, <1>2, <1>3, <1>4, <1>5 DEF MetricsTypeOK

LEMMA MetricsStart == MetricsInit => MetricsTypeOK /\ NeverUndercounts
<1> SUFFICES ASSUME MetricsInit PROVE MetricsTypeOK /\ NeverUndercounts
  OBVIOUS
<1>1. NoTotals \in Totals /\ \A key \in Keys : NoTotals[key] = 0
  BY DEF NoTotals, Totals
<1>2. /\ counters = [p \in Processes |-> NoTotals]
      /\ synced = [p \in Processes |-> NoTotals]
  BY DEF MetricsInit
<1>3. MetricsTypeOK
  BY <1>1, <1>2 DEF MetricsInit, MetricsTypeOK, Countable
<1>4. NeverUndercounts
  <2> SUFFICES ASSUME NEW p \in Processes, NEW key \in Keys
               PROVE  counters[p][key] >= synced[p][key]
    BY DEF NeverUndercounts
  <2>1. counters[p][key] = 0 /\ synced[p][key] = 0
    BY <1>1, <1>2
  <2>2. QED
    BY <2>1
<1>5. QED
  BY <1>3, <1>4

\* The registries keep their types: no total is negative, so none of a
\* counter's increments is.
THEOREM MetricsTypeCorrect == MetricsSpec => []MetricsTypeOK
<1>1. KeptInv /\ MetricsTypeOK /\ [MetricsNext]_metricsVars => MetricsTypeOK'
  BY MetricsTypeStep DEF KeptInv
<1>2. MetricsInit => MetricsTypeOK
  BY MetricsStart
<1>3. QED
  BY <1>1, <1>2, KeptInvAlways, PTL DEF MetricsSpec

\* No counter ever falls behind the totals it was last synced with, whichever
\* scrape overtakes another and whatever total goes down.
THEOREM ExportsNoLess == MetricsSpec => []NeverUndercounts
<1>1. KeptInv /\ MetricsTypeOK /\ NeverUndercounts /\ [MetricsNext]_metricsVars
         => NeverUndercounts'
  <2> SUFFICES ASSUME KeptInv, MetricsTypeOK, NeverUndercounts,
                      [MetricsNext]_metricsVars
               PROVE  NeverUndercounts'
    OBVIOUS
  <2>1. CASE UNCHANGED registryVars
    BY <2>1 DEF registryVars, NeverUndercounts
  <2>2. ASSUME NEW p \in Processes, Counts(p) PROVE NeverUndercounts'
    <3>1. \A key \in Keys : counters'[p][key] >= synced'[p][key]
      BY <2>2, RegistryAfter DEF NeverUndercounts
    <3>2. QED
      BY <2>2, <3>1 DEF Counts, NeverUndercounts
  <2>3. QED
    BY <2>1, <2>2, RegistryMoves DEF KeptInv
<1>2. MetricsInit => NeverUndercounts
  BY MetricsStart
<1>3. QED
  BY <1>1, <1>2, KeptInvAlways, MetricsTypeCorrect, PTL DEF MetricsSpec

-----------------------------------------------------------------------------
(* What was counted.  A job enters Settled(s) once at most, with a row that *)
(* becomes s or with a cancel, and stays there.                            *)

Listed(j) == \E i \in DOMAIN work : work[i].job = j

Settled(s) ==
    {j \in HasStatus(s) \cup HasStatus("CANCELED") : ~(Dispatching /\ Listed(j))}

\* What happened to an outcome: every row that shows it, and none but a
\* cancel has overwritten since.
OutcomeNoted(key, s) ==
    /\ HasStatus(s) \subseteq happened[key]
    /\ happened[key] \subseteq Settled(s)

\* The attempts that were requeued are over, and every attempt but the last
\* was requeued, and so was the last of a QUEUED row.
Closed(pair) ==
    /\ pair \in Jobs \X Nat
    /\ \/ pair[2] < jobs[pair[1]].attempts
       \/ /\ pair[2] = jobs[pair[1]].attempts
          /\ jobs[pair[1]].status # "RUNNING"

AttemptsNoted(j) ==
    /\ \A a \in 1..jobs[j].attempts :
          a < jobs[j].attempts => <<j, a>> \in happened["retries_total"]
    /\ jobs[j].status = "QUEUED" /\ jobs[j].attempts >= 1 =>
          <<j, jobs[j].attempts>> \in happened["retries_total"]

RetriesNoted ==
    /\ IsFiniteSet(happened["retries_total"])
    /\ \A pair \in happened["retries_total"] : Closed(pair)
    /\ \A j \in Jobs : AttemptsNoted(j)

Noted ==
    /\ OutcomeNoted("success_total", "SUCCEEDED")
    /\ OutcomeNoted("fail_total", "FAILED")
    /\ RetriesNoted

-----------------------------------------------------------------------------
(* A settled job stays settled.                                            *)

LEMMA ScannedRunning ==
    ASSUME TypeInv, ScanRunning
    PROVE  \A i \in DOMAIN work' : work'[i].job \in HasStatus("RUNNING")
<1>1. PICK page \in Pages : /\ ListRunningJobs(page, RunningScanLimit)
                            /\ work' = Snapshots(page)
  BY DEF ScanRunning
<1>2. /\ {page[i] : i \in DOMAIN page} \subseteq HasStatus("RUNNING")
      /\ Cardinality({page[i] : i \in DOMAIN page}) = Len(page)
  BY <1>1 DEF ListRunningJobs, IsPage
<1>3. QED
  BY <1>1, <1>2, SnapshotsOfPage DEF TypeInv, SystemInv

\* How far a reconcile pass is after a step.
LEMMA ReconcileMoves ==
    ASSUME TypeInv, [Next]_vars
    PROVE  \/ ScanRunning
           \/ /\ work' = work \/ (work # <<>> /\ work' = Tail(work))
              /\ Reconciling' => Reconciling
           \/ ~Reconciling'
<1>1. CASE SchedulerRuns
  <2>1. CASE Dispatch \/ Restart
    BY <2>1 DEF Dispatch, ListCandidates, EndDispatch, SkipOverQuota, Admit, Picks,
       FindExisting, BuildManifest, ManifestRaises, Dies, CreateJobObject,
       CreateConflicts, CreateFails, RejectJob, MarkRunning, SkipStateChanged,
       Restart, Reconciling
  <2>2. CASE Verdict
    BY <2>2, VerdictLeaves, CurrentIsJob DEF NextRunning
  <2>3. CASE Probe \/ TimesOut \/ DeleteTimedOut
    BY <2>3 DEF Probe, TimesOut, DeleteTimedOut, localVars, Reconciling
  <2>4. QED
    BY <1>1, <2>1, <2>2, <2>3 DEF SchedulerRuns, SchedulerStep, Reconcile, Verdict
<1>2. CASE SchedulerCrashes
  BY <1>2 DEF SchedulerCrashes, Crash, Dies, Reconciling
<1>3. CASE UNCHANGED <<pc, work>>
  BY <1>3 DEF Reconciling
<1>4. QED
  BY <1>1, <1>2, <1>3 DEF Next, API, SubmitJob, CancelRead, CancelWrite,
     ContainerEnds, TtlExpires, ClockTicks, vars, systemVars, schedulerVars, localVars

\* What is left of a pass was in it before.
LEMMA Remaining ==
    ASSUME TypeInv, HistoryInv,
           work' = work \/ (work # <<>> /\ work' = Tail(work))
    PROVE  \A j : Listed(j)' => Listed(j)
<1>1. \A i \in DOMAIN work' : \E k \in DOMAIN work : work'[i] = work[k]
  BY WorkTypes, TailElements DEF HistoryInv, PassInv, OneEach
<1>2. QED
  BY <1>1 DEF Listed

\* A job comes into a dispatch pass from QUEUED, into a reconcile pass from
\* RUNNING.
LEMMA ComesListed ==
    ASSUME TypeInv, HistoryInv, [Next]_vars, NEW j \in Jobs
    PROVE  /\ (Dispatching /\ Listed(j))' =>
                 \/ Dispatching /\ Listed(j)
                 \/ jobs[j].status = "QUEUED"
           /\ (Reconciling /\ Listed(j))' =>
                 \/ Reconciling /\ Listed(j)
                 \/ jobs[j].status = "RUNNING"
<1>1. (Dispatching /\ Listed(j))' => (Dispatching /\ Listed(j)) \/ jobs[j].status = "QUEUED"
  <2>1. CASE ListCandidates
    BY <2>1, CandidatesQueued DEF Listed, Dispatchable, HasStatus
  <2>2. CASE Probe
    BY <2>2 DEF Probe, Dispatching
  <2>3. QED
    BY <2>1, <2>2, PassMoves, Remaining
<1>2. (Reconciling /\ Listed(j))' => (Reconciling /\ Listed(j)) \/ jobs[j].status = "RUNNING"
  <2>1. CASE ScanRunning
    BY <2>1, ScannedRunning DEF Listed, HasStatus
  <2>2. QED
    BY <2>1, ReconcileMoves, Remaining
<1>3. QED
  BY <1>1, <1>2

\* Nothing but a cancel writes a row that is closed, unless the pass that
\* listed it as QUEUED goes on.
LEMMA ClosedStays ==
    ASSUME TypeInv, HistoryInv, [Next]_vars, NEW j \in Jobs,
           jobs[j].status \in Terminal, ~(Dispatching /\ Listed(j))
    PROVE  /\ jobs'[j].status \in {jobs[j].status, "CANCELED"}
           /\ ~(Dispatching /\ Listed(j))'
<1>1. jobs[j].status \notin {"ABSENT", "QUEUED", "RUNNING"}
  BY DEF Terminal
<1>2. ~(Dispatching /\ Listed(j))'
  BY <1>1, ComesListed
<1> SUFFICES jobs'[j].status \in {jobs[j].status, "CANCELED"}
  BY <1>2
<1>3. ASSUME NEW k \in Jobs, SubmitJob(k)
      PROVE  jobs'[j].status \in {jobs[j].status, "CANCELED"}
  BY <1>1, <1>3, SubmitInserts DEF Inserted, Only
<1>4. ASSUME NEW h \in CancelHandlers, CancelWrite(h)
      PROVE  jobs'[j].status \in {jobs[j].status, "CANCELED"}
  BY <1>4, CancelOverwrites DEF Overwritten, Only
<1>5. CASE RejectJob
  <2>1. Dispatching /\ HasCurrent
    BY <1>5 DEF RejectJob, Dispatching, HasCurrent
  <2>2. 1 \in DOMAIN work
    BY <2>1, CurrentIsJob, WorkTypes, EmptySeq
  <2>3. j # Current
    BY <2>1, <2>2 DEF Listed, Current
  <2>4. QED
    BY <1>5, <2>3, RejectOverwrites DEF Overwritten, Only
<1>6. CASE MarkRunning
  BY <1>1, <1>6, MarkBegins DEF Begun, Only
<1>7. CASE Verdict
  <2>1. CASE UNCHANGED jobs
    BY <2>1
  <2>2. ASSUME NEW s, NEW e, Left(Current, s, e)
        PROVE  jobs'[j].status \in {jobs[j].status, "CANCELED"}
    BY <1>1, <2>2 DEF Left, Only
  <2>3. QED
    BY <1>7, <2>1, <2>2, VerdictLeaves
<1>8. QED
  BY <1>3, <1>4, <1>5, <1>6, <1>7, TableKept

\* A job that the table says is s is no candidate.
LEMMA SettledHolds ==
    ASSUME TypeInv, HistoryInv, NEW s \in {"SUCCEEDED", "FAILED"}
    PROVE  HasStatus(s) \subseteq Settled(s)
BY DEF HistoryInv, PassInv, Waiting, Settled, HasStatus, Listed

LEMMA SettledGrows ==
    ASSUME TypeInv, HistoryInv, [Next]_vars, NEW s \in {"SUCCEEDED", "FAILED"}
    PROVE  /\ Settled(s) \subseteq Settled(s)'
           /\ Settled(s) \ HasStatus(s) \subseteq Settled(s)' \ HasStatus(s)'
<1>1. ASSUME NEW j \in Settled(s)
      PROVE  /\ j \in Jobs
             /\ jobs[j].status \in {s, "CANCELED"}
             /\ jobs'[j].status \in {jobs[j].status, "CANCELED"}
             /\ ~(Dispatching /\ Listed(j))'
  <2>1. /\ j \in Jobs /\ jobs[j].status \in {s, "CANCELED"}
        /\ ~(Dispatching /\ Listed(j))
    BY DEF Settled, HasStatus
  <2>2. jobs[j].status \in Terminal
    BY <2>1 DEF Terminal
  <2>3. QED
    BY <2>1, <2>2, ClosedStays
<1>2. QED
  BY <1>1 DEF Settled, HasStatus

-----------------------------------------------------------------------------
(* What a step adds to what happened.                                      *)

\* Where a row comes from: its attempts, and a QUEUED row that it was not.
LEMMA RowWritten ==
    ASSUME KeptInv, [Next]_vars, NEW j \in Jobs
    PROVE  /\ \/ jobs'[j].attempts = jobs[j].attempts
              \/ /\ jobs[j].status = "QUEUED"
                 /\ jobs'[j].attempts = jobs[j].attempts + 1
           /\ jobs'[j].status = "RUNNING" =>
                 \/ jobs'[j] = jobs[j]
                 \/ jobs'[j].attempts = jobs[j].attempts + 1
           /\ jobs'[j].status = "QUEUED" =>
                 \/ jobs'[j] = jobs[j]
                 \/ jobs'[j].attempts = 0
                 \/ /\ jobs[j].status = "RUNNING"
                    /\ jobs'[j].attempts = jobs[j].attempts
<1> DEFINE Goal ==
        /\ \/ jobs'[j].attempts = jobs[j].attempts
           \/ /\ jobs[j].status = "QUEUED"
              /\ jobs'[j].attempts = jobs[j].attempts + 1
        /\ jobs'[j].status = "RUNNING" =>
              \/ jobs'[j] = jobs[j]
              \/ jobs'[j].attempts = jobs[j].attempts + 1
        /\ jobs'[j].status = "QUEUED" =>
              \/ jobs'[j] = jobs[j]
              \/ jobs'[j].attempts = 0
              \/ /\ jobs[j].status = "RUNNING"
                 /\ jobs'[j].attempts = jobs[j].attempts
<1>1. ASSUME NEW k \in Jobs, SubmitJob(k) PROVE Goal
  <2>1. Inserted(k)
    BY <1>1, SubmitInserts DEF KeptInv
  <2>2. jobs[k].attempts = 0
    BY <2>1 DEF KeptInv, HistoryInv, RowsSound, RowSound, Inserted
  <2>3. QED
    BY <2>1, <2>2 DEF Inserted, Only
<1>2. ASSUME NEW h \in CancelHandlers, CancelWrite(h) PROVE Goal
  BY <1>2, CancelOverwrites DEF Overwritten, Only, KeptInv
<1>3. CASE RejectJob
  BY <1>3, RejectOverwrites DEF Overwritten, Only, KeptInv
<1>4. CASE MarkRunning
  BY <1>4, MarkBegins DEF Begun, Only, KeptInv
<1>5. CASE Verdict
  <2>1. CASE UNCHANGED jobs
    BY <2>1
  <2>2. ASSUME NEW s \in {"QUEUED", "SUCCEEDED", "FAILED"}, NEW e, Left(Current, s, e)
        PROVE  Goal
    BY <2>2 DEF Left, Only
  <2>3. QED
    BY <1>5, <2>1, <2>2, VerdictLeaves DEF KeptInv
<1>6. CASE UNCHANGED jobs
  BY <1>6
<1>7. QED
  BY <1>1, <1>2, <1>3, <1>4, <1>5, <1>6, TableKept

\* A step that leaves the table and the pass leaves every set that bounds a
\* counter.
Still == UNCHANGED <<jobs, work, pc>>

LEMMA StillSets ==
    ASSUME Still
    PROVE  /\ \A s : /\ Settled(s)' = Settled(s)
                    /\ HasStatus(s)' = HasStatus(s)
                    /\ Become(s) = {}
           /\ Requeued = {}
           /\ Retries' = Retries
<1>1. \A s : HasStatus(s)' = HasStatus(s)
  BY DEF Still, HasStatus
<1>2. (\A j : Listed(j)' <=> Listed(j)) /\ (Dispatching' <=> Dispatching)
  BY DEF Still, Listed, Dispatching
<1>3. \A s : Settled(s)' = Settled(s)
  BY <1>1, <1>2 DEF Settled
<1>4. Retries' = Retries
  BY DEF Still, Retries
<1>5. Requeued = {} /\ \A s : Become(s) = {}
  BY DEF Still, Become, Requeued
<1>6. QED
  BY <1>1, <1>3, <1>4, <1>5

LEMMA ForgettingIsStill == ApiForgets => Still
BY DEF ApiForgets, Still, repoVars, localVars

\* Nobody but the scheduler writes an outcome or requeues a row.
LEMMA OthersWriteNone ==
    ASSUME TypeInv, API \/ UNCHANGED jobs
    PROVE  \A key \in Keys : Happens(key) = {}
<1> SUFFICES /\ Become("SUCCEEDED") = {} /\ Become("FAILED") = {}
             /\ Requeued = {}
  BY DEF Happens, Keys
<1>1. CASE UNCHANGED jobs
  BY <1>1 DEF Become, Requeued
<1>2. ASSUME NEW j \in Jobs, SubmitJob(j)
      PROVE  /\ Become("SUCCEEDED") = {} /\ Become("FAILED") = {}
             /\ Requeued = {}
  BY <1>2, SubmitInserts DEF Inserted, Only, Become, Requeued
<1>3. ASSUME NEW h \in CancelHandlers, CancelWrite(h)
      PROVE  /\ Become("SUCCEEDED") = {} /\ Become("FAILED") = {}
             /\ Requeued = {}
  BY <1>3, CancelOverwrites DEF Overwritten, Only, Become, Requeued
<1>4. ASSUME NEW h \in CancelHandlers, NEW j \in Jobs, CancelRead(h, j)
      PROVE  UNCHANGED jobs
  BY <1>4 DEF CancelRead, systemVars, repoVars
<1>5. QED
  BY <1>1, <1>2, <1>3, <1>4 DEF API

\* So what happened is remembered by every step.
LEMMA AllRemembered ==
    ASSUME TypeInv, MetricsTypeOK, [MetricsNext]_metricsVars, NEW key \in Keys
    PROVE  happened'[key] = happened[key] \cup Happens(key)
<1>1. CASE SchedulerActs
  BY <1>1 DEF SchedulerActs, Remembers
<1>2. CASE UNCHANGED happened /\ (API \/ UNCHANGED jobs)
  <2>1. Happens(key) = {}
    BY <1>2, OthersWriteNone
  <2>2. QED
    BY <1>2, <2>1
<1>3. CASE Elsewhere
  BY <1>2, <1>3 DEF Elsewhere, historyVars, TtlExpires, ClockTicks, Tick, ContainerEnds,
     repoVars
<1>4. CASE SchedulerDies
  BY <1>2, <1>4 DEF SchedulerDies, SchedulerCrashes, Crash, Dies, repoVars, historyVars
<1>5. CASE SchedulerSyncs \/ ApiDies \/ UNCHANGED metricsVars
  BY <1>2, <1>5 DEF SchedulerSyncs, ApiDies, metricsVars, vars, systemVars, repoVars,
     historyVars
<1>6. ASSUME NEW s \in Scrapers, ScrapeReads(s) \/ ScrapeSyncs(s)
      PROVE  UNCHANGED happened /\ UNCHANGED jobs
  BY <1>6 DEF ScrapeReads, ScrapeSyncs, vars, systemVars, repoVars, historyVars
<1>7. QED
  BY <1>1, <1>2, <1>3, <1>4, <1>5, <1>6 DEF MetricsNext

\* An outcome is new to what happened, and is noted from then on.
LEMMA OutcomeNotedStep ==
    ASSUME KeptInv, KeptInv', MetricsTypeOK, [MetricsNext]_metricsVars,
           NEW key \in Keys, NEW s \in {"SUCCEEDED", "FAILED"},
           Happens(key) = Become(s), OutcomeNoted(key, s)
    PROVE  /\ OutcomeNoted(key, s)'
           /\ happened[key] \subseteq happened'[key]
           /\ happened[key] \ HasStatus(s) \subseteq happened'[key] \ HasStatus(s)'
           /\ Become(s) # {} => \E x : x \in happened'[key] /\ x \notin happened[key]
<1>1. happened'[key] = happened[key] \cup Become(s)
  BY AllRemembered DEF KeptInv
<1>2. [Next]_vars \/ Still
  BY SystemMoves, ForgettingIsStill DEF KeptInv
<1>3. /\ Settled(s) \subseteq Settled(s)'
      /\ Settled(s) \ HasStatus(s) \subseteq Settled(s)' \ HasStatus(s)'
  BY <1>2, SettledGrows, StillSets DEF KeptInv
<1>4. HasStatus(s)' \subseteq HasStatus(s) \cup Become(s)
  BY DEF HasStatus, Become
<1>5. Become(s) \subseteq HasStatus(s)' /\ Become(s) \cap HasStatus(s) = {}
  BY DEF HasStatus, Become
<1>6. HasStatus(s)' \subseteq Settled(s)'
  BY DEF KeptInv, HistoryInv, PassInv, Waiting, Settled, HasStatus, Listed
<1>7. Become(s) \cap happened[key] = {}
  BY <1>3, <1>5 DEF OutcomeNoted
<1>8. HasStatus(s)' \subseteq happened'[key] /\ happened'[key] \subseteq Settled(s)'
  BY <1>1, <1>3, <1>4, <1>5, <1>6 DEF OutcomeNoted
<1>9. OutcomeNoted(key, s)'
  BY <1>8 DEF OutcomeNoted
<1>10. happened[key] \ HasStatus(s) \subseteq happened'[key] \ HasStatus(s)'
  BY <1>1, <1>3 DEF OutcomeNoted
<1>11. QED
  BY <1>1, <1>7, <1>9, <1>10

\* An attempt that is requeued was not before.
LEMMA RequeuedIsNew ==
    ASSUME KeptInv, RetriesNoted, NEW j \in Jobs, jobs[j].status = "RUNNING"
    PROVE  <<j, jobs[j].attempts>> \notin happened["retries_total"]
<1>1. PICK pair : pair = <<j, jobs[j].attempts>>
  OBVIOUS
<1>2. jobs[j].attempts \in Nat /\ pair[1] = j /\ pair[2] = jobs[j].attempts
  BY <1>1, ObjectTypes DEF KeptInv
<1>3. ~Closed(pair)
  BY <1>2 DEF Closed
<1>4. QED
  BY <1>1, <1>3 DEF RetriesNoted

LEMMA RequeuedFinite == TypeInv => IsFiniteSet(Requeued)
<1> SUFFICES ASSUME TypeInv PROVE IsFiniteSet(Requeued)
  OBVIOUS
<1> DEFINE S == {k \in Jobs : jobs[k].status = "RUNNING" /\ jobs'[k].status = "QUEUED"}
           of == [j \in S |-> <<j, jobs[j].attempts>>]
<1>1. of \in Surjection(S, Requeued)
  BY DEF Surjection, Requeued
<1>2. IsFiniteSet(S)
  BY JobsCountable
<1> HIDE DEF of, S
<1>3. QED
  BY <1>1, <1>2, FS_Surjection

LEMMA RetriesNotedStep ==
    ASSUME KeptInv, KeptInv', MetricsTypeOK, [MetricsNext]_metricsVars, RetriesNoted
    PROVE  /\ RetriesNoted'
           /\ happened["retries_total"] \subseteq happened'["retries_total"]
<1> DEFINE R == happened["retries_total"]
<1>1. happened'["retries_total"] = R \cup Requeued
  BY AllRemembered DEF KeptInv, Keys, Happens
<1>2. \A j \in Jobs : jobs[j].attempts \in Nat /\ jobs'[j].attempts \in Nat
  BY ObjectTypes DEF KeptInv, TypeInv, SystemInv, RepoTypeOK, IsTable, Row
<1>3. IsFiniteSet(happened'["retries_total"])
  BY <1>1, RequeuedFinite, FS_Union DEF RetriesNoted, KeptInv
<1>4. [Next]_vars \/ Still
  BY SystemMoves, ForgettingIsStill DEF KeptInv
<1>5. CASE Still
  <2>1. happened'["retries_total"] = R /\ UNCHANGED jobs
    BY <1>1, <1>5, StillSets DEF Still
  <2>2. \A pair \in R : Closed(pair)'
    BY <2>1 DEF RetriesNoted, Closed
  <2>3. \A j \in Jobs : AttemptsNoted(j)'
    BY <2>1 DEF RetriesNoted, AttemptsNoted
  <2>4. QED
    BY <1>1, <1>3, <2>1, <2>2, <2>3 DEF RetriesNoted
<1>6. CASE [Next]_vars
  <2>1. ASSUME NEW pair \in R PROVE Closed(pair)'
    <3>1. /\ Closed(pair) /\ pair[1] \in Jobs /\ pair[2] \in Nat
      BY DEF RetriesNoted, Closed
    <3>2. jobs'[pair[1]].attempts = jobs[pair[1]].attempts
             \/ jobs'[pair[1]].attempts = jobs[pair[1]].attempts + 1
      BY <1>6, <3>1, RowWritten
    <3>3. jobs'[pair[1]].status = "RUNNING" =>
             \/ jobs'[pair[1]] = jobs[pair[1]]
             \/ jobs'[pair[1]].attempts = jobs[pair[1]].attempts + 1
      BY <1>6, <3>1, RowWritten
    <3>4. QED
      BY <1>2, <3>1, <3>2, <3>3 DEF Closed
  <2>2. ASSUME NEW pair \in Requeued PROVE Closed(pair)'
    <3>1. PICK j \in Jobs : /\ jobs[j].status = "RUNNING" /\ jobs'[j].status = "QUEUED"
                            /\ pair = <<j, jobs[j].attempts>>
      BY DEF Requeued
    <3>2. jobs'[j].attempts = jobs[j].attempts
      BY <1>6, <3>1, RowWritten
    <3>3. QED
      BY <1>2, <3>1, <3>2 DEF Closed
  <2>3. ASSUME NEW j \in Jobs PROVE AttemptsNoted(j)'
    <3>1. AttemptsNoted(j) /\ jobs[j].attempts \in Nat
      BY <1>2 DEF RetriesNoted
    <3>2. CASE jobs'[j].attempts = jobs[j].attempts
      <4>1. \A a \in 1..jobs'[j].attempts :
               a < jobs'[j].attempts => <<j, a>> \in happened'["retries_total"]
        BY <1>1, <3>1, <3>2 DEF AttemptsNoted
      <4>2. jobs'[j].status = "QUEUED" /\ jobs'[j].attempts >= 1 =>
               jobs'[j] = jobs[j] \/ jobs[j].status = "RUNNING"
        BY <1>6, <3>1, <3>2, RowWritten
      <4>3. jobs'[j].status = "QUEUED" /\ jobs[j].status = "RUNNING" =>
               <<j, jobs[j].attempts>> \in happened'["retries_total"]
        BY <1>1 DEF Requeued
      <4>4. jobs'[j].status = "QUEUED" /\ jobs'[j].attempts >= 1 =>
               <<j, jobs'[j].attempts>> \in happened'["retries_total"]
        BY <1>1, <3>1, <3>2, <4>2, <4>3 DEF AttemptsNoted
      <4>5. QED
        BY <4>1, <4>4 DEF AttemptsNoted
    <3>3. CASE /\ jobs[j].status = "QUEUED"
               /\ jobs'[j].attempts = jobs[j].attempts + 1
      <4>1. jobs'[j].status # "QUEUED"
        BY <1>6, <3>1, <3>3, RowWritten
      <4>2. ASSUME NEW a \in 1..jobs'[j].attempts, a < jobs'[j].attempts
            PROVE  <<j, a>> \in happened["retries_total"]
        <5>1. a \in 1..jobs[j].attempts /\ (a < jobs[j].attempts \/ a = jobs[j].attempts)
          BY <3>1, <3>3, <4>2
        <5>2. QED
          BY <3>1, <3>3, <5>1 DEF AttemptsNoted
      <4>3. QED
        BY <1>1, <4>1, <4>2 DEF AttemptsNoted
    <3>4. QED
      BY <1>6, <3>2, <3>3, RowWritten
  <2>4. \A pair \in happened'["retries_total"] : Closed(pair)'
    BY <1>1, <2>1, <2>2
  <2>5. QED
    BY <1>1, <1>3, <2>3, <2>4 DEF RetriesNoted
<1>7. QED
  BY <1>4, <1>5, <1>6

LEMMA HappensOf ==
    /\ Happens("success_total") = Become("SUCCEEDED")
    /\ Happens("fail_total") = Become("FAILED")
    /\ Happens("retries_total") = Requeued
    /\ {"success_total", "fail_total", "retries_total"} = Keys
BY DEF Happens, Keys

LEMMA NotedAlways == MetricsSpec => []Noted
<1>1. KeptInv /\ KeptInv' /\ MetricsTypeOK /\ Noted /\ [MetricsNext]_metricsVars => Noted'
  <2> SUFFICES ASSUME KeptInv, KeptInv', MetricsTypeOK, Noted, [MetricsNext]_metricsVars
               PROVE  Noted'
    OBVIOUS
  <2>1. OutcomeNoted("success_total", "SUCCEEDED")'
    BY OutcomeNotedStep, HappensOf DEF Noted
  <2>2. OutcomeNoted("fail_total", "FAILED")'
    BY OutcomeNotedStep, HappensOf DEF Noted
  <2>3. RetriesNoted'
    BY RetriesNotedStep DEF Noted
  <2>4. QED
    BY <2>1, <2>2, <2>3 DEF Noted
<1>2. MetricsInit => Noted
  <2> SUFFICES ASSUME MetricsInit PROVE Noted
    OBVIOUS
  <2>1. \A key \in Keys : happened[key] = {}
    BY DEF MetricsInit
  <2>2. \A j \in Jobs : jobs[j].status = "ABSENT" /\ jobs[j].attempts = 0
    BY DEF MetricsInit, Init, RepoInit, NoRow
  <2>3. QED
    BY <2>1, <2>2, HappensOf, FS_EmptySet DEF Noted, OutcomeNoted, HasStatus, RetriesNoted,
       AttemptsNoted
<1>3. QED
  BY <1>1, <1>2, KeptInvAlways, MetricsTypeCorrect, PTL DEF MetricsSpec

-----------------------------------------------------------------------------
(* Retries.                                                                *)

\* The CANCELED rows of no pass: the retry of each was prevented once at most.
Spared ==
    {j \in HasStatus("CANCELED") : ~((Dispatching \/ Reconciling) /\ Listed(j))}

LEMMA SparedGrows ==
    ASSUME KeptInv, [Next]_vars \/ Still
    PROVE  Spared \subseteq Spared'
<1>1. CASE Still
  BY <1>1 DEF Still, Spared, HasStatus, Dispatching, Reconciling, Listed
<1>2. CASE [Next]_vars
  <2>1. ASSUME NEW j \in Spared
        PROVE  /\ j \in Jobs /\ jobs'[j].status = "CANCELED"
               /\ ~(Dispatching /\ Listed(j))' /\ ~(Reconciling /\ Listed(j))'
    <3>1. /\ j \in Jobs /\ jobs[j].status = "CANCELED"
          /\ ~(Dispatching /\ Listed(j)) /\ ~(Reconciling /\ Listed(j))
      BY DEF Spared, HasStatus
    <3>2. jobs'[j].status = "CANCELED" /\ ~(Dispatching /\ Listed(j))'
      BY <1>2, <3>1, ClosedStays DEF KeptInv, Terminal
    <3>3. ~(Reconciling /\ Listed(j))'
      BY <1>2, <3>1, ComesListed DEF KeptInv
    <3>4. QED
      BY <3>1, <3>2, <3>3
  <2>2. QED
    BY <2>1 DEF Spared, HasStatus
<1>3. QED
  BY <1>1, <1>2

\* A retry that is recorded requeues an attempt or finds its row CANCELED.
LEMMA RetryRecorded ==
    ASSUME KeptInv, RetriesNoted, SchedulerRuns, TakesRetry
    PROVE  \/ \E x : x \in Requeued /\ x \notin happened["retries_total"]
           \/ \E j : j \in Spared' /\ j \notin Spared
<1>1. pc = "judge" /\ observed = "failed" /\ ~IsTimedOut(work[1]) /\ RetriesLeft(work[1])
  BY DEF TakesRetry
<1>2. Requeue
  BY <1>1 DEF SchedulerRuns, SchedulerStep, Dispatch, Reconcile, Restart,
     ListCandidates, EndDispatch, SkipOverQuota, Admit, Picks, FindExisting,
     BuildManifest, ManifestRaises, CreateJobObject, CreateConflicts, CreateFails,
     RejectJob, MarkRunning, SkipStateChanged, ScanRunning, Probe, TimesOut,
     FailMissing, Succeed, LeaveRunning, FailForGood, DeleteTimedOut, ExpireJob, Judges
<1>3. HasCurrent /\ Reconciling
  BY <1>1 DEF HasCurrent, Reconciling
<1>4. Watched(work[1]) /\ Current \in Jobs /\ work # <<>>
  BY <1>3, HeadOfPass, CurrentIsJob DEF KeptInv, HistoryInv
<1>5. 1 \in DOMAIN work
  BY <1>4, WorkTypes, EmptySeq DEF KeptInv
<1>6. jobs \in [Jobs -> Row]
  BY DEF KeptInv, TypeInv, SystemInv, RepoTypeOK, IsTable
<1>7. CASE jobs[Current].status = "RUNNING"
  <2>1. jobs'[Current].status = "QUEUED"
    BY <1>2, <1>4, <1>6, <1>7 DEF Requeue, MarkJobForRetry, MarksFromRunning, Row
  <2>2. <<Current, jobs[Current].attempts>> \in Requeued
    BY <1>4, <1>7, <2>1 DEF Requeued
  <2>3. QED
    BY <1>4, <1>7, <2>2, RequeuedIsNew
<1>8. CASE jobs[Current].status # "RUNNING"
  <2>1. jobs[Current].status = "CANCELED"
    BY <1>4, <1>8 DEF Watched, Current
  <2>2. jobs' = jobs
    BY <1>2, <1>8 DEF Requeue, MarkJobForRetry, MarksFromRunning
  <2>3. \A i \in DOMAIN work' : work'[i].job # Current
    BY <1>2, <1>4, WorkTypes, TailElements DEF Requeue, Judges, NextRunning, KeptInv,
       HistoryInv, PassInv, OneEach, Current
  <2>4. Current \notin Spared
    BY <1>3, <1>5 DEF Spared, Listed, Current
  <2>5. PICK j : j = Current
    OBVIOUS
  <2>6. j \in Spared'
    BY <1>4, <2>1, <2>2, <2>3, <2>5 DEF Spared, HasStatus, Listed
  <2>7. QED
    BY <2>4, <2>5, <2>6
<1>9. QED
  BY <1>7, <1>8

\* No row loses an attempt, so the total of the retries never goes down.
LEMMA RetryPairsGrow ==
    ASSUME KeptInv, KeptInv', [Next]_vars \/ Still
    PROVE  /\ RetryPairs(Attempts) \subseteq RetryPairs(Attempts')
           /\ IsFiniteSet(RetryPairs(Attempts'))
           /\ Retries' = Cardinality(RetryPairs(Attempts'))
           /\ Retries' \in Nat
           /\ Retries <= Retries'
<1>1. /\ Attempts \in [Jobs -> Nat] /\ Attempts' \in [Jobs -> Nat]
      /\ Retries = Cardinality(RetryPairs(Attempts))
      /\ Retries' = Cardinality(RetryPairs(Attempts'))
      /\ IsFiniteSet(RetryPairs(Attempts'))
  <2>1. Attempts \in [Jobs -> Nat] /\ Retries = Cardinality(RetryPairs(Attempts))
    BY RetriesType DEF KeptInv
  <2>2. Attempts' \in [Jobs -> Nat]
    BY DEF KeptInv, TypeInv, SystemInv, RepoTypeOK, IsTable, Row, Attempts
  <2>3. \A j \in Jobs : Attempts'[j] = jobs'[j].attempts
    BY DEF Attempts
  <2>4. Retries' = Cardinality(RetryPairs(Attempts'))
    BY <2>3 DEF Retries, RetryPairs
  <2>5. QED
    BY <2>1, <2>2, <2>4, PairsCountable
<1>2. \A j \in Jobs : Attempts[j] <= Attempts'[j]
  <2>1. \A j \in Jobs : jobs[j].attempts \in Nat
    BY ObjectTypes DEF KeptInv
  <2>2. CASE [Next]_vars
    BY <2>1, <2>2, RowWritten DEF Attempts
  <2>3. CASE Still
    BY <2>1, <2>3 DEF Still, Attempts
  <2>4. QED
    BY <2>2, <2>3
<1>3. \A j \in Jobs : 1..Attempts[j] - 1 \subseteq 1..Attempts'[j] - 1
  BY <1>1, <1>2
<1>4. RetryPairs(Attempts) \subseteq RetryPairs(Attempts')
  BY <1>3 DEF RetryPairs
<1>5. QED
  BY <1>1, <1>4, FS_Subset, PairsCountable

\* Every retry that the table shows happened.
LEMMA RetriesHappened ==
    ASSUME TypeInv, RetriesNoted
    PROVE  /\ RetryPairs(Attempts) \subseteq happened["retries_total"]
           /\ Retries <= Cardinality(happened["retries_total"])
<1>1. ASSUME NEW pair \in RetryPairs(Attempts) PROVE pair \in happened["retries_total"]
  <2>1. PICK j \in Jobs : pair \in {j} \X (1..Attempts[j] - 1)
    BY DEF RetryPairs
  <2>2. PICK a \in 1..Attempts[j] - 1 : pair = <<j, a>>
    BY <2>1
  <2>3. jobs[j].attempts \in Nat /\ Attempts[j] = jobs[j].attempts
    BY ObjectTypes DEF Attempts
  <2>4. a \in 1..jobs[j].attempts /\ a < jobs[j].attempts
    BY <2>2, <2>3
  <2>5. QED
    BY <2>2, <2>4 DEF RetriesNoted, AttemptsNoted
<1>2. QED
  BY <1>1, RetriesType, FS_Subset DEF RetriesNoted

-----------------------------------------------------------------------------
(* The arithmetic of a counter c, last synced with the total s, when the   *)
(* members of T make the total and those of C happened.                    *)

Tally(c, s, C, T) ==
    /\ c <= 2 * Cardinality(C)
    /\ c <= s + Cardinality(C \ T) + Cardinality(C)

\* A bound that grows bounds what it did, a new
\* element pays for one event, and a sync is paid for by the total itself.
LEMMA TallyGrows ==
    ASSUME NEW C, NEW T, NEW D, NEW U, IsFiniteSet(C), IsFiniteSet(D),
           C \subseteq D, C \ T \subseteq D \ U,
           NEW c \in Nat, NEW s \in Nat, Tally(c, s, C, T)
    PROVE  /\ Tally(c, s, D, U)
           /\ (\E x : x \in D /\ x \notin C) => Tally(c + 1, s, D, U)
<1>1. /\ IsFiniteSet(C \ T) /\ IsFiniteSet(D \ U)
      /\ Cardinality(C) \in Nat /\ Cardinality(D) \in Nat
      /\ Cardinality(C \ T) \in Nat /\ Cardinality(D \ U) \in Nat
  BY FS_Difference, FS_CardinalityType
<1>2. Cardinality(C) <= Cardinality(D) /\ Cardinality(C \ T) <= Cardinality(D \ U)
  BY <1>1, FS_Subset
<1>3. ASSUME NEW x, x \in D, x \notin C PROVE Cardinality(C) + 1 <= Cardinality(D)
  <2>1. C \cup {x} \subseteq D
    BY <1>3
  <2>2. Cardinality(C \cup {x}) = Cardinality(C) + 1
    BY <1>3, FS_AddElement
  <2>3. Cardinality(C \cup {x}) <= Cardinality(D)
    BY <2>1, FS_Subset
  <2>4. QED
    BY <2>2, <2>3
<1>4. QED
  BY <1>1, <1>2, <1>3 DEF Tally

LEMMA TallySynced ==
    ASSUME NEW C, NEW T, IsFiniteSet(C), T \subseteq C,
           NEW c \in Nat, NEW s \in Nat, Tally(c, s, C, T)
    PROVE  Tally(c + Growth(Cardinality(T), s), Cardinality(T), C, T)
<1>1. /\ IsFiniteSet(T) /\ C \cap T = T
      /\ Cardinality(C) \in Nat /\ Cardinality(T) \in Nat
  BY FS_Subset, FS_CardinalityType
<1>2. Cardinality(C \ T) = Cardinality(C) - Cardinality(T)
  BY <1>1, FS_Difference
<1>3. QED
  BY <1>1, <1>2 DEF Tally, Growth

-----------------------------------------------------------------------------
(* The counters of the scheduler.                                          *)

Counter(key) == counters["scheduler"][key]

LastTotal(key) == synced["scheduler"][key]

StatusTally(key, s) ==
    Tally(Counter(key), LastTotal(key), happened[key], HasStatus(s))

RetryTally ==
    /\ LastTotal("retries_total") <= Retries
    /\ Counter("retries_total") <= LastTotal("retries_total")
          + Cardinality(happened["retries_total"]) + Cardinality(Spared)

Tallies ==
    /\ StatusTally("success_total", "SUCCEEDED")
    /\ StatusTally("fail_total", "FAILED")
    /\ RetryTally

CounterTypes ==
    \A key \in Keys : Counter(key) \in Nat /\ LastTotal(key) \in Nat

\* What a step does to them, and to the system beside them.
Idles ==
    \A key \in Keys : Counter(key)' = Counter(key) /\ LastTotal(key)' = LastTotal(key)

Restarts == \A key \in Keys : Counter(key)' = 0 /\ LastTotal(key)' = 0

CountsEvents ==
    /\ SchedulerRuns
    /\ \A key \in Keys :
          /\ Counter(key)' = IF Recorded(key) THEN Counter(key) + 1 ELSE Counter(key)
          /\ LastTotal(key)' = LastTotal(key)

CatchesUp ==
    /\ UNCHANGED <<vars, happened>>
    /\ \A key \in Keys :
          /\ Counter(key)' = Counter(key) + Growth(ReliabilityTotals[key], LastTotal(key))
          /\ LastTotal(key)' = ReliabilityTotals[key]

LEMMA SchedulerCounts ==
    ASSUME TypeInv, MetricsTypeOK, [MetricsNext]_metricsVars
    PROVE  CounterTypes /\ (Idles \/ Restarts \/ CountsEvents \/ CatchesUp)
<1>1. /\ counters \in [Processes -> Totals] /\ synced \in [Processes -> Totals]
      /\ "scheduler" \in Processes /\ "api" \in Processes /\ "scheduler" # "api"
  BY DEF MetricsTypeOK, Processes
<1>2. CounterTypes
  BY <1>1 DEF CounterTypes, Counter, LastTotal, Totals
<1>3. ASSUME SchedulerSyncs PROVE CatchesUp
  BY <1>1, <1>3 DEF SchedulerSyncs, Sync, CatchesUp, Counter, LastTotal, historyVars
<1>4. ASSUME Forgets("scheduler") PROVE Restarts
  BY <1>1, <1>4 DEF Forgets, NoTotals, Restarts, Counter, LastTotal
<1>5. ASSUME SchedulerActs, ~Forgets("scheduler") PROVE CountsEvents
  <2>1. /\ SchedulerRuns
        /\ counters' = [counters EXCEPT !["scheduler"] =
               [key \in Keys |-> counters["scheduler"][key] +
                                 IF Recorded(key) THEN 1 ELSE 0]]
        /\ UNCHANGED synced
    BY <1>5 DEF SchedulerActs
  <2>2. \A key \in Keys : Counter(key)' = Counter(key) + IF Recorded(key) THEN 1 ELSE 0
    BY <1>1, <2>1 DEF Counter
  <2>3. \A key \in Keys :
          Counter(key)' = IF Recorded(key) THEN Counter(key) + 1 ELSE Counter(key)
    BY <1>2, <2>2 DEF CounterTypes
  <2>4. QED
    BY <2>1, <2>3 DEF CountsEvents, LastTotal
<1>6. ASSUME NEW s \in Scrapers, ScrapeReads(s) \/ ScrapeSyncs(s) PROVE Idles
  BY <1>1, <1>6 DEF ScrapeReads, ScrapeSyncs, Sync, Idles, Counter, LastTotal, registryVars
<1>7. ASSUME ApiDies PROVE Idles
  BY <1>1, <1>7 DEF ApiDies, Forgets, Idles, Counter, LastTotal
<1>8. ASSUME Elsewhere \/ UNCHANGED metricsVars PROVE Idles
  BY <1>8 DEF Elsewhere, metricsVars, registryVars, Idles, Counter, LastTotal
<1>9. SchedulerDies => Forgets("scheduler")
  BY DEF SchedulerDies
<1>10. QED
  BY <1>2, <1>3, <1>4, <1>5, <1>6, <1>7, <1>8, <1>9 DEF MetricsNext

\* The totals a sync reads.
LEMMA TotalsRead ==
    /\ ReliabilityTotals["success_total"] = Cardinality(HasStatus("SUCCEEDED"))
    /\ ReliabilityTotals["fail_total"] = Cardinality(HasStatus("FAILED"))
    /\ ReliabilityTotals["retries_total"] = Retries
BY DEF ReliabilityTotals, Keys


LEMMA StatusTallyStep ==
    ASSUME KeptInv, KeptInv', Noted, Noted', MetricsTypeOK,
           [MetricsNext]_metricsVars, NEW key \in Keys, NEW s \in {"SUCCEEDED", "FAILED"},
           \/ key = "success_total" /\ s = "SUCCEEDED"
           \/ key = "fail_total" /\ s = "FAILED",
           StatusTally(key, s)
    PROVE  StatusTally(key, s)'
<1>1. CounterTypes /\ (Idles \/ Restarts \/ CountsEvents \/ CatchesUp)
  BY SchedulerCounts DEF KeptInv
<1>2. Counter(key) \in Nat /\ LastTotal(key) \in Nat
  BY <1>1 DEF CounterTypes
<1>3. OutcomeNoted(key, s) /\ OutcomeNoted(key, s)' /\ Happens(key) = Become(s)
  BY HappensOf DEF Noted
<1>4. /\ happened[key] \in SUBSET Jobs /\ happened'[key] \in SUBSET Jobs
      /\ HasStatus(s) \subseteq happened[key]
  BY <1>3 DEF OutcomeNoted, Settled, HasStatus
<1>5. /\ IsFiniteSet(happened[key]) /\ IsFiniteSet(happened'[key])
      /\ Cardinality(happened'[key]) \in Nat
      /\ Cardinality(happened'[key] \ HasStatus(s)') \in Nat
  BY <1>4, JobsCountable
<1>6. /\ happened[key] \subseteq happened'[key]
      /\ happened[key] \ HasStatus(s) \subseteq happened'[key] \ HasStatus(s)'
      /\ Become(s) # {} => \E x : x \in happened'[key] /\ x \notin happened[key]
  BY <1>3, OutcomeNotedStep
<1>7. /\ ReliabilityTotals[key] = Cardinality(HasStatus(s))
      /\ Recorded(key) <=> Become(s) # {}
  BY <1>3, TotalsRead DEF Recorded
<1>8. Tally(Counter(key), LastTotal(key), happened[key], HasStatus(s))
  BY DEF StatusTally
<1>9. /\ Tally(Counter(key), LastTotal(key), happened'[key], HasStatus(s)')
      /\ Become(s) # {} => Tally(Counter(key) + 1, LastTotal(key), happened'[key], HasStatus(s)')
  BY <1>2, <1>5, <1>6, <1>8, TallyGrows
<1> SUFFICES Tally(Counter(key)', LastTotal(key)', happened'[key], HasStatus(s)')
  BY DEF StatusTally, Tally
<1>10. CASE Idles
  <2>1. Counter(key)' = Counter(key) /\ LastTotal(key)' = LastTotal(key)
    BY <1>10 DEF Idles
  <2>2. QED
    BY <1>9, <2>1
<1>11. CASE Restarts
  BY <1>5, <1>11 DEF Restarts, Tally
<1>12. CASE CountsEvents
  <2>1. /\ Counter(key)' = IF Recorded(key) THEN Counter(key) + 1 ELSE Counter(key)
        /\ LastTotal(key)' = LastTotal(key)
    BY <1>12 DEF CountsEvents
  <2>2. QED
    BY <1>7, <1>9, <2>1
<1>13. CASE CatchesUp
  <2>1. happened' = happened /\ HasStatus(s)' = HasStatus(s)
    BY <1>13 DEF CatchesUp, vars, systemVars, repoVars, HasStatus
  <2>2. Tally(Counter(key) + Growth(Cardinality(HasStatus(s)), LastTotal(key)),
              Cardinality(HasStatus(s)), happened[key], HasStatus(s))
    BY <1>2, <1>4, <1>5, <1>8, TallySynced
  <2>3. /\ Counter(key)' = Counter(key) + Growth(Cardinality(HasStatus(s)), LastTotal(key))
        /\ LastTotal(key)' = Cardinality(HasStatus(s))
    BY <1>7, <1>13 DEF CatchesUp
  <2>4. QED
    BY <2>1, <2>2, <2>3
<1>14. QED
  BY <1>1, <1>10, <1>11, <1>12, <1>13

LEMMA RetryTallyStep ==
    ASSUME KeptInv, KeptInv', Noted, Noted', MetricsTypeOK,
           [MetricsNext]_metricsVars, RetryTally
    PROVE  RetryTally'
<1> DEFINE c == Counter("retries_total")
           s == LastTotal("retries_total")
           R == happened["retries_total"]
<1>1. /\ CounterTypes /\ "retries_total" \in Keys
      /\ Idles \/ Restarts \/ CountsEvents \/ CatchesUp
  BY SchedulerCounts DEF KeptInv, Keys
<1>2. c \in Nat /\ s \in Nat
  BY <1>1 DEF CounterTypes
<1>3. [Next]_vars \/ Still
  BY SystemMoves, ForgettingIsStill DEF KeptInv
<1>4. /\ IsFiniteSet(R) /\ IsFiniteSet(R') /\ R \subseteq R'
      /\ R' = R \cup Requeued
  BY RetriesNotedStep, AllRemembered, HappensOf DEF Noted, RetriesNoted, KeptInv
<1>5. /\ IsFiniteSet(Spared) /\ IsFiniteSet(Spared') /\ Spared \subseteq Spared'
  <2>1. Spared \in SUBSET Jobs /\ Spared' \in SUBSET Jobs
    BY DEF Spared, HasStatus
  <2>2. QED
    BY <1>3, <2>1, JobsCountable, SparedGrows
<1>6. /\ Cardinality(R) \in Nat /\ Cardinality(R') \in Nat
      /\ Cardinality(Spared) \in Nat /\ Cardinality(Spared') \in Nat
      /\ Cardinality(R) <= Cardinality(R')
      /\ Cardinality(Spared) <= Cardinality(Spared')
  BY <1>4, <1>5, FS_CardinalityType, FS_Subset
<1>7. Retries \in Nat /\ Retries' \in Nat /\ Retries <= Retries'
  BY <1>3, RetryPairsGrow, RetriesType DEF KeptInv
<1>8. s <= Retries /\ c <= s + Cardinality(R) + Cardinality(Spared)
  BY DEF RetryTally
<1> SUFFICES s' <= Retries' /\ c' <= s' + Cardinality(R') + Cardinality(Spared')
  BY DEF RetryTally
<1>9. CASE Idles
  <2>1. c' = c /\ s' = s
    BY <1>1, <1>9 DEF Idles
  <2>2. QED
    BY <1>2, <1>6, <1>7, <1>8, <2>1
<1>10. CASE Restarts
  BY <1>1, <1>6, <1>7, <1>10 DEF Restarts
<1>11. CASE CountsEvents
  <2>1. /\ c' = IF TakesRetry THEN c + 1 ELSE c
        /\ s' = s /\ SchedulerRuns
    BY <1>1, <1>11 DEF CountsEvents, Recorded
  <2>2. ASSUME TakesRetry
        PROVE  \/ Cardinality(R) + 1 <= Cardinality(R')
               \/ Cardinality(Spared) + 1 <= Cardinality(Spared')
    <3>1. CASE \E x : x \in Requeued /\ x \notin R
      <4>1. PICK x : x \in Requeued /\ x \notin R
        BY <3>1
      <4>2. R \cup {x} \subseteq R'
        BY <1>4, <4>1
      <4>3. Cardinality(R \cup {x}) = Cardinality(R) + 1
        BY <1>4, <4>1, FS_AddElement
      <4>4. QED
        BY <1>4, <4>2, <4>3, FS_Subset
    <3>2. CASE \E j : j \in Spared' /\ j \notin Spared
      <4>1. PICK j : j \in Spared' /\ j \notin Spared
        BY <3>2
      <4>2. Spared \cup {j} \subseteq Spared'
        BY <1>5, <4>1
      <4>3. Cardinality(Spared \cup {j}) = Cardinality(Spared) + 1
        BY <1>5, <4>1, FS_AddElement
      <4>4. QED
        BY <1>5, <4>2, <4>3, FS_Subset
    <3>3. QED
      BY <2>1, <2>2, <3>1, <3>2, RetryRecorded DEF Noted
  <2>3. QED
    BY <1>2, <1>6, <1>7, <1>8, <2>1, <2>2
<1>12. CASE CatchesUp
  <2>1. Retries' = Retries
    BY <1>12 DEF CatchesUp, vars, systemVars, repoVars, Retries
  <2>2. c' = c + Growth(Retries, s) /\ s' = Retries
    BY <1>1, <1>12, TotalsRead DEF CatchesUp
  <2>3. Growth(Retries, s) = Retries - s
    BY <1>2, <1>7, <1>8 DEF Growth
  <2>4. QED
    BY <1>2, <1>6, <1>7, <1>8, <2>1, <2>2, <2>3
<1>13. QED
  BY <1>1, <1>9, <1>10, <1>11, <1>12

LEMMA TalliesAlways == MetricsSpec => []Tallies
<1>1. KeptInv /\ KeptInv' /\ Noted /\ Noted' /\ MetricsTypeOK
         /\ Tallies /\ [MetricsNext]_metricsVars => Tallies'
  <2> SUFFICES ASSUME KeptInv, KeptInv', Noted, Noted', MetricsTypeOK,
                      Tallies, [MetricsNext]_metricsVars
               PROVE  Tallies'
    OBVIOUS
  <2>1. StatusTally("success_total", "SUCCEEDED")'
    BY StatusTallyStep, HappensOf DEF Tallies
  <2>2. StatusTally("fail_total", "FAILED")'
    BY StatusTallyStep, HappensOf DEF Tallies
  <2>3. RetryTally'
    BY RetryTallyStep DEF Tallies
  <2>4. QED
    BY <2>1, <2>2, <2>3 DEF Tallies
<1>2. MetricsInit => Tallies
  <2> SUFFICES ASSUME MetricsInit PROVE Tallies
    OBVIOUS
  <2>1. \A key \in Keys : /\ Counter(key) = 0 /\ LastTotal(key) = 0
                          /\ happened[key] = {}
    BY DEF MetricsInit, Processes, NoTotals, Counter, LastTotal
  <2>2. /\ IsFiniteSet({}) /\ Cardinality({}) = 0
        /\ \A s : {} \ HasStatus(s) = {}
    BY FS_EmptySet
  <2>3. /\ StatusTally("success_total", "SUCCEEDED")
        /\ StatusTally("fail_total", "FAILED")
    BY <2>1, <2>2, HappensOf DEF StatusTally, Tally
  <2>4. Retries \in Nat
    BY TypeInvInit, RetriesType DEF MetricsInit
  <2>5. Spared \in SUBSET Jobs
    BY DEF Spared, HasStatus
  <2>6. Cardinality(Spared) \in Nat
    BY <2>5, JobsCountable
  <2>7. RetryTally
    BY <2>1, <2>2, <2>4, <2>6, HappensOf DEF RetryTally
  <2>8. QED
    BY <2>3, <2>7 DEF Tallies
<1>3. QED
  BY <1>1, <1>2, KeptInvAlways, NotedAlways, MetricsTypeCorrect, PTL DEF MetricsSpec

\* No counter of the scheduler exceeds twice what happened, but for the
\* retries that a cancel prevented: an outcome is counted once as the row is
\* written and a requeue once as it is decided, and what a sync adds is in the
\* total it then remembers.
THEOREM CountsTwiceAtMost == MetricsSpec => []CountedAtMostTwice
<1>1. KeptInv /\ Noted /\ MetricsTypeOK /\ Tallies => CountedAtMostTwice
  <2> SUFFICES ASSUME KeptInv, Noted, MetricsTypeOK, Tallies, NEW key \in Keys
               PROVE  Counter(key) <= 2 * Cardinality(happened[key]) + Prevented(key)
    BY DEF CountedAtMostTwice, Counter
  <2>1. Counter(key) \in Nat /\ LastTotal(key) \in Nat
    BY DEF MetricsTypeOK, Processes, Totals, Counter, LastTotal
  <2>2. CASE key # "retries_total"
    <3>1. PICK s : StatusTally(key, s)
      BY <2>2 DEF Tallies, Keys
    <3>2. happened[key] \in SUBSET Jobs
      BY <2>2 DEF Noted, OutcomeNoted, Settled, HasStatus, Keys
    <3>3. Cardinality(happened[key]) \in Nat
      BY <3>2, JobsCountable
    <3>4. Prevented(key) = 0
      BY <2>2 DEF Prevented
    <3>5. QED
      BY <2>1, <3>1, <3>3, <3>4 DEF StatusTally, Tally
  <2>3. CASE key = "retries_total"
    <3>1. Retries \in Nat /\ Retries <= Cardinality(happened[key])
      BY <2>3, RetriesType, RetriesHappened DEF KeptInv, Noted
    <3>2. Cardinality(happened[key]) \in Nat
      BY <2>3, FS_CardinalityType DEF Noted, RetriesNoted
    <3>3. /\ Spared \in SUBSET Jobs /\ HasStatus("CANCELED") \in SUBSET Jobs
          /\ Spared \subseteq HasStatus("CANCELED")
      BY DEF Spared, HasStatus
    <3>4. /\ Cardinality(Spared) \in Nat /\ Prevented(key) \in Nat
          /\ Cardinality(Spared) <= Prevented(key)
      BY <2>3, <3>3, JobsCountable, FS_Subset DEF Prevented
    <3>5. /\ LastTotal(key) <= Retries
          /\ Counter(key) <= LastTotal(key) + Cardinality(happened[key]) + Cardinality(Spared)
      BY <2>3 DEF Tallies, RetryTally
    <3>6. QED
      BY <2>1, <3>1, <3>2, <3>4, <3>5
  <2>4. QED
    BY <2>2, <2>3
<1>2. QED
  BY <1>1, KeptInvAlways, NotedAlways, MetricsTypeCorrect, TalliesAlways, PTL

-----------------------------------------------------------------------------
(* The counters of the API, which only syncs advance.                      *)

\* What makes a total, and what bounds it from above for good.
Shown(key) ==
    CASE key = "success_total" -> HasStatus("SUCCEEDED")
      [] key = "fail_total" -> HasStatus("FAILED")
      [] key = "retries_total" -> RetryPairs(Attempts)

Bound(key) == IF key = "retries_total" THEN RetryPairs(Attempts) ELSE happened[key]

LEMMA ShownCounted ==
    ASSUME KeptInv, Noted, NEW key \in Keys
    PROVE  /\ IsFiniteSet(Bound(key)) /\ Shown(key) \subseteq Bound(key)
           /\ ReliabilityTotals[key] = Cardinality(Shown(key))
           /\ Cardinality(Bound(key)) <= Cardinality(happened[key])
           /\ Cardinality(Bound(key)) \in Nat /\ Cardinality(happened[key]) \in Nat
<1>1. CASE key = "retries_total"
  <2>1. RetryPairs(Attempts) \subseteq happened[key] /\ IsFiniteSet(happened[key])
    BY <1>1, RetriesHappened DEF KeptInv, Noted, RetriesNoted
  <2>2. QED
    BY <1>1, <2>1, RetriesType, TotalsRead, FS_Subset, FS_CardinalityType
       DEF KeptInv, Shown, Bound
<1>2. ASSUME NEW s, OutcomeNoted(key, s), key # "retries_total", Shown(key) = HasStatus(s),
             ReliabilityTotals[key] = Cardinality(HasStatus(s))
      PROVE  /\ IsFiniteSet(Bound(key)) /\ Shown(key) \subseteq Bound(key)
             /\ ReliabilityTotals[key] = Cardinality(Shown(key))
             /\ Cardinality(Bound(key)) <= Cardinality(happened[key])
             /\ Cardinality(Bound(key)) \in Nat /\ Cardinality(happened[key]) \in Nat
  <2>1. happened[key] \in SUBSET Jobs /\ HasStatus(s) \subseteq happened[key]
    BY <1>2 DEF OutcomeNoted, Settled, HasStatus
  <2>2. IsFiniteSet(happened[key]) /\ Cardinality(happened[key]) \in Nat
    BY <2>1, JobsCountable
  <2>3. QED
    BY <1>2, <2>1, <2>2 DEF Bound
<1>3. CASE key = "success_total"
  BY <1>2, <1>3, TotalsRead DEF Noted, Shown
<1>4. CASE key = "fail_total"
  BY <1>2, <1>4, TotalsRead DEF Noted, Shown
<1>5. QED
  BY <1>1, <1>3, <1>4 DEF Keys

LEMMA BoundGrows ==
    ASSUME KeptInv, KeptInv', Noted, MetricsTypeOK, [MetricsNext]_metricsVars,
           NEW key \in Keys
    PROVE  /\ Bound(key) \subseteq Bound(key)'
           /\ Bound(key) \ Shown(key) \subseteq Bound(key)' \ Shown(key)'
<1>1. CASE key = "retries_total"
  <2>1. RetryPairs(Attempts) \subseteq RetryPairs(Attempts')
    BY RetryPairsGrow, SystemMoves, ForgettingIsStill DEF KeptInv
  <2>2. Bound(key) = RetryPairs(Attempts) /\ Shown(key) = RetryPairs(Attempts)
    BY <1>1 DEF Bound, Shown
  <2>3. Bound(key)' = RetryPairs(Attempts')
    BY <1>1 DEF Bound, RetryPairs
  <2>4. QED
    BY <2>1, <2>2, <2>3
<1>2. CASE key = "success_total"
  BY <1>2, OutcomeNotedStep, HappensOf DEF Noted, Bound, Shown
<1>3. CASE key = "fail_total"
  BY <1>3, OutcomeNotedStep, HappensOf DEF Noted, Bound, Shown
<1>4. QED
  BY <1>1, <1>2, <1>3 DEF Keys

\* A counter c, last synced with s, may take up the total of T, and one that
\* has been read, t, once.
Synced(c, s, C, T) ==
    /\ c <= Cardinality(C)
    /\ c <= s + Cardinality(C \ T)

Pending(c, s, t, C, T) ==
    /\ c + Growth(t, s) <= Cardinality(C)
    /\ c <= t + Cardinality(C \ T)

LEMMA SyncedGrows ==
    ASSUME NEW C, NEW T, NEW D, NEW U, IsFiniteSet(D), C \subseteq D, C \ T \subseteq D \ U,
           NEW c \in Nat, NEW s \in Nat, NEW t \in Nat
    PROVE  /\ Synced(c, s, C, T) => Synced(c, s, D, U)
           /\ Pending(c, s, t, C, T) => Pending(c, s, t, D, U)
<1>1. IsFiniteSet(C) /\ IsFiniteSet(D \ U) /\ IsFiniteSet(C \ T)
  BY FS_Subset, FS_Difference
<1>2. /\ Cardinality(C) <= Cardinality(D) /\ Cardinality(C \ T) <= Cardinality(D \ U)
      /\ Cardinality(C) \in Nat /\ Cardinality(D) \in Nat
      /\ Cardinality(C \ T) \in Nat /\ Cardinality(D \ U) \in Nat
  BY <1>1, FS_Subset, FS_CardinalityType
<1>3. Growth(t, s) \in Nat
  BY GrowthType
<1>4. QED
  BY <1>2, <1>3 DEF Synced, Pending

LEMMA PendingRead ==
    ASSUME NEW C, NEW T, IsFiniteSet(C), T \subseteq C,
           NEW c \in Nat, NEW s \in Nat, Synced(c, s, C, T)
    PROVE  Pending(c, s, Cardinality(T), C, T)
<1>1. /\ IsFiniteSet(T) /\ C \cap T = T
      /\ Cardinality(C) \in Nat /\ Cardinality(T) \in Nat
  BY FS_Subset, FS_CardinalityType
<1>2. Cardinality(C \ T) = Cardinality(C) - Cardinality(T)
  BY <1>1, FS_Difference
<1>3. QED
  BY <1>1, <1>2 DEF Synced, Pending, Growth

LEMMA PendingSynced ==
    ASSUME NEW C, NEW T, IsFiniteSet(C), NEW c \in Nat, NEW s \in Nat, NEW t \in Nat,
           Synced(c, s, C, T), Pending(c, s, t, C, T)
    PROVE  Synced(c + Growth(t, s), t, C, T)
<1>1. Cardinality(C) \in Nat /\ Cardinality(C \ T) \in Nat
  BY FS_Difference, FS_CardinalityType
<1>2. QED
  BY <1>1 DEF Synced, Pending, Growth

Exported(key) == counters["api"][key]

LastSync(key) == synced["api"][key]

\* While scrapes do not overlap.
ScrapeTally(key) ==
    /\ Synced(Exported(key), LastSync(key), Bound(key), Shown(key))
    /\ \A s \in Scrapers : scrapes[s] # Null =>
          Pending(Exported(key), LastSync(key), scrapes[s][key], Bound(key), Shown(key))

OneScrape ==
    \A s \in Scrapers, r \in Scrapers : scrapes[s] # Null /\ scrapes[r] # Null => s = r

ScrapeInv == ~overlapped => OneScrape /\ \A key \in Keys : ScrapeTally(key)

LEMMA ExportTypes ==
    ASSUME MetricsTypeOK
    PROVE  /\ \A key \in Keys : Exported(key) \in Nat /\ LastSync(key) \in Nat
           /\ \A s \in Scrapers : scrapes[s] # Null =>
                 \A key \in Keys : scrapes[s][key] \in Nat
           /\ counters \in [Processes -> Totals] /\ synced \in [Processes -> Totals]
           /\ "api" \in Processes /\ "scheduler" \in Processes
           /\ DOMAIN scrapes = Scrapers
BY DEF MetricsTypeOK, Processes, Totals, Exported, LastSync

\* What a step does to the registry of the API and to its scrapes.
ExportsIdle ==
    /\ \A key \in Keys : Exported(key)' = Exported(key) /\ LastSync(key)' = LastSync(key)
    /\ UNCHANGED <<scrapes, overlapped>>

ExportsRestart ==
    /\ \A key \in Keys : Exported(key)' = 0 /\ LastSync(key)' = 0
    /\ \A s \in Scrapers : scrapes'[s] = Null

LEMMA ExportsMove ==
    ASSUME MetricsTypeOK, [MetricsNext]_metricsVars
    PROVE  \/ ExportsIdle \/ ExportsRestart
           \/ \E s \in Scrapers : ScrapeReads(s) \/ ScrapeSyncs(s)
<1>1. CASE SchedulerSyncs
  BY <1>1, ExportTypes DEF SchedulerSyncs, Sync, ExportsIdle, Exported, LastSync, historyVars
<1>2. CASE SchedulerActs
  BY <1>2, ExportTypes DEF SchedulerActs, Forgets, ExportsIdle, Exported, LastSync
<1>3. CASE SchedulerDies
  BY <1>3, ExportTypes DEF SchedulerDies, Forgets, ExportsIdle, Exported, LastSync,
     historyVars
<1>4. CASE ApiDies
  BY <1>4, ExportTypes DEF ApiDies, Forgets, NoTotals, ExportsRestart, Exported, LastSync
<1>5. CASE Elsewhere \/ UNCHANGED metricsVars
  BY <1>5 DEF Elsewhere, metricsVars, registryVars, historyVars, ExportsIdle, Exported,
     LastSync
<1>6. QED
  BY <1>1, <1>2, <1>3, <1>4, <1>5 DEF MetricsNext

LEMMA ScrapeInvStep ==
    ASSUME KeptInv, KeptInv', Noted, Noted', MetricsTypeOK, MetricsTypeOK',
           [MetricsNext]_metricsVars, ScrapeInv
    PROVE  ScrapeInv'
<1> SUFFICES ASSUME ~overlapped'
             PROVE  OneScrape' /\ \A key \in Keys : ScrapeTally(key)'
  BY DEF ScrapeInv
<1>1. ASSUME NEW key \in Keys
      PROVE  /\ IsFiniteSet(Bound(key)) /\ Shown(key) \subseteq Bound(key)
             /\ IsFiniteSet(Bound(key)')
             /\ Cardinality(Bound(key)') \in Nat
             /\ Cardinality(Bound(key)' \ Shown(key)') \in Nat
             /\ Bound(key) \subseteq Bound(key)'
             /\ Bound(key) \ Shown(key) \subseteq Bound(key)' \ Shown(key)'
             /\ ReliabilityTotals[key] = Cardinality(Shown(key))
  <2>1. IsFiniteSet(Bound(key)')
    <3>1. CASE key = "retries_total"
      <4>1. Bound(key)' = RetryPairs(Attempts')
        BY <3>1 DEF Bound, RetryPairs
      <4>2. QED
        BY <4>1, RetryPairsGrow, SystemMoves, ForgettingIsStill DEF KeptInv
    <3>2. CASE key # "retries_total"
      <4>1. happened'[key] \in SUBSET Jobs
        BY <3>2 DEF Noted, OutcomeNoted, Settled, HasStatus, Keys
      <4>2. Bound(key)' = happened'[key]
        BY <3>2 DEF Bound
      <4>3. QED
        BY <4>1, <4>2, JobsCountable
    <3>3. QED
      BY <3>1, <3>2
  <2>2. QED
    BY <2>1, ShownCounted, BoundGrows, FS_CardinalityType, FS_Difference
<1>2. CASE ExportsRestart
  <2>1. OneScrape'
    BY <1>2 DEF ExportsRestart, OneScrape
  <2>2. ASSUME NEW key \in Keys PROVE ScrapeTally(key)'
    <3>1. \A n \in Nat : 0 <= n /\ 0 <= 0 + n
      OBVIOUS
    <3>2. Exported(key)' = 0 /\ LastSync(key)' = 0 /\ \A s \in Scrapers : scrapes'[s] = Null
      BY <1>2 DEF ExportsRestart
    <3>3. QED
      BY <1>1, <3>1, <3>2 DEF ScrapeTally, Synced
  <2>3. QED
    BY <2>1, <2>2
<1>3. CASE ExportsIdle
  <2>1. /\ scrapes' = scrapes
        /\ OneScrape /\ \A key \in Keys : ScrapeTally(key)
    BY <1>3 DEF ExportsIdle, ScrapeInv
  <2>2. OneScrape'
    BY <2>1 DEF OneScrape
  <2>3. ASSUME NEW key \in Keys PROVE ScrapeTally(key)'
    <3>1. Exported(key)' = Exported(key) /\ LastSync(key)' = LastSync(key)
      BY <1>3 DEF ExportsIdle
    <3>2. Synced(Exported(key), LastSync(key), Bound(key)', Shown(key)')
      BY <1>1, <2>1, ExportTypes, SyncedGrows DEF ScrapeTally
    <3>3. ASSUME NEW s \in Scrapers, scrapes[s] # Null
          PROVE  Pending(Exported(key), LastSync(key), scrapes[s][key],
                         Bound(key)', Shown(key)')
      <4>1. /\ Exported(key) \in Nat /\ LastSync(key) \in Nat /\ scrapes[s][key] \in Nat
            /\ Pending(Exported(key), LastSync(key), scrapes[s][key], Bound(key), Shown(key))
        BY <2>1, <3>3, ExportTypes DEF ScrapeTally
      <4>2. QED
        BY <1>1, <4>1, SyncedGrows
    <3>4. Synced(Exported(key)', LastSync(key)', Bound(key)', Shown(key)')
      BY <3>1, <3>2
    <3>5. \A s \in Scrapers : scrapes'[s] # Null =>
             Pending(Exported(key)', LastSync(key)', scrapes'[s][key],
                     Bound(key)', Shown(key)')
      BY <2>1, <3>1, <3>3
    <3>6. QED
      BY <3>4, <3>5 DEF ScrapeTally, Synced, Pending
  <2>4. QED
    BY <2>2, <2>3
<1>4. ASSUME NEW s \in Scrapers, ScrapeReads(s) \/ ScrapeSyncs(s)
      PROVE  /\ ~overlapped /\ OneScrape
             /\ \A key \in Keys : /\ ScrapeTally(key)
                                  /\ Bound(key)' = Bound(key)
                                  /\ Shown(key)' = Shown(key)
  <2>1. ~overlapped
    BY <1>4 DEF ScrapeReads, ScrapeSyncs, historyVars, MetricsTypeOK
  <2>2. UNCHANGED <<jobs, happened>>
    BY <1>4 DEF ScrapeReads, ScrapeSyncs, historyVars, vars, systemVars, repoVars
  <2>3. QED
    BY <2>1, <2>2 DEF ScrapeInv, Bound, Shown, HasStatus, RetryPairs, Attempts
<1>5. ASSUME NEW s \in Scrapers, ScrapeReads(s)
      PROVE  OneScrape' /\ \A key \in Keys : ScrapeTally(key)'
  <2>1. /\ scrapes' = [scrapes EXCEPT ![s] = ReliabilityTotals]
        /\ scrapes[s] = Null
        /\ \A other \in Scrapers : scrapes[other] = Null
        /\ UNCHANGED registryVars
    BY <1>5 DEF ScrapeReads
  <2>2. OneScrape'
    BY <2>1, ExportTypes DEF OneScrape
  <2>3. ASSUME NEW key \in Keys PROVE ScrapeTally(key)'
    <3>1. Exported(key)' = Exported(key) /\ LastSync(key)' = LastSync(key)
      BY <2>1 DEF registryVars, Exported, LastSync
    <3>2. Synced(Exported(key), LastSync(key), Bound(key), Shown(key))
      BY <1>4, <1>5 DEF ScrapeTally
    <3>3. Pending(Exported(key), LastSync(key), ReliabilityTotals[key], Bound(key), Shown(key))
      <4>1. Exported(key) \in Nat /\ LastSync(key) \in Nat
        BY ExportTypes
      <4>2. IsFiniteSet(Bound(key)) /\ Shown(key) \subseteq Bound(key)
        BY <1>1
      <4>3. Pending(Exported(key), LastSync(key), Cardinality(Shown(key)),
                    Bound(key), Shown(key))
        BY <3>2, <4>1, <4>2, PendingRead
      <4>4. QED
        BY <1>1, <4>3
    <3>4. \A r \in Scrapers : scrapes'[r] # Null => scrapes'[r] = ReliabilityTotals
      BY <2>1, ExportTypes
    <3>5. /\ Synced(Exported(key)', LastSync(key)', Bound(key)', Shown(key)')
          /\ \A r \in Scrapers : scrapes'[r] # Null =>
                Pending(Exported(key)', LastSync(key)', scrapes'[r][key],
                        Bound(key)', Shown(key)')
      BY <1>4, <1>5, <3>1, <3>2, <3>3, <3>4
    <3>6. QED
      BY <3>5 DEF ScrapeTally, Synced, Pending
  <2>4. QED
    BY <2>2, <2>3
<1>6. ASSUME NEW s \in Scrapers, ScrapeSyncs(s)
      PROVE  OneScrape' /\ \A key \in Keys : ScrapeTally(key)'
  <2>1. /\ scrapes' = [scrapes EXCEPT ![s] = Null]
        /\ scrapes[s] # Null
        /\ Sync("api", scrapes[s])
    BY <1>6 DEF ScrapeSyncs
  <2>2. \A r \in Scrapers : scrapes'[r] = Null
    BY <1>4, <1>6, <2>1, ExportTypes DEF OneScrape
  <2>3. OneScrape'
    BY <2>2 DEF OneScrape
  <2>4. ASSUME NEW key \in Keys PROVE ScrapeTally(key)'
    <3>1. PICK t \in Nat : t = scrapes[s][key]
      BY <2>1, ExportTypes
    <3>2. /\ Exported(key)' = Exported(key) + Growth(t, LastSync(key))
          /\ LastSync(key)' = t
      BY <2>1, <3>1, ExportTypes DEF Sync, Exported, LastSync
    <3>3. /\ Synced(Exported(key), LastSync(key), Bound(key), Shown(key))
          /\ Pending(Exported(key), LastSync(key), t, Bound(key), Shown(key))
      BY <1>4, <1>6, <2>1, <3>1 DEF ScrapeTally
    <3>4. Synced(Exported(key) + Growth(t, LastSync(key)), t, Bound(key), Shown(key))
      BY <1>1, <3>3, ExportTypes, PendingSynced
    <3>5. Synced(Exported(key)', LastSync(key)', Bound(key)', Shown(key)')
      BY <1>4, <1>6, <3>2, <3>4
    <3>6. QED
      BY <2>2, <3>5 DEF ScrapeTally, Synced
  <2>5. QED
    BY <2>3, <2>4
<1>7. QED
  BY <1>2, <1>3, <1>5, <1>6, ExportsMove

LEMMA ScrapeInvAlways == MetricsSpec => []ScrapeInv
<1>1. KeptInv /\ KeptInv' /\ Noted /\ Noted' /\ MetricsTypeOK /\ MetricsTypeOK'
         /\ ScrapeInv /\ [MetricsNext]_metricsVars => ScrapeInv'
  BY ScrapeInvStep
<1>2. MetricsInit => ScrapeInv
  <2> SUFFICES ASSUME MetricsInit PROVE ScrapeInv
    OBVIOUS
  <2>1. /\ \A key \in Keys : /\ Exported(key) = 0 /\ LastSync(key) = 0
                             /\ happened[key] = {}
        /\ \A s \in Scrapers : scrapes[s] = Null
    BY DEF MetricsInit, Processes, NoTotals, Exported, LastSync
  <2>2. ASSUME NEW key \in Keys PROVE ScrapeTally(key)
    <3>1. IsFiniteSet(Bound(key))
      <4>1. CASE key = "retries_total"
        BY <4>1, TypeInvInit, RetriesType DEF MetricsInit, Bound
      <4>2. CASE key # "retries_total"
        BY <2>1, <4>2, FS_EmptySet DEF Bound
      <4>3. QED
        BY <4>1, <4>2
    <3>2. Cardinality(Bound(key)) \in Nat /\ Cardinality(Bound(key) \ Shown(key)) \in Nat
      BY <3>1, FS_Difference, FS_CardinalityType
    <3>3. QED
      BY <2>1, <3>2 DEF ScrapeTally, Synced
  <2>3. QED
    BY <2>1, <2>2 DEF ScrapeInv, OneScrape
<1>3. QED
  BY <1>1, <1>2, KeptInvAlways, NotedAlways, MetricsTypeCorrect, PTL DEF MetricsSpec

\* Until two scrapes overlap, the API counts nothing twice: what a scrape has
\* read fits beside what was counted, however the table moves before the lock
\* is taken.
THEOREM SingleScrapesCountOnce == MetricsSpec => []SingleScrapeCountsOnce
<1>1. KeptInv /\ Noted /\ MetricsTypeOK /\ ScrapeInv => SingleScrapeCountsOnce
  <2> SUFFICES ASSUME KeptInv, Noted, MetricsTypeOK, ScrapeInv, ~overlapped, NEW key \in Keys
               PROVE  Exported(key) <= Cardinality(happened[key])
    BY DEF SingleScrapeCountsOnce, Exported
  <2>1. Exported(key) \in Nat /\ Exported(key) <= Cardinality(Bound(key))
    BY ExportTypes DEF ScrapeInv, ScrapeTally, Synced
  <2>2. QED
    BY <2>1, ShownCounted
<1>2. QED
  BY <1>1, KeptInvAlways, NotedAlways, MetricsTypeCorrect, ScrapeInvAlways, PTL

-----------------------------------------------------------------------------
(* The scheduler covers the table.                                         *)

\* A step writes one row.
LEMMA OneRow ==
    ASSUME KeptInv, [Next]_vars
    PROVE  \E k : \A j \in Jobs : j # k => jobs'[j] = jobs[j]
<1>1. CASE UNCHANGED jobs
  BY <1>1
<1>2. ASSUME NEW k, Only(k) PROVE \E i : \A j \in Jobs : j # i => jobs'[j] = jobs[j]
  BY <1>2 DEF Only
<1>3. CASE \E j \in Jobs : SubmitJob(j)
  BY <1>2, <1>3, SubmitInserts DEF KeptInv, Inserted
<1>4. CASE \E h \in CancelHandlers : CancelWrite(h)
  BY <1>2, <1>4, CancelOverwrites DEF KeptInv, Overwritten
<1>5. CASE RejectJob
  BY <1>2, <1>5, RejectOverwrites DEF KeptInv, Overwritten
<1>6. CASE MarkRunning
  BY <1>2, <1>6, MarkBegins DEF KeptInv, Begun
<1>7. CASE Verdict
  BY <1>1, <1>2, <1>7, VerdictLeaves DEF KeptInv, Left
<1>8. QED
  BY <1>1, <1>3, <1>4, <1>5, <1>6, <1>7, TableKept

\* So an outcome is shown of one job more, and only if one became it.
LEMMA OneMoreShown ==
    ASSUME KeptInv, [Next]_vars, NEW s
    PROVE  /\ Cardinality(HasStatus(s)) \in Nat /\ Cardinality(HasStatus(s)') \in Nat
           /\ Become(s) = {} => Cardinality(HasStatus(s)') <= Cardinality(HasStatus(s))
           /\ Cardinality(HasStatus(s)') <= Cardinality(HasStatus(s)) + 1
<1>1. HasStatus(s) \in SUBSET Jobs /\ HasStatus(s)' \in SUBSET Jobs
  BY DEF HasStatus
<1>2. PICK k : \A j \in Jobs : j # k => jobs'[j] = jobs[j]
  BY OneRow
<1>3. IsFiniteSet(HasStatus(s)) /\ Cardinality(HasStatus(s)) \in Nat
      /\ Cardinality(HasStatus(s)') \in Nat
  BY <1>1, JobsCountable
<1>4. HasStatus(s)' \subseteq HasStatus(s) \cup {k}
  BY <1>2 DEF HasStatus
<1>5. /\ IsFiniteSet(HasStatus(s) \cup {k})
      /\ Cardinality(HasStatus(s) \cup {k}) \in Nat
      /\ Cardinality(HasStatus(s) \cup {k}) <= Cardinality(HasStatus(s)) + 1
  <2>1. /\ IsFiniteSet(HasStatus(s) \cup {k})
        /\ Cardinality(HasStatus(s) \cup {k}) =
              IF k \in HasStatus(s) THEN Cardinality(HasStatus(s))
                                    ELSE Cardinality(HasStatus(s)) + 1
    BY <1>3, FS_AddElement
  <2>2. QED
    BY <1>3, <2>1
<1>6. Cardinality(HasStatus(s)') <= Cardinality(HasStatus(s) \cup {k})
  BY <1>4, <1>5, FS_Subset
<1>7. ASSUME Become(s) = {} PROVE Cardinality(HasStatus(s)') <= Cardinality(HasStatus(s))
  <2>1. HasStatus(s)' \subseteq HasStatus(s)
    BY <1>7 DEF HasStatus, Become
  <2>2. QED
    BY <1>3, <2>1, FS_Subset
<1>8. QED
  BY <1>3, <1>5, <1>6, <1>7

Covering == pc # "down" /\ (pc = "list" => metered)

Covers(key, s) == Covering => Counter(key) >= Cardinality(HasStatus(s))

LEMMA CoversStep ==
    ASSUME KeptInv, MetricsTypeOK, NeverUndercounts, [MetricsNext]_metricsVars,
           NEW key \in Keys, NEW s, Happens(key) = Become(s), key # "retries_total",
           ReliabilityTotals[key] = Cardinality(HasStatus(s)),
           Covers(key, s)
    PROVE  Covers(key, s)'
<1>1. /\ CounterTypes /\ Counter(key) \in Nat /\ LastTotal(key) \in Nat
      /\ Idles \/ Restarts \/ CountsEvents \/ CatchesUp
      /\ Counter(key) >= LastTotal(key)
  BY SchedulerCounts DEF KeptInv, CounterTypes, NeverUndercounts, Processes, Counter, LastTotal
<1>2. ASSUME [Next]_vars
      PROVE  /\ Cardinality(HasStatus(s)) \in Nat /\ Cardinality(HasStatus(s)') \in Nat
             /\ Become(s) = {} => Cardinality(HasStatus(s)') <= Cardinality(HasStatus(s))
             /\ Cardinality(HasStatus(s)') <= Cardinality(HasStatus(s)) + 1
  BY <1>2, OneMoreShown
<1> SUFFICES ASSUME Covering' PROVE Counter(key)' >= Cardinality(HasStatus(s)')
  BY DEF Covers
<1>3. CASE SchedulerSyncs
  <2>1. HasStatus(s)' = HasStatus(s) /\ [Next]_vars
    BY <1>3 DEF SchedulerSyncs, vars, systemVars, repoVars, HasStatus
  <2>2. Counter(key)' = Counter(key) + Growth(Cardinality(HasStatus(s)), LastTotal(key))
    BY <1>3, ExportTypes DEF SchedulerSyncs, Sync, Counter, LastTotal
  <2>3. QED
    BY <1>1, <1>2, <2>1, <2>2 DEF Growth
<1>4. CASE SchedulerActs
  <2>1. pc' # "down" /\ pc' # "list" /\ [Next]_vars
    BY <1>4 DEF Covering, SchedulerActs, Next
  <2>2. pc # "down"
    BY <1>4, <2>1 DEF SchedulerActs, SchedulerRuns, SchedulerStep, Restart, Dispatch,
       Reconcile, ListCandidates, EndDispatch, SkipOverQuota, Admit, Picks, FindExisting,
       BuildManifest, ManifestRaises, CreateJobObject, CreateConflicts, CreateFails,
       RejectJob, MarkRunning, SkipStateChanged, ScanRunning, Probe, TimesOut, FailMissing,
       Succeed, LeaveRunning, Requeue, FailForGood, DeleteTimedOut, ExpireJob, Judges
  <2>3. Counter(key) >= Cardinality(HasStatus(s))
    BY <1>4, <2>2 DEF SchedulerActs, Covers, Covering
  <2>4. Counter(key)' = Counter(key) + IF Become(s) # {} THEN 1 ELSE 0
    BY <1>4, <2>1, ExportTypes DEF SchedulerActs, Recorded, Counter
  <2>5. QED
    BY <1>1, <1>2, <2>1, <2>3, <2>4
<1>5. CASE SchedulerDies
  BY <1>5 DEF SchedulerDies, SchedulerCrashes, Crash, Dies, Covering
<1>6. ASSUME Covering, Counter(key)' = Counter(key), Become(s) = {},
             [Next]_vars \/ UNCHANGED jobs
      PROVE  Counter(key)' >= Cardinality(HasStatus(s)')
  <2>1. Counter(key) >= Cardinality(HasStatus(s))
    BY <1>6 DEF Covers
  <2>2. CASE [Next]_vars
    BY <1>1, <1>2, <1>6, <2>1, <2>2
  <2>3. CASE UNCHANGED jobs
    BY <1>6, <2>1, <2>3 DEF HasStatus
  <2>4. QED
    BY <1>6, <2>2, <2>3
<1>7. CASE Elsewhere
  <2>1. Covering /\ Counter(key)' = Counter(key)
    BY <1>7 DEF Elsewhere, registryVars, Covering, Counter, API, SubmitJob, CancelRead,
       CancelWrite, TtlExpires, ClockTicks, ContainerEnds, schedulerVars, systemVars
  <2>2. Become(s) = {} /\ [Next]_vars
    BY <1>7, OthersWriteNone DEF Elsewhere, TtlExpires, ClockTicks, Tick, ContainerEnds,
       repoVars, Next, KeptInv
  <2>3. QED
    BY <1>6, <2>1, <2>2
<1>8. ASSUME NEW t \in Scrapers, ScrapeReads(t) \/ ScrapeSyncs(t)
      PROVE  Counter(key)' >= Cardinality(HasStatus(s)')
  <2>1. Covering /\ UNCHANGED jobs
    BY <1>8 DEF ScrapeReads, ScrapeSyncs, Covering, vars, systemVars, schedulerVars, repoVars
  <2>2. Counter(key)' = Counter(key)
    BY <1>8, ExportTypes DEF ScrapeReads, ScrapeSyncs, Sync, registryVars, Counter
  <2>3. QED
    BY <1>6, <2>1, <2>2 DEF Become
<1>9. CASE ApiDies
  <2>1. Covering /\ UNCHANGED jobs
    BY <1>9 DEF ApiDies, Covering, repoVars
  <2>2. Counter(key)' = Counter(key)
    BY <1>9, ExportTypes DEF ApiDies, Forgets, Counter
  <2>3. QED
    BY <1>6, <2>1, <2>2 DEF Become
<1>10. CASE UNCHANGED metricsVars
  <2>1. Covering /\ UNCHANGED jobs /\ Counter(key)' = Counter(key)
    BY <1>10 DEF metricsVars, registryVars, vars, systemVars, schedulerVars, repoVars,
       Covering, Counter
  <2>2. QED
    BY <1>6, <2>1 DEF Become
<1>11. QED
  BY <1>3, <1>4, <1>5, <1>7, <1>8, <1>9, <1>10 DEF MetricsNext

\* From its first sync on, a scheduler has counted every outcome that the
\* table shows, whether it wrote it or one before it did.
THEOREM SchedulerCoversTable == MetricsSpec => []CoversTable
<1> DEFINE Inv == Covers("success_total", "SUCCEEDED") /\ Covers("fail_total", "FAILED")
<1>1. KeptInv /\ MetricsTypeOK /\ NeverUndercounts /\ Inv /\ [MetricsNext]_metricsVars => Inv'
  <2> SUFFICES ASSUME KeptInv, MetricsTypeOK, NeverUndercounts, Inv,
                      [MetricsNext]_metricsVars
               PROVE  Inv'
    OBVIOUS
  <2>1. Covers("success_total", "SUCCEEDED")'
    BY CoversStep, HappensOf, TotalsRead
  <2>2. Covers("fail_total", "FAILED")'
    BY CoversStep, HappensOf, TotalsRead
  <2>3. QED
    BY <2>1, <2>2
<1>2. MetricsInit => Inv
  BY DEF MetricsInit, Init, SchedulerInit, Covers, Covering
<1>3. Inv => CoversTable
  BY TotalsRead DEF Covers, Covering, CoversTable, Counter
<1>4. QED
  BY <1>1, <1>2, <1>3, KeptInvAlways, MetricsTypeCorrect, ExportsNoLess, PTL DEF MetricsSpec

=============================================================================
