------------------------------ MODULE Metrics ------------------------------
(***************************************************************************)
(* The reliability counters of src/pkg/job_system/metrics.py beside the    *)
(* job system they count.  The scheduler and the API each have a registry  *)
(* of their own, in memory.  A counter is advanced in two ways: by the     *)
(* events of its process, and by the growth of the totals in the table     *)
(* since the last sync, which the scheduler makes at the start of a pass   *)
(* and the API at every scrape, in as many threads as there are scrapes.   *)
(***************************************************************************)
EXTENDS JobSystem

CONSTANT Scrapers   \* threads of the API that may serve GET /metrics at once

VARIABLES
    counters,   \* the counters of each process
    synced,     \* _LAST_SYNC_TOTALS of each process
    scrapes,    \* the totals each scraping thread has read; Null: idle
    metered,    \* the scheduler has made the sync of this pass
    happened,   \* history: what each counter is about
    overlapped  \* history: two scrapes of this API process ran at once

registryVars == <<counters, synced>>
historyVars == <<happened, overlapped>>
metricsVars == <<vars, registryVars, scrapes, metered, historyVars>>

Processes == {"scheduler", "api"}
Keys == {"success_total", "fail_total", "retries_total"}
Totals == [Keys -> Nat]

NoTotals == [key \in Keys |-> 0]

\* A job that ended counts once, a retry once for each attempt it follows.
Countable == Jobs \cup (Jobs \X Nat)

MetricsTypeOK ==
    /\ counters \in [Processes -> Totals]
    /\ synced \in [Processes -> Totals]
    /\ scrapes \in [Scrapers -> Totals \cup {Null}]
    /\ metered \in BOOLEAN
    /\ happened \in [Keys -> SUBSET Countable]
    /\ overlapped \in BOOLEAN

MetricsInit ==
    /\ Init
    /\ counters = [p \in Processes |-> NoTotals]
    /\ synced = [p \in Processes |-> NoTotals]
    /\ scrapes = [s \in Scrapers |-> Null]
    /\ metered = FALSE
    /\ happened = [key \in Keys |-> {}]
    /\ overlapped = FALSE

-----------------------------------------------------------------------------
\* Mutant: SUM(attempts - 1).
RetriesUnclamped == SumFunctionOnSet([j \in Jobs |-> jobs[j].attempts - 1], Jobs)

\* COALESCE(SUM(GREATEST(attempts - 1, 0)), 0): the attempts of every row
\* but its last, none for a row with less than two.
Retries == Cardinality(UNION {{j} \X (1..jobs[j].attempts - 1) : j \in Jobs})

\* get_reliability_totals: one statement over the table.
ReliabilityTotals ==
    [key \in Keys |->
        CASE key = "success_total" -> Cardinality(HasStatus("SUCCEEDED"))
          [] key = "fail_total" -> Cardinality(HasStatus("FAILED"))
          [] key = "retries_total" -> Retries]

\* Mutant: a counter that fell behind is advanced by one.
GrowsByOne(total, last) == IF total > last THEN 1 ELSE 0

\* if delta > 0: metric.inc(delta)
Growth(total, last) == IF total > last THEN total - last ELSE 0

\* Mutant: _LAST_SYNC_TOTALS is left as it was.
SyncForgetful(p, totals) ==
    /\ counters' = [counters EXCEPT ![p] =
           [key \in Keys |-> counters[p][key] + Growth(totals[key], synced[p][key])]]
    /\ UNCHANGED synced

\* The part of sync_counters_from_db under its lock.
Sync(p, totals) ==
    /\ counters' = [counters EXCEPT ![p] =
           [key \in Keys |-> counters[p][key] + Growth(totals[key], synced[p][key])]]
    /\ synced' = [synced EXCEPT ![p] = totals]

\* A process dies, and its registry with it.
Forgets(p) ==
    /\ counters' = [counters EXCEPT ![p] = NoTotals]
    /\ synced' = [synced EXCEPT ![p] = NoTotals]

-----------------------------------------------------------------------------
\* reconcile_once begins; no other thread of the process syncs.
SchedulerSyncs ==
    /\ pc = "list"
    /\ ~metered
    /\ Sync("scheduler", ReliabilityTotals)
    /\ metered' = TRUE
    /\ UNCHANGED <<vars, scrapes, historyVars>>

Become(status) ==
    {j \in Jobs : jobs[j].status # status /\ jobs'[j].status = status}

\* The attempts that a retry really follows: their row is QUEUED again.
Requeued ==
    {<<j, jobs[j].attempts>> :
        j \in {k \in Jobs : jobs[k].status = "RUNNING" /\ jobs'[k].status = "QUEUED"}}

Happens(key) ==
    CASE key = "success_total" -> Become("SUCCEEDED")
      [] key = "fail_total" -> Become("FAILED")
      [] key = "retries_total" -> Requeued

\* Only statements of the scheduler write SUCCEEDED, FAILED or QUEUED again.
Remembers == happened' = [key \in Keys |-> happened[key] \cup Happens(key)]

\* The scheduler takes the retry branch of _reconcile_running_jobs.
TakesRetry ==
    /\ pc = "judge"
    /\ ~IsTimedOut(work[1])
    /\ observed = "failed"
    /\ RetriesLeft(work[1])

\* Mutant: a create that is refused is not recorded.
RecordedUnlessRejected(key) == pc # "reject" /\ Happens(key) # {}

\* record_terminal_transition is called for a row that a statement returned
\* with its new status, record_retry without a look at what was returned.
Recorded(key) ==
    IF key = "retries_total" THEN TakesRetry ELSE Happens(key) # {}

SchedulerActs ==
    /\ pc = "list" => metered
    /\ SchedulerRuns
    /\ IF pc' = "down" THEN Forgets("scheduler")
       ELSE /\ counters' = [counters EXCEPT !["scheduler"] =
                  [key \in Keys |-> counters["scheduler"][key] +
                                    IF Recorded(key) THEN 1 ELSE 0]]
            /\ UNCHANGED synced
    /\ metered' = FALSE
    /\ Remembers
    /\ UNCHANGED <<scrapes, overlapped>>

SchedulerDies ==
    /\ SchedulerCrashes
    /\ Forgets("scheduler")
    /\ metered' = FALSE
    /\ UNCHANGED <<scrapes, historyVars>>

\* render_metrics: the totals are read before the lock is taken.
ScrapeReads(s) ==
    /\ scrapes[s] = Null
    /\ scrapes' = [scrapes EXCEPT ![s] = ReliabilityTotals]
    /\ overlapped' = (overlapped \/ \E other \in Scrapers : scrapes[other] # Null)
    /\ UNCHANGED <<vars, registryVars, metered, happened>>

ScrapeSyncs(s) ==
    /\ scrapes[s] # Null
    /\ Sync("api", scrapes[s])
    /\ scrapes' = [scrapes EXCEPT ![s] = Null]
    /\ UNCHANGED <<vars, metered, historyVars>>

ApiDies ==
    /\ Fault
    /\ Forgets("api")
    /\ scrapes' = [s \in Scrapers |-> Null]
    /\ canceling' = [h \in CancelHandlers |-> Null]
    /\ overlapped' = FALSE
    /\ UNCHANGED <<repoVars, clusterVars, pc, localVars, metered, happened>>

Elsewhere ==
    /\ API \/ TtlExpires \/ ClockTicks \/ \E j \in Jobs : ContainerEnds(j)
    /\ UNCHANGED <<registryVars, scrapes, metered, historyVars>>

MetricsNext ==
    \/ SchedulerSyncs
    \/ SchedulerActs
    \/ SchedulerDies
    \/ \E s \in Scrapers : ScrapeReads(s) \/ ScrapeSyncs(s)
    \/ ApiDies
    \/ Elsewhere

MetricsSpec == MetricsInit /\ [][MetricsNext]_metricsVars

-----------------------------------------------------------------------------
\* What is exported is never less than the totals it was synced with, however
\* scrapes overtake one another between their read and the lock, whatever
\* total goes down when a cancel overwrites an outcome, and after restarts.
NeverUndercounts ==
    \A p \in Processes : \A key \in Keys : counters[p][key] >= synced[p][key]

\* Retries that were recorded though a cancel had overwritten the row, and
\* mark_job_for_retry changed nothing: one at most for each CANCELED row.
Prevented(key) ==
    IF key = "retries_total" THEN Cardinality(HasStatus("CANCELED")) ELSE 0

\* The scheduler counts no outcome and no requeue more than twice: once as it
\* happens, and once when a later pass finds that the total grew
\* (metrics.py:131, :143).  Beyond that it only counts the retries that a
\* cancel prevented (main.py:282-287), each once.
CountedAtMostTwice ==
    \A key \in Keys :
        counters["scheduler"][key] <= 2 * Cardinality(happened[key]) + Prevented(key)

\* As long as no two scrapes of one API process overlap, it counts nothing
\* twice, though an outcome may be overwritten between the read of a total and
\* the lock (metrics.py:124-125), and a total may go down and up again.
SingleScrapeCountsOnce ==
    ~overlapped =>
        \A key \in Keys : counters["api"][key] <= Cardinality(happened[key])

\* From its first sync on, a scheduler has counted every outcome the table
\* shows, those of its predecessors too (README.md:210 "Metrics counters are
\* synchronized from DB totals").
CoversTable ==
    pc # "down" /\ (pc = "list" => metered) =>
        \A key \in {"success_total", "fail_total"} :
            counters["scheduler"][key] >= ReliabilityTotals[key]
=============================================================================
