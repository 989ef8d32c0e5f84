# NetPulse in TLA+

A verification project for NetPulse (local network monitoring over Kafka): TLA+
models of its components, TLC runs that check them on small instances, and
TLAPS proofs of the properties that matter most. Paths are relative to the
repository root. `PROJECT.json` maps every definition to the lines it models.

## 1. The system

```
 collectors -> SQLite outbox -> agent publisher --> Kafka raw topics
                                                     |           |
                             event ingestor <--------+           +--> Spark stream processor
                               |        |                                  |
                  raw/typed tables   validated + dead-letter topics   window metrics
                               \___________________ PostgreSQL ____________/
                                   |               |               |
                        incident classifier   daily analytics   (Airflow DAG)
                             |                     |
                   network.incidents.v1      query API, Tableau export
```

| Component | State it keeps | Operations | Hard behaviour | What makes it correct |
|---|---|---|---|---|
| Agent outbox (`services/network-agent`) | SQLite table `events`, `outbox_metadata` | `next_sequence`, `enqueue`, `ready`, `mark_delivered`, `mark_failed`, `prune_acknowledged`; the collector and delivery threads | several threads and processes on one file, crashes between acknowledgement and mark, records stored after a timeout, wall-clock steps, the storage ceiling | an accepted event is never lost and is settled only when Kafka has it; unique sequence numbers; bounded storage; every row is one day delivered |
| Event ingestor (`services/event-ingestor`) | `raw_events`, typed tables, `processing_failures`, the group's offsets | `process`, `persist_event`, `record_failure`, `publish`, `commit`, `seek` | three systems without a common transaction, duplicates, rebalances, poison records, stale allowlists | an offset is committed only past finished records; one row per event; nothing beyond the first uncommitted record leaves a trace; offsets never move back |
| Incident classifier (`services/incident-classifier`) | `network_incidents`, `incident_state_events` | `evaluate_once`, `publish_pending`, `transition`, `persist_transition`, `mark_published` | a crash between two transactions, timeouts, two processes on one database | a gapless history per incident that follows the lifecycle, published in order, one unresolved incident per key, every incident without evidence resolves |
| Classifier rules (`engine.classify`) | none | snapshot to findings | one chain of rules over groups of agents, applied to a window that mixes conditions | a lasting condition gets its documented classification; outages are never put together from rounds of others; incidents settle |
| Stream processor (`services/stream-processor`) | Spark checkpoints and state, `network_window_metrics`, `stream_processing_failures`, `streaming_query_batches` | micro-batches of two queries | replayed batches, watermark and late data, a failed query beside a live one | a replayed batch changes nothing but its time stamps; a window's row equals the count of its accepted records |
| Daily analytics (`services/analytics`) | facts, dimensions, `analytics_job_runs` | `run` under an advisory lock | ingestion during a refresh, competing refreshes | refreshes never collide; no report goes back to older data; the lock is never held for ever |
| Orchestration (Airflow DAG, `orchestration/`) | `analytics_orchestration_runs` | seven tasks, retries, failure callback | a task that fails, times out or is retried while its session lives on; late or lost callbacks; two runs with one key | a success is covered by its facts; a row that says running is attended to and settles; reconciliation only objects to new data |
| Tableau export (`tableau/`, `scripts/promote_tableau_export.py`) | a directory | stage, two renames, removal | a crash or a failure between two renames; refreshes while it reads | a reader sees one complete bundle of one snapshot; the last bundle is never lost; a success is fresh |
| Query API (`services/query-api`) | none (cursors travel with the client) | `list_daily` | pages against refreshes that change the rows | a walk never repeats a row, never skips one that stays |
| Simulator (`services/simulator`) | sequence numbers, random state | `generate_round` | | its scenarios are the documented conditions of the classifier |
| Contracts, observability, deployment | none that others read | | | |

Components interact through Kafka topics and PostgreSQL tables only; the outbox
pattern (a durable table, a publisher, a mark after the acknowledgement) occurs
three times, which is why there is one abstract specification for it,
`DurableDelivery`.

## 2. Modules

| Module | Models | Proofs |
|---|---|---|
| `DurableDelivery` | what an outbox promises: accepted is never taken back, published only if accepted, settled only if published | |
| `AgentOutbox`, `MCAgentOutbox` | `outbox.py`, `publisher.py`, `scheduler.py`, `events.py`, the restart of `runtime.py` | `AgentOutboxProofs` |
| `Ingestor`, `MCIngestor` | `consumer.py`, `processor.py`, `repository.py`, `publisher.py` of the event ingestor | `IngestorProofs` |
| `IncidentClassifier`, `MCIncidentClassifier` | `service.py`, `repository.py`, `publisher.py`, `ClassificationEngine.transition`, for any choice of findings | `IncidentClassifierProofs` |
| `ClassifierRules` | `ClassificationEngine.classify` and its helpers, as operators | |
| `Symptoms`, `MCSymptoms` | the scenarios of the simulator, `load_snapshot`, and the lifecycle driven by `ClassifierRules` | `SymptomsProofs` |
| `StreamProcessor`, `MCStreamProcessor` | `transformations.py`, `sink.py`, `cli.py` of the stream processor, with Spark's checkpoint as their use of it implies | `StreamProcessorProofs` |
| `DailyAnalytics` | `PostgresAnalyticsRepository.run`: lock, snapshot, commit, unlock | `DailyWorkflowProofs` |
| `DailyWorkflow`, `MCDailyWorkflow` | the Airflow DAG and `orchestration/` over `DailyAnalytics` | `DailyWorkflowProofs` |
| `DailyFacts` | the facts that readers see, and a committed refresh | |
| `QueryPagination` | `api.py`, `cursor.py`, `repository.py` of the query API | `ReportsProofs` |
| `TableauExport` | `tableau/`, `scripts/promote_tableau_export.py`, the `tableau-export` command of `scripts/netpulse.sh` | `ReportsProofs` |
| `Reports`, `MCReports` | both readers over `DailyFacts` | `ReportsProofs`, about its `Spec` |
| `Sums` | no code: the sums over finite sets that `MapThenSumSet` makes, as the proofs use them | proved in it |

`DailyWorkflow` extends `DailyAnalytics`; `Symptoms` extends `ClassifierRules`;
`Reports` composes `QueryPagination` and `TableauExport` over the facts they share.

### AgentOutbox

The unit of atomicity is one SQLite connection (each method of `SQLiteOutbox`
opens its own, with an exclusive write transaction): `Build` is
`next_sequence` followed by the in-memory envelope, `Enqueue` and its two
failing variants are `enqueue` in `collect_once`, `Ready`, `MarkDelivered`,
`MarkFailed` and `Prune` are the methods of these names. `Produce`,
`ProduceRejected`, `DeliverySucceeds` and `DeliveryFails` split
`_publish_one` where another thread, or Kafka, can act. An exception that
nobody catches ends the thread (`CollectorDies`, `PublisherDies`); `Crash` kills
a process and `Restarted` is what its successor starts from. The state of an
event (`status`) says which table, memory or topic it is in, `timer` the ticks
to its next attempt or to its removal. A publisher other than `Daemon` is a
`publish-once` run on the same file.

### IncidentClassifier

`Fetch`, `Send`, `Acknowledge`, `MarkPublished` are `publish_pending`, which
`evaluate_once` calls before and after its transitions (`phase`). `Evaluate`
reads the incidents and computes all transitions; `Persist` is one
transaction of `persist_transition`, with the unconditional overwrite of the row
and the `ON CONFLICT DO NOTHING` of the state event. Any exception ends the
process (`Restart`). A page of pending rows is any set of `PageSize` of them:
rows are sorted by `event_time`, and these times come from the wall clocks of
several evaluations.

### Ingestor

One record per `poll`; `PersistEvent` and `RecordFailure` are transactions,
`Send`, `Acknowledge`, `MarkDeadLetter` the steps of the two publications,
`Commit` the synchronous commit. `ProcessingFails` is the `except` block: count the
attempt, raise at the limit (the container restarts), or seek back. `Assign` is
a rebalance as the group sees it. Payloads are the five kinds the code tells
apart: measurements, other valid events, malformed payloads, poison events (the
contract admits them, a database constraint does not), and measurements of an
agent that is registered after the process read its allowlists.

### StreamProcessor

A query alternates `Plan` (Spark writes the batch's end offset to the
checkpoint), `Write` (`foreachBatch`: the upserts and the ledger row in one
transaction) and `Commit` (Spark commits the batch and its state). What was planned
and not committed is run again by the next process (`Restarted`). `QueryFails` is
an exception in a sink, `Exit` the end of `run`, which needs all queries to be
inactive. Windows of all sizes share one watermark; a row is late when its window has
ended at the previous batch's watermark, and state is dropped at the batch's own.
The values of a row are reduced to `event_count`. An unregistered agent stands for
every value that a constraint of `network_window_metrics` refuses.
Spark's part (offset log, commit log, state store, watermark) is not in the repository
and is marked external.

### DailyAnalytics and DailyWorkflow

A refresh is a session of PostgreSQL: `Acquire` is `pg_try_advisory_lock`, `Read` the
first query of the REPEATABLE READ transaction (it fixes the snapshot), `Commit` its
end, `Unlock` the `finally` clause. `RollBack` is a statement that raises. A client that
is killed, or whose task times out, is gone (`Abandon`), its session is not:
`SessionEnds` is the server noticing, perhaps after a COMMIT that was on its
way. A day is reduced to the number of its observations, incidents to
the number of transitions applied to them.

The DAG's current run (`dag`) executes the seven tasks in order. `FailTask` retries
`check_postgres` and `run_analytics_refresh` and fails the run otherwise, which
queues the failure callback; `FailureCallback` runs at any later time, against whatever
the ledger's row says by then. Loading the source snapshot and `start_run` are one step: only the
counts read matter, and they are stored in the row. `Requests` are the scheduled
interval and manual dates, valid or not. A refresh from the command line runs
beside the DAG. The tables go on changing: late observations, heartbeats,
failed records, incident transitions. Serialization failures of PostgreSQL are left out;
`NoWriteConflict` is the reason: no two refreshes write at once, and nobody
else writes these tables. `dagrun_timeout` may leave a refresh in flight; the
other tasks are one transaction each.

### ClassifierRules and Symptoms

`ClassifierRules` has one operator for each helper and each branch of
`classify`. Rates are counts, so that the comparisons are exact integer
arithmetic. In `Symptoms` a round is what both agents send while a scenario of
`scenarios.py` lasts (its mean values), the window is the last `Lookback` rounds, and
`Evaluate` is `evaluate_once`: classify the window, advance every incident. "silence"
is added to the scenarios: nothing arrives. Clock drift, duplicates, malformed
records and bursts are the ingestor's concern and left out here.

### DailyFacts, QueryPagination, TableauExport and Reports

A row of `fact_reliability_daily` is a slot with a count; a refresh of any range
rewrites its rows. A page of the query API takes one or two queries (`Query`,
`QueryOlder`), each of which sees the facts committed by then; a cursor is the
key of the last row and the fingerprint of the filters. `walk` is the client's
listing, with, as history, the matching rows that have been there since it began.
An export is the container's transaction (`ReadDaily`, `ReadOthers`), a file at a time
(`WriteFile`), its swap into `.next`, then the host's checks and three renames. A directory that may be
missing is a set of at most one function from file names to datasets. One run at
a time, and one failing rename in a run: see the observations below.

## 3. What is checked

Bounds are named in the modules (`Max...`) and given in the `.cfg` files.

| Run | Shows | Instance |
|---|---|---|
| `outbox_safety` | type, unique sequence numbers, settled events are in Kafka, the file stays below its ceiling, `DurableDelivery` is implemented | 3 events, 2 collectors, 2 publishers, room for 2 rows, journal of 0 or 1 rows, batch of 2, 1 crash, 1 SQLite error |
| `outbox_live` | every row is delivered | 2 events, delays up to 2 units and their jitter, 1 crash, 1 clock step |
| `classifier_single` | type, complete history, lifecycle, no index violation, publication order, growing revisions | 2 keys, 2 incidents each, 6 revisions, pages of 1, 1 crash |
| `classifier_two_processes` | `DurableDelivery` is implemented by two processes on one database | 1 key, 2 incidents, 4 revisions, pages of 2, 1 crash |
| `classifier_live` | every revision is published, incidents resolve | 2 keys, 1 incident each, 1 crash |
| `ingestor_group` | committed records are done, in order, one row per event, offsets never regress, `DurableDelivery` | 2 consumers, 1 partition, 2 records of any of 5 kinds, 2 rebalances, 1 crash |
| `ingestor_live` | every record is committed | 1 consumer, 2 records, 1 crash, 1 rebalance |
| `stream_safety` | a window counts each record of its batches once, nested windows agree, rejects are kept, the ledger is contiguous and beside the checkpoint, counts grow | 3 records (1 a copy), 2 agents of which 1 is registered, 3 times, window sizes 1 and 3, delay 1, 3 rows per batch, 1 database failure, 1 crash |
| `daily_workflow` | refreshes never collide, reports move forward, a success covers its source, a running row settles, reconciliation objects to new data only, the lock is released | 2 days, 2 sessions, 2 runs of the DAG or clears (scheduled, two days by hand, half a range), 1 `--all` from the command line, 1 change of the tables, 1 retry, 1 failure |
| `symptoms` | lasting scenarios get their classification, outages are earned, incidents settle | 12 scenarios, any 3 in a row, a window of 5 rounds (one round is the 20 percent of `failed`, four the 80 percent of `healthy`), 2 samples, 2 observations to open and to resolve |
| `reports` | walks go forward and skip nothing; the output is one snapshot, the last bundle survives, a success is fresh | 4 slots over 2 days, 2 filters, pages of 1 and 2, 2 refreshes; 5 requests and a failing one, or 2 exports with a failing step and a kill |

Why these bounds are enough to be interesting: two of everything that competes
(publishers, collectors, consumers, keys, refreshes, pages, exports), a batch or page smaller
than the table in at least one run, a retry limit that is reached, one crash
that may fall between any two steps, and incidents with enough revisions to
open, recover, re-open and resolve. Two days are enough for a refresh to be of one
day, of both, or of all, and two runs for a late callback to meet the row of another run.
More processes than two, and more of everything, are covered by the theorems of section 5. `CHECK_DEADLOCK FALSE` stands where the model
comes to rest when all events are done or, in `reports`, when the budgets of
requests and exports are spent; the system then waits for input.

The type invariants of the other modules are theorems (section 5): no run lists them.

Every property has a mutant of the code that violates it (operators with a
comment `Mutant:` beside the definition they replace).

Where the code and its documentation differ (the run finds the counterexample):

- `outbox_thread_dies`: one SQLite error in the delivery loop ends the daemon thread,
  nothing restarts it, and the process stays alive with rows nobody delivers
  (`services/network-agent/src/netpulse_agent/publisher.py:128`).

Further observations, not listed as findings. The jitter of the outbox's back-off is
added after the cap, so a row may wait 375 seconds with `retry_max_seconds`
300. A failed Spark query beside a live one leaves the process up, and nothing
restarts the query; a batch with an unregistered agent, or with more rows
than the limit, fails at each replay. With two classifiers, two evaluations of one incident can write the same
revision, and the second overwrites the row and adds no state event, while
`docs/incident-classification.md` promises an increasing revision for each transition;
publication can also leave revision order, because rows are sorted by `event_time`;
`docs/architecture.md` promises order only within a key, and the runs check it
for one process. A measurement of an agent registered late can be dead-lettered
at one attempt and persisted at a replay; `CommittedIsDone` allows either.

The outbox's ceiling is tested against a file that never shrinks: once
it is reached, inserts are rejected although pruning has made room
(`outbox.py:113`). Window metrics count an event twice that the agent sends twice;
`docs/architecture.md` asks Spark to drop repeated events, `docs/analytics.md` keeps exact
reports away from these metrics.

Of the analytics. A callback that runs late turns the row of its range to failed
even when a later run has recorded success. If PostgreSQL is down when the run fails, the
callback is lost and the row stays `running` until the range is run again
(`RunningIsAttended` and `RunSettles` except exactly that). If `check_postgres` fails
on the first run of a range there is no row at all. `reconcile` compares the incidents of all
days, so a transition of any incident after the refresh fails the run of an
unrelated day. The gate selects failed records by `last_failed_at`, not by
the time of the event. A refresh killed with its lock blocks others until PostgreSQL ends the
session; two retries two minutes apart may both be refused.

Of the classifier. While a router outage begins, its window first
opens `high_packet_loss`, which then resolves. High latency and weak signals are
decided by a maximum over the window, that is by one sample. An open incident whose
evidence ends because everything fell silent resolves like any other. An enabled agent
that never runs (`container-observer-01` of migration 0006) is offline
as long as another one runs. The key of a service finding contains the set of failing endpoints: a
second failing service ends one incident and begins another.

Of the export. Between the two renames of the promotion there is no output directory,
although `docs/tableau-dashboard.md` calls the replacement atomic. A kill between
them leaves the previous bundle under `.tableau_exports.backup.*`, which nothing
restores. If the second rename and the restoring one both fail
(or another export has made the output directory anew in between, since nothing
excludes two exports), `moved_previous` is still true and the `finally` clause removes the
backup (`promote_tableau_export.py:44-55`): both bundles are lost.

## 4. Fairness

- Loops (`OutboxDeliveryWorker.run`, the classifier's `run` command, the
  ingestor's `run`) go on, and every wait has a timeout: weak fairness of their
  steps. `docker-compose.yml` restarts the services (`unless-stopped`), systemd the
  agent, so a restart is part of the failing step.
- Kafka and PostgreSQL may fail any number of times but not for ever: strong
  fairness of the successful send, acknowledgement and transaction.
- Nothing is assumed of command-line runs, of crashes (bounded by
  `MaxCrashes`), of thread death, or of late stores.
- The delivery thread's own life is not assumed: `outbox_live` excludes SQLite
  errors (`MaxErrors = 0`), and `outbox_thread_dies` shows why it must.
- `ingestor_live` has no poison record: such a record blocks its partition for
  good, which is what the code does (retry, raise, restart). It has one consumer;
  two make TLC's treatment of eleven strong-fairness conditions too slow.

- `daily_workflow`: Airflow's scheduler executes the tasks of a run and its DAG processor the
  callbacks; PostgreSQL finishes statements and notices closed connections. Weak
  fairness of each. Triggers, clears, commands and changes of the tables are
  not fair.
- `symptoms`: agents report and the classifier evaluates again and again (weak fairness).

## 5. What is proved

Each theorem holds for every value of the constants that the named assumption of
its module admits: any number of threads, processes, consumers, records, days, crashes
and errors. Apart from these assumptions nothing is taken for granted, except
`OneProcess` and the conditions on thresholds where they are written in the theorem. A state invariant is proved from an
inductive one (its conjuncts are named below), which holds initially and is kept by each
action; action properties and refinements follow from it step by step.

`AgentOutboxProofs` (`OutboxAssumption`)

- `TypeCorrect`.
- `DeliveredSafe`, `OutboxRefinesDelivery`. That settled rows are in
  Kafka is not inductive: a publisher about to mark a row must know that its
  record is stored. `IInv` adds what each place on the way knows: an event
  held by a collector is held once and is not in the table (`HeldOnce`), what
  a publisher has read was accepted (`BatchAccepted`), a record whose outcome is
  awaited was sent and one with a successful outcome is stored (`AttemptKnown`),
  and `topic` is within `sent`, `sent` within the accepted events. Each action maps to one
  step of `DurableDelivery` or to a stutter.
- `SequencesSafe`: the counter only grows and no event carries a number above it.
- `StorageSafe`: rows never outnumber the units of the file, because only an
  insert adds a row and it adds at least a unit, within the ceiling.

`IncidentClassifierProofs` (`ClassifierAssumption`)

- `TypeCorrect`: in particular a computed transition, with its `CHOOSE`n incident
  name and its revision, is well typed.
- `OutboxRefinesDelivery`, for any number of processes: `OutboxOK` says that what is
  sent is recorded, what is stored was sent, what is marked is stored, and that
  a queue holds recorded items only.
- `HistorySafe`, `LifecycleSafe`, `ConflictsSafe`, `OrderSafe`, `RevisionsGrow`, for one
  process (two are the observation above). `HInv` carries the argument from one transaction
  to the next: a transition that waits to be persisted is the next revision of the row
  it was computed from, moves along the lifecycle, and no other incident of its key
  is active (`NextRevision`); events and revisions of an incident match one
  to one (`EventsKnown`); only the last revision may be unpublished (`EarlierPublished`),
  because an evaluation begins with an empty outbox (`QuietBefore`). A crash forgets
  transitions, which keeps all of these.

`IngestorProofs` (`IngestorAssumption`)

- `TypeCorrect`, and `OffsetsSafe` from `PositionsOK`: a consumer has no record beyond
  the committed offset, the one before its position while it owns the partition
  (`Processing`), and reads on at the committed offset, or one before it after a
  commit whose answer was lost (`Waiting`).
- `RowsSafe`: raw rows are only added, one per event, each with its typed row.
- `CommitsSafe`: `ProgressOK` says for each control state which effects of the record are
  done (`Recorded`, `Published`); what is done stays done; so a commit finds all of
  them, whoever made them.
- `OrderSafe`: only a record in process leaves a trace, and it is never beyond the offset.
- `IngestorRefinesDelivery`: accepted are the stored measurements, published those of
  the validated topic, settled those below the offset.

`Sums` (nothing assumed). `MapThenSumSet` is a recursive function over subsets. That it has a
solution, that the solution is unique, and what it adds up to are proved by least
counterexample: a set of naturals has a least element (`LeastNat`, from the library's
well-founded order of the naturals), a nonempty family of finite sets a minimal one (`MinimalSet`). So
the sum of naturals is one (`SumNat`), grows with its terms (`SumMonotone`), is a product
if they are equal (`SumConstant`), and disjoint parts of a set do not add up to more than the
set (`SumOfParts`).

`DailyWorkflowProofs` (`AnalyticsAssumption`, `WorkflowAssumption`)

- `TypeCorrect`: with `Started`, which says that a run of the DAG has been triggered, by one of
  the requests.
- `RefreshesDoNotMeet`, `ReportsMoveForward`. `AnalyticsSteps` shows that the workflow,
  its operators and its faults take only steps of the analytics; then `LockHeld` (one
  session at work), `ReportsBehind` and `Snapshots` (reports are behind a
  snapshot, snapshots behind the tables), `RowsBehind` and `Results` (rows of earlier
  refreshes are behind the reports, and a returned result is a row).
- `MismatchesAreNewData`: `AtWork` ties a refresh of the workflow to the running task and its
  range, `RunOK` gives a run after its refresh the row it is reconciled with.
- `RunningRowsAreAttended`: a running row of the ledger has a run at work on it, a callback on
  its way, or one lost to an outage (`LedgerShape`, `KeyKnown`, `Attended`). No run
  repeats this one: `RunSettles` is its temporal companion.
- `SuccessesCoverSource` compares a sum over the days of a range with a count that was read
  earlier. It is not inductive: the success is recorded several tasks after the comparison, and the
  comparison was made with a row of the refresh, not with the facts. `CoverInv` says
  for each task what the gate's count is covered by: the tables, the snapshot of a refresh in
  flight, the row that refresh has written (`RunCovered`, `CallCovered`), and that a row of the ledger that
  says success has such a row of its range behind it (`Earned`). Snapshots are not behind what was
  counted before them, facts are never below a row (`RowsBehind`), and a sum grows with its terms.

`StreamProcessorProofs` (`StreamAssumption`)

- `TypeCorrect`, from `PlanOK`: the planned end offsets of a query ascend within the topic.
- `LedgerSafe`, `EvidenceKept`: what is in the ledger is what was written (`LedgerOK`).
- `ReplaysChangeNothing`, `RowsGrow`: the state of an open window counts its records of the
  committed batches (`StoreOK`), its row those of the written ones (`WindowsOK`); both
  rest on `UpTo`, the records that came before their window was closed, to which a
  batch adds its own once (`UpToNext`), and on `WatermarkForward`: a closed window never
  opens again, so dropping its state changes nothing. `MaxIs` shows that a set of
  times has a maximum.
- `WindowsNest`: an inner window whose size divides the outer one's lies within it (`InnerWindow`, from
  the division lemmas `Division`, `Multiples`, `Remainder`) and closes no later, so what it counts the
  outer one counts too (`CountsInOuter`); the inner windows count different records, hence
  `SumOfParts`.

`SymptomsProofs` (`RulesAssumption`, `SymptomsAssumption`, `ScenariosAssumption`), for every lookback,
sequence of scenarios and set of enabled agents

- `OutagesAreEarned`, for all thresholds: what a rule finds healthy in `HealthyRate` percent of the
  rounds and failed in all but `FailedRate` percent of them was in at least the difference of the two
  percent a round of the scenario itself (`Difference`); each of the five rules contrasts
  two checks that way, or has one that fails (`RouterEarned` to `ServiceEarned`).
- `MostRoundsEarn`: that share is most of the rounds, and no fewer than the gate asks for, when
  `DecisiveThresholds` holds: rates more than 50 percent apart, and a gate so small that its
  share rounds up to the gate. The defaults (80, 20, two samples) are such. The second condition is
  needed: with a gate of four samples, three rounds of an ISP outage, one of a router outage and a healthy one are
  found to be an ISP outage.
- `SteadyScenariosAreClassified`, when `DistinctThresholds` holds, that is, when the thresholds tell the
  simulator's latencies, losses and signals apart, as the defaults do: the rows of a window of one scenario
  are those of one round (`SteadyRow`, `SteadyVerdicts`), so each rule applies to exactly one
  scenario (`SteadyChecks`, `SteadyDegradation`, `SteadyServices`, `SteadyGeneral`).
  `AgesInv` adds that agents of the last round are fresh and agents that never run are stale.
- `TypeCorrect`, for which the counter of recoveries is zero outside of recovering, and a key without
  an incident counts nothing (`Counting`).
- `EvaluationsSettle`, when `DistinctThresholds` holds: the part of `IncidentsSettle` that needs no
  fairness. `StepsToOpen` and `StepsToResolve` count the evaluations an incident needs; while a
  scenario lasts each evaluation takes one off, and `SettledIncidents` says that none is left where
  `IncidentsSettle` wants the incident to be.

`ReportsProofs`, about `Reports!Spec` (`FactsAssumption`, `PaginationAssumption`)

- `ExportTyped` (`DirsOK`), `OneSnapshot`, `BundlesSurvive`, `SuccessesAreFresh`: `SnapshotOK` says what
  has been read is one commit, not older than the run; `StagingOK` that
  staging holds the first files of its bundle, and all of them at the swap; `PlacesOK`
  where each directory is at each step; `BackupWhole` that what would be put back is
  whole. A kill keeps them anywhere.
- `PaginationTyped`, `WalksGoForward`, `WalksSkipNothing`: rows are strictly ordered, a set of
  them has a first and a last one (`FirstExists`, `LastExists`), and LIMIT returns a set after which all other
  rows come (`FirstIs`). A request and its answers find every steady row
  after the cursor (`RequestOK`, `OlderOK`, `ReplyOK`); pages listed so far end at the next cursor
  (`ListedOK`). A refresh may only take steady rows away.

Every invariant, action property and refinement that a run checks is stated by a theorem, with two
kinds of hypotheses beside the assumptions: `OneProcess`, and the thresholds of
`SymptomsProofs`. Left to TLC is liveness (`EveryRowIsDelivered`, `RevisionsArePublished`,
`IncidentsResolve`, `EveryRecordIsCommitted`, `RunSettles`, `LockIsReleased`, and of
`IncidentsSettle` that evaluations go on): fairness and `ENABLED` are outside the prover's reach.

## 6. Not modelled

- Collectors, privacy redaction, configuration, metrics endpoints, logging, deployment:
  I/O and parsing without state over time. Restart policies appear as restart actions.
- Of the simulator: malformed records, duplicates, bursts, clock drift and the
  disconnection from Kafka, which the rules do not see. The first two are kinds of
  records in `Ingestor`.
- Field rules of the contracts: the ingestor's five kinds are their outcome.
- SQLite, PostgreSQL, Kafka and Spark themselves: they appear as atomic
  transactions, as topics that keep what they store, and as acknowledgements that come,
  come late or do not come. Kafka's own loss of acknowledged records and PostgreSQL's
  serialization failures are outside.
- Times in incident rows: a wall clock set back below an incident's start makes
  the contract refuse the event; only the hazard is recorded.
- Of the stream processor, the available-now trigger, and all statistics of a row but its count.
- Of the daily analytics and its orchestration: dimensions, dashboard views, the values
  of facts beyond their number, `reconcile_all` (a verification script's) and the
  webhook notification, which has no state.
- Of the export: two exports at once and two failing renames in one run (see the
  observations), pseudonyms and number formats.
- Health checks of the query API.

## 7. Plan

What is left, in order of value:

1. `TableauExport` with two concurrent exports and both renames failing, against an
   abstract atomic replacement, which the present code then does not implement.
2. `Pipeline`: the agent's outbox composed with the ingestor, so that an accepted event
   is in the tables or in the dead-letter topic; both refine `DurableDelivery`, whose
   composition is the abstract specification.
3. `StreamProcessor`: liveness while no batch is refused.
4. `IncidentClassifier` with times, for the clock that is set back.
