----------------------------- MODULE DailyWorkflow -----------------------------
(***************************************************************************)
(* The Airflow workflow over the analytics refresh: the DAG                *)
(* netpulse_daily_reliability, its tasks, the ledger they keep in          *)
(* analytics_orchestration_runs, and the failure callback, which the DAG   *)
(* processor runs some time after the run has failed.                      *)
(*                                                                         *)
(* The ledger has one row per date range, whichever run writes it.         *)
(* Refreshes from the command line run beside the workflow, and the        *)
(* operational tables go on changing under it.                             *)
(***************************************************************************)
EXTENDS DailyAnalytics

CONSTANTS
  Requests,      \* <<data_interval_end, from_date, through_date>>; 0 is None
  Commands,      \* selections of the refreshes from the command line
  MaximumDays,   \* maximum_backfill_days
  Hours,         \* bound: the times of a day are 1..Hours; 0 is none
  StaleAfter,    \* NETPULSE_AIRFLOW_STALE_AFTER_SECONDS, in these times
  Retries,       \* transient_task_retries of check_postgres and the refresh
  MaxActivity,   \* bound: changes of the operational tables
  MaxStarts,     \* bound: runs triggered or cleared
  MaxCommands,   \* bound: refreshes from the command line
  MaxFaults      \* bound: tasks, callbacks and refreshes that fail

ASSUME WorkflowAssumption ==
  /\ Requests \subseteq (1..(LastDay + 1)) \X (0..LastDay) \X (0..LastDay)
  /\ Commands \subseteq Selections
  /\ {MaximumDays, Hours} \subseteq Nat \ {0}
  /\ {StaleAfter, Retries, MaxActivity, MaxStarts, MaxCommands, MaxFaults} \subseteq Nat

VARIABLES
  evidence,   \* [Days -> what else the quality gate reads of the day]
  dag,        \* the current or latest run of the DAG
  ledger,     \* [Ranges -> row of analytics_orchestration_runs]
  callbacks,  \* failure callbacks that wait for the DAG processor
  lost,       \* ranges whose callback could not reach PostgreSQL
  activity, commands, faults

workflowVars == <<evidence, dag, ledger, callbacks, lost, activity, commands, faults>>
vars == <<analyticsVars, workflowVars>>

-----------------------------------------------------------------------------
(* Data                                                                    *)

NoRange == All

\* DAG_CONTRACT.task_ids, and the task that follows each.
Tasks == {"resolve", "check", "assess", "run", "reconcile", "validate", "record"}
Following ==
  [resolve |-> "check", check |-> "assess", assess |-> "run", run |-> "reconcile",
   reconcile |-> "validate", validate |-> "record", record |-> "record"]
Transient == {"check", "run"}

Statuses == {"healthy", "delayed", "empty", "missing", "stale", "invalid"}

Evidence == [latest : 0..Hours, beat : 0..Hours, delayed : BOOLEAN, rejected : BOOLEAN]
DagRuns ==
  [start : 0..MaxStarts, state : {"none", "running", "failed", "success"},
   request : Requests \union {<<0, 0, 0>>}, task : Tasks, range : Ranges \union {NoRange},
   tries : 0..Retries, run : Nat, mismatch : BOOLEAN]
Rows ==
  [status : {"none", "running", "failed", "success"}, source : Statuses \union {"none"},
   observations : Nat, attempts : Nat, run : Nat, task : Tasks \union {"none"}]
Callbacks == [start : 1..MaxStarts, request : Requests, task : Tasks]

NoRow == [status |-> "none", source |-> "none", observations |-> 0, attempts |-> 0,
          run |-> 0, task |-> "none"]

\* select_date_range: both dates or neither; the day before the interval's end.
Selected(q) == IF q[2] = 0 THEN <<q[1] - 1, q[1] - 1>> ELSE <<q[2], q[3]>>
Selectable(q) ==
  /\ (q[2] = 0) = (q[3] = 0)
  /\ Selected(q) \in Ranges
  /\ Selected(q)[2] - Selected(q)[1] + 1 <= MaximumDays

-----------------------------------------------------------------------------
(* The quality gate                                                        *)

DaysOf(range) == range[1]..range[2]
Moment(d, t) == d * (Hours + 1) + t
ObservedIn(range) == MapThenSumSet(LAMBDA d : observed[d], DaysOf(range))

\* MAX(event_time) of the observations and of the heartbeats of a window.
LatestObservation(range) ==
  Max({0} \union {Moment(d, evidence[d].latest) : d \in {e \in DaysOf(range) : observed[e] > 0}})
LatestBeat(range) ==
  Max({0} \union {Moment(d, evidence[d].beat) : d \in {e \in DaysOf(range) : evidence[e].beat > 0}})

\* assess_source_quality, over load_source_snapshot.
Assessment(range) ==
  IF \E d \in DaysOf(range) : evidence[d].rejected THEN "invalid"
  ELSE IF ObservedIn(range) = 0 THEN IF LatestBeat(range) > 0 THEN "missing" ELSE "empty"
  ELSE IF LatestBeat(range) - LatestObservation(range) > StaleAfter THEN "stale"
  ELSE IF \E d \in DaysOf(range) : evidence[d].delayed THEN "delayed"
  ELSE "healthy"

\* Mutant: stale windows are refreshed.
MayRefreshStale(status) == status \notin {"missing", "invalid"}

\* SourceAssessment.may_refresh
MayRefresh(status) == status \in {"healthy", "delayed", "empty"}

-----------------------------------------------------------------------------
Init ==
  /\ AnalyticsInit
  /\ evidence = [d \in Days |-> [latest |-> IF History[d] > 0 THEN 1 ELSE 0, beat |-> 0,
                                 delayed |-> FALSE, rejected |-> FALSE]]
  /\ dag = [start |-> 0, state |-> "none", request |-> <<0, 0, 0>>, task |-> "resolve",
            range |-> NoRange, tries |-> 0, run |-> 0, mismatch |-> FALSE]
  /\ ledger = [range \in Ranges |-> NoRow]
  /\ callbacks = {}
  /\ lost = {}
  /\ activity = 0
  /\ commands = 0
  /\ faults = 0

-----------------------------------------------------------------------------
(* The operational tables                                                  *)

Active == activity < MaxActivity /\ activity' = activity + 1

\* The ingestor stores an observation of the day, late perhaps.
Observe(d, t, late) ==
  /\ Active
  /\ observed' = [observed EXCEPT ![d] = @ + 1]
  /\ evidence' = [evidence EXCEPT ![d].latest = Max({@, t}), ![d].delayed = @ \/ late]
  /\ UNCHANGED <<incidents, reportVars, lock, session, dag, ledger, callbacks, lost, commands,
                 faults>>

\* It stores a heartbeat.
Beat(d, t) ==
  /\ Active
  /\ evidence' = [evidence EXCEPT ![d].beat = Max({@, t})]
  /\ UNCHANGED <<analyticsVars, dag, ledger, callbacks, lost, commands, faults>>

\* It records a failure of a measurement or a service check on that day.
Reject(d) ==
  /\ Active
  /\ evidence' = [evidence EXCEPT ![d].rejected = TRUE]
  /\ UNCHANGED <<analyticsVars, dag, ledger, callbacks, lost, commands, faults>>

\* The classifier applies a transition.
TransitionIncident ==
  /\ Active
  /\ incidents' = incidents + 1
  /\ UNCHANGED <<observed, reportVars, lock, session, evidence, dag, ledger, callbacks, lost,
                 commands, faults>>

-----------------------------------------------------------------------------
(* The scheduler                                                           *)

\* A scheduled or a manual run starts; max_active_runs is one.
Trigger(q) ==
  /\ dag.state # "running"
  /\ dag.start < MaxStarts
  /\ dag' = [start |-> dag.start + 1, state |-> "running", request |-> q,
             task |-> "resolve", range |-> NoRange, tries |-> 0, run |-> 0,
             mismatch |-> FALSE]
  /\ UNCHANGED <<analyticsVars, evidence, ledger, callbacks, lost, activity, commands,
                 faults>>

\* The operator clears the failed task and those after it.
Clear ==
  /\ dag.state = "failed"
  /\ dag.start < MaxStarts
  /\ dag' = [dag EXCEPT !.start = @ + 1, !.state = "running", !.tries = 0]
  /\ UNCHANGED <<analyticsVars, evidence, ledger, callbacks, lost, activity, commands,
                 faults>>

Runs(task) == dag.state = "running" /\ dag.task = task
Fault == faults < MaxFaults /\ faults' = faults + 1

\* The task succeeds.
Advance ==
  /\ dag' = [dag EXCEPT !.task = Following[@], !.tries = 0,
                        !.state = IF dag.task = "record" THEN "success" ELSE @]
  /\ UNCHANGED callbacks

\* The run fails, and its on_failure_callback is queued.
FailRun(mismatch) ==
  /\ dag' = [dag EXCEPT !.state = "failed", !.mismatch = mismatch]
  /\ callbacks' = callbacks \union {[start |-> dag.start, request |-> dag.request,
                                     task |-> dag.task]}

\* The task raises or is killed: it is retried, or the run fails.
FailTask ==
  IF dag.task \in Transient /\ dag.tries < Retries
    THEN dag' = [dag EXCEPT !.tries = @ + 1] /\ UNCHANGED callbacks
    ELSE FailRun(FALSE)

-----------------------------------------------------------------------------
(* The tasks                                                               *)

\* resolve_date_range
Resolve ==
  /\ Runs("resolve")
  /\ IF Selectable(dag.request)
       THEN /\ dag' = [dag EXCEPT !.task = "check", !.range = Selected(dag.request)]
            /\ UNCHANGED callbacks
       ELSE FailRun(FALSE)
  /\ UNCHANGED <<analyticsVars, evidence, ledger, lost, activity, commands,
                 faults>>

\* check_postgres
Check ==
  /\ Runs("check")
  /\ Advance
  /\ UNCHANGED <<analyticsVars, evidence, ledger, lost, activity, commands,
                 faults>>

\* start_run: the row of the range is written over.
StartRun(range) ==
  ledger' = [ledger EXCEPT ![range] =
    [status |-> "running", source |-> Assessment(range), observations |-> ObservedIn(range),
     attempts |-> @.attempts + 1, run |-> 0, task |-> "none"]]

\* assess_source_quality: the row is written before the gate decides.
Assess ==
  /\ Runs("assess")
  /\ StartRun(dag.range)
  /\ \/ MayRefresh(Assessment(dag.range)) /\ Advance /\ UNCHANGED faults
     \/ ~MayRefresh(Assessment(dag.range)) /\ FailRun(FALSE) /\ UNCHANGED faults
     \/ Fault /\ FailRun(FALSE)
  /\ UNCHANGED <<analyticsVars, evidence, lost, activity, commands>>

\* No refresh of this run is in progress.
NotRefreshing == \A s \in Sessions : session[s].client # "workflow"

\* run_analytics_refresh begins to execute.
StartRefresh(s) ==
  /\ Runs("run")
  /\ NotRefreshing
  /\ Acquire(s, "workflow", dag.range)
  /\ UNCHANGED workflowVars

\* "analytics refresh already running"
RefreshRefused ==
  /\ Runs("run")
  /\ NotRefreshing
  /\ lock # NoSession
  /\ FailTask
  /\ UNCHANGED <<analyticsVars, evidence, ledger, lost, activity, commands,
                 faults>>

\* The refresh returns the run_id of its row.
RefreshReturns(s) ==
  /\ session[s].client = "workflow"
  /\ Unlock(s)
  /\ dag' = [dag EXCEPT !.task = "reconcile", !.tries = 0, !.run = session[s].run]
  /\ UNCHANGED <<evidence, ledger, callbacks, lost, activity, commands, faults>>

\* It raises, or reaches its execution_timeout, which may be after its commit.
RefreshFails(s) ==
  /\ session[s].client = "workflow"
  /\ Fault
  /\ RollBack(s) \/ Abandon(s)
  /\ FailTask
  /\ UNCHANGED <<evidence, ledger, lost, activity, commands>>

\* _DAILY_RECONCILIATION_SQL: the observations counted again, day by day.
DailyMismatch(range) == \E d \in DaysOf(range) : facts[d] # observed[d]

\* _INCIDENT_RECONCILIATION_SQL: all incidents, whatever the range.
IncidentMismatch == factIncidents # incidents

\* reconcile_analytics, with ReconciliationResult.require_valid.
Reconcile ==
  /\ Runs("reconcile")
  /\ IF DailyMismatch(dag.range) \/ IncidentMismatch THEN FailRun(TRUE) ELSE Advance
  /\ UNCHANGED <<analyticsVars, evidence, ledger, lost, activity, commands, faults>>

\* validate_reporting: constraints of the tables exclude duplicate and invalid
\* rows; the run's row must have the range.
Validate ==
  /\ Runs("validate")
  /\ IF jobRuns[dag.run].selection = dag.range THEN Advance ELSE FailRun(FALSE)
  /\ UNCHANGED <<analyticsVars, evidence, ledger, lost, activity, commands, faults>>

\* record_success
RecordSuccess(range, run) ==
  ledger' = [ledger EXCEPT ![range].status = "success", ![range].run = run,
                           ![range].task = "none"]

\* record_workflow_success; it may fail after its update has been committed.
Record ==
  /\ Runs("record")
  /\ RecordSuccess(dag.range, dag.run)
  /\ \/ Advance /\ UNCHANGED faults
     \/ Fault /\ FailRun(FALSE)
  /\ UNCHANGED <<analyticsVars, evidence, lost, activity, commands>>

\* A task raises or times out before it has had an effect.
TaskFails ==
  /\ dag.state = "running"
  /\ NotRefreshing
  /\ Fault
  /\ FailTask
  /\ UNCHANGED <<analyticsVars, evidence, ledger, lost, activity, commands>>

\* dagrun_timeout: the run fails at whatever task it is.
RunTimesOut ==
  /\ dag.state = "running"
  /\ Fault
  /\ FailRun(FALSE)
  /\ session' = [s \in Sessions |-> IF session[s].client = "workflow"
                                     THEN [session[s] EXCEPT !.client = "gone"]
                                     ELSE session[s]]
  /\ UNCHANGED <<sourceVars, reportVars, lock, evidence, ledger, lost, activity, commands>>

-----------------------------------------------------------------------------
(* _failure_callback                                                       *)

\* Mutant: the callback does not read the manual dates of the run.
KeyOfScheduled(q) == IF Selectable(q) THEN <<q[1] - 1, q[1] - 1>> ELSE NoRange

\* The run key; that of an invalid request is not the key of any row.
KeyOf(q) == IF Selectable(q) THEN Selected(q) ELSE NoRange

\* record_failure updates the row of the key, if there is one.
RecordFailure(range, task) ==
  ledger' = IF range \in Ranges /\ ledger[range] # NoRow
              THEN [ledger EXCEPT ![range].status = "failed", ![range].task = task]
              ELSE ledger

FailureCallback(c) ==
  /\ RecordFailure(KeyOf(c.request), c.task)
  /\ callbacks' = callbacks \ {c}
  /\ UNCHANGED <<analyticsVars, evidence, dag, lost, activity, commands, faults>>

\* PostgreSQL is not there: the exception is logged and the callback is done.
CallbackLost(c) ==
  /\ Fault
  /\ callbacks' = callbacks \ {c}
  /\ lost' = lost \union {KeyOf(c.request)}
  /\ UNCHANGED <<analyticsVars, evidence, dag, ledger, activity, commands>>

-----------------------------------------------------------------------------
(* Refreshes from the command line                                         *)

CommandStarts(s, selection) ==
  /\ commands < MaxCommands
  /\ commands' = commands + 1
  /\ Acquire(s, "command", selection)
  /\ UNCHANGED <<evidence, dag, ledger, callbacks, lost, activity, faults>>

CommandReturns(s) ==
  /\ session[s].client = "command"
  /\ Unlock(s)
  /\ UNCHANGED workflowVars

CommandFails(s) ==
  /\ session[s].client = "command"
  /\ Fault
  /\ RollBack(s) \/ Abandon(s)
  /\ UNCHANGED <<evidence, dag, ledger, callbacks, lost, activity, commands>>

-----------------------------------------------------------------------------
\* A step of a database session that waits for nobody.
SessionStep(s) == (Read(s) \/ Commit(s) \/ SessionEnds(s)) /\ UNCHANGED workflowVars

RefreshStep(s) == SessionStep(s) \/ RefreshReturns(s) \/ CommandReturns(s)

TaskStep ==
  \/ Resolve \/ Check \/ Assess \/ Reconcile \/ Validate \/ Record \/ RefreshRefused
  \/ \E s \in Sessions : StartRefresh(s)

Next ==
  \/ \E d \in Days : Reject(d) \/ \E t \in 1..Hours : Beat(d, t)
  \/ \E d \in Days, t \in 1..Hours, late \in BOOLEAN : Observe(d, t, late)
  \/ TransitionIncident
  \/ \E q \in Requests : Trigger(q)
  \/ Clear
  \/ TaskStep
  \/ TaskFails
  \/ RunTimesOut
  \/ \E c \in callbacks : FailureCallback(c) \/ CallbackLost(c)
  \/ \E s \in Sessions : RefreshStep(s) \/ RefreshFails(s) \/ CommandFails(s)
  \/ \E s \in Sessions, selection \in Commands : CommandStarts(s, selection)

Spec == Init /\ [][Next]_vars

\* The scheduler runs the tasks of a run, the DAG processor the callbacks, and
\* PostgreSQL finishes statements and notices closed connections.
Fairness ==
  /\ WF_vars(TaskStep)
  /\ WF_vars(\E c \in callbacks : FailureCallback(c))
  /\ \A s \in Sessions : WF_vars(RefreshStep(s))

FairSpec == Spec /\ Fairness

-----------------------------------------------------------------------------
(* Properties                                                              *)

TypeOK ==
  /\ AnalyticsTypeOK
  /\ evidence \in [Days -> Evidence]
  /\ dag \in DagRuns
  /\ ledger \in [Ranges -> Rows]
  /\ callbacks \subseteq Callbacks
  /\ lost \subseteq Ranges \union {NoRange}
  /\ activity \in 0..MaxActivity
  /\ commands \in 0..MaxCommands
  /\ faults \in 0..MaxFaults

\* A range reported as a success passed the gate, was refreshed by a run of that
\* very range, and its facts hold at least what the gate has counted, whatever
\* was refreshed, failed or cleared since (orchestration/repository.py 189-210).
SuccessCoversSource ==
  \A range \in Ranges :
    ledger[range].status = "success" =>
      /\ ledger[range].source \notin {"missing", "stale", "invalid"}
      /\ jobRuns[ledger[range].run].selection = range
      /\ MapThenSumSet(LAMBDA d : facts[d], DaysOf(range)) >= ledger[range].observations

\* A row that says running has a run at work on it, a callback on its way, or
\* lost its callback to an outage (DAG file 37-58).
RunningIsAttended ==
  \A range \in Ranges :
    ledger[range].status = "running" =>
      \/ dag.state = "running" /\ dag.range = range
      \/ \E c \in callbacks : KeyOf(c.request) = range
      \/ range \in lost

\* Reconciliation fails a run only when the operational tables have changed since
\* the snapshot of its refresh, not because of other refreshes of its days
\* (orchestration/repository.py 228-312).
MismatchMeansNewData ==
  dag.mismatch =>
    LET row == jobRuns[dag.run] IN
    \/ incidents # row.incidents
    \/ \E d \in DaysOf(dag.range) : observed[d] # row.daily[d]

\* No range stays running for ever unless its callback was lost.
RunSettles ==
  \A range \in Ranges :
    ledger[range].status = "running" ~> ledger[range].status # "running" \/ range \in lost
=============================================================================
