-------------------------- MODULE DailyWorkflowProofs --------------------------
(***************************************************************************)
(* Machine-checked proofs about DailyAnalytics under the workflow of       *)
(* DailyWorkflow, for every number of sessions, days, requests, retries    *)
(* and faults.                                                             *)
(***************************************************************************)
EXTENDS DailyWorkflow, Sums, TLAPS

-----------------------------------------------------------------------------
(* The steps of the analytics                                              *)

\* The operational tables change: observations and transitions are added.
SourceGrows ==
  /\ \/ \E d \in Days : observed' = [observed EXCEPT ![d] = @ + 1] /\ UNCHANGED incidents
     \/ incidents' = incidents + 1 /\ UNCHANGED observed
  /\ UNCHANGED <<reportVars, lock, session>>

\* The clients of some sessions are gone.
ClientsGo ==
  /\ \E gone \in SUBSET Sessions :
       session' = [s \in Sessions |-> IF s \in gone THEN [session[s] EXCEPT !.client = "gone"]
                                                    ELSE session[s]]
  /\ UNCHANGED <<sourceVars, reportVars, lock>>

SessionMoves(s) ==
  \/ \E client \in Clients, selection \in Selections : Acquire(s, client, selection)
  \/ Read(s) \/ Commit(s) \/ Unlock(s) \/ RollBack(s) \/ Abandon(s) \/ SessionEnds(s)

AnalyticsNext == SourceGrows \/ ClientsGo \/ \E s \in Sessions : SessionMoves(s)

\* Whatever the workflow, its operators or a command does, the analytics takes one
\* of these steps or none.
LEMMA AnalyticsSteps ==
  ASSUME dag \in DagRuns, [Next]_vars
  PROVE  [AnalyticsNext]_analyticsVars
<1>1. ASSUME NEW d \in Days, NEW t \in 1..Hours, NEW late \in BOOLEAN, Observe(d, t, late)
      PROVE  SourceGrows
  BY <1>1 DEF Observe, SourceGrows, reportVars
<1>2. ASSUME TransitionIncident
      PROVE  SourceGrows
  BY <1>2 DEF TransitionIncident, SourceGrows, reportVars
<1>3. ASSUME NEW s \in Sessions, StartRefresh(s)
      PROVE  SessionMoves(s)
  BY <1>3 DEF StartRefresh, SessionMoves, DagRuns, NoRange, Selections, Clients
<1>4. ASSUME NEW s \in Sessions, NEW selection \in Commands, CommandStarts(s, selection)
      PROVE  SessionMoves(s)
  BY <1>4, WorkflowAssumption DEF CommandStarts, SessionMoves, Clients
<1>5. ASSUME NEW s \in Sessions, RefreshStep(s) \/ RefreshFails(s) \/ CommandFails(s)
      PROVE  SessionMoves(s)
  BY <1>5 DEF RefreshStep, SessionStep, RefreshReturns, CommandReturns, RefreshFails,
    CommandFails, SessionMoves
<1>6. ASSUME RunTimesOut
      PROVE  ClientsGo
  <2>1. session' = [s \in Sessions |-> IF s \in {r \in Sessions : session[r].client = "workflow"}
                                         THEN [session[s] EXCEPT !.client = "gone"]
                                         ELSE session[s]]
    BY <1>6 DEF RunTimesOut
  <2>2. {r \in Sessions : session[r].client = "workflow"} \in SUBSET Sessions
    OBVIOUS
  <2>3. QED
    BY <1>6, <2>1, <2>2 DEF RunTimesOut, ClientsGo
<1>7. CASE UNCHANGED vars
  BY <1>7 DEF vars
<1>8. ASSUME \/ \E d \in Days : Reject(d) \/ \E t \in 1..Hours : Beat(d, t)
             \/ \E q \in Requests : Trigger(q)
             \/ Clear \/ Resolve \/ Check \/ Assess \/ Reconcile \/ Validate \/ Record
             \/ RefreshRefused \/ TaskFails
             \/ \E c \in callbacks : FailureCallback(c) \/ CallbackLost(c)
      PROVE  UNCHANGED analyticsVars
  BY <1>8 DEF Reject, Beat, Trigger, Clear, Resolve, Check, Assess, Reconcile, Validate,
    Record, RefreshRefused, TaskFails, FailureCallback, CallbackLost
<1>9. QED
  BY <1>1, <1>2, <1>3, <1>4, <1>5, <1>6, <1>7, <1>8 DEF Next, TaskStep, AnalyticsNext

-----------------------------------------------------------------------------
(* Type correctness                                                        *)

\* A committing session leaves typed reports.
LEMMA PublishTyped ==
  ASSUME AnalyticsTypeOK, NEW call \in Calls, Publish(call)
  PROVE  /\ facts' \in [Days -> Nat] /\ factIncidents' \in Nat /\ jobRuns' \in Seq(JobRuns)
         /\ Len(jobRuns') \in Nat
<1>1. facts' \in [Days -> Nat] /\ factIncidents' \in Nat
  BY DEF AnalyticsTypeOK, Publish, Replaced, Calls
<1>2. [selection |-> call.selection, daily |-> call.daily, incidents |-> call.incidents]
        \in JobRuns
  BY DEF JobRuns, Calls
<1>3. jobRuns' \in Seq(JobRuns)
  BY <1>2 DEF AnalyticsTypeOK, Publish
<1>4. QED
  BY <1>1, <1>3

\* The days of a refresh are days.
LEMMA BoundsAreDays ==
  ASSUME NEW selection \in Selections
  PROVE  Bounds(selection) \subseteq Days
<1>1. CASE selection = All
  BY <1>1 DEF Bounds
<1>2. CASE selection # All
  BY <1>2, AnalyticsAssumption DEF Bounds, Selections, Ranges, Days
<1>3. QED
  BY <1>1, <1>2

LEMMA IdleTyped == Idle \in Calls /\ Idle.pc = "idle"
BY DEF Idle, Calls, Clients, Selections, Zeroes

LEMMA AnalyticsTypeStep ==
  ASSUME AnalyticsTypeOK, [AnalyticsNext]_analyticsVars
  PROVE  AnalyticsTypeOK'
<1>1. CASE SourceGrows
  BY <1>1 DEF AnalyticsTypeOK, SourceGrows, reportVars
<1>2. CASE ClientsGo
  <2>1. \A c \in Calls : [c EXCEPT !.client = "gone"] \in Calls
    BY DEF Calls, Clients
  <2>2. session' \in [Sessions -> Calls]
    BY <1>2, <2>1 DEF AnalyticsTypeOK, ClientsGo
  <2>3. QED
    BY <1>2, <2>2 DEF AnalyticsTypeOK, ClientsGo, sourceVars, reportVars
<1>3. ASSUME NEW s \in Sessions, SessionMoves(s)
      PROVE  AnalyticsTypeOK'
  <2>0. session[s] \in Calls
    BY DEF AnalyticsTypeOK
  <2>1. ASSUME NEW client \in Clients, NEW selection \in Selections,
               Acquire(s, client, selection)
        PROVE  AnalyticsTypeOK'
    <3>1. [Idle EXCEPT !.pc = "locked", !.client = client, !.selection = selection] \in Calls
      BY IdleTyped DEF Calls
    <3>2. QED
      BY <2>1, <3>1 DEF AnalyticsTypeOK, Acquire, sourceVars, reportVars
  <2>2. CASE Read(s)
    <3>1. Bounds(session[s].selection) \subseteq Days
      BY <2>0, BoundsAreDays DEF Calls
    <3>2. [session[s] EXCEPT !.pc = "read", !.days = Bounds(session[s].selection),
                             !.daily = observed, !.incidents = incidents, !.before = facts]
            \in Calls
      BY <2>0, <3>1 DEF AnalyticsTypeOK, Calls
    <3>3. session' \in [Sessions -> Calls]
      BY <2>2, <3>2 DEF AnalyticsTypeOK, Read
    <3>4. QED
      BY <2>2, <3>3 DEF AnalyticsTypeOK, Read, sourceVars, reportVars
  <2>3. CASE Commit(s)
    <3>1. /\ facts' \in [Days -> Nat] /\ factIncidents' \in Nat /\ jobRuns' \in Seq(JobRuns)
          /\ Len(jobRuns') \in Nat
      BY <2>0, <2>3, PublishTyped DEF Commit
    <3>2. [session[s] EXCEPT !.pc = "committed", !.run = Len(jobRuns')] \in Calls
      BY <2>0, <3>1 DEF Calls
    <3>3. session' \in [Sessions -> Calls]
      BY <2>3, <3>2 DEF AnalyticsTypeOK, Commit
    <3>4. QED
      BY <2>3, <3>1, <3>3 DEF AnalyticsTypeOK, Commit, sourceVars
  <2>4. ASSUME Release(s)
        PROVE  session' \in [Sessions -> Calls] /\ lock' \in Sessions \union {NoSession}
    BY <2>4, IdleTyped DEF AnalyticsTypeOK, Release
  <2>5. CASE Unlock(s) \/ RollBack(s)
    BY <2>4, <2>5 DEF AnalyticsTypeOK, Unlock, RollBack, sourceVars, reportVars
  <2>6. CASE Abandon(s)
    <3>1. [session[s] EXCEPT !.client = "gone"] \in Calls
      BY <2>0 DEF Calls, Clients
    <3>2. QED
      BY <2>6, <3>1 DEF AnalyticsTypeOK, Abandon, sourceVars, reportVars
  <2>7. CASE SessionEnds(s)
    <3>1. /\ facts' \in [Days -> Nat] /\ factIncidents' \in Nat /\ jobRuns' \in Seq(JobRuns)
      BY <2>0, <2>7, PublishTyped DEF SessionEnds, reportVars, AnalyticsTypeOK
    <3>2. QED
      BY <2>4, <2>7, <3>1 DEF AnalyticsTypeOK, SessionEnds, sourceVars
  <2>8. QED
    BY <1>3, <2>1, <2>2, <2>3, <2>5, <2>6, <2>7 DEF SessionMoves
<1>4. CASE UNCHANGED analyticsVars
  BY <1>4 DEF AnalyticsTypeOK, analyticsVars
<1>5. QED
  BY <1>1, <1>2, <1>3, <1>4 DEF AnalyticsNext

\* A task that does not succeed leaves a typed run.
LEMMA FailureTyped ==
  ASSUME dag \in DagRuns
  PROVE  /\ FailRun(TRUE) \/ FailRun(FALSE) => dag' \in DagRuns
         /\ FailTask => dag' \in DagRuns
<1>1. ASSUME FailRun(TRUE) \/ FailRun(FALSE)
      PROVE  dag' \in DagRuns
  BY <1>1 DEF DagRuns, FailRun
<1>2. ASSUME FailTask
      PROVE  dag' \in DagRuns
  <2>1. CASE dag.task \in Transient /\ dag.tries < Retries
    BY <1>2, <2>1, WorkflowAssumption DEF DagRuns, FailTask
  <2>2. CASE ~(dag.task \in Transient /\ dag.tries < Retries)
    BY <1>1, <1>2, <2>2 DEF FailTask
  <2>3. QED
    BY <2>1, <2>2
<1>3. QED
  BY <1>1, <1>2

LEMMA AdvanceTyped ==
  ASSUME dag \in DagRuns, Advance
  PROVE  dag' \in DagRuns
<1>1. \A task \in Tasks : Following[task] \in Tasks
  BY DEF Tasks, Following
<1>2. 0 \in 0..Retries
  BY WorkflowAssumption
<1>3. QED
  BY <1>1, <1>2 DEF DagRuns, Advance

LEMMA DagTypeStep ==
  ASSUME AnalyticsTypeOK, dag \in DagRuns, [Next]_vars
  PROVE  dag' \in DagRuns
<1> USE WorkflowAssumption
<1>0. 0 \in 0..Retries
  OBVIOUS
<1>1. ASSUME NEW q \in Requests, Trigger(q)
      PROVE  dag' \in DagRuns
  <2>1. dag.start + 1 \in 0..MaxStarts
    BY <1>1 DEF Trigger, DagRuns
  <2>2. QED
    BY <1>1, <2>1 DEF Trigger, DagRuns, Tasks
<1>2. CASE Clear
  <2>1. dag.start + 1 \in 0..MaxStarts
    BY <1>2 DEF Clear, DagRuns
  <2>2. QED
    BY <1>0, <1>2, <2>1 DEF Clear, DagRuns
<1>3. CASE Resolve
  <2>1. CASE Selectable(dag.request)
    <3>1. Selected(dag.request) \in Ranges \union {NoRange}
      BY <2>1 DEF Selectable
    <3>2. dag' = [dag EXCEPT !.task = "check", !.range = Selected(dag.request)]
      BY <1>3, <2>1 DEF Resolve
    <3>3. QED
      BY <3>1, <3>2 DEF DagRuns, Tasks
  <2>2. CASE ~Selectable(dag.request)
    BY <1>3, <2>2, FailureTyped DEF Resolve
  <2>3. QED
    BY <2>1, <2>2
<1>4. CASE Check \/ Assess \/ Reconcile \/ Validate \/ Record
  BY <1>4, FailureTyped, AdvanceTyped DEF Check, Assess, Reconcile, Validate, Record
<1>5. CASE RefreshRefused \/ TaskFails \/ RunTimesOut
  BY <1>5, FailureTyped DEF RefreshRefused, TaskFails, RunTimesOut
<1>6. ASSUME NEW s \in Sessions, RefreshFails(s)
      PROVE  dag' \in DagRuns
  BY <1>6, FailureTyped DEF RefreshFails
<1>7. ASSUME NEW s \in Sessions, RefreshReturns(s)
      PROVE  dag' \in DagRuns
  <2>1. session[s].run \in Nat
    BY DEF AnalyticsTypeOK, Calls
  <2>2. QED
    BY <1>0, <1>7, <2>1 DEF RefreshReturns, DagRuns, Tasks
<1>8. ASSUME \/ \E d \in Days : Reject(d) \/ \E t \in 1..Hours : Beat(d, t)
             \/ \E d \in Days, t \in 1..Hours, late \in BOOLEAN : Observe(d, t, late)
             \/ TransitionIncident
             \/ \E c \in callbacks : FailureCallback(c) \/ CallbackLost(c)
             \/ \E s \in Sessions : \/ StartRefresh(s) \/ SessionStep(s)
                                    \/ CommandReturns(s) \/ CommandFails(s)
             \/ \E s \in Sessions, selection \in Commands : CommandStarts(s, selection)
             \/ UNCHANGED vars
      PROVE  UNCHANGED dag
  BY <1>8 DEF Reject, Beat, Observe, TransitionIncident, FailureCallback, CallbackLost,
    StartRefresh, SessionStep, CommandReturns, CommandFails, CommandStarts, vars,
    workflowVars
<1>9. QED
  BY <1>1, <1>2, <1>3, <1>4, <1>5, <1>6, <1>7, <1>8 DEF Next, TaskStep, RefreshStep

\* The refreshes, the reports and the run of the DAG keep their types.
Typed == AnalyticsTypeOK /\ dag \in DagRuns

LEMMA TypedInvariant == Spec => []Typed
<1>1. Init => Typed
  <2> SUFFICES ASSUME Init
               PROVE  Typed
    OBVIOUS
  <2>1. AnalyticsTypeOK
    BY IdleTyped, AnalyticsAssumption DEF Init, AnalyticsInit, AnalyticsTypeOK, Days, Zeroes
  <2>2. dag \in DagRuns
    BY WorkflowAssumption DEF Init, DagRuns, Tasks
  <2>3. QED
    BY <2>1, <2>2 DEF Typed
<1>2. Typed /\ [Next]_vars => Typed'
  BY AnalyticsSteps, AnalyticsTypeStep, DagTypeStep DEF Typed
<1>3. QED
  BY <1>1, <1>2, PTL DEF Spec

-----------------------------------------------------------------------------
(* The advisory lock and the snapshots                                     *)

\* The session that holds the lock is the only one at work.
LockHeld ==
  \A s \in Sessions :
    /\ session[s].pc # "idle" <=> lock = s
    /\ session[s].pc = "idle" => session[s].client = "gone"

ReportsBehind ==
  /\ \A d \in Days : facts[d] <= observed[d]
  /\ factIncidents <= incidents

\* The snapshot of a call lies between the reports and the operational tables.
SnapshotOK(call) ==
  /\ facts = call.before
  /\ \A d \in Days : facts[d] <= call.daily[d] /\ call.daily[d] <= observed[d]
  /\ factIncidents <= call.incidents /\ call.incidents <= incidents
  /\ \A d \in Days : call.selection[1] <= d /\ d <= call.selection[2] => d \in call.days

Snapshots == \A s \in Sessions : session[s].pc = "read" => SnapshotOK(session[s])

\* What a refresh has written is not undone by later ones.
RowBehind(row) ==
  /\ row.incidents <= factIncidents
  /\ \A d \in Days :
       /\ row.daily[d] <= observed[d]
       /\ row.selection[1] <= d /\ d <= row.selection[2] => row.daily[d] <= facts[d]

RowsBehind == \A r \in 1..Len(jobRuns) : RowBehind(jobRuns[r])

Returned(call) ==
  /\ call.run \in 1..Len(jobRuns)
  /\ jobRuns[call.run].selection = call.selection

Results == \A s \in Sessions : session[s].pc = "committed" => Returned(session[s])

AnalyticsInv == LockHeld /\ ReportsBehind /\ Snapshots /\ RowsBehind /\ Results

\* A refresh that publishes its snapshot moves the reports forward only, and adds
\* its row behind those of the earlier refreshes.
LEMMA PublishMovesForward ==
  ASSUME AnalyticsTypeOK, AnalyticsInv, NEW call \in Calls, SnapshotOK(call), Publish(call),
         UNCHANGED sourceVars
  PROVE  /\ \A d \in Days : facts[d] <= facts'[d]
         /\ factIncidents <= factIncidents'
         /\ ReportsBehind' /\ RowsBehind'
         /\ Len(jobRuns') = Len(jobRuns) + 1
         /\ \A r \in 1..Len(jobRuns) : jobRuns'[r] = jobRuns[r]
         /\ jobRuns'[Len(jobRuns) + 1].selection = call.selection
<1> DEFINE row == [selection |-> call.selection, daily |-> call.daily,
                   incidents |-> call.incidents]
<1>1. /\ \A d \in Days : /\ observed[d] \in Nat /\ facts[d] \in Nat /\ call.daily[d] \in Nat
                         /\ facts'[d] = IF d \in call.days THEN call.daily[d] ELSE facts[d]
      /\ observed' = observed /\ incidents' = incidents
  BY DEF AnalyticsTypeOK, Calls, Publish, Replaced, sourceVars
<1>2. /\ factIncidents' = call.incidents
      /\ {factIncidents, incidents, call.incidents} \subseteq Nat
  BY DEF AnalyticsTypeOK, Calls, Publish
<1>3. \A d \in Days : facts[d] <= facts'[d]
  BY <1>1 DEF SnapshotOK
<1>4. factIncidents <= factIncidents'
  BY <1>2 DEF SnapshotOK
<1>5. ReportsBehind'
  BY <1>1, <1>2 DEF ReportsBehind, SnapshotOK, AnalyticsInv
<1>6. /\ Len(jobRuns) \in Nat
      /\ Len(jobRuns') = Len(jobRuns) + 1
      /\ \A r \in 1..Len(jobRuns) : jobRuns'[r] = jobRuns[r] /\ jobRuns[r] \in JobRuns
      /\ jobRuns'[Len(jobRuns) + 1] = row
  BY DEF AnalyticsTypeOK, Publish
<1>7. ASSUME NEW r \in 1..Len(jobRuns)
      PROVE  RowBehind(jobRuns[r])'
  <2>1. PICK old \in JobRuns : old = jobRuns[r] /\ old = jobRuns'[r]
    BY <1>6
  <2>2. RowBehind(old)
    BY <2>1 DEF AnalyticsInv, RowsBehind
  <2>3. old.incidents \in Nat /\ \A d \in Days : old.daily[d] \in Nat
    BY DEF JobRuns
  <2>4. old.incidents <= factIncidents'
    BY <1>2, <1>4, <2>2, <2>3 DEF RowBehind
  <2>5. ASSUME NEW d \in Days, old.selection[1] <= d, d <= old.selection[2]
        PROVE  old.daily[d] <= facts'[d]
    BY <1>1, <1>3, <2>2, <2>3, <2>5 DEF RowBehind
  <2>6. RowBehind(old)'
    BY <1>1, <2>2, <2>4, <2>5 DEF RowBehind
  <2>7. QED
    BY <2>1, <2>6 DEF RowBehind
<1>8. /\ row.incidents = call.incidents /\ row.daily = call.daily
      /\ row.selection = call.selection
  OBVIOUS
<1>9. RowBehind(jobRuns[Len(jobRuns)])'
  <2>1. ASSUME NEW d \in Days, call.selection[1] <= d, d <= call.selection[2]
        PROVE  call.daily[d] <= facts'[d]
    BY <1>1, <2>1 DEF SnapshotOK
  <2>2. \A d \in Days : call.daily[d] <= observed'[d]
    BY <1>1 DEF SnapshotOK
  <2>3. call.incidents <= factIncidents'
    BY <1>2
  <2>4. jobRuns'[Len(jobRuns')] = row
    BY <1>6
  <2> HIDE DEF row
  <2>5. QED
    BY <1>8, <2>1, <2>2, <2>3, <2>4 DEF RowBehind
<1>10. RowsBehind'
  <2>1. \A r \in 1..Len(jobRuns') : r \in 1..Len(jobRuns) \/ r = Len(jobRuns')
    BY <1>6
  <2>2. QED
    BY <1>7, <1>9, <2>1 DEF RowsBehind
<1>11. QED
  BY <1>3, <1>4, <1>5, <1>6, <1>8, <1>10

\* The one step that publishes, with or without its client.
Publishes(s) == session[s].pc = "read" /\ Publish(session[s]) /\ UNCHANGED sourceVars

\* Every other step of a session leaves the tables alone.
LEMMA SessionPublishesOrNot ==
  ASSUME NEW s \in Sessions, SessionMoves(s)
  PROVE  Publishes(s) \/ UNCHANGED <<sourceVars, reportVars>>
BY DEF SessionMoves, Acquire, Read, Commit, Unlock, RollBack, Abandon, SessionEnds, Publishes

LEMMA TablesMoveForward ==
  ASSUME AnalyticsTypeOK, AnalyticsInv, [AnalyticsNext]_analyticsVars
  PROVE  /\ \A d \in Days : facts'[d] >= facts[d] /\ observed'[d] >= observed[d]
         /\ factIncidents' >= factIncidents /\ incidents' >= incidents
<1>1. /\ \A d \in Days : observed[d] \in Nat /\ facts[d] \in Nat
      /\ factIncidents \in Nat /\ incidents \in Nat
  BY DEF AnalyticsTypeOK
<1>2. CASE SourceGrows
  <2>1. UNCHANGED <<facts, factIncidents>>
    BY <1>2 DEF SourceGrows, reportVars
  <2>2. CASE \E d \in Days : observed' = [observed EXCEPT ![d] = @ + 1] /\ UNCHANGED incidents
    BY <1>1, <2>1, <2>2 DEF AnalyticsTypeOK
  <2>3. CASE incidents' = incidents + 1 /\ UNCHANGED observed
    BY <1>1, <2>1, <2>3
  <2>4. QED
    BY <1>2, <2>2, <2>3 DEF SourceGrows
<1>3. CASE ClientsGo \/ UNCHANGED analyticsVars
  <2>1. UNCHANGED <<observed, incidents, facts, factIncidents>>
    BY <1>3 DEF ClientsGo, analyticsVars, sourceVars, reportVars
  <2>2. QED
    BY <1>1, <2>1
<1>4. ASSUME NEW s \in Sessions, Publishes(s)
      PROVE  /\ \A d \in Days : facts[d] <= facts'[d]
             /\ factIncidents <= factIncidents'
  <2>1. session[s] \in Calls /\ SnapshotOK(session[s])
    BY <1>4 DEF AnalyticsTypeOK, AnalyticsInv, Snapshots, Publishes
  <2>2. QED
    BY <1>4, <2>1, PublishMovesForward DEF Publishes
<1>5. ASSUME NEW s \in Sessions, Publishes(s)
      PROVE  /\ \A d \in Days : facts'[d] \in Nat
             /\ factIncidents' \in Nat /\ UNCHANGED sourceVars
  <2>1. session[s] \in Calls
    BY DEF AnalyticsTypeOK
  <2>2. QED
    BY <1>5, <2>1, PublishTyped DEF Publishes
<1>6. CASE \E s \in Sessions : SessionMoves(s)
  <2>1. PICK s \in Sessions : SessionMoves(s)
    BY <1>6
  <2>2. CASE Publishes(s)
    BY <1>1, <1>4, <1>5, <2>2 DEF sourceVars
  <2>3. CASE UNCHANGED <<sourceVars, reportVars>>
    BY <1>1, <2>3 DEF sourceVars, reportVars
  <2>4. QED
    BY <2>1, <2>2, <2>3, SessionPublishesOrNot
<1>7. QED
  BY <1>2, <1>3, <1>6 DEF AnalyticsNext

\* What a step of one session does to that session.
LEMMA SessionAfter ==
  ASSUME AnalyticsTypeOK, NEW s \in Sessions, SessionMoves(s)
  PROVE  /\ session' \in [Sessions -> Calls]
         /\ \A t \in Sessions \ {s} : session'[t] = session[t]
         /\ \/ session'[s] = Idle
            \/ session'[s].pc # "idle"
         /\ \/ session[s].pc = "idle" /\ lock = NoSession /\ lock' = s /\ session'[s].pc # "idle"
            \/ session[s].pc # "idle" /\ lock' = lock /\ session'[s].pc # "idle"
            \/ /\ session[s].pc # "idle" /\ session'[s] = Idle
               /\ lock' = IF lock = s THEN NoSession ELSE lock
<1>1. session' \in [Sessions -> Calls]
  BY AnalyticsTypeStep DEF AnalyticsNext, AnalyticsTypeOK
<1>2. session \in [Sessions -> Calls] /\ session[s] \in Calls
  BY DEF AnalyticsTypeOK
<1>3. ASSUME NEW client \in Clients, NEW selection \in Selections,
             Acquire(s, client, selection)
      PROVE  /\ session[s].pc = "idle" /\ lock = NoSession /\ lock' = s
             /\ session'[s].pc # "idle" /\ \A t \in Sessions \ {s} : session'[t] = session[t]
  <2>1. [Idle EXCEPT !.pc = "locked", !.client = client, !.selection = selection].pc = "locked"
    BY DEF Idle
  <2>2. session'[s] = [Idle EXCEPT !.pc = "locked", !.client = client,
                                   !.selection = selection]
    BY <1>2, <1>3 DEF Acquire
  <2>3. QED
    BY <1>2, <1>3, <2>1, <2>2 DEF Acquire, MayLock
<1>4. CASE Read(s) \/ Commit(s) \/ Abandon(s)
  <2>1. session[s].pc # "idle" /\ session'[s].pc # "idle" /\ lock' = lock
    BY <1>2, <1>4 DEF Read, Commit, Abandon, Calls
  <2>2. \A t \in Sessions \ {s} : session'[t] = session[t]
    BY <1>2, <1>4 DEF Read, Commit, Abandon
  <2>3. QED
    BY <1>1, <2>1, <2>2
<1>5. CASE Unlock(s) \/ RollBack(s) \/ SessionEnds(s)
  <2>1. session[s].pc # "idle" /\ Release(s)
    BY <1>5 DEF Unlock, RollBack, SessionEnds
  <2>2. session'[s] = Idle /\ \A t \in Sessions \ {s} : session'[t] = session[t]
    BY <1>2, <2>1 DEF Release
  <2>3. QED
    BY <1>1, <2>1, <2>2 DEF Release
<1>6. QED
  BY <1>1, <1>3, <1>4, <1>5 DEF SessionMoves

LEMMA LockStep ==
  ASSUME AnalyticsTypeOK, LockHeld, [AnalyticsNext]_analyticsVars
  PROVE  LockHeld'
<1>0. NoSession \notin Sessions
  BY AnalyticsAssumption
<1>1. CASE ClientsGo
  <2>1. PICK gone \in SUBSET Sessions :
          session' = [s \in Sessions |-> IF s \in gone
                                           THEN [session[s] EXCEPT !.client = "gone"]
                                           ELSE session[s]]
    BY <1>1 DEF ClientsGo
  <2>2. \A s \in Sessions : /\ session'[s].pc = session[s].pc
                            /\ session'[s].client \in {session[s].client, "gone"}
    BY <2>1 DEF AnalyticsTypeOK, Calls
  <2>3. QED
    BY <1>1, <2>2 DEF ClientsGo, LockHeld
<1>2. CASE \E s \in Sessions : SessionMoves(s)
  <2>1. PICK s \in Sessions : SessionMoves(s)
    BY <1>2
  <2>2. Idle.pc = "idle" /\ Idle.client = "gone"
    BY DEF Idle
  <2>3. QED
    BY <1>0, <2>1, <2>2, SessionAfter DEF LockHeld
<1>3. CASE SourceGrows \/ UNCHANGED analyticsVars
  BY <1>3 DEF SourceGrows, analyticsVars, LockHeld
<1>4. QED
  BY <1>1, <1>2, <1>3 DEF AnalyticsNext

LEMMA ReportsStep ==
  ASSUME AnalyticsTypeOK, AnalyticsInv, [AnalyticsNext]_analyticsVars
  PROVE  ReportsBehind' /\ RowsBehind'
<1>1. ASSUME UNCHANGED reportVars
      PROVE  ReportsBehind' /\ RowsBehind'
  <2>1. /\ \A d \in Days : /\ facts'[d] = facts[d] /\ facts[d] \in Nat
                           /\ observed[d] \in Nat /\ observed'[d] \in Nat
        /\ {factIncidents, incidents, incidents'} \subseteq Nat
        /\ factIncidents' = factIncidents
    BY <1>1, AnalyticsTypeStep DEF AnalyticsTypeOK, reportVars
  <2>2. ReportsBehind'
    BY <2>1, TablesMoveForward DEF AnalyticsInv, ReportsBehind
  <2>3. ASSUME NEW r \in 1..Len(jobRuns)
        PROVE  RowBehind(jobRuns[r])'
    <3>1. PICK row \in JobRuns : row = jobRuns[r] /\ row = jobRuns'[r]
      BY <1>1 DEF AnalyticsTypeOK, reportVars
    <3>2. RowBehind(row)
      BY <3>1 DEF AnalyticsInv, RowsBehind
    <3>3. \A d \in Days : row.daily[d] \in Nat
      BY DEF JobRuns
    <3>4. RowBehind(row)'
      BY <2>1, <3>2, <3>3, TablesMoveForward DEF RowBehind
    <3>5. QED
      BY <3>1, <3>4 DEF RowBehind
  <2>4. QED
    BY <1>1, <2>2, <2>3 DEF RowsBehind, reportVars
<1>2. CASE \E s \in Sessions : SessionMoves(s)
  <2>1. PICK s \in Sessions : SessionMoves(s)
    BY <1>2
  <2>2. CASE Publishes(s)
    <3>1. session[s] \in Calls /\ SnapshotOK(session[s])
      BY <2>2 DEF AnalyticsTypeOK, AnalyticsInv, Snapshots, Publishes
    <3>2. QED
      BY <2>2, <3>1, PublishMovesForward DEF Publishes
  <2>3. QED
    BY <1>1, <2>1, <2>2, SessionPublishesOrNot
<1>3. CASE SourceGrows \/ ClientsGo \/ UNCHANGED analyticsVars
  BY <1>1, <1>3 DEF SourceGrows, ClientsGo, analyticsVars, reportVars
<1>4. QED
  BY <1>2, <1>3 DEF AnalyticsNext

\* A snapshot stays good while the reports are as they were.
LEMMA SnapshotKeeps ==
  ASSUME AnalyticsTypeOK, AnalyticsInv, [AnalyticsNext]_analyticsVars, UNCHANGED reportVars,
         NEW call \in Calls, SnapshotOK(call)
  PROVE  SnapshotOK(call)'
<1>1. /\ \A d \in Days : facts[d] \in Nat /\ observed[d] \in Nat /\ observed'[d] \in Nat
      /\ {incidents, incidents', call.incidents} \subseteq Nat
      /\ \A d \in Days : call.daily[d] \in Nat
  BY AnalyticsTypeStep DEF AnalyticsTypeOK, Calls
<1>2. facts' = facts /\ factIncidents' = factIncidents
  BY DEF reportVars
<1>3. \A d \in Days : facts'[d] <= call.daily[d] /\ call.daily[d] <= observed'[d]
  BY <1>1, <1>2, TablesMoveForward DEF SnapshotOK
<1>4. factIncidents' <= call.incidents /\ call.incidents <= incidents'
  BY <1>1, <1>2, TablesMoveForward DEF SnapshotOK
<1>5. QED
  BY <1>2, <1>3, <1>4 DEF SnapshotOK

LEMMA SnapshotsStep ==
  ASSUME AnalyticsTypeOK, AnalyticsInv, [AnalyticsNext]_analyticsVars
  PROVE  Snapshots'
<1>1. ASSUME UNCHANGED reportVars, NEW t \in Sessions, session[t].pc = "read",
             \/ session'[t] = session[t]
             \/ session'[t] = [session[t] EXCEPT !.client = "gone"]
      PROVE  SnapshotOK(session[t])'
  <2>1. PICK call \in Calls : call = session[t] /\ SnapshotOK(call)
    BY <1>1 DEF AnalyticsTypeOK, AnalyticsInv, Snapshots
  <2>2. SnapshotOK(call)'
    BY <1>1, <2>1, SnapshotKeeps
  <2>3. PICK next : next = session'[t]
    OBVIOUS
  <2>4. /\ next.daily = call.daily /\ next.incidents = call.incidents
        /\ next.before = call.before /\ next.days = call.days
        /\ next.selection = call.selection
    BY <1>1, <2>1, <2>3 DEF Calls
  <2>5. SnapshotOK(next)'
    BY <2>2, <2>4 DEF SnapshotOK
  <2>6. QED
    BY <2>3, <2>5 DEF SnapshotOK
<1>2. CASE ClientsGo
  <2>1. ASSUME NEW t \in Sessions
        PROVE  session'[t] \in {session[t], [session[t] EXCEPT !.client = "gone"]}
    BY <1>2 DEF ClientsGo
  <2>2. ASSUME NEW t \in Sessions
        PROVE  session'[t].pc = session[t].pc
    <3>1. session[t] \in Calls
      BY DEF AnalyticsTypeOK
    <3>2. [session[t] EXCEPT !.client = "gone"].pc = session[t].pc
      BY <3>1 DEF Calls
    <3>3. session'[t] = session[t] \/ session'[t] = [session[t] EXCEPT !.client = "gone"]
      BY <2>1
    <3>4. QED
      BY <3>2, <3>3
  <2>3. UNCHANGED reportVars
    BY <1>2 DEF ClientsGo
  <2>4. QED
    BY <1>1, <2>1, <2>2, <2>3 DEF Snapshots
<1>3. CASE SourceGrows \/ UNCHANGED analyticsVars
  <2>1. UNCHANGED reportVars /\ session' = session
    BY <1>3 DEF SourceGrows, analyticsVars, reportVars
  <2>2. QED
    BY <1>1, <2>1 DEF Snapshots
<1>4. ASSUME NEW s \in Sessions, SessionMoves(s), NEW t \in Sessions, session'[t].pc = "read"
      PROVE  SnapshotOK(session[t])'
  <2>0. session[s] \in Calls /\ session[t] \in Calls /\ Idle.pc = "idle"
    BY DEF AnalyticsTypeOK, Idle
  <2>1. CASE t # s
    <3>1. session'[t] = session[t]
      BY <1>4, <2>1, SessionAfter
    <3>2. lock = t /\ session[s].pc # "read"
      BY <1>4, <2>1, <3>1 DEF AnalyticsInv, LockHeld
    <3>3. UNCHANGED reportVars
      BY <1>4, <3>2, SessionPublishesOrNot DEF Publishes
    <3>4. QED
      BY <1>1, <1>4, <3>1, <3>3
  <2>2. CASE t = s /\ Read(s)
    <3>1. PICK next : next = session'[s]
      OBVIOUS
    <3>2. /\ next.daily = observed /\ next.incidents = incidents /\ next.before = facts
          /\ next.days = Bounds(session[s].selection)
          /\ next.selection = session[s].selection
      BY <2>0, <2>2, <3>1 DEF Read, Calls, AnalyticsTypeOK
    <3>3. UNCHANGED <<sourceVars, reportVars>>
      BY <2>2 DEF Read
    <3>4. ASSUME NEW d \in Days, session[s].selection[1] <= d, d <= session[s].selection[2]
          PROVE  d \in Bounds(session[s].selection)
      <4>1. CASE session[s].selection = All
        BY <3>4, <4>1 DEF All, Days
      <4>2. CASE session[s].selection # All
        <5>1. session[s].selection \in Ranges
          BY <2>0, <4>2 DEF Calls, Selections
        <5>2. QED
          BY <3>4, <4>2, <5>1, AnalyticsAssumption DEF Bounds, Days, Ranges
      <4>3. QED
        BY <4>1, <4>2
    <3>5. /\ \A d \in Days : facts[d] \in Nat /\ observed[d] \in Nat
          /\ {incidents, factIncidents} \subseteq Nat
      BY DEF AnalyticsTypeOK
    <3>6. SnapshotOK(next)'
      BY <3>2, <3>3, <3>4, <3>5 DEF SnapshotOK, AnalyticsInv, ReportsBehind, sourceVars,
        reportVars
    <3>7. QED
      BY <2>2, <3>1, <3>6 DEF SnapshotOK
  <2>3. CASE t = s /\ Abandon(s)
    <3>1. session'[s] = [session[s] EXCEPT !.client = "gone"] /\ UNCHANGED reportVars
      BY <2>3 DEF Abandon, AnalyticsTypeOK
    <3>2. session[s].pc = "read"
      BY <1>4, <2>0, <2>3, <3>1 DEF Calls
    <3>3. QED
      BY <1>1, <2>3, <3>1, <3>2
  <2>4. CASE t = s /\ Commit(s)
    <3>1. session'[s].pc = "committed"
      BY <2>0, <2>4 DEF Commit, Calls, AnalyticsTypeOK
    <3>2. QED
      BY <1>4, <2>4, <3>1
  <2>5. CASE t = s /\ (Unlock(s) \/ RollBack(s) \/ SessionEnds(s))
    <3>1. session'[s] = Idle
      BY <2>5 DEF Unlock, RollBack, SessionEnds, Release, AnalyticsTypeOK
    <3>2. QED
      BY <1>4, <2>0, <2>5, <3>1
  <2>6. ASSUME t = s, NEW client \in Clients, NEW selection \in Selections,
               Acquire(s, client, selection)
        PROVE  FALSE
    <3>1. session'[s] = [Idle EXCEPT !.pc = "locked", !.client = client,
                                     !.selection = selection]
      BY <2>6 DEF Acquire, AnalyticsTypeOK
    <3>2. session'[s].pc = "locked"
      BY <3>1 DEF Idle
    <3>3. QED
      BY <1>4, <2>6, <3>2
  <2>7. QED
    BY <1>4, <2>1, <2>2, <2>3, <2>4, <2>5, <2>6 DEF SessionMoves
<1>5. QED
  BY <1>2, <1>3, <1>4 DEF AnalyticsNext, Snapshots

\* A result stays what the call has returned: rows are only added.
LEMMA ReturnedKeeps ==
  ASSUME AnalyticsTypeOK, AnalyticsInv, [AnalyticsNext]_analyticsVars
  PROVE  /\ Len(jobRuns') >= Len(jobRuns)
         /\ \A r \in 1..Len(jobRuns) : jobRuns'[r] = jobRuns[r]
<1>1. Len(jobRuns) \in Nat
  BY DEF AnalyticsTypeOK
<1>2. CASE UNCHANGED reportVars
  BY <1>1, <1>2 DEF reportVars
<1>3. CASE \E s \in Sessions : Publishes(s)
  <2>1. PICK s \in Sessions : Publishes(s)
    BY <1>3
  <2>2. session[s] \in Calls /\ SnapshotOK(session[s])
    BY <2>1 DEF AnalyticsTypeOK, AnalyticsInv, Snapshots, Publishes
  <2>3. QED
    BY <1>1, <2>1, <2>2, PublishMovesForward DEF Publishes
<1>4. QED
  BY <1>2, <1>3, SessionPublishesOrNot DEF AnalyticsNext, SourceGrows, ClientsGo, analyticsVars,
    reportVars

LEMMA ResultsStep ==
  ASSUME AnalyticsTypeOK, AnalyticsInv, [AnalyticsNext]_analyticsVars
  PROVE  Results'
<1>0. Len(jobRuns) \in Nat /\ Len(jobRuns') \in Nat
  BY AnalyticsTypeStep DEF AnalyticsTypeOK
<1>1. ASSUME NEW t \in Sessions, session[t].pc = "committed",
             \/ session'[t] = session[t]
             \/ session'[t] = [session[t] EXCEPT !.client = "gone"]
      PROVE  Returned(session[t])'
  <2>1. PICK call \in Calls : call = session[t] /\ Returned(call)
    BY <1>1 DEF AnalyticsTypeOK, AnalyticsInv, Results
  <2>2. PICK next : next = session'[t]
    OBVIOUS
  <2>3. next.run = call.run /\ next.selection = call.selection
    BY <1>1, <2>1, <2>2 DEF Calls
  <2>4. Returned(next)'
    BY <1>0, <2>1, <2>3, ReturnedKeeps DEF Returned
  <2>5. QED
    BY <2>2, <2>4 DEF Returned
<1>2. CASE ClientsGo
  <2>1. ASSUME NEW t \in Sessions
        PROVE  session'[t] = session[t] \/ session'[t] = [session[t] EXCEPT !.client = "gone"]
    BY <1>2 DEF ClientsGo
  <2>2. ASSUME NEW t \in Sessions
        PROVE  [session[t] EXCEPT !.client = "gone"].pc = session[t].pc
    <3>1. session[t] \in Calls
      BY DEF AnalyticsTypeOK
    <3>2. QED
      BY <3>1 DEF Calls
  <2>3. ASSUME NEW t \in Sessions
        PROVE  session'[t].pc = session[t].pc
    BY <2>1, <2>2
  <2>4. QED
    BY <1>1, <2>1, <2>3 DEF Results
<1>3. CASE SourceGrows \/ UNCHANGED analyticsVars
  <2>1. session' = session
    BY <1>3 DEF SourceGrows, analyticsVars
  <2>2. QED
    BY <1>1, <2>1 DEF Results
<1>4. ASSUME NEW s \in Sessions, SessionMoves(s), NEW t \in Sessions,
             session'[t].pc = "committed"
      PROVE  Returned(session[t])'
  <2>0. session[s] \in Calls /\ session[t] \in Calls /\ Idle.pc = "idle"
    BY DEF AnalyticsTypeOK, Idle
  <2>1. CASE t # s
    BY <1>1, <1>4, <2>1, SessionAfter
  <2>2. CASE t = s /\ Commit(s)
    <3>1. PICK call \in Calls : call = session[s]
      BY <2>0
    <3>2. PICK next : next = session'[s]
      OBVIOUS
    <3>3. next.run = Len(jobRuns') /\ next.selection = call.selection
      BY <2>2, <3>1, <3>2 DEF Commit, Calls, AnalyticsTypeOK
    <3>4. Publishes(s)
      BY <2>2 DEF Commit, Publishes
    <3>5. SnapshotOK(call) /\ Publish(call) /\ UNCHANGED sourceVars
      BY <3>1, <3>4 DEF AnalyticsInv, Snapshots, Publishes
    <3>6. Len(jobRuns') = Len(jobRuns) + 1 /\ jobRuns'[Len(jobRuns) + 1].selection = call.selection
      BY <3>5, PublishMovesForward
    <3>7. Returned(next)'
      BY <1>0, <3>3, <3>6 DEF Returned
    <3>8. QED
      BY <2>2, <3>2, <3>7 DEF Returned
  <2>3. CASE t = s /\ Read(s)
    <3>1. session'[s].pc = "read"
      BY <2>0, <2>3 DEF Read, Calls, AnalyticsTypeOK
    <3>2. QED
      BY <1>4, <2>3, <3>1
  <2>4. CASE t = s /\ Abandon(s)
    <3>1. session'[s] = [session[s] EXCEPT !.client = "gone"]
      BY <2>4 DEF Abandon, AnalyticsTypeOK
    <3>2. session[s].pc = "committed"
      BY <1>4, <2>0, <2>4, <3>1 DEF Calls
    <3>3. QED
      BY <1>1, <2>4, <3>1, <3>2
  <2>5. CASE t = s /\ (Unlock(s) \/ RollBack(s) \/ SessionEnds(s))
    <3>1. session'[s] = Idle
      BY <2>5 DEF Unlock, RollBack, SessionEnds, Release, AnalyticsTypeOK
    <3>2. QED
      BY <1>4, <2>0, <2>5, <3>1
  <2>6. ASSUME t = s, NEW client \in Clients, NEW selection \in Selections,
               Acquire(s, client, selection)
        PROVE  FALSE
    <3>1. session'[s] = [Idle EXCEPT !.pc = "locked", !.client = client,
                                     !.selection = selection]
      BY <2>6 DEF Acquire, AnalyticsTypeOK
    <3>2. session'[s].pc = "locked"
      BY <3>1 DEF Idle
    <3>3. QED
      BY <1>4, <2>6, <3>2
  <2>7. QED
    BY <1>4, <2>1, <2>2, <2>3, <2>4, <2>5, <2>6 DEF SessionMoves
<1>5. QED
  BY <1>2, <1>3, <1>4 DEF AnalyticsNext, Results

LEMMA AnalyticsStep ==
  ASSUME Typed, AnalyticsInv, [Next]_vars
  PROVE  AnalyticsInv'
BY AnalyticsSteps, LockStep, ReportsStep, SnapshotsStep, ResultsStep DEF Typed, AnalyticsInv

LEMMA AnalyticsInvariant == Spec => []AnalyticsInv
<1>1. Init => AnalyticsInv
  <2> SUFFICES ASSUME Init
               PROVE  AnalyticsInv
    OBVIOUS
  <2>1. Idle.pc = "idle" /\ Idle.client = "gone"
    BY DEF Idle
  <2>2. LockHeld /\ Snapshots /\ Results
    BY <2>1, AnalyticsAssumption DEF Init, AnalyticsInit, LockHeld, Snapshots, Results
  <2>3. ReportsBehind
    BY AnalyticsAssumption DEF Init, AnalyticsInit, ReportsBehind, Days, Zeroes
  <2>4. RowsBehind
    BY DEF Init, AnalyticsInit, RowsBehind
  <2>5. QED
    BY <2>2, <2>3, <2>4 DEF AnalyticsInv
<1>2. Typed /\ AnalyticsInv /\ [Next]_vars => AnalyticsInv'
  BY AnalyticsStep
<1>3. QED
  BY <1>1, <1>2, TypedInvariant, PTL DEF Spec

\* Refreshes of overlapping days, abandoned ones included, never meet between the
\* snapshot and the delete (repository.py 30-35), whatever the number of sessions.
THEOREM RefreshesDoNotMeet == Spec => []NoWriteConflict
<1>1. AnalyticsInv => NoWriteConflict
  BY DEF AnalyticsInv, Snapshots, SnapshotOK, NoWriteConflict
<1>2. QED
  BY <1>1, AnalyticsInvariant, PTL

\* No refresh replaces a report by an older one (repository.py 122-204).
THEOREM ReportsMoveForward == Spec => ReportMovesForward
<1> DEFINE A == /\ \A d \in Days : facts'[d] >= facts[d]
                /\ factIncidents' >= factIncidents
<1>1. Typed /\ AnalyticsInv /\ [Next]_vars => [A]_analyticsVars
  BY AnalyticsSteps, TablesMoveForward DEF Typed
<1>2. QED
  BY <1>1, TypedInvariant, AnalyticsInvariant, PTL DEF Spec, ReportMovesForward

-----------------------------------------------------------------------------
(* The run of the DAG                                                      *)

AfterRun == {"reconcile", "validate", "record"}

\* The refresh of the workflow belongs to the task that runs, and to its range.
AtWork ==
  \A s \in Sessions :
    session[s].client = "workflow" =>
      /\ dag.state = "running" /\ dag.task = "run"
      /\ session[s].selection = dag.range

RefreshedBy(run, range) ==
  /\ run \in 1..Len(jobRuns)
  /\ jobRuns[run].selection = range

NewDataSince(run, range) ==
  \/ incidents # jobRuns[run].incidents
  \/ \E d \in DaysOf(range) : observed[d] # jobRuns[run].daily[d]

\* After its refresh, a run of the DAG has the row of a refresh of its range; one
\* that has failed to reconcile found newer data than those of that row.
RunOK(run) ==
  /\ run.task # "resolve" => run.range \in Ranges
  /\ run.task \in AfterRun => RefreshedBy(run.run, run.range)
  /\ run.mismatch => run.task \in AfterRun /\ NewDataSince(run.run, run.range)

WorkflowInv == AtWork /\ RunOK(dag)

\* Two refreshes of the workflow are one.
LEMMA OneRefresh ==
  ASSUME AnalyticsInv, NEW s \in Sessions, NEW t \in Sessions,
         session[s].client = "workflow", session[t].client = "workflow"
  PROVE  s = t
BY DEF AnalyticsInv, LockHeld

LEMMA DaysOfRange ==
  ASSUME NEW range \in Ranges, NEW d \in DaysOf(range)
  PROVE  d \in Days /\ range[1] <= d /\ d <= range[2]
BY AnalyticsAssumption DEF DaysOf, Ranges, Days

\* New data do not go away, and neither do the rows.
LEMMA RunKeeps ==
  ASSUME Typed, AnalyticsInv, [Next]_vars, NEW run \in DagRuns, RunOK(run)
  PROVE  RunOK(run)'
<1>0. [AnalyticsNext]_analyticsVars /\ AnalyticsTypeOK /\ Len(jobRuns) \in Nat
  BY AnalyticsSteps DEF Typed, AnalyticsTypeOK
<1>1. ASSUME run.task \in AfterRun
      PROVE  /\ RefreshedBy(run.run, run.range)'
             /\ jobRuns'[run.run] = jobRuns[run.run] /\ jobRuns[run.run] \in JobRuns
  <2>1. run.run \in 1..Len(jobRuns) /\ run.run \in 1..Len(jobRuns')
    BY <1>0, <1>1, ReturnedKeeps, AnalyticsTypeStep DEF RunOK, RefreshedBy, AnalyticsTypeOK
  <2>2. QED
    BY <1>0, <1>1, <2>1, ReturnedKeeps DEF RunOK, RefreshedBy, AnalyticsTypeOK
<1>2. ASSUME run.mismatch
      PROVE  NewDataSince(run.run, run.range)'
  <2>1. PICK row \in JobRuns : row = jobRuns[run.run] /\ row = jobRuns'[run.run]
    BY <1>1, <1>2 DEF RunOK
  <2>2. run.task \in AfterRun /\ run.range \in Ranges /\ NewDataSince(run.run, run.range)
    BY <1>2 DEF RunOK, AfterRun
  <2>3. RowBehind(row)
    BY <2>1, <2>2 DEF AnalyticsInv, RowsBehind, RunOK, RefreshedBy
  <2>4. /\ row.incidents \in Nat /\ {incidents, incidents', factIncidents} \subseteq Nat
        /\ \A d \in Days : /\ row.daily[d] \in Nat /\ observed[d] \in Nat
                           /\ observed'[d] \in Nat
    BY <1>0, AnalyticsTypeStep DEF AnalyticsTypeOK, JobRuns
  <2>5. CASE incidents # row.incidents
    <3>1. row.incidents <= incidents
      BY <2>3, <2>4 DEF AnalyticsInv, ReportsBehind, RowBehind
    <3>2. incidents' # row.incidents
      BY <1>0, <2>4, <2>5, <3>1, TablesMoveForward
    <3>3. QED
      BY <2>1, <3>2 DEF NewDataSince
  <2>6. ASSUME NEW d \in DaysOf(run.range), observed[d] # row.daily[d]
        PROVE  observed'[d] # row.daily[d]
    <3>1. d \in Days
      BY <2>2, DaysOfRange
    <3>2. row.daily[d] <= observed[d] /\ observed[d] <= observed'[d]
      BY <1>0, <2>3, <2>4, <3>1, TablesMoveForward DEF RowBehind
    <3>3. QED
      BY <2>4, <2>6, <3>1, <3>2
  <2>7. QED
    BY <2>1, <2>2, <2>5, <2>6 DEF NewDataSince
<1>3. QED
  BY <1>1, <1>2 DEF RunOK

\* A reconciliation that fails has found newer data.
LEMMA MismatchIsNewData ==
  ASSUME Typed, AnalyticsInv, RunOK(dag), dag.task = "reconcile",
         DailyMismatch(dag.range) \/ IncidentMismatch
  PROVE  NewDataSince(dag.run, dag.range)
<1>1. dag.range \in Ranges /\ RefreshedBy(dag.run, dag.range)
  BY DEF RunOK, AfterRun
<1>2. PICK row \in JobRuns : row = jobRuns[dag.run] /\ RowBehind(row) /\ row.selection = dag.range
  BY <1>1 DEF RefreshedBy, AnalyticsInv, RowsBehind, Typed, AnalyticsTypeOK
<1>3. /\ {row.incidents, incidents, factIncidents} \subseteq Nat
      /\ \A d \in Days : row.daily[d] \in Nat /\ observed[d] \in Nat /\ facts[d] \in Nat
  BY DEF Typed, AnalyticsTypeOK, JobRuns
<1>4. CASE IncidentMismatch
  BY <1>2, <1>3, <1>4 DEF IncidentMismatch, RowBehind, AnalyticsInv, ReportsBehind,
    NewDataSince
<1>5. ASSUME NEW d \in DaysOf(dag.range), facts[d] # observed[d]
      PROVE  observed[d] # row.daily[d]
  <2>1. d \in Days /\ row.daily[d] <= facts[d] /\ facts[d] <= observed[d]
    BY <1>1, <1>2, DaysOfRange DEF RowBehind, AnalyticsInv, ReportsBehind
  <2>2. QED
    BY <1>3, <1>5, <2>1
<1>6. QED
  BY <1>2, <1>4, <1>5 DEF DailyMismatch, NewDataSince

\* A run at the same point, or further on, that has seen no other mismatch.
LEMMA RunGoesOn ==
  ASSUME NEW run, NEW next, RunOK(run)',
         next.range = run.range, next.run = run.run, run.task # "resolve",
         run.task \in AfterRun <=> next.task \in AfterRun,
         next.mismatch => run.mismatch
  PROVE  RunOK(next)'
BY DEF RunOK

\* What a task that fails, and one that succeeds, leave of the run.
LEMMA RunAfterTask ==
  ASSUME NEW run \in DagRuns, run = dag
  PROVE  /\ FailRun(FALSE) \/ FailTask =>
              /\ dag'.range = run.range /\ dag'.run = run.run /\ dag'.task = run.task
              /\ dag'.mismatch => run.mismatch
         /\ Advance => /\ dag'.range = run.range /\ dag'.run = run.run
                       /\ dag'.task = Following[run.task] /\ dag'.mismatch = run.mismatch
         /\ FailRun(TRUE) => /\ dag'.range = run.range /\ dag'.run = run.run
                             /\ dag'.task = run.task
BY DEF DagRuns, FailRun, FailTask, Advance

LEMMA RunFailsOK ==
  ASSUME NEW run \in DagRuns, run = dag, RunOK(run)', FailRun(FALSE) \/ FailTask
  PROVE  RunOK(dag)'
<1>1. PICK next : next = dag'
  OBVIOUS
<1>2. /\ next.range = run.range /\ next.run = run.run /\ next.task = run.task
      /\ next.mismatch => run.mismatch
  BY <1>1, RunAfterTask
<1>3. RunOK(next)'
  BY <1>2 DEF RunOK
<1>4. QED
  BY <1>1, <1>3 DEF RunOK

LEMMA RunStep ==
  ASSUME Typed, AnalyticsInv, WorkflowInv, [Next]_vars
  PROVE  RunOK(dag)'
<1>0. PICK run \in DagRuns : run = dag
  BY DEF Typed
<1>1. RunOK(run) /\ RunOK(run)'
  BY <1>0, RunKeeps DEF WorkflowInv
<1>2. PICK next : next = dag'
  OBVIOUS
<1>3. SUFFICES RunOK(next)'
  BY <1>2 DEF RunOK
<1>4. ASSUME FailRun(FALSE) \/ FailTask
      PROVE  RunOK(next)'
  BY <1>0, <1>1, <1>2, <1>4, RunFailsOK DEF RunOK
<1>5. ASSUME Advance, run.task \notin {"resolve", "run"}
      PROVE  RunOK(next)'
  <2>1. run.task \in {"check", "assess", "reconcile", "validate", "record"}
    BY <1>5 DEF DagRuns, Tasks
  <2>2. /\ next.range = run.range /\ next.run = run.run
        /\ next.task = Following[run.task] /\ next.mismatch = run.mismatch
    BY <1>0, <1>2, <1>5, RunAfterTask
  <2>3. run.task \in AfterRun <=> next.task \in AfterRun
    BY <2>1, <2>2 DEF Following, AfterRun
  <2>4. QED
    BY <1>1, <1>5, <2>2, <2>3, RunGoesOn
<1>6. ASSUME NEW q \in Requests, Trigger(q)
      PROVE  RunOK(next)'
  <2>1. next.task = "resolve" /\ next.mismatch = FALSE
    BY <1>2, <1>6 DEF Trigger
  <2>2. QED
    BY <2>1 DEF RunOK, AfterRun
<1>7. CASE Clear
  <2>1. /\ next.range = run.range /\ next.run = run.run /\ next.task = run.task
        /\ next.mismatch = run.mismatch
    BY <1>0, <1>2, <1>7 DEF Clear, DagRuns
  <2>2. QED
    BY <1>1, <2>1 DEF RunOK
<1>8. CASE Resolve
  <2>1. CASE Selectable(run.request)
    <3>1. /\ next.task = "check" /\ next.range = Selected(run.request)
          /\ next.mismatch = run.mismatch /\ run.task = "resolve"
      BY <1>0, <1>2, <1>8, <2>1 DEF Resolve, DagRuns, Runs
    <3>2. next.range \in Ranges
      BY <2>1, <3>1 DEF Selectable
    <3>3. QED
      BY <1>1, <3>1, <3>2 DEF RunOK, AfterRun
  <2>2. CASE ~Selectable(run.request)
    BY <1>0, <1>4, <1>8, <2>2 DEF Resolve
  <2>3. QED
    BY <2>1, <2>2
<1>9. CASE Check \/ Assess \/ Validate \/ Record
  <2>1. run.task \notin {"resolve", "run"}
    BY <1>0, <1>9 DEF Check, Assess, Validate, Record, Runs
  <2>2. Advance \/ FailRun(FALSE)
    BY <1>9 DEF Check, Assess, Validate, Record
  <2>3. QED
    BY <1>4, <1>5, <2>1, <2>2
<1>10. CASE Reconcile
  <2>1. run.task = "reconcile"
    BY <1>0, <1>10 DEF Reconcile, Runs
  <2>2. CASE DailyMismatch(run.range) \/ IncidentMismatch
    <3>1. next.range = run.range /\ next.run = run.run /\ next.task = run.task
      BY <1>0, <1>2, <1>10, <2>2, RunAfterTask DEF Reconcile
    <3>2. NewDataSince(run.run, run.range)
      BY <1>0, <1>1, <2>1, <2>2, MismatchIsNewData
    <3>3. NewDataSince(run.run, run.range)'
      BY <1>10, <3>2 DEF Reconcile, analyticsVars, NewDataSince
    <3>4. QED
      BY <1>1, <2>1, <3>1, <3>3 DEF RunOK, AfterRun
  <2>3. CASE ~(DailyMismatch(run.range) \/ IncidentMismatch)
    BY <1>0, <1>5, <1>10, <2>1, <2>3 DEF Reconcile
  <2>4. QED
    BY <2>2, <2>3
<1>11. CASE RefreshRefused \/ TaskFails \/ RunTimesOut
  BY <1>4, <1>11 DEF RefreshRefused, TaskFails, RunTimesOut
<1>12. ASSUME NEW s \in Sessions, RefreshFails(s)
      PROVE  RunOK(next)'
  BY <1>4, <1>12 DEF RefreshFails
<1>13. ASSUME NEW s \in Sessions, RefreshReturns(s)
      PROVE  RunOK(next)'
  <2>1. PICK call : call = session[s] /\ call.pc = "committed" /\ call.client = "workflow"
    BY <1>13 DEF RefreshReturns, Unlock
  <2>2. Returned(call) /\ call.selection = run.range /\ run.task = "run"
    BY <1>0, <2>1 DEF AnalyticsInv, Results, WorkflowInv, AtWork
  <2>3. /\ next.task = "reconcile" /\ next.run = call.run /\ next.range = run.range
        /\ next.mismatch = run.mismatch
    BY <1>0, <1>2, <1>13, <2>1 DEF RefreshReturns, DagRuns
  <2>4. run.range \in Ranges /\ ~run.mismatch
    BY <1>1, <2>2 DEF RunOK, AfterRun, DagRuns
  <2>5. jobRuns' = jobRuns
    BY <1>13 DEF RefreshReturns, Unlock, reportVars
  <2>6. RefreshedBy(next.run, next.range)'
    BY <2>2, <2>3, <2>5 DEF RefreshedBy, Returned
  <2>7. QED
    BY <2>3, <2>4, <2>6 DEF RunOK
<1>14. ASSUME \/ \E d \in Days : Reject(d) \/ \E t \in 1..Hours : Beat(d, t)
              \/ \E d \in Days, t \in 1..Hours, late \in BOOLEAN : Observe(d, t, late)
              \/ TransitionIncident
              \/ \E c \in callbacks : FailureCallback(c) \/ CallbackLost(c)
              \/ \E s \in Sessions : \/ StartRefresh(s) \/ SessionStep(s)
                                     \/ CommandReturns(s) \/ CommandFails(s)
              \/ \E s \in Sessions, selection \in Commands : CommandStarts(s, selection)
              \/ UNCHANGED vars
       PROVE  RunOK(next)'
  <2>1. UNCHANGED dag
    BY <1>14 DEF Reject, Beat, Observe, TransitionIncident, FailureCallback, CallbackLost,
      StartRefresh, SessionStep, CommandReturns, CommandFails, CommandStarts, vars,
      workflowVars
  <2>2. QED
    BY <1>0, <1>1, <1>2, <2>1 DEF RunOK
<1>15. QED
  BY <1>6, <1>7, <1>8, <1>9, <1>10, <1>11, <1>12, <1>13, <1>14
    DEF Next, TaskStep, RefreshStep

\* A step of a session makes no refresh of the workflow out of another one.
LEMMA ClientKeeps ==
  ASSUME AnalyticsTypeOK, NEW s \in Sessions, NEW t \in Sessions,
         \/ SessionStep(s) \/ CommandReturns(s) \/ CommandFails(s)
         \/ \E selection \in Commands : CommandStarts(s, selection),
         session'[t].client = "workflow"
  PROVE  session[t].client = "workflow" /\ session'[t].selection = session[t].selection
<1>0. session \in [Sessions -> Calls] /\ session[t] \in Calls /\ Idle.client = "gone"
  BY DEF AnalyticsTypeOK, Idle
<1>1. CASE Release(s)
  BY <1>0, <1>1 DEF Release
<1>2. CASE Read(s)
  BY <1>0, <1>2 DEF Read, Calls
<1>3. CASE Commit(s)
  BY <1>0, <1>3 DEF Commit, Calls
<1>4. CASE Abandon(s)
  BY <1>0, <1>4 DEF Abandon, Calls
<1>5. ASSUME NEW selection \in Commands, CommandStarts(s, selection)
      PROVE  session[t].client = "workflow" /\ session'[t].selection = session[t].selection
  <2>1. session' = [session EXCEPT ![s] = [Idle EXCEPT !.pc = "locked", !.client = "command",
                                                       !.selection = selection]]
    BY <1>5 DEF CommandStarts, Acquire
  <2>2. [Idle EXCEPT !.pc = "locked", !.client = "command", !.selection = selection].client
          = "command"
    BY DEF Idle
  <2>3. QED
    BY <1>0, <2>1, <2>2
<1>6. QED
  BY <1>1, <1>2, <1>3, <1>4, <1>5 DEF SessionStep, CommandReturns, CommandFails, SessionEnds,
    Unlock, RollBack

LEMMA AtWorkStep ==
  ASSUME Typed, AnalyticsInv, AtWork, [Next]_vars
  PROVE  AtWork'
<1>0. session \in [Sessions -> Calls] /\ dag \in DagRuns
  BY DEF Typed, AnalyticsTypeOK
<1>1. ASSUME NotRefreshing'
      PROVE  AtWork'
  BY <1>1 DEF NotRefreshing, AtWork
<1>2. ASSUME NotRefreshing, UNCHANGED session
      PROVE  AtWork'
  BY <1>1, <1>2 DEF NotRefreshing
<1>3. ASSUME ~Runs("run"), UNCHANGED session
      PROVE  AtWork'
  BY <1>2, <1>3 DEF NotRefreshing, AtWork, Runs
<1>4. ASSUME \/ \E q \in Requests : Trigger(q)
             \/ Clear \/ Resolve \/ Check \/ Assess \/ Reconcile \/ Validate \/ Record
      PROVE  AtWork'
  BY <1>3, <1>4 DEF Trigger, Clear, Resolve, Check, Assess, Reconcile, Validate, Record, Runs,
    analyticsVars
<1>5. CASE RefreshRefused \/ TaskFails
  BY <1>2, <1>5 DEF RefreshRefused, TaskFails, analyticsVars
<1>6. CASE RunTimesOut
  <2>1. ASSUME NEW t \in Sessions
        PROVE  session'[t].client # "workflow"
    <3>1. session[t] \in Calls
      BY <1>0
    <3>2. [session[t] EXCEPT !.client = "gone"].client = "gone"
      BY <3>1 DEF Calls
    <3>3. QED
      BY <1>6, <3>2 DEF RunTimesOut
  <2>2. QED
    BY <1>1, <2>1 DEF NotRefreshing
<1>7. ASSUME NEW s \in Sessions, RefreshReturns(s) \/ RefreshFails(s)
      PROVE  AtWork'
  <2>1. session[s].client = "workflow" /\ session[s] \in Calls
    BY <1>0, <1>7 DEF RefreshReturns, RefreshFails
  <2>2. \A t \in Sessions \ {s} : session[t].client # "workflow"
    BY <2>1, OneRefresh
  <2>3. Release(s) \/ Abandon(s)
    BY <1>7 DEF RefreshReturns, RefreshFails, Unlock, RollBack
  <2>4. session'[s].client = "gone" /\ \A t \in Sessions \ {s} : session'[t] = session[t]
    <3>1. CASE Release(s)
      BY <1>0, <3>1 DEF Release, Idle
    <3>2. CASE Abandon(s)
      BY <1>0, <2>1, <3>2 DEF Abandon, Calls
    <3>3. QED
      BY <2>3, <3>1, <3>2
  <2>5. QED
    BY <1>1, <2>2, <2>4 DEF NotRefreshing
<1>8. ASSUME NEW s \in Sessions, StartRefresh(s)
      PROVE  AtWork'
  <2>1. /\ dag' = dag /\ dag.state = "running" /\ dag.task = "run"
        /\ NotRefreshing /\ Acquire(s, "workflow", dag.range)
    BY <1>8 DEF StartRefresh, Runs, workflowVars
  <2>2. [Idle EXCEPT !.pc = "locked", !.client = "workflow", !.selection = dag.range].selection
          = dag.range
    BY DEF Idle
  <2>3. session'[s].selection = dag.range /\ \A t \in Sessions \ {s} : session'[t] = session[t]
    BY <1>0, <2>1, <2>2 DEF Acquire
  <2>4. QED
    BY <2>1, <2>3 DEF AtWork, NotRefreshing
<1>9. ASSUME NEW s \in Sessions,
             \/ SessionStep(s) \/ CommandReturns(s) \/ CommandFails(s)
             \/ \E selection \in Commands : CommandStarts(s, selection)
      PROVE  AtWork'
  <2>1. dag' = dag
    BY <1>9 DEF SessionStep, CommandReturns, CommandFails, CommandStarts, workflowVars
  <2>2. QED
    BY <1>9, <2>1, ClientKeeps DEF AtWork, Typed
<1>10. ASSUME \/ \E d \in Days : Reject(d) \/ \E t \in 1..Hours : Beat(d, t)
              \/ \E d \in Days, t \in 1..Hours, late \in BOOLEAN : Observe(d, t, late)
              \/ TransitionIncident
              \/ \E c \in callbacks : FailureCallback(c) \/ CallbackLost(c)
              \/ UNCHANGED vars
      PROVE  AtWork'
  <2>1. UNCHANGED <<dag, session>>
    BY <1>10 DEF Reject, Beat, Observe, TransitionIncident, FailureCallback, CallbackLost,
      vars, workflowVars, analyticsVars
  <2>2. QED
    BY <2>1 DEF AtWork
<1>11. QED
  BY <1>4, <1>5, <1>6, <1>7, <1>8, <1>9, <1>10 DEF Next, TaskStep, RefreshStep

LEMMA WorkflowInvariant == Spec => []WorkflowInv
<1>1. Init => WorkflowInv
  <2> SUFFICES ASSUME Init
               PROVE  WorkflowInv
    OBVIOUS
  <2>1. AtWork
    BY DEF Init, AnalyticsInit, AtWork, Idle
  <2>2. RunOK(dag)
    BY DEF Init, RunOK, AfterRun
  <2>3. QED
    BY <2>1, <2>2 DEF WorkflowInv
<1>2. Typed /\ AnalyticsInv /\ WorkflowInv /\ [Next]_vars => WorkflowInv'
  BY AtWorkStep, RunStep DEF WorkflowInv
<1>3. QED
  BY <1>1, <1>2, TypedInvariant, AnalyticsInvariant, PTL DEF Spec

\* A run of the DAG fails to reconcile only on data newer than the snapshot of its
\* own refresh (orchestration/repository.py 228-312), whatever other refreshes,
\* retries and cleared runs come between.
THEOREM MismatchesAreNewData == Spec => []MismatchMeansNewData
<1>1. WorkflowInv => MismatchMeansNewData
  BY DEF WorkflowInv, RunOK, NewDataSince, MismatchMeansNewData
<1>2. QED
  BY <1>1, WorkflowInvariant, PTL

-----------------------------------------------------------------------------
(* The ledger                                                              *)

LedgerShape ==
  /\ DOMAIN ledger = Ranges
  /\ \A range \in Ranges : "status" \in DOMAIN ledger[range]

\* The key of the failure callback is the range the run has worked on.
KeyKnown == dag.range = IF dag.task = "resolve" THEN NoRange ELSE KeyOf(dag.request)

Attended(range) ==
  ledger[range].status = "running" =>
    \/ dag.state = "running" /\ dag.range = range
    \/ \E c \in callbacks : KeyOf(c.request) = range
    \/ range \in lost

\* What a step may do to the run of the DAG.
RunMoves ==
  \/ UNCHANGED <<dag, callbacks>>
  \/ \E q \in Requests : Trigger(q)
  \/ Clear \/ Resolve
  \/ Advance /\ dag.task \notin {"resolve", "record"}
  \/ FailRun(TRUE) \/ FailRun(FALSE) \/ FailTask
  \/ dag.task = "run" /\ \E s \in Sessions : RefreshReturns(s)

LEMMA RowUpdated ==
  ASSUME LedgerShape, NEW range \in Ranges, NEW status, NEW task,
         ledger' = [ledger EXCEPT ![range].status = status, ![range].task = task]
  PROVE  LedgerShape' /\ ledger'[range].status = status
         /\ \A other \in Ranges \ {range} : ledger'[other] = ledger[other]
<1> DEFINE first == [ledger[range] EXCEPT !.status = status]
           second == [first EXCEPT !.task = task]
<1>1. /\ DOMAIN first = DOMAIN ledger[range] /\ first.status = status
      /\ DOMAIN second = DOMAIN first /\ second.status = status
  BY DEF LedgerShape
<1>2. DOMAIN ledger' = Ranges /\ ledger'[range] = second
  BY DEF LedgerShape
<1>3. \A other \in Ranges \ {range} : ledger'[other] = ledger[other]
  BY DEF LedgerShape
<1> HIDE DEF first, second
<1>4. \A other \in Ranges : "status" \in DOMAIN ledger'[other]
  BY <1>1, <1>2, <1>3 DEF LedgerShape
<1>5. LedgerShape'
  BY <1>2, <1>4 DEF LedgerShape
<1>6. QED
  BY <1>1, <1>2, <1>3, <1>5

LEMMA RowSucceeds ==
  ASSUME LedgerShape, NEW range \in Ranges, NEW run, RecordSuccess(range, run)
  PROVE  LedgerShape' /\ ledger'[range].status = "success"
         /\ \A other \in Ranges \ {range} : ledger'[other] = ledger[other]
<1> DEFINE first == [ledger[range] EXCEPT !.status = "success"]
           second == [first EXCEPT !.run = run]
           third == [second EXCEPT !.task = "none"]
<1>1. /\ DOMAIN first = DOMAIN ledger[range] /\ first.status = "success"
      /\ DOMAIN second = DOMAIN first /\ second.status = "success"
      /\ DOMAIN third = DOMAIN second /\ third.status = "success"
  BY DEF LedgerShape
<1>2. DOMAIN ledger' = Ranges /\ ledger'[range] = third
  BY DEF LedgerShape, RecordSuccess
<1>3. \A other \in Ranges \ {range} : ledger'[other] = ledger[other]
  BY DEF LedgerShape, RecordSuccess
<1> HIDE DEF first, second, third
<1>4. \A other \in Ranges : "status" \in DOMAIN ledger'[other]
  BY <1>1, <1>2, <1>3 DEF LedgerShape
<1>5. LedgerShape'
  BY <1>2, <1>4 DEF LedgerShape
<1>6. QED
  BY <1>1, <1>2, <1>3, <1>5

LEMMA RowStarts ==
  ASSUME LedgerShape, NEW range \in Ranges, StartRun(range)
  PROVE  LedgerShape' /\ \A other \in Ranges \ {range} : ledger'[other] = ledger[other]
<1>1. DOMAIN ledger' = Ranges /\ "status" \in DOMAIN ledger'[range]
  BY DEF LedgerShape, StartRun
<1>2. \A other \in Ranges \ {range} : ledger'[other] = ledger[other]
  BY DEF LedgerShape, StartRun
<1>3. QED
  BY <1>1, <1>2 DEF LedgerShape

\* The run goes on with its range, or leaves a callback for it.
LEMMA RunOrCallback ==
  ASSUME dag \in DagRuns, KeyKnown, RunMoves
  PROVE  /\ KeyKnown' /\ callbacks \subseteq callbacks'
         /\ \A range \in Ranges :
              dag.state = "running" /\ dag.range = range =>
                \/ dag'.state = "running" /\ dag'.range = range
                \/ \E c \in callbacks' : KeyOf(c.request) = range
<1>0. NoRange \notin Ranges
  BY DEF NoRange, All, Ranges, Days
<1>1. ASSUME FailRun(TRUE) \/ FailRun(FALSE)
      PROVE  /\ KeyKnown' /\ callbacks \subseteq callbacks'
             /\ \A range \in Ranges :
                  dag.range = range => \E c \in callbacks' : KeyOf(c.request) = range
  <2> DEFINE c == [start |-> dag.start, request |-> dag.request, task |-> dag.task]
  <2>1. c \in callbacks' /\ callbacks \subseteq callbacks' /\ c.request = dag.request
    BY <1>1 DEF FailRun
  <2>2. dag'.range = dag.range /\ dag'.task = dag.task /\ dag'.request = dag.request
    BY <1>1 DEF FailRun, DagRuns
  <2> HIDE DEF c
  <2>3. \A range \in Ranges : dag.range = range => KeyOf(c.request) = range
    BY <1>0, <2>1 DEF KeyKnown
  <2>4. QED
    BY <2>1, <2>2, <2>3 DEF KeyKnown
<1>2. CASE FailTask
  <2>1. CASE dag.task \in Transient /\ dag.tries < Retries
    <3>1. /\ dag'.range = dag.range /\ dag'.task = dag.task /\ dag'.request = dag.request
          /\ dag'.state = dag.state /\ callbacks' = callbacks
      BY <1>2, <2>1 DEF FailTask, DagRuns
    <3>2. QED
      BY <3>1 DEF KeyKnown
  <2>2. QED
    BY <1>1, <1>2, <2>1 DEF FailTask
<1>3. CASE Advance /\ dag.task \notin {"resolve", "record"}
  <2>1. /\ dag'.range = dag.range /\ dag'.request = dag.request /\ dag'.state = dag.state
        /\ dag'.task = Following[dag.task] /\ callbacks' = callbacks
    BY <1>3 DEF Advance, DagRuns
  <2>2. dag'.task # "resolve"
    BY <1>3, <2>1 DEF Following, DagRuns, Tasks
  <2>3. QED
    BY <1>3, <2>1, <2>2 DEF KeyKnown
<1>4. CASE Clear
  <2>1. /\ dag'.range = dag.range /\ dag'.request = dag.request /\ dag'.task = dag.task
        /\ callbacks' = callbacks /\ dag.state = "failed"
    BY <1>4 DEF Clear, DagRuns
  <2>2. QED
    BY <2>1 DEF KeyKnown
<1>5. CASE \E q \in Requests : Trigger(q)
  BY <1>5 DEF Trigger, KeyKnown
<1>6. CASE Resolve
  <2>1. dag.range = NoRange
    BY <1>6 DEF Resolve, Runs, KeyKnown
  <2>2. CASE Selectable(dag.request)
    <3>1. /\ dag'.range = Selected(dag.request) /\ dag'.task = "check"
          /\ dag'.request = dag.request /\ callbacks' = callbacks
      BY <1>6, <2>2 DEF Resolve, DagRuns
    <3>2. QED
      BY <1>0, <2>1, <2>2, <3>1 DEF KeyKnown, KeyOf
  <2>3. QED
    BY <1>1, <1>6, <2>2 DEF Resolve
<1>7. CASE dag.task = "run" /\ \E s \in Sessions : RefreshReturns(s)
  <2>1. PICK s \in Sessions : RefreshReturns(s)
    BY <1>7
  <2>2. /\ dag'.range = dag.range /\ dag'.request = dag.request /\ dag'.task = "reconcile"
        /\ callbacks' = callbacks /\ dag'.state = dag.state
    BY <2>1 DEF RefreshReturns, DagRuns
  <2>3. QED
    BY <1>7, <2>2 DEF KeyKnown
<1>8. CASE UNCHANGED <<dag, callbacks>>
  BY <1>8 DEF KeyKnown
<1>9. QED
  BY <1>1, <1>2, <1>3, <1>4, <1>5, <1>6, <1>7, <1>8 DEF RunMoves

LedgerInv == LedgerShape /\ KeyKnown /\ \A range \in Ranges : Attended(range)

\* A row that the step does not write stays attended.
LEMMA RowKeeps ==
  ASSUME dag \in DagRuns, KeyKnown, RunMoves, lost \subseteq lost',
         NEW range \in Ranges, Attended(range), ledger'[range] = ledger[range]
  PROVE  Attended(range)'
BY RunOrCallback DEF Attended

LEMMA LedgerStep ==
  ASSUME Typed, WorkflowInv, LedgerInv, [Next]_vars
  PROVE  LedgerInv'
<1>0. dag \in DagRuns /\ LedgerShape /\ KeyKnown
  BY DEF Typed, LedgerInv
<1>1. ASSUME RunMoves, UNCHANGED ledger, lost \subseteq lost'
      PROVE  LedgerInv'
  BY <1>0, <1>1, RunOrCallback, RowKeeps DEF LedgerInv, LedgerShape
<1>2. ASSUME \/ \E q \in Requests : Trigger(q)
             \/ Clear \/ Resolve \/ Check \/ Reconcile \/ Validate
             \/ RefreshRefused \/ TaskFails \/ RunTimesOut
             \/ \E s \in Sessions : RefreshReturns(s) \/ RefreshFails(s)
      PROVE  LedgerInv'
  <2>1. UNCHANGED <<ledger, lost>>
    BY <1>2 DEF Trigger, Clear, Resolve, Check, Reconcile, Validate, RefreshRefused,
      TaskFails, RunTimesOut, RefreshReturns, RefreshFails
  <2>2. CASE \/ \E q \in Requests : Trigger(q)
             \/ Clear \/ Resolve \/ RefreshRefused \/ TaskFails \/ RunTimesOut
             \/ \E s \in Sessions : RefreshFails(s)
    BY <1>1, <2>1, <2>2 DEF RunMoves, RefreshRefused, TaskFails, RunTimesOut, RefreshFails
  <2>3. CASE Check \/ Reconcile \/ Validate
    <3>1. dag.task \notin {"resolve", "record"}
      BY <2>3 DEF Check, Reconcile, Validate, Runs
    <3>2. Advance \/ FailRun(TRUE) \/ FailRun(FALSE)
      BY <2>3 DEF Check, Reconcile, Validate
    <3>3. QED
      BY <1>1, <2>1, <3>1, <3>2 DEF RunMoves
  <2>4. ASSUME NEW s \in Sessions, RefreshReturns(s)
        PROVE  LedgerInv'
    <3>1. dag.task = "run"
      BY <2>4 DEF RefreshReturns, WorkflowInv, AtWork
    <3>2. QED
      BY <1>1, <2>1, <2>4, <3>1 DEF RunMoves
  <2>5. QED
    BY <1>2, <2>2, <2>3, <2>4
<1>3. ASSUME Assess \/ Record
      PROVE  LedgerInv'
  <2>1. PICK range \in Ranges : range = dag.range
    BY <1>3 DEF Assess, Record, Runs, WorkflowInv, RunOK
  <2>2. /\ dag.state = "running" /\ dag.task \in {"assess", "record"} /\ lost' = lost
        /\ FailRun(FALSE) \/ Advance
    BY <1>3 DEF Assess, Record, Runs
  <2>3. /\ LedgerShape'
        /\ \A other \in Ranges \ {range} : ledger'[other] = ledger[other]
        /\ dag.task = "record" => ledger'[range].status = "success"
    BY <1>0, <1>3, <2>1, RowStarts, RowSucceeds DEF Assess, Record, Runs
  <2>4. CASE FailRun(FALSE) \/ (Advance /\ dag.task = "assess")
    <3>1. RunMoves
      BY <2>4 DEF RunMoves
    <3>2. Attended(range)'
      BY <1>0, <2>1, <2>2, <3>1, RunOrCallback DEF Attended
    <3>3. ASSUME NEW other \in Ranges \ {range}
          PROVE  Attended(other)'
      BY <1>0, <2>2, <2>3, <3>1, RowKeeps DEF LedgerInv
    <3>4. QED
      BY <1>0, <2>3, <3>1, <3>2, <3>3, RunOrCallback DEF LedgerInv
  <2>5. CASE Advance /\ dag.task = "record"
    <3>1. /\ dag'.range = dag.range /\ dag'.request = dag.request /\ dag'.task = "record"
          /\ callbacks' = callbacks
      BY <1>0, <2>5 DEF Advance, Following, DagRuns
    <3>2. KeyKnown'
      BY <1>0, <2>5, <3>1 DEF KeyKnown
    <3>3. Attended(range)'
      BY <2>3, <2>5 DEF Attended
    <3>4. ASSUME NEW other \in Ranges \ {range}
          PROVE  Attended(other)'
      BY <2>1, <2>2, <2>3, <3>1 DEF LedgerInv, Attended
    <3>5. QED
      BY <2>3, <3>2, <3>3, <3>4 DEF LedgerInv
  <2>6. QED
    BY <2>2, <2>4, <2>5
<1>4. ASSUME NEW c \in callbacks, FailureCallback(c)
      PROVE  LedgerInv'
  <2>1. PICK key : key = KeyOf(c.request)
    OBVIOUS
  <2>2. /\ UNCHANGED <<dag, lost>> /\ callbacks' = callbacks \ {c}
        /\ RecordFailure(key, c.task)
    BY <1>4, <2>1 DEF FailureCallback
  <2>3. CASE key \in Ranges /\ ledger[key] # NoRow
    <3>1. ledger' = [ledger EXCEPT ![key].status = "failed", ![key].task = c.task]
      BY <2>2, <2>3 DEF RecordFailure
    <3>2. /\ LedgerShape' /\ ledger'[key].status = "failed"
          /\ \A other \in Ranges \ {key} : ledger'[other] = ledger[other]
      BY <1>0, <2>3, <3>1, RowUpdated
    <3>3. ASSUME NEW range \in Ranges
          PROVE  Attended(range)'
      BY <2>1, <2>2, <3>2 DEF LedgerInv, Attended
    <3>4. QED
      BY <1>0, <2>2, <3>2, <3>3 DEF LedgerInv, KeyKnown
  <2>4. CASE ~(key \in Ranges /\ ledger[key] # NoRow)
    <3>1. ledger' = ledger
      BY <2>2, <2>4 DEF RecordFailure
    <3>2. NoRow.status # "running"
      BY DEF NoRow
    <3>3. ASSUME NEW range \in Ranges
          PROVE  Attended(range)'
      BY <2>1, <2>2, <2>4, <3>1, <3>2 DEF LedgerInv, Attended
    <3>4. QED
      BY <1>0, <2>2, <3>1, <3>3 DEF LedgerInv, KeyKnown, LedgerShape
  <2>5. QED
    BY <2>3, <2>4
<1>5. ASSUME NEW c \in callbacks, CallbackLost(c)
      PROVE  LedgerInv'
  <2>1. /\ UNCHANGED <<dag, ledger>> /\ callbacks' = callbacks \ {c}
        /\ lost' = lost \union {KeyOf(c.request)}
    BY <1>5 DEF CallbackLost
  <2>2. ASSUME NEW range \in Ranges
        PROVE  Attended(range)'
    BY <2>1 DEF LedgerInv, Attended
  <2>3. QED
    BY <1>0, <2>1, <2>2 DEF LedgerInv, LedgerShape, KeyKnown
<1>6. ASSUME \/ \E d \in Days : Reject(d) \/ \E t \in 1..Hours : Beat(d, t)
             \/ \E d \in Days, t \in 1..Hours, late \in BOOLEAN : Observe(d, t, late)
             \/ TransitionIncident
             \/ \E s \in Sessions : \/ StartRefresh(s) \/ SessionStep(s)
                                    \/ CommandReturns(s) \/ CommandFails(s)
             \/ \E s \in Sessions, selection \in Commands : CommandStarts(s, selection)
             \/ UNCHANGED vars
      PROVE  LedgerInv'
  <2>1. UNCHANGED <<dag, callbacks, ledger, lost>>
    BY <1>6 DEF Reject, Beat, Observe, TransitionIncident, StartRefresh, SessionStep,
      CommandReturns, CommandFails, CommandStarts, vars, workflowVars
  <2>2. QED
    BY <1>1, <2>1 DEF RunMoves
<1>7. QED
  BY <1>2, <1>3, <1>4, <1>5, <1>6 DEF Next, TaskStep, RefreshStep

\* A row of the ledger that says running has a run at work on it, or a failure
\* callback on its way that will find it under its key, or lost that callback to
\* an outage (DAG file 37-58): no other failure, time limit or cleared run leaves
\* it behind.
THEOREM RunningRowsAreAttended == Spec => []RunningIsAttended
<1>1. Init => LedgerInv
  <2> SUFFICES ASSUME Init
               PROVE  LedgerInv
    OBVIOUS
  <2>1. NoRow.status = "none" /\ "status" \in DOMAIN NoRow
    BY DEF NoRow
  <2>2. LedgerShape /\ \A range \in Ranges : Attended(range)
    BY <2>1 DEF Init, LedgerShape, Attended
  <2>3. KeyKnown
    BY DEF Init, KeyKnown
  <2>4. QED
    BY <2>2, <2>3 DEF LedgerInv
<1>2. Typed /\ WorkflowInv /\ LedgerInv /\ [Next]_vars => LedgerInv'
  BY LedgerStep
<1>3. LedgerInv => RunningIsAttended
  BY DEF LedgerInv, Attended, RunningIsAttended
<1>4. QED
  BY <1>1, <1>2, <1>3, TypedInvariant, WorkflowInvariant, PTL DEF Spec

-----------------------------------------------------------------------------
(* Type correctness of the workflow                                        *)

\* A run that has been started has a request.
Started == dag.state # "none" => dag.start \in 1..MaxStarts /\ dag.request \in Requests

FullyTyped == TypeOK /\ Started

LEMMA AssessmentTyped ==
  ASSUME AnalyticsTypeOK, NEW range \in Ranges
  PROVE  /\ ObservedIn(range) \in Nat
         /\ Assessment(range) \in Statuses
<1>1. IsFiniteSet(DaysOf(range)) /\ \A d \in DaysOf(range) : observed[d] \in Nat
  <2>1. range[1] \in Int /\ range[2] \in Int
    BY AnalyticsAssumption DEF Ranges, Days
  <2>2. IsFiniteSet(range[1]..range[2])
    BY <2>1, FS_Interval
  <2>3. QED
    BY <2>2, DaysOfRange DEF DaysOf, AnalyticsTypeOK
<1>2. SumOf(observed, DaysOf(range)) \in Nat
  BY <1>1, SumNat
<1>3. ObservedIn(range) = SumOf(observed, DaysOf(range))
  BY DEF ObservedIn, SumOf
<1>4. QED
  BY <1>2, <1>3 DEF Assessment, Statuses

LEMMA LaterTyped ==
  ASSUME NEW a \in 0..Hours, NEW b \in 0..Hours
  PROVE  Max({a, b}) \in 0..Hours
<1>1. \E x \in {a, b} : \A y \in {a, b} : x >= y
  BY WorkflowAssumption
<1>2. QED
  BY <1>1 DEF Max

\* What a task that fails or succeeds leaves of the run and its callbacks.
LEMMA RunsTyped ==
  ASSUME FullyTyped, dag.state = "running",
         \/ FailRun(TRUE) \/ FailRun(FALSE) \/ FailTask \/ Advance
  PROVE  dag' \in DagRuns /\ callbacks' \subseteq Callbacks /\ Started'
<1>1. dag' \in DagRuns
  BY FailureTyped, AdvanceTyped DEF FullyTyped, TypeOK
<1>2. dag'.start = dag.start /\ dag'.request = dag.request
  BY DEF FailRun, FailTask, Advance, FullyTyped, TypeOK, DagRuns
<1>3. [start |-> dag.start, request |-> dag.request, task |-> dag.task] \in Callbacks
  BY DEF FullyTyped, TypeOK, Started, DagRuns, Callbacks
<1>4. callbacks' \subseteq Callbacks
  BY <1>3 DEF FailRun, FailTask, Advance, FullyTyped, TypeOK
<1>5. Started'
  <2>1. dag.state # "none"
    OBVIOUS
  <2>2. QED
    BY <1>2, <2>1 DEF FullyTyped, Started
<1>6. QED
  BY <1>1, <1>4, <1>5

LEMMA EvidenceTyped ==
  ASSUME TypeOK, [Next]_vars
  PROVE  evidence' \in [Days -> Evidence] /\ activity' \in 0..MaxActivity
<1>0. evidence \in [Days -> Evidence] /\ activity \in 0..MaxActivity
  BY DEF TypeOK
<1>1. ASSUME Active
      PROVE  activity' \in 0..MaxActivity
  BY <1>0, <1>1, WorkflowAssumption DEF Active
<1>2. ASSUME NEW d \in Days, NEW t \in 1..Hours, NEW late \in BOOLEAN, Observe(d, t, late)
      PROVE  evidence' \in [Days -> Evidence]
  <2>1. evidence[d] \in Evidence /\ t \in 0..Hours
    BY <1>0, WorkflowAssumption
  <2>2. evidence[d].latest \in 0..Hours
    BY <2>1 DEF Evidence
  <2> DEFINE later == Max({evidence[d].latest, t})
  <2>3. later \in 0..Hours
    BY <2>1, <2>2, LaterTyped
  <2>4. evidence' = [evidence EXCEPT ![d].latest = later,
                                     ![d].delayed = evidence[d].delayed \/ late]
    BY <1>2 DEF Observe
  <2> HIDE DEF later
  <2>5. QED
    BY <1>0, <2>1, <2>3, <2>4 DEF Evidence
<1>3. ASSUME NEW d \in Days, NEW t \in 1..Hours, Beat(d, t)
      PROVE  evidence' \in [Days -> Evidence]
  <2>1. evidence[d] \in Evidence /\ t \in 0..Hours
    BY <1>0, WorkflowAssumption
  <2>2. evidence[d].beat \in 0..Hours
    BY <2>1 DEF Evidence
  <2> DEFINE later == Max({evidence[d].beat, t})
  <2>3. later \in 0..Hours
    BY <2>1, <2>2, LaterTyped
  <2>4. evidence' = [evidence EXCEPT ![d].beat = later]
    BY <1>3 DEF Beat
  <2> HIDE DEF later
  <2>5. QED
    BY <1>0, <2>1, <2>3, <2>4 DEF Evidence
<1>4. ASSUME NEW d \in Days, Reject(d)
      PROVE  evidence' \in [Days -> Evidence]
  BY <1>0, <1>4 DEF Reject, Evidence
<1>5. ASSUME \/ TransitionIncident
             \/ \E q \in Requests : Trigger(q)
             \/ Clear \/ TaskStep \/ TaskFails \/ RunTimesOut
             \/ \E c \in callbacks : FailureCallback(c) \/ CallbackLost(c)
             \/ \E s \in Sessions : RefreshStep(s) \/ RefreshFails(s) \/ CommandFails(s)
             \/ \E s \in Sessions, selection \in Commands : CommandStarts(s, selection)
             \/ UNCHANGED vars
      PROVE  UNCHANGED evidence /\ (Active \/ UNCHANGED activity)
  <2>1. CASE \/ TransitionIncident
             \/ \E q \in Requests : Trigger(q)
             \/ Clear \/ TaskFails \/ RunTimesOut
             \/ \E c \in callbacks : FailureCallback(c) \/ CallbackLost(c)
             \/ \E s \in Sessions, selection \in Commands : CommandStarts(s, selection)
             \/ UNCHANGED vars
    BY <2>1 DEF TransitionIncident, Trigger, Clear, TaskFails, RunTimesOut, FailureCallback,
      CallbackLost, CommandStarts, vars, workflowVars
  <2>2. CASE TaskStep
    BY <2>2 DEF TaskStep, Resolve, Check, Assess, Reconcile, Validate, Record, RefreshRefused,
      StartRefresh, workflowVars
  <2>3. CASE \E s \in Sessions : RefreshStep(s) \/ RefreshFails(s) \/ CommandFails(s)
    BY <2>3 DEF RefreshStep, SessionStep, RefreshReturns, CommandReturns, RefreshFails,
      CommandFails, workflowVars
  <2>4. QED
    BY <1>5, <2>1, <2>2, <2>3
<1>6. ASSUME \/ \E d \in Days : Reject(d) \/ \E t \in 1..Hours : Beat(d, t)
             \/ \E d \in Days, t \in 1..Hours, late \in BOOLEAN : Observe(d, t, late)
      PROVE  evidence' \in [Days -> Evidence] /\ activity' \in 0..MaxActivity
  <2>1. Active
    BY <1>6 DEF Reject, Beat, Observe
  <2>2. QED
    BY <1>1, <1>2, <1>3, <1>4, <1>6, <2>1
<1>7. QED
  BY <1>0, <1>1, <1>5, <1>6 DEF Next

\* The assessment, the record of success and the failure callback write the
\* ledger; no other action does.
LEMMA LedgerWrites ==
  ASSUME [Next]_vars
  PROVE  \/ Assess \/ Record
         \/ \E c \in callbacks : FailureCallback(c)
         \/ UNCHANGED ledger
<1>1. CASE \/ \E d \in Days : Reject(d) \/ \E t \in 1..Hours : Beat(d, t)
           \/ \E d \in Days, t \in 1..Hours, late \in BOOLEAN : Observe(d, t, late)
           \/ TransitionIncident
           \/ \E q \in Requests : Trigger(q)
           \/ \E c \in callbacks : CallbackLost(c)
           \/ UNCHANGED vars
  BY <1>1 DEF Reject, Beat, Observe, TransitionIncident, Trigger, CallbackLost, vars,
    workflowVars
<1>2. CASE Clear \/ Resolve \/ Check \/ Reconcile \/ Validate
  BY <1>2 DEF Clear, Resolve, Check, Reconcile, Validate
<1>3. CASE RefreshRefused \/ TaskFails \/ RunTimesOut
  BY <1>3 DEF RefreshRefused, TaskFails, RunTimesOut
<1>4. CASE \/ \E s \in Sessions : StartRefresh(s)
           \/ \E s \in Sessions : RefreshStep(s) \/ RefreshFails(s) \/ CommandFails(s)
           \/ \E s \in Sessions, selection \in Commands : CommandStarts(s, selection)
  BY <1>4 DEF StartRefresh, RefreshStep, SessionStep, RefreshReturns, CommandReturns,
    RefreshFails, CommandFails, CommandStarts, workflowVars
<1>5. QED
  BY <1>1, <1>2, <1>3, <1>4 DEF Next, TaskStep

\* The row that an assessment writes.
Opened(range) ==
  [status |-> "running", source |-> Assessment(range), observations |-> ObservedIn(range),
   attempts |-> ledger[range].attempts + 1, run |-> 0, task |-> "none"]

LEMMA OpenedTyped ==
  ASSUME TypeOK, NEW range \in Ranges
  PROVE  Opened(range) \in Rows
<1>1. ledger[range] \in Rows /\ AnalyticsTypeOK
  BY DEF TypeOK
<1>2. ledger[range].attempts + 1 \in Nat
  BY <1>1 DEF Rows
<1>3. QED
  BY <1>1, <1>2, AssessmentTyped DEF Opened, Rows

LEMMA LedgerTyped ==
  ASSUME TypeOK, RunOK(dag), [Next]_vars
  PROVE  ledger' \in [Ranges -> Rows]
<1>0. ledger \in [Ranges -> Rows] /\ dag \in DagRuns
  BY DEF TypeOK
<1>1. CASE Assess
  <2>1. PICK range \in Ranges : range = dag.range
    BY <1>1 DEF Assess, Runs, RunOK
  <2>2. ledger' = [ledger EXCEPT ![range] = Opened(range)]
    BY <1>1, <2>1 DEF Assess, StartRun, Opened
  <2>3. QED
    BY <1>0, <2>2, OpenedTyped
<1>2. CASE Record
  <2>1. dag.range \in Ranges /\ dag.run \in Nat
    BY <1>0, <1>2 DEF Record, Runs, RunOK, DagRuns
  <2>2. QED
    BY <1>0, <1>2, <2>1 DEF Record, RecordSuccess, Rows
<1>3. ASSUME NEW c \in callbacks, FailureCallback(c)
      PROVE  ledger' \in [Ranges -> Rows]
  <2>1. c.task \in Tasks
    BY DEF TypeOK, Callbacks
  <2>2. PICK key : key = KeyOf(c.request)
    OBVIOUS
  <2>3. CASE key \in Ranges /\ ledger[key] # NoRow
    <3>1. ledger' = [ledger EXCEPT ![key].status = "failed", ![key].task = c.task]
      BY <1>3, <2>2, <2>3 DEF FailureCallback, RecordFailure
    <3>2. QED
      BY <1>0, <2>1, <2>3, <3>1 DEF Rows
  <2>4. QED
    BY <1>0, <1>3, <2>2, <2>3 DEF FailureCallback, RecordFailure
<1>4. QED
  BY <1>0, <1>1, <1>2, <1>3, LedgerWrites

\* Every action keeps the run, its callbacks and the bounds of the counters.
LEMMA RunTypeStep ==
  ASSUME FullyTyped, AtWork, [Next]_vars
  PROVE  /\ dag' \in DagRuns /\ Started' /\ callbacks' \subseteq Callbacks
         /\ lost' \subseteq Ranges \union {NoRange}
         /\ commands' \in 0..MaxCommands /\ faults' \in 0..MaxFaults
<1>0. /\ dag \in DagRuns /\ Started /\ callbacks \subseteq Callbacks
      /\ lost \subseteq Ranges \union {NoRange}
      /\ commands \in 0..MaxCommands /\ faults \in 0..MaxFaults
  BY DEF FullyTyped, TypeOK
<1> DEFINE Fine == /\ Started' /\ callbacks' \subseteq Callbacks
                   /\ lost' \subseteq Ranges \union {NoRange}
                   /\ commands' \in 0..MaxCommands /\ faults' \in 0..MaxFaults
<1>1. SUFFICES Fine
  BY DagTypeStep DEF FullyTyped, TypeOK
<1>2. ASSUME Fault
      PROVE  faults' \in 0..MaxFaults
  BY <1>0, <1>2, WorkflowAssumption DEF Fault
<1>3. ASSUME dag.state = "running", FailRun(TRUE) \/ FailRun(FALSE) \/ FailTask \/ Advance,
             Fault \/ UNCHANGED faults, UNCHANGED <<lost, commands>>
      PROVE  Fine
  BY <1>0, <1>2, <1>3, RunsTyped
<1>4. CASE \E q \in Requests : Trigger(q)
  <2>1. PICK q \in Requests : Trigger(q)
    BY <1>4
  <2>2. dag'.start \in 1..MaxStarts /\ dag'.request = q
    BY <1>0, <2>1, WorkflowAssumption DEF Trigger, DagRuns
  <2>3. QED
    BY <1>0, <2>1, <2>2 DEF Trigger, Started
<1>5. CASE Clear
  <2>1. dag'.start = dag.start + 1 /\ dag'.request = dag.request /\ dag.state # "none"
    BY <1>0, <1>5 DEF Clear, DagRuns
  <2>2. dag'.start \in 1..MaxStarts
    BY <1>0, <1>5, <2>1, WorkflowAssumption DEF Clear, DagRuns
  <2>3. QED
    BY <1>0, <1>5, <2>1, <2>2 DEF Clear, Started
<1>6. CASE Resolve
  <2>1. CASE Selectable(dag.request)
    <3>1. dag'.start = dag.start /\ dag'.request = dag.request /\ dag.state # "none"
      BY <1>0, <1>6, <2>1 DEF Resolve, Runs, DagRuns
    <3>2. QED
      BY <1>0, <1>6, <2>1, <3>1 DEF Resolve, Started
  <2>2. CASE ~Selectable(dag.request)
    BY <1>3, <1>6, <2>2 DEF Resolve, Runs
  <2>3. QED
    BY <2>1, <2>2
<1>7. CASE Check \/ Assess \/ Reconcile \/ Validate \/ Record
  BY <1>3, <1>7 DEF Check, Assess, Reconcile, Validate, Record, Runs
<1>8. CASE RefreshRefused \/ TaskFails \/ RunTimesOut
  BY <1>3, <1>8 DEF RefreshRefused, TaskFails, RunTimesOut, Runs
<1>9. ASSUME NEW s \in Sessions, RefreshReturns(s)
      PROVE  Fine
  <2>1. dag'.start = dag.start /\ dag'.request = dag.request /\ dag.state = "running"
    BY <1>0, <1>9 DEF RefreshReturns, DagRuns, AtWork
  <2>2. QED
    BY <1>0, <1>9, <2>1 DEF RefreshReturns, Started
<1>10. ASSUME NEW s \in Sessions, RefreshFails(s)
       PROVE  Fine
  BY <1>3, <1>10 DEF RefreshFails, AtWork
<1>11. ASSUME NEW c \in callbacks, FailureCallback(c) \/ CallbackLost(c)
       PROVE  Fine
  <2>1. dag' = dag /\ callbacks' \subseteq callbacks /\ commands' = commands
        /\ (Fault \/ UNCHANGED faults)
    BY <1>11 DEF FailureCallback, CallbackLost
  <2>2. KeyOf(c.request) \in Ranges \union {NoRange}
    BY DEF KeyOf, Selectable
  <2>3. lost' \subseteq Ranges \union {NoRange}
    BY <1>0, <1>11, <2>2 DEF FailureCallback, CallbackLost
  <2>4. QED
    BY <1>0, <1>2, <2>1, <2>3 DEF Started
<1>12. ASSUME \/ \E s \in Sessions : \/ StartRefresh(s) \/ SessionStep(s)
                                     \/ CommandReturns(s) \/ CommandFails(s)
              \/ \E s \in Sessions, selection \in Commands : CommandStarts(s, selection)
       PROVE  Fine
  <2>1. UNCHANGED <<dag, callbacks, lost>> /\ (Fault \/ UNCHANGED faults)
    BY <1>12 DEF StartRefresh, SessionStep, CommandReturns, CommandFails, CommandStarts,
      workflowVars
  <2>2. commands' \in 0..MaxCommands
    BY <1>0, <1>12, WorkflowAssumption DEF StartRefresh, SessionStep, CommandReturns,
      CommandFails, CommandStarts, workflowVars
  <2>3. QED
    BY <1>0, <1>2, <2>1, <2>2 DEF Started
<1>13. ASSUME \/ \E d \in Days : Reject(d) \/ \E t \in 1..Hours : Beat(d, t)
              \/ \E d \in Days, t \in 1..Hours, late \in BOOLEAN : Observe(d, t, late)
              \/ TransitionIncident
              \/ UNCHANGED vars
       PROVE  Fine
  <2>1. UNCHANGED <<dag, callbacks, lost, commands, faults>>
    BY <1>13 DEF Reject, Beat, Observe, TransitionIncident, vars, workflowVars
  <2>2. QED
    BY <1>0, <2>1 DEF Started
<1>14. QED
  BY <1>4, <1>5, <1>6, <1>7, <1>8, <1>9, <1>10, <1>11, <1>12, <1>13
    DEF Next, TaskStep, RefreshStep

LEMMA FullyTypedInvariant == Spec => []FullyTyped
<1>1. Init => FullyTyped
  <2> SUFFICES ASSUME Init
               PROVE  FullyTyped
    OBVIOUS
  <2>1. AnalyticsTypeOK
    BY IdleTyped, AnalyticsAssumption DEF Init, AnalyticsInit, AnalyticsTypeOK, Days, Zeroes
  <2>2. dag \in DagRuns /\ Started
    BY WorkflowAssumption DEF Init, DagRuns, Tasks, Started
  <2>3. \A d \in Days : (IF History[d] > 0 THEN 1 ELSE 0) \in 0..Hours
    BY WorkflowAssumption
  <2>4. 0 \in 0..Hours
    BY WorkflowAssumption
  <2>5. evidence \in [Days -> Evidence]
    BY <2>3, <2>4 DEF Init, Evidence
  <2>6. ledger \in [Ranges -> Rows]
    BY DEF Init, NoRow, Rows
  <2>7. callbacks \subseteq Callbacks /\ lost \subseteq Ranges \union {NoRange}
        /\ activity \in 0..MaxActivity /\ commands \in 0..MaxCommands
        /\ faults \in 0..MaxFaults
    BY WorkflowAssumption DEF Init
  <2>8. QED
    BY <2>1, <2>2, <2>5, <2>6, <2>7 DEF FullyTyped, TypeOK
<1>2. FullyTyped /\ WorkflowInv /\ [Next]_vars => FullyTyped'
  <2> SUFFICES ASSUME FullyTyped, WorkflowInv, [Next]_vars
               PROVE  FullyTyped'
    OBVIOUS
  <2>1. TypeOK /\ AnalyticsTypeOK /\ dag \in DagRuns /\ AtWork /\ RunOK(dag)
    BY DEF FullyTyped, TypeOK, WorkflowInv
  <2>2. AnalyticsTypeOK'
    BY <2>1, AnalyticsSteps, AnalyticsTypeStep
  <2>3. QED
    BY <2>1, <2>2, EvidenceTyped, LedgerTyped, RunTypeStep DEF FullyTyped, TypeOK
<1>3. QED
  BY <1>1, <1>2, WorkflowInvariant, PTL DEF Spec

\* Every variable of the workflow keeps its type: the row of a range that has no
\* valid key, an observation of no day or an assessment of an unknown status is
\* never written (orchestration/repository.py 127-226).
THEOREM TypeCorrect == Spec => []TypeOK
<1>1. FullyTyped => TypeOK
  BY DEF FullyTyped
<1>2. QED
  BY <1>1, FullyTypedInvariant, PTL

-----------------------------------------------------------------------------
(* What a success covers                                                   *)

\* The days of the range have at least that many observations.
Covered(count, daily, range) == count <= SumOf(daily, DaysOf(range))

\* Once its range has been assessed, a run of the DAG has a row that may be
\* refreshed and counts no more than the tables hold; after its refresh, no more
\* than the snapshot of that refresh.
RunCovered(run, row) ==
  /\ run.task \in {"run"} \union AfterRun =>
       MayRefresh(row.source) /\ Covered(row.observations, observed, run.range)
  /\ run.task \in AfterRun => Covered(row.observations, jobRuns[run.run].daily, run.range)

\* So does a refresh of the workflow, from its snapshot on.
CallCovered(call, row, range) ==
  /\ call.pc = "read" => Covered(row.observations, call.daily, range)
  /\ call.pc = "committed" => Covered(row.observations, jobRuns[call.run].daily, range)

Earned(row, range) ==
  row.status = "success" =>
    /\ MayRefresh(row.source)
    /\ RefreshedBy(row.run, range)
    /\ Covered(row.observations, jobRuns[row.run].daily, range)

CoverInv ==
  /\ RunCovered(dag, ledger[dag.range])
  /\ \A s \in Sessions :
       session[s].client = "workflow" => CallCovered(session[s], ledger[dag.range], dag.range)
  /\ \A range \in Ranges : Earned(ledger[range], range)

LEMMA CoverGrows ==
  ASSUME NEW range \in Ranges, NEW count \in Nat,
         NEW daily \in [Days -> Nat], NEW later \in [Days -> Nat],
         \A d \in DaysOf(range) : daily[d] <= later[d], Covered(count, daily, range)
  PROVE  Covered(count, later, range)
<1>1. IsFiniteSet(DaysOf(range))
  <2>1. range[1] \in Int /\ range[2] \in Int
    BY AnalyticsAssumption DEF Ranges, Days
  <2>2. QED
    BY <2>1, FS_Interval DEF DaysOf
<1>2. \A d \in DaysOf(range) : daily[d] \in Nat /\ later[d] \in Nat /\ daily[d] <= later[d]
  BY DaysOfRange
<1>3. SumOf(daily, DaysOf(range)) <= SumOf(later, DaysOf(range))
  BY <1>1, <1>2, SumMonotone
<1>4. SumOf(daily, DaysOf(range)) \in Nat /\ SumOf(later, DaysOf(range)) \in Nat
  BY <1>1, <1>2, SumNat
<1>5. QED
  BY <1>3, <1>4 DEF Covered

\* What a step does to a row: an assessment opens it, a success closes it, and
\* nothing else touches what it counted, or makes a success of it.
LEMMA RowWritten ==
  ASSUME TypeOK, RunOK(dag), [Next]_vars, NEW range \in Ranges
  PROVE  \/ Assess /\ range = dag.range /\ ledger'[range] = Opened(range)
         \/ /\ ledger'[range].source = ledger[range].source
            /\ ledger'[range].observations = ledger[range].observations
            /\ \/ Record /\ range = dag.range /\ ledger'[range].run = dag.run
               \/ /\ ledger'[range].status = "success" => ledger[range].status = "success"
                  /\ ledger'[range].run = ledger[range].run
<1>0. ledger \in [Ranges -> Rows] /\ ledger[range] \in Rows
  BY DEF TypeOK
<1>1. CASE Assess
  <2>1. dag.range \in Ranges
    BY <1>1 DEF Assess, Runs, RunOK
  <2>2. ledger' = [ledger EXCEPT ![dag.range] = Opened(dag.range)]
    BY <1>1, <2>1 DEF Assess, StartRun, Opened
  <2>3. QED
    BY <1>0, <1>1, <2>1, <2>2
<1>2. CASE Record
  <2>1. dag.range \in Ranges
    BY <1>2 DEF Record, Runs, RunOK
  <2>2. QED
    BY <1>0, <1>2, <2>1 DEF Record, RecordSuccess, Rows
<1>3. ASSUME NEW c \in callbacks, FailureCallback(c)
      PROVE  /\ ledger'[range].source = ledger[range].source
             /\ ledger'[range].observations = ledger[range].observations
             /\ ledger'[range].status = "success" => ledger[range].status = "success"
             /\ ledger'[range].run = ledger[range].run
  <2>1. PICK key : key = KeyOf(c.request)
    OBVIOUS
  <2>2. CASE key \in Ranges /\ ledger[key] # NoRow
    <3>1. ledger' = [ledger EXCEPT ![key].status = "failed", ![key].task = c.task]
      BY <1>3, <2>1, <2>2 DEF FailureCallback, RecordFailure
    <3>2. QED
      BY <1>0, <2>2, <3>1 DEF Rows
  <2>3. QED
    BY <1>0, <1>3, <2>1, <2>2 DEF FailureCallback, RecordFailure
<1>4. QED
  BY <1>1, <1>2, <1>3, LedgerWrites

\* What the tables and the rows of the refreshes hold does not shrink.
LEMMA CoverKeeps ==
  ASSUME Typed, AnalyticsInv, [Next]_vars, NEW range \in Ranges, NEW count \in Nat
  PROVE  /\ Covered(count, observed, range) => Covered(count, observed, range)'
         /\ \A r \in 1..Len(jobRuns) :
              /\ r \in 1..Len(jobRuns')
              /\ Covered(count, jobRuns[r].daily, range)
                   => Covered(count, jobRuns[r].daily, range)'
<1>1. /\ [AnalyticsNext]_analyticsVars /\ AnalyticsTypeOK /\ AnalyticsTypeOK'
  BY AnalyticsSteps, AnalyticsTypeStep DEF Typed
<1>2. /\ observed \in [Days -> Nat] /\ observed' \in [Days -> Nat]
      /\ \A d \in DaysOf(range) : observed[d] <= observed'[d]
  <2>1. \A d \in Days : observed'[d] >= observed[d]
    BY <1>1, TablesMoveForward DEF Typed
  <2>2. QED
    BY <1>1, <2>1, DaysOfRange DEF AnalyticsTypeOK
<1>3. ASSUME Covered(count, observed, range)
      PROVE  Covered(count, observed', range)
  BY <1>2, <1>3, CoverGrows
<1>4. \A r \in 1..Len(jobRuns) : r \in 1..Len(jobRuns') /\ jobRuns'[r] = jobRuns[r]
  <2>1. Len(jobRuns) \in Nat /\ Len(jobRuns') \in Nat
    BY <1>1 DEF AnalyticsTypeOK
  <2>2. QED
    BY <1>1, <2>1, ReturnedKeeps DEF Typed
<1>5. QED
  BY <1>3, <1>4 DEF Covered

\* How a run of the DAG comes to a task behind the quality gate, or stays there.
LEMMA BehindTheGate ==
  ASSUME dag \in DagRuns, AtWork, [Next]_vars, dag'.task \in {"run"} \union AfterRun
  PROVE  /\ dag'.range = dag.range
         /\ \/ /\ Assess /\ dag.task = "assess" /\ dag'.task = "run"
               /\ MayRefresh(Assessment(dag.range))
            \/ /\ ~Assess /\ dag.task = "run" /\ dag'.task = "reconcile"
               /\ \E s \in Sessions : RefreshReturns(s) /\ dag'.run = session[s].run
            \/ /\ ~Assess /\ dag'.run = dag.run
               /\ \/ dag'.task = dag.task
                  \/ dag.task \in AfterRun /\ dag'.task \in AfterRun
<1>0. PICK run \in DagRuns : run = dag
  OBVIOUS
<1> DEFINE Stays ==
      /\ dag'.range = dag.range /\ dag'.run = dag.run
      /\ dag'.task = dag.task \/ (dag.task \in AfterRun /\ dag'.task \in AfterRun)
<1>1. ASSUME FailRun(TRUE) \/ FailRun(FALSE) \/ FailTask
      PROVE  Stays
  BY <1>0, <1>1, RunAfterTask
<1>2. ASSUME Advance
      PROVE  /\ dag'.range = dag.range /\ dag'.run = dag.run
             /\ dag'.task = Following[dag.task]
  BY <1>0, <1>2, RunAfterTask
<1>3. ASSUME Assess
      PROVE  /\ dag.task = "assess" /\ dag'.task = "run" /\ dag'.range = dag.range
             /\ MayRefresh(Assessment(dag.range))
  <2>1. dag.task = "assess"
    BY <1>3 DEF Assess, Runs
  <2>2. ~FailRun(FALSE)
    BY <1>1, <2>1 DEF AfterRun
  <2>3. Advance /\ MayRefresh(Assessment(dag.range))
    BY <1>3, <2>2 DEF Assess
  <2>4. QED
    BY <1>2, <2>1, <2>3 DEF Following
<1>4. CASE Check \/ Reconcile \/ Validate \/ Record
  <2>1. dag.task \in {"check", "reconcile", "validate", "record"}
    BY <1>4 DEF Check, Reconcile, Validate, Record, Runs
  <2>2. Advance \/ FailRun(TRUE) \/ FailRun(FALSE)
    BY <1>4 DEF Check, Reconcile, Validate, Record
  <2>3. Stays
    <3>1. CASE Advance
      <4>1. dag'.task = Following[dag.task] /\ dag'.range = dag.range /\ dag'.run = dag.run
        BY <1>2, <3>1
      <4>2. dag.task \in AfterRun /\ dag'.task \in AfterRun
        BY <2>1, <4>1 DEF Following, AfterRun
      <4>3. QED
        BY <4>1, <4>2
    <3>2. QED
      BY <1>1, <2>2, <3>1
  <2>4. ~Assess
    BY <1>3, <2>1
  <2>5. QED
    BY <2>3, <2>4
<1>5. CASE RefreshRefused \/ TaskFails \/ RunTimesOut \/ \E s \in Sessions : RefreshFails(s)
  <2>1. Stays
    BY <1>1, <1>5 DEF RefreshRefused, TaskFails, RunTimesOut, RefreshFails
  <2>2. ~Assess
    BY <1>3, <2>1 DEF AfterRun
  <2>3. QED
    BY <2>1, <2>2
<1>6. CASE \E s \in Sessions : RefreshReturns(s)
  <2>1. PICK s \in Sessions : RefreshReturns(s)
    BY <1>6
  <2>2. dag.task = "run" /\ ~Assess
    BY <1>3, <2>1 DEF RefreshReturns, AtWork
  <2>3. dag'.range = dag.range /\ dag'.task = "reconcile" /\ dag'.run = session[s].run
    BY <1>0, <2>1 DEF RefreshReturns, DagRuns
  <2>4. QED
    BY <2>1, <2>2, <2>3
<1>7. CASE Clear
  <2>1. Stays
    BY <1>0, <1>7 DEF Clear, DagRuns
  <2>2. ~Assess
    BY <1>3, <2>1 DEF AfterRun
  <2>3. QED
    BY <2>1, <2>2
<1>8. ~Resolve /\ ~\E q \in Requests : Trigger(q)
  <2>1. ASSUME NEW q \in Requests, Trigger(q)
        PROVE  FALSE
    BY <2>1 DEF Trigger, AfterRun
  <2>2. ASSUME Resolve
        PROVE  FALSE
    <3>1. dag.task = "resolve"
      BY <2>2 DEF Resolve, Runs
    <3>2. CASE Selectable(dag.request)
      <4>1. dag'.task = "check"
        BY <1>0, <2>2, <3>2 DEF Resolve, DagRuns
      <4>2. QED
        BY <4>1 DEF AfterRun
    <3>3. CASE ~Selectable(dag.request)
      BY <1>1, <2>2, <3>1, <3>3 DEF Resolve, AfterRun
    <3>4. QED
      BY <3>2, <3>3
  <2>3. QED
    BY <2>1, <2>2
<1>9. CASE \/ \E d \in Days : Reject(d) \/ \E t \in 1..Hours : Beat(d, t)
           \/ \E d \in Days, t \in 1..Hours, late \in BOOLEAN : Observe(d, t, late)
           \/ TransitionIncident
           \/ \E c \in callbacks : FailureCallback(c) \/ CallbackLost(c)
           \/ \E s \in Sessions : \/ StartRefresh(s) \/ SessionStep(s)
                                  \/ CommandReturns(s) \/ CommandFails(s)
           \/ \E s \in Sessions, selection \in Commands : CommandStarts(s, selection)
           \/ UNCHANGED vars
  <2>1. UNCHANGED dag
    BY <1>9 DEF Reject, Beat, Observe, TransitionIncident, FailureCallback, CallbackLost,
      StartRefresh, SessionStep, CommandReturns, CommandFails, CommandStarts, vars,
      workflowVars
  <2>2. ~Assess
    BY <1>3, <2>1
  <2>3. QED
    BY <2>1, <2>2
<1>10. QED
  BY <1>3, <1>4, <1>5, <1>6, <1>7, <1>8, <1>9 DEF Next, TaskStep, RefreshStep

LEMMA RunCoveredStep ==
  ASSUME FullyTyped, AnalyticsInv, WorkflowInv, CoverInv, [Next]_vars
  PROVE  RunCovered(dag, ledger[dag.range])'
<1>1. SUFFICES ASSUME dag'.task \in {"run"} \union AfterRun
               PROVE  RunCovered(dag, ledger[dag.range])'
  BY DEF RunCovered
<1>2. /\ TypeOK /\ Typed /\ AtWork /\ RunOK(dag) /\ dag \in DagRuns
      /\ ledger \in [Ranges -> Rows]
  BY DEF FullyTyped, TypeOK, Typed, WorkflowInv
<1>3. /\ dag'.range = dag.range /\ dag.range \in Ranges
  <2>1. dag.task # "resolve"
    BY <1>1, <1>2, BehindTheGate DEF AfterRun
  <2>2. QED
    BY <1>1, <1>2, <2>1, BehindTheGate DEF RunOK
<1>4. PICK range \in Ranges : range = dag.range /\ range = dag'.range
  BY <1>3
<1>5. ledger'[range] \in Rows
  BY <1>2, LedgerTyped
<1>6. PICK row \in Rows : row = ledger'[range]
  BY <1>5
<1>7. row.observations \in Nat
  BY DEF Rows
<1>8. CASE Assess
  <2>1. dag'.task = "run" /\ MayRefresh(Assessment(range))
    BY <1>1, <1>2, <1>4, <1>8, BehindTheGate
  <2>2. row = Opened(range)
    BY <1>2, <1>4, <1>6, <1>8 DEF Assess, StartRun, Opened
  <2>3. row.source = Assessment(range) /\ row.observations = SumOf(observed, DaysOf(range))
    BY <2>2 DEF Opened, ObservedIn, SumOf
  <2>4. observed' = observed
    BY <1>8 DEF Assess, analyticsVars
  <2>5. Covered(row.observations, observed', range)
    BY <1>7, <2>3, <2>4 DEF Covered
  <2>6. QED
    BY <1>4, <1>6, <2>1, <2>3, <2>5 DEF RunCovered, Covered, AfterRun
<1>9. CASE ~Assess
  <2>1. row.source = ledger[range].source /\ row.observations = ledger[range].observations
    BY <1>2, <1>6, <1>9, RowWritten
  <2>2. dag.task \in {"run"} \union AfterRun
    BY <1>1, <1>2, <1>9, BehindTheGate
  <2>3. MayRefresh(row.source) /\ Covered(row.observations, observed, range)
    BY <1>4, <2>1, <2>2 DEF CoverInv, RunCovered
  <2>4. Covered(row.observations, observed, range)'
    BY <1>2, <1>7, <2>3, CoverKeeps DEF Covered
  <2>5. ASSUME dag'.task \in AfterRun
        PROVE  Covered(row.observations, jobRuns'[dag'.run].daily, range)
    <3>1. dag'.run \in 1..Len(jobRuns)
          /\ Covered(row.observations, jobRuns[dag'.run].daily, range)
      <4>1. CASE dag'.run = dag.run /\ dag.task \in AfterRun
        BY <1>2, <1>4, <2>1, <4>1 DEF CoverInv, RunCovered, RunOK, RefreshedBy
      <4>2. ASSUME NEW s \in Sessions, RefreshReturns(s), dag'.run = session[s].run
            PROVE  /\ dag'.run \in 1..Len(jobRuns)
                   /\ Covered(row.observations, jobRuns[dag'.run].daily, range)
        <5>1. session[s].pc = "committed" /\ session[s].client = "workflow"
          BY <4>2 DEF RefreshReturns, Unlock
        <5>2. session[s].run \in 1..Len(jobRuns)
          BY <5>1 DEF AnalyticsInv, Results, Returned
        <5>3. QED
          BY <1>4, <2>1, <4>2, <5>1, <5>2 DEF CoverInv, CallCovered
      <4>3. QED
        BY <1>1, <1>2, <1>9, <2>5, <4>1, <4>2, BehindTheGate DEF AfterRun
    <3>2. PICK r \in 1..Len(jobRuns) : r = dag'.run
      BY <3>1
    <3>3. Covered(row.observations, jobRuns[r].daily, range)'
      BY <1>2, <1>7, <3>1, <3>2, CoverKeeps DEF Covered
    <3>4. QED
      BY <3>2, <3>3 DEF Covered
  <2>6. QED
    BY <1>4, <1>6, <2>3, <2>4, <2>5 DEF RunCovered, Covered
<1>10. QED
  BY <1>8, <1>9

\* How a session comes to be a refresh of the workflow, or stays one.
LEMMA RefreshGoesOn ==
  ASSUME Typed, AnalyticsInv, AtWork, [Next]_vars,
         NEW t \in Sessions, session'[t].client = "workflow"
  PROVE  \/ session'[t].pc = "locked"
         \/ /\ dag' = dag /\ dag.task = "run" /\ session[t].client = "workflow"
            /\ session'[t] = session[t] \/ Read(t) \/ Commit(t)
<1>0. session \in [Sessions -> Calls] /\ dag \in DagRuns
  BY DEF Typed, AnalyticsTypeOK
<1>1. ASSUME UNCHANGED session
      PROVE  /\ session[t].client = "workflow" /\ session'[t] = session[t]
             /\ dag.state = "running" /\ dag.task = "run" /\ ~NotRefreshing
  BY <1>1 DEF AtWork, NotRefreshing
<1>2. ~\/ \E q \in Requests : Trigger(q)
       \/ Clear \/ Resolve \/ Check \/ Assess \/ Reconcile \/ Validate \/ Record
       \/ RefreshRefused \/ TaskFails
  <2>1. ASSUME \/ \E q \in Requests : Trigger(q)
               \/ Clear \/ Resolve \/ Check \/ Assess \/ Reconcile \/ Validate \/ Record
               \/ RefreshRefused \/ TaskFails
        PROVE  FALSE
    <3>1. UNCHANGED session
      BY <2>1 DEF Trigger, Clear, Resolve, Check, Assess, Reconcile, Validate, Record,
        RefreshRefused, TaskFails, analyticsVars
    <3>2. \/ dag.state # "running" \/ dag.task # "run" \/ NotRefreshing
      BY <2>1 DEF Trigger, Clear, Resolve, Check, Assess, Reconcile, Validate, Record, Runs,
        RefreshRefused, TaskFails
    <3>3. QED
      BY <1>1, <3>1, <3>2
  <2>2. QED
    BY <2>1
<1>3. ~RunTimesOut
  <2>1. ASSUME RunTimesOut
        PROVE  session'[t].client # "workflow"
    <3>1. session[t] \in Calls
      BY <1>0
    <3>2. [session[t] EXCEPT !.client = "gone"].client = "gone"
      BY <3>1 DEF Calls
    <3>3. QED
      BY <2>1, <3>2 DEF RunTimesOut
  <2>2. QED
    BY <2>1
<1>4. ASSUME NEW s \in Sessions, RefreshReturns(s) \/ RefreshFails(s)
      PROVE  FALSE
  <2>1. session[s].client = "workflow" /\ session[s] \in Calls
    BY <1>0, <1>4 DEF RefreshReturns, RefreshFails
  <2>2. \A r \in Sessions \ {s} : session[r].client # "workflow"
    BY <2>1, OneRefresh
  <2>3. Release(s) \/ Abandon(s)
    BY <1>4 DEF RefreshReturns, RefreshFails, Unlock, RollBack
  <2>4. session'[s].client = "gone" /\ \A r \in Sessions \ {s} : session'[r] = session[r]
    <3>1. CASE Release(s)
      BY <1>0, <3>1 DEF Release, Idle
    <3>2. CASE Abandon(s)
      BY <1>0, <2>1, <3>2 DEF Abandon, Calls
    <3>3. QED
      BY <2>3, <3>1, <3>2
  <2>5. QED
    BY <2>2, <2>4
<1>5. ASSUME NEW s \in Sessions, StartRefresh(s)
      PROVE  session'[t].pc = "locked"
  <2>1. NotRefreshing /\ Acquire(s, "workflow", dag.range)
    BY <1>5 DEF StartRefresh
  <2>2. [Idle EXCEPT !.pc = "locked", !.client = "workflow", !.selection = dag.range].pc
          = "locked"
    BY DEF Idle
  <2>3. session'[s].pc = "locked" /\ \A r \in Sessions \ {s} : session'[r] = session[r]
    BY <1>0, <2>1, <2>2 DEF Acquire
  <2>4. QED
    BY <2>1, <2>3 DEF NotRefreshing
<1>6. ASSUME NEW s \in Sessions,
             \/ SessionStep(s) \/ CommandReturns(s) \/ CommandFails(s)
             \/ \E selection \in Commands : CommandStarts(s, selection)
      PROVE  /\ dag' = dag /\ dag.task = "run" /\ session[t].client = "workflow"
             /\ session'[t] = session[t] \/ Read(t) \/ Commit(t)
  <2>1. session[t].client = "workflow"
    BY <1>6, ClientKeeps DEF Typed
  <2>2. dag' = dag /\ dag.task = "run"
    BY <1>6, <2>1 DEF SessionStep, CommandReturns, CommandFails, CommandStarts, workflowVars,
      AtWork
  <2>3. CASE t # s
    <3>1. session'[t] = session[t]
      <4>1. ASSUME Read(s) \/ Commit(s) \/ Release(s) \/ Abandon(s)
            PROVE  session'[t] = session[t]
        BY <1>0, <2>3, <4>1 DEF Read, Commit, Release, Abandon
      <4>2. ASSUME NEW selection \in Commands, CommandStarts(s, selection)
            PROVE  session'[t] = session[t]
        BY <1>0, <2>3, <4>2 DEF CommandStarts, Acquire
      <4>3. QED
        BY <1>6, <4>1, <4>2 DEF SessionStep, CommandReturns, CommandFails, SessionEnds,
          Unlock, RollBack
    <3>2. QED
      BY <2>1, <2>2, <3>1
  <2>4. CASE t = s
    <3>1. ~CommandReturns(s) /\ ~CommandFails(s) /\ ~SessionEnds(s)
      BY <2>1, <2>4 DEF CommandReturns, CommandFails, SessionEnds
    <3>2. ASSUME NEW selection \in Commands, CommandStarts(s, selection)
          PROVE  FALSE
      <4>1. session[s].pc = "idle"
        BY <3>2 DEF CommandStarts, Acquire, MayLock
      <4>2. QED
        BY <2>1, <2>4, <4>1 DEF AnalyticsInv, LockHeld
    <3>3. QED
      BY <1>6, <2>1, <2>2, <2>4, <3>1, <3>2 DEF SessionStep
  <2>5. QED
    BY <2>3, <2>4
<1>7. CASE \/ \E d \in Days : Reject(d) \/ \E h \in 1..Hours : Beat(d, h)
           \/ \E d \in Days, h \in 1..Hours, late \in BOOLEAN : Observe(d, h, late)
           \/ TransitionIncident
           \/ \E c \in callbacks : FailureCallback(c) \/ CallbackLost(c)
           \/ UNCHANGED vars
  <2>1. UNCHANGED <<dag, session>>
    BY <1>7 DEF Reject, Beat, Observe, TransitionIncident, FailureCallback, CallbackLost, vars,
      workflowVars, analyticsVars
  <2>2. QED
    BY <1>1, <2>1
<1>8. QED
  BY <1>2, <1>3, <1>4, <1>5, <1>6, <1>7 DEF Next, TaskStep, RefreshStep

LEMMA CallsCoveredStep ==
  ASSUME FullyTyped, AnalyticsInv, WorkflowInv, CoverInv, [Next]_vars,
         NEW t \in Sessions, session'[t].client = "workflow"
  PROVE  CallCovered(session[t], ledger[dag.range], dag.range)'
<1>1. /\ TypeOK /\ Typed /\ AtWork /\ RunOK(dag) /\ dag \in DagRuns /\ AnalyticsTypeOK
      /\ session \in [Sessions -> Calls] /\ ledger \in [Ranges -> Rows]
  BY DEF FullyTyped, TypeOK, Typed, WorkflowInv, AnalyticsTypeOK
<1>2. CASE session'[t].pc = "locked"
  BY <1>2 DEF CallCovered
<1>3. SUFFICES ASSUME dag' = dag, dag.task = "run", session[t].client = "workflow",
                      session'[t] = session[t] \/ Read(t) \/ Commit(t)
               PROVE  CallCovered(session[t], ledger[dag.range], dag.range)'
  BY <1>1, <1>2, RefreshGoesOn
<1>4. PICK range \in Ranges : range = dag.range /\ range = dag'.range
  BY <1>1, <1>3 DEF RunOK
<1>5. PICK row \in Rows : row = ledger'[range]
  BY <1>1, LedgerTyped
<1>6. row.observations = ledger[range].observations /\ row.observations \in Nat
  <2>1. ~Assess
    BY <1>3 DEF Assess, Runs
  <2>2. QED
    BY <1>1, <1>5, <2>1, RowWritten DEF Rows
<1>7. CallCovered(session[t], row, range) /\ Covered(row.observations, observed, range)
  BY <1>3, <1>4, <1>6 DEF CoverInv, CallCovered, RunCovered
<1>8. PICK call \in Calls : call = session[t]
  BY <1>1
<1>9. PICK next : next = session'[t]
  OBVIOUS
<1>10. SUFFICES CallCovered(next, row, range)'
  BY <1>4, <1>5, <1>9 DEF CallCovered
<1>11. CASE next = call
  <2>1. ASSUME call.pc = "committed"
        PROVE  Covered(row.observations, jobRuns[call.run].daily, range)'
    <3>1. call.run \in 1..Len(jobRuns)
      BY <1>3, <1>8, <2>1 DEF AnalyticsInv, Results, Returned
    <3>2. QED
      BY <1>1, <1>6, <1>7, <1>8, <2>1, <3>1, CoverKeeps DEF CallCovered, Covered
  <2>2. QED
    BY <1>7, <1>8, <1>11, <2>1 DEF CallCovered, Covered
<1>12. CASE Read(t)
  <2>1. next.pc = "read" /\ next.daily = observed
    BY <1>1, <1>8, <1>9, <1>12 DEF Read, Calls
  <2>2. QED
    BY <1>7, <2>1 DEF CallCovered, Covered
<1>13. CASE Commit(t)
  <2>1. next.pc = "committed" /\ next.run = Len(jobRuns')
    BY <1>1, <1>8, <1>9, <1>13 DEF Commit, Calls
  <2>2. call.pc = "read" /\ Publish(call)
    BY <1>8, <1>13 DEF Commit
  <2>3. jobRuns'[Len(jobRuns')].daily = call.daily
    BY <1>1, <2>2 DEF Publish, AnalyticsTypeOK
  <2>4. Covered(row.observations, call.daily, range)
    BY <1>7, <1>8, <2>2 DEF CallCovered
  <2>5. QED
    BY <2>1, <2>3, <2>4 DEF CallCovered, Covered
<1>14. QED
  BY <1>3, <1>8, <1>9, <1>11, <1>12, <1>13

LEMMA RowsEarnedStep ==
  ASSUME FullyTyped, AnalyticsInv, WorkflowInv, CoverInv, [Next]_vars, NEW range \in Ranges
  PROVE  Earned(ledger[range], range)'
<1>1. /\ TypeOK /\ Typed /\ RunOK(dag) /\ dag \in DagRuns /\ AnalyticsTypeOK
      /\ ledger \in [Ranges -> Rows] /\ [AnalyticsNext]_analyticsVars
  BY AnalyticsSteps DEF FullyTyped, TypeOK, Typed, WorkflowInv
<1>2. PICK row \in Rows : row = ledger'[range]
  BY <1>1, LedgerTyped
<1>3. SUFFICES ASSUME row.status = "success"
               PROVE  Earned(row, range)'
  BY <1>2 DEF Earned
<1>4. ~(Assess /\ range = dag.range /\ ledger'[range] = Opened(range))
  BY <1>2, <1>3 DEF Opened
<1>5. /\ row.source = ledger[range].source /\ row.observations \in Nat
      /\ row.observations = ledger[range].observations
  BY <1>1, <1>2, <1>4, RowWritten DEF Rows
<1>6. SUFFICES /\ MayRefresh(row.source) /\ RefreshedBy(row.run, range)
               /\ Covered(row.observations, jobRuns[row.run].daily, range)
  <2>1. [AnalyticsNext]_analyticsVars /\ Len(jobRuns) \in Nat
    BY <1>1 DEF AnalyticsTypeOK
  <2>2. PICK r : r = row.run /\ MayRefresh(row.source) /\ RefreshedBy(r, range)
                 /\ Covered(row.observations, jobRuns[r].daily, range)
    BY <1>6
  <2>3. r \in 1..Len(jobRuns)
    BY <2>2 DEF RefreshedBy
  <2>4. /\ r \in 1..Len(jobRuns') /\ jobRuns'[r] = jobRuns[r]
        /\ Covered(row.observations, jobRuns[r].daily, range)'
    BY <1>1, <1>5, <2>1, <2>2, <2>3, CoverKeeps, ReturnedKeeps
  <2>5. RefreshedBy(r, range)'
    BY <2>2, <2>4 DEF RefreshedBy
  <2>6. QED
    BY <1>3, <2>2, <2>4, <2>5 DEF Earned
<1>7. CASE Record /\ range = dag.range /\ ledger'[range].run = dag.run
  <2>1. dag.task \in AfterRun
    BY <1>7 DEF Record, Runs, AfterRun
  <2>2. QED
    BY <1>1, <1>2, <1>5, <1>6, <1>7, <2>1 DEF CoverInv, RunCovered, RunOK
<1>8. CASE /\ ledger'[range].status = "success" => ledger[range].status = "success"
           /\ ledger'[range].run = ledger[range].run
  BY <1>2, <1>3, <1>5, <1>6, <1>8 DEF CoverInv, Earned
<1>9. QED
  BY <1>1, <1>4, <1>7, <1>8, RowWritten

LEMMA CoverInvariant == Spec => []CoverInv
<1>1. Init => CoverInv
  <2> SUFFICES ASSUME Init
               PROVE  CoverInv
    OBVIOUS
  <2>1. RunCovered(dag, ledger[dag.range])
    BY DEF Init, RunCovered, AfterRun
  <2>2. \A s \in Sessions : session[s].client # "workflow"
    BY DEF Init, AnalyticsInit, Idle
  <2>3. \A range \in Ranges : Earned(ledger[range], range)
    BY DEF Init, NoRow, Earned
  <2>4. QED
    BY <2>1, <2>2, <2>3 DEF CoverInv
<1>2. FullyTyped /\ AnalyticsInv /\ WorkflowInv /\ CoverInv /\ [Next]_vars => CoverInv'
  BY RunCoveredStep, CallsCoveredStep, RowsEarnedStep DEF CoverInv
<1>3. QED
  BY <1>1, <1>2, FullyTypedInvariant, AnalyticsInvariant, WorkflowInvariant, PTL DEF Spec

\* A range reported as a success passed the quality gate, was refreshed by a run
\* of that very range, and its facts hold at least what the gate has counted
\* (orchestration/repository.py 189-210), whatever other refreshes, failures,
\* callbacks and cleared runs came in between.
THEOREM SuccessesCoverSource == Spec => []SuccessCoversSource
<1>1. FullyTyped /\ AnalyticsInv /\ CoverInv => SuccessCoversSource
  <2> SUFFICES ASSUME FullyTyped, AnalyticsInv, CoverInv,
                      NEW range \in Ranges, ledger[range].status = "success"
               PROVE  /\ ledger[range].source \notin {"missing", "stale", "invalid"}
                      /\ jobRuns[ledger[range].run].selection = range
                      /\ MapThenSumSet(LAMBDA d : facts[d], DaysOf(range))
                           >= ledger[range].observations
    BY DEF SuccessCoversSource
  <2>1. PICK row \in Rows : row = ledger[range]
    BY DEF FullyTyped, TypeOK
  <2>2. /\ MayRefresh(row.source) /\ RefreshedBy(row.run, range)
        /\ Covered(row.observations, jobRuns[row.run].daily, range)
    BY <2>1 DEF CoverInv, Earned
  <2>3. PICK job \in JobRuns : job = jobRuns[row.run] /\ RowBehind(job)
                               /\ job.selection = range
    BY <2>2 DEF RefreshedBy, AnalyticsInv, RowsBehind, FullyTyped, TypeOK, AnalyticsTypeOK
  <2>4. \A d \in DaysOf(range) : job.daily[d] <= facts[d]
    BY <2>3, DaysOfRange DEF RowBehind
  <2>5. /\ facts \in [Days -> Nat] /\ job.daily \in [Days -> Nat] /\ row.observations \in Nat
    BY DEF FullyTyped, TypeOK, AnalyticsTypeOK, JobRuns, Rows
  <2>6. Covered(row.observations, facts, range)
    BY <2>2, <2>3, <2>4, <2>5, CoverGrows
  <2>7. MapThenSumSet(LAMBDA d : facts[d], DaysOf(range)) = SumOf(facts, DaysOf(range))
    BY DEF SumOf
  <2>8. IsFiniteSet(DaysOf(range)) /\ \A d \in DaysOf(range) : facts[d] \in Nat
    <3>1. range[1] \in Int /\ range[2] \in Int
      BY AnalyticsAssumption DEF Ranges, Days
    <3>2. QED
      BY <2>5, <3>1, FS_Interval, DaysOfRange DEF DaysOf
  <2>9. SumOf(facts, DaysOf(range)) \in Nat
    BY <2>8, SumNat
  <2>10. QED
    BY <2>1, <2>2, <2>3, <2>5, <2>6, <2>7, <2>9 DEF Covered, MayRefresh
<1>2. QED
  BY <1>1, FullyTypedInvariant, AnalyticsInvariant, CoverInvariant, PTL
=============================================================================
