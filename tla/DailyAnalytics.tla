---------------------------- MODULE DailyAnalytics ----------------------------
(***************************************************************************)
(* The analytics refresh (services/analytics): one call recomputes the     *)
(* daily facts of a date range and the incident facts from the operational *)
(* tables, in one REPEATABLE READ transaction, under a session-level       *)
(* advisory lock that it does not wait for.                                *)
(*                                                                         *)
(* A client that dies or times out leaves its PostgreSQL session behind.   *)
(* The session holds the lock until the server ends it, and a COMMIT it    *)
(* has received still happens.                                             *)
(***************************************************************************)
EXTENDS Integers, Sequences, FiniteSetsExt

CONSTANTS
  Sessions,       \* database connections of the refreshes
  NoSession,
  LastDay,        \* bound: the days are 1..LastDay
  History         \* [days -> observations stored before the first refresh]

ASSUME AnalyticsAssumption ==
  /\ NoSession \notin Sessions
  /\ IsFiniteSet(Sessions)
  /\ LastDay \in Nat \ {0}
  /\ History \in [1..LastDay -> Nat]

VARIABLES
  observed,      \* [Days -> rows of network_measurements and service_checks]
  incidents,     \* transitions applied to network_incidents
  facts,         \* [Days -> observations counted in fact_reliability_daily]
  factIncidents, \* transitions reflected in fact_incident
  jobRuns,       \* analytics_job_runs; run_id is the position
  lock,          \* the session that holds the advisory lock, or NoSession
  session        \* [Sessions -> state of the call]

sourceVars == <<observed, incidents>>
reportVars == <<facts, factIncidents, jobRuns>>
analyticsVars == <<observed, incidents, facts, factIncidents, jobRuns, lock, session>>

-----------------------------------------------------------------------------
(* Data                                                                    *)

Days == 1..LastDay

\* DateRange and DateSelection: ordered inclusive ranges; All is --all.
Ranges == {range \in Days \X Days : range[1] <= range[2]}
All == <<0, 0>>
Selections == Ranges \union {All}

Clients == {"workflow", "command", "gone"}

\* A call of PostgresAnalyticsRepository.run: its client, its selection, the
\* snapshot of its transaction, and the run_id it returns.
Calls ==
  [pc : {"idle", "locked", "read", "committed"}, client : Clients,
   selection : Selections, days : SUBSET Days, daily : [Days -> Nat],
   incidents : Nat, before : [Days -> Nat], run : Nat]

Zeroes == [d \in Days |-> 0]
Idle == [pc |-> "idle", client |-> "gone", selection |-> All, days |-> {},
         daily |-> Zeroes, incidents |-> 0, before |-> Zeroes, run |-> 0]

\* A row of analytics_job_runs, and the snapshot its refresh has read.
JobRuns == [selection : Selections, daily : [Days -> Nat], incidents : Nat]

-----------------------------------------------------------------------------
AnalyticsInit ==
  /\ observed = History
  /\ incidents = 0
  /\ facts = Zeroes
  /\ factIncidents = 0
  /\ jobRuns = <<>>
  /\ lock = NoSession
  /\ session = [s \in Sessions |-> Idle]

\* Mutant: the result of pg_try_advisory_lock is not examined.
MayLockAnyway(s) == session[s].pc = "idle"

\* pg_try_advisory_lock succeeds when nobody holds the lock.
MayLock(s) ==
  /\ session[s].pc = "idle"
  /\ lock = NoSession

Acquire(s, client, selection) ==
  /\ MayLock(s)
  /\ lock' = s
  /\ session' = [session EXCEPT ![s] = [Idle EXCEPT !.pc = "locked", !.client = client,
                                                    !.selection = selection]]
  /\ UNCHANGED <<sourceVars, reportVars>>

\* Mutant: the last day of the range is excluded.
BoundsExclusive(selection) == selection[1]..(selection[2] - 1)

\* _resolve_bounds: --all goes from the first to the last day with a row.
Bounds(selection) ==
  IF selection # All
    THEN selection[1]..selection[2]
    ELSE LET used == {d \in Days : observed[d] > 0 \/ facts[d] > 0}
         IN  {d \in Days : \E first, last \in used : first <= d /\ d <= last}

\* The first query of the transaction takes its snapshot.
Read(s) ==
  /\ session[s].pc = "locked"
  /\ session[s].client # "gone"
  /\ session' = [session EXCEPT ![s].pc = "read",
                                ![s].days = Bounds(session[s].selection),
                                ![s].daily = observed,
                                ![s].incidents = incidents,
                                ![s].before = facts]
  /\ UNCHANGED <<sourceVars, reportVars, lock>>

\* Mutant: DELETE without WHERE, every day outside of the range is lost.
ReplacedAll(call) == [d \in Days |-> IF d \in call.days THEN call.daily[d] ELSE 0]

\* _refresh_daily: the facts of the range are deleted and computed again.
Replaced(call) == [d \in Days |-> IF d \in call.days THEN call.daily[d] ELSE facts[d]]

\* What becomes visible when the transaction commits.
Publish(call) ==
  /\ facts' = Replaced(call)
  /\ factIncidents' = call.incidents
  /\ jobRuns' = Append(jobRuns, [selection |-> call.selection, daily |-> call.daily,
                                 incidents |-> call.incidents])

Commit(s) ==
  /\ session[s].pc = "read"
  /\ session[s].client # "gone"
  /\ Publish(session[s])
  /\ session' = [session EXCEPT ![s].pc = "committed",
                                ![s].run = Len(jobRuns')]
  /\ UNCHANGED <<sourceVars, lock>>

\* Mutant: no unlock, and the connection goes back to a pool.
KeepLock(s) == session' = [session EXCEPT ![s] = Idle] /\ UNCHANGED lock

\* pg_advisory_unlock, or the end of the session.
Release(s) ==
  /\ session' = [session EXCEPT ![s] = Idle]
  /\ lock' = IF lock = s THEN NoSession ELSE lock

\* The finally clause, after the commit; the call returns.
Unlock(s) ==
  /\ session[s].pc = "committed"
  /\ session[s].client # "gone"
  /\ Release(s)
  /\ UNCHANGED <<sourceVars, reportVars>>

\* A statement raises: the transaction is rolled back, then the lock released.
RollBack(s) ==
  /\ session[s].pc \in {"locked", "read"}
  /\ session[s].client # "gone"
  /\ Release(s)
  /\ UNCHANGED <<sourceVars, reportVars>>

\* The client is killed, or gives up waiting.
Abandon(s) ==
  /\ session[s].pc # "idle"
  /\ session[s].client # "gone"
  /\ session' = [session EXCEPT ![s].client = "gone"]
  /\ UNCHANGED <<sourceVars, reportVars, lock>>

\* The server ends an abandoned session; a COMMIT it had received takes effect.
SessionEnds(s) ==
  /\ session[s].pc # "idle"
  /\ session[s].client = "gone"
  /\ \/ UNCHANGED reportVars
     \/ session[s].pc = "read" /\ Publish(session[s])
  /\ Release(s)
  /\ UNCHANGED <<sourceVars>>

-----------------------------------------------------------------------------
(* Properties                                                              *)

AnalyticsTypeOK ==
  /\ observed \in [Days -> Nat]
  /\ incidents \in Nat
  /\ facts \in [Days -> Nat]
  /\ factIncidents \in Nat
  /\ jobRuns \in Seq(JobRuns)
  /\ lock \in Sessions \union {NoSession}
  /\ session \in [Sessions -> Calls]

\* A refresh that has taken its snapshot finds the facts as it read them when it
\* deletes them: overlapping refreshes, abandoned ones included, never meet
\* (repository.py 30-35), so the delete cannot fail to serialise.
NoWriteConflict ==
  \A s \in Sessions : session[s].pc = "read" => facts = session[s].before

\* No report goes back to older data, whatever the order of refreshes of
\* overlapping ranges, failures, and transactions that outlive their client
\* (repository.py 122-204).
ReportMovesForward ==
  [][/\ \A d \in Days : facts'[d] >= facts[d]
     /\ factIncidents' >= factIncidents]_analyticsVars

\* An abandoned refresh does not keep later ones out for ever (repository.py
\* 67-71).
LockIsReleased == []<>(lock = NoSession)
=============================================================================
