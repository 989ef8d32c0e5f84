---------------------------- MODULE TableauExport ----------------------------
(***************************************************************************)
(* One run of scripts/netpulse.sh tableau-export at a time: the container  *)
(* reads a snapshot of the reports, builds four CSV files and swaps them   *)
(* in as tableau_exports/.next; then the host promotes .next to            *)
(* tableau_exports.  Each rename may fail, and the run may be killed.      *)
(*                                                                         *)
(* A directory that may be missing is a set of at most one function from   *)
(* its files to their datasets.  What a killed run leaves under a          *)
(* temporary name is never read again; only the backups are kept here.     *)
(***************************************************************************)
EXTENDS DailyFacts, Sequences

VARIABLES
  output,      \* the files of tableau_exports
  next,        \* those of tableau_exports/.next
  backups,     \* directories .tableau_exports.backup.* of killed runs
  job,         \* the run
  published    \* history: the last bundle moved to tableau_exports, and the
               \* reports it was read from

exportVars == <<output, next, backups, job, published>>

NoReports == [facts |-> [s \in Slots |-> 0], incidents |-> 0]
Now == [facts |-> facts, incidents |-> generation]

Empty == [f \in {} |-> {}]

\* since: the generation when the run began; snapshot: the reports when the
\* transaction began; read: what its queries have returned.
IdleJob == [pc |-> "idle", result |-> "none", since |-> 0, snapshot |-> NoReports,
            read |-> NoReports, staging |-> Empty, aside |-> {}, incoming |-> {},
            backup |-> {}]

ExportInit ==
  /\ output = {}
  /\ next = {}
  /\ backups = {}
  /\ job = IdleJob
  /\ published = {}

-----------------------------------------------------------------------------
(* The datasets                                                            *)

RowsOf(reports) == {s \in Slots : reports.facts[s] > 0}

Total(reports, rows) == MapThenSumSet(LAMBDA s : reports.facts[s], rows)

\* _daily_dataset: the endpoints of an agent are added up for each day.
DailyReliability(reports) ==
  [group \in {<<DateOf(s), AgentOf(s)>> : s \in RowsOf(reports)} |->
     Total(reports, {s \in RowsOf(reports) : <<DateOf(s), AgentOf(s)>> = group})]

\* _agent_dataset: the days and the endpoints are added up.
AgentPerformance(reports) ==
  [agent \in {AgentOf(s) : s \in RowsOf(reports)} |->
     LET rows == {s \in RowsOf(reports) : AgentOf(s) = agent}
         days == {DateOf(s) : s \in rows}
     IN  [first |-> Min(days), latest |-> Max(days), days |-> Cardinality(days),
          total |-> Total(reports, rows)]]

FileOrder == <<"daily_reliability", "incidents", "agent_performance", "pipeline_health">>
Files == {FileOrder[i] : i \in DOMAIN FileOrder}

\* build_export_bundle
Bundle(reports) ==
  [f \in Files |-> CASE f = "daily_reliability" -> DailyReliability(reports)
                     [] f = "agent_performance" -> AgentPerformance(reports)
                     [] OTHER -> reports.incidents]

-----------------------------------------------------------------------------
(* The container: netpulse-tableau-export --output-dir /exports/.next      *)

\* mkdir -p tableau_exports, and the container starts.
Begin ==
  /\ job.pc = "idle"
  /\ Spend("exports")
  /\ output' = IF output = {} THEN {Empty} ELSE output
  /\ job' = [IdleJob EXCEPT !.pc = "daily", !.since = generation]
  /\ UNCHANGED <<next, backups, published>>

ReadDaily ==
  /\ job.pc = "daily"
  /\ job' = [job EXCEPT !.pc = "others", !.snapshot = Now, !.read.facts = facts]
  /\ UNCHANGED <<output, next, backups, published, left>>

\* Mutant: READ COMMITTED, each query sees the latest commit.
VisibleNow == Now

\* REPEATABLE READ
Visible == job.snapshot

ReadOthers ==
  /\ job.pc = "others"
  /\ job' = [job EXCEPT !.pc = "write", !.read.incidents = Visible.incidents]
  /\ UNCHANGED <<output, next, backups, published, left>>

\* _write_staging, a file at a time.
WriteFile ==
  /\ job.pc = "write"
  /\ LET written == DOMAIN job.staging
         file == FileOrder[Cardinality(written) + 1]
     IN  job' = [job EXCEPT
           !.staging = [f \in written \union {file} |-> Bundle(job.read)[f]],
           !.pc = IF written \union {file} = Files THEN "swap" ELSE "write"]
  /\ UNCHANGED <<output, next, backups, published, left>>

\* _swap_directories: a .next that is still there is put aside ...
SwapAside ==
  /\ job.pc = "swap"
  /\ next' = {}
  /\ job' = [job EXCEPT !.pc = "swapIn", !.aside = next]
  /\ UNCHANGED <<output, backups, published, left>>

\* ... and the staging directory takes its place.
SwapIn ==
  /\ job.pc = "swapIn"
  /\ next' = {job.staging}
  /\ job' = [job EXCEPT !.pc = "check", !.aside = {}]
  /\ UNCHANGED <<output, backups, published, left>>

\* Mutant: the script goes on after a failed command.
AfterFailureGoesOn == [job EXCEPT !.pc = IF job.pc = "check" THEN "incoming" ELSE "check"]

\* set -e: the script ends.
AfterFailure == [IdleJob EXCEPT !.result = "failed"]

\* A query, the transformation, a write or a rename fails; what was put aside
\* is put back.
ExportFails ==
  /\ job.pc \in {"daily", "others", "write", "swap", "swapIn"}
  /\ Spend("faults")
  /\ next' = next \union job.aside
  /\ job' = AfterFailure
  /\ UNCHANGED <<output, backups, published>>

-----------------------------------------------------------------------------
(* The host: promote_tableau_export.py                                     *)

\* Only a complete .next is promoted.
Check ==
  /\ job.pc = "check"
  /\ job' = IF \E dir \in next : DOMAIN dir = Files
            THEN [job EXCEPT !.pc = "incoming"]
            ELSE AfterFailure
  /\ UNCHANGED <<output, next, backups, published, left>>

TakeIncoming ==
  /\ job.pc = "incoming"
  /\ next' = {}
  /\ job' = [job EXCEPT !.pc = "moveAside", !.incoming = next]
  /\ UNCHANGED <<output, backups, published, left>>

MoveAside ==
  /\ job.pc = "moveAside"
  /\ output' = {}
  /\ job' = [job EXCEPT !.pc = "moveIn", !.backup = output]
  /\ UNCHANGED <<next, backups, published, left>>

MoveIn ==
  /\ job.pc = "moveIn"
  /\ output' = job.incoming
  /\ published' = {[bundle |-> bundle, of |-> job.snapshot] : bundle \in job.incoming}
  /\ job' = [job EXCEPT !.pc = "clean"]
  /\ UNCHANGED <<next, backups, left>>

\* The backup is removed, and the script has succeeded.
Clean ==
  /\ job.pc = "clean"
  /\ job' = [IdleJob EXCEPT !.result = "ok", !.since = job.since]
  /\ UNCHANGED <<output, next, backups, published, left>>

\* The first or the second rename fails: nothing has been moved aside.
PromotionFails ==
  /\ job.pc \in {"incoming", "moveAside"}
  /\ Spend("faults")
  /\ job' = AfterFailure
  /\ UNCHANGED <<output, next, backups, published>>

\* Mutant: nothing is moved back, and the backup is removed all the same.
RestoreForgotten == output' = {}

\* os.replace(backup, output)
Restore == output' = job.backup

MoveInFails ==
  /\ job.pc = "moveIn"
  /\ Spend("faults")
  /\ Restore
  /\ job' = AfterFailure
  /\ UNCHANGED <<next, backups, published>>

\* The run is killed: its backup stays behind.
Killed ==
  /\ job.pc # "idle"
  /\ Spend("crashes")
  /\ backups' = IF job.pc = "clean" THEN backups ELSE backups \union job.backup
  /\ job' = IdleJob
  /\ UNCHANGED <<output, next, published>>

ExportStep ==
  \/ Begin \/ ReadDaily \/ ReadOthers \/ WriteFile \/ SwapAside \/ SwapIn \/ ExportFails
  \/ Check \/ TakeIncoming \/ MoveAside \/ MoveIn \/ Clean
  \/ PromotionFails \/ MoveInFails \/ Killed

-----------------------------------------------------------------------------
(* Properties                                                              *)

\* A directory has files of a bundle only, and there is at most one at each place.
ExportTypeOK ==
  /\ facts \in [Slots -> 0..MaxCount]
  /\ generation \in Nat
  /\ \A dir \in output \union next \union backups \union job.aside \union job.incoming
              \union job.backup \union {job.staging} : DOMAIN dir \subseteq Files
  /\ Cardinality(output) <= 1
  /\ Cardinality(next) <= 1
  /\ {job.snapshot, job.read} \subseteq [facts : [Slots -> 0..MaxCount], incidents : Nat]
  /\ job.result \in {"none", "ok", "failed"}

\* A reader of tableau_exports finds no directory, or one that was never filled,
\* or four files of the same committed reports, though refreshes commit while
\* they are read and a file may be missing (tableau/repository.py 23-84,
\* exporter.py 41-82, promote_tableau_export.py 25-55).
OutputIsOneSnapshot ==
  \A dir \in output :
    dir = Empty \/ \E p \in published : dir = p.bundle /\ dir = Bundle(p.of)

\* The last published bundle is never lost: it is in place, or in a backup, after
\* a kill anywhere and after a rename that fails (promote_tableau_export.py 39-55).
PublishedSurvives ==
  \A p \in published : p.bundle \in output \union job.backup \union backups

\* A run that reports success has published reports no older than its beginning,
\* not a bundle that an earlier run left in .next (netpulse.sh 154-163).
SuccessIsFresh ==
  job.result = "ok" =>
    \E p \in published : output = {p.bundle} /\ p.bundle["incidents"] >= job.since
=============================================================================
