---------------------------- MODULE StreamProcessor ----------------------------
(***************************************************************************)
(* The Spark stream processor (services/stream-processor): two queries     *)
(* read the raw measurements topic in micro-batches.  One counts valid     *)
(* measurements in tumbling windows of several sizes, the other keeps      *)
(* evidence of invalid records.  A batch is planned in the query's         *)
(* checkpoint, written by foreachBatch in one PostgreSQL transaction, and  *)
(* committed in the checkpoint; a batch that was planned and not committed *)
(* is run again, over the same offsets, after a restart.                   *)
(*                                                                         *)
(* An exception in a sink ends its query.  The application ends, and is    *)
(* restarted, only when no query is active any more.                       *)
(***************************************************************************)
EXTENDS Integers, Sequences, FiniteSetsExt

CONSTANTS
  Agents,      \* values of agent_id (with target and type, the group)
  Registered,  \* those with a row in the agents table
  Sizes,       \* WINDOWS, in units of the smallest one
  MaxTime,     \* bound: event times are 0..MaxTime
  Delay,       \* StreamingConfig.watermark_delay
  MaxRows,     \* StreamingConfig.maximum_output_rows_per_batch
  MaxLog,      \* bound: records in the topic
  MaxCopies,   \* bound: records delivered again
  MaxErrors,   \* bound: failed transactions
  MaxCrashes   \* bound: killed processes

ASSUME StreamAssumption ==
  /\ Registered \subseteq Agents
  /\ IsFiniteSet(Agents)
  /\ Sizes \subseteq Nat \ {0}
  /\ IsFiniteSet(Sizes)
  /\ MaxTime \in Nat
  /\ Delay \in Nat
  /\ MaxRows \in Nat \ {0}
  /\ MaxLog \in Nat
  /\ MaxCopies \in Nat
  /\ MaxErrors \in Nat
  /\ MaxCrashes \in Nat

VARIABLES
  log,        \* network.measurements.raw.v1
  \* checkpoints, one per query
  plan,       \* [Queries -> sequence of end offsets]: the offset log
  commits,    \* [Queries -> number of batches in the commit log]
  store,      \* [Keys -> count]: the state store of the last committed batch
  \* PostgreSQL
  windows,    \* [Keys -> event_count of network_window_metrics, or 0]
  failures,   \* source offsets in stream_processing_failures
  ledger,     \* [Queries -> batch ids in streaming_query_batches]
  \* the application
  pc,         \* [Queries -> control state]
  errors, crashes

checkpointVars == <<plan, commits, store>>
dbVars == <<windows, failures, ledger>>
vars == <<log, plan, commits, store, windows, failures, ledger, pc, errors, crashes>>

-----------------------------------------------------------------------------
(* Data                                                                    *)

Queries == {"window-metrics", "invalid-measurements"}
ControlStates == {"idle", "batch", "written", "failed"}

\* What split_measurements tells apart; an invalid record has no use for the rest.
Payloads ==
  [valid : {TRUE}, time : 0..MaxTime, agent : Agents]
    \union [valid : {FALSE}, time : {0}, agent : {CHOOSE a \in Agents : TRUE}]

\* A measurement in the topic, with its event_id.
Record(event, p) ==
  [event |-> event, valid |-> p.valid, time |-> p.time, agent |-> p.agent]
Records == {Record(event, p) : event \in 1..MaxLog, p \in Payloads}

\* The primary key of network_window_metrics.
Keys == {key \in Sizes \X (0..MaxTime) \X Agents : (key[2] % key[1]) = 0}

\* F.window: the tumbling window of a size that holds a time.
Start(size, time) == time - (time % size)
KeyOf(size, r) == <<size, Start(size, r.time), r.agent>>
EndOf(key) == key[2] + key[1]

-----------------------------------------------------------------------------
(* Batches                                                                 *)

\* The end offset of a query's nth batch.
End(q, n) == IF n = 0 THEN 0 ELSE plan[q][n]

\* Mutant: a batch begins one record late.
OffsetsOfNext(q, n) == (End(q, n - 1) + 2)..End(q, n)

OffsetsOf(q, n) == (End(q, n - 1) + 1)..End(q, n)

\* withWatermark: the greatest event time of earlier batches, less the delay.
Watermark(n) ==
  IF n = 0 THEN 0
  ELSE Max({0} \union {log[o].time - Delay : o \in {i \in 1..End("window-metrics", n - 1) : log[i].valid}})

\* Mutant: lateness is decided by the start of the window.
OnTimeByStart(key, n) == key[2] > Watermark(n - 1)

\* A row is late when its window has ended at the previous batch's watermark.
OnTime(key, n) == EndOf(key) > Watermark(n - 1)

\* The offsets of the nth batch that count in a window.
Counted(key, n) ==
  {o \in OffsetsOf("window-metrics", n) :
     /\ log[o].valid
     /\ key = KeyOf(key[1], log[o])
     /\ OnTime(key, n)}

\* Update mode: the rows of a batch are the windows it has changed.
Touched(n) == {key \in Keys : Counted(key, n) # {}}
Updated(n) == [key \in Keys |-> store[key] + Cardinality(Counted(key, n))]

Rejects(n) == {o \in OffsetsOf("invalid-measurements", n) : ~log[o].valid}

\* Mutant: state is evicted when the window has begun before the watermark.
EvictedEarly(counts, n) ==
  [key \in Keys |-> IF key[2] < Watermark(n) THEN 0 ELSE counts[key]]

\* State of windows that have ended at this batch's watermark is dropped.
Evicted(counts, n) ==
  [key \in Keys |-> IF EndOf(key) <= Watermark(n) THEN 0 ELSE counts[key]]

\* _bounded_rows lets the batch pass, and its rows satisfy the foreign keys.
Writable(q, n) ==
  IF q = "window-metrics"
    THEN /\ Cardinality(Touched(n)) <= MaxRows
         /\ \A key \in Touched(n) : key[3] \in Registered
    ELSE Cardinality(Rejects(n)) <= MaxRows

-----------------------------------------------------------------------------
Init ==
  /\ log = <<>>
  /\ plan = [q \in Queries |-> <<>>]
  /\ commits = [q \in Queries |-> 0]
  /\ store = [key \in Keys |-> 0]
  /\ windows = [key \in Keys |-> 0]
  /\ failures = {}
  /\ ledger = [q \in Queries |-> {}]
  /\ pc = [q \in Queries |-> "idle"]
  /\ errors = 0
  /\ crashes = 0

\* A producer sends a new event.
Arrive(p) ==
  /\ Len(log) < MaxLog
  /\ log' = Append(log, Record(Len(log) + 1, p))
  /\ UNCHANGED <<checkpointVars, dbVars, pc, errors, crashes>>

\* The offsets of records that repeat an earlier one.
Copies == {o \in DOMAIN log : log[o].event # o}

\* The agent's outbox sends an event again that is already in the topic.
Redeliver(o) ==
  /\ Len(log) < MaxLog
  /\ Cardinality(Copies) < MaxCopies
  /\ log' = Append(log, log[o])
  /\ UNCHANGED <<checkpointVars, dbVars, pc, errors, crashes>>

\* A batch with all that has arrived, or one without records when the watermark
\* has moved since the last, to let the state store evict.
Plan(q) ==
  LET n == commits[q] IN
  /\ pc[q] = "idle"
  /\ \/ Len(log) > End(q, n)
     \/ q = "window-metrics" /\ Watermark(n + 1) # Watermark(n)
  /\ plan' = [plan EXCEPT ![q] = Append(@, Len(log))]
  /\ pc' = [pc EXCEPT ![q] = "batch"]
  /\ UNCHANGED <<log, commits, store, dbVars, errors, crashes>>

\* Mutant: ON CONFLICT DO UPDATE adds the new count to the row's.
UpsertAdding(n) ==
  [key \in Keys |-> IF key \in Touched(n) THEN windows[key] + Updated(n)[key] ELSE windows[key]]

\* METRIC_UPSERT: the batch's values replace those of the row.
Upsert(n) ==
  [key \in Keys |-> IF key \in Touched(n) THEN Updated(n)[key] ELSE windows[key]]

\* Mutant: _write returns before the ledger when there are no rows.
EnteredIfRows(q, n) ==
  IF (IF q = "window-metrics" THEN Touched(n) ELSE Rejects(n)) = {}
    THEN ledger
    ELSE [ledger EXCEPT ![q] = @ \union {n - 1}]

\* The ledger once a batch has been written, perhaps again.
Entered(q, n) == [ledger EXCEPT ![q] = @ \union {n - 1}]

\* write_metrics or write_failures, with the ledger's row, in one transaction.
Write(q) ==
  LET n == commits[q] + 1 IN
  /\ pc[q] = "batch"
  /\ Writable(q, n)
  /\ IF q = "window-metrics"
       THEN windows' = Upsert(n) /\ UNCHANGED failures
       ELSE failures' = failures \union Rejects(n) /\ UNCHANGED windows
  /\ ledger' = Entered(q, n)
  /\ pc' = [pc EXCEPT ![q] = "written"]
  /\ UNCHANGED <<log, checkpointVars, errors, crashes>>

\* Spark commits the batch and its state.
Commit(q) ==
  LET n == commits[q] + 1 IN
  /\ pc[q] = "written"
  /\ commits' = [commits EXCEPT ![q] = n]
  /\ store' = IF q = "window-metrics" THEN Evicted(Updated(n), n) ELSE store
  /\ pc' = [pc EXCEPT ![q] = "idle"]
  /\ UNCHANGED <<log, plan, dbVars, errors, crashes>>

\* The sink raises: the batch cannot be written, or the database fails.
QueryFails(q) ==
  /\ pc[q] = "batch"
  /\ \/ ~Writable(q, commits[q] + 1) /\ UNCHANGED errors
     \/ errors < MaxErrors /\ errors' = errors + 1
  /\ pc' = [pc EXCEPT ![q] = "failed"]
  /\ UNCHANGED <<log, checkpointVars, dbVars, crashes>>

\* A started query runs its last planned batch again unless it was committed.
Restarted == [q \in Queries |-> IF Len(plan[q]) > commits[q] THEN "batch" ELSE "idle"]

\* No query is active: run ends with the exception and Compose restarts it.
Exit ==
  /\ \A q \in Queries : pc[q] = "failed"
  /\ pc' = Restarted
  /\ UNCHANGED <<log, checkpointVars, dbVars, errors, crashes>>

\* The process is killed, or stopped, and started again.
Crash ==
  /\ crashes < MaxCrashes
  /\ crashes' = crashes + 1
  /\ pc' = Restarted
  /\ UNCHANGED <<log, checkpointVars, dbVars, errors>>

-----------------------------------------------------------------------------
Batch(q) == Plan(q) \/ Write(q) \/ Commit(q) \/ QueryFails(q)

Next ==
  \/ \E p \in Payloads : Arrive(p)
  \/ \E o \in DOMAIN log : Redeliver(o)
  \/ \E q \in Queries : Batch(q)
  \/ Exit
  \/ Crash

Spec == Init /\ [][Next]_vars

-----------------------------------------------------------------------------
(* Properties                                                              *)

\* Every variable keeps its type, and at most one batch is planned ahead of the
\* commit log: exactly when a query runs it.
TypeOK ==
  /\ log \in Seq(Records)
  /\ Len(log) <= MaxLog
  /\ plan \in [Queries -> Seq(0..MaxLog)]
  /\ commits \in [Queries -> Nat]
  /\ store \in [Keys -> Nat]
  /\ windows \in [Keys -> Nat]
  /\ failures \subseteq 1..MaxLog
  /\ ledger \in [Queries -> SUBSET Nat]
  /\ pc \in [Queries -> ControlStates]
  /\ \A q \in Queries :
       Len(plan[q]) = IF pc[q] = "idle" THEN commits[q] ELSE commits[q] + 1
  /\ errors \in Nat
  /\ crashes \in Nat

\* The number of batches whose transaction is committed in the database: the
\* committed ones, and perhaps the one that will be run again.
Written(q) == Cardinality(ledger[q])

\* "A replayed micro-batch updates the same row": a window's row counts each
\* record of the batches written so far once, if it came before its window was
\* closed, whatever was evicted from the state, replayed or half done.
RowsCountRecords ==
  LET q == "window-metrics" IN
  \A key \in Keys :
    windows[key] =
      Cardinality({o \in 1..End(q, Written(q)) :
        /\ log[o].valid
        /\ KeyOf(key[1], log[o]) = key
        /\ \E n \in 1..Written(q) :
             /\ End(q, n - 1) < o /\ o <= End(q, n)
             /\ EndOf(key) > Watermark(n - 1)})

\* A batch counts in all window sizes or, late, in the larger ones only: a
\* window is never short of the windows inside it.
NestedWindows ==
  \A key \in Keys : \A size \in {z \in Sizes : z < key[1] /\ (key[1] % z) = 0} :
    LET Inner == {k \in Keys : /\ k[1] = size
                               /\ k[2] \in key[2]..(EndOf(key) - 1)
                               /\ k[3] = key[3]}
    IN  MapThenSumSet(LAMBDA k : windows[k], Inner) <= windows[key]

\* "Rejects are unique by source topic/partition/offset": the evidence is that of
\* the invalid records in the batches written so far.
RejectsKept ==
  failures = {o \in 1..End("invalid-measurements", Written("invalid-measurements")) :
                ~log[o].valid}

\* streaming_query_batches records completed sink batches, from the first to the
\* last, and is never behind the checkpoint nor more than one batch ahead.
LedgerFollowsCheckpoint ==
  \A q \in Queries :
    /\ ledger[q] = 0..(Written(q) - 1)
    /\ commits[q] <= Written(q)
    /\ Written(q) <= Len(plan[q])

\* A later batch never takes back what a row has shown: counts grow.
CountsGrow == [][\A key \in Keys : windows'[key] >= windows[key]]_vars
=============================================================================
