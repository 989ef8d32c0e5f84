----------------------------- MODULE AgentOutbox -----------------------------
(***************************************************************************)
(* The durable outbox of the network agent and the threads that use it     *)
(* (services/network-agent).                                               *)
(*                                                                         *)
(* Collector threads build events (one sequence number each) and insert    *)
(* them into a SQLite table.  A publisher thread reads a batch of eligible *)
(* rows, produces them to Kafka one at a time, and records the outcome of  *)
(* each attempt in the table.  Every SQLite operation opens its own        *)
(* connection and is one transaction, hence one atomic step; between two   *)
(* steps any other thread may run, the process may be killed and           *)
(* restarted, and Kafka may store a message whose sender has given up.     *)
(*                                                                         *)
(* The publishers other than Daemon are command-line runs of               *)
(* "netpulse-agent publish-once" on the same database file.                *)
(***************************************************************************)
EXTENDS Integers, FiniteSets

CONSTANTS
  Events,          \* identifiers of the events the collectors may build
  Collectors,      \* collector threads of the daemon
  Publishers,      \* publisher threads, one per process
  Daemon,          \* the publisher of the long-running service
  NoEvent,         \* a collector holds no event
  NoRecord,        \* a publisher works on no record
  BatchSize,       \* OutboxConfig.batch_size
  MaxUnits,        \* OutboxConfig.maximum_bytes, in rows
  WalSizes,        \* rows' worth of -wal and -shm bytes seen by one insert
  RetryBase,       \* OutboxConfig.retry_base_seconds, in clock ticks
  RetryMax,        \* OutboxConfig.retry_max_seconds, in clock ticks
  RetryCap,        \* bound: retry counts saturate here
  Retention,       \* OutboxConfig.acknowledged_retention_seconds, in ticks
  Stamps,          \* wall-clock readings an insert can see (only compared)
  MaxCrashes,      \* bound: process crashes
  MaxErrors,       \* bound: SQLite errors (locked past the timeout, disk)
  MaxClockSteps    \* bound: backward steps of the wall clock

ASSUME OutboxAssumption ==
  /\ Events \subseteq Nat
  /\ IsFiniteSet(Events)
  /\ NoEvent \notin Events
  /\ Daemon \in Publishers
  /\ BatchSize \in Nat \ {0}
  /\ MaxUnits \in Nat
  /\ WalSizes \subseteq Nat
  /\ RetryBase \in Nat \ {0}
  /\ RetryMax \in Nat
  /\ RetryBase <= RetryMax
  /\ RetryCap \in Nat
  /\ Retention \in Nat
  /\ Stamps \subseteq Nat
  /\ MaxCrashes \in Nat
  /\ MaxErrors \in Nat
  /\ MaxClockSteps \in Nat

VARIABLES
  \* the SQLite file
  status,      \* [Events -> Statuses]: where the event is (see Statuses)
  created,     \* [Events -> Nat]: created_at, compared only
  retryCount,  \* [Events -> Nat]: retry_count
  timer,       \* [Events -> Nat]: ticks until next_attempt_at (pending row) or
               \*   until the row may be pruned (delivered row)
  sequence,    \* outbox_metadata.sequence_number
  fileUnits,   \* size of the database file, in rows: it never shrinks
  \* the agent's memory
  seqOf,       \* [Events -> Int]: sequence_number in the event's envelope
  holding,     \* [Collectors -> event built and not yet inserted]
  pc,          \* [Publishers -> control state]
  batch,       \* [Publishers -> records read by ready() and not yet tried]
  current,     \* [Publishers -> the record being published]
  dead,        \* threads ended by an exception nobody catches
  \* Kafka
  sent,        \* events handed to a producer at least once
  topic,       \* events of which Kafka stores at least one copy
  \* bounds on faults
  crashes, errors, clockSteps

tableVars == <<status, created, retryCount, timer, fileUnits>>
collectorVars == <<sequence, seqOf, holding>>
publisherVars == <<pc, batch, current>>
kafkaVars == <<sent, topic>>
faultVars == <<crashes, errors, clockSteps>>
vars == <<status, created, retryCount, timer, fileUnits, sequence, seqOf,
          holding, pc, batch, current, dead, sent, topic,
          crashes, errors, clockSteps>>

-----------------------------------------------------------------------------
(* Data                                                                    *)

\* "unborn": not yet built; "held": in a collector's memory; "lost": rejected
\* by the outbox or gone with its process before the insert; "pending": a row
\* with delivered_at NULL; "delivered": a row with delivered_at set; "pruned":
\* a delivered row that was deleted.
Statuses == {"unborn", "held", "lost", "pending", "delivered", "pruned"}

Rows == {e \in Events : status[e] \in {"pending", "delivered"}}
Accepted == {e \in Events : status[e] \in {"pending", "delivered", "pruned"}}
Delivered == {e \in Events : status[e] \in {"delivered", "pruned"}}

\* OutboxRecord: what ready() copies out of a row.
Records == [id : Events, retry_count : Nat]

PublisherStates == {"idle", "publishing", "waiting", "acked", "failed"}

MaxDelay == RetryMax + RetryMax \div 4

-----------------------------------------------------------------------------
(* Operators of the code                                                   *)

Smaller(a, b) == IF a < b THEN a ELSE b

\* ORDER BY created_at, event_id
Before(e, f) ==
  \/ created[e] < created[f]
  \/ created[e] = created[f] /\ e < f

\* Mutant: a row whose retry count has reached the cap is given up.
EligibleBelowCap ==
  {e \in Events : status[e] = "pending" /\ timer[e] = 0 /\ retryCount[e] < RetryCap}

\* WHERE delivered_at IS NULL AND next_attempt_at <= now
Eligible == {e \in Events : status[e] = "pending" /\ timer[e] = 0}

\* The rows ready() returns: the oldest BatchSize eligible ones.
ReadyRows ==
  {e \in Eligible : Cardinality({f \in Eligible : Before(f, e)}) < BatchSize}

\* Mutant: the delay is subtracted from the time of the attempt.
DelaysIntoThePast(count) == {0 - Smaller(RetryMax, RetryBase * 2^Smaller(count, 20))}

\* delay = base + jitter with base = min(max, retry_base * 2^retry_count) and
\* a jitter of at most a quarter of base.  The exponent is capped in the code
\* (at 20) and by RetryCap here; both lie where base has reached retry_max.
Delays(count) ==
  LET base == Smaller(RetryMax, RetryBase * 2^Smaller(count, 20))
  IN  {d \in 0..MaxDelay : base <= d /\ d <= base + base \div 4}

\* A publisher's next record: the oldest of the batch it read.
IsNext(r, S) == r \in S /\ \A s \in S : s = r \/ Before(r.id, s.id)

-----------------------------------------------------------------------------
Init ==
  /\ status = [e \in Events |-> "unborn"]
  /\ created = [e \in Events |-> 0]
  /\ retryCount = [e \in Events |-> 0]
  /\ timer = [e \in Events |-> 0]
  /\ sequence = -1
  /\ fileUnits = 0
  /\ seqOf = [e \in Events |-> -1]
  /\ holding = [c \in Collectors |-> NoEvent]
  /\ pc = [p \in Publishers |-> "idle"]
  /\ batch = [p \in Publishers |-> {}]
  /\ current = [p \in Publishers |-> NoRecord]
  /\ dead = {}
  /\ sent = {}
  /\ topic = {}
  /\ crashes = 0
  /\ errors = 0
  /\ clockSteps = 0

-----------------------------------------------------------------------------
(* Collector threads                                                       *)

\* Mutant: the counter is created once and then handed out as it is.
NextSequenceStored == IF sequence = -1 THEN 0 ELSE sequence

\* SQLiteOutbox.next_sequence, under BEGIN IMMEDIATE.
NextSequence == sequence + 1

\* EventFactory.build: a fresh event id (uuid4) and the next sequence number.
Build(c) ==
  /\ c \notin dead
  /\ holding[c] = NoEvent
  /\ \E e \in Events :
       /\ status[e] = "unborn"
       /\ status' = [status EXCEPT ![e] = "held"]
       /\ seqOf' = [seqOf EXCEPT ![e] = NextSequence]
       /\ holding' = [holding EXCEPT ![c] = e]
  /\ sequence' = NextSequence
  /\ UNCHANGED <<created, retryCount, timer, fileUnits, publisherVars, dead,
                 kafkaVars, faultVars>>

\* The event leaves the collector's memory without entering the outbox.
Discard(c) ==
  /\ status' = [status EXCEPT ![holding[c]] = "lost"]
  /\ holding' = [holding EXCEPT ![c] = NoEvent]
  /\ UNCHANGED <<created, retryCount, timer, fileUnits, sequence, seqOf,
                 publisherVars, dead, kafkaVars>>

\* Mutant: the size of the new row is not counted.
FitsWithoutRow(wal) == fileUnits + wal <= MaxUnits

\* The file, its journal and the new row stay within the ceiling.
Fits(wal) == fileUnits + wal + 1 <= MaxUnits

\* SQLiteOutbox.enqueue.  created_at is read from the wall clock before the
\* lock is taken, so rows need not be inserted in created_at order.  Freed
\* pages are reused, so the file grows only past its largest row count.
Enqueue(c) ==
  /\ holding[c] # NoEvent
  /\ \E wal \in WalSizes : Fits(wal)
  /\ \E stamp \in Stamps :
       created' = [created EXCEPT ![holding[c]] = stamp]
  /\ status' = [status EXCEPT ![holding[c]] = "pending"]
  /\ retryCount' = [retryCount EXCEPT ![holding[c]] = 0]
  /\ timer' = [timer EXCEPT ![holding[c]] = 0]
  /\ fileUnits' = IF Cardinality(Rows) + 1 > fileUnits
                    THEN Cardinality(Rows) + 1 ELSE fileUnits
  /\ holding' = [holding EXCEPT ![c] = NoEvent]
  /\ UNCHANGED <<sequence, seqOf, publisherVars, dead, kafkaVars, faultVars>>

\* OutboxFullError: the collector records the failure and goes on.
EnqueueRejected(c) ==
  /\ holding[c] # NoEvent
  /\ \E wal \in WalSizes : ~Fits(wal)
  /\ Discard(c)
  /\ UNCHANGED faultVars

\* An SQLite error inside the try block of collect_once: recorded, not raised.
EnqueueError(c) ==
  /\ errors < MaxErrors
  /\ holding[c] # NoEvent
  /\ Discard(c)
  /\ errors' = errors + 1
  /\ UNCHANGED <<crashes, clockSteps>>

\* The queue-depth query after the try block raises: the thread ends.
CollectorDies(c) ==
  /\ errors < MaxErrors
  /\ c \notin dead
  /\ holding[c] = NoEvent
  /\ dead' = dead \union {c}
  /\ errors' = errors + 1
  /\ UNCHANGED <<tableVars, collectorVars, publisherVars, kafkaVars, crashes,
                 clockSteps>>

-----------------------------------------------------------------------------
(* Publisher threads: one pass of publish_ready is ready, then one         *)
(* _publish_one per record of the batch, then the pruning of old rows.     *)

\* SQLiteOutbox.ready: the records are copies and may be stale when used.
Ready(p) ==
  /\ p \notin dead
  /\ pc[p] = "idle"
  /\ batch' = [batch EXCEPT ![p] =
                 {[id |-> e, retry_count |-> retryCount[e]] : e \in ReadyRows}]
  /\ pc' = [pc EXCEPT ![p] = "publishing"]
  /\ UNCHANGED <<tableVars, collectorVars, current, dead, kafkaVars, faultVars>>

\* The publisher takes its next record, whose attempt is then in state s.
Take(p, s) ==
  /\ p \notin dead
  /\ pc[p] = "publishing"
  /\ \E r \in batch[p] :
       /\ IsNext(r, batch[p])
       /\ current' = [current EXCEPT ![p] = r]
       /\ batch' = [batch EXCEPT ![p] = @ \ {r}]
       /\ sent' = IF s = "waiting" THEN sent \union {r.id} ELSE sent
  /\ pc' = [pc EXCEPT ![p] = s]
  /\ UNCHANGED <<tableVars, collectorVars, dead, topic, faultVars>>

\* Mutant: the record counts as delivered once produce() has accepted it.
ProduceAndForget(p) == Take(p, "acked")

\* _publish_one: produce() accepts the record, and the thread polls for the
\* delivery callback.
Produce(p) == Take(p, "waiting")

\* _publish_one: produce() raises BufferError or KafkaException.
ProduceRejected(p) == Take(p, "failed")

\* Kafka stores the record and the callback reports success in time.
DeliverySucceeds(p) ==
  /\ p \notin dead
  /\ pc[p] = "waiting"
  /\ topic' = topic \union {current[p].id}
  /\ pc' = [pc EXCEPT ![p] = "acked"]
  /\ UNCHANGED <<tableVars, collectorVars, batch, current, dead, sent,
                 faultVars>>

\* The callback reports an error, or does not come before the deadline.
DeliveryFails(p) ==
  /\ p \notin dead
  /\ pc[p] = "waiting"
  /\ pc' = [pc EXCEPT ![p] = "failed"]
  /\ UNCHANGED <<tableVars, collectorVars, batch, current, dead, kafkaVars,
                 faultVars>>

\* A message whose sender gave up, was killed or still waits is stored.
KafkaStoresLate(e) ==
  /\ e \in sent \ topic
  /\ topic' = topic \union {e}
  /\ UNCHANGED <<tableVars, collectorVars, publisherVars, dead, sent,
                 faultVars>>

\* SQLiteOutbox.mark_delivered: only a row with delivered_at NULL changes.
MarkDelivered(p) ==
  /\ p \notin dead
  /\ pc[p] = "acked"
  /\ LET e == current[p].id IN
       IF status[e] = "pending"
         THEN /\ status' = [status EXCEPT ![e] = "delivered"]
              /\ timer' = [timer EXCEPT ![e] = Retention]
         ELSE UNCHANGED <<status, timer>>
  /\ pc' = [pc EXCEPT ![p] = "publishing"]
  /\ current' = [current EXCEPT ![p] = NoRecord]
  /\ UNCHANGED <<created, retryCount, fileUnits, collectorVars, batch, dead,
                 kafkaVars, faultVars>>

\* SQLiteOutbox.mark_failed: the new count is computed from the record read by
\* ready(), and a row that has been delivered since is left alone.
MarkFailed(p) ==
  /\ p \notin dead
  /\ pc[p] = "failed"
  /\ LET r == current[p] IN
       IF status[r.id] = "pending"
         THEN /\ retryCount' = [retryCount EXCEPT
                   ![r.id] = Smaller(r.retry_count + 1, RetryCap)]
              /\ \E d \in Delays(r.retry_count) :
                   timer' = [timer EXCEPT ![r.id] = d]
         ELSE UNCHANGED <<retryCount, timer>>
  /\ pc' = [pc EXCEPT ![p] = "publishing"]
  /\ current' = [current EXCEPT ![p] = NoRecord]
  /\ UNCHANGED <<status, created, fileUnits, collectorVars, batch, dead,
                 kafkaVars, faultVars>>

\* Mutant: rows are pruned by age alone.
PrunableByAge == {e \in Rows : timer[e] = 0}

\* The rows prune_acknowledged deletes: delivered, and retained long enough.
Prunable == {e \in Events : status[e] = "delivered" /\ timer[e] = 0}

\* SQLiteOutbox.prune_acknowledged, at the end of publish_ready.
Prune(p) ==
  /\ p \notin dead
  /\ pc[p] = "publishing"
  /\ batch[p] = {}
  /\ status' = [e \in Events |->
                  IF e \in Prunable THEN "pruned" ELSE status[e]]
  /\ pc' = [pc EXCEPT ![p] = "idle"]
  /\ UNCHANGED <<created, retryCount, timer, fileUnits, collectorVars, batch,
                 current, dead, kafkaVars, faultVars>>

\* An SQLite error in ready, mark_*, prune or the depth query: publish_ready
\* has no handler, nor has OutboxDeliveryWorker.run, so the thread ends.
PublisherDies(p) ==
  /\ errors < MaxErrors
  /\ p \notin dead
  /\ pc[p] # "waiting"
  /\ dead' = dead \union {p}
  /\ pc' = [pc EXCEPT ![p] = "idle"]
  /\ batch' = [batch EXCEPT ![p] = {}]
  /\ current' = [current EXCEPT ![p] = NoRecord]
  /\ errors' = errors + 1
  /\ UNCHANGED <<tableVars, collectorVars, kafkaVars, crashes, clockSteps>>

-----------------------------------------------------------------------------
(* The environment                                                         *)

Restarted(p) == IF p = Daemon THEN {p} \union Collectors ELSE {p}

\* The process of publisher p is killed and started again.  What its threads
\* had in memory is gone; the SQLite file and what was sent remain.
Crash(p) ==
  /\ crashes < MaxCrashes
  /\ crashes' = crashes + 1
  /\ pc' = [pc EXCEPT ![p] = "idle"]
  /\ batch' = [batch EXCEPT ![p] = {}]
  /\ current' = [current EXCEPT ![p] = NoRecord]
  /\ dead' = dead \ Restarted(p)
  /\ holding' = [c \in Collectors |->
                   IF c \in Restarted(p) THEN NoEvent ELSE holding[c]]
  /\ status' = [e \in Events |->
                  IF status[e] = "held" /\ p = Daemon THEN "lost"
                  ELSE status[e]]
  /\ UNCHANGED <<created, retryCount, timer, fileUnits, sequence, seqOf,
                 kafkaVars, errors, clockSteps>>

\* The wall clock advances by one tick.
Tick ==
  /\ \E e \in Rows : timer[e] > 0
  /\ timer' = [e \in Events |->
                 IF e \in Rows /\ timer[e] > 0 THEN timer[e] - 1 ELSE timer[e]]
  /\ UNCHANGED <<status, created, retryCount, fileUnits, collectorVars,
                 publisherVars, dead, kafkaVars, faultVars>>

\* The wall clock is set back by one tick (time.time() is not monotonic).
ClockStepsBack ==
  /\ clockSteps < MaxClockSteps
  /\ clockSteps' = clockSteps + 1
  /\ timer' = [e \in Events |->
                 IF e \in Rows THEN timer[e] + 1 ELSE timer[e]]
  /\ UNCHANGED <<status, created, retryCount, fileUnits, collectorVars,
                 publisherVars, dead, kafkaVars, crashes, errors>>

-----------------------------------------------------------------------------
CollectorStep(c) ==
  \/ Build(c)
  \/ Enqueue(c)
  \/ EnqueueRejected(c)
  \/ EnqueueError(c)
  \/ CollectorDies(c)

PublisherStep(p) ==
  \/ Ready(p)
  \/ Produce(p)
  \/ ProduceRejected(p)
  \/ DeliverySucceeds(p)
  \/ DeliveryFails(p)
  \/ MarkDelivered(p)
  \/ MarkFailed(p)
  \/ Prune(p)
  \/ PublisherDies(p)

Environment ==
  \/ \E e \in Events : KafkaStoresLate(e)
  \/ \E p \in Publishers : Crash(p)
  \/ Tick
  \/ ClockStepsBack

Next ==
  \/ \E c \in Collectors : CollectorStep(c)
  \/ \E p \in Publishers : PublisherStep(p)
  \/ Environment

Spec == Init /\ [][Next]_vars

(***************************************************************************)
(* Fairness.  The daemon's delivery loop runs on and each of its waits     *)
(* ends (delivery_timeout_seconds), and the clock advances.  Kafka and the *)
(* producer's queue are not always there, but a record that is tried again *)
(* and again is one day accepted and acknowledged.  Nothing is assumed of  *)
(* command-line publishers.                                                *)
(***************************************************************************)
Fairness ==
  /\ WF_vars(Ready(Daemon))
  /\ WF_vars(Produce(Daemon) \/ ProduceRejected(Daemon))
  /\ WF_vars(DeliverySucceeds(Daemon) \/ DeliveryFails(Daemon))
  /\ WF_vars(MarkDelivered(Daemon))
  /\ WF_vars(MarkFailed(Daemon))
  /\ WF_vars(Prune(Daemon))
  /\ WF_vars(Tick)
  /\ \A e \in Events :
       /\ SF_vars(Produce(Daemon) /\ current'[Daemon].id = e)
       /\ SF_vars(DeliverySucceeds(Daemon) /\ current[Daemon].id = e)

FairSpec == Spec /\ Fairness

-----------------------------------------------------------------------------
(* Properties                                                              *)

\* Every variable keeps its type, and a publisher is in a state where it has a
\* current record exactly when it is attempting one.
TypeOK ==
  /\ status \in [Events -> Statuses]
  /\ created \in [Events -> Nat]
  /\ retryCount \in [Events -> Nat]
  /\ timer \in [Events -> Nat]
  /\ sequence \in Int
  /\ sequence >= -1
  /\ fileUnits \in Nat
  /\ seqOf \in [Events -> Int]
  /\ holding \in [Collectors -> Events \union {NoEvent}]
  /\ pc \in [Publishers -> PublisherStates]
  /\ batch \in [Publishers -> SUBSET Records]
  /\ current \in [Publishers -> Records \union {NoRecord}]
  /\ \A p \in Publishers :
       pc[p] \in {"waiting", "acked", "failed"} => current[p] \in Records
  /\ dead \subseteq Collectors \union Publishers
  /\ sent \subseteq Events
  /\ topic \subseteq Events
  /\ crashes \in Nat
  /\ errors \in Nat
  /\ clockSteps \in Nat

\* "Mark one event only after its Kafka delivery callback succeeds": a row that
\* is marked delivered, or was and has been pruned, is stored by Kafka, whatever
\* the interleaving of publishers, crashes, late messages and timeouts.
DeliveredIsInKafka == Delivered \subseteq topic

\* Sequence numbers are allocated by several threads and survive restarts: no
\* two events carry the same one, and none is beyond the persisted counter.
SequenceNumbersUnique ==
  \A e \in Events :
    /\ seqOf[e] <= sequence
    /\ \A f \in Events : e # f /\ seqOf[e] # -1 => seqOf[e] # seqOf[f]

\* "The configured local storage ceiling": the file never outgrows the ceiling
\* and has room for every row, pending or retained.
StorageBounded == Cardinality(Rows) <= fileUnits /\ fileUnits <= MaxUnits

\* The outbox implements the abstract promise: an accepted event is never lost,
\* only accepted events reach Kafka, only stored events are settled.
Delivery == INSTANCE DurableDelivery WITH
  Items <- Events,
  accepted <- Accepted,
  published <- topic,
  settled <- Delivered

ImplementsDurableDelivery == Delivery!Spec

\* "Continuously drain eligible records": every row is one day delivered, also
\* across crashes, refused sends and lost acknowledgements.
EveryRowIsDelivered ==
  \A e \in Events : status[e] = "pending" ~> status[e] \in {"delivered", "pruned"}
=============================================================================
