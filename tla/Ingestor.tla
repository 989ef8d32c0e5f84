------------------------------- MODULE Ingestor -------------------------------
(***************************************************************************)
(* The event ingestor (services/event-ingestor): consumers of one Kafka    *)
(* group read raw records, persist the valid ones in PostgreSQL, publish   *)
(* validated measurements and dead letters, and commit the source offset   *)
(* last.                                                                   *)
(*                                                                         *)
(* Each database transaction, each send, each acknowledgement and each     *)
(* offset commit is a step.  Between two steps another consumer may run, a *)
(* partition may change hands, a process may be killed and restarted, and  *)
(* Kafka may store a record whose sender gave up.  Producers upstream      *)
(* deliver at least once: the same event may occur at several offsets.     *)
(***************************************************************************)
EXTENDS Integers, Sequences, FiniteSets

CONSTANTS
  Partitions,    \* partitions of the raw topics
  Consumers,     \* ingestor processes of the consumer group
  NoConsumer,    \* a partition is not assigned
  NoRecord,      \* a consumer processes no record
  Measurements,  \* events that are network measurements
  Others,        \* valid service checks, speed tests and heartbeats
  Newcomers,     \* measurements of an agent that is registered late
  Malformed,     \* payloads no contract admits
  Poison,        \* events the contract admits and PostgreSQL rejects
  MaxAttempts,   \* IngestionConfig.max_processing_attempts
  MaxLog,        \* bound: records per partition
  MaxCrashes,    \* bound: killed processes
  MaxRebalances  \* bound: reassignments of an assigned partition

Events == Measurements \union Others \union Newcomers \union Malformed \union Poison

ASSUME IngestorAssumption ==
  /\ NoConsumer \notin Consumers
  /\ MaxLog \in Nat
  /\ NoRecord \notin Partitions \X (0..(MaxLog - 1))
  /\ MaxAttempts \in Nat \ {0}
  /\ MaxCrashes \in Nat
  /\ MaxRebalances \in Nat
  /\ (Measurements \union Newcomers) \intersect (Others \union Malformed \union Poison) = {}
  /\ Others \intersect (Malformed \union Poison) = {}
  /\ Malformed \intersect Poison = {}

VARIABLES
  \* Kafka
  log,         \* [Partitions -> sequence of events]: the raw topics
  committed,   \* [Partitions -> offset the group has committed]
  owner,       \* [Partitions -> consumer it is assigned to]
  sent,        \* outputs handed to a producer at least once
  stored,      \* outputs of which Kafka stores a copy
  \* PostgreSQL
  rawEvents,   \* raw_events: the event and its source coordinates
  typed,       \* events with a row in one of the typed tables
  failures,    \* coordinates with a row in processing_failures
  marked,      \* failures with dead_letter_published_at set
  registered,  \* whether the newcomers' agent is in the agents table
  \* the consumers
  position,    \* [Partitions -> next offset its owner reads]
  pc,          \* [Consumers -> control state]
  current,     \* [Consumers -> coordinates of the record in process]
  attempts,    \* [Consumers -> [coordinates -> failed attempts in memory]]
  knows,       \* [Consumers -> registered, as read when the process started]
  \* bounds
  crashes, rebalances

kafkaVars == <<log, sent, stored>>
groupVars == <<committed, owner, position>>
dbVars == <<rawEvents, typed, failures, marked, registered>>
boundVars == <<crashes, rebalances>>
vars == <<log, committed, owner, sent, stored, rawEvents, typed, failures, marked,
          registered, position, pc, current, attempts, knows, crashes, rebalances>>

-----------------------------------------------------------------------------
(* Data                                                                    *)

\* SourceRecord: topic and partition are one name here.
Coordinates == Partitions \X (0..(MaxLog - 1))

\* Coordinates at which the raw topics hold a record, and the event there.
Filled == {k \in Coordinates : k[2] < Len(log[k[1]])}
EventAt(k) == log[k[1]][k[2] + 1]

Outputs == {"valid", "dead_letter"} \X Coordinates
RawRows == [event : Events, source : Coordinates]
ControlStates ==
  {"poll", "process", "publish", "await", "mark", "commit"}

Persisted == {r.event : r \in rawEvents}

\* validate_event and _validate_references, with the allowlists of the process.
ValidatesFor(c, e) ==
  \/ e \in Measurements \union Others \union Poison
  \/ e \in Newcomers /\ knows[c]

\* The output a record leads to: none for a valid event of another type.
OutputTopic(c, k) == IF ValidatesFor(c, EventAt(k)) THEN "valid" ELSE "dead_letter"

NoAttempts == [k \in Coordinates |-> 0]

-----------------------------------------------------------------------------
Init ==
  /\ log = [t \in Partitions |-> <<>>]
  /\ committed = [t \in Partitions |-> 0]
  /\ owner = [t \in Partitions |-> NoConsumer]
  /\ sent = {}
  /\ stored = {}
  /\ rawEvents = {}
  /\ typed = {}
  /\ failures = {}
  /\ marked = {}
  /\ registered = FALSE
  /\ position = [t \in Partitions |-> 0]
  /\ pc = [c \in Consumers |-> "poll"]
  /\ current = [c \in Consumers |-> NoRecord]
  /\ attempts = [c \in Consumers |-> NoAttempts]
  /\ knows = [c \in Consumers |-> FALSE]
  /\ crashes = 0
  /\ rebalances = 0

-----------------------------------------------------------------------------
(* EventProcessor.process                                                  *)

\* Mutant: only the source coordinates conflict.
ConflictsBySource(k) == \E r \in rawEvents : r.source = k

\* ON CONFLICT DO NOTHING: a row with the event's id or the record's source
\* coordinates is already there.
Conflicts(k) == \E r \in rawEvents : r.event = EventAt(k) \/ r.source = k

\* Mutant: an event that was persisted before is not published.
PersistEventPublishedOnce(c) ==
  LET k == current[c] IN
  /\ pc[c] = "process"
  /\ ValidatesFor(c, EventAt(k))
  /\ EventAt(k) \notin Poison
  /\ IF Conflicts(k)
       THEN UNCHANGED <<rawEvents, typed>>
       ELSE /\ rawEvents' = rawEvents \union {[event |-> EventAt(k), source |-> k]}
            /\ typed' = typed \union {EventAt(k)}
  /\ pc' = [pc EXCEPT ![c] = IF EventAt(k) \in Others \/ Conflicts(k)
                              THEN "commit" ELSE "publish"]
  /\ UNCHANGED <<kafkaVars, groupVars, failures, marked, registered, current, attempts,
                 knows, boundVars>>

\* persist_event: the raw row and the typed row in one transaction; a poison
\* event violates a constraint there.  A measurement is published even when it
\* was persisted before.
PersistEvent(c) ==
  LET k == current[c] IN
  /\ pc[c] = "process"
  /\ ValidatesFor(c, EventAt(k))
  /\ EventAt(k) \notin Poison
  /\ IF Conflicts(k)
       THEN UNCHANGED <<rawEvents, typed>>
       ELSE /\ rawEvents' = rawEvents \union {[event |-> EventAt(k), source |-> k]}
            /\ typed' = typed \union {EventAt(k)}
  /\ pc' = [pc EXCEPT ![c] = IF EventAt(k) \in Others THEN "commit" ELSE "publish"]
  /\ UNCHANGED <<kafkaVars, groupVars, failures, marked, registered, current, attempts,
                 knows, boundVars>>

\* record_failure: one row per source coordinates, inserted or updated.
RecordFailure(c) ==
  LET k == current[c] IN
  /\ pc[c] = "process"
  /\ ~ValidatesFor(c, EventAt(k))
  /\ failures' = failures \union {k}
  /\ pc' = [pc EXCEPT ![c] = "publish"]
  /\ UNCHANGED <<kafkaVars, groupVars, rawEvents, typed, marked, registered, current,
                 attempts, knows, boundVars>>

\* SynchronousKafkaPublisher.publish hands the record to the producer.
Send(c) ==
  /\ pc[c] = "publish"
  /\ sent' = sent \union {<<OutputTopic(c, current[c]), current[c]>>}
  /\ pc' = [pc EXCEPT ![c] = "await"]
  /\ UNCHANGED <<log, stored, groupVars, dbVars, current, attempts, knows, boundVars>>

\* Kafka stores it and the delivery callback comes in time.
Acknowledge(c) ==
  LET topic == OutputTopic(c, current[c]) IN
  /\ pc[c] = "await"
  /\ stored' = stored \union {<<topic, current[c]>>}
  /\ pc' = [pc EXCEPT ![c] = IF topic = "valid" THEN "commit" ELSE "mark"]
  /\ UNCHANGED <<log, sent, groupVars, dbVars, current, attempts, knows, boundVars>>

\* mark_dead_letter_published
MarkDeadLetter(c) ==
  /\ pc[c] = "mark"
  /\ marked' = marked \union {current[c]}
  /\ pc' = [pc EXCEPT ![c] = "commit"]
  /\ UNCHANGED <<kafkaVars, groupVars, rawEvents, typed, failures, registered, current,
                 attempts, knows, boundVars>>

-----------------------------------------------------------------------------
(* IngestionConsumer.run                                                   *)

\* Mutant: enable.auto.commit, the offset is committed as the record is read.
PollAutoCommitted(c) ==
  /\ pc[c] = "poll"
  /\ \E t \in Partitions :
       /\ owner[t] = c
       /\ position[t] < Len(log[t])
       /\ current' = [current EXCEPT ![c] = <<t, position[t]>>]
       /\ position' = [position EXCEPT ![t] = @ + 1]
       /\ committed' = [committed EXCEPT ![t] = position[t] + 1]
  /\ pc' = [pc EXCEPT ![c] = "process"]
  /\ UNCHANGED <<kafkaVars, owner, dbVars, attempts, knows, boundVars>>

\* poll returns the next record of an assigned partition.
Poll(c) ==
  /\ pc[c] = "poll"
  /\ \E t \in Partitions :
       /\ owner[t] = c
       /\ position[t] < Len(log[t])
       /\ current' = [current EXCEPT ![c] = <<t, position[t]>>]
       /\ position' = [position EXCEPT ![t] = @ + 1]
  /\ pc' = [pc EXCEPT ![c] = "process"]
  /\ UNCHANGED <<kafkaVars, committed, owner, dbVars, attempts, knows, boundVars>>

\* Mutant: the commit does not carry the generation of the group.
MayCommitAnyway(c) == pc[c] = "commit"

\* The broker accepts a commit only from the consumer the partition is
\* assigned to in the current generation of the group.
MayCommit(c) == pc[c] = "commit" /\ owner[current[c][1]] = c

CommittedBy(c) == [committed EXCEPT ![current[c][1]] = current[c][2] + 1]

\* commit(message, asynchronous=False) and attempts.pop.
Commit(c) ==
  /\ MayCommit(c)
  /\ committed' = CommittedBy(c)
  /\ attempts' = [attempts EXCEPT ![c][current[c]] = 0]
  /\ current' = [current EXCEPT ![c] = NoRecord]
  /\ pc' = [pc EXCEPT ![c] = "poll"]
  /\ UNCHANGED <<kafkaVars, owner, position, dbVars, knows, boundVars>>

\* Mutant: the restarted process goes on at the position the old one had.
RestartAtPosition(c) ==
  /\ pc' = [pc EXCEPT ![c] = "poll"]
  /\ current' = [current EXCEPT ![c] = NoRecord]
  /\ attempts' = [attempts EXCEPT ![c] = NoAttempts]
  /\ knows' = [knows EXCEPT ![c] = registered]
  /\ UNCHANGED owner

\* The process ends and is started again: the allowlists are read afresh, and
\* the group takes its partitions away.
Restart(c) ==
  /\ pc' = [pc EXCEPT ![c] = "poll"]
  /\ current' = [current EXCEPT ![c] = NoRecord]
  /\ attempts' = [attempts EXCEPT ![c] = NoAttempts]
  /\ knows' = [knows EXCEPT ![c] = registered]
  /\ owner' = [t \in Partitions |-> IF owner[t] = c THEN NoConsumer ELSE owner[t]]

\* Mutant: the consumer does not seek back to the failed record.
HandleFailureWithoutSeek(c) ==
  LET k == current[c]
      attempt == attempts[c][k] + 1
  IN  \/ /\ attempt >= MaxAttempts \/ owner[k[1]] # c
         /\ Restart(c)
         /\ UNCHANGED position
      \/ /\ attempt < MaxAttempts
         /\ attempts' = [attempts EXCEPT ![c][k] = attempt]
         /\ UNCHANGED <<position, knows, owner>>
         /\ current' = [current EXCEPT ![c] = NoRecord]
         /\ pc' = [pc EXCEPT ![c] = "poll"]

\* The except block: count the attempt, then raise or seek back to the offset.
\* In a partition that was taken away, seeking raises too or moves nothing,
\* according to whether the client has learnt of it.
HandleFailure(c) ==
  LET k == current[c]
      attempt == attempts[c][k] + 1
  IN  \/ /\ attempt >= MaxAttempts \/ owner[k[1]] # c
         /\ Restart(c)
         /\ UNCHANGED position
      \/ /\ attempt < MaxAttempts
         /\ attempts' = [attempts EXCEPT ![c][k] = attempt]
         /\ position' = IF owner[k[1]] = c
                          THEN [position EXCEPT ![k[1]] = k[2]] ELSE position
         /\ UNCHANGED <<knows, owner>>
         /\ current' = [current EXCEPT ![c] = NoRecord]
         /\ pc' = [pc EXCEPT ![c] = "poll"]

\* A statement, a send or the commit raises, or a delivery times out.
ProcessingFails(c) ==
  /\ pc[c] # "poll"
  /\ HandleFailure(c)
  /\ UNCHANGED <<kafkaVars, committed, dbVars, boundVars>>

\* The broker commits the offset but its answer is lost: commit raises.
CommitUnanswered(c) ==
  /\ MayCommit(c)
  /\ committed' = CommittedBy(c)
  /\ HandleFailure(c)
  /\ UNCHANGED <<kafkaVars, dbVars, boundVars>>

-----------------------------------------------------------------------------
(* The environment                                                         *)

\* Upstream publishes an event, perhaps not for the first time.
Arrive(t, e) ==
  /\ Len(log[t]) < MaxLog
  /\ log' = [log EXCEPT ![t] = Append(@, e)]
  /\ UNCHANGED <<sent, stored, groupVars, dbVars, pc, current, attempts, knows,
                 boundVars>>

\* The group assigns a partition, perhaps away from a consumer that is still
\* processing a record of it.  The new owner learns it in poll (_on_assign) and
\* starts at the committed offset.
Assign(t, c) ==
  /\ pc[c] = "poll"
  /\ \/ owner[t] = NoConsumer /\ UNCHANGED rebalances
     \/ /\ owner[t] # NoConsumer
        /\ rebalances < MaxRebalances
        /\ rebalances' = rebalances + 1
  /\ owner' = [owner EXCEPT ![t] = c]
  /\ position' = [position EXCEPT ![t] = committed[t]]
  /\ UNCHANGED <<kafkaVars, committed, dbVars, pc, current, attempts, knows, crashes>>

\* An output whose sender gave up, was killed or still waits is stored.
StoreLate(x) ==
  /\ x \in sent \ stored
  /\ stored' = stored \union {x}
  /\ UNCHANGED <<log, sent, groupVars, dbVars, pc, current, attempts, knows, boundVars>>

\* An operator registers the newcomers' agent.
Register ==
  /\ ~registered
  /\ registered' = TRUE
  /\ UNCHANGED <<kafkaVars, groupVars, rawEvents, typed, failures, marked, pc, current,
                 attempts, knows, boundVars>>

Crash(c) ==
  /\ crashes < MaxCrashes
  /\ crashes' = crashes + 1
  /\ Restart(c)
  /\ UNCHANGED <<kafkaVars, committed, position, dbVars, rebalances>>

-----------------------------------------------------------------------------
Process(c) ==
  \/ Poll(c)
  \/ PersistEvent(c)
  \/ RecordFailure(c)
  \/ Send(c)
  \/ Acknowledge(c)
  \/ MarkDeadLetter(c)
  \/ Commit(c)

Next ==
  \/ \E c \in Consumers :
       Process(c) \/ ProcessingFails(c) \/ CommitUnanswered(c) \/ Crash(c)
  \/ \E t \in Partitions, e \in Events : Arrive(t, e)
  \/ \E t \in Partitions, c \in Consumers : Assign(t, c)
  \/ \E x \in sent : StoreLate(x)
  \/ Register

Spec == Init /\ [][Next]_vars

(***************************************************************************)
(* Fairness.  A consumer's loop runs on, and every call it makes ends.     *)
(* PostgreSQL and Kafka may fail any number of times, but not for ever,    *)
(* and the group assigns a partition that nobody owns.                     *)
(***************************************************************************)
Fairness ==
  /\ \A c \in Consumers :
       /\ WF_vars(ProcessingFails(c) \/ (pc[c] # "poll" /\ Process(c)))
       /\ \A t \in Partitions : SF_vars(Poll(c) /\ current'[c][1] = t)
       /\ SF_vars(PersistEvent(c))
       /\ SF_vars(RecordFailure(c))
       /\ SF_vars(Send(c))
       /\ SF_vars(Acknowledge(c))
       /\ SF_vars(MarkDeadLetter(c))
       /\ SF_vars(Commit(c))
  /\ \A t \in Partitions :
       SF_vars(owner[t] = NoConsumer /\ \E c \in Consumers : Assign(t, c))

FairSpec == Spec /\ Fairness

-----------------------------------------------------------------------------
(* Properties                                                              *)

\* Every variable keeps its type, and a consumer off its poll has a record.
TypeOK ==
  /\ log \in [Partitions -> Seq(Events)]
  /\ \A t \in Partitions : Len(log[t]) <= MaxLog
  /\ committed \in [Partitions -> 0..MaxLog]
  /\ owner \in [Partitions -> Consumers \union {NoConsumer}]
  /\ sent \subseteq Outputs
  /\ stored \subseteq Outputs
  /\ rawEvents \subseteq RawRows
  /\ typed \subseteq Events
  /\ failures \subseteq Coordinates
  /\ marked \subseteq Coordinates
  /\ registered \in BOOLEAN
  /\ position \in [Partitions -> 0..MaxLog]
  /\ pc \in [Consumers -> ControlStates]
  /\ current \in [Consumers -> Coordinates \union {NoRecord}]
  /\ \A c \in Consumers : pc[c] # "poll" => current[c] \in Filled
  /\ attempts \in [Consumers -> [Coordinates -> 0..(MaxAttempts - 1)]]
  /\ knows \in [Consumers -> BOOLEAN]
  /\ crashes \in Nat
  /\ rebalances \in Nat

Committed == {k \in Coordinates : k[2] < committed[k[1]]}

\* A valid record's effects: its event is in both tables, and Kafka has the
\* output of this record if it is a measurement.
Ingested(k) ==
  /\ EventAt(k) \in Persisted \intersect typed
  /\ EventAt(k) \notin Others => <<"valid", k>> \in stored

\* An invalid record's effects: evidence, dead letter and acknowledgement.
DeadLettered(k) ==
  k \in failures /\ k \in marked /\ <<"dead_letter", k>> \in stored

\* "Commits the input offset only after both operations succeed": below the
\* committed offset every record has had all its effects, whatever failed, was
\* retried, killed or reassigned on the way; a newcomer's either way.
CommittedIsDone ==
  \A k \in Committed :
    /\ k \in Filled
    /\ EventAt(k) \notin Poison
    /\ EventAt(k) \in Measurements \union Others => Ingested(k)
    /\ EventAt(k) \in Malformed => DeadLettered(k)
    /\ EventAt(k) \in Newcomers => Ingested(k) \/ DeadLettered(k)

\* "The consumer seeks to the same offset and retries": nothing past the first
\* uncommitted record of a partition has left a trace in a table or a topic.
InOrder ==
  \A k \in {r.source : r \in rawEvents} \union failures \union {x[2] : x \in sent} :
    k[2] <= committed[k[1]]

\* Duplicate deliveries, replays and concurrent consumers leave one raw row per
\* event and per record, with the typed row it was committed with.
OneRowEach ==
  /\ \A r, s \in rawEvents : r.event = s.event \/ r.source = s.source => r = s
  /\ \A r \in rawEvents : r.source \in Filled /\ EventAt(r.source) = r.event
  /\ typed = Persisted

\* The group's offset never moves back, also when a consumer that lost its
\* partition finishes the record it was processing.
OffsetsNeverRegress ==
  [][\A t \in Partitions : committed'[t] >= committed[t]]_vars

\* What the validated topic holds of an event is settled by the commit of its
\* record: the tables, the validated topic and the offset are an outbox too.
Validated == Measurements \union Newcomers
Delivery == INSTANCE DurableDelivery WITH
  Items <- Validated,
  accepted <- Persisted \intersect Validated,
  published <- {EventAt(x[2]) : x \in {y \in stored : y[1] = "valid"}},
  settled <- {EventAt(k) : k \in {j \in Committed : EventAt(j) \in Measurements}}

ImplementsDurableDelivery == Delivery!Spec

\* Every record is one day committed: no failure, rebalance or restart strands
\* a partition (a poison record does, which the run leaves out).
EveryRecordIsCommitted ==
  \A k \in Coordinates : k \in Filled ~> k \in Committed
=============================================================================
