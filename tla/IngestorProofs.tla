---------------------------- MODULE IngestorProofs ----------------------------
(***************************************************************************)
(* Machine-checked proofs about Ingestor, for every number of partitions,  *)
(* consumers, records, failures, rebalances and crashes.                   *)
(***************************************************************************)
EXTENDS Ingestor, TLAPS

-----------------------------------------------------------------------------
(* Type correctness                                                        *)

\* The coordinates of a record in the topics, and the event there.
LEMMA FilledRecord ==
  ASSUME TypeOK, NEW k \in Filled
  PROVE  /\ k \in Coordinates /\ k[1] \in Partitions /\ k[2] \in Nat
         /\ k[2] + 1 <= MaxLog
         /\ EventAt(k) \in Events
<1>1. k \in Coordinates /\ k[1] \in Partitions /\ k[2] \in 0..(MaxLog - 1)
  BY DEF Filled, Coordinates
<1>2. log[k[1]] \in Seq(Events) /\ k[2] + 1 \in 1..Len(log[k[1]])
  BY <1>1 DEF TypeOK, Filled
<1>3. QED
  BY <1>1, <1>2, IngestorAssumption DEF EventAt

\* Records stay where they are.
LEMMA LogGrows ==
  ASSUME TypeOK, [Next]_vars
  PROVE  \A k \in Filled : k \in Filled' /\ EventAt(k)' = EventAt(k)
<1>1. ASSUME NEW t \in Partitions, NEW e \in Events, Arrive(t, e), NEW k \in Filled
      PROVE  k \in Filled' /\ EventAt(k)' = EventAt(k)
  <2>1. k \in Coordinates /\ k[1] \in Partitions /\ k[2] \in Nat /\ k[2] < Len(log[k[1]])
    BY <1>1, FilledRecord DEF Filled
  <2>2. log[t] \in Seq(Events) /\ log[k[1]] \in Seq(Events)
    BY <1>1, <2>1 DEF TypeOK
  <2>3. log' = [log EXCEPT ![t] = Append(@, e)]
    BY <1>1 DEF Arrive
  <2>4. CASE k[1] = t
    <3>1. log'[k[1]] = Append(log[k[1]], e)
      BY <2>1, <2>3, <2>4 DEF TypeOK
    <3>2. QED
      BY <2>1, <2>2, <3>1 DEF Filled, EventAt
  <2>5. CASE k[1] # t
    <3>1. log'[k[1]] = log[k[1]]
      BY <2>1, <2>3, <2>5 DEF TypeOK
    <3>2. QED
      BY <2>1, <3>1 DEF Filled, EventAt
  <2>6. QED
    BY <2>4, <2>5
<1>2. CASE UNCHANGED log
  BY <1>2 DEF Filled, EventAt
<1>3. UNCHANGED log \/ \E t \in Partitions, e \in Events : Arrive(t, e)
  BY DEF Next, vars, Process, Poll, PersistEvent, RecordFailure, Send, Acknowledge,
    MarkDeadLetter, Commit, ProcessingFails, CommitUnanswered, Crash, Assign, StoreLate,
    Register, kafkaVars
<1>4. QED
  BY <1>1, <1>2, <1>3

\* What a consumer has of its own.
ConsumersOK ==
  /\ owner \in [Partitions -> Consumers \union {NoConsumer}]
  /\ position \in [Partitions -> 0..MaxLog]
  /\ pc \in [Consumers -> ControlStates]
  /\ current \in [Consumers -> Coordinates \union {NoRecord}]
  /\ \A c \in Consumers : pc[c] # "poll" => current[c] \in Filled
  /\ attempts \in [Consumers -> [Coordinates -> 0..(MaxAttempts - 1)]]
  /\ knows \in [Consumers -> BOOLEAN]

\* A restarted consumer is typed.
LEMMA RestartTyped ==
  ASSUME TypeOK, NEW c \in Consumers, Restart(c), UNCHANGED <<log, position>>
  PROVE  ConsumersOK'
<1>1. NoAttempts \in [Coordinates -> 0..(MaxAttempts - 1)]
  BY IngestorAssumption DEF NoAttempts
<1>2. \A d \in Consumers : pc'[d] # "poll" => current'[d] \in Filled'
  BY DEF TypeOK, Restart, Filled
<1>3. QED
  BY <1>1, <1>2 DEF TypeOK, ConsumersOK, Restart, ControlStates

\* So is one that has handled a failure.
LEMMA FailureTyped ==
  ASSUME TypeOK, NEW c \in Consumers, pc[c] # "poll", HandleFailure(c), UNCHANGED log
  PROVE  ConsumersOK'
<1> DEFINE k == current[c]
           attempt == attempts[c][k] + 1
<1>1. k \in Filled /\ k \in Coordinates /\ k[1] \in Partitions /\ k[2] \in 0..MaxLog
  <2>1. k \in Filled
    BY DEF TypeOK
  <2>2. QED
    BY <2>1, FilledRecord, IngestorAssumption
<1>2. CASE Restart(c) /\ UNCHANGED position
  BY <1>2, RestartTyped
<1>3. CASE /\ attempt < MaxAttempts
           /\ attempts' = [attempts EXCEPT ![c][k] = attempt]
           /\ position' = IF owner[k[1]] = c
                            THEN [position EXCEPT ![k[1]] = k[2]] ELSE position
           /\ UNCHANGED <<knows, owner>>
           /\ current' = [current EXCEPT ![c] = NoRecord]
           /\ pc' = [pc EXCEPT ![c] = "poll"]
  <2>1. attempts[c] \in [Coordinates -> 0..(MaxAttempts - 1)] /\ attempt \in 0..(MaxAttempts - 1)
    BY <1>1, <1>3, IngestorAssumption DEF TypeOK
  <2>2. attempts' \in [Consumers -> [Coordinates -> 0..(MaxAttempts - 1)]]
    BY <1>1, <1>3, <2>1 DEF TypeOK
  <2>3. position' \in [Partitions -> 0..MaxLog]
    BY <1>1, <1>3 DEF TypeOK
  <2>4. \A d \in Consumers : pc'[d] # "poll" => current'[d] \in Filled'
    BY <1>3 DEF TypeOK, Filled
  <2>5. pc' \in [Consumers -> ControlStates]
    BY <1>3 DEF TypeOK, ControlStates
  <2>6. QED
    BY <1>3, <2>2, <2>3, <2>4, <2>5 DEF TypeOK, ConsumersOK
<1>4. QED
  BY <1>2, <1>3 DEF HandleFailure

\* So is one that goes on with the record it has.
LEMMA GoesOnTyped ==
  ASSUME TypeOK, NEW c \in Consumers, pc[c] # "poll",
         NEW next \in ControlStates, pc' = [pc EXCEPT ![c] = next],
         UNCHANGED <<log, owner, position, current, attempts, knows>>
  PROVE  ConsumersOK'
<1>1. \A d \in Consumers : pc'[d] # "poll" => current'[d] \in Filled'
  BY DEF TypeOK, Filled
<1>2. QED
  BY <1>1 DEF TypeOK, ConsumersOK

LEMMA TypeStep == TypeOK /\ [Next]_vars => TypeOK'
<1> SUFFICES ASSUME TypeOK, [Next]_vars
             PROVE  TypeOK'
  OBVIOUS
<1> USE IngestorAssumption
<1>1. ASSUME NEW c \in Consumers, Poll(c)
      PROVE  TypeOK'
  <2>1. PICK t \in Partitions :
          /\ position[t] < Len(log[t])
          /\ current' = [current EXCEPT ![c] = <<t, position[t]>>]
          /\ position' = [position EXCEPT ![t] = @ + 1]
    BY <1>1 DEF Poll
  <2>2. position[t] \in 0..(MaxLog - 1) /\ <<t, position[t]>> \in Filled
    BY <2>1 DEF TypeOK, Filled, Coordinates
  <2>3. <<t, position[t]>> \in Coordinates
    BY <2>2 DEF Filled
  <2>4. Filled' = Filled
    BY <1>1 DEF Poll, kafkaVars, Filled
  <2>5. \A d \in Consumers : pc'[d] # "poll" => current'[d] \in Filled'
    BY <1>1, <2>1, <2>2, <2>4 DEF TypeOK, Poll
  <2>6. position' \in [Partitions -> 0..MaxLog]
    BY <2>1, <2>2 DEF TypeOK
  <2>7. current' \in [Consumers -> Coordinates \union {NoRecord}]
    BY <2>1, <2>3 DEF TypeOK
  <2>8. QED
    BY <1>1, <2>5, <2>6, <2>7 DEF TypeOK, Poll, kafkaVars, dbVars, boundVars, ControlStates
<1>2. ASSUME NEW c \in Consumers, PersistEvent(c)
      PROVE  TypeOK'
  <2>1. current[c] \in Coordinates /\ EventAt(current[c]) \in Events
    BY <1>2, FilledRecord DEF TypeOK, PersistEvent
  <2>2. ConsumersOK'
    BY <1>2, GoesOnTyped DEF PersistEvent, ControlStates, kafkaVars, groupVars
  <2>3. rawEvents' \subseteq RawRows /\ typed' \subseteq Events
    BY <1>2, <2>1 DEF TypeOK, PersistEvent, RawRows
  <2>4. QED
    BY <1>2, <2>2, <2>3 DEF TypeOK, ConsumersOK, PersistEvent, kafkaVars, groupVars, boundVars
<1>3. ASSUME NEW c \in Consumers, RecordFailure(c)
      PROVE  TypeOK'
  <2>1. current[c] \in Coordinates
    BY <1>3, FilledRecord DEF TypeOK, RecordFailure
  <2>2. ConsumersOK'
    BY <1>3, GoesOnTyped DEF RecordFailure, ControlStates, kafkaVars, groupVars
  <2>3. QED
    BY <1>3, <2>1, <2>2 DEF TypeOK, ConsumersOK, RecordFailure, kafkaVars, groupVars, boundVars
<1>4. ASSUME NEW c \in Consumers, Send(c)
      PROVE  TypeOK'
  <2>1. <<OutputTopic(c, current[c]), current[c]>> \in Outputs
    BY <1>4, FilledRecord DEF TypeOK, Send, Outputs, OutputTopic
  <2>2. ConsumersOK'
    BY <1>4, GoesOnTyped DEF Send, ControlStates, groupVars
  <2>3. QED
    BY <1>4, <2>1, <2>2 DEF TypeOK, ConsumersOK, Send, groupVars, dbVars, boundVars
<1>5. ASSUME NEW c \in Consumers, Acknowledge(c)
      PROVE  TypeOK'
  <2>1. <<OutputTopic(c, current[c]), current[c]>> \in Outputs
    BY <1>5, FilledRecord DEF TypeOK, Acknowledge, Outputs, OutputTopic
  <2>2. ConsumersOK'
    BY <1>5, GoesOnTyped DEF Acknowledge, ControlStates, groupVars
  <2>3. QED
    BY <1>5, <2>1, <2>2 DEF TypeOK, ConsumersOK, Acknowledge, groupVars, dbVars, boundVars
<1>6. ASSUME NEW c \in Consumers, MarkDeadLetter(c)
      PROVE  TypeOK'
  <2>1. current[c] \in Coordinates
    BY <1>6, FilledRecord DEF TypeOK, MarkDeadLetter
  <2>2. ConsumersOK'
    BY <1>6, GoesOnTyped DEF MarkDeadLetter, ControlStates, kafkaVars, groupVars
  <2>3. QED
    BY <1>6, <2>1, <2>2 DEF TypeOK, ConsumersOK, MarkDeadLetter, kafkaVars, groupVars, boundVars
<1>7. ASSUME NEW c \in Consumers, MayCommit(c), committed' = CommittedBy(c)
      PROVE  committed' \in [Partitions -> 0..MaxLog]
  BY <1>7, FilledRecord DEF TypeOK, MayCommit, CommittedBy
<1>8. ASSUME NEW c \in Consumers, Commit(c)
      PROVE  TypeOK'
  <2>1. attempts' \in [Consumers -> [Coordinates -> 0..(MaxAttempts - 1)]]
    BY <1>8, FilledRecord DEF TypeOK, Commit, MayCommit
  <2>2. \A d \in Consumers : pc'[d] # "poll" => current'[d] \in Filled'
    BY <1>8 DEF TypeOK, Commit, Filled, kafkaVars
  <2>3. QED
    BY <1>7, <1>8, <2>1, <2>2 DEF TypeOK, Commit, kafkaVars, dbVars, boundVars, ControlStates
<1>9. ASSUME NEW c \in Consumers, ProcessingFails(c)
      PROVE  TypeOK'
  <2>1. ConsumersOK'
    BY <1>9, FailureTyped DEF ProcessingFails, kafkaVars
  <2>2. QED
    BY <1>9, <2>1 DEF TypeOK, ConsumersOK, ProcessingFails, kafkaVars, dbVars, boundVars
<1>10. ASSUME NEW c \in Consumers, CommitUnanswered(c)
       PROVE  TypeOK'
  <2>1. ConsumersOK'
    BY <1>10, FailureTyped DEF CommitUnanswered, MayCommit, kafkaVars
  <2>2. QED
    BY <1>7, <1>10, <2>1 DEF TypeOK, ConsumersOK, CommitUnanswered, kafkaVars, dbVars, boundVars
<1>11. ASSUME NEW c \in Consumers, Crash(c)
       PROVE  TypeOK'
  <2>1. ConsumersOK'
    BY <1>11, RestartTyped DEF Crash, kafkaVars
  <2>2. QED
    BY <1>11, <2>1 DEF TypeOK, ConsumersOK, Crash, kafkaVars, dbVars
<1>12. ASSUME NEW t \in Partitions, NEW e \in Events, Arrive(t, e)
       PROVE  TypeOK'
  <2>1. log[t] \in Seq(Events) /\ Append(log[t], e) \in Seq(Events)
        /\ Len(Append(log[t], e)) = Len(log[t]) + 1 /\ Len(log[t]) \in Nat
    BY DEF TypeOK
  <2>2. log' \in [Partitions -> Seq(Events)] /\ \A u \in Partitions : Len(log'[u]) <= MaxLog
    BY <1>12, <2>1 DEF TypeOK, Arrive
  <2>3. \A d \in Consumers : pc'[d] # "poll" => current'[d] \in Filled'
    BY <1>12, LogGrows DEF TypeOK, Arrive
  <2>4. QED
    BY <1>12, <2>2, <2>3 DEF TypeOK, Arrive, groupVars, dbVars, boundVars
<1>13. ASSUME NEW t \in Partitions, NEW c \in Consumers, Assign(t, c)
       PROVE  TypeOK'
  <2>1. \A d \in Consumers : pc'[d] # "poll" => current'[d] \in Filled'
    BY <1>13 DEF TypeOK, Assign, Filled, kafkaVars
  <2>2. rebalances' \in Nat
    BY <1>13 DEF TypeOK, Assign
  <2>3. QED
    BY <1>13, <2>1, <2>2 DEF TypeOK, Assign, kafkaVars, dbVars
<1>14. ASSUME NEW x \in sent, StoreLate(x)
       PROVE  TypeOK'
  BY <1>14 DEF TypeOK, StoreLate, groupVars, dbVars, boundVars, Filled
<1>15. CASE Register
  BY <1>15 DEF TypeOK, Register, kafkaVars, groupVars, boundVars, Filled
<1>16. CASE UNCHANGED vars
  BY <1>16 DEF TypeOK, vars, Filled
<1>17. QED
  BY <1>1, <1>2, <1>3, <1>4, <1>5, <1>6, <1>8, <1>9, <1>10, <1>11, <1>12, <1>13, <1>14,
    <1>15, <1>16 DEF Next, Process

\* Every variable keeps its type, and a consumer that has left its poll processes
\* a record that is in the topic.
THEOREM TypeCorrect == Spec => []TypeOK
<1>1. Init => TypeOK
  <2> SUFFICES ASSUME Init
               PROVE  TypeOK
    OBVIOUS
  <2>1. log \in [Partitions -> Seq(Events)] /\ \A t \in Partitions : Len(log[t]) <= MaxLog
    BY IngestorAssumption DEF Init
  <2>2. attempts \in [Consumers -> [Coordinates -> 0..(MaxAttempts - 1)]]
    BY IngestorAssumption DEF Init, NoAttempts
  <2>3. pc \in [Consumers -> ControlStates] /\ \A c \in Consumers : pc[c] = "poll"
    BY DEF Init, ControlStates
  <2>4. committed \in [Partitions -> 0..MaxLog] /\ position \in [Partitions -> 0..MaxLog]
    BY IngestorAssumption DEF Init
  <2>5. /\ owner \in [Partitions -> Consumers \union {NoConsumer}]
        /\ current \in [Consumers -> Coordinates \union {NoRecord}]
        /\ knows \in [Consumers -> BOOLEAN]
    BY DEF Init
  <2>6. QED
    BY <2>1, <2>2, <2>3, <2>4, <2>5 DEF Init, TypeOK
<1>2. QED
  BY <1>1, TypeStep, PTL DEF Spec

-----------------------------------------------------------------------------
(* Positions and offsets                                                   *)

\* A consumer never has a record beyond the committed offset of its partition,
\* and while it owns the partition it has the one before the position.
Processing(c) ==
  pc[c] # "poll" =>
    LET k == current[c] IN
    /\ k[2] <= committed[k[1]]
    /\ owner[k[1]] = c => position[k[1]] = k[2] + 1 /\ committed[k[1]] <= k[2] + 1

\* The owner of a partition reads on at the committed offset, or one before it,
\* after a commit whose answer was lost.
Waiting(t) ==
  \A c \in Consumers :
    owner[t] = c /\ (pc[c] = "poll" \/ current[c][1] # t) =>
      position[t] <= committed[t] /\ committed[t] <= position[t] + 1

PositionsOK ==
  /\ \A c \in Consumers : Processing(c)
  /\ \A t \in Partitions : Waiting(t)

\* What a commit needs and does.
LEMMA CommitMoves ==
  ASSUME TypeOK, PositionsOK, NEW c \in Consumers, MayCommit(c), committed' = CommittedBy(c)
  PROVE  /\ current[c] \in Filled
         /\ owner[current[c][1]] = c
         /\ current[c][2] <= committed[current[c][1]]
         /\ committed[current[c][1]] <= current[c][2] + 1
         /\ committed'[current[c][1]] = current[c][2] + 1
         /\ \A t \in Partitions : t # current[c][1] => committed'[t] = committed[t]
         /\ \A t \in Partitions : committed'[t] >= committed[t]
<1>1. current[c] \in Filled /\ pc[c] = "commit" /\ owner[current[c][1]] = c
  BY DEF TypeOK, MayCommit
<1>2. current[c][1] \in Partitions /\ current[c][2] \in Nat
  BY <1>1, FilledRecord
<1>3. Processing(c)
  BY DEF PositionsOK
<1>4. \A t \in Partitions : committed[t] \in Nat
  BY IngestorAssumption DEF TypeOK
<1>5. committed' = [committed EXCEPT ![current[c][1]] = current[c][2] + 1]
  BY DEF CommittedBy
<1>6. committed'[current[c][1]] = current[c][2] + 1
  BY <1>2, <1>5 DEF TypeOK
<1>7. \A t \in Partitions : t # current[c][1] => committed'[t] = committed[t]
  BY <1>2, <1>5 DEF TypeOK
<1>8. /\ current[c][2] <= committed[current[c][1]]
      /\ committed[current[c][1]] <= current[c][2] + 1
  BY <1>1, <1>3 DEF Processing
<1>9. \A t \in Partitions : committed'[t] >= committed[t]
  BY <1>2, <1>4, <1>6, <1>7, <1>8
<1>10. QED
  BY <1>1, <1>6, <1>7, <1>8, <1>9

\* Nothing else moves an offset.
LEMMA CommitsOnly ==
  ASSUME [Next]_vars
  PROVE  \/ committed' = committed
         \/ \E c \in Consumers : MayCommit(c) /\ committed' = CommittedBy(c)
BY DEF Next, vars, Process, Poll, PersistEvent, RecordFailure, Send, Acknowledge,
  MarkDeadLetter, Commit, ProcessingFails, CommitUnanswered, Crash, Arrive, Assign,
  StoreLate, Register, kafkaVars, groupVars, dbVars

\* A restarted consumer owns nothing and has no record.
LEMMA RestartPositions ==
  ASSUME TypeOK, TypeOK', PositionsOK, NEW c \in Consumers, Restart(c),
         \A t \in Partitions : committed'[t] >= committed[t],
         \A t \in Partitions : owner[t] # c => committed'[t] = committed[t],
         UNCHANGED position
  PROVE  PositionsOK'
<1> USE IngestorAssumption
<1>1. \A t \in Partitions :
        committed[t] \in Nat /\ committed'[t] \in Nat /\ position[t] \in Nat
  BY DEF TypeOK
<1>2. \A t \in Partitions : owner'[t] = IF owner[t] = c THEN NoConsumer ELSE owner[t]
  BY DEF Restart
<1>3. /\ pc'[c] = "poll"
      /\ \A d \in Consumers : d # c => pc'[d] = pc[d] /\ current'[d] = current[d]
  BY DEF TypeOK, Restart
<1>4. ASSUME NEW d \in Consumers
      PROVE  Processing(d)'
  <2>1. CASE d = c
    BY <1>3, <2>1 DEF Processing
  <2>2. CASE d # c /\ pc[d] # "poll"
    <3>1. current[d] \in Filled /\ current[d][1] \in Partitions /\ current[d][2] \in Nat
      BY <2>2, FilledRecord DEF TypeOK
    <3>2. Processing(d)
      BY DEF PositionsOK
    <3>3. current[d][2] <= committed'[current[d][1]]
      BY <1>1, <2>2, <3>1, <3>2 DEF Processing
    <3>4. owner'[current[d][1]] = d => owner[current[d][1]] = d
      BY <1>2, <2>2, <3>1
    <3>5. QED
      BY <1>3, <2>2, <3>1, <3>2, <3>3, <3>4 DEF Processing
  <2>3. CASE d # c /\ pc[d] = "poll"
    BY <1>3, <2>3 DEF Processing
  <2>4. QED
    BY <2>1, <2>2, <2>3
<1>5. ASSUME NEW t \in Partitions
      PROVE  Waiting(t)'
  BY <1>1, <1>2, <1>3 DEF PositionsOK, Waiting
<1>6. QED
  BY <1>4, <1>5 DEF PositionsOK

\* A consumer that has handled a failure stands at the record it failed on, or
\* owns nothing.
LEMMA FailurePositions ==
  ASSUME TypeOK, TypeOK', PositionsOK, NEW c \in Consumers, pc[c] # "poll", HandleFailure(c),
         \A t \in Partitions : committed'[t] >= committed[t],
         \A t \in Partitions :
           owner[t] # c \/ t # current[c][1] => committed'[t] = committed[t],
         owner[current[c][1]] = c => /\ current[c][2] <= committed'[current[c][1]]
                                     /\ committed'[current[c][1]] <= current[c][2] + 1
  PROVE  PositionsOK'
<1> USE IngestorAssumption
<1> DEFINE k == current[c]
<1>1. k \in Filled /\ k[1] \in Partitions /\ k[2] \in Nat
  <2>1. k \in Filled
    BY DEF TypeOK
  <2>2. QED
    BY <2>1, FilledRecord
<1>2. CASE Restart(c) /\ UNCHANGED position
  BY <1>2, RestartPositions
<1>3. CASE /\ position' = IF owner[k[1]] = c
                            THEN [position EXCEPT ![k[1]] = k[2]] ELSE position
           /\ UNCHANGED owner
           /\ current' = [current EXCEPT ![c] = NoRecord]
           /\ pc' = [pc EXCEPT ![c] = "poll"]
  <2>1. \A t \in Partitions :
          committed[t] \in Nat /\ committed'[t] \in Nat /\ position[t] \in Nat
    BY DEF TypeOK
  <2>2. /\ pc'[c] = "poll"
        /\ \A d \in Consumers : d # c => pc'[d] = pc[d] /\ current'[d] = current[d]
    BY <1>3 DEF TypeOK
  <2>3. \A t \in Partitions :
          position'[t] = IF owner[t] = c /\ t = k[1] THEN k[2] ELSE position[t]
    BY <1>1, <1>3 DEF TypeOK
  <2>4. ASSUME NEW d \in Consumers, pc'[d] # "poll"
        PROVE  Processing(d)'
    <3>1. d # c /\ pc[d] # "poll" /\ current'[d] = current[d]
      BY <2>2, <2>4
    <3>2. current[d] \in Filled /\ current[d][1] \in Partitions /\ current[d][2] \in Nat
      BY <3>1, FilledRecord DEF TypeOK
    <3>3. Processing(d)
      BY DEF PositionsOK
    <3>4. current[d][2] <= committed'[current[d][1]]
      BY <2>1, <3>1, <3>2, <3>3 DEF Processing
    <3>5. QED
      BY <1>3, <2>3, <3>1, <3>2, <3>3, <3>4 DEF Processing
  <2>5. ASSUME NEW t \in Partitions, NEW d \in Consumers,
               owner'[t] = d, pc'[d] = "poll" \/ current'[d][1] # t
        PROVE  position'[t] <= committed'[t] /\ committed'[t] <= position'[t] + 1
    <3>1. CASE d = c /\ t = k[1]
      BY <1>1, <1>3, <2>1, <2>3, <2>5, <3>1
    <3>2. CASE d # c \/ t # k[1]
      <4>1. position'[t] = position[t] /\ committed'[t] = committed[t] /\ owner[t] = d
        BY <1>3, <2>3, <2>5, <3>2
      <4>2. pc[d] = "poll" \/ current[d][1] # t
        BY <2>2, <2>5, <3>2
      <4>3. QED
        BY <4>1, <4>2 DEF PositionsOK, Waiting
    <3>3. QED
      BY <3>1, <3>2
  <2>6. QED
    BY <2>4, <2>5 DEF PositionsOK, Processing, Waiting
<1>4. QED
  BY <1>2, <1>3 DEF HandleFailure

\* A step that leaves the group alone and polls nothing.
LEMMA PositionsFrame ==
  ASSUME PositionsOK, UNCHANGED <<committed, owner, position, current>>,
         \A c \in Consumers : (pc'[c] = "poll") = (pc[c] = "poll")
  PROVE  PositionsOK'
BY DEF PositionsOK, Processing, Waiting

LEMMA PositionsStep == TypeOK /\ TypeOK' /\ PositionsOK /\ [Next]_vars => PositionsOK'
<1> SUFFICES ASSUME TypeOK, TypeOK', PositionsOK, [Next]_vars
             PROVE  PositionsOK'
  OBVIOUS
<1> USE IngestorAssumption
<1>0. \A t \in Partitions : committed[t] \in Nat /\ position[t] \in Nat
  BY DEF TypeOK
<1>1. ASSUME NEW c \in Consumers, Poll(c)
      PROVE  PositionsOK'
  <2>1. PICK t \in Partitions :
          /\ owner[t] = c
          /\ current' = [current EXCEPT ![c] = <<t, position[t]>>]
          /\ position' = [position EXCEPT ![t] = @ + 1]
    BY <1>1 DEF Poll
  <2>2. /\ pc'[c] = "process" /\ current'[c] = <<t, position[t]>>
        /\ \A d \in Consumers : d # c => pc'[d] = pc[d] /\ current'[d] = current[d]
    BY <1>1, <2>1 DEF TypeOK, Poll
  <2>3. \A u \in Partitions : position'[u] = IF u = t THEN position[t] + 1 ELSE position[u]
    BY <2>1 DEF TypeOK
  <2>4. pc[c] = "poll" /\ owner' = owner /\ committed' = committed
    BY <1>1 DEF Poll
  <2>5. ASSUME NEW d \in Consumers, pc'[d] # "poll"
        PROVE  Processing(d)'
    <3>1. CASE d = c
      BY <1>0, <2>1, <2>2, <2>3, <2>4, <3>1 DEF PositionsOK, Waiting, Processing
    <3>2. CASE d # c
      <4>1. pc[d] # "poll" /\ current'[d] = current[d] /\ Processing(d)
        BY <2>2, <2>5, <3>2 DEF PositionsOK
      <4>2. current[d][1] \in Partitions
        BY <4>1, FilledRecord DEF TypeOK
      <4>3. QED
        BY <2>1, <2>3, <2>4, <3>2, <4>1, <4>2 DEF Processing
    <3>3. QED
      BY <3>1, <3>2
  <2>6. ASSUME NEW u \in Partitions
        PROVE  Waiting(u)'
    <3>1. CASE u = t
      BY <2>1, <2>2, <2>4, <3>1 DEF Waiting
    <3>2. CASE u # t
      BY <2>2, <2>3, <2>4, <3>2 DEF PositionsOK, Waiting
    <3>3. QED
      BY <3>1, <3>2
  <2>7. QED
    BY <2>5, <2>6 DEF PositionsOK, Processing
<1>2. ASSUME NEW c \in Consumers,
             PersistEvent(c) \/ RecordFailure(c) \/ Send(c) \/ Acknowledge(c) \/ MarkDeadLetter(c)
      PROVE  PositionsOK'
  <2>1. UNCHANGED <<committed, owner, position, current>>
    BY <1>2 DEF PersistEvent, RecordFailure, Send, Acknowledge, MarkDeadLetter, groupVars
  <2>2. pc[c] # "poll" /\ \E next \in ControlStates \ {"poll"} : pc' = [pc EXCEPT ![c] = next]
    BY <1>2 DEF PersistEvent, RecordFailure, Send, Acknowledge, MarkDeadLetter, ControlStates
  <2>3. \A d \in Consumers : (pc'[d] = "poll") = (pc[d] = "poll")
    BY <2>2 DEF TypeOK
  <2>4. QED
    BY <2>1, <2>3, PositionsFrame
<1>3. ASSUME NEW c \in Consumers, Commit(c)
      PROVE  PositionsOK'
  <2>1. MayCommit(c) /\ committed' = CommittedBy(c) /\ owner' = owner /\ position' = position
    BY <1>3 DEF Commit
  <2>2. /\ pc[c] # "poll" /\ pc'[c] = "poll"
        /\ \A d \in Consumers : d # c => pc'[d] = pc[d] /\ current'[d] = current[d]
    BY <1>3 DEF TypeOK, Commit, MayCommit
  <2>3. position[current[c][1]] = current[c][2] + 1
    BY <2>1, <2>2, CommitMoves DEF PositionsOK, Processing
  <2>4. ASSUME NEW d \in Consumers, pc'[d] # "poll"
        PROVE  Processing(d)'
    <3>1. d # c /\ pc[d] # "poll" /\ current'[d] = current[d] /\ Processing(d)
      BY <2>2, <2>4 DEF PositionsOK
    <3>2. current[d][1] \in Partitions /\ current[d][2] \in Nat
      BY <3>1, FilledRecord DEF TypeOK
    <3>3. committed[current[d][1]] <= committed'[current[d][1]]
          /\ committed'[current[d][1]] \in Nat
      BY <2>1, <3>2, CommitMoves DEF TypeOK
    <3>4. owner[current[d][1]] = d => committed'[current[d][1]] = committed[current[d][1]]
      BY <2>1, <3>1, <3>2, CommitMoves
    <3>5. current[d][2] <= committed'[current[d][1]]
      BY <1>0, <3>1, <3>2, <3>3 DEF Processing
    <3>6. QED
      BY <2>1, <3>1, <3>4, <3>5 DEF Processing
  <2>5. ASSUME NEW t \in Partitions
        PROVE  Waiting(t)'
    <3>1. CASE t = current[c][1]
      BY <2>1, <2>3, <3>1, <1>0, CommitMoves DEF Waiting
    <3>2. CASE t # current[c][1]
      BY <2>1, <2>2, <3>2, CommitMoves DEF PositionsOK, Waiting
    <3>3. QED
      BY <3>1, <3>2
  <2>6. QED
    BY <2>4, <2>5 DEF PositionsOK, Processing
<1>4. ASSUME NEW c \in Consumers, ProcessingFails(c)
      PROVE  PositionsOK'
  <2>1. pc[c] # "poll" /\ HandleFailure(c) /\ committed' = committed
    BY <1>4 DEF ProcessingFails
  <2>2. /\ current[c] \in Filled
        /\ Processing(c)
    BY <2>1 DEF TypeOK, PositionsOK
  <2>3. QED
    BY <1>0, <2>1, <2>2, FilledRecord, FailurePositions DEF Processing
<1>5. ASSUME NEW c \in Consumers, CommitUnanswered(c)
      PROVE  PositionsOK'
  <2>1. MayCommit(c) /\ committed' = CommittedBy(c) /\ HandleFailure(c) /\ pc[c] # "poll"
    BY <1>5 DEF CommitUnanswered, MayCommit
  <2>2. current[c][2] \in Nat /\ current[c][1] \in Partitions
    BY <2>1, CommitMoves, FilledRecord
  <2>3. QED
    BY <2>1, <2>2, CommitMoves, FailurePositions
<1>6. ASSUME NEW c \in Consumers, Crash(c)
      PROVE  PositionsOK'
  BY <1>0, <1>6, RestartPositions DEF Crash
<1>7. ASSUME NEW t \in Partitions, NEW c \in Consumers, Assign(t, c)
      PROVE  PositionsOK'
  <2>1. /\ pc[c] = "poll" /\ pc' = pc /\ current' = current /\ committed' = committed
        /\ owner' = [owner EXCEPT ![t] = c]
        /\ position' = [position EXCEPT ![t] = committed[t]]
    BY <1>7 DEF Assign
  <2>2. \A u \in Partitions : u # t => owner'[u] = owner[u] /\ position'[u] = position[u]
    BY <2>1 DEF TypeOK
  <2>3. owner'[t] = c /\ position'[t] = committed[t]
    BY <2>1 DEF TypeOK
  <2>4. ASSUME NEW d \in Consumers, pc[d] # "poll"
        PROVE  Processing(d)'
    <3>1. current[d][1] \in Partitions /\ Processing(d) /\ d # c
      BY <2>1, <2>4, FilledRecord DEF TypeOK, PositionsOK
    <3>2. QED
      BY <2>1, <2>2, <2>3, <3>1 DEF Processing
  <2>5. ASSUME NEW u \in Partitions
        PROVE  Waiting(u)'
    BY <1>0, <2>1, <2>2, <2>3 DEF PositionsOK, Waiting
  <2>6. QED
    BY <2>1, <2>4, <2>5 DEF PositionsOK, Processing
<1>8. ASSUME NEW t \in Partitions, NEW e \in Events, Arrive(t, e)
      PROVE  PositionsOK'
  BY <1>8, PositionsFrame DEF Arrive, groupVars
<1>9. ASSUME NEW x \in sent, StoreLate(x)
      PROVE  PositionsOK'
  BY <1>9, PositionsFrame DEF StoreLate, groupVars
<1>10. CASE Register
  BY <1>10, PositionsFrame DEF Register, groupVars
<1>11. CASE UNCHANGED vars
  BY <1>11, PositionsFrame DEF vars
<1>12. QED
  BY <1>1, <1>2, <1>3, <1>4, <1>5, <1>6, <1>7, <1>8, <1>9, <1>10, <1>11 DEF Next, Process

LEMMA PositionsInvariant == Spec => []PositionsOK
<1>1. Init => PositionsOK
  BY IngestorAssumption DEF Init, PositionsOK, Processing, Waiting
<1>2. QED
  BY <1>1, PositionsStep, TypeCorrect, PTL DEF Spec

\* The group's offsets never move back, whoever commits: a consumer commits the
\* record before its position, and only where it is the owner.
THEOREM OffsetsSafe == Spec => OffsetsNeverRegress
<1>1. TypeOK /\ PositionsOK /\ [Next]_vars =>
        [\A t \in Partitions : committed'[t] >= committed[t]]_vars
  <2> SUFFICES ASSUME TypeOK, PositionsOK, [Next]_vars
               PROVE  \A t \in Partitions : committed'[t] >= committed[t]
    OBVIOUS
  <2>1. \A t \in Partitions : committed[t] \in Nat
    BY IngestorAssumption DEF TypeOK
  <2>2. QED
    BY <2>1, CommitsOnly, CommitMoves
<1>2. QED
  BY <1>1, TypeCorrect, PositionsInvariant, PTL DEF Spec, OffsetsNeverRegress

-----------------------------------------------------------------------------
(* The tables and the topics                                               *)

\* Nothing that was written, sent or stored is ever taken back.
LEMMA Kept ==
  ASSUME [Next]_vars
  PROVE  /\ rawEvents \subseteq rawEvents' /\ typed \subseteq typed'
         /\ failures \subseteq failures' /\ marked \subseteq marked'
         /\ sent \subseteq sent' /\ stored \subseteq stored'
         /\ Persisted \subseteq Persisted'
<1>1. /\ rawEvents \subseteq rawEvents' /\ typed \subseteq typed'
      /\ failures \subseteq failures' /\ marked \subseteq marked'
      /\ sent \subseteq sent' /\ stored \subseteq stored'
  BY DEF Next, vars, Process, Poll, PersistEvent, RecordFailure, Send, Acknowledge,
    MarkDeadLetter, Commit, ProcessingFails, CommitUnanswered, Crash, Arrive, Assign,
    StoreLate, Register, kafkaVars, groupVars, dbVars
<1>2. QED
  BY <1>1 DEF Persisted

\* Only the transaction of a record that conflicts with no row adds a raw row.
LEMMA RowsOnly ==
  ASSUME TypeOK, [Next]_vars
  PROVE  \/ UNCHANGED <<rawEvents, typed>>
         \/ \E k \in Filled :
              /\ ~Conflicts(k)
              /\ rawEvents' = rawEvents \union {[event |-> EventAt(k), source |-> k]}
              /\ typed' = typed \union {EventAt(k)}
<1>1. (\E c \in Consumers : PersistEvent(c)) \/ UNCHANGED <<rawEvents, typed>>
  BY DEF Next, vars, Process, Poll, RecordFailure, Send, Acknowledge, MarkDeadLetter,
    Commit, ProcessingFails, CommitUnanswered, Crash, Arrive, Assign, StoreLate, Register,
    kafkaVars, groupVars, dbVars
<1>2. ASSUME NEW c \in Consumers, PersistEvent(c)
      PROVE  current[c] \in Filled
  BY <1>2 DEF TypeOK, PersistEvent
<1>3. QED
  BY <1>1, <1>2 DEF PersistEvent

\* Duplicates, replays and concurrent consumers leave one raw row per event and per
\* record, with its typed row.
THEOREM RowsSafe == Spec => []OneRowEach
<1>1. Init => OneRowEach
  BY DEF Init, OneRowEach, Persisted
<1>2. TypeOK /\ OneRowEach /\ [Next]_vars => OneRowEach'
  <2> SUFFICES ASSUME TypeOK, OneRowEach, [Next]_vars
               PROVE  OneRowEach'
    OBVIOUS
  <2>1. \A r \in rawEvents : r.source \in Filled' /\ EventAt(r.source)' = r.event
    BY LogGrows DEF OneRowEach
  <2>2. CASE UNCHANGED <<rawEvents, typed>>
    BY <2>1, <2>2 DEF OneRowEach, Persisted
  <2>3. ASSUME NEW k \in Filled, ~Conflicts(k),
               rawEvents' = rawEvents \union {[event |-> EventAt(k), source |-> k]},
               typed' = typed \union {EventAt(k)}
        PROVE  OneRowEach'
    <3> DEFINE row == [event |-> EventAt(k), source |-> k]
    <3>1. row.event = EventAt(k) /\ row.source = k
      OBVIOUS
    <3>2. k \in Filled' /\ EventAt(k)' = EventAt(k)
      BY LogGrows
    <3>3. \A r \in rawEvents : r.event # row.event /\ r.source # row.source
      BY <2>3, <3>1 DEF Conflicts
    <3>4. \A r, s \in rawEvents' : r.event = s.event \/ r.source = s.source => r = s
      BY <2>3, <3>3 DEF OneRowEach
    <3>5. \A r \in rawEvents' : r.source \in Filled' /\ EventAt(r.source)' = r.event
      BY <2>1, <2>3, <3>2
    <3>6. typed' = Persisted'
      BY <2>3, <3>1 DEF OneRowEach, Persisted
    <3>7. QED
      BY <3>4, <3>5, <3>6 DEF OneRowEach
  <2>4. QED
    BY <2>2, <2>3, RowsOnly
<1>3. QED
  BY <1>1, <1>2, TypeCorrect, PTL DEF Spec

-----------------------------------------------------------------------------
(* What a consumer has done of its record                                  *)

\* PostgreSQL has its event, or the evidence of its failure.
Recorded(c) ==
  IF ValidatesFor(c, EventAt(current[c]))
    THEN /\ EventAt(current[c]) \notin Poison
         /\ EventAt(current[c]) \in Persisted
         /\ EventAt(current[c]) \in typed
    ELSE current[c] \in failures

\* Kafka has its output, unless it has none.
Output(c) == <<OutputTopic(c, current[c]), current[c]>>
Published(c) == EventAt(current[c]) \in Others \/ Output(c) \in stored

\* What holds of a consumer's record in each control state.
Progress(c) ==
  /\ pc[c] \in {"publish", "await", "mark", "commit"} => Recorded(c)
  /\ pc[c] \in {"publish", "await"} => EventAt(current[c]) \notin Others
  /\ pc[c] = "await" => Output(c) \in sent
  /\ pc[c] \in {"mark", "commit"} => Published(c)
  /\ pc[c] = "mark" => ~ValidatesFor(c, EventAt(current[c]))
  /\ pc[c] = "commit" => \/ ValidatesFor(c, EventAt(current[c]))
                         \/ current[c] \in marked

ProgressOK == \A c \in Consumers : Progress(c)

\* A consumer that does not move keeps what it has.
LEMMA ProgressFrame ==
  ASSUME TypeOK, [Next]_vars, NEW c \in Consumers, Progress(c),
         pc'[c] = pc[c], current'[c] = current[c], knows'[c] = knows[c]
  PROVE  Progress(c)'
<1>1. CASE pc[c] = "poll"
  BY <1>1 DEF Progress
<1>2. ASSUME NEW k \in Filled, current[c] = k, pc[c] # "poll"
      PROVE  Progress(c)'
  <2>1. current'[c] = k /\ EventAt(k)' = EventAt(k)
    BY <1>2, LogGrows
  <2>2. ValidatesFor(c, EventAt(k))' = ValidatesFor(c, EventAt(k))
    BY <2>1 DEF ValidatesFor
  <2>3. Output(c)' = Output(c)
    BY <1>2, <2>1, <2>2 DEF Output, OutputTopic
  <2>4. Recorded(c) => Recorded(c)'
    BY <1>2, <2>1, <2>2, Kept DEF Recorded
  <2>5. Published(c) => Published(c)'
    BY <1>2, <2>1, <2>3, Kept DEF Published
  <2>6. QED
    BY <1>2, <2>1, <2>2, <2>3, <2>4, <2>5, Kept DEF Progress
<1>3. pc[c] # "poll" => current[c] \in Filled
  BY DEF TypeOK
<1>4. QED
  BY <1>1, <1>2, <1>3

\* Only a consumer's own step changes its control state, record or allowlists.
LEMMA OthersKeep ==
  ASSUME TypeOK, NEW c \in Consumers, NEW d \in Consumers, d # c,
         Process(c) \/ ProcessingFails(c) \/ CommitUnanswered(c) \/ Crash(c)
  PROVE  pc'[d] = pc[d] /\ current'[d] = current[d] /\ knows'[d] = knows[d]
BY DEF TypeOK, Process, Poll, PersistEvent, RecordFailure, Send, Acknowledge, MarkDeadLetter,
  Commit, ProcessingFails, CommitUnanswered, Crash, HandleFailure, Restart

\* A consumer's own step establishes what its next state needs.
LEMMA OwnProgress ==
  ASSUME TypeOK, OneRowEach, NEW c \in Consumers, Progress(c), Process(c), [Next]_vars
  PROVE  Progress(c)'
<1>1. CASE Poll(c) \/ Commit(c)
  <2>1. pc'[c] \in {"process", "poll"}
    BY <1>1 DEF TypeOK, Poll, Commit
  <2>2. QED
    BY <2>1 DEF Progress
<1>2. ASSUME NEW k \in Filled, current[c] = k, pc[c] # "poll", ~Poll(c), ~Commit(c)
      PROVE  Progress(c)'
  <2>1. current' = current /\ knows' = knows /\ log' = log
    BY <1>2 DEF Process, PersistEvent, RecordFailure, Send, Acknowledge, MarkDeadLetter, kafkaVars
  <2>2. current'[c] = k /\ EventAt(k)' = EventAt(k)
    BY <1>2, <2>1 DEF EventAt
  <2>3. ValidatesFor(c, EventAt(k))' = ValidatesFor(c, EventAt(k))
    BY <2>1, <2>2 DEF ValidatesFor
  <2>4. Output(c)' = Output(c)
    BY <1>2, <2>2, <2>3 DEF Output, OutputTopic
  <2>5. Recorded(c) => Recorded(c)'
    BY <1>2, <2>2, <2>3, Kept DEF Recorded
  <2>6. Published(c) => Published(c)'
    BY <1>2, <2>2, <2>4, Kept DEF Published
  <2>7. CASE PersistEvent(c)
    <3>1. EventAt(k) \in Persisted' /\ EventAt(k) \in typed'
      <4>1. CASE Conflicts(k)
        <5>1. EventAt(k) \in Persisted
          BY <4>1 DEF Conflicts, OneRowEach, Persisted
        <5>2. QED
          BY <5>1, Kept DEF OneRowEach
      <4>2. CASE ~Conflicts(k)
        BY <1>2, <2>7, <4>2 DEF PersistEvent, Persisted
      <4>3. QED
        BY <4>1, <4>2
    <3>2. /\ ValidatesFor(c, EventAt(k)) /\ EventAt(k) \notin Poison
          /\ pc'[c] = IF EventAt(k) \in Others THEN "commit" ELSE "publish"
      BY <1>2, <2>7 DEF TypeOK, PersistEvent
    <3>3. Recorded(c)'
      BY <2>2, <2>3, <3>1, <3>2 DEF Recorded
    <3>4. QED
      BY <2>2, <2>3, <3>2, <3>3 DEF Progress, Published
  <2>8. CASE RecordFailure(c)
    <3>1. k \in failures' /\ ~ValidatesFor(c, EventAt(k)) /\ pc'[c] = "publish"
      BY <1>2, <2>8 DEF TypeOK, RecordFailure
    <3>2. EventAt(k) \notin Others
      BY <3>1 DEF ValidatesFor
    <3>3. QED
      BY <2>2, <2>3, <3>1, <3>2 DEF Progress, Recorded
  <2>9. CASE Send(c)
    <3>1. pc[c] = "publish" /\ pc'[c] = "await" /\ Output(c) \in sent'
      BY <2>9 DEF TypeOK, Send, Output
    <3>2. QED
      BY <1>2, <2>2, <2>4, <2>5, <3>1 DEF Progress
  <2>10. CASE Acknowledge(c)
    <3>1. /\ pc[c] = "await" /\ Output(c) \in stored'
          /\ pc'[c] = IF OutputTopic(c, k) = "valid" THEN "commit" ELSE "mark"
      BY <1>2, <2>10 DEF TypeOK, Acknowledge, Output
    <3>2. Published(c)'
      BY <2>4, <3>1 DEF Published
    <3>3. Recorded(c)'
      BY <2>5, <3>1 DEF Progress
    <3>4. CASE ValidatesFor(c, EventAt(k))
      <4>1. pc'[c] = "commit"
        BY <3>1, <3>4 DEF OutputTopic
      <4>2. ValidatesFor(c, EventAt(current[c]))'
        BY <2>2, <2>3, <3>4
      <4>3. QED
        BY <3>2, <3>3, <4>1, <4>2 DEF Progress
    <3>5. CASE ~ValidatesFor(c, EventAt(k))
      <4>1. pc'[c] = "mark"
        BY <3>1, <3>5 DEF OutputTopic
      <4>2. ~ValidatesFor(c, EventAt(current[c]))'
        BY <2>2, <2>3, <3>5
      <4>3. QED
        BY <3>2, <3>3, <4>1, <4>2 DEF Progress
    <3>6. QED
      BY <3>4, <3>5
  <2>11. CASE MarkDeadLetter(c)
    <3>1. pc[c] = "mark" /\ pc'[c] = "commit" /\ k \in marked'
      BY <1>2, <2>11 DEF TypeOK, MarkDeadLetter
    <3>2. QED
      BY <1>2, <2>2, <2>3, <2>5, <2>6, <3>1 DEF Progress
  <2>12. QED
    BY <1>2, <2>7, <2>8, <2>9, <2>10, <2>11 DEF Process
<1>3. pc[c] # "poll" => current[c] \in Filled
  BY DEF TypeOK
<1>4. Process(c) /\ pc[c] = "poll" => Poll(c)
  BY DEF Process, PersistEvent, RecordFailure, Send, Acknowledge, MarkDeadLetter, Commit,
    MayCommit
<1>5. QED
  BY <1>1, <1>2, <1>3, <1>4

LEMMA ProgressStep == TypeOK /\ OneRowEach /\ ProgressOK /\ [Next]_vars => ProgressOK'
<1> SUFFICES ASSUME TypeOK, OneRowEach, ProgressOK, [Next]_vars, NEW d \in Consumers
             PROVE  Progress(d)'
  BY DEF ProgressOK
<1>1. Progress(d)
  BY DEF ProgressOK
<1>2. ASSUME NEW c \in Consumers,
             Process(c) \/ ProcessingFails(c) \/ CommitUnanswered(c) \/ Crash(c)
      PROVE  Progress(d)'
  <2>1. CASE d # c
    BY <1>1, <1>2, <2>1, OthersKeep, ProgressFrame
  <2>2. CASE d = c /\ Process(c)
    BY <1>1, <2>2, OwnProgress
  <2>3. CASE d = c /\ ~Process(c)
    <3>1. pc'[c] = "poll"
      BY <1>2, <2>3 DEF TypeOK, ProcessingFails, CommitUnanswered, Crash, HandleFailure, Restart
    <3>2. QED
      BY <2>3, <3>1 DEF Progress
  <2>4. QED
    BY <2>1, <2>2, <2>3
<1>3. CASE UNCHANGED <<pc, current, knows>>
  BY <1>1, <1>3, ProgressFrame
<1>4. \/ \E c \in Consumers :
           Process(c) \/ ProcessingFails(c) \/ CommitUnanswered(c) \/ Crash(c)
      \/ UNCHANGED <<pc, current, knows>>
  BY DEF Next, vars, Arrive, Assign, StoreLate, Register
<1>5. QED
  BY <1>2, <1>3, <1>4

LEMMA ProgressInvariant == Spec => []ProgressOK
<1>1. Init => ProgressOK
  BY DEF Init, ProgressOK, Progress
<1>2. QED
  BY <1>1, ProgressStep, TypeCorrect, RowsSafe, PTL DEF Spec

-----------------------------------------------------------------------------
(* Commits follow effects                                                  *)

\* What CommittedIsDone says of one record.
Done(k) ==
  /\ k \in Filled
  /\ EventAt(k) \notin Poison
  /\ EventAt(k) \in Measurements \union Others => Ingested(k)
  /\ EventAt(k) \in Malformed => DeadLettered(k)
  /\ EventAt(k) \in Newcomers => Ingested(k) \/ DeadLettered(k)

\* What is done stays done.
LEMMA DoneStays ==
  ASSUME TypeOK, [Next]_vars, NEW k \in Coordinates, Done(k)
  PROVE  Done(k)'
<1>1. k \in Filled' /\ EventAt(k)' = EventAt(k)
  BY LogGrows DEF Done
<1>2. (Ingested(k) => Ingested(k)') /\ (DeadLettered(k) => DeadLettered(k)')
  BY <1>1, Kept DEF Ingested, DeadLettered
<1>3. QED
  BY <1>1, <1>2 DEF Done

\* A record whose consumer has come to its commit is done.
LEMMA CommittableIsDone ==
  ASSUME TypeOK, NEW c \in Consumers, Progress(c), pc[c] = "commit"
  PROVE  Done(current[c])
<1> DEFINE k == current[c]
<1>1. k \in Filled /\ EventAt(k) \in Events
  BY FilledRecord DEF TypeOK
<1>2. Recorded(c) /\ Published(c) /\ (ValidatesFor(c, EventAt(k)) \/ k \in marked)
  BY DEF Progress
<1>3. CASE ValidatesFor(c, EventAt(k))
  <2>1. /\ EventAt(k) \notin Poison /\ EventAt(k) \in Persisted /\ EventAt(k) \in typed
        /\ EventAt(k) \in Others \/ <<"valid", k>> \in stored
    BY <1>2, <1>3 DEF Recorded, Published, Output, OutputTopic
  <2>2. Ingested(k)
    BY <2>1 DEF Ingested
  <2>3. EventAt(k) \notin Malformed
    BY <1>3, <2>1, IngestorAssumption DEF ValidatesFor
  <2>4. QED
    BY <1>1, <2>1, <2>2, <2>3 DEF Done
<1>4. CASE ~ValidatesFor(c, EventAt(k))
  <2>1. EventAt(k) \notin Measurements \union Others \union Poison
    BY <1>4 DEF ValidatesFor
  <2>2. k \in failures /\ k \in marked /\ <<"dead_letter", k>> \in stored
    BY <1>2, <1>4, <2>1 DEF Recorded, Published, Output, OutputTopic
  <2>3. QED
    BY <1>1, <2>1, <2>2 DEF Done, DeadLettered
<1>5. QED
  BY <1>3, <1>4

\* Below the committed offset every record has had all its effects, whatever failed,
\* was retried, killed, reassigned or stored late on the way.
THEOREM CommitsSafe == Spec => []CommittedIsDone
<1>1. Init => CommittedIsDone
  <2>1. Init => Committed = {}
    BY IngestorAssumption DEF Init, Committed, Coordinates
  <2>2. QED
    BY <2>1 DEF CommittedIsDone
<1>2. TypeOK /\ PositionsOK /\ ProgressOK /\ CommittedIsDone /\ [Next]_vars => CommittedIsDone'
  <2> SUFFICES ASSUME TypeOK, PositionsOK, ProgressOK, CommittedIsDone, [Next]_vars,
                      NEW k \in Coordinates, k[2] < committed'[k[1]]
               PROVE  Done(k)'
    BY DEF CommittedIsDone, Committed, Done
  <2>1. CASE k[2] < committed[k[1]]
    <3>1. Done(k)
      BY <2>1 DEF CommittedIsDone, Committed, Done
    <3>2. QED
      BY <3>1, DoneStays
  <2>2. CASE ~(k[2] < committed[k[1]])
    <3>1. PICK c \in Consumers : MayCommit(c) /\ committed' = CommittedBy(c)
      BY <2>2, CommitsOnly
    <3>2. k = current[c]
      <4>1. k \in Partitions \X Nat /\ committed[k[1]] \in Nat
        BY IngestorAssumption DEF Coordinates, TypeOK
      <4>2. current[c] \in Partitions \X Nat
        BY <3>1, CommitMoves, IngestorAssumption DEF Filled, Coordinates
      <4>3. k[1] = current[c][1]
        BY <2>2, <3>1, <4>1, CommitMoves
      <4>4. k[2] = current[c][2]
        BY <2>2, <3>1, <4>1, <4>2, <4>3, CommitMoves
      <4>5. QED
        BY <4>1, <4>2, <4>3, <4>4
    <3>3. Done(k)
      BY <3>1, <3>2, CommittableIsDone DEF ProgressOK, MayCommit
    <3>4. QED
      BY <3>3, DoneStays
  <2>3. QED
    BY <2>1, <2>2
<1>3. QED
  BY <1>1, <1>2, TypeCorrect, PositionsInvariant, ProgressInvariant, PTL DEF Spec

-----------------------------------------------------------------------------
(* Nothing is done ahead of the offset                                     *)

\* The records that have left a trace in a table or a topic.
Traces == {r.source : r \in rawEvents} \union failures \union {x[2] : x \in sent}

\* Only a record in process leaves one.
LEMMA TracesOnly ==
  ASSUME [Next]_vars
  PROVE  \/ Traces' = Traces
         \/ \E c \in Consumers : pc[c] # "poll" /\ Traces' \subseteq Traces \union {current[c]}
<1>1. ASSUME NEW c \in Consumers, PersistEvent(c) \/ RecordFailure(c) \/ Send(c)
      PROVE  pc[c] # "poll" /\ Traces' \subseteq Traces \union {current[c]}
  <2>1. CASE PersistEvent(c)
    <3>1. \A r \in rawEvents' : r \in rawEvents \/ r.source = current[c]
      BY <2>1 DEF PersistEvent
    <3>2. QED
      BY <2>1, <3>1 DEF PersistEvent, Traces, kafkaVars
  <2>2. CASE RecordFailure(c)
    BY <2>2 DEF RecordFailure, Traces, kafkaVars
  <2>3. CASE Send(c)
    <3>1. \A x \in sent' : x \in sent \/ x[2] = current[c]
      BY <2>3 DEF Send
    <3>2. QED
      BY <2>3, <3>1 DEF Send, Traces, dbVars
  <2>4. QED
    BY <1>1, <2>1, <2>2, <2>3
<1>2. CASE UNCHANGED <<rawEvents, failures, sent>>
  BY <1>2 DEF Traces
<1>3. \/ \E c \in Consumers : PersistEvent(c) \/ RecordFailure(c) \/ Send(c)
      \/ UNCHANGED <<rawEvents, failures, sent>>
  BY DEF Next, vars, Process, Poll, Acknowledge, MarkDeadLetter, Commit, ProcessingFails,
    CommitUnanswered, Crash, Arrive, Assign, StoreLate, Register, kafkaVars, dbVars
<1>4. QED
  BY <1>1, <1>2, <1>3

\* Nothing past the first uncommitted record of a partition has left a trace in a
\* table or a topic, so a retry or a new owner starts where the work stopped.
THEOREM OrderSafe == Spec => []InOrder
<1>1. Init => InOrder
  BY DEF Init, InOrder
<1>2. TypeOK /\ TypeOK' /\ PositionsOK /\ InOrder /\ [Next]_vars => InOrder'
  <2> SUFFICES ASSUME TypeOK, TypeOK', PositionsOK, InOrder, [Next]_vars, NEW k \in Traces'
               PROVE  k[2] <= committed'[k[1]]
    BY DEF InOrder, Traces
  <2>1. k[1] \in Partitions /\ k[2] \in Nat
    <3>1. k \in Coordinates
      BY DEF Traces, TypeOK, RawRows, Outputs
    <3>2. QED
      BY <3>1, IngestorAssumption DEF Coordinates
  <2>2. committed[k[1]] \in Nat /\ committed'[k[1]] \in Nat
        /\ committed'[k[1]] >= committed[k[1]]
    <3>1. committed[k[1]] \in Nat /\ committed'[k[1]] \in Nat
      BY <2>1, IngestorAssumption DEF TypeOK
    <3>2. QED
      BY <2>1, <3>1, CommitsOnly, CommitMoves
  <2>3. k[2] <= committed[k[1]]
    <3>1. CASE k \in Traces
      BY <3>1 DEF InOrder, Traces
    <3>2. CASE \E c \in Consumers : pc[c] # "poll" /\ k = current[c]
      BY <3>2 DEF PositionsOK, Processing
    <3>3. QED
      BY <3>1, <3>2, TracesOnly
  <2>4. QED
    BY <2>1, <2>2, <2>3
<1>3. QED
  BY <1>1, <1>2, TypeCorrect, PositionsInvariant, PTL DEF Spec

-----------------------------------------------------------------------------
(* The refinement                                                          *)

\* Kafka only stores what was sent, and what is sent to the validated topic is a
\* measurement in the tables.
OutputsOK ==
  /\ stored \subseteq sent
  /\ \A x \in sent :
       /\ x[2] \in Filled
       /\ x[1] = "valid" => EventAt(x[2]) \in Persisted \intersect Validated

\* A consumer about to send a measurement has stored it.
LEMMA SendIsPersisted ==
  ASSUME TypeOK, NEW c \in Consumers, Progress(c), Send(c)
  PROVE  /\ sent' = sent \union {Output(c)}
         /\ Output(c)[2] \in Filled
         /\ Output(c)[1] = "valid" => EventAt(Output(c)[2]) \in Persisted \intersect Validated
<1>1. current[c] \in Filled
  BY DEF TypeOK, Send
<1>2. /\ Recorded(c) /\ EventAt(current[c]) \notin Others
      /\ sent' = sent \union {Output(c)}
  BY DEF Progress, Send, Output
<1>3. Output(c)[2] = current[c] /\ Output(c)[1] = OutputTopic(c, current[c])
  BY DEF Output
<1>4. CASE ValidatesFor(c, EventAt(current[c]))
  BY <1>1, <1>2, <1>3, <1>4 DEF Recorded, ValidatesFor, Validated
<1>5. CASE ~ValidatesFor(c, EventAt(current[c]))
  BY <1>1, <1>2, <1>3, <1>5 DEF OutputTopic
<1>6. QED
  BY <1>4, <1>5

LEMMA OutputsInvariant == Spec => []OutputsOK
<1>1. Init => OutputsOK
  BY DEF Init, OutputsOK
<1>2. TypeOK /\ ProgressOK /\ OutputsOK /\ [Next]_vars => OutputsOK'
  <2> SUFFICES ASSUME TypeOK, ProgressOK, OutputsOK, [Next]_vars
               PROVE  OutputsOK'
    OBVIOUS
  <2>1. \A x \in sent :
          /\ x[2] \in Filled'
          /\ x[1] = "valid" => EventAt(x[2])' \in Persisted' \intersect Validated
    BY LogGrows, Kept DEF OutputsOK
  <2>2. ASSUME NEW c \in Consumers, Send(c)
        PROVE  OutputsOK'
    <3>1. PICK x : /\ sent' = sent \union {x}
                   /\ x[2] \in Filled
                   /\ x[1] = "valid" => EventAt(x[2]) \in Persisted \intersect Validated
      BY <2>2, SendIsPersisted DEF ProgressOK
    <3>2. /\ x[2] \in Filled'
          /\ x[1] = "valid" => EventAt(x[2])' \in Persisted' \intersect Validated
      BY <3>1, LogGrows, Kept
    <3>3. stored' = stored
      BY <2>2 DEF Send
    <3>4. QED
      BY <2>1, <3>1, <3>2, <3>3 DEF OutputsOK
  <2>3. ASSUME NEW c \in Consumers, Acknowledge(c)
        PROVE  OutputsOK'
    <3>1. sent' = sent /\ stored' = stored \union {Output(c)} /\ Output(c) \in sent
      BY <2>3 DEF Acknowledge, Output, ProgressOK, Progress
    <3>2. QED
      BY <2>1, <3>1 DEF OutputsOK
  <2>4. ASSUME NEW x \in sent, StoreLate(x)
        PROVE  OutputsOK'
    BY <2>1, <2>4 DEF OutputsOK, StoreLate
  <2>5. CASE UNCHANGED <<sent, stored>>
    BY <2>1, <2>5 DEF OutputsOK
  <2>6. \/ \E c \in Consumers : Send(c) \/ Acknowledge(c)
        \/ \E x \in sent : StoreLate(x)
        \/ UNCHANGED <<sent, stored>>
    BY DEF Next, vars, Process, Poll, PersistEvent, RecordFailure, MarkDeadLetter, Commit,
      ProcessingFails, CommitUnanswered, Crash, Arrive, Assign, Register, kafkaVars
  <2>7. QED
    BY <2>2, <2>3, <2>4, <2>5, <2>6
<1>3. QED
  BY <1>1, <1>2, TypeCorrect, ProgressInvariant, PTL DEF Spec

\* What the three variables of DurableDelivery are mapped to.
Accepted == Persisted \intersect Validated
InTopic == {EventAt(x[2]) : x \in {y \in stored : y[1] = "valid"}}
Settled == {EventAt(k) : k \in {j \in Committed : EventAt(j) \in Measurements}}

\* They do not depend on records that arrive.
LEMMA MappingFrame ==
  ASSUME TypeOK, OutputsOK, CommittedIsDone, [Next]_vars
  PROVE  /\ UNCHANGED rawEvents => UNCHANGED Accepted
         /\ UNCHANGED stored => UNCHANGED InTopic
         /\ UNCHANGED committed => UNCHANGED Settled
<1>1. \A x \in stored : EventAt(x[2])' = EventAt(x[2])
  BY LogGrows DEF OutputsOK
<1>2. \A k \in Committed : EventAt(k)' = EventAt(k)
  BY LogGrows DEF CommittedIsDone
<1>3. UNCHANGED committed => Committed' = Committed
  BY DEF Committed
<1>4. UNCHANGED committed => UNCHANGED Settled
  <2> SUFFICES ASSUME UNCHANGED committed
               PROVE  Settled' = Settled
    OBVIOUS
  <2>1. {j \in Committed : EventAt(j) \in Measurements}'
          = {j \in Committed : EventAt(j) \in Measurements}
    BY <1>2, <1>3
  <2>2. QED
    BY <1>2, <2>1 DEF Settled
<1>5. UNCHANGED stored => UNCHANGED InTopic
  BY <1>1 DEF InTopic
<1>6. QED
  BY <1>4, <1>5 DEF Accepted, Persisted

\* A commit settles its record's event, or is a stutter.
LEMMA CommitSettles ==
  ASSUME TypeOK, PositionsOK, ProgressOK, OutputsOK, CommittedIsDone, [Next]_vars,
         NEW c \in Consumers, MayCommit(c), committed' = CommittedBy(c)
  PROVE  \/ Settled' = Settled
         \/ \E e \in Validated : e \in InTopic /\ Settled' = Settled \union {e}
<1>1. PICK k \in Filled : k = current[c]
  BY CommitMoves
<1>2. Done(k)
  BY <1>1, CommittableIsDone DEF ProgressOK, MayCommit
<1>3. Committed' = Committed \union {k}
  <2>1. k \in Coordinates /\ k[1] \in Partitions /\ k[2] \in Nat
    BY FilledRecord
  <2>2. \A t \in Partitions : committed[t] \in Nat
    BY IngestorAssumption DEF TypeOK
  <2>3. /\ k[2] <= committed[k[1]] /\ committed[k[1]] <= k[2] + 1
        /\ committed'[k[1]] = k[2] + 1
        /\ \A t \in Partitions : t # k[1] => committed'[t] = committed[t]
    BY <1>1, CommitMoves
  <2>4. ASSUME NEW j \in Coordinates
        PROVE  j[2] < committed'[j[1]] <=> (j[2] < committed[j[1]] \/ j = k)
    <3>1. j[1] \in Partitions /\ j[2] \in Nat /\ j = <<j[1], j[2]>> /\ k = <<k[1], k[2]>>
      BY <2>1, IngestorAssumption DEF Coordinates
    <3>2. CASE j[1] # k[1]
      BY <2>3, <3>1, <3>2
    <3>3. CASE j[1] = k[1]
      <4>1. j = k <=> j[2] = k[2]
        BY <3>1, <3>3
      <4>2. QED
        BY <2>1, <2>2, <2>3, <3>1, <3>3, <4>1
    <3>4. QED
      BY <3>2, <3>3
  <2>5. QED
    BY <2>1, <2>4 DEF Committed
<1>4. \A j \in Committed \union {k} : EventAt(j)' = EventAt(j)
  BY LogGrows DEF CommittedIsDone
<1>5. CASE EventAt(k) \in Measurements
  <2>1. EventAt(k) \notin Others /\ EventAt(k) \in Validated
    BY <1>5, IngestorAssumption DEF Validated
  <2>2. EventAt(k) \in InTopic
    <3>1. <<"valid", k>> \in stored
      BY <1>2, <1>5, <2>1 DEF Done, Ingested
    <3>2. <<"valid", k>>[1] = "valid" /\ <<"valid", k>>[2] = k
      OBVIOUS
    <3>3. QED
      BY <3>1, <3>2 DEF InTopic
  <2>3. Settled' = Settled \union {EventAt(k)}
    <3>1. {j \in Committed : EventAt(j) \in Measurements}'
            = {j \in Committed : EventAt(j) \in Measurements} \union {k}
      BY <1>3, <1>4, <1>5
    <3>2. QED
      BY <1>4, <3>1 DEF Settled
  <2>4. QED
    BY <2>1, <2>2, <2>3
<1>6. CASE EventAt(k) \notin Measurements
  <2>1. {j \in Committed : EventAt(j) \in Measurements}'
          = {j \in Committed : EventAt(j) \in Measurements}
    BY <1>3, <1>4, <1>6
  <2>2. QED
    BY <1>4, <2>1 DEF Settled
<1>7. QED
  BY <1>5, <1>6

\* A record that Kafka stores is published, or is a dead letter.
LEMMA StorePublishes ==
  ASSUME TypeOK, OutputsOK, [Next]_vars, NEW x \in sent, stored' = stored \union {x}
  PROVE  \/ InTopic' = InTopic
         \/ \E e \in Validated : e \in Accepted /\ InTopic' = InTopic \union {e}
<1>1. \A y \in stored \union {x} : EventAt(y[2])' = EventAt(y[2])
  BY LogGrows DEF OutputsOK
<1>2. CASE x[1] = "valid"
  <2>1. EventAt(x[2]) \in Accepted /\ EventAt(x[2]) \in Validated
    BY <1>2 DEF OutputsOK, Accepted
  <2>2. InTopic' = InTopic \union {EventAt(x[2])}
    BY <1>1, <1>2 DEF InTopic
  <2>3. QED
    BY <2>1, <2>2
<1>3. CASE x[1] # "valid"
  <2>1. InTopic' = InTopic
    BY <1>1, <1>3 DEF InTopic
  <2>2. QED
    BY <2>1
<1>4. QED
  BY <1>2, <1>3

\* A new raw row accepts its event, or is that of another type.
LEMMA RowAccepts ==
  ASSUME NEW k, ~Conflicts(k),
         rawEvents' = rawEvents \union {[event |-> EventAt(k), source |-> k]}
  PROVE  \/ Accepted' = Accepted
         \/ \E e \in Validated : e \notin Accepted /\ Accepted' = Accepted \union {e}
<1> DEFINE row == [event |-> EventAt(k), source |-> k]
<1>1. Persisted' = Persisted \union {EventAt(k)}
  <2>1. row.event = EventAt(k)
    OBVIOUS
  <2>2. rawEvents' = rawEvents \union {row}
    OBVIOUS
  <2> HIDE DEF row
  <2>3. QED
    BY <2>1, <2>2 DEF Persisted
<1>2. EventAt(k) \notin Persisted
  BY DEF Persisted, Conflicts
<1>3. QED
  BY <1>1, <1>2 DEF Accepted

\* Every step accepts, publishes or settles one event, or none of these.
LEMMA DeliveryStep ==
  ASSUME TypeOK, PositionsOK, ProgressOK, OutputsOK, CommittedIsDone, [Next]_vars
  PROVE  [Delivery!Next]_(Delivery!vars)
<1>1. ASSUME NEW c \in Consumers, PersistEvent(c)
      PROVE  [Delivery!Next]_(Delivery!vars)
  <2>1. UNCHANGED InTopic /\ UNCHANGED Settled
    BY <1>1, MappingFrame DEF PersistEvent, kafkaVars, groupVars
  <2>2. \/ UNCHANGED Accepted
        \/ \E e \in Validated : e \notin Accepted /\ Accepted' = Accepted \union {e}
    BY <1>1, MappingFrame, RowAccepts DEF PersistEvent
  <2>3. QED
    BY <2>1, <2>2 DEF Delivery!Next, Delivery!Accept, Delivery!vars, Accepted, InTopic, Settled
<1>2. ASSUME NEW x \in sent, stored' = stored \union {x}, UNCHANGED <<rawEvents, committed>>
      PROVE  [Delivery!Next]_(Delivery!vars)
  <2>1. UNCHANGED Accepted /\ UNCHANGED Settled
    BY <1>2, MappingFrame
  <2>2. \/ UNCHANGED InTopic
        \/ \E e \in Validated : e \in Accepted /\ InTopic' = InTopic \union {e}
    BY <1>2, StorePublishes
  <2>3. QED
    BY <2>1, <2>2 DEF Delivery!Next, Delivery!Publish, Delivery!vars, Accepted, InTopic, Settled
<1>3. ASSUME NEW c \in Consumers, MayCommit(c), committed' = CommittedBy(c),
             UNCHANGED <<rawEvents, stored>>
      PROVE  [Delivery!Next]_(Delivery!vars)
  <2>1. UNCHANGED Accepted /\ UNCHANGED InTopic
    BY <1>3, MappingFrame
  <2>2. \/ UNCHANGED Settled
        \/ \E e \in Validated : e \in InTopic /\ Settled' = Settled \union {e}
    BY <1>3, CommitSettles
  <2>3. QED
    BY <2>1, <2>2 DEF Delivery!Next, Delivery!Settle, Delivery!vars, Accepted, InTopic, Settled
<1>4. ASSUME UNCHANGED <<rawEvents, stored, committed>>
      PROVE  [Delivery!Next]_(Delivery!vars)
  BY <1>4, MappingFrame DEF Delivery!vars, Accepted, InTopic, Settled
<1>5. ASSUME NEW c \in Consumers, Acknowledge(c)
      PROVE  /\ Output(c) \in sent /\ stored' = stored \union {Output(c)}
             /\ UNCHANGED <<rawEvents, committed>>
  BY <1>5 DEF Acknowledge, Output, ProgressOK, Progress, groupVars, dbVars
<1>6. ASSUME NEW c \in Consumers, Commit(c) \/ CommitUnanswered(c)
      PROVE  MayCommit(c) /\ committed' = CommittedBy(c) /\ UNCHANGED <<rawEvents, stored>>
  BY <1>6 DEF Commit, CommitUnanswered, kafkaVars, dbVars
<1>7. \/ \E c \in Consumers :
           PersistEvent(c) \/ Acknowledge(c) \/ Commit(c) \/ CommitUnanswered(c)
      \/ \E x \in sent : StoreLate(x)
      \/ UNCHANGED <<rawEvents, stored, committed>>
  BY DEF Next, vars, Process, Poll, RecordFailure, Send, MarkDeadLetter, ProcessingFails,
    Crash, Arrive, Assign, Register, kafkaVars, groupVars, dbVars
<1>8. ASSUME NEW x \in sent, StoreLate(x)
      PROVE  stored' = stored \union {x} /\ UNCHANGED <<rawEvents, committed>>
  BY <1>8 DEF StoreLate, groupVars, dbVars
<1>9. QED
  BY <1>1, <1>2, <1>3, <1>4, <1>5, <1>6, <1>7, <1>8

\* The tables, the validated topic and the committed offset keep the promise of
\* DurableDelivery: only a stored measurement is published, and an offset passes a
\* measurement only when Kafka has its output.
THEOREM IngestorRefinesDelivery == Spec => ImplementsDurableDelivery
<1>1. Init => Delivery!Init
  <2> SUFFICES ASSUME Init
               PROVE  Delivery!Init
    OBVIOUS
  <2>1. Committed = {}
    BY IngestorAssumption DEF Init, Committed, Coordinates
  <2>2. QED
    BY <2>1 DEF Init, Delivery!Init, Persisted
<1>2. QED
  BY <1>1, DeliveryStep, TypeCorrect, PositionsInvariant, ProgressInvariant,
    OutputsInvariant, CommitsSafe, PTL
    DEF Spec, ImplementsDurableDelivery, Delivery!Spec
=============================================================================
