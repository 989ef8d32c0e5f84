-------------------------- MODULE AgentOutboxProofs --------------------------
(***************************************************************************)
(* Machine-checked proofs about AgentOutbox, for every set of events,      *)
(* threads and limits that OutboxAssumption admits.                        *)
(***************************************************************************)
EXTENDS AgentOutbox, FiniteSetTheorems, TLAPS

-----------------------------------------------------------------------------
(* Type correctness                                                        *)

\* The initial state is well typed.
LEMMA TypeInit == Init => TypeOK
BY OutboxAssumption DEF Init, TypeOK, Statuses, PublisherStates, Records

\* The row count is a natural number: the file size is one, too.
LEMMA RowCount ==
  ASSUME TypeOK
  PROVE  IsFiniteSet(Rows) /\ Cardinality(Rows) \in Nat
<1>1. Rows \subseteq Events
  BY DEF Rows
<1>2. IsFiniteSet(Rows)
  BY <1>1, OutboxAssumption, FS_Subset
<1>3. QED
  BY <1>2, FS_CardinalityType

\* Every step keeps the type invariant: one step per action of Next.
LEMMA TypeStep == TypeOK /\ [Next]_vars => TypeOK'
<1> SUFFICES ASSUME TypeOK, [Next]_vars
             PROVE  TypeOK'
  OBVIOUS
<1> USE OutboxAssumption
<1>1. ASSUME NEW c \in Collectors, Build(c)
      PROVE  TypeOK'
  BY <1>1 DEF TypeOK, Build, NextSequence, Statuses, publisherVars, kafkaVars, faultVars
<1>2. ASSUME NEW c \in Collectors, Enqueue(c)
      PROVE  TypeOK'
  <2>1. fileUnits' \in Nat
    BY <1>2, RowCount DEF TypeOK, Enqueue
  <2>2. QED
    BY <1>2, <2>1 DEF TypeOK, Enqueue, Statuses, publisherVars, kafkaVars, faultVars
<1>3. ASSUME NEW c \in Collectors, EnqueueRejected(c) \/ EnqueueError(c)
      PROVE  TypeOK'
  <2>1. Discard(c) /\ UNCHANGED <<crashes, clockSteps>> /\ errors' \in Nat
    <3>1. CASE EnqueueRejected(c)
      BY <3>1 DEF TypeOK, EnqueueRejected, faultVars
    <3>2. CASE EnqueueError(c)
      BY <3>2 DEF TypeOK, EnqueueError
    <3>3. QED
      BY <1>3, <3>1, <3>2
  <2>2. QED
    BY <2>1 DEF TypeOK, Discard, Statuses, publisherVars, kafkaVars
<1>4. ASSUME NEW c \in Collectors, CollectorDies(c)
      PROVE  TypeOK'
  BY <1>4 DEF TypeOK, CollectorDies, tableVars, collectorVars, publisherVars, kafkaVars
<1>5. ASSUME NEW p \in Publishers, Ready(p)
      PROVE  TypeOK'
  <2>1. batch' \in [Publishers -> SUBSET Records]
    <3>1. ReadyRows \subseteq Events
      BY DEF ReadyRows, Eligible
    <3>2. {[id |-> e, retry_count |-> retryCount[e]] : e \in ReadyRows} \subseteq Records
      BY <3>1 DEF TypeOK, Records
    <3>3. QED
      BY <1>5, <3>2 DEF TypeOK, Ready
  <2>2. QED
    BY <1>5, <2>1 DEF TypeOK, Ready, PublisherStates, tableVars, collectorVars, kafkaVars,
      faultVars
<1>6. ASSUME NEW p \in Publishers, Produce(p) \/ ProduceRejected(p)
      PROVE  TypeOK'
  <2>1. PICK s \in {"waiting", "failed"} : Take(p, s)
    BY <1>6 DEF Produce, ProduceRejected
  <2>2. PICK r \in batch[p] :
          /\ current' = [current EXCEPT ![p] = r]
          /\ batch' = [batch EXCEPT ![p] = @ \ {r}]
          /\ sent' = IF s = "waiting" THEN sent \union {r.id} ELSE sent
    BY <2>1 DEF Take
  <2>3. r \in Records /\ r.id \in Events
    BY <2>2 DEF TypeOK, Records
  <2>4. QED
    BY <2>1, <2>2, <2>3 DEF TypeOK, Take, PublisherStates, tableVars, collectorVars, faultVars
<1>7. ASSUME NEW p \in Publishers, DeliverySucceeds(p)
      PROVE  TypeOK'
  <2>1. current[p].id \in Events
    BY <1>7 DEF TypeOK, DeliverySucceeds, Records
  <2>2. QED
    BY <1>7, <2>1 DEF TypeOK, DeliverySucceeds, PublisherStates, tableVars, collectorVars,
      faultVars
<1>8. ASSUME NEW p \in Publishers, DeliveryFails(p)
      PROVE  TypeOK'
  BY <1>8 DEF TypeOK, DeliveryFails, PublisherStates, tableVars, collectorVars, kafkaVars,
    faultVars
<1>9. ASSUME NEW e \in Events, KafkaStoresLate(e)
      PROVE  TypeOK'
  BY <1>9 DEF TypeOK, KafkaStoresLate, tableVars, collectorVars, publisherVars, faultVars
<1>10. ASSUME NEW p \in Publishers, MarkDelivered(p)
       PROVE  TypeOK'
  <2>1. current[p].id \in Events
    BY <1>10 DEF TypeOK, MarkDelivered, Records
  <2>2. status' \in [Events -> Statuses] /\ timer' \in [Events -> Nat]
    BY <1>10, <2>1 DEF TypeOK, MarkDelivered, Statuses
  <2>3. QED
    BY <1>10, <2>2 DEF TypeOK, MarkDelivered, PublisherStates, collectorVars, kafkaVars,
      faultVars
<1>11. ASSUME NEW p \in Publishers, MarkFailed(p)
       PROVE  TypeOK'
  <2>1. current[p].id \in Events /\ current[p].retry_count \in Nat
    BY <1>11 DEF TypeOK, MarkFailed, Records
  <2>2. Delays(current[p].retry_count) \subseteq Nat
    BY DEF Delays
  <2>3. Smaller(current[p].retry_count + 1, RetryCap) \in Nat
    BY <2>1 DEF Smaller
  <2>4. retryCount' \in [Events -> Nat] /\ timer' \in [Events -> Nat]
    BY <1>11, <2>1, <2>2, <2>3 DEF TypeOK, MarkFailed
  <2>5. QED
    BY <1>11, <2>4 DEF TypeOK, MarkFailed, PublisherStates, collectorVars, kafkaVars, faultVars
<1>12. ASSUME NEW p \in Publishers, Prune(p)
       PROVE  TypeOK'
  BY <1>12 DEF TypeOK, Prune, Statuses, PublisherStates, collectorVars, kafkaVars, faultVars
<1>13. ASSUME NEW p \in Publishers, PublisherDies(p)
       PROVE  TypeOK'
  BY <1>13 DEF TypeOK, PublisherDies, PublisherStates, tableVars, collectorVars, kafkaVars
<1>14. ASSUME NEW p \in Publishers, Crash(p)
       PROVE  TypeOK'
  BY <1>14 DEF TypeOK, Crash, Restarted, Statuses, PublisherStates, kafkaVars
<1>15. CASE Tick
  BY <1>15 DEF TypeOK, Tick, collectorVars, publisherVars, kafkaVars, faultVars
<1>16. CASE ClockStepsBack
  BY <1>16 DEF TypeOK, ClockStepsBack, collectorVars, publisherVars, kafkaVars
<1>17. CASE UNCHANGED vars
  BY <1>17 DEF TypeOK, vars
<1>18. QED
  BY <1>1, <1>2, <1>3, <1>4, <1>5, <1>6, <1>7, <1>8, <1>9, <1>10, <1>11, <1>12, <1>13,
    <1>14, <1>15, <1>16, <1>17
    DEF Next, CollectorStep, PublisherStep, Environment

\* The agent never reaches an ill-typed state; in particular a publisher that
\* waits for, or records, an outcome does so for a record it has read.
THEOREM TypeCorrect == Spec => []TypeOK
<1>1. QED
  BY TypeInit, TypeStep, PTL DEF Spec
-----------------------------------------------------------------------------
(* The inductive invariant: what each place that can lead to Kafka or to a *)
(* delivered row knows about the events in it.                             *)

\* A held event is held by one collector, and is not in the outbox.
HeldOnce ==
  \A c \in Collectors : holding[c] # NoEvent =>
    /\ status[holding[c]] = "held"
    /\ \A d \in Collectors : holding[d] = holding[c] => d = c

\* What a publisher has read out of the table is in the table, or was.
BatchAccepted == \A p \in Publishers : \A r \in batch[p] : r.id \in Accepted

\* A record being attempted was read from the table; it was handed to the
\* producer if its outcome is awaited, and stored if the outcome is success.
AttemptKnown ==
  \A p \in Publishers :
    /\ pc[p] \in {"waiting", "acked", "failed"} => current[p].id \in Accepted
    /\ pc[p] = "waiting" => current[p].id \in sent
    /\ pc[p] = "acked" => current[p].id \in topic

IInv ==
  /\ TypeOK
  /\ HeldOnce
  /\ BatchAccepted
  /\ AttemptKnown
  /\ sent \subseteq Accepted
  /\ topic \subseteq sent
  /\ DeliveredIsInKafka

\* An agent that has just started satisfies the inductive invariant.
LEMMA InvInit == Init => IInv
<1> SUFFICES ASSUME Init
             PROVE  IInv
  OBVIOUS
<1>1. TypeOK
  BY TypeInit
<1>2. QED
  BY <1>1 DEF Init, IInv, HeldOnce, BatchAccepted, AttemptKnown, DeliveredIsInKafka,
    Delivered

\* Steps that leave the table's status column, Kafka and the collectors alone,
\* and do not give a publisher more to work on, keep the invariant.
LEMMA InvFrame ==
  ASSUME IInv, TypeOK',
         UNCHANGED <<status, holding, sent, topic>>,
         \A p \in Publishers :
           /\ batch'[p] \subseteq batch[p]
           /\ \/ pc'[p] \in {"idle", "publishing"}
              \/ pc'[p] = "failed" /\ pc[p] = "waiting" /\ current'[p] = current[p]
              \/ pc'[p] = pc[p] /\ current'[p] = current[p]
  PROVE  IInv'
BY DEF IInv, HeldOnce, BatchAccepted, AttemptKnown, DeliveredIsInKafka, Delivered, Accepted

\* Every step keeps the inductive invariant.
LEMMA InvStep == IInv /\ [Next]_vars => IInv'
<1> SUFFICES ASSUME IInv, [Next]_vars
             PROVE  IInv'
  OBVIOUS
<1> USE OutboxAssumption
<1>0. TypeOK /\ TypeOK'
  BY TypeStep DEF IInv
<1>1. ASSUME NEW c \in Collectors, Build(c)
      PROVE  IInv'
  <2>1. PICK e \in Events :
          /\ status[e] = "unborn"
          /\ status' = [status EXCEPT ![e] = "held"]
          /\ holding' = [holding EXCEPT ![c] = e]
    BY <1>1 DEF Build
  <2>2. Accepted' = Accepted /\ Delivered' = Delivered
    BY <1>0, <2>1 DEF TypeOK, Accepted, Delivered
  <2>3. HeldOnce'
    BY <1>0, <1>1, <2>1 DEF TypeOK, IInv, HeldOnce
  <2>4. UNCHANGED <<pc, batch, current, sent, topic>>
    BY <1>1 DEF Build, publisherVars, kafkaVars
  <2>5. QED
    BY <1>0, <2>2, <2>3, <2>4 DEF IInv, BatchAccepted, AttemptKnown, DeliveredIsInKafka
<1>2. ASSUME NEW c \in Collectors, Enqueue(c)
      PROVE  IInv'
  <2>1. Accepted \subseteq Accepted' /\ Delivered' = Delivered
    BY <1>0, <1>2 DEF TypeOK, IInv, HeldOnce, Enqueue, Accepted, Delivered
  <2>2. HeldOnce'
    BY <1>0, <1>2 DEF TypeOK, IInv, HeldOnce, Enqueue
  <2>3. UNCHANGED <<pc, batch, current, sent, topic>>
    BY <1>2 DEF Enqueue, publisherVars, kafkaVars
  <2>4. QED
    BY <1>0, <2>1, <2>2, <2>3 DEF IInv, BatchAccepted, AttemptKnown, DeliveredIsInKafka
<1>3. ASSUME NEW c \in Collectors, EnqueueRejected(c) \/ EnqueueError(c)
      PROVE  IInv'
  <2>1. Discard(c) /\ holding[c] # NoEvent
    <3>1. CASE EnqueueRejected(c)
      BY <3>1 DEF EnqueueRejected
    <3>2. CASE EnqueueError(c)
      BY <3>2 DEF EnqueueError
    <3>3. QED
      BY <1>3, <3>1, <3>2
  <2>2. Accepted' = Accepted /\ Delivered' = Delivered
    BY <1>0, <2>1 DEF TypeOK, IInv, HeldOnce, Discard, Accepted, Delivered
  <2>3. HeldOnce'
    BY <1>0, <2>1 DEF TypeOK, IInv, HeldOnce, Discard
  <2>4. UNCHANGED <<pc, batch, current, sent, topic>>
    BY <2>1 DEF Discard, publisherVars, kafkaVars
  <2>5. QED
    BY <1>0, <2>2, <2>3, <2>4 DEF IInv, BatchAccepted, AttemptKnown, DeliveredIsInKafka
<1>4. ASSUME NEW c \in Collectors, CollectorDies(c)
      PROVE  IInv'
  BY <1>0, <1>4, InvFrame DEF CollectorDies, tableVars, collectorVars, publisherVars, kafkaVars
<1>5. ASSUME NEW p \in Publishers, Ready(p)
      PROVE  IInv'
  <2>1. ReadyRows \subseteq Accepted
    BY DEF ReadyRows, Eligible, Accepted
  <2>2. \A r \in {[id |-> e, retry_count |-> retryCount[e]] : e \in ReadyRows} :
          r.id \in Accepted
    BY <2>1
  <2>3. /\ batch' = [batch EXCEPT ![p] =
                       {[id |-> e, retry_count |-> retryCount[e]] : e \in ReadyRows}]
        /\ pc' = [pc EXCEPT ![p] = "publishing"]
        /\ UNCHANGED <<status, holding, current, sent, topic>>
    BY <1>5 DEF Ready, tableVars, collectorVars, kafkaVars
  <2>4. BatchAccepted'
    BY <1>0, <2>2, <2>3 DEF TypeOK, IInv, BatchAccepted, Accepted
  <2>5. QED
    BY <1>0, <2>3, <2>4
      DEF TypeOK, IInv, HeldOnce, AttemptKnown, DeliveredIsInKafka, Delivered, Accepted
<1>6. ASSUME NEW p \in Publishers, Produce(p) \/ ProduceRejected(p)
      PROVE  IInv'
  <2>1. PICK s \in {"waiting", "failed"} : Take(p, s)
    BY <1>6 DEF Produce, ProduceRejected
  <2>2. PICK r \in batch[p] :
          /\ current' = [current EXCEPT ![p] = r]
          /\ batch' = [batch EXCEPT ![p] = @ \ {r}]
          /\ sent' = IF s = "waiting" THEN sent \union {r.id} ELSE sent
    BY <2>1 DEF Take
  <2>3. pc' = [pc EXCEPT ![p] = s] /\ UNCHANGED <<status, holding, topic>>
    BY <2>1 DEF Take, tableVars, collectorVars
  <2>4. r.id \in Accepted
    BY <2>2 DEF IInv, BatchAccepted
  <2>5. AttemptKnown'
    BY <1>0, <2>2, <2>3, <2>4 DEF TypeOK, IInv, AttemptKnown, Accepted
  <2>6. Accepted' = Accepted /\ Delivered' = Delivered
    BY <2>3 DEF Accepted, Delivered
  <2>7. sent \subseteq sent' /\ sent' \subseteq Accepted'
    BY <2>2, <2>4, <2>6 DEF IInv
  <2>8. BatchAccepted'
    BY <1>0, <2>2, <2>6 DEF TypeOK, IInv, BatchAccepted
  <2>9. QED
    BY <1>0, <2>3, <2>5, <2>6, <2>7, <2>8 DEF IInv, HeldOnce, DeliveredIsInKafka
<1>7. ASSUME NEW p \in Publishers, DeliverySucceeds(p)
      PROVE  IInv'
  <2>1. /\ pc[p] = "waiting"
        /\ pc' = [pc EXCEPT ![p] = "acked"]
        /\ topic' = topic \union {current[p].id}
        /\ UNCHANGED <<status, holding, batch, current, sent>>
    BY <1>7 DEF DeliverySucceeds, tableVars, collectorVars
  <2>2. Accepted' = Accepted /\ Delivered' = Delivered
    BY <2>1 DEF Accepted, Delivered
  <2>3. AttemptKnown'
    BY <1>0, <2>1, <2>2 DEF TypeOK, IInv, AttemptKnown
  <2>4. topic \subseteq topic' /\ topic' \subseteq sent
    BY <2>1 DEF IInv, AttemptKnown
  <2>5. QED
    BY <1>0, <2>1, <2>2, <2>3, <2>4 DEF IInv, HeldOnce, BatchAccepted, DeliveredIsInKafka
<1>8. ASSUME NEW p \in Publishers, DeliveryFails(p)
      PROVE  IInv'
  BY <1>0, <1>8, InvFrame DEF TypeOK, DeliveryFails, tableVars, collectorVars, kafkaVars
<1>9. ASSUME NEW e \in Events, KafkaStoresLate(e)
      PROVE  IInv'
  BY <1>0, <1>9
    DEF KafkaStoresLate, IInv, HeldOnce, BatchAccepted, AttemptKnown,
        DeliveredIsInKafka, Delivered, Accepted, tableVars, collectorVars, publisherVars
<1>10. ASSUME NEW p \in Publishers, MarkDelivered(p)
       PROVE  IInv'
  <2>1. current[p].id \in Events /\ current[p].id \in topic
    BY <1>0, <1>10 DEF TypeOK, MarkDelivered, Records, IInv, AttemptKnown
  <2>2. Accepted' = Accepted /\ Delivered' \subseteq topic
    BY <1>0, <1>10, <2>1
      DEF TypeOK, MarkDelivered, IInv, DeliveredIsInKafka, Delivered, Accepted
  <2>3. HeldOnce'
    BY <1>0, <1>10, <2>1 DEF TypeOK, MarkDelivered, IInv, HeldOnce, collectorVars
  <2>4. QED
    BY <1>0, <1>10, <2>2, <2>3
      DEF TypeOK, MarkDelivered, IInv, BatchAccepted, AttemptKnown, DeliveredIsInKafka,
          kafkaVars
<1>11. ASSUME NEW p \in Publishers, MarkFailed(p)
       PROVE  IInv'
  <2>1. /\ UNCHANGED <<status, holding, sent, topic, batch>>
        /\ pc' = [pc EXCEPT ![p] = "publishing"]
        /\ current' = [current EXCEPT ![p] = NoRecord]
    BY <1>11 DEF MarkFailed, collectorVars, kafkaVars
  <2>2. QED
    BY <1>0, <2>1, InvFrame DEF TypeOK
<1>12. ASSUME NEW p \in Publishers, Prune(p)
       PROVE  IInv'
  <2>1. Accepted' = Accepted /\ Delivered' = Delivered
    BY <1>0, <1>12 DEF TypeOK, Prune, Prunable, Accepted, Delivered
  <2>2. HeldOnce'
    BY <1>0, <1>12 DEF TypeOK, Prune, Prunable, IInv, HeldOnce, collectorVars
  <2>3. QED
    BY <1>0, <1>12, <2>1, <2>2
      DEF TypeOK, Prune, IInv, BatchAccepted, AttemptKnown, DeliveredIsInKafka, kafkaVars
<1>13. ASSUME NEW p \in Publishers, PublisherDies(p)
       PROVE  IInv'
  BY <1>0, <1>13, InvFrame DEF TypeOK, PublisherDies, tableVars, collectorVars, kafkaVars
<1>14. ASSUME NEW p \in Publishers, Crash(p)
       PROVE  IInv'
  <2>1. Accepted' = Accepted /\ Delivered' = Delivered
    BY <1>0, <1>14 DEF TypeOK, Crash, Accepted, Delivered
  <2>2. HeldOnce'
    BY <1>0, <1>14 DEF TypeOK, Crash, Restarted, IInv, HeldOnce
  <2>3. QED
    BY <1>0, <1>14, <2>1, <2>2
      DEF TypeOK, Crash, IInv, BatchAccepted, AttemptKnown, DeliveredIsInKafka, kafkaVars
<1>15. CASE Tick
  BY <1>0, <1>15, InvFrame DEF Tick, collectorVars, publisherVars, kafkaVars
<1>16. CASE ClockStepsBack
  BY <1>0, <1>16, InvFrame DEF ClockStepsBack, collectorVars, publisherVars, kafkaVars
<1>17. CASE UNCHANGED vars
  BY <1>0, <1>17, InvFrame DEF vars
<1>18. QED
  BY <1>1, <1>2, <1>3, <1>4, <1>5, <1>6, <1>7, <1>8, <1>9, <1>10, <1>11, <1>12, <1>13,
    <1>14, <1>15, <1>16, <1>17
    DEF Next, CollectorStep, PublisherStep, Environment

\* The inductive invariant holds in every reachable state.
LEMMA Invariant == Spec => []IInv
<1>1. QED
  BY InvInit, InvStep, PTL DEF Spec

\* A row marked delivered, or pruned after that, is stored by Kafka: for any
\* number of publishers on the file and any number of crashes.
THEOREM DeliveredSafe == Spec => []DeliveredIsInKafka
<1>1. IInv => DeliveredIsInKafka
  BY DEF IInv
<1>2. QED
  BY <1>1, Invariant, PTL

-----------------------------------------------------------------------------
(* The abstract promise                                                    *)

\* Every step of the agent is a step of DurableDelivery, or changes nothing
\* that DurableDelivery shows.
LEMMA DeliveryStep ==
  ASSUME IInv, IInv', [Next]_vars
  PROVE  [Delivery!Next]_(Delivery!vars)
<1> USE OutboxAssumption
<1>0. TypeOK
  BY DEF IInv
<1>1. ASSUME NEW c \in Collectors, Build(c)
      PROVE  UNCHANGED Delivery!vars
  BY <1>0, <1>1 DEF TypeOK, Build, Delivery!vars, Accepted, Delivered, kafkaVars
<1>2. ASSUME NEW c \in Collectors, Enqueue(c)
      PROVE  Delivery!Accept(holding[c])
  <2>1. holding[c] \in Events /\ status[holding[c]] = "held"
    BY <1>0, <1>2 DEF TypeOK, Enqueue, IInv, HeldOnce
  <2>2. status' = [status EXCEPT ![holding[c]] = "pending"] /\ topic' = topic
    BY <1>2 DEF Enqueue, kafkaVars
  <2>3. Accepted' = Accepted \union {holding[c]} /\ Delivered' = Delivered
    BY <1>0, <2>1, <2>2 DEF TypeOK, Accepted, Delivered
  <2>4. holding[c] \notin Accepted
    BY <2>1 DEF Accepted
  <2>5. QED
    BY <2>2, <2>3, <2>4 DEF Delivery!Accept
<1>3. ASSUME NEW c \in Collectors, EnqueueRejected(c) \/ EnqueueError(c)
      PROVE  UNCHANGED Delivery!vars
  <2>1. Discard(c) /\ holding[c] # NoEvent
    <3>1. CASE EnqueueRejected(c)
      BY <3>1 DEF EnqueueRejected
    <3>2. CASE EnqueueError(c)
      BY <3>2 DEF EnqueueError
    <3>3. QED
      BY <1>3, <3>1, <3>2
  <2>2. Accepted' = Accepted /\ Delivered' = Delivered
    BY <1>0, <2>1 DEF TypeOK, IInv, HeldOnce, Discard, Accepted, Delivered
  <2>3. QED
    BY <2>1, <2>2 DEF Discard, kafkaVars, Delivery!vars
<1>4. ASSUME UNCHANGED <<status, topic>>
      PROVE  UNCHANGED Delivery!vars
  BY <1>4 DEF Delivery!vars, Accepted, Delivered
<1>5. ASSUME NEW p \in Publishers, DeliverySucceeds(p)
      PROVE  Delivery!Publish(current[p].id)
  <2>1. current[p].id \in Accepted
    BY <1>5 DEF DeliverySucceeds, IInv, AttemptKnown
  <2>2. topic' = topic \union {current[p].id} /\ status' = status
    BY <1>5 DEF DeliverySucceeds, tableVars
  <2>3. QED
    BY <2>1, <2>2 DEF Delivery!Publish, Accepted, Delivered
<1>6. ASSUME NEW e \in Events, KafkaStoresLate(e)
      PROVE  Delivery!Publish(e)
  BY <1>6 DEF KafkaStoresLate, tableVars, IInv, Delivery!Publish, Accepted, Delivered
<1>7. ASSUME NEW p \in Publishers, MarkDelivered(p)
      PROVE  Delivery!Settle(current[p].id) \/ UNCHANGED <<status, topic>>
  <2>1. current[p].id \in Events /\ current[p].id \in topic
    BY <1>0, <1>7 DEF TypeOK, MarkDelivered, Records, IInv, AttemptKnown
  <2>2. CASE status[current[p].id] = "pending"
    <3>1. status' = [status EXCEPT ![current[p].id] = "delivered"] /\ topic' = topic
      BY <1>7, <2>2 DEF MarkDelivered, kafkaVars
    <3>2. Delivered' = Delivered \union {current[p].id} /\ Accepted' = Accepted
      BY <1>0, <2>1, <2>2, <3>1 DEF TypeOK, Accepted, Delivered
    <3>3. QED
      BY <2>1, <3>1, <3>2 DEF Delivery!Settle
  <2>3. CASE status[current[p].id] # "pending"
    BY <1>7, <2>3 DEF MarkDelivered, kafkaVars
  <2>4. QED
    BY <2>2, <2>3
<1>8. ASSUME NEW p \in Publishers, Prune(p)
      PROVE  UNCHANGED Delivery!vars
  BY <1>0, <1>8 DEF TypeOK, Prune, Prunable, Delivery!vars, Accepted, Delivered, kafkaVars
<1>9. ASSUME NEW p \in Publishers, Crash(p)
      PROVE  UNCHANGED Delivery!vars
  BY <1>0, <1>9 DEF TypeOK, Crash, Delivery!vars, Accepted, Delivered, kafkaVars
<1>10. ASSUME NEW p \in Publishers, Produce(p) \/ ProduceRejected(p)
       PROVE  UNCHANGED <<status, topic>>
  BY <1>10 DEF Produce, ProduceRejected, Take, tableVars
<1>11. ASSUME NEW p \in Publishers,
              Ready(p) \/ DeliveryFails(p) \/ MarkFailed(p) \/ PublisherDies(p)
       PROVE  UNCHANGED <<status, topic>>
  <2>1. CASE Ready(p)
    BY <2>1 DEF Ready, tableVars, kafkaVars
  <2>2. CASE DeliveryFails(p)
    BY <2>2 DEF DeliveryFails, tableVars, kafkaVars
  <2>3. CASE MarkFailed(p)
    BY <2>3 DEF MarkFailed, kafkaVars
  <2>4. CASE PublisherDies(p)
    BY <2>4 DEF PublisherDies, tableVars, kafkaVars
  <2>5. QED
    BY <1>11, <2>1, <2>2, <2>3, <2>4
<1>12. ASSUME NEW c \in Collectors, CollectorDies(c)
       PROVE  UNCHANGED <<status, topic>>
  BY <1>12 DEF CollectorDies, tableVars, kafkaVars
<1>13. ASSUME Tick \/ ClockStepsBack \/ UNCHANGED vars
       PROVE  UNCHANGED <<status, topic>>
  BY <1>13 DEF Tick, ClockStepsBack, vars, kafkaVars
<1>14. \A p \in Publishers : pc[p] \in {"waiting", "acked"} => current[p].id \in Events
  BY <1>0 DEF TypeOK, Records
<1>15. \A c \in Collectors : holding[c] # NoEvent => holding[c] \in Events
  BY <1>0 DEF TypeOK
<1>16. ASSUME NEW x \in Events, Delivery!Accept(x) \/ Delivery!Publish(x) \/ Delivery!Settle(x)
       PROVE  Delivery!Next
  BY <1>16 DEF Delivery!Next
<1>17. ASSUME NEW c \in Collectors, CollectorStep(c)
       PROVE  [Delivery!Next]_(Delivery!vars)
  <2>1. CASE Enqueue(c)
    BY <1>2, <1>15, <1>16, <2>1 DEF Enqueue
  <2>2. QED
    BY <1>1, <1>3, <1>4, <1>12, <1>17, <2>1 DEF CollectorStep
<1>18. ASSUME NEW p \in Publishers, PublisherStep(p)
       PROVE  [Delivery!Next]_(Delivery!vars)
  <2>1. CASE DeliverySucceeds(p)
    BY <1>5, <1>14, <1>16, <2>1 DEF DeliverySucceeds
  <2>2. CASE MarkDelivered(p)
    BY <1>4, <1>7, <1>14, <1>16, <2>2 DEF MarkDelivered
  <2>3. QED
    BY <1>4, <1>8, <1>10, <1>11, <1>18, <2>1, <2>2 DEF PublisherStep
<1>19. QED
  BY <1>4, <1>6, <1>9, <1>13, <1>16, <1>17, <1>18 DEF Next, Environment

\* The outbox keeps the promise of DurableDelivery: whatever the publishers, the
\* crashes and the late messages do, an accepted event is never lost, nothing
\* else reaches Kafka, and a row is settled only when Kafka has the event.
THEOREM OutboxRefinesDelivery == Spec => ImplementsDurableDelivery
<1>1. Init => Delivery!Init
  BY DEF Init, Delivery!Init, Accepted, Delivered
<1>2. IInv /\ IInv' /\ [Next]_vars => [Delivery!Next]_(Delivery!vars)
  BY DeliveryStep
<1>3. QED
  BY <1>1, <1>2, Invariant, PTL DEF Spec, ImplementsDurableDelivery, Delivery!Spec

-----------------------------------------------------------------------------
(* Sequence numbers                                                        *)

\* Only Build touches the counter and the numbers given out.
LEMMA SequenceFrame ==
  ASSUME [Next]_vars
  PROVE  (\E c \in Collectors : Build(c)) \/ UNCHANGED <<sequence, seqOf>>
BY DEF Next, vars, CollectorStep, PublisherStep, Environment, Enqueue, EnqueueRejected,
  EnqueueError, Discard, CollectorDies, Ready, Produce, ProduceRejected, Take,
  DeliverySucceeds, DeliveryFails, MarkDelivered, MarkFailed, Prune, PublisherDies,
  KafkaStoresLate, Crash, Tick, ClockStepsBack, collectorVars

\* No two events of an agent carry the same sequence number, in whatever order
\* its threads allocate them and however often it restarts.
THEOREM SequencesSafe == Spec => []SequenceNumbersUnique
<1>1. Init => SequenceNumbersUnique
  BY DEF Init, SequenceNumbersUnique
<1>2. TypeOK /\ SequenceNumbersUnique /\ [Next]_vars => SequenceNumbersUnique'
  <2> SUFFICES ASSUME TypeOK, SequenceNumbersUnique, [Next]_vars
               PROVE  SequenceNumbersUnique'
    OBVIOUS
  <2>1. ASSUME NEW c \in Collectors, Build(c)
        PROVE  SequenceNumbersUnique'
    <3>1. PICK e \in Events : seqOf' = [seqOf EXCEPT ![e] = sequence + 1]
      BY <2>1 DEF Build, NextSequence
    <3>2. sequence' = sequence + 1
      BY <2>1 DEF Build, NextSequence
    <3>3. QED
      BY <3>1, <3>2 DEF TypeOK, SequenceNumbersUnique
  <2>2. CASE UNCHANGED <<sequence, seqOf>>
    BY <2>2 DEF SequenceNumbersUnique
  <2>3. QED
    BY <2>1, <2>2, SequenceFrame
<1>3. QED
  BY <1>1, <1>2, TypeCorrect, PTL DEF Spec

-----------------------------------------------------------------------------
(* The storage ceiling                                                     *)

\* Only an insert adds rows; every other step keeps the rows or deletes some.
LEMMA RowsFrame ==
  ASSUME IInv, [Next]_vars
  PROVE  \/ \E c \in Collectors : Enqueue(c)
         \/ Rows' \subseteq Rows /\ fileUnits' = fileUnits
<1>0. TypeOK
  BY DEF IInv
<1>1. ASSUME NEW c \in Collectors, Build(c) \/ EnqueueRejected(c) \/ EnqueueError(c)
      PROVE  Rows' \subseteq Rows /\ fileUnits' = fileUnits
  <2>1. CASE Build(c)
    BY <1>0, <2>1 DEF TypeOK, Build, Rows
  <2>2. ASSUME Discard(c)
        PROVE  Rows' \subseteq Rows /\ fileUnits' = fileUnits
    BY <1>0, <2>2 DEF TypeOK, Discard, Rows
  <2>3. QED
    BY <1>1, <2>1, <2>2 DEF EnqueueRejected, EnqueueError
<1>2. ASSUME NEW p \in Publishers, MarkDelivered(p) \/ Prune(p) \/ Crash(p)
      PROVE  Rows' \subseteq Rows /\ fileUnits' = fileUnits
  <2>1. CASE MarkDelivered(p)
    BY <1>0, <2>1 DEF TypeOK, MarkDelivered, Rows
  <2>2. CASE Prune(p)
    BY <1>0, <2>2 DEF TypeOK, Prune, Prunable, Rows
  <2>3. CASE Crash(p)
    BY <1>0, <2>3 DEF TypeOK, Crash, Rows
  <2>4. QED
    BY <1>2, <2>1, <2>2, <2>3
<1>3. ASSUME UNCHANGED <<status, fileUnits>>
      PROVE  Rows' \subseteq Rows /\ fileUnits' = fileUnits
  BY <1>3 DEF Rows
<1>4. ASSUME NEW p \in Publishers,
             PublisherStep(p), ~MarkDelivered(p), ~Prune(p)
      PROVE  UNCHANGED <<status, fileUnits>>
  BY <1>4 DEF PublisherStep, Ready, Produce, ProduceRejected, Take, DeliverySucceeds,
    DeliveryFails, MarkFailed, PublisherDies, tableVars
<1>5. ASSUME Environment, \A p \in Publishers : ~Crash(p)
      PROVE  UNCHANGED <<status, fileUnits>>
  BY <1>5 DEF Environment, KafkaStoresLate, Tick, ClockStepsBack, tableVars
<1>6. ASSUME NEW c \in Collectors, CollectorDies(c)
      PROVE  UNCHANGED <<status, fileUnits>>
  BY <1>6 DEF CollectorDies, tableVars
<1>7. ASSUME UNCHANGED vars
      PROVE  UNCHANGED <<status, fileUnits>>
  BY <1>7 DEF vars
<1>8. QED
  BY <1>1, <1>2, <1>3, <1>4, <1>5, <1>6, <1>7 DEF Next, CollectorStep

\* Whatever the collectors insert and the publishers prune, the file never
\* outgrows the ceiling and has room for every row.
THEOREM StorageSafe == Spec => []StorageBounded
<1>1. Init => StorageBounded
  <2>1. Init => Rows = {}
    BY DEF Init, Rows
  <2>2. Cardinality({}) = 0
    BY FS_EmptySet
  <2>3. Init => fileUnits = 0
    BY DEF Init
  <2>4. MaxUnits \in Nat
    BY OutboxAssumption
  <2>5. QED
    BY <2>1, <2>2, <2>3, <2>4 DEF StorageBounded
<1>2. IInv /\ IInv' /\ StorageBounded /\ [Next]_vars => StorageBounded'
  <2> SUFFICES ASSUME IInv, IInv', StorageBounded, [Next]_vars
               PROVE  StorageBounded'
    OBVIOUS
  <2>1. /\ IsFiniteSet(Rows) /\ Cardinality(Rows) \in Nat
        /\ IsFiniteSet(Rows') /\ Cardinality(Rows') \in Nat
    <3>1. TypeOK /\ TypeOK'
      BY DEF IInv
    <3>2. Rows \subseteq Events /\ Rows' \subseteq Events
      BY DEF Rows
    <3>3. IsFiniteSet(Rows) /\ IsFiniteSet(Rows')
      BY <3>2, OutboxAssumption, FS_Subset
    <3>4. QED
      BY <3>3, FS_CardinalityType
  <2>2. ASSUME NEW c \in Collectors, Enqueue(c)
        PROVE  StorageBounded'
    <3>1. holding[c] \in Events /\ status[holding[c]] = "held"
      BY <2>2 DEF IInv, TypeOK, Enqueue, HeldOnce
    <3>2. Rows' = Rows \union {holding[c]} /\ holding[c] \notin Rows
      BY <2>2, <3>1 DEF IInv, TypeOK, Enqueue, Rows
    <3>3. Cardinality(Rows') = Cardinality(Rows) + 1
      BY <2>1, <3>2, FS_AddElement
    <3>4. fileUnits + 1 <= MaxUnits
      BY <2>2, OutboxAssumption DEF Enqueue, Fits, IInv, TypeOK
    <3>5. fileUnits' = IF Cardinality(Rows) + 1 > fileUnits
                         THEN Cardinality(Rows) + 1 ELSE fileUnits
      BY <2>2 DEF Enqueue
    <3>6. fileUnits \in Nat /\ MaxUnits \in Nat
      BY OutboxAssumption DEF IInv, TypeOK
    <3>7. QED
      BY <2>1, <3>3, <3>4, <3>5, <3>6 DEF StorageBounded
  <2>3. CASE Rows' \subseteq Rows /\ fileUnits' = fileUnits
    <3>1. Cardinality(Rows') <= Cardinality(Rows)
      BY <2>1, <2>3, FS_Subset
    <3>2. QED
      BY <2>1, <2>3, <3>1, OutboxAssumption DEF StorageBounded, IInv, TypeOK
  <2>4. QED
    BY <2>2, <2>3, RowsFrame
<1>3. QED
  BY <1>1, <1>2, Invariant, PTL DEF Spec
=============================================================================
