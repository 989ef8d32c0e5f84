---------------------- MODULE IncidentClassifierProofs ----------------------
(***************************************************************************)
(* Machine-checked proofs about IncidentClassifier, for every set of keys, *)
(* every number of processes and all thresholds and bounds.                *)
(***************************************************************************)
EXTENDS IncidentClassifier, TLAPS

-----------------------------------------------------------------------------
(* What the engine computes                                                *)

\* The engine's next row of an incident has a status of the lifecycle, the next
\* revision and natural counts.
LEMMA NextRows ==
  ASSUME NEW row \in IncidentRows
  PROVE  /\ Confirm(row) \in IncidentRows
         /\ Confirm(row).status \in Statuses
         /\ Confirm(row).revision = row.revision + 1
         /\ Recover(row) \in IncidentRows
         /\ Recover(row).status \in Statuses
         /\ Recover(row).revision = row.revision + 1
<1>1. Confirmed(row, row.positives + 1) \in Statuses
  <2>1. CASE row.status = "candidate"
    BY <2>1 DEF Confirmed, Statuses, Unresolved
  <2>2. CASE row.status = "recovering"
    BY <2>2 DEF Confirmed, Statuses, Unresolved
  <2>3. CASE row.status \notin {"candidate", "recovering"}
    BY <2>3 DEF Confirmed, Statuses, Unresolved
  <2>4. QED
    BY <2>1, <2>2, <2>3
<1>2. (IF Over(row, row.recoveries + 1) THEN "resolved" ELSE "recovering") \in Statuses
  BY DEF Statuses, Unresolved
<1>3. QED
  BY <1>1, <1>2 DEF Confirm, Recover, IncidentRows

\* A transition that keeps to the revision bound is well typed.
LEMMA TransitionsTyped ==
  ASSUME TypeOK,
         NEW findings \in SUBSET {k \in Keys : Observable(k)},
         NEW t \in Transitions(findings),
         t.row.revision <= MaxRevision
  PROVE  t \in TransitionRows
<1>1. ASSUME NEW i \in Active, t = [id |-> i, row |-> Confirm(incidents[i])]
      PROVE  t \in TransitionRows
  <2>1. i \in Ids /\ incidents[i] \in IncidentRows
    BY <1>1 DEF Active, TypeOK
  <2>2. Confirm(incidents[i]).revision \in 1..MaxRevision
    BY <1>1, <2>1, NextRows, ClassifierAssumption DEF IncidentRows
  <2>3. QED
    BY <1>1, <2>1, <2>2, NextRows DEF TransitionRows, IncidentRows, Confirm
<1>2. ASSUME NEW i \in Active, t = [id |-> i, row |-> Recover(incidents[i])]
      PROVE  t \in TransitionRows
  <2>1. i \in Ids /\ incidents[i] \in IncidentRows
    BY <1>2 DEF Active, TypeOK
  <2>2. Recover(incidents[i]).revision \in 1..MaxRevision
    BY <1>2, <2>1, NextRows, ClassifierAssumption DEF IncidentRows
  <2>3. QED
    BY <1>2, <2>1, <2>2, NextRows DEF TransitionRows, IncidentRows, Recover
<1>3. ASSUME NEW k \in findings, ActiveWith(k) = {},
             t = [id |-> CHOOSE i \in Fresh(k) : TRUE, row |-> FirstRow]
      PROVE  t \in TransitionRows
  <2>1. Fresh(k) # {}
    BY <1>3 DEF Observable
  <2>2. (CHOOSE i \in Fresh(k) : TRUE) \in Ids
    BY <2>1 DEF Fresh
  <2>3. 1 \in 1..MaxRevision
    BY <1>3, ClassifierAssumption DEF FirstRow
  <2>4. QED
    BY <1>3, <2>2, <2>3 DEF TransitionRows, FirstRow, Statuses, Unresolved
<1>4. QED
  BY <1>1, <1>2, <1>3 DEF Transitions

-----------------------------------------------------------------------------
(* Type correctness                                                        *)

\* The initial state is well typed.
LEMMA TypeInit == Init => TypeOK
BY ClassifierAssumption DEF Init, TypeOK, NoRow, IncidentRows, ControlStates

\* A restart, whatever ended the process, keeps the type invariant.
LEMMA TypeRestart ==
  ASSUME TypeOK, NEW p \in Processes, Restart(p), crashes' \in Nat
  PROVE  TypeOK'
BY DEF TypeOK, Restart, ControlStates, dbVars, kafkaVars

\* Every step keeps the type invariant.
LEMMA TypeStep == TypeOK /\ [Next]_vars => TypeOK'
<1> SUFFICES ASSUME TypeOK, [Next]_vars
             PROVE  TypeOK'
  OBVIOUS
<1> USE ClassifierAssumption
<1>1. ASSUME NEW p \in Processes, Fetch(p)
      PROVE  TypeOK'
  <2>1. Pending \subseteq Items
    BY DEF TypeOK, Pending, Recorded, ItemsOf, StateEvents, Items
  <2>2. CASE Pending # {}
    BY <1>1, <2>1, <2>2 DEF Fetch, IsPage, TypeOK, ControlStates, dbVars, kafkaVars
  <2>3. CASE Pending = {}
    BY <1>1, <2>3 DEF Fetch, TypeOK, ControlStates, dbVars, kafkaVars
  <2>4. QED
    BY <2>2, <2>3
<1>2. ASSUME NEW p \in Processes, Send(p)
      PROVE  TypeOK'
  <2>1. PICK x \in queue[p] :
          item' = [item EXCEPT ![p] = x] /\ sent' = sent \union {x}
    BY <1>2 DEF Send
  <2>2. x \in Items
    BY <2>1 DEF TypeOK
  <2>3. QED
    BY <1>2, <2>1, <2>2 DEF Send, TypeOK, ControlStates, dbVars
<1>3. ASSUME NEW p \in Processes, Acknowledge(p)
      PROVE  TypeOK'
  BY <1>3 DEF Acknowledge, TypeOK, ControlStates, dbVars
<1>4. ASSUME NEW p \in Processes, MarkPublished(p)
      PROVE  TypeOK'
  BY <1>4 DEF MarkPublished, TypeOK, ControlStates, kafkaVars
<1>5. ASSUME NEW p \in Processes, Evaluate(p)
      PROVE  TypeOK'
  <2>1. PICK findings \in SUBSET {k \in Keys : Observable(k)} :
          todo' = [todo EXCEPT ![p] = Transitions(findings)]
    BY <1>5 DEF Evaluate
  <2>2. todo'[p] = Transitions(findings)
    BY <2>1 DEF TypeOK
  <2>3. Transitions(findings) \subseteq TransitionRows
    BY <1>5, <2>2, TransitionsTyped DEF Evaluate
  <2>4. QED
    BY <1>5, <2>1, <2>3 DEF Evaluate, TypeOK, ControlStates, dbVars, kafkaVars
<1>6. ASSUME NEW p \in Processes, Persist(p)
      PROVE  TypeOK'
  <2>1. PICK t \in todo[p] :
          /\ incidents' = [incidents EXCEPT ![t.id] = t.row]
          /\ stateEvents' = WithStateEvent(t)
          /\ todo' = [todo EXCEPT ![p] = @ \ {t}]
    BY <1>6 DEF Persist
  <2>2. t \in TransitionRows
    BY <2>1 DEF TypeOK
  <2>3. t.row \in IncidentRows
    BY <2>2 DEF TransitionRows, IncidentRows
  <2>4. stateEvents' \subseteq StateEvents
    BY <2>1, <2>2 DEF WithStateEvent, StateEvents, TransitionRows, TypeOK
  <2>5. QED
    BY <1>6, <2>1, <2>3, <2>4 DEF Persist, TypeOK, ControlStates, kafkaVars
<1>7. ASSUME NEW p \in Processes, Persisted(p)
      PROVE  TypeOK'
  BY <1>7 DEF Persisted, TypeOK, ControlStates, dbVars, kafkaVars
<1>8. ASSUME NEW p \in Processes, PublishFails(p) \/ PersistFails(p) \/ Crash(p)
      PROVE  TypeOK'
  <2>1. Restart(p) /\ crashes' \in Nat
    BY <1>8 DEF PublishFails, PersistFails, Crash, TypeOK
  <2>2. QED
    BY <2>1, TypeRestart
<1>9. ASSUME NEW x \in sent, StoreLate(x)
      PROVE  TypeOK'
  BY <1>9 DEF StoreLate, TypeOK, dbVars
<1>10. CASE UNCHANGED vars
  BY <1>10 DEF vars, TypeOK
<1>11. QED
  BY <1>1, <1>2, <1>3, <1>4, <1>5, <1>6, <1>7, <1>8, <1>9, <1>10 DEF Next, Step

\* Every reachable state of the classifier is well typed, and a process that
\* waits for an acknowledgement or marks a row has an item.
THEOREM TypeCorrect == Spec => []TypeOK
BY TypeInit, TypeStep, PTL DEF Spec

-----------------------------------------------------------------------------
(* The outbox                                                              *)

\* What a process publishes is recorded; what it waits for was sent; what it is
\* about to mark, and what is marked, is in Kafka.
OutboxOK ==
  /\ \A p \in Processes : queue[p] \subseteq Recorded
  /\ \A p \in Processes : pc[p] = "await" => item[p] \in sent
  /\ \A p \in Processes : pc[p] = "mark" => item[p] \in topic
  /\ sent \subseteq Recorded
  /\ topic \subseteq sent
  /\ published \subseteq topic

IInv == TypeOK /\ OutboxOK

\* The outbox starts in order.
LEMMA InvInit == Init => IInv
BY TypeInit DEF Init, IInv, OutboxOK

\* A row of the outbox table is only ever added.
LEMMA RecordedGrows ==
  ASSUME NEW t \in TransitionRows
  PROVE  ItemsOf(WithStateEvent(t)) = Recorded \union {<<t.id, t.row.revision>>}
<1> DEFINE e == [id |-> t.id, revision |-> t.row.revision, status |-> t.row.status]
<1>1. CASE <<t.id, t.row.revision>> \in Recorded
  BY <1>1 DEF WithStateEvent, Recorded
<1>2. CASE <<t.id, t.row.revision>> \notin Recorded
  <2>1. WithStateEvent(t) = stateEvents \union {e}
    BY <1>2 DEF WithStateEvent
  <2>2. ItemsOf(stateEvents \union {e}) = ItemsOf(stateEvents) \union {<<e.id, e.revision>>}
    BY Zenon DEF ItemsOf
  <2>3. e.id = t.id /\ e.revision = t.row.revision
    OBVIOUS
  <2>4. QED
    BY <2>1, <2>2, <2>3 DEF Recorded
<1>3. QED
  BY <1>1, <1>2

\* A restart leaves the outbox in order.
LEMMA OutboxRestart ==
  ASSUME IInv, NEW p \in Processes, Restart(p)
  PROVE  OutboxOK'
BY DEF IInv, TypeOK, OutboxOK, Restart, Recorded, ItemsOf, dbVars, kafkaVars

\* Every step keeps the outbox in order.
LEMMA InvStep == IInv /\ [Next]_vars => IInv'
<1> SUFFICES ASSUME IInv, [Next]_vars
             PROVE  OutboxOK'
  BY TypeStep DEF IInv
<1>1. ASSUME NEW p \in Processes, Fetch(p)
      PROVE  OutboxOK'
  <2>1. Recorded' = Recorded
    BY <1>1 DEF Fetch, Recorded, ItemsOf, dbVars
  <2>2. \A q \in Processes : queue'[q] \subseteq Recorded
    BY <1>1 DEF Fetch, IsPage, Pending, IInv, OutboxOK, TypeOK
  <2>3. \A q \in Processes : pc'[q] \in {"await", "mark"} => pc'[q] = pc[q]
    BY <1>1 DEF Fetch, IInv, TypeOK
  <2>4. QED
    BY <1>1, <2>1, <2>2, <2>3 DEF Fetch, IInv, OutboxOK, dbVars, kafkaVars
<1>2. ASSUME NEW p \in Processes, Send(p)
      PROVE  OutboxOK'
  <2>1. PICK x \in queue[p] :
          item' = [item EXCEPT ![p] = x] /\ sent' = sent \union {x}
    BY <1>2 DEF Send
  <2>2. x \in Recorded /\ Recorded' = Recorded
    BY <1>2, <2>1 DEF Send, IInv, OutboxOK, Recorded, ItemsOf, dbVars
  <2>3. QED
    BY <1>2, <2>1, <2>2 DEF Send, IInv, TypeOK, OutboxOK, dbVars
<1>3. ASSUME NEW p \in Processes, Acknowledge(p)
      PROVE  OutboxOK'
  BY <1>3 DEF Acknowledge, IInv, TypeOK, OutboxOK, Recorded, ItemsOf, dbVars
<1>4. ASSUME NEW p \in Processes, MarkPublished(p)
      PROVE  OutboxOK'
  BY <1>4 DEF MarkPublished, IInv, TypeOK, OutboxOK, Recorded, ItemsOf, kafkaVars
<1>5. ASSUME NEW p \in Processes, Evaluate(p) \/ Persisted(p)
      PROVE  OutboxOK'
  <2>1. CASE Evaluate(p)
    BY <2>1 DEF Evaluate, IInv, TypeOK, OutboxOK, Recorded, ItemsOf, dbVars, kafkaVars
  <2>2. CASE Persisted(p)
    BY <2>2 DEF Persisted, IInv, TypeOK, OutboxOK, Recorded, ItemsOf, dbVars, kafkaVars
  <2>3. QED
    BY <1>5, <2>1, <2>2
<1>6. ASSUME NEW p \in Processes, Persist(p)
      PROVE  OutboxOK'
  <2>1. PICK t \in todo[p] : stateEvents' = WithStateEvent(t)
    BY <1>6 DEF Persist
  <2>2. t \in TransitionRows
    BY <2>1 DEF IInv, TypeOK
  <2>3. Recorded \subseteq Recorded'
    BY <2>1, <2>2, RecordedGrows DEF Recorded
  <2>4. QED
    BY <1>6, <2>3 DEF Persist, IInv, OutboxOK, kafkaVars
<1>7. ASSUME NEW p \in Processes, PublishFails(p) \/ PersistFails(p) \/ Crash(p)
      PROVE  OutboxOK'
  BY <1>7, OutboxRestart DEF PublishFails, PersistFails, Crash
<1>8. ASSUME NEW x \in sent, StoreLate(x)
      PROVE  OutboxOK'
  BY <1>8 DEF StoreLate, IInv, OutboxOK, Recorded, ItemsOf, dbVars
<1>9. CASE UNCHANGED vars
  BY <1>9 DEF vars, IInv, OutboxOK, Recorded, ItemsOf
<1>10. QED
  BY <1>1, <1>2, <1>3, <1>4, <1>5, <1>6, <1>7, <1>8, <1>9 DEF Next, Step

\* The inductive invariant holds in every reachable state.
LEMMA Invariant == Spec => []IInv
BY InvInit, InvStep, PTL DEF Spec

-----------------------------------------------------------------------------
(* Refinement                                                              *)

\* Every step of the classifier is a step of the abstract outbox or leaves what
\* it shows unchanged.
LEMMA DeliveryStep == IInv /\ IInv' /\ [Next]_vars => [Delivery!Next]_Delivery!vars
<1> SUFFICES ASSUME IInv, IInv', [Next]_vars
             PROVE  [Delivery!Next]_Delivery!vars
  OBVIOUS
<1> USE DEF Delivery!vars
<1>1. ASSUME NEW p \in Processes, Acknowledge(p)
      PROVE  [Delivery!Next]_Delivery!vars
  <2>1. item[p] \in Items /\ item[p] \in Recorded
    BY <1>1 DEF Acknowledge, IInv, TypeOK, OutboxOK
  <2>2. Recorded' = Recorded
    BY <1>1 DEF Acknowledge, Recorded, ItemsOf, dbVars
  <2>3. Delivery!Publish(item[p])
    BY <1>1, <2>1, <2>2 DEF Acknowledge, Delivery!Publish, dbVars
  <2>4. QED
    BY <2>1, <2>3 DEF Delivery!Next
<1>2. ASSUME NEW p \in Processes, MarkPublished(p)
      PROVE  [Delivery!Next]_Delivery!vars
  <2>1. item[p] \in Items /\ item[p] \in topic
    BY <1>2 DEF MarkPublished, IInv, TypeOK, OutboxOK
  <2>2. Recorded' = Recorded
    BY <1>2 DEF MarkPublished, Recorded, ItemsOf
  <2>3. Delivery!Settle(item[p])
    BY <1>2, <2>1, <2>2 DEF MarkPublished, Delivery!Settle, kafkaVars
  <2>4. QED
    BY <2>1, <2>3 DEF Delivery!Next
<1>3. ASSUME NEW p \in Processes, Persist(p)
      PROVE  [Delivery!Next]_Delivery!vars
  <2>1. PICK t \in todo[p] : stateEvents' = WithStateEvent(t)
    BY <1>3 DEF Persist
  <2>2. t \in TransitionRows
    BY <2>1 DEF IInv, TypeOK
  <2> DEFINE x == <<t.id, t.row.revision>>
  <2>3. Recorded' = Recorded \union {x}
    BY <2>1, <2>2, RecordedGrows DEF Recorded
  <2>4. x \in Items
    BY <2>2 DEF Items, TransitionRows
  <2>5. UNCHANGED <<topic, published>>
    BY <1>3 DEF Persist, kafkaVars
  <2>6. CASE x \in Recorded
    BY <2>3, <2>5, <2>6
  <2>7. CASE x \notin Recorded
    BY <2>3, <2>4, <2>5, <2>7 DEF Delivery!Next, Delivery!Accept
  <2>8. QED
    BY <2>6, <2>7
<1>4. ASSUME NEW x \in sent, StoreLate(x)
      PROVE  [Delivery!Next]_Delivery!vars
  <2>1. x \in Items /\ x \in Recorded
    BY <1>4 DEF IInv, TypeOK, OutboxOK
  <2>2. Recorded' = Recorded
    BY <1>4 DEF StoreLate, Recorded, ItemsOf, dbVars
  <2>3. Delivery!Publish(x)
    BY <1>4, <2>1, <2>2 DEF StoreLate, Delivery!Publish, dbVars
  <2>4. QED
    BY <2>1, <2>3 DEF Delivery!Next
<1>5. ASSUME NEW p \in Processes,
             \/ Fetch(p) \/ Send(p) \/ Evaluate(p) \/ Persisted(p)
             \/ PublishFails(p) \/ PersistFails(p) \/ Crash(p)
      PROVE  [Delivery!Next]_Delivery!vars
  <2>1. UNCHANGED dbVars /\ topic' = topic
    BY <1>5 DEF Fetch, Send, Evaluate, Persisted, PublishFails, PersistFails, Crash,
      Restart, kafkaVars
  <2>2. QED
    BY <2>1 DEF Recorded, ItemsOf, dbVars
<1>6. CASE UNCHANGED vars
  BY <1>6 DEF vars, Recorded, ItemsOf
<1>7. QED
  BY <1>1, <1>2, <1>3, <1>4, <1>5, <1>6 DEF Next, Step

\* The classifier's PostgreSQL outbox implements the abstract promise: no
\* committed revision is ever lost, nothing that was not committed is published,
\* and only what Kafka stores is marked published.
THEOREM OutboxRefinesDelivery == Spec => ImplementsDurableDelivery
<1>1. Init => Delivery!Init
  BY DEF Init, Delivery!Init, Recorded, ItemsOf
<1>2. QED
  BY <1>1, Invariant, DeliveryStep, PTL DEF Spec, ImplementsDurableDelivery, Delivery!Spec

-----------------------------------------------------------------------------
(* The history of an incident, with one process                            *)

\* Two processes that read the same row compute the same revision, so what follows
\* is about one.
OneProcess == \A p, q \in Processes : p = q

RowsKnown ==
  \A i \in Ids :
    \/ incidents[i] = NoRow
    \/ incidents[i].status \in Statuses /\ incidents[i].revision \in Nat \ {0}

OneActive == \A i, j \in Active : i[1] = j[1] => i = j

\* HistoryComplete, an event and a revision at a time.
EventsKnown ==
  /\ \A e \in stateEvents :
       /\ e.revision \in 1..incidents[e.id].revision
       /\ e.revision = incidents[e.id].revision => e.status = incidents[e.id].status
  /\ \A i \in Ids : \A r \in 1..incidents[i].revision :
       \E e \in stateEvents : e.id = i /\ e.revision = r
  /\ \A e, f \in stateEvents : e.id = f.id /\ e.revision = f.revision => e = f

\* A transition to persist is the next revision of an incident that no other one
\* with its key competes with, and all that was recorded of it is published.
NextRevision(t) ==
  /\ t.row.revision = incidents[t.id].revision + 1
  /\ \A i \in Active : i[1] = t.id[1] => i = t.id
  /\ IF incidents[t.id] = NoRow
       THEN t.row.status = "candidate"
       ELSE <<incidents[t.id].status, t.row.status>> \in LifecycleEdges
  /\ \A r \in 1..incidents[t.id].revision : <<t.id, r>> \in published

TodoKnown ==
  \A p \in Processes :
    /\ \A t \in todo[p] : NextRevision(t)
    /\ \A t, u \in todo[p] : t.id[1] = u.id[1] => t = u

\* Only the last revision of an incident may be unpublished.
EarlierPublished ==
  \A e \in stateEvents : \A r \in 1..(e.revision - 1) : <<e.id, r>> \in published

\* An evaluation begins when nothing waits in the outbox.
QuietBefore == \A p \in Processes : pc[p] = "evaluate" => Pending = {}

HInv ==
  /\ RowsKnown /\ OneActive /\ EventsKnown /\ HistoryFollowsLifecycle
  /\ TodoKnown /\ EarlierPublished /\ QuietBefore

\* Steps that neither evaluate nor persist.
LEMMA HistoryKeeps ==
  ASSUME TypeOK, HInv, UNCHANGED <<incidents, stateEvents>>, published \subseteq published',
         \A p \in Processes : todo'[p] \subseteq todo[p],
         \A p \in Processes : pc'[p] = "evaluate" => pc[p] = "evaluate" \/ Pending = {}
  PROVE  HInv'
<1>1. /\ Active' = Active /\ Recorded' = Recorded
      /\ RowsKnown' /\ OneActive' /\ EventsKnown' /\ HistoryFollowsLifecycle'
  BY DEF HInv, Active, RowsKnown, OneActive, EventsKnown, HistoryFollowsLifecycle, Recorded,
    ItemsOf
<1>2. TodoKnown'
  BY <1>1 DEF HInv, TodoKnown, NextRevision
<1>3. EarlierPublished'
  BY DEF HInv, EarlierPublished
<1>4. QuietBefore'
  <2>1. Pending = {} => Pending' = {}
    BY <1>1 DEF Pending
  <2>2. QED
    BY <2>1 DEF HInv, QuietBefore
<1>5. QED
  BY <1>1, <1>2, <1>3, <1>4 DEF HInv

\* The engine follows the diagram of the lifecycle.
LEMMA NextStatus ==
  ASSUME NEW row \in IncidentRows, row.status \in Unresolved
  PROVE  /\ <<row.status, Confirm(row).status>> \in LifecycleEdges
         /\ <<row.status, Recover(row).status>> \in LifecycleEdges
<1>1. Confirm(row).status = Confirmed(row, row.positives + 1)
  BY DEF Confirm
<1>2. <<row.status, Confirmed(row, row.positives + 1)>> \in LifecycleEdges
  <2>1. CASE row.status = "candidate"
    BY <2>1 DEF Confirmed, LifecycleEdges
  <2>2. CASE row.status = "recovering"
    BY <2>2 DEF Confirmed, LifecycleEdges
  <2>3. CASE row.status \in {"open", "ongoing"}
    BY <2>3 DEF Confirmed, LifecycleEdges
  <2>4. QED
    BY <2>1, <2>2, <2>3 DEF Unresolved
<1>3. <<row.status, Recover(row).status>> \in LifecycleEdges
  <2>1. CASE row.status = "candidate"
    BY <2>1 DEF Recover, Over, LifecycleEdges
  <2>2. CASE row.status = "recovering"
    BY <2>2 DEF Recover, Over, LifecycleEdges
  <2>3. CASE row.status \in {"open", "ongoing"}
    BY <2>3 DEF Recover, Over, LifecycleEdges
  <2>4. QED
    BY <2>1, <2>2, <2>3 DEF Unresolved
<1>4. QED
  BY <1>1, <1>2, <1>3

\* What an evaluation that begins with an empty outbox computes.
LEMMA TransitionsKnown ==
  ASSUME TypeOK, HInv, Pending = {},
         NEW findings \in SUBSET {k \in Keys : Observable(k)}
  PROVE  /\ \A t \in Transitions(findings) : NextRevision(t)
         /\ \A t, u \in Transitions(findings) : t.id[1] = u.id[1] => t = u
<1>1. ASSUME NEW i \in Ids, NEW r \in 1..incidents[i].revision
      PROVE  <<i, r>> \in published
  <2>1. PICK e \in stateEvents : e.id = i /\ e.revision = r
    BY <1>1 DEF HInv, EventsKnown
  <2>2. <<i, r>> \in Recorded
    BY <2>1 DEF Recorded, ItemsOf
  <2>3. QED
    BY <2>2 DEF Pending
<1>2. ASSUME NEW i \in Active
      PROVE  /\ NextRevision([id |-> i, row |-> Confirm(incidents[i])])
             /\ NextRevision([id |-> i, row |-> Recover(incidents[i])])
  <2>1. i \in Ids /\ incidents[i] \in IncidentRows /\ incidents[i].status \in Unresolved
    BY DEF Active, TypeOK
  <2>2. incidents[i] # NoRow
    BY <2>1 DEF NoRow, Unresolved
  <2>3. \A j \in Active : j[1] = i[1] => j = i
    BY DEF HInv, OneActive
  <2>4. QED
    BY <1>1, <2>1, <2>2, <2>3, NextRows, NextStatus DEF NextRevision
<1>3. ASSUME NEW k \in findings, ActiveWith(k) = {}
      PROVE  /\ (CHOOSE i \in Fresh(k) : TRUE)[1] = k
             /\ NextRevision([id |-> CHOOSE i \in Fresh(k) : TRUE, row |-> FirstRow])
  <2>1. PICK i : i = CHOOSE j \in Fresh(k) : TRUE
    OBVIOUS
  <2>2. Fresh(k) # {}
    BY <1>3 DEF Observable
  <2>3. i \in Fresh(k)
    BY <2>1, <2>2
  <2>4. i \in Ids /\ i[1] = k /\ incidents[i] = NoRow
    BY <2>3 DEF Fresh
  <2>5. \A j \in Active : j[1] # k
    BY <1>3 DEF ActiveWith
  <2>6. NoRow.revision = 0 /\ FirstRow.revision = 1 /\ FirstRow.status = "candidate"
    BY DEF NoRow, FirstRow
  <2>7. NextRevision([id |-> i, row |-> FirstRow])
    BY <2>4, <2>5, <2>6 DEF NextRevision
  <2>8. QED
    BY <2>1, <2>4, <2>7
<1>4. ASSUME NEW t \in Transitions(findings)
      PROVE  NextRevision(t)
  BY <1>2, <1>3, <1>4 DEF Transitions
<1>5. ASSUME NEW t \in Transitions(findings), NEW u \in Transitions(findings),
             t.id[1] = u.id[1]
      PROVE  t = u
  <2> DEFINE Seen(v) == v.id \in Active /\ v.id[1] \in findings
                         /\ v = [id |-> v.id, row |-> Confirm(incidents[v.id])]
             Gone(v) == v.id \in Active /\ v.id[1] \notin findings
                         /\ v = [id |-> v.id, row |-> Recover(incidents[v.id])]
             New(v) == \E k \in findings :
                         /\ ActiveWith(k) = {} /\ v.id[1] = k
                         /\ v = [id |-> CHOOSE i \in Fresh(k) : TRUE, row |-> FirstRow]
  <2>1. ASSUME NEW v \in Transitions(findings)
        PROVE  Seen(v) \/ Gone(v) \/ New(v)
    BY <1>3, <2>1 DEF Transitions
  <2>2. \A i, j \in Active : i[1] = j[1] => i = j
    BY DEF HInv, OneActive
  <2>3. ASSUME NEW v, NEW w, New(v), w.id \in Active
        PROVE  v.id[1] # w.id[1]
    BY <2>3 DEF ActiveWith
  <2>4. CASE New(t) /\ New(u)
    BY <1>5, <2>4
  <2>5. QED
    BY <1>5, <2>1, <2>2, <2>3, <2>4
<1>6. QED
  BY <1>4, <1>5

\* A transition that is persisted adds one event at the end of its history.
LEMMA PersistKeepsHistory ==
  ASSUME TypeOK, TypeOK', IInv, OneProcess, HInv, NEW p \in Processes, Persist(p)
  PROVE  HInv'
<1>1. PICK t \in todo[p] : /\ ~ViolatesActiveKey(t)
                           /\ incidents' = [incidents EXCEPT ![t.id] = t.row]
                           /\ stateEvents' = WithStateEvent(t)
                           /\ todo' = [todo EXCEPT ![p] = @ \ {t}]
  BY DEF Persist
<1>2. PICK id \in Ids, row \in [status : Statuses, revision : 1..MaxRevision,
                                positives : Nat, recoveries : Nat] :
             t = [id |-> id, row |-> row]
  BY <1>1 DEF TypeOK, TransitionRows
<1>3. t.id = id /\ t.row = row
  BY <1>2
<1>4. NextRevision(t)
  BY <1>1 DEF HInv, TodoKnown
<1>5. /\ incidents'[id] = row
      /\ \A i \in Ids \ {id} : incidents'[i] = incidents[i]
  BY <1>1, <1>2, <1>3 DEF TypeOK
<1>6. /\ row.revision = incidents[id].revision + 1
      /\ incidents[id].revision \in Nat /\ row.revision \in Nat
      /\ \A i \in Ids : incidents[i].revision \in Nat
  BY <1>2, <1>3, <1>4, ClassifierAssumption DEF NextRevision, TypeOK, IncidentRows
<1> DEFINE new == [id |-> id, revision |-> row.revision, status |-> row.status]
<1>7. stateEvents' = stateEvents \union {new}
  <2>1. <<id, row.revision>> \notin Recorded
    <3>1. \A e \in stateEvents : e.id = id => e.revision <= incidents[id].revision
      BY <1>6 DEF HInv, EventsKnown
    <3>2. QED
      BY <1>6, <3>1 DEF Recorded, ItemsOf
  <2>2. QED
    BY <1>1, <1>3, <2>1 DEF WithStateEvent
<1>8. new.id = id /\ new.revision = row.revision /\ new.status = row.status
  OBVIOUS
<1> HIDE DEF new
<1>9. \A e \in stateEvents : e.id \in Ids /\ e.revision \in Nat
  BY DEF TypeOK, StateEvents
<1>10. RowsKnown'
  BY <1>2, <1>5, <1>6 DEF HInv, RowsKnown
<1>11. Active' \subseteq Active \union {id} /\ \A i \in Active' : i[1] = id[1] => i = id
  <2>1. \A i \in Active' : i \in Ids /\ (i = id \/ i \in Active)
    BY <1>5 DEF Active
  <2>2. QED
    BY <1>3, <1>4, <2>1 DEF NextRevision
<1>12. OneActive'
  BY <1>11 DEF HInv, OneActive
<1>13. EventsKnown'
  <2>1. ASSUME NEW e \in stateEvents'
        PROVE  /\ e.revision \in 1..incidents'[e.id].revision
               /\ e.revision = incidents'[e.id].revision => e.status = incidents'[e.id].status
    <3>1. CASE e = new
      BY <1>2, <1>5, <1>8, <3>1
    <3>2. CASE e \in stateEvents
      <4>1. /\ e.revision \in 1..incidents[e.id].revision
            /\ e.revision = incidents[e.id].revision => e.status = incidents[e.id].status
        BY <3>2 DEF HInv, EventsKnown
      <4>2. QED
        BY <1>5, <1>6, <1>9, <3>2, <4>1
    <3>3. QED
      BY <1>7, <3>1, <3>2
  <2>2. ASSUME NEW i \in Ids, NEW r \in 1..incidents'[i].revision
        PROVE  \E e \in stateEvents' : e.id = i /\ e.revision = r
    <3>1. CASE i = id /\ r = row.revision
      BY <1>7, <1>8, <3>1
    <3>2. CASE ~(i = id /\ r = row.revision)
      <4>1. r \in 1..incidents[i].revision
        BY <1>5, <1>6, <2>2, <3>2
      <4>2. QED
        BY <1>7, <4>1 DEF HInv, EventsKnown
    <3>3. QED
      BY <3>1, <3>2
  <2>3. ASSUME NEW e \in stateEvents, e.id = new.id
        PROVE  e.revision # new.revision
    BY <1>6, <1>8, <2>3 DEF HInv, EventsKnown
  <2>4. \A e, f \in stateEvents' : e.id = f.id /\ e.revision = f.revision => e = f
    BY <1>7, <2>3 DEF HInv, EventsKnown
  <2>5. QED
    BY <2>1, <2>2, <2>4 DEF EventsKnown
<1>14. HistoryFollowsLifecycle'
  <2>1. ASSUME new.revision = 1
        PROVE  new.status = "candidate"
    <3>1. incidents[id].revision = 0
      BY <1>6, <1>8, <2>1
    <3>2. incidents[id] = NoRow
      BY <3>1 DEF HInv, RowsKnown
    <3>3. QED
      BY <1>3, <1>4, <1>8, <3>2 DEF NextRevision
  <2>2. ASSUME NEW e \in stateEvents, e.id = id, row.revision = e.revision + 1
        PROVE  <<e.status, row.status>> \in LifecycleEdges
    <3>1. e.revision = incidents[id].revision /\ e.revision >= 1
      BY <1>6, <1>9, <2>2 DEF HInv, EventsKnown
    <3>2. e.status = incidents[id].status
      BY <2>2, <3>1 DEF HInv, EventsKnown
    <3>3. incidents[id] # NoRow
      BY <3>1 DEF NoRow
    <3>4. QED
      BY <1>3, <1>4, <3>2, <3>3 DEF NextRevision
  <2>3. ASSUME NEW f \in stateEvents, f.id = id
        PROVE  f.revision # row.revision + 1
    BY <1>6, <2>3 DEF HInv, EventsKnown
  <2>4. row.revision # row.revision + 1
    BY <1>6
  <2>5. ASSUME NEW e \in stateEvents'
        PROVE  /\ e.revision = 1 => e.status = "candidate"
               /\ \A f \in stateEvents' :
                    f.id = e.id /\ f.revision = e.revision + 1
                      => <<e.status, f.status>> \in LifecycleEdges
    <3>1. CASE e = new
      BY <1>7, <1>8, <2>1, <2>3, <2>4, <3>1
    <3>2. CASE e \in stateEvents
      BY <1>7, <1>8, <2>2, <3>2 DEF HInv, HistoryFollowsLifecycle
    <3>3. QED
      BY <1>7, <3>1, <3>2
  <2>6. QED
    BY <2>5 DEF HistoryFollowsLifecycle
<1>15. published' = published /\ pc' = pc
  BY DEF Persist
<1>16. TodoKnown'
  <2>1. \A q \in Processes : q = p
    BY DEF OneProcess
  <2>2. todo'[p] = todo[p] \ {t}
    BY <1>1 DEF TypeOK
  <2>3. ASSUME NEW u \in todo'[p]
        PROVE  NextRevision(u)'
    <3>1. u \in todo[p] /\ u # t /\ NextRevision(u) /\ u.id \in Ids
      BY <2>2, <2>3 DEF HInv, TodoKnown, TypeOK, TransitionRows
    <3>2. u.id[1] # id[1]
      BY <1>1, <1>3, <3>1 DEF HInv, TodoKnown
    <3>3. incidents'[u.id] = incidents[u.id]
      BY <1>5, <3>1, <3>2
    <3>4. \A i \in Active' : i[1] = u.id[1] => i \in Active
      BY <1>11, <3>2
    <3>5. QED
      BY <1>15, <3>1, <3>3, <3>4 DEF NextRevision
  <2>4. QED
    BY <2>1, <2>2, <2>3 DEF HInv, TodoKnown
<1>17. EarlierPublished'
  <2>1. \A r \in 1..(new.revision - 1) : <<new.id, r>> \in published
    BY <1>3, <1>4, <1>6, <1>8 DEF NextRevision
  <2>2. QED
    BY <1>7, <1>15, <2>1 DEF HInv, EarlierPublished
<1>18. QuietBefore'
  BY <1>15 DEF OneProcess, Persist, QuietBefore
<1>19. QED
  BY <1>10, <1>12, <1>13, <1>14, <1>16, <1>17, <1>18 DEF HInv

\* Every step of one process keeps the history in order.
LEMMA HistoryStep ==
  ASSUME IInv, IInv', OneProcess, HInv, [Next]_vars
  PROVE  HInv'
<1> USE DEF IInv
<1>1. ASSUME NEW p \in Processes, Fetch(p)
      PROVE  HInv'
  <2>1. \A q \in Processes : pc'[q] = "evaluate" => pc[q] = "evaluate" \/ Pending = {}
    BY <1>1 DEF Fetch, TypeOK
  <2>2. QED
    BY <1>1, <2>1, HistoryKeeps DEF Fetch, dbVars
<1>2. ASSUME NEW p \in Processes,
             Send(p) \/ Acknowledge(p) \/ MarkPublished(p) \/ Persisted(p)
      PROVE  HInv'
  <2>1. \A q \in Processes : pc'[q] = "evaluate" => pc[q] = "evaluate"
    BY <1>2 DEF Send, Acknowledge, MarkPublished, Persisted, TypeOK
  <2>2. /\ UNCHANGED <<incidents, stateEvents, todo>>
        /\ published \subseteq published'
    BY <1>2 DEF Send, Acknowledge, MarkPublished, Persisted, dbVars
  <2>3. QED
    BY <2>1, <2>2, HistoryKeeps
<1>3. ASSUME NEW p \in Processes, Evaluate(p)
      PROVE  HInv'
  <2>1. PICK findings \in SUBSET {k \in Keys : Observable(k)} :
          todo' = [todo EXCEPT ![p] = Transitions(findings)]
    BY <1>3 DEF Evaluate
  <2>2. Pending = {}
    BY <1>3 DEF HInv, QuietBefore, Evaluate
  <2>3. todo'[p] = Transitions(findings) /\ \A q \in Processes : q = p
    BY <2>1 DEF TypeOK, OneProcess
  <2>4. UNCHANGED <<incidents, stateEvents, published>>
    BY <1>3 DEF Evaluate, dbVars
  <2>5. /\ Active' = Active
        /\ RowsKnown' /\ OneActive' /\ EventsKnown' /\ HistoryFollowsLifecycle'
        /\ EarlierPublished'
    BY <2>4 DEF HInv, Active, RowsKnown, OneActive, EventsKnown, HistoryFollowsLifecycle,
      EarlierPublished
  <2>6. \A t \in todo'[p] : NextRevision(t)'
    BY <2>2, <2>3, <2>4, <2>5, TransitionsKnown DEF NextRevision
  <2>7. TodoKnown'
    BY <2>2, <2>3, <2>6, TransitionsKnown DEF TodoKnown
  <2>8. QuietBefore'
    BY <1>3, <2>3 DEF Evaluate, QuietBefore, TypeOK
  <2>9. QED
    BY <2>5, <2>7, <2>8 DEF HInv
<1>4. ASSUME NEW p \in Processes, Persist(p)
      PROVE  HInv'
  BY <1>4, PersistKeepsHistory
<1>5. ASSUME NEW p \in Processes, Restart(p)
      PROVE  HInv'
  <2>1. \A q \in Processes : /\ todo'[q] \subseteq todo[q]
                             /\ pc'[q] = "evaluate" => pc[q] = "evaluate"
    BY <1>5 DEF Restart, TypeOK
  <2>2. QED
    BY <1>5, <2>1, HistoryKeeps DEF Restart, dbVars
<1>6. ASSUME NEW p \in Processes, PublishFails(p) \/ PersistFails(p) \/ Crash(p)
      PROVE  HInv'
  BY <1>5, <1>6 DEF PublishFails, PersistFails, Crash
<1>7. ASSUME NEW x \in sent, StoreLate(x)
      PROVE  HInv'
  BY <1>7, HistoryKeeps DEF StoreLate, dbVars
<1>8. CASE UNCHANGED vars
  BY <1>8, HistoryKeeps DEF vars
<1>9. QED
  BY <1>1, <1>2, <1>3, <1>4, <1>6, <1>7, <1>8 DEF Next, Step

LEMMA HistoryInit == Init => HInv
<1> SUFFICES ASSUME Init
             PROVE  HInv
  OBVIOUS
<1>1. /\ Active = {} /\ Recorded = {}
      /\ \A i \in Ids : incidents[i] = NoRow
  BY DEF Init, Active, NoRow, Unresolved, Recorded, ItemsOf
<1>2. RowsKnown /\ OneActive /\ HistoryFollowsLifecycle /\ EarlierPublished
  BY <1>1 DEF Init, RowsKnown, OneActive, HistoryFollowsLifecycle, EarlierPublished
<1>3. EventsKnown
  BY <1>1 DEF Init, EventsKnown, NoRow
<1>4. TodoKnown /\ QuietBefore
  BY DEF Init, TodoKnown, QuietBefore
<1>5. QED
  BY <1>2, <1>3, <1>4 DEF HInv

LEMMA HistoryInvariant ==
  ASSUME OneProcess
  PROVE  Spec => []HInv
<1>1. IInv /\ IInv' /\ HInv /\ [Next]_vars => HInv'
  BY HistoryStep
<1>2. QED
  BY <1>1, HistoryInit, Invariant, PTL DEF Spec

\* The outbox of one process holds exactly the revisions of every incident, each
\* once, through crashes between its transactions.
THEOREM HistorySafe ==
  ASSUME OneProcess
  PROVE  Spec => []HistoryComplete
<1>1. ASSUME IInv, HInv
      PROVE  HistoryComplete
  <2>1. \A i \in Ids : {e.revision : e \in {f \in stateEvents : f.id = i}}
                         = 1..incidents[i].revision
    BY <1>1 DEF HInv, EventsKnown
  <2>2. QED
    BY <1>1, <2>1 DEF HInv, EventsKnown, HistoryComplete
<1>2. QED
  BY <1>1, Invariant, HistoryInvariant, PTL

\* The states recorded of an incident are a path of the documented lifecycle, for
\* all thresholds.
THEOREM LifecycleSafe ==
  ASSUME OneProcess
  PROVE  Spec => []HistoryFollowsLifecycle
<1>1. HInv => HistoryFollowsLifecycle
  BY DEF HInv
<1>2. QED
  BY <1>1, HistoryInvariant, PTL

\* One process never meets the unique index of active keys.
THEOREM ConflictsSafe ==
  ASSUME OneProcess
  PROVE  Spec => []NeverConflicts
<1>1. HInv => NeverConflicts
  BY DEF HInv, TodoKnown, NextRevision, NeverConflicts, ViolatesActiveKey, Active
<1>2. QED
  BY <1>1, HistoryInvariant, PTL

\* Kafka has every earlier revision of an incident before the first copy of one.
THEOREM OrderSafe ==
  ASSUME OneProcess
  PROVE  Spec => []PublishedInOrder
<1>1. ASSUME IInv, HInv, NEW x \in topic, NEW r \in 1..(x[2] - 1)
      PROVE  <<x[1], r>> \in topic
  <2>1. x \in Recorded
    BY <1>1 DEF IInv, OutboxOK
  <2>2. PICK e \in stateEvents : x = <<e.id, e.revision>>
    BY <2>1 DEF Recorded, ItemsOf
  <2>3. <<e.id, r>> \in published
    BY <1>1, <2>2 DEF HInv, EarlierPublished
  <2>4. QED
    BY <1>1, <2>2, <2>3 DEF IInv, OutboxOK
<1>2. IInv /\ HInv => PublishedInOrder
  BY <1>1 DEF PublishedInOrder
<1>3. QED
  BY <1>2, Invariant, HistoryInvariant, PTL

\* An incident's row is only ever replaced by one of a higher revision: a process
\* that alone reads and writes never overwrites what it has not read.
THEOREM RevisionsGrow ==
  ASSUME OneProcess
  PROVE  Spec => RevisionsIncrease
<1> DEFINE Grow == \A i \in Ids : incidents'[i] # incidents[i]
                                    => incidents'[i].revision > incidents[i].revision
<1>1. ASSUME TypeOK, HInv, NEW p \in Processes, Persist(p)
      PROVE  Grow
  <2>1. PICK t \in todo[p] : incidents' = [incidents EXCEPT ![t.id] = t.row]
    BY <1>1 DEF Persist
  <2>2. t.row.revision = incidents[t.id].revision + 1
    BY <1>1 DEF HInv, TodoKnown, NextRevision
  <2>3. \A i \in Ids : incidents[i].revision \in Nat
    BY <1>1, ClassifierAssumption DEF TypeOK, IncidentRows
  <2>4. QED
    BY <1>1, <2>1, <2>2, <2>3 DEF TypeOK
<1>2. ASSUME NEW p \in Processes, Step(p), ~Persist(p)
      PROVE  incidents' = incidents
  BY <1>2 DEF Step, Fetch, Send, Acknowledge, MarkPublished, Evaluate, Persisted,
    PublishFails, PersistFails, Crash, Restart, dbVars
<1>3. ASSUME TypeOK, HInv, Next
      PROVE  Grow
  <2>1. CASE \E p \in Processes : Step(p)
    BY <1>1, <1>2, <1>3, <2>1
  <2>2. CASE \E x \in sent : StoreLate(x)
    BY <2>2 DEF StoreLate, dbVars
  <2>3. QED
    BY <1>3, <2>1, <2>2 DEF Next
<1>4. TypeOK /\ HInv /\ [Next]_vars => [Grow]_vars
  BY <1>3
<1>5. QED
  BY <1>4, TypeCorrect, HistoryInvariant, PTL DEF Spec, RevisionsIncrease
=============================================================================
