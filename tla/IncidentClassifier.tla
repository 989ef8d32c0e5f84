-------------------------- MODULE IncidentClassifier --------------------------
(***************************************************************************)
(* The incident classifier (services/incident-classifier): one evaluation  *)
(* publishes what the last one left, reads findings and the unresolved     *)
(* incidents, advances each incident by one revision, and publishes the    *)
(* new revisions from a PostgreSQL outbox.                                 *)
(*                                                                         *)
(* Evaluation is a sequence of transactions and sends.  Any exception ends *)
(* the process, which is restarted and begins a new evaluation; several    *)
(* processes may share the database (the "run" service and "once" runs of  *)
(* the same command).                                                      *)
(***************************************************************************)
EXTENDS Integers, FiniteSets

CONSTANTS
  Keys,                 \* incident correlation keys
  Processes,            \* classifier processes on one database
  NoItem,               \* a process publishes nothing
  OpenObservations,     \* ClassifierConfig.open_observations
  ResolveObservations,  \* ClassifierConfig.resolve_observations
  PageSize,             \* LIMIT of pending_publications
  MaxInstances,         \* bound: incidents per key
  MaxRevision,          \* bound: revisions per incident
  MaxCrashes            \* bound: process crashes and database errors

ASSUME ClassifierAssumption ==
  /\ NoItem \notin (Keys \X (1..MaxInstances)) \X (1..MaxRevision)
  /\ OpenObservations \in Nat \ {0}
  /\ ResolveObservations \in Nat \ {0}
  /\ PageSize \in Nat \ {0}
  /\ MaxInstances \in Nat
  /\ MaxRevision \in Nat
  /\ MaxCrashes \in Nat

VARIABLES
  \* PostgreSQL
  incidents,    \* [Ids -> row of network_incidents, or NoRow]
  stateEvents,  \* rows of incident_state_events, published_at aside
  published,    \* the items among them with published_at set
  \* the processes
  pc,           \* [Processes -> control state]
  phase,        \* [Processes -> which publish_pending of evaluate_once runs]
  todo,         \* [Processes -> transitions computed and not yet persisted]
  queue,        \* [Processes -> items of the fetched page still to publish]
  item,         \* [Processes -> the item being published]
  \* Kafka
  sent,         \* items handed to a producer at least once
  topic,        \* items of which network.incidents.v1 stores a copy
  crashes

dbVars == <<incidents, stateEvents, published>>
kafkaVars == <<sent, topic>>
vars == <<incidents, stateEvents, published, pc, phase, todo, queue, item, sent,
          topic, crashes>>

-----------------------------------------------------------------------------
(* Data                                                                    *)

\* An incident is named by its key and a number per key; the code hashes the
\* key and the time of the first evaluation that saw it.
Ids == Keys \X (1..MaxInstances)

\* A revision of an incident: what the event id of a state event is a hash of.
Items == Ids \X (1..MaxRevision)

Unresolved == {"candidate", "open", "ongoing", "recovering"}
Statuses == Unresolved \union {"resolved"}

IncidentRows ==
  [status : Statuses \union {"none"}, revision : Nat, positives : Nat, recoveries : Nat]
NoRow == [status |-> "none", revision |-> 0, positives |-> 0, recoveries |-> 0]

\* A computed transition: the incident and its next row.
TransitionRows ==
  [id : Ids,
   row : [status : Statuses, revision : 1..MaxRevision, positives : Nat, recoveries : Nat]]

\* The columns of incident_state_events that the properties tell apart.
StateEvents == [id : Ids, revision : 1..MaxRevision, status : Statuses]

ControlStates == {"fetch", "publish", "await", "mark", "evaluate", "persist"}

ItemsOf(events) == {<<e.id, e.revision>> : e \in events}
Recorded == ItemsOf(stateEvents)

\* Mutant: a row that was sent once is not sent again.
PendingUntried == Recorded \ (published \union sent)

\* Rows of incident_state_events with published_at NULL.
Pending == Recorded \ published

-----------------------------------------------------------------------------
(* ClassificationEngine.transition                                         *)

\* Mutant: a recovering incident is not loaded.
ActiveUnlessRecovering ==
  {i \in Ids : incidents[i].status \in Unresolved \ {"recovering"}}

\* load_active: the unresolved incidents.
Active == {i \in Ids : incidents[i].status \in Unresolved}

ActiveWith(key) == {i \in Active : i[1] = key}

\* Mutant: the case of a recovering incident is forgotten.
ConfirmedWithoutReturn(row, positives) ==
  IF row.status = "candidate"
    THEN IF positives >= OpenObservations THEN "open" ELSE "candidate"
    ELSE "ongoing"

\* The status of an incident whose finding is seen again.
Confirmed(row, positives) ==
  CASE row.status = "candidate" ->
         IF positives >= OpenObservations THEN "open" ELSE "candidate"
    [] row.status = "recovering" -> "open"
    [] OTHER -> "ongoing"

\* Whether an incident whose finding is gone is over.
Over(row, recoveries) ==
  \/ row.status = "candidate"
  \/ row.status = "recovering" /\ recoveries >= ResolveObservations

Confirm(row) ==
  [status |-> Confirmed(row, row.positives + 1), revision |-> row.revision + 1,
   positives |-> row.positives + 1, recoveries |-> 0]

\* Mutant: the healthy observation is not counted.
RecoverUncounted(row) ==
  [status |-> IF Over(row, row.recoveries) THEN "resolved" ELSE "recovering",
   revision |-> row.revision + 1, positives |-> row.positives,
   recoveries |-> row.recoveries]

\* Mutant: recovery does not make a new revision.
RecoverInPlace(row) ==
  [status |-> IF Over(row, row.recoveries + 1) THEN "resolved" ELSE "recovering",
   revision |-> row.revision, positives |-> row.positives,
   recoveries |-> row.recoveries + 1]

Recover(row) ==
  [status |-> IF Over(row, row.recoveries + 1) THEN "resolved" ELSE "recovering",
   revision |-> row.revision + 1, positives |-> row.positives,
   recoveries |-> row.recoveries + 1]

\* Mutant: revisions are numbered from zero.
FirstRowNumberedZero ==
  [status |-> "candidate", revision |-> 0, positives |-> 1, recoveries |-> 0]

FirstRow == [status |-> "candidate", revision |-> 1, positives |-> 1, recoveries |-> 0]

\* Names no row and no computed transition uses.
Fresh(key) ==
  {i \in Ids : /\ i[1] = key
               /\ incidents[i] = NoRow
               /\ \A p \in Processes : \A t \in todo[p] : t.id # i}

\* One transition for every finding and every active incident.
Transitions(findings) ==
  {[id |-> i, row |-> Confirm(incidents[i])] : i \in {j \in Active : j[1] \in findings}}
  \union
  {[id |-> i, row |-> Recover(incidents[i])] : i \in {j \in Active : j[1] \notin findings}}
  \union
  {[id |-> CHOOSE i \in Fresh(k) : TRUE, row |-> FirstRow] :
     k \in {l \in findings : ActiveWith(l) = {}}}

\* Bound: a finding is observed only while its incident has room for this
\* revision and for those that resolve it (two at least).
Resolution == IF ResolveObservations < 2 THEN 2 ELSE ResolveObservations

Observable(key) ==
  IF ActiveWith(key) = {}
    THEN Fresh(key) # {}
    ELSE \A i \in ActiveWith(key) :
           incidents[i].revision + 1 + Resolution <= MaxRevision

-----------------------------------------------------------------------------
Init ==
  /\ incidents = [i \in Ids |-> NoRow]
  /\ stateEvents = {}
  /\ published = {}
  /\ pc = [p \in Processes |-> "fetch"]
  /\ phase = [p \in Processes |-> "before"]
  /\ todo = [p \in Processes |-> {}]
  /\ queue = [p \in Processes |-> {}]
  /\ item = [p \in Processes |-> NoItem]
  /\ sent = {}
  /\ topic = {}
  /\ crashes = 0

-----------------------------------------------------------------------------
(* publish_pending                                                         *)

\* A page of pending rows: at most PageSize, by event_time.  The times come
\* from the wall clocks of several evaluations (and processes), so the page may
\* hold any of the rows in any order.
IsPage(S) ==
  /\ S \subseteq Pending
  /\ Cardinality(S) <= PageSize
  /\ S # Pending => Cardinality(S) = PageSize

\* pending_publications: read a page; an empty one ends the loop.
Fetch(p) ==
  /\ pc[p] = "fetch"
  /\ \/ /\ Pending # {}
        /\ \E S \in SUBSET Pending :
             /\ IsPage(S)
             /\ queue' = [queue EXCEPT ![p] = S]
        /\ pc' = [pc EXCEPT ![p] = "publish"]
        /\ UNCHANGED phase
     \/ /\ Pending = {}
        /\ IF phase[p] = "before"
             THEN /\ pc' = [pc EXCEPT ![p] = "evaluate"]
                  /\ UNCHANGED phase
             ELSE \* the evaluation is over; the next one begins
                  /\ phase' = [phase EXCEPT ![p] = "before"]
                  /\ UNCHANGED pc
        /\ UNCHANGED queue
  /\ UNCHANGED <<dbVars, todo, item, kafkaVars, crashes>>

\* Mutant: the row is marked without waiting for the acknowledgement.
SendAndForget(p) ==
  /\ pc[p] = "publish"
  /\ \E x \in queue[p] :
       /\ item' = [item EXCEPT ![p] = x]
       /\ sent' = sent \union {x}
  /\ pc' = [pc EXCEPT ![p] = "mark"]
  /\ UNCHANGED <<dbVars, phase, todo, queue, topic, crashes>>

\* IncidentPublisher.publish hands the next row of the page to the producer.
Send(p) ==
  /\ pc[p] = "publish"
  /\ \E x \in queue[p] :
       /\ item' = [item EXCEPT ![p] = x]
       /\ sent' = sent \union {x}
  /\ pc' = [pc EXCEPT ![p] = "await"]
  /\ UNCHANGED <<dbVars, phase, todo, queue, topic, crashes>>

\* Kafka stores the record and acknowledges it in time.
Acknowledge(p) ==
  /\ pc[p] = "await"
  /\ topic' = topic \union {item[p]}
  /\ pc' = [pc EXCEPT ![p] = "mark"]
  /\ UNCHANGED <<dbVars, phase, todo, queue, item, sent, crashes>>

\* A record whose sender gave up, was killed or still waits is stored.
StoreLate(x) ==
  /\ x \in sent \ topic
  /\ topic' = topic \union {x}
  /\ UNCHANGED <<dbVars, pc, phase, todo, queue, item, sent, crashes>>

\* mark_published
MarkPublished(p) ==
  /\ pc[p] = "mark"
  /\ published' = published \union {item[p]}
  /\ queue' = [queue EXCEPT ![p] = @ \ {item[p]}]
  /\ item' = [item EXCEPT ![p] = NoItem]
  /\ pc' = [pc EXCEPT ![p] = IF queue[p] = {item[p]} THEN "fetch" ELSE "publish"]
  /\ UNCHANGED <<incidents, stateEvents, phase, todo, kafkaVars, crashes>>

-----------------------------------------------------------------------------
(* evaluate_once                                                           *)

\* load_snapshot and classify give the findings, load_active the incidents.
Evaluate(p) ==
  /\ pc[p] = "evaluate"
  /\ \E findings \in SUBSET {k \in Keys : Observable(k)} :
       todo' = [todo EXCEPT ![p] = Transitions(findings)]
  /\ \A t \in todo'[p] : t.row.revision <= MaxRevision
  /\ pc' = [pc EXCEPT ![p] = "persist"]
  /\ phase' = [phase EXCEPT ![p] = "after"]
  /\ UNCHANGED <<dbVars, queue, item, kafkaVars, crashes>>

\* Mutant: only what is shown to an operator is put in the outbox.
WithStateEventUnlessCandidate(t) ==
  IF t.row.status = "candidate" \/ <<t.id, t.row.revision>> \in Recorded
    THEN stateEvents
    ELSE stateEvents \union
           {[id |-> t.id, revision |-> t.row.revision, status |-> t.row.status]}

\* uq_network_incidents_active_key: one unresolved row per incident key.
ViolatesActiveKey(t) ==
  /\ t.row.status \in Unresolved
  /\ \E i \in Ids \ {t.id} :
       i[1] = t.id[1] /\ incidents[i].status \in Unresolved

\* The transaction's second insert is ON CONFLICT (event_id) DO NOTHING.
WithStateEvent(t) ==
  IF <<t.id, t.row.revision>> \in Recorded
    THEN stateEvents
    ELSE stateEvents \union
           {[id |-> t.id, revision |-> t.row.revision, status |-> t.row.status]}

\* persist_transition: the row is inserted, or overwritten whatever it holds.
Persist(p) ==
  /\ pc[p] = "persist"
  /\ \E t \in todo[p] :
       /\ ~ViolatesActiveKey(t)
       /\ incidents' = [incidents EXCEPT ![t.id] = t.row]
       /\ stateEvents' = WithStateEvent(t)
       /\ todo' = [todo EXCEPT ![p] = @ \ {t}]
  /\ UNCHANGED <<published, pc, phase, queue, item, kafkaVars, crashes>>

\* Every transition is persisted: the second publish_pending begins.
Persisted(p) ==
  /\ pc[p] = "persist"
  /\ todo[p] = {}
  /\ pc' = [pc EXCEPT ![p] = "fetch"]
  /\ UNCHANGED <<dbVars, phase, todo, queue, item, kafkaVars, crashes>>

-----------------------------------------------------------------------------
(* Failure                                                                 *)

\* The process ends and is started again: its memory is gone.
Restart(p) ==
  /\ pc' = [pc EXCEPT ![p] = "fetch"]
  /\ phase' = [phase EXCEPT ![p] = "before"]
  /\ todo' = [todo EXCEPT ![p] = {}]
  /\ queue' = [queue EXCEPT ![p] = {}]
  /\ item' = [item EXCEPT ![p] = NoItem]
  /\ UNCHANGED <<dbVars, kafkaVars>>

\* Mutant: an acknowledgement that does not come in time is taken for granted.
PublishFailsSilently(p) ==
  /\ pc[p] = "await"
  /\ pc' = [pc EXCEPT ![p] = "mark"]
  /\ UNCHANGED <<dbVars, phase, todo, queue, item, kafkaVars, crashes>>

\* The producer's queue stays full, the delivery fails, or no acknowledgement
\* comes in time: IncidentPublicationError leaves evaluate_once.
PublishFails(p) ==
  /\ pc[p] \in {"publish", "await"}
  /\ Restart(p)
  /\ UNCHANGED crashes

\* A unique violation leaves persist_transition and evaluate_once.
PersistFails(p) ==
  /\ pc[p] = "persist"
  /\ \E t \in todo[p] : ViolatesActiveKey(t)
  /\ Restart(p)
  /\ UNCHANGED crashes

\* The process is killed, or the database fails it.
Crash(p) ==
  /\ crashes < MaxCrashes
  /\ crashes' = crashes + 1
  /\ Restart(p)

-----------------------------------------------------------------------------
Step(p) ==
  \/ Fetch(p)
  \/ Send(p)
  \/ Acknowledge(p)
  \/ MarkPublished(p)
  \/ Evaluate(p)
  \/ Persist(p)
  \/ Persisted(p)
  \/ PublishFails(p)
  \/ PersistFails(p)
  \/ Crash(p)

Next ==
  \/ \E p \in Processes : Step(p)
  \/ \E x \in sent : StoreLate(x)

Spec == Init /\ [][Next]_vars

(***************************************************************************)
(* Fairness.  The service is restarted whenever it ends and its loop runs  *)
(* on; every wait for Kafka ends.  Kafka may refuse or time out any number *)
(* of times, but is not refusing and timing out for ever.                  *)
(***************************************************************************)
Fairness ==
  \A p \in Processes :
    /\ WF_vars(Fetch(p))
    /\ WF_vars(Send(p) \/ Acknowledge(p) \/ PublishFails(p))
    /\ WF_vars(MarkPublished(p))
    /\ WF_vars(Evaluate(p))
    /\ WF_vars(Persist(p) \/ Persisted(p) \/ PersistFails(p))
    /\ SF_vars(Send(p))
    /\ SF_vars(Acknowledge(p))

FairSpec == Spec /\ Fairness

-----------------------------------------------------------------------------
(* Properties                                                              *)

\* Every variable keeps its type, and a process that publishes has an item.
TypeOK ==
  /\ incidents \in [Ids -> IncidentRows]
  /\ stateEvents \subseteq StateEvents
  /\ published \subseteq Items
  /\ pc \in [Processes -> ControlStates]
  /\ phase \in [Processes -> {"before", "after"}]
  /\ todo \in [Processes -> SUBSET TransitionRows]
  /\ queue \in [Processes -> SUBSET Items]
  /\ item \in [Processes -> Items \union {NoItem}]
  /\ \A p \in Processes : pc[p] \in {"await", "mark"} => item[p] \in Items
  /\ sent \subseteq Items
  /\ topic \subseteq Items
  /\ crashes \in Nat

\* "incident_state_events [has] one row per incident revision": the outbox holds
\* exactly the revisions 1..n of an incident whose row is at revision n, each
\* once, and the last carries the row's status.
HistoryComplete ==
  \A i \in Ids :
    /\ {e.revision : e \in {f \in stateEvents : f.id = i}} = 1..incidents[i].revision
    /\ \A e, f \in stateEvents :
         e.id = i /\ f.id = i /\ e.revision = f.revision => e = f
    /\ \A e \in stateEvents :
         e.id = i /\ e.revision = incidents[i].revision => e.status = incidents[i].status

\* The lifecycle drawn in docs/incident-classification.md, for two and more
\* observations before an incident opens or resolves.
LifecycleEdges ==
  {<<"candidate", "candidate">>, <<"candidate", "open">>, <<"candidate", "resolved">>,
   <<"open", "ongoing">>, <<"open", "recovering">>, <<"ongoing", "ongoing">>,
   <<"ongoing", "recovering">>, <<"recovering", "open">>,
   <<"recovering", "recovering">>, <<"recovering", "resolved">>}

\* The sequence of states written to the outbox is a path of that diagram: it
\* starts with a candidate, and nothing follows a resolution.
HistoryFollowsLifecycle ==
  \A e \in stateEvents :
    /\ e.revision = 1 => e.status = "candidate"
    /\ \A f \in stateEvents :
         f.id = e.id /\ f.revision = e.revision + 1
           => <<e.status, f.status>> \in LifecycleEdges

\* Whoever reads the topic sees the first copy of a revision after a copy of
\* every earlier one, whatever was retried, lost or stored late.  It holds for
\* one process, because it evaluates only after publishing all it had left.
PublishedInOrder ==
  \A x \in topic : \A r \in 1..(x[2] - 1) : <<x[1], r>> \in topic

\* A single classifier never runs into the index of one active row per key:
\* what it computed still fits the table when it is written.
NeverConflicts ==
  \A p \in Processes : \A t \in todo[p] : ~ViolatesActiveKey(t)

\* The outbox implements the abstract promise: a recorded revision is never
\* lost, and is marked published only when Kafka has it.
Delivery == INSTANCE DurableDelivery WITH
  accepted <- Recorded,
  published <- topic,
  settled <- published

ImplementsDurableDelivery == Delivery!Spec

\* Every revision that is committed is one day published and marked so.
RevisionsArePublished ==
  \A x \in Items : x \in Recorded ~> x \in published

\* When the evidence for a key is gone for good its incident resolves.
IncidentsResolve ==
  \A i \in Ids : incidents[i].status \in Unresolved ~> incidents[i].status = "resolved"

\* "Each transition has a stable incident ID, increasing state revision": a
\* row that is overwritten moves to a higher revision.
RevisionsIncrease ==
  [][\A i \in Ids : incidents'[i] # incidents[i]
                      => incidents'[i].revision > incidents[i].revision]_vars
=============================================================================
