-------------------------- MODULE DurableDelivery --------------------------
(***************************************************************************)
(* What a transactional outbox in NetPulse promises, without saying how.   *)
(* Three components of the repository are shown to implement it: the       *)
(* agent's SQLite outbox (AgentOutbox), the classifier's PostgreSQL outbox *)
(* (IncidentClassifier), and the ingestor's path from the raw tables to    *)
(* the validated topic (Ingestor).                                         *)
(*                                                                         *)
(* An item is accepted once it is durable in the outbox table.  Only       *)
(* accepted items are published to Kafka, an item is settled (marked in    *)
(* the outbox as delivered) only after Kafka holds it, and nothing is ever *)
(* taken back: an accepted item may wait for ever, but it is never lost.   *)
(***************************************************************************)
CONSTANT Items

VARIABLES
  accepted,    \* items durable in the outbox, or once durable and pruned
  published,   \* items that Kafka holds (at least one copy)
  settled      \* items the outbox has recorded as delivered

vars == <<accepted, published, settled>>

Init ==
  /\ accepted = {}
  /\ published = {}
  /\ settled = {}

Accept(x) ==
  /\ x \notin accepted
  /\ accepted' = accepted \union {x}
  /\ UNCHANGED <<published, settled>>

\* Publication may happen again and again (at-least-once); the set of
\* published items only shows the first copy.
Publish(x) ==
  /\ x \in accepted
  /\ published' = published \union {x}
  /\ UNCHANGED <<accepted, settled>>

Settle(x) ==
  /\ x \in published
  /\ settled' = settled \union {x}
  /\ UNCHANGED <<accepted, published>>

Next == \E x \in Items : Accept(x) \/ Publish(x) \/ Settle(x)

Spec == Init /\ [][Next]_vars
=============================================================================
