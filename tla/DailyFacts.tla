----------------------------- MODULE DailyFacts -----------------------------
(***************************************************************************)
(* What the readers of the analytics see: the rows of                      *)
(* v_daily_probe_reliability and the generation of v_incident_summary,     *)
(* replaced together when a refresh commits (DailyAnalytics!Publish).      *)
(***************************************************************************)
EXTENDS Integers, FiniteSetsExt

CONSTANTS
  Slots,      \* <<date, agent, endpoint>>: the primary keys of the fact table
  MaxCount,   \* bound: probes of a row
  Workloads   \* bounds: records of how often each kind of thing may happen

ASSUME FactsAssumption ==
  /\ IsFiniteSet(Slots)
  /\ Slots \subseteq Nat \X Nat \X Nat
  /\ MaxCount \in Nat \ {0}
  /\ Workloads \subseteq [{"refreshes", "requests", "exports", "faults", "crashes"} -> Nat]

VARIABLES
  facts,        \* [Slots -> total_count], 0 where there is no row
  generation,   \* committed refreshes; the incidents are those of the last one
  left          \* what may still happen, of each kind

factVars == <<facts, generation>>

Stored == {s \in Slots : facts[s] > 0}

DateOf(s) == s[1]
AgentOf(s) == s[2]
Dates == {DateOf(s) : s \in Slots}

FactsInit ==
  /\ facts \in [Slots -> 0..MaxCount]
  /\ generation = 1
  /\ left \in Workloads

Spend(kind) ==
  /\ left[kind] > 0
  /\ left' = [left EXCEPT ![kind] = @ - 1]

\* A refresh of a range of days deletes its rows and inserts new ones.
RefreshCommits ==
  /\ Spend("refreshes")
  /\ \E first, last \in Dates : \E new \in [Slots -> 0..MaxCount] :
       /\ \A s \in Slots : DateOf(s) \notin first..last => new[s] = facts[s]
       /\ facts' = new
  /\ generation' = generation + 1
=============================================================================
