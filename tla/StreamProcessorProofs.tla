------------------------- MODULE StreamProcessorProofs -------------------------
(***************************************************************************)
(* Machine-checked proofs about StreamProcessor, for every number of       *)
(* agents, records, window sizes, delays, failures and crashes.            *)
(***************************************************************************)
EXTENDS StreamProcessor, Sums, TLAPS

-----------------------------------------------------------------------------
(* Offsets and batches                                                     *)

Metrics == "window-metrics"
Invalid == "invalid-measurements"

\* The end offsets of a query's batches ascend, within the topic.
PlanOK ==
  \A q \in Queries : \A n \in 1..Len(plan[q]) :
    /\ plan[q][n] <= Len(log)
    /\ \A m \in 1..n : plan[q][m] <= plan[q][n]

Base == TypeOK /\ PlanOK

LEMMA Ends ==
  ASSUME Base, NEW q \in Queries, NEW n \in 0..Len(plan[q])
  PROVE  /\ End(q, n) \in 0..MaxLog /\ End(q, n) <= Len(log)
         /\ \A m \in 0..n : End(q, m) \in Nat /\ End(q, m) <= End(q, n)
<1>1. /\ plan[q] \in Seq(0..MaxLog) /\ log \in Seq(Records) /\ MaxLog \in Nat
      /\ Len(log) \in Nat /\ Len(plan[q]) \in Nat
  BY StreamAssumption DEF Base, TypeOK
<1>2. \A m \in 1..Len(plan[q]) : plan[q][m] \in 0..MaxLog
  BY <1>1
<1>3. QED
  BY <1>1, <1>2 DEF Base, PlanOK, End

\* Records stay where they are, and so do planned batches.
LEMMA Grows ==
  ASSUME TypeOK, TypeOK', [Next]_vars
  PROVE  /\ Len(log) \in Nat /\ Len(log') \in Nat /\ Len(log) <= Len(log')
         /\ \A o \in 1..Len(log) : log'[o] = log[o]
         /\ \A q \in Queries :
              /\ Len(plan[q]) \in Nat /\ Len(plan'[q]) \in Nat
              /\ Len(plan[q]) <= Len(plan'[q])
              /\ \A n \in 1..Len(plan[q]) : plan'[q][n] = plan[q][n]
<1>0. /\ log \in Seq(Records) /\ log' \in Seq(Records)
      /\ plan \in [Queries -> Seq(0..MaxLog)] /\ plan' \in [Queries -> Seq(0..MaxLog)]
  BY DEF TypeOK
<1>1. CASE UNCHANGED <<log, plan>>
  BY <1>0, <1>1
<1>2. ASSUME NEW r, log' = Append(log, r), UNCHANGED plan
      PROVE  /\ Len(log) <= Len(log')
             /\ \A o \in 1..Len(log) : log'[o] = log[o]
  BY <1>0, <1>2
<1>3. CASE \/ \E p \in Payloads : Arrive(p)
           \/ \E o \in DOMAIN log : Redeliver(o)
  BY <1>0, <1>2, <1>3 DEF Arrive, Redeliver, checkpointVars
<1>4. ASSUME NEW q \in Queries, Plan(q)
      PROVE  /\ UNCHANGED log
             /\ \A r \in Queries :
                  /\ Len(plan[r]) <= Len(plan'[r])
                  /\ \A n \in 1..Len(plan[r]) : plan'[r][n] = plan[r][n]
  <2>1. plan' = [plan EXCEPT ![q] = Append(@, Len(log))] /\ UNCHANGED log
    BY <1>4 DEF Plan
  <2>2. plan'[q] = Append(plan[q], Len(log)) /\ \A r \in Queries \ {q} : plan'[r] = plan[r]
    BY <1>0, <2>1
  <2>3. plan[q] \in Seq(0..MaxLog) /\ Len(log) \in Nat
    BY <1>0
  <2>4. /\ Len(plan[q]) <= Len(plan'[q])
        /\ \A n \in 1..Len(plan[q]) : plan'[q][n] = plan[q][n]
    BY <2>2, <2>3
  <2>5. QED
    BY <1>0, <2>1, <2>2, <2>4
<1>5. \/ UNCHANGED <<log, plan>>
      \/ \E p \in Payloads : Arrive(p)
      \/ \E o \in DOMAIN log : Redeliver(o)
      \/ \E q \in Queries : Plan(q)
  BY DEF Next, vars, Batch, Write, Commit, QueryFails, Exit, Crash, checkpointVars
<1>6. QED
  BY <1>0, <1>1, <1>3, <1>4, <1>5

-----------------------------------------------------------------------------
(* The watermark                                                           *)

LEMMA MaxIs ==
  ASSUME NEW S \in SUBSET Int, NEW b \in Int, S # {}, \A x \in S : x <= b
  PROVE  Max(S) \in S /\ \A y \in S : y <= Max(S)
<1> DEFINE T == {b - x : x \in S}
<1>1. T \subseteq Nat /\ T # {}
  OBVIOUS
<1>2. PICK m \in T : \A y \in T : ~(<<y, m>> \in OpToRel(<, Nat))
  <2>1. IsWellFoundedOn(OpToRel(<, Nat), Nat)
    BY NatLessThanWellFounded
  <2> HIDE DEF T
  <2>2. QED
    BY <1>1, <2>1, WFMin
<1>3. \A y \in T : ~(y < m)
  BY <1>1, <1>2 DEF OpToRel
<1>4. PICK x \in S : m = b - x
  BY <1>2
<1>5. ASSUME NEW y \in S
      PROVE  y <= x
  <2>1. b - y \in T /\ y \in Int /\ x \in Int
    OBVIOUS
  <2> HIDE DEF T
  <2>2. ~(b - y < b - x)
    BY <1>3, <1>4, <2>1
  <2>3. QED
    BY <2>1, <2>2
<1>6. \E z \in S : \A y \in S : z >= y
  BY <1>5
<1>7. QED
  BY <1>6 DEF Max

\* The event times behind the watermark of the nth batch, less the delay.
TimesOf(n) ==
  {0} \union {log[o].time - Delay : o \in {i \in 1..End(Metrics, n - 1) : log[i].valid}}

LEMMA TimesTyped ==
  ASSUME NEW r \in Records
  PROVE  r.time \in 0..MaxTime
<1>1. PICK event \in 1..MaxLog, p \in Payloads : r = Record(event, p)
  BY DEF Records
<1>2. p.time \in 0..MaxTime
  <2>1. CASE p \in [valid : {TRUE}, time : 0..MaxTime, agent : Agents]
    BY <2>1
  <2>2. CASE p \in [valid : {FALSE}, time : {0}, agent : {CHOOSE a \in Agents : TRUE}]
    BY <2>2, StreamAssumption
  <2>3. QED
    BY <2>1, <2>2 DEF Payloads
<1>3. Record(event, p).time = p.time
  BY DEF Record
<1>4. QED
  BY <1>1, <1>2, <1>3

LEMMA Times ==
  ASSUME Base, NEW n \in 1..(Len(plan[Metrics]) + 1)
  PROVE  /\ TimesOf(n) \in SUBSET Int /\ TimesOf(n) # {}
         /\ \A x \in TimesOf(n) : x <= MaxTime
         /\ Watermark(n) = Max(TimesOf(n))
<1>1. n - 1 \in 0..Len(plan[Metrics]) /\ n # 0 /\ Metrics \in Queries
  BY DEF Base, TypeOK, Metrics, Queries
<1>2. End(Metrics, n - 1) <= Len(log) /\ End(Metrics, n - 1) \in Nat
  BY <1>1, Ends
<1>3. \A o \in 1..End(Metrics, n - 1) : log[o] \in Records
  BY <1>2 DEF Base, TypeOK
<1>4. \A r \in Records : r.time \in 0..MaxTime
  BY TimesTyped
<1>5. \A o \in 1..End(Metrics, n - 1) : log[o].time \in 0..MaxTime
  BY <1>3, <1>4
<1>6. QED
  BY <1>1, <1>5, StreamAssumption DEF TimesOf, Watermark, Metrics

\* The watermark only moves forward, from batch to batch.
LEMMA WatermarkForward ==
  ASSUME Base, NEW n \in 0..(Len(plan[Metrics]) + 1)
  PROVE  Watermark(n) \in Nat /\ \A m \in 0..n : Watermark(m) <= Watermark(n)
<1>0. Len(plan[Metrics]) \in Nat
  BY DEF Base, TypeOK, Metrics, Queries
<1>1. ASSUME NEW k \in 1..(Len(plan[Metrics]) + 1)
      PROVE  /\ Watermark(k) \in TimesOf(k) /\ Watermark(k) \in Nat
             /\ \A y \in TimesOf(k) : y <= Watermark(k)
  <2>1. MaxTime \in Int
    BY StreamAssumption
  <2>2. Watermark(k) \in TimesOf(k) /\ \A y \in TimesOf(k) : y <= Watermark(k)
    BY <2>1, Times, MaxIs
  <2>3. 0 \in TimesOf(k) /\ Watermark(k) \in Int
    BY <2>2, Times DEF TimesOf
  <2>4. QED
    BY <2>2, <2>3
<1>2. Watermark(0) = 0
  BY DEF Watermark
<1>3. ASSUME NEW m \in 1..n
      PROVE  Watermark(m) <= Watermark(n)
  <2>1. End(Metrics, m - 1) <= End(Metrics, n - 1) /\ End(Metrics, m - 1) \in Nat
        /\ End(Metrics, n - 1) \in Nat
    BY <1>0, Ends DEF Metrics, Queries
  <2>2. TimesOf(m) \subseteq TimesOf(n)
    BY <2>1 DEF TimesOf
  <2>3. m \in 1..(Len(plan[Metrics]) + 1) /\ n \in 1..(Len(plan[Metrics]) + 1)
    BY <1>0
  <2>4. QED
    BY <1>1, <2>2, <2>3
<1>4. QED
  BY <1>0, <1>1, <1>2, <1>3

-----------------------------------------------------------------------------
(* The records that count in a window                                      *)

\* Those of the first n batches that came before the window was closed.
UpTo(key, n) ==
  {o \in 1..End(Metrics, n) :
     /\ log[o].valid
     /\ KeyOf(key[1], log[o]) = key
     /\ \E m \in 1..n : /\ End(Metrics, m - 1) < o /\ o <= End(Metrics, m)
                        /\ EndOf(key) > Watermark(m - 1)}

LEMMA UpToFinite ==
  ASSUME Base, NEW key \in Keys, NEW n \in 0..Len(plan[Metrics])
  PROVE  IsFiniteSet(UpTo(key, n)) /\ Cardinality(UpTo(key, n)) \in Nat
<1>1. End(Metrics, n) \in Nat
  BY Ends DEF Metrics, Queries
<1>2. IsFiniteSet(1..End(Metrics, n))
  BY <1>1, FS_Interval
<1>3. UpTo(key, n) \in SUBSET (1..End(Metrics, n))
  BY DEF UpTo
<1>4. QED
  BY <1>2, <1>3, FS_Subset, FS_CardinalityType

\* A batch adds its own records, and no other batch has them.
LEMMA UpToNext ==
  ASSUME Base, NEW key \in Keys, NEW n \in 1..Len(plan[Metrics])
  PROVE  /\ UpTo(key, n) = UpTo(key, n - 1) \union Counted(key, n)
         /\ IsFiniteSet(Counted(key, n)) /\ Cardinality(Counted(key, n)) \in Nat
         /\ Cardinality(UpTo(key, n)) =
              Cardinality(UpTo(key, n - 1)) + Cardinality(Counted(key, n))
<1>0. /\ Len(plan[Metrics]) \in Nat /\ n - 1 \in 0..Len(plan[Metrics])
      /\ n \in 0..Len(plan[Metrics]) /\ Metrics \in Queries
  BY DEF Base, TypeOK, Metrics, Queries
<1>1. /\ End(Metrics, n) \in Nat
      /\ \A m \in 0..n : End(Metrics, m) \in Nat /\ End(Metrics, m) <= End(Metrics, n)
      /\ \A m \in 0..(n - 1) : End(Metrics, m) <= End(Metrics, n - 1)
  BY <1>0, Ends
<1>2. Counted(key, n) =
        {o \in (End(Metrics, n - 1) + 1)..End(Metrics, n) :
           log[o].valid /\ KeyOf(key[1], log[o]) = key /\ EndOf(key) > Watermark(n - 1)}
  BY DEF Counted, OffsetsOf, OnTime, Metrics
<1>3. ASSUME NEW o \in UpTo(key, n)
      PROVE  o \in UpTo(key, n - 1) \/ o \in Counted(key, n)
  <2>1. PICK m \in 1..n : /\ End(Metrics, m - 1) < o /\ o <= End(Metrics, m)
                          /\ EndOf(key) > Watermark(m - 1)
    BY DEF UpTo
  <2>2. CASE m = n
    BY <1>1, <1>2, <2>1, <2>2 DEF UpTo
  <2>3. CASE m # n
    <3>1. m \in 1..(n - 1) /\ o <= End(Metrics, n - 1)
      BY <1>0, <1>1, <2>1, <2>3 DEF UpTo
    <3>2. o \in 1..End(Metrics, n - 1)
      BY <1>0, <1>1, <3>1 DEF UpTo
    <3>3. QED
      BY <2>1, <3>1, <3>2 DEF UpTo
  <2>4. QED
    BY <2>2, <2>3
<1>4. ASSUME NEW o \in UpTo(key, n - 1)
      PROVE  o \in UpTo(key, n) /\ o \notin Counted(key, n)
  <2>1. o \in 1..End(Metrics, n - 1) /\ o \in 1..End(Metrics, n)
    BY <1>0, <1>1 DEF UpTo
  <2>2. \A m \in 1..(n - 1) : m \in 1..n
    BY <1>0
  <2>3. o \in UpTo(key, n)
    BY <2>1, <2>2 DEF UpTo
  <2>4. QED
    BY <1>0, <1>1, <1>2, <2>1, <2>3
<1>5. ASSUME NEW o \in Counted(key, n)
      PROVE  o \in UpTo(key, n)
  <2>1. o \in 1..End(Metrics, n) /\ End(Metrics, n - 1) < o
    BY <1>0, <1>1, <1>2
  <2>2. n \in 1..n
    BY <1>0
  <2>3. QED
    BY <1>2, <2>1, <2>2 DEF UpTo
<1>6. /\ UpTo(key, n) = UpTo(key, n - 1) \union Counted(key, n)
      /\ UpTo(key, n - 1) \intersect Counted(key, n) = {}
  BY <1>3, <1>4, <1>5
<1>7. IsFiniteSet(Counted(key, n)) /\ IsFiniteSet(UpTo(key, n - 1))
  <2>1. Counted(key, n) \in SUBSET UpTo(key, n)
    BY <1>6
  <2>2. QED
    BY <1>0, <2>1, UpToFinite, FS_Subset
<1>8. Cardinality(UpTo(key, n - 1) \union Counted(key, n)) =
        Cardinality(UpTo(key, n - 1)) + Cardinality(Counted(key, n)) - 0
  BY <1>6, <1>7, FS_Union, FS_EmptySet
<1>9. Cardinality(Counted(key, n)) \in Nat /\ Cardinality(UpTo(key, n - 1)) \in Nat
  BY <1>7, FS_CardinalityType
<1>10. QED
  BY <1>6, <1>7, <1>8, <1>9

\* What has been planned does not change any more.
LEMMA PlannedStays ==
  ASSUME Base, Base', [Next]_vars
  PROVE  /\ \A q \in Queries : \A n \in 0..Len(plan[q]) : End(q, n)' = End(q, n)
         /\ \A n \in 0..(Len(plan[Metrics]) + 1) : Watermark(n)' = Watermark(n)
         /\ \A key \in Keys : \A n \in 0..Len(plan[Metrics]) : UpTo(key, n)' = UpTo(key, n)
<1>0. TypeOK /\ TypeOK' /\ Metrics \in Queries
  BY DEF Base, Metrics, Queries
<1>1. ASSUME NEW q \in Queries, NEW n \in 0..Len(plan[q])
      PROVE  End(q, n)' = End(q, n)
  BY <1>0, Grows DEF End
<1>2. ASSUME NEW n \in 0..Len(plan[Metrics])
      PROVE  \A o \in 1..End(Metrics, n) : log'[o] = log[o]
  BY <1>0, Grows, Ends
<1>3. ASSUME NEW n \in 0..(Len(plan[Metrics]) + 1)
      PROVE  Watermark(n)' = Watermark(n)
  <2>1. CASE n = 0
    BY <2>1 DEF Watermark
  <2>2. CASE n # 0
    <3>1. n - 1 \in 0..Len(plan[Metrics]) /\ n \in 1..(Len(plan[Metrics]) + 1)
          /\ n \in 1..(Len(plan'[Metrics]) + 1)
      BY <1>0, <2>2, Grows
    <3>2. TimesOf(n)' = TimesOf(n)
      BY <1>0, <1>1, <1>2, <3>1 DEF TimesOf
    <3>3. Watermark(n) = Max(TimesOf(n)) /\ Watermark(n)' = Max(TimesOf(n)')
      BY <2>2 DEF Watermark, TimesOf, Metrics
    <3>4. QED
      BY <3>2, <3>3
  <2>3. QED
    BY <2>1, <2>2
<1>4. ASSUME NEW key \in Keys, NEW n \in 0..Len(plan[Metrics])
      PROVE  UpTo(key, n)' = UpTo(key, n)
  <2>1. \A m \in 1..n : m - 1 \in 0..Len(plan[Metrics]) /\ m \in 0..Len(plan[Metrics])
    BY <1>0 DEF TypeOK
  <2>2. \A m \in 1..n : /\ End(Metrics, m)' = End(Metrics, m)
                        /\ End(Metrics, m - 1)' = End(Metrics, m - 1)
                        /\ Watermark(m - 1)' = Watermark(m - 1)
    BY <1>0, <1>1, <1>3, <2>1
  <2>3. End(Metrics, n)' = End(Metrics, n)
    BY <1>0, <1>1
  <2>4. QED
    BY <1>2, <2>2, <2>3 DEF UpTo
<1>5. QED
  BY <1>1, <1>3, <1>4

-----------------------------------------------------------------------------
(* Type correctness                                                        *)

LEMMA UpdatedTyped ==
  ASSUME Base, NEW n \in 1..Len(plan[Metrics])
  PROVE  \A key \in Keys : Updated(n)[key] \in Nat
                           /\ Updated(n)[key] = store[key] + Cardinality(Counted(key, n))
<1>1. ASSUME NEW key \in Keys
      PROVE  store[key] \in Nat /\ Cardinality(Counted(key, n)) \in Nat
  BY UpToNext DEF Base, TypeOK
<1>2. QED
  BY <1>1 DEF Updated

LEMMA TypeStep ==
  ASSUME Base, [Next]_vars
  PROVE  TypeOK'
<1> USE StreamAssumption
<1>0. TypeOK /\ Metrics \in Queries /\ Len(log) \in Nat
  BY DEF Base, Metrics, Queries, TypeOK
<1>1. ASSUME NEW p \in Payloads, Arrive(p)
      PROVE  TypeOK'
  <2>1. Record(Len(log) + 1, p) \in Records
    BY <1>0, <1>1 DEF Arrive, Records
  <2>2. QED
    BY <1>0, <1>1, <2>1 DEF Arrive, TypeOK, checkpointVars, dbVars
<1>2. ASSUME NEW o \in DOMAIN log, Redeliver(o)
      PROVE  TypeOK'
  <2>1. log[o] \in Records
    BY <1>0 DEF TypeOK
  <2>2. QED
    BY <1>0, <1>2, <2>1 DEF Redeliver, TypeOK, checkpointVars, dbVars
<1>3. ASSUME NEW q \in Queries, Plan(q)
      PROVE  TypeOK'
  <2>1. /\ plan' = [plan EXCEPT ![q] = Append(@, Len(log))]
        /\ pc' = [pc EXCEPT ![q] = "batch"] /\ pc[q] = "idle"
        /\ UNCHANGED <<log, commits, store, dbVars, errors, crashes>>
    BY <1>3 DEF Plan
  <2>2. plan[q] \in Seq(0..MaxLog) /\ Len(log) \in 0..MaxLog /\ commits[q] \in Nat
        /\ Len(plan[q]) = commits[q]
    BY <1>0, <2>1 DEF TypeOK
  <2>3. /\ Append(plan[q], Len(log)) \in Seq(0..MaxLog)
        /\ Len(Append(plan[q], Len(log))) = commits[q] + 1
    BY <2>2
  <2>4. /\ plan'[q] = Append(plan[q], Len(log)) /\ pc'[q] = "batch"
        /\ \A r \in Queries \ {q} : plan'[r] = plan[r] /\ pc'[r] = pc[r]
        /\ plan' \in [Queries -> Seq(0..MaxLog)] /\ pc' \in [Queries -> ControlStates]
    BY <1>0, <2>1, <2>3 DEF TypeOK, ControlStates
  <2>5. \A r \in Queries :
          Len(plan'[r]) = IF pc'[r] = "idle" THEN commits'[r] ELSE commits'[r] + 1
    BY <1>0, <2>1, <2>3, <2>4 DEF TypeOK
  <2>6. QED
    BY <1>0, <2>1, <2>4, <2>5 DEF TypeOK, dbVars
<1>4. ASSUME NEW q \in Queries, Write(q)
      PROVE  TypeOK'
  <2>1. pc[q] = "batch" /\ Len(plan[q]) = commits[q] + 1 /\ commits[q] \in Nat
    BY <1>0, <1>4 DEF Write, TypeOK
  <2>2. PICK n \in 1..Len(plan[q]) : n = commits[q] + 1
    BY <2>1
  <2>3. /\ IF q = Metrics THEN windows' = Upsert(n) /\ UNCHANGED failures
                          ELSE failures' = failures \union Rejects(n) /\ UNCHANGED windows
        /\ ledger' = Entered(q, n) /\ pc' = [pc EXCEPT ![q] = "written"]
        /\ UNCHANGED <<log, checkpointVars, errors, crashes>>
    BY <1>4, <2>2 DEF Write, Metrics
  <2>4. windows' \in [Keys -> Nat]
    <3>1. CASE q = Metrics
      BY <1>0, <2>3, <3>1, UpdatedTyped DEF Upsert, TypeOK
    <3>2. CASE q # Metrics
      BY <1>0, <2>3, <3>2 DEF TypeOK
    <3>3. QED
      BY <3>1, <3>2
  <2>5. failures' \subseteq 1..MaxLog
    <3>1. CASE q # Metrics
      <4>1. q = Invalid
        BY <3>1 DEF Queries, Metrics, Invalid
      <4>2. End(q, n) \in 0..MaxLog /\ End(q, n - 1) \in Nat
        BY <2>2, Ends
      <4>3. Rejects(n) \subseteq 1..MaxLog
        BY <4>1, <4>2 DEF Rejects, OffsetsOf, Invalid
      <4>4. QED
        BY <1>0, <2>3, <3>1, <4>3 DEF TypeOK
    <3>2. CASE q = Metrics
      BY <1>0, <2>3, <3>2 DEF TypeOK
    <3>3. QED
      BY <3>1, <3>2
  <2>6. ledger' \in [Queries -> SUBSET Nat]
    BY <1>0, <2>2, <2>3 DEF Entered, TypeOK
  <2>7. pc' \in [Queries -> ControlStates]
        /\ \A r \in Queries : pc'[r] = "idle" <=> pc[r] = "idle"
    BY <1>0, <2>1, <2>3 DEF TypeOK, ControlStates
  <2>8. QED
    BY <1>0, <2>3, <2>4, <2>5, <2>6, <2>7 DEF TypeOK, checkpointVars
<1>5. ASSUME NEW q \in Queries, Commit(q)
      PROVE  TypeOK'
  <2>1. pc[q] = "written" /\ Len(plan[q]) = commits[q] + 1 /\ commits[q] \in Nat
    BY <1>0, <1>5 DEF Commit, TypeOK
  <2>2. PICK n \in 1..Len(plan[q]) : n = commits[q] + 1
    BY <2>1
  <2>3. /\ commits' = [commits EXCEPT ![q] = n] /\ pc' = [pc EXCEPT ![q] = "idle"]
        /\ store' = IF q = Metrics THEN Evicted(Updated(n), n) ELSE store
        /\ UNCHANGED <<log, plan, dbVars, errors, crashes>>
    BY <1>5, <2>2 DEF Commit, Metrics
  <2>4. store' \in [Keys -> Nat]
    <3>1. CASE q = Metrics
      BY <2>2, <2>3, <3>1, UpdatedTyped DEF Evicted
    <3>2. CASE q # Metrics
      BY <1>0, <2>3, <3>2 DEF TypeOK
    <3>3. QED
      BY <3>1, <3>2
  <2>5. /\ commits'[q] = n /\ pc'[q] = "idle"
        /\ \A r \in Queries \ {q} : commits'[r] = commits[r] /\ pc'[r] = pc[r]
        /\ commits' \in [Queries -> Nat] /\ pc' \in [Queries -> ControlStates]
    BY <1>0, <2>2, <2>3 DEF TypeOK, ControlStates
  <2>6. QED
    BY <1>0, <2>1, <2>2, <2>3, <2>4, <2>5 DEF TypeOK, dbVars
<1>6. ASSUME NEW q \in Queries, QueryFails(q)
      PROVE  TypeOK'
  <2>1. pc' \in [Queries -> ControlStates] /\ \A r \in Queries : pc'[r] = "idle" <=> pc[r] = "idle"
    BY <1>0, <1>6 DEF QueryFails, TypeOK, ControlStates
  <2>2. QED
    BY <1>0, <1>6, <2>1 DEF QueryFails, TypeOK, checkpointVars, dbVars
<1>7. CASE Exit \/ Crash
  <2>1. pc' = Restarted /\ crashes' \in Nat /\ errors' = errors
    BY <1>0, <1>7 DEF Exit, Crash, TypeOK
  <2>2. pc' \in [Queries -> ControlStates]
        /\ \A r \in Queries : Len(plan[r]) = IF pc'[r] = "idle" THEN commits[r] ELSE commits[r] + 1
    BY <1>0, <2>1 DEF Restarted, TypeOK, ControlStates
  <2>3. QED
    BY <1>0, <1>7, <2>1, <2>2 DEF Exit, Crash, TypeOK, checkpointVars, dbVars
<1>8. CASE UNCHANGED vars
  BY <1>0, <1>8 DEF vars, TypeOK
<1>9. QED
  BY <1>1, <1>2, <1>3, <1>4, <1>5, <1>6, <1>7, <1>8 DEF Next, Batch

LEMMA PlanStep ==
  ASSUME Base, TypeOK', [Next]_vars
  PROVE  PlanOK'
<1>0. TypeOK /\ Len(log) \in Nat
  BY DEF Base, TypeOK
<1>1. ASSUME NEW q \in Queries, plan'[q] = plan[q]
      PROVE  \A n \in 1..Len(plan'[q]) : /\ plan'[q][n] <= Len(log')
                                         /\ \A m \in 1..n : plan'[q][m] <= plan'[q][n]
  <2>1. \A n \in 1..Len(plan[q]) : plan[q][n] \in Nat
    BY <1>0, StreamAssumption DEF TypeOK
  <2>2. QED
    BY <1>0, <1>1, <2>1, Grows DEF Base, PlanOK
<1>2. ASSUME NEW q \in Queries, Plan(q)
      PROVE  PlanOK'
  <2>1. /\ plan'[q] = Append(plan[q], Len(log)) /\ log' = log
        /\ \A r \in Queries \ {q} : plan'[r] = plan[r]
    BY <1>0, <1>2 DEF Plan, TypeOK
  <2>2. plan[q] \in Seq(0..MaxLog) /\ Len(plan[q]) \in Nat
    BY <1>0 DEF TypeOK
  <2>3. /\ Len(plan'[q]) = Len(plan[q]) + 1 /\ plan'[q][Len(plan[q]) + 1] = Len(log)
        /\ \A n \in 1..Len(plan[q]) : /\ plan'[q][n] = plan[q][n] /\ plan[q][n] <= Len(log)
                                      /\ \A m \in 1..n : plan[q][m] <= plan[q][n]
    BY <2>1, <2>2 DEF Base, PlanOK
  <2>4. \A n \in 1..Len(plan'[q]) : /\ plan'[q][n] <= Len(log')
                                    /\ \A m \in 1..n : plan'[q][m] <= plan'[q][n]
    BY <1>0, <2>1, <2>2, <2>3
  <2>5. QED
    BY <1>1, <2>1, <2>4 DEF PlanOK
<1>3. CASE UNCHANGED plan
  BY <1>1, <1>3 DEF PlanOK
<1>4. UNCHANGED plan \/ \E q \in Queries : Plan(q)
  BY DEF Next, vars, Arrive, Redeliver, Batch, Write, Commit, QueryFails, Exit, Crash,
    checkpointVars
<1>5. QED
  BY <1>2, <1>3, <1>4

LEMMA BaseInvariant == Spec => []Base
<1>1. Init => Base
  <2> SUFFICES ASSUME Init
               PROVE  Base
    OBVIOUS
  <2>1. PlanOK
    BY DEF Init, PlanOK
  <2>2. TypeOK
    BY StreamAssumption DEF Init, TypeOK, ControlStates
  <2>3. QED
    BY <2>1, <2>2 DEF Base
<1>2. Base /\ [Next]_vars => Base'
  BY TypeStep, PlanStep DEF Base
<1>3. QED
  BY <1>1, <1>2, PTL DEF Spec

\* Every variable keeps its type, and at most one batch is ahead of the commit
\* log: exactly when a query runs it.
THEOREM TypeCorrect == Spec => []TypeOK
<1>1. Base => TypeOK
  BY DEF Base
<1>2. QED
  BY <1>1, BaseInvariant, PTL

-----------------------------------------------------------------------------
(* The ledger beside the checkpoint                                        *)

\* What the ledger holds of a query, which at a written batch is all of it.
LedgerOK ==
  \A q \in Queries :
    /\ ledger[q] = 0..(Written(q) - 1)
    /\ Written(q) \in {commits[q], commits[q] + 1}
    /\ Written(q) <= Len(plan[q])
    /\ pc[q] = "written" => Written(q) = commits[q] + 1

LEMMA Entries ==
  ASSUME NEW n \in Nat
  PROVE  Cardinality(0..(n - 1)) = n
BY FS_Interval

\* A step leaves the ledger alone, or enters the batch that it writes.
LEMMA LedgerMoves ==
  ASSUME Base, LedgerOK, [Next]_vars, NEW q \in Queries
  PROVE  \/ Write(q) /\ ledger'[q] = 0..commits[q] /\ Written(q)' = commits[q] + 1
         \/ ~Write(q) /\ UNCHANGED <<ledger[q], Written(q)>>
<1>0. /\ ledger \in [Queries -> SUBSET Nat] /\ commits[q] \in Nat
      /\ ledger[q] = 0..(Written(q) - 1) /\ Written(q) \in {commits[q], commits[q] + 1}
  BY DEF Base, TypeOK, LedgerOK
<1>1. CASE Write(q)
  <2>1. ledger' = Entered(q, commits[q] + 1)
    BY <1>1 DEF Write
  <2>2. ledger'[q] = ledger[q] \union {commits[q]}
    BY <1>0, <2>1 DEF Entered
  <2>3. ledger'[q] = 0..commits[q]
    BY <1>0, <2>2
  <2>4. Written(q)' = Cardinality(0..(commits[q] + 1 - 1))
    BY <1>0, <2>3 DEF Written
  <2>5. QED
    BY <1>0, <1>1, <2>3, <2>4, Entries
<1>2. CASE ~Write(q)
  <2>1. ledger'[q] = ledger[q]
    <3>1. ASSUME NEW r \in Queries, Write(r)
          PROVE  ledger'[q] = ledger[q]
      BY <1>0, <1>2, <3>1 DEF Write, Entered
    <3>2. UNCHANGED ledger \/ \E r \in Queries : Write(r)
      BY DEF Next, vars, Arrive, Redeliver, Batch, Plan, Commit, QueryFails, Exit, Crash, dbVars
    <3>3. QED
      BY <3>1, <3>2
  <2>2. QED
    BY <1>2, <2>1 DEF Written
<1>3. QED
  BY <1>1, <1>2

LEMMA LedgerStep ==
  ASSUME Base, Base', LedgerOK, [Next]_vars
  PROVE  LedgerOK'
<1> SUFFICES ASSUME NEW q \in Queries
             PROVE  /\ ledger'[q] = 0..(Written(q)' - 1)
                    /\ Written(q)' \in {commits'[q], commits'[q] + 1}
                    /\ Written(q)' <= Len(plan'[q])
                    /\ pc'[q] = "written" => Written(q)' = commits'[q] + 1
  BY DEF LedgerOK
<1>0. /\ ledger[q] = 0..(Written(q) - 1)
      /\ Written(q) \in {commits[q], commits[q] + 1}
      /\ Written(q) <= Len(plan[q])
      /\ pc[q] = "written" => Written(q) = commits[q] + 1
      /\ commits[q] \in Nat /\ Len(plan[q]) \in Nat /\ Len(plan'[q]) \in Nat
      /\ Len(plan[q]) = (IF pc[q] = "idle" THEN commits[q] ELSE commits[q] + 1)
      /\ Len(plan[q]) <= Len(plan'[q])
  BY Grows DEF LedgerOK, Base, TypeOK
<1>1. CASE Write(q)
  <2>1. commits'[q] = commits[q] /\ plan'[q] = plan[q] /\ pc[q] = "batch"
    BY <1>1 DEF Write, checkpointVars
  <2>2. QED
    BY <1>0, <1>1, <2>1, LedgerMoves
<1>2. CASE Commit(q)
  <2>1. commits'[q] = commits[q] + 1 /\ pc'[q] = "idle" /\ pc[q] = "written"
    BY <1>2 DEF Commit, Base, TypeOK
  <2>2. ~Write(q)
    BY <2>1 DEF Write
  <2>3. QED
    BY <1>0, <2>1, <2>2, LedgerMoves
<1>3. ASSUME ~Write(q), ~Commit(q)
      PROVE  commits'[q] = commits[q] /\ (pc'[q] = "written" => pc[q] = "written")
  <2>1. /\ commits \in [Queries -> Nat] /\ pc \in [Queries -> ControlStates]
    BY DEF Base, TypeOK
  <2>2. ASSUME NEW r \in Queries, Plan(r) \/ QueryFails(r)
        PROVE  commits'[q] = commits[q] /\ (pc'[q] = "written" => pc[q] = "written")
    BY <2>1, <2>2 DEF Plan, QueryFails, checkpointVars
  <2>3. ASSUME NEW r \in Queries \ {q}, Write(r) \/ Commit(r)
        PROVE  commits'[q] = commits[q] /\ (pc'[q] = "written" => pc[q] = "written")
    BY <2>1, <2>3 DEF Write, Commit, checkpointVars
  <2>4. CASE Exit \/ Crash
    BY <2>1, <2>4 DEF Exit, Crash, Restarted, checkpointVars
  <2>5. CASE UNCHANGED <<commits, pc>>
    BY <2>5
  <2>6. \/ UNCHANGED <<commits, pc>>
        \/ \E r \in Queries : Plan(r) \/ QueryFails(r)
        \/ \E r \in Queries \ {q} : Write(r) \/ Commit(r)
        \/ Exit \/ Crash
    BY <1>3 DEF Next, vars, Arrive, Redeliver, Batch, checkpointVars
  <2>7. QED
    BY <2>2, <2>3, <2>4, <2>5, <2>6
<1>4. CASE ~Write(q) /\ ~Commit(q)
  BY <1>0, <1>3, <1>4, LedgerMoves
<1>5. QED
  BY <1>1, <1>2, <1>4

-----------------------------------------------------------------------------
(* The evidence of rejects                                                 *)

LEMMA RejectsStep ==
  ASSUME Base, Base', LedgerOK, RejectsKept, [Next]_vars
  PROVE  RejectsKept'
<1>0. /\ Invalid \in Queries /\ TypeOK /\ TypeOK'
      /\ failures = {o \in 1..End(Invalid, Written(Invalid)) : ~log[o].valid}
      /\ Written(Invalid) \in {commits[Invalid], commits[Invalid] + 1}
      /\ commits[Invalid] \in Nat /\ Len(plan[Invalid]) \in Nat
      /\ Written(Invalid) <= Len(plan[Invalid])
  BY DEF Base, TypeOK, LedgerOK, RejectsKept, Invalid, Queries
<1>1. ASSUME NEW n \in 0..Len(plan[Invalid])
      PROVE  /\ End(Invalid, n)' = End(Invalid, n) /\ End(Invalid, n) \in Nat
             /\ \A o \in 1..End(Invalid, n) : log'[o] = log[o]
             /\ \A m \in 0..n : End(Invalid, m) \in Nat /\ End(Invalid, m) <= End(Invalid, n)
  <2>1. End(Invalid, n) \in 0..MaxLog /\ End(Invalid, n) <= Len(log)
        /\ \A m \in 0..n : End(Invalid, m) \in Nat /\ End(Invalid, m) <= End(Invalid, n)
    BY <1>0, Ends
  <2>2. QED
    BY <1>0, <2>1, Grows, PlannedStays
<1>2. RejectsKept' <=> (failures' = {o \in 1..End(Invalid, Written(Invalid))' : ~log'[o].valid})
  BY DEF RejectsKept, Invalid
<1>3. CASE Write(Invalid)
  <2>1. commits[Invalid] + 1 \in 1..Len(plan[Invalid])
    BY <1>0, <1>3 DEF Write, TypeOK
  <2>2. PICK n \in 1..Len(plan[Invalid]) : n = commits[Invalid] + 1
    BY <2>1
  <2>3. Written(Invalid)' = n
    BY <1>0, <1>3, <2>2, LedgerMoves
  <2>4. failures' = failures \union Rejects(n)
    BY <1>3, <2>2 DEF Write, Invalid
  <2>5. Rejects(n) = {o \in (End(Invalid, n - 1) + 1)..End(Invalid, n) : ~log[o].valid}
    BY DEF Rejects, OffsetsOf, Invalid
  <2>6. End(Invalid, n - 1) \in Nat /\ End(Invalid, n) \in Nat
        /\ End(Invalid, n - 1) <= End(Invalid, n)
    BY <1>0, <1>1, <2>2
  <2>7. Written(Invalid) \in {n - 1, n}
    BY <1>0, <2>2
  <2>8. failures' = {o \in 1..End(Invalid, n) : ~log[o].valid}
    <3>1. CASE Written(Invalid) = n
      BY <1>0, <2>4, <2>5, <2>6, <3>1
    <3>2. CASE Written(Invalid) = n - 1
      BY <1>0, <2>4, <2>5, <2>6, <3>2
    <3>3. QED
      BY <2>7, <3>1, <3>2
  <2>9. End(Invalid, Written(Invalid))' = End(Invalid, n)
    <3>1. n \in 0..Len(plan[Invalid])
      BY <1>0
    <3>2. End(Invalid, Written(Invalid))' = (IF Written(Invalid)' = 0 THEN 0 ELSE plan'[Invalid][Written(Invalid)'])
      BY DEF End
    <3>3. End(Invalid, n)' = (IF n = 0 THEN 0 ELSE plan'[Invalid][n])
      BY DEF End
    <3>4. QED
      BY <1>1, <2>3, <3>1, <3>2, <3>3
  <2>10. \A o \in 1..End(Invalid, n) : log'[o] = log[o]
    BY <1>0, <1>1, <2>2
  <2>11. failures' = {o \in 1..End(Invalid, n) : ~log'[o].valid}
    BY <2>8, <2>10
  <2>12. QED
    BY <1>2, <2>9, <2>11
<1>4. CASE ~Write(Invalid)
  <2>1. UNCHANGED failures
    <3>1. UNCHANGED failures \/ \E q \in Queries : Write(q)
      BY DEF Next, vars, Arrive, Redeliver, Batch, Plan, Commit, QueryFails, Exit, Crash, dbVars
    <3>2. ASSUME NEW q \in Queries, Write(q)
          PROVE  UNCHANGED failures
      <4>1. q = "window-metrics"
        BY <1>4, <3>2 DEF Queries, Invalid
      <4>2. QED
        BY <3>2, <4>1 DEF Write
    <3>3. QED
      BY <3>1, <3>2
  <2>2. Written(Invalid)' = Written(Invalid)
    BY <1>0, <1>4, LedgerMoves
  <2>3. PICK n \in 0..Len(plan[Invalid]) : n = Written(Invalid)
    BY <1>0
  <2>4. End(Invalid, Written(Invalid))' = End(Invalid, n)
    <3>1. End(Invalid, Written(Invalid))' = (IF Written(Invalid)' = 0 THEN 0 ELSE plan'[Invalid][Written(Invalid)'])
      BY DEF End
    <3>2. End(Invalid, n)' = (IF n = 0 THEN 0 ELSE plan'[Invalid][n])
      BY DEF End
    <3>3. QED
      BY <1>1, <2>2, <2>3, <3>1, <3>2
  <2>5. QED
    BY <1>0, <1>1, <1>2, <2>1, <2>3, <2>4
<1>5. QED
  BY <1>3, <1>4

-----------------------------------------------------------------------------
(* The counts of windows                                                   *)

\* The state of a window that is still open counts its records in the
\* committed batches.
StoreOK ==
  \A key \in Keys :
    EndOf(key) > Watermark(commits[Metrics]) =>
      store[key] = Cardinality(UpTo(key, commits[Metrics]))

\* A row counts those in the batches written so far.
WindowsOK ==
  \A key \in Keys : windows[key] = Cardinality(UpTo(key, Written(Metrics)))

LEMMA KeysTyped ==
  ASSUME NEW key \in Keys
  PROVE  EndOf(key) \in Nat
<1>1. key \in Sizes \X (0..MaxTime) \X Agents
  BY DEF Keys
<1>2. PICK size \in Sizes, start \in 0..MaxTime, agent \in Agents : key = <<size, start, agent>>
  BY <1>1
<1>3. key[1] \in Nat /\ key[2] \in Nat
  BY <1>2, StreamAssumption
<1>4. QED
  BY <1>3 DEF EndOf

\* The batch that a query is in.
LEMMA CurrentBatch ==
  ASSUME Base, pc[Metrics] # "idle"
  PROVE  /\ commits[Metrics] \in Nat /\ Len(plan[Metrics]) = commits[Metrics] + 1
         /\ commits[Metrics] + 1 \in 1..Len(plan[Metrics])
<1>1. /\ commits[Metrics] \in Nat /\ Len(plan[Metrics]) \in Nat
      /\ Len(plan[Metrics]) = commits[Metrics] + 1
  BY DEF Base, TypeOK, Metrics, Queries
<1>2. QED
  BY <1>1

LEMMA StoreStep ==
  ASSUME Base, Base', StoreOK, [Next]_vars
  PROVE  StoreOK'
<1>0. /\ TypeOK /\ commits[Metrics] \in Nat /\ Len(plan[Metrics]) \in Nat
      /\ commits[Metrics] <= Len(plan[Metrics]) /\ Metrics \in Queries
  BY DEF Base, TypeOK, Metrics, Queries
<1> SUFFICES ASSUME NEW key \in Keys
             PROVE  EndOf(key) > Watermark(commits[Metrics])' =>
                      store'[key] = Cardinality(UpTo(key, commits[Metrics])')
  BY DEF StoreOK, EndOf
<1>1. CASE Commit(Metrics)
  <2>1. pc[Metrics] = "written"
    BY <1>1 DEF Commit
  <2>2. PICK n \in 1..Len(plan[Metrics]) : n = commits[Metrics] + 1
    BY <2>1, CurrentBatch
  <2>3. commits'[Metrics] = n /\ store' = Evicted(Updated(n), n)
    BY <1>0, <1>1, <2>2 DEF Commit, TypeOK, Metrics
  <2>4. /\ n \in 0..(Len(plan[Metrics]) + 1) /\ n \in 0..Len(plan[Metrics])
        /\ n - 1 = commits[Metrics] /\ n - 1 \in 0..n
    BY <1>0, <2>2
  <2>5. /\ Watermark(commits[Metrics])' = Watermark(n)
        /\ UpTo(key, commits[Metrics])' = UpTo(key, n)
    <3>1. Watermark(n)' = Watermark(n) /\ UpTo(key, n)' = UpTo(key, n)
      BY <2>4, PlannedStays
    <3>2. Watermark(commits[Metrics])' = Watermark(n)'
      BY <2>3 DEF Watermark, End
    <3>3. UpTo(key, commits[Metrics])' = UpTo(key, n)'
      BY <2>3 DEF UpTo, End
    <3>4. QED
      BY <3>1, <3>2, <3>3
  <2>6. ASSUME EndOf(key) > Watermark(n)
        PROVE  store'[key] = Cardinality(UpTo(key, n))
    <3>1. EndOf(key) \in Nat /\ Watermark(n) \in Nat /\ Watermark(n - 1) \in Nat
          /\ Watermark(n - 1) <= Watermark(n)
      <4>1. n - 1 \in 0..(Len(plan[Metrics]) + 1)
        BY <1>0, <2>4
      <4>2. QED
        BY <2>4, <4>1, KeysTyped, WatermarkForward
    <3>2. store[key] = Cardinality(UpTo(key, n - 1))
      <4>1. EndOf(key) > Watermark(n - 1)
        BY <2>6, <3>1
      <4>2. QED
        BY <2>4, <4>1 DEF StoreOK
    <3>3. store'[key] = Updated(n)[key]
      BY <2>3, <2>6, <3>1 DEF Evicted
    <3>4. Updated(n)[key] = store[key] + Cardinality(Counted(key, n))
      BY UpdatedTyped
    <3>5. QED
      BY <3>2, <3>3, <3>4, UpToNext
  <2>7. QED
    BY <2>5, <2>6
<1>2. CASE ~Commit(Metrics)
  <2>1. UNCHANGED <<store, commits[Metrics]>>
    <3>1. ASSUME NEW q \in Queries, Commit(q)
          PROVE  UNCHANGED <<store, commits[Metrics]>>
      BY <1>0, <1>2, <3>1 DEF Commit, Metrics, TypeOK
    <3>2. UNCHANGED <<store, commits>> \/ \E q \in Queries : Commit(q)
      BY DEF Next, vars, Arrive, Redeliver, Batch, Plan, Write, QueryFails, Exit, Crash,
        checkpointVars
    <3>3. QED
      BY <3>1, <3>2
  <2>2. PICK n \in 0..Len(plan[Metrics]) : n = commits[Metrics]
    BY <1>0
  <2>3. /\ Watermark(commits[Metrics])' = Watermark(n)
        /\ UpTo(key, commits[Metrics])' = UpTo(key, n)
    <3>1. n \in 0..(Len(plan[Metrics]) + 1)
      BY <1>0
    <3>2. Watermark(n)' = Watermark(n) /\ UpTo(key, n)' = UpTo(key, n)
      BY <3>1, PlannedStays
    <3>3. Watermark(commits[Metrics])' = Watermark(n)'
      BY <2>1, <2>2 DEF Watermark, End
    <3>4. UpTo(key, commits[Metrics])' = UpTo(key, n)'
      BY <2>1, <2>2 DEF UpTo, End
    <3>5. QED
      BY <3>2, <3>3, <3>4
  <2>4. QED
    BY <2>1, <2>2, <2>3 DEF StoreOK
<1>3. QED
  BY <1>1, <1>2

\* What writing a batch does to a row, whether or not it was written before.
LEMMA RowWritten ==
  ASSUME Base, LedgerOK, StoreOK, WindowsOK, Write(Metrics), NEW key \in Keys
  PROVE  windows'[key] = Cardinality(UpTo(key, commits[Metrics] + 1))
         /\ windows[key] \in Nat /\ windows'[key] >= windows[key]
<1>1. PICK n \in 1..Len(plan[Metrics]) : n = commits[Metrics] + 1
  BY CurrentBatch DEF Write
<1>2. /\ Written(Metrics) \in {n - 1, n} /\ windows[key] = Cardinality(UpTo(key, Written(Metrics)))
      /\ n - 1 = commits[Metrics] /\ n - 1 \in 0..Len(plan[Metrics])
      /\ n - 1 \in 0..(Len(plan[Metrics]) + 1)
  BY <1>1 DEF LedgerOK, WindowsOK, Base, TypeOK, Metrics, Queries
<1>3. windows' = Upsert(n)
  BY <1>1 DEF Write, Metrics
<1>4. /\ Cardinality(UpTo(key, n)) = Cardinality(UpTo(key, n - 1)) + Cardinality(Counted(key, n))
      /\ Cardinality(Counted(key, n)) \in Nat /\ Cardinality(UpTo(key, n - 1)) \in Nat
  BY <1>2, UpToNext, UpToFinite
<1>5. CASE key \in Touched(n)
  <2>1. PICK o \in Counted(key, n) : TRUE
    BY <1>5 DEF Touched
  <2>2. EndOf(key) > Watermark(n - 1)
    BY <2>1 DEF Counted, OnTime
  <2>3. store[key] = Cardinality(UpTo(key, n - 1))
    BY <1>2, <2>2 DEF StoreOK
  <2>4. windows'[key] = store[key] + Cardinality(Counted(key, n))
    BY <1>3, <1>5, UpdatedTyped DEF Upsert
  <2>5. QED
    BY <1>1, <1>2, <1>4, <2>3, <2>4
<1>6. CASE key \notin Touched(n)
  <2>1. Counted(key, n) = {}
    BY <1>6 DEF Touched
  <2>2. Cardinality(Counted(key, n)) = 0
    BY <2>1, FS_EmptySet
  <2>3. windows'[key] = windows[key]
    BY <1>3, <1>6 DEF Upsert
  <2>4. QED
    BY <1>1, <1>2, <1>4, <2>2, <2>3
<1>7. QED
  BY <1>5, <1>6

LEMMA WindowsUnchanged ==
  ASSUME Base, [Next]_vars, ~Write(Metrics)
  PROVE  UNCHANGED windows
<1>1. UNCHANGED windows \/ \E q \in Queries : Write(q)
  BY DEF Next, vars, Arrive, Redeliver, Batch, Plan, Commit, QueryFails, Exit, Crash, dbVars
<1>2. ASSUME NEW q \in Queries, Write(q)
      PROVE  UNCHANGED windows
  <2>1. q # "window-metrics"
    BY <1>2 DEF Metrics
  <2>2. QED
    BY <1>2, <2>1 DEF Write
<1>3. QED
  BY <1>1, <1>2

LEMMA WindowsStep ==
  ASSUME Base, Base', LedgerOK, StoreOK, WindowsOK, [Next]_vars
  PROVE  WindowsOK'
<1> SUFFICES ASSUME NEW key \in Keys
             PROVE  windows'[key] = Cardinality(UpTo(key, Written(Metrics))')
  BY DEF WindowsOK
<1>0. /\ Metrics \in Queries /\ Len(plan[Metrics]) \in Nat
      /\ commits[Metrics] \in Nat /\ Written(Metrics) \in 0..Len(plan[Metrics])
  BY DEF Base, TypeOK, LedgerOK, Metrics, Queries
<1>1. ASSUME NEW n \in 0..Len(plan[Metrics]), Written(Metrics)' = n
      PROVE  UpTo(key, Written(Metrics))' = UpTo(key, n)
  <2>1. UpTo(key, Written(Metrics))' = UpTo(key, n)'
    BY <1>1 DEF UpTo, End
  <2>2. QED
    BY <2>1, PlannedStays
<1>2. CASE Write(Metrics)
  <2>1. commits[Metrics] + 1 \in 0..Len(plan[Metrics])
    BY <1>2, CurrentBatch DEF Write
  <2>2. Written(Metrics)' = commits[Metrics] + 1
    BY <1>0, <1>2, LedgerMoves
  <2>3. QED
    BY <1>1, <1>2, <2>1, <2>2, RowWritten
<1>3. CASE ~Write(Metrics)
  <2>1. Written(Metrics)' = Written(Metrics)
    BY <1>0, <1>3, LedgerMoves
  <2>2. windows'[key] = windows[key]
    BY <1>3, WindowsUnchanged
  <2>3. QED
    BY <1>0, <1>1, <2>1, <2>2 DEF WindowsOK
<1>4. QED
  BY <1>2, <1>3

-----------------------------------------------------------------------------
(* The inductive invariant                                                 *)

IInv == Base /\ LedgerOK /\ RejectsKept /\ StoreOK /\ WindowsOK

LEMMA InitIInv == Init => IInv
<1> SUFFICES ASSUME Init
             PROVE  IInv
  OBVIOUS
<1>1. Base
  <2>1. Init => Base
    <3>1. Init => PlanOK
      BY DEF Init, PlanOK
    <3>2. Init => TypeOK
      BY StreamAssumption DEF Init, TypeOK, ControlStates
    <3>3. QED
      BY <3>1, <3>2 DEF Base
  <2>2. QED
    BY <2>1
<1>2. /\ Metrics \in Queries /\ Invalid \in Queries
      /\ \A q \in Queries : ledger[q] = {} /\ commits[q] = 0 /\ Len(plan[q]) = 0 /\ pc[q] = "idle"
      /\ failures = {}
      /\ \A key \in Keys : store[key] = 0 /\ windows[key] = 0
  BY DEF Init, Metrics, Invalid, Queries
<1>3. \A q \in Queries : Written(q) = 0
  BY <1>2, FS_EmptySet DEF Written
<1>4. LedgerOK
  <2>1. ASSUME NEW q \in Queries
        PROVE  /\ ledger[q] = 0..(Written(q) - 1)
               /\ Written(q) \in {commits[q], commits[q] + 1}
               /\ Written(q) <= Len(plan[q])
               /\ pc[q] # "written"
    <3>1. /\ Written(q) = 0 /\ commits[q] = 0 /\ Len(plan[q]) = 0
          /\ pc[q] = "idle" /\ ledger[q] = {}
      BY <1>2, <1>3
    <3>2. 0..(Written(q) - 1) = {}
      BY <3>1
    <3>3. QED
      BY <3>1, <3>2
  <2>2. QED
    BY <2>1 DEF LedgerOK
<1>5. RejectsKept
  BY <1>2, <1>3 DEF RejectsKept, Invalid, End
<1>6. \A key \in Keys : Cardinality(UpTo(key, 0)) = 0
  <2>1. \A key \in Keys : UpTo(key, 0) = {}
    BY DEF UpTo, End
  <2>2. QED
    BY <2>1, FS_EmptySet
<1>7. StoreOK /\ WindowsOK
  BY <1>2, <1>3, <1>6 DEF StoreOK, WindowsOK
<1>8. QED
  BY <1>1, <1>4, <1>5, <1>7 DEF IInv

LEMMA IInvInvariant == Spec => []IInv
<1>1. IInv /\ [Next]_vars => IInv'
  <2> SUFFICES ASSUME IInv, [Next]_vars
               PROVE  IInv'
    OBVIOUS
  <2>1. Base /\ LedgerOK /\ RejectsKept /\ StoreOK /\ WindowsOK
    BY DEF IInv
  <2>2. Base'
    BY <2>1, TypeStep, PlanStep DEF Base
  <2>3. LedgerOK'
    BY <2>1, <2>2, LedgerStep
  <2>4. RejectsKept'
    BY <2>1, <2>2, RejectsStep
  <2>5. StoreOK'
    BY <2>1, <2>2, StoreStep
  <2>6. WindowsOK'
    BY <2>1, <2>2, WindowsStep
  <2>7. QED
    BY <2>2, <2>3, <2>4, <2>5, <2>6 DEF IInv
<1>2. QED
  BY <1>1, InitIInv, PTL DEF Spec

-----------------------------------------------------------------------------
(* Theorems                                                                *)

\* streaming_query_batches records the batches that were written, from the first
\* to the last, and is never behind the checkpoint nor ahead of what is planned.
THEOREM LedgerSafe == Spec => []LedgerFollowsCheckpoint
<1>1. IInv => LedgerFollowsCheckpoint
  <2> SUFFICES ASSUME IInv, NEW q \in Queries
               PROVE  /\ ledger[q] = 0..(Written(q) - 1)
                      /\ commits[q] <= Written(q)
                      /\ Written(q) <= Len(plan[q])
    BY DEF LedgerFollowsCheckpoint
  <2>1. commits[q] \in Nat
    BY DEF IInv, Base, TypeOK
  <2>2. QED
    BY <2>1 DEF IInv, LedgerOK
<1>2. QED
  BY <1>1, IInvInvariant, PTL

\* The evidence is that of the invalid records in the batches written so far,
\* however often one is run again.
THEOREM EvidenceKept == Spec => []RejectsKept
<1>1. IInv => RejectsKept
  BY DEF IInv
<1>2. QED
  BY <1>1, IInvInvariant, PTL

\* A window's row counts each record of the batches written so far once, if it
\* came before its window was closed, whatever was evicted or replayed.
THEOREM ReplaysChangeNothing == Spec => []RowsCountRecords
<1>1. IInv => RowsCountRecords
  BY DEF IInv, WindowsOK, UpTo, RowsCountRecords, Metrics
<1>2. QED
  BY <1>1, IInvInvariant, PTL

\* A later batch, or an earlier one run again, never takes back what a row has
\* shown.
THEOREM RowsGrow == Spec => CountsGrow
<1>1. IInv /\ [Next]_vars => [\A key \in Keys : windows'[key] >= windows[key]]_vars
  <2> SUFFICES ASSUME IInv, [Next]_vars, NEW key \in Keys
               PROVE  windows'[key] >= windows[key]
    OBVIOUS
  <2>1. windows[key] \in Nat /\ Base
    BY DEF IInv, Base, TypeOK
  <2>2. CASE Write(Metrics)
    BY <2>2, RowWritten DEF IInv
  <2>3. CASE ~Write(Metrics)
    BY <2>1, <2>3, WindowsUnchanged
  <2>4. QED
    BY <2>2, <2>3
<1>2. QED
  BY <1>1, IInvInvariant, PTL DEF Spec, CountsGrow

-----------------------------------------------------------------------------
(* Windows inside windows                                                  *)

LEMMA Division ==
  ASSUME NEW a \in Nat, NEW b \in Nat \ {0}
  PROVE  /\ a \div b \in Nat /\ a % b \in 0..(b - 1)
         /\ a = b * (a \div b) + (a % b)
OBVIOUS

LEMMA Multiples ==
  ASSUME NEW a \in Nat, NEW b \in Nat \ {0}, a % b = 0
  PROVE  \E m \in Nat : a = b * m
<1>1. PICK d \in Nat : a = b * d + (a % b)
  BY Division
<1>2. b * d \in Nat
  OBVIOUS
<1>3. a = b * d
  BY <1>1, <1>2
<1>4. QED
  BY <1>3

\* Quotient and remainder are unique.
LEMMA Remainder ==
  ASSUME NEW b \in Nat \ {0}, NEW q \in Nat, NEW r \in 0..(b - 1)
  PROVE  (b * q + r) % b = r
<1> DEFINE a == b * q + r
<1>1. a \in Nat
  OBVIOUS
<1>2. PICK p \in Nat, s \in 0..(b - 1) : a = b * p + s /\ s = a % b
  BY <1>1, Division
<1>3. ~(p < q)
  <2>1. ASSUME p < q
        PROVE  FALSE
    <3>1. PICK d \in Nat : q = p + 1 + d
      <4>1. q - p - 1 \in Nat /\ q = p + 1 + (q - p - 1)
        BY <2>1
      <4>2. QED
        BY <4>1
    <3>2. b * q = b * p + b + b * d /\ b * d \in Nat /\ b * p \in Nat
      BY <3>1
    <3>3. QED
      BY <1>2, <3>2
  <2>2. QED
    BY <2>1
<1>4. ~(q < p)
  <2>1. ASSUME q < p
        PROVE  FALSE
    <3>1. PICK d \in Nat : p = q + 1 + d
      <4>1. p - q - 1 \in Nat /\ p = q + 1 + (p - q - 1)
        BY <2>1
      <4>2. QED
        BY <4>1
    <3>2. b * p = b * q + b + b * d /\ b * d \in Nat /\ b * q \in Nat
      BY <3>1
    <3>3. QED
      BY <1>2, <3>2
  <2>2. QED
    BY <2>1
<1>5. QED
  BY <1>2, <1>3, <1>4

\* A window that begins inside a larger one ends with it or before, and a time in
\* it lies in the larger one.
LEMMA InnerWindow ==
  ASSUME NEW small \in Nat \ {0}, NEW large \in Nat \ {0}, large % small = 0,
         NEW start \in Nat, start % large = 0, NEW time \in Nat,
         Start(small, time) \in start..(start + large - 1)
  PROVE  /\ Start(small, time) + small <= start + large
         /\ Start(large, time) = start
<1>1. PICK m \in Nat : large = small * m
  BY Multiples
<1>2. PICK q \in Nat : start = large * q
  BY Multiples
<1>3. PICK p \in Nat, r \in 0..(small - 1) : time = small * p + r /\ r = time % small
  BY Division
<1>4. Start(small, time) = small * p
  BY <1>3 DEF Start
<1>5. start + large = small * (m * q + m) /\ m * q + m \in Nat
  BY <1>1, <1>2
<1>6. PICK e \in Nat : e = m * q + m
  BY <1>5
<1>7. small * p < small * e
  BY <1>4, <1>5, <1>6
<1>8. p < e
  <2>1. ASSUME e <= p
        PROVE  FALSE
    <3>1. p - e \in Nat /\ p = e + (p - e)
      BY <2>1
    <3>2. small * p = small * e + small * (p - e) /\ small * (p - e) \in Nat
      BY <3>1
    <3>3. QED
      BY <1>7, <3>2
  <2>2. QED
    BY <2>1
<1>9. small * p + small <= small * e
  <2>1. e - p - 1 \in Nat /\ e = p + 1 + (e - p - 1)
    BY <1>8
  <2>2. small * e = small * p + small + small * (e - p - 1) /\ small * (e - p - 1) \in Nat
    BY <2>1
  <2>3. QED
    BY <2>2
<1>10. Start(small, time) + small <= start + large
  BY <1>4, <1>5, <1>6, <1>9
<1>11. start <= time /\ time < start + large
  BY <1>3, <1>4, <1>10
<1>12. PICK s \in 0..(large - 1) : time = large * q + s
  <2>1. time - start \in 0..(large - 1) /\ time = large * q + (time - start)
    BY <1>2, <1>11
  <2>2. QED
    BY <2>1
<1>13. time % large = s
  BY <1>12, Remainder
<1>14. QED
  BY <1>2, <1>10, <1>12, <1>13 DEF Start

\* The windows of a size inside a window.
WindowsWithin(key, size) ==
  {k \in Keys : k[1] = size /\ k[2] \in key[2]..(EndOf(key) - 1) /\ k[3] = key[3]}

LEMMA KeyTyped ==
  ASSUME NEW key \in Keys
  PROVE  /\ key = <<key[1], key[2], key[3]>>
         /\ key[1] \in Sizes /\ key[1] \in Nat \ {0}
         /\ key[2] \in 0..MaxTime /\ key[2] \in Nat /\ key[2] % key[1] = 0
         /\ key[3] \in Agents
<1>1. PICK size \in Sizes, start \in 0..MaxTime, agent \in Agents : key = <<size, start, agent>>
  BY DEF Keys
<1>2. size \in Nat \ {0} /\ start \in Nat
  BY StreamAssumption
<1>3. key[2] % key[1] = 0
  BY DEF Keys
<1>4. QED
  BY <1>1, <1>2, <1>3

LEMMA WithinFinite ==
  ASSUME NEW key \in Keys, NEW size
  PROVE  IsFiniteSet(WindowsWithin(key, size))
<1> DEFINE W == WindowsWithin(key, size)
           f == [k \in W |-> k[2]]
<1>1. f \in [W -> 0..MaxTime]
  BY KeyTyped DEF WindowsWithin
<1>2. ASSUME NEW k \in W, NEW j \in W, f[k] = f[j]
      PROVE  k = j
  <2>1. k \in Keys /\ j \in Keys /\ k[1] = j[1] /\ k[3] = j[3]
    BY DEF WindowsWithin
  <2>2. k[2] = j[2]
    BY <1>2
  <2>3. QED
    BY <2>1, <2>2, KeyTyped
<1>3. f \in Injection(W, 0..MaxTime)
  BY <1>1, <1>2 DEF Injection, IsInjective
<1>4. IsFiniteSet(0..MaxTime)
  BY StreamAssumption, FS_Interval
<1>5. QED
  BY <1>3, <1>4, FS_Injection

\* A record that counts in a window counts in every larger one around it, which
\* is not closed before.
LEMMA CountsInOuter ==
  ASSUME Base, NEW n \in 0..Len(plan[Metrics]), NEW key \in Keys, NEW size \in Sizes,
         key[1] % size = 0, NEW k \in WindowsWithin(key, size), NEW o \in UpTo(k, n)
  PROVE  o \in UpTo(key, n)
<1>1. /\ k \in Keys /\ k[1] = size /\ k[2] \in key[2]..(EndOf(key) - 1) /\ k[3] = key[3]
  BY DEF WindowsWithin
<1>2. o \in 1..End(Metrics, n) /\ log[o].valid /\ KeyOf(size, log[o]) = k
  BY <1>1 DEF UpTo
<1>3. log[o].time \in Nat
  <2>1. End(Metrics, n) <= Len(log) /\ End(Metrics, n) \in Nat /\ Len(log) \in Nat
    BY Ends DEF Metrics, Queries, Base, TypeOK
  <2>2. log[o] \in Records
    BY <1>2, <2>1 DEF Base, TypeOK
  <2>3. QED
    BY <2>2, TimesTyped
<1>4. Start(size, log[o].time) = k[2] /\ log[o].agent = key[3]
  BY <1>1, <1>2 DEF KeyOf
<1>5. /\ size \in Nat \ {0} /\ key[1] \in Nat \ {0} /\ key[2] \in Nat /\ key[2] % key[1] = 0
      /\ EndOf(key) = key[2] + key[1]
  BY StreamAssumption, KeyTyped DEF EndOf
<1>6. /\ Start(size, log[o].time) + size <= key[2] + key[1]
      /\ Start(key[1], log[o].time) = key[2]
  <2>1. Start(size, log[o].time) \in key[2]..(key[2] + key[1] - 1)
    BY <1>1, <1>4, <1>5
  <2>2. PICK large \in Nat \ {0}, start \in Nat, time \in Nat :
          large = key[1] /\ start = key[2] /\ time = log[o].time
    BY <1>3, <1>5
  <2>3. /\ large % size = 0 /\ start % large = 0
        /\ Start(size, time) \in start..(start + large - 1)
    BY <1>5, <2>1, <2>2
  <2>4. \A small \in Nat \ {0} :
          large % small = 0 /\ Start(small, time) \in start..(start + large - 1)
            => Start(small, time) + small <= start + large /\ Start(large, time) = start
    BY <2>3, InnerWindow
  <2>5. QED
    BY <1>5, <2>2, <2>3, <2>4
<1>7. KeyOf(key[1], log[o]) = key
  BY <1>4, <1>6, KeyTyped DEF KeyOf
<1>8. EndOf(k) <= EndOf(key) /\ EndOf(k) \in Nat /\ EndOf(key) \in Nat
  BY <1>1, <1>4, <1>5, <1>6, KeysTyped DEF EndOf
<1>9. PICK m \in 1..n : /\ End(Metrics, m - 1) < o /\ o <= End(Metrics, m)
                        /\ EndOf(k) > Watermark(m - 1)
  BY DEF UpTo
<1>10. Watermark(m - 1) \in Nat
  <2>1. m - 1 \in 0..(Len(plan[Metrics]) + 1)
    BY DEF Base, TypeOK, Metrics, Queries
  <2>2. QED
    BY <2>1, WatermarkForward
<1>11. EndOf(key) > Watermark(m - 1)
  BY <1>8, <1>9, <1>10
<1>12. QED
  BY <1>2, <1>7, <1>9, <1>11 DEF UpTo

\* A window's row is never short of the windows of a smaller size inside it, be
\* they late, replayed or evicted (transformations.py windows of several sizes
\* over the same records).
THEOREM WindowsNest == Spec => []NestedWindows
<1>1. IInv => NestedWindows
  <2> SUFFICES ASSUME IInv, NEW key \in Keys,
                      NEW size \in {z \in Sizes : z < key[1] /\ (key[1] % z) = 0}
               PROVE  MapThenSumSet(LAMBDA k : windows[k], WindowsWithin(key, size))
                        <= windows[key]
    BY DEF NestedWindows, WindowsWithin
  <2> DEFINE W == WindowsWithin(key, size)
             n == Written(Metrics)
             U == [k \in W |-> UpTo(k, n)]
  <2>1. n \in 0..Len(plan[Metrics])
    <3>1. commits[Metrics] \in Nat /\ Len(plan[Metrics]) \in Nat
      BY DEF IInv, Base, TypeOK, Metrics, Queries
    <3>2. QED
      BY <3>1 DEF IInv, LedgerOK, Metrics, Queries
  <2>2. W \in SUBSET Keys /\ IsFiniteSet(W)
    BY WithinFinite DEF WindowsWithin
  <2>3. \A k \in W : windows[k] = Cardinality(U[k])
    BY <2>1, <2>2 DEF IInv, WindowsOK
  <2>4. ASSUME NEW k \in W, NEW j \in W, k # j
        PROVE  U[k] \intersect U[j] = {}
    <3>1. \A o \in U[k] \intersect U[j] : k = KeyOf(size, log[o]) /\ j = KeyOf(size, log[o])
      BY DEF UpTo, WindowsWithin
    <3>2. QED
      BY <2>4, <3>1
  <2>5. \A k \in W : U[k] \in SUBSET UpTo(key, n)
    BY <2>1, CountsInOuter DEF IInv
  <2>6. IsFiniteSet(UpTo(key, n)) /\ windows[key] = Cardinality(UpTo(key, n))
    BY <2>1, UpToFinite DEF IInv, WindowsOK
  <2>7. SumOf(windows, W) <= Cardinality(UpTo(key, n))
    <3>1. \A k, j \in W : k # j => U[k] \intersect U[j] = {}
      BY <2>4
    <3> HIDE DEF W, U, n
    <3>2. QED
      BY <2>2, <2>3, <2>5, <2>6, <3>1, SumOfParts
  <2>8. MapThenSumSet(LAMBDA k : windows[k], W) = SumOf(windows, W)
    BY DEF SumOf
  <2>9. QED
    BY <2>6, <2>7, <2>8
<1>2. QED
  BY <1>1, IInvInvariant, PTL
=============================================================================
