----------------------------- MODULE ReportsProofs -----------------------------
(***************************************************************************)
(* Machine-checked proofs about the readers of the analytics, walks of the *)
(* query API first and the Tableau export second, while refreshes commit:  *)
(* for every set of rows, filters, page sizes and numbers of refreshes,    *)
(* requests, exports, failures and kills.                                  *)
(***************************************************************************)
EXTENDS Reports, FiniteSetTheorems, WellFoundedInduction, TLAPS

-----------------------------------------------------------------------------
(***************************************************************************)
(* Walks through the pages.                                                *)
(***************************************************************************)
(* The order of the rows                                                   *)

LEMMA SlotsTyped ==
  /\ IsFiniteSet(Slots)
  /\ \A s \in Slots : /\ s[1] \in Nat /\ s[2] \in Nat /\ s[3] \in Nat
                      /\ s = <<s[1], s[2], s[3]>>
<1>1. ASSUME NEW s \in Slots
      PROVE  /\ s[1] \in Nat /\ s[2] \in Nat /\ s[3] \in Nat
             /\ s = <<s[1], s[2], s[3]>>
  <2>1. s \in Nat \X Nat \X Nat
    BY FactsAssumption
  <2>2. PICK a \in Nat, b \in Nat, c \in Nat : s = <<a, b, c>>
    BY <2>1
  <2>3. QED
    BY <2>2
<1>2. QED
  BY <1>1, FactsAssumption

\* A strict total order.
LEMMA BeforeOrders ==
  \A a, b, c \in Slots :
    /\ ~Before(a, a)
    /\ Before(a, b) /\ Before(b, c) => Before(a, c)
    /\ a # b => Before(a, b) \/ Before(b, a)
<1> SUFFICES ASSUME NEW a \in Slots, NEW b \in Slots, NEW c \in Slots
             PROVE  /\ ~Before(a, a)
                    /\ Before(a, b) /\ Before(b, c) => Before(a, c)
                    /\ a # b => Before(a, b) \/ Before(b, a)
  OBVIOUS
<1>1. /\ a[1] \in Nat /\ a[2] \in Nat /\ a[3] \in Nat
      /\ b[1] \in Nat /\ b[2] \in Nat /\ b[3] \in Nat
      /\ c[1] \in Nat /\ c[2] \in Nat /\ c[3] \in Nat
  BY SlotsTyped
<1>2. ~Before(a, a) /\ (Before(a, b) /\ Before(b, c) => Before(a, c))
  BY <1>1 DEF Before, KeyBefore
<1>3. ASSUME ~Before(a, b), ~Before(b, a)
      PROVE  a = b
  <2>1. a[1] = b[1] /\ a[2] = b[2] /\ a[3] = b[3]
    BY <1>1, <1>3 DEF Before, KeyBefore
  <2>2. a = <<a[1], a[2], a[3]>> /\ b = <<b[1], b[2], b[3]>>
    BY SlotsTyped
  <2>3. QED
    BY <2>1, <2>2
<1>4. QED
  BY <1>2, <1>3

LEMMA Smallest ==
  ASSUME NEW T \in SUBSET Nat, T # {}
  PROVE  \E m \in T : \A y \in T : m <= y
<1>1. PICK m \in T : \A y \in T : ~(<<y, m>> \in OpToRel(<, Nat))
  <2>1. IsWellFoundedOn(OpToRel(<, Nat), Nat)
    BY NatLessThanWellFounded
  <2>2. QED
    BY <2>1, WFMin
<1>2. \A y \in T : ~(y < m)
  BY <1>1 DEF OpToRel
<1>3. QED
  BY <1>2

LEMMA Parts ==
  ASSUME NEW S \in SUBSET Slots
  PROVE  IsFiniteSet(S) /\ Cardinality(S) \in Nat
         /\ \A T \in SUBSET S : /\ IsFiniteSet(T) /\ Cardinality(T) \in Nat
                                /\ Cardinality(T) <= Cardinality(S)
                                /\ T # S => Cardinality(T) < Cardinality(S)
<1>1. IsFiniteSet(S)
  BY SlotsTyped, FS_Subset
<1>2. ASSUME NEW T \in SUBSET S
      PROVE  /\ IsFiniteSet(T) /\ Cardinality(T) \in Nat
             /\ Cardinality(T) <= Cardinality(S)
             /\ T # S => Cardinality(T) < Cardinality(S)
  <2>1. IsFiniteSet(T) /\ Cardinality(T) <= Cardinality(S)
        /\ (Cardinality(S) = Cardinality(T) => S = T)
    BY <1>1, FS_Subset
  <2>2. Cardinality(T) \in Nat /\ Cardinality(S) \in Nat
    BY <1>1, <2>1, FS_CardinalityType
  <2>3. QED
    BY <2>1, <2>2
<1>3. QED
  BY <1>1, <1>2, FS_CardinalityType

\* A set of rows that is not empty has a first one ...
LEMMA FirstExists ==
  ASSUME NEW S \in SUBSET Slots, S # {}
  PROVE  \E r \in S : \A q \in S \ {r} : Before(r, q)
<1> DEFINE Preds(r) == {q \in S : Before(q, r)}
           T == {Cardinality(Preds(r)) : r \in S}
<1>1. \A r \in S : Preds(r) \in SUBSET Slots /\ Cardinality(Preds(r)) \in Nat
  BY Parts
<1>2. T \in SUBSET Nat /\ T # {}
  BY <1>1
<1>3. PICK m \in T : \A y \in T : m <= y
  <2> HIDE DEF T
  <2>1. QED
    BY <1>2, Smallest
<1>4. PICK r \in S : m = Cardinality(Preds(r))
  BY <1>3
<1>5. ASSUME NEW q \in S \ {r}, ~Before(r, q)
      PROVE  FALSE
  <2>1. Before(q, r)
    BY <1>5, BeforeOrders
  <2>2. Preds(q) \in SUBSET Preds(r) /\ q \in Preds(r) /\ q \notin Preds(q)
    BY <2>1, BeforeOrders
  <2>3. Cardinality(Preds(q)) < Cardinality(Preds(r))
    <3> HIDE DEF Preds
    <3>1. QED
      BY <1>1, <2>2, Parts
  <2>4. Cardinality(Preds(q)) \in T
    OBVIOUS
  <2> HIDE DEF T, Preds
  <2>5. QED
    BY <1>1, <1>3, <1>4, <2>3, <2>4
<1>6. QED
  BY <1>5

\* ... and a last one.
LEMMA LastExists ==
  ASSUME NEW S \in SUBSET Slots, S # {}
  PROVE  Last(S) \in S /\ \A q \in S \ {Last(S)} : Before(q, Last(S))
<1> DEFINE Succs(r) == {q \in S : Before(r, q)}
           T == {Cardinality(Succs(r)) : r \in S}
<1>1. \A r \in S : Succs(r) \in SUBSET Slots /\ Cardinality(Succs(r)) \in Nat
  BY Parts
<1>2. T \in SUBSET Nat /\ T # {}
  BY <1>1
<1>3. PICK m \in T : \A y \in T : m <= y
  <2> HIDE DEF T
  <2>1. QED
    BY <1>2, Smallest
<1>4. PICK r \in S : m = Cardinality(Succs(r))
  BY <1>3
<1>5. ASSUME NEW q \in S \ {r}, ~Before(q, r)
      PROVE  FALSE
  <2>1. Before(r, q)
    BY <1>5, BeforeOrders
  <2>2. Succs(q) \in SUBSET Succs(r) /\ q \in Succs(r) /\ q \notin Succs(q)
    BY <2>1, BeforeOrders
  <2>3. Cardinality(Succs(q)) < Cardinality(Succs(r))
    <3> HIDE DEF Succs
    <3>1. QED
      BY <1>1, <2>2, Parts
  <2>4. Cardinality(Succs(q)) \in T
    OBVIOUS
  <2> HIDE DEF T, Succs
  <2>5. QED
    BY <1>1, <1>3, <1>4, <2>3, <2>4
<1>6. \E x \in S : \A q \in S \ {x} : Before(q, x)
  BY <1>5
<1>7. QED
  BY <1>6 DEF Last

-----------------------------------------------------------------------------
(* LIMIT                                                                   *)

\* The first n rows, or all if there are fewer: every other row comes after them.
LEMMA FirstIs ==
  ASSUME NEW S \in SUBSET Slots, NEW n \in Nat
  PROVE  /\ First(S, n) \in SUBSET S
         /\ Cardinality(First(S, n)) \in Nat /\ Cardinality(First(S, n)) <= n
         /\ First(S, n) # S => Cardinality(First(S, n)) = n
         /\ \A q \in First(S, n), r \in S \ First(S, n) : Before(q, r)
<1> DEFINE Preds(r) == {q \in S : Before(q, r)}
           F == First(S, n)
<1>1. F = {r \in S : Cardinality(Preds(r)) < n}
  BY DEF First
<1>2. \A r \in S : Preds(r) \in SUBSET S /\ Cardinality(Preds(r)) \in Nat
  BY Parts
<1>3. F \in SUBSET S /\ F \in SUBSET Slots
  BY <1>1
<1> HIDE DEF F
<1>4. ASSUME NEW r \in F, NEW q \in S, Before(q, r)
      PROVE  q \in F
  <2>1. r \in S /\ Cardinality(Preds(r)) < n
    BY <1>1
  <2>2. Preds(q) \in SUBSET Preds(r) /\ Preds(r) \in SUBSET Slots
    BY <1>3, <1>4, BeforeOrders
  <2>3. Cardinality(Preds(q)) <= Cardinality(Preds(r))
    <3> HIDE DEF Preds
    <3>1. QED
      BY <2>2, Parts
  <2> HIDE DEF Preds
  <2>4. QED
    BY <1>1, <1>2, <2>1, <2>3
<1>5. ASSUME NEW q \in F, NEW r \in S \ F
      PROVE  Before(q, r)
  <2>1. ~Before(r, q) /\ r # q
    BY <1>4, <1>5
  <2>2. QED
    BY <1>3, <2>1, BeforeOrders
<1>6. Cardinality(F) \in Nat /\ IsFiniteSet(F)
  BY <1>3, Parts
<1>7. Cardinality(F) <= n
  <2>1. CASE F = {}
    BY <2>1, FS_EmptySet
  <2>2. CASE F # {}
    <3>1. PICK l \in F : \A q \in F \ {l} : Before(q, l)
      BY <1>3, <2>2, LastExists
    <3>2. Preds(l) = F \ {l}
      <4>1. ASSUME NEW q \in Preds(l)
            PROVE  q \in F \ {l}
        BY <1>3, <1>4, BeforeOrders
      <4>2. QED
        BY <1>3, <3>1, <4>1
    <3>3. Cardinality(F \ {l}) = Cardinality(F) - 1
      BY <1>6, FS_RemoveElement
    <3>4. Cardinality(Preds(l)) < n
      BY <1>1
    <3> HIDE DEF Preds
    <3>5. QED
      BY <1>6, <3>2, <3>3, <3>4
  <2>3. QED
    BY <2>1, <2>2
<1>8. ASSUME F # S
      PROVE  Cardinality(F) = n
  <2>1. S \ F # {} /\ S \ F \in SUBSET Slots
    BY <1>3, <1>8
  <2>2. PICK r \in S \ F : \A q \in (S \ F) \ {r} : Before(r, q)
    BY <2>1, FirstExists
  <2>3. Preds(r) = F
    <3>1. ASSUME NEW q \in Preds(r)
          PROVE  q \in F
      <4>1. ~Before(r, q) /\ q # r
        BY BeforeOrders
      <4>2. QED
        BY <2>2, <4>1
    <3>2. QED
      BY <1>3, <1>5, <3>1
  <2>4. ~(Cardinality(Preds(r)) < n)
    BY <1>1
  <2> HIDE DEF Preds
  <2>5. QED
    BY <1>6, <1>7, <2>3, <2>4
<1>9. QED
  BY <1>3, <1>5, <1>6, <1>7, <1>8 DEF F

-----------------------------------------------------------------------------
(* What a request and its walk know                                        *)

Walks ==
  [filter : SUBSET Slots, pages : Seq(SUBSET Slots), next : Cursors \union {NoCursor},
   ended : BOOLEAN, steady : SUBSET Slots]

Requests ==
  [pc : {"none", "query", "older", "reply"}, filter : Filters \union {{}},
   cursor : Cursors \union {NoCursor}, limit : Limits \union {1}, rows : SUBSET Slots]

WalkTyped == request \in Requests /\ walk \in Walks

\* Rows that are counted as steady can be found; a cursor is of the walk's filter.
WalkOK ==
  /\ \A s \in walk.steady : s \in walk.filter /\ facts[s] > 0
  /\ walk.next # NoCursor => walk.next.fingerprint = walk.filter /\ ~walk.ended

\* Rows that come after the request's cursor.
After(s) == request.cursor = NoCursor \/ Before(request.cursor.key, s)

\* A request is the walk's own, and finds rows of its filter after its cursor.
RequestOK ==
  request.pc # "none" =>
    /\ request.filter \in Filters
    /\ request.filter = walk.filter /\ request.cursor = walk.next
    /\ request.cursor = NoCursor => walk.pages = <<>> /\ ~walk.ended
    /\ \A r \in request.rows : After(r)

\* The first query has found all steady rows of the cursor's date.
OlderOK ==
  request.pc = "older" =>
    /\ request.cursor # NoCursor /\ Cardinality(request.rows) < Target
    /\ \A r \in request.rows : DateOf(r) = DateOf(request.cursor.key)
    /\ \A s \in walk.steady : Follows(s, request.cursor.key) => s \in request.rows

\* An answer has every steady row after the cursor, or is full and ends before it.
ReplyOK ==
  request.pc = "reply" =>
    /\ Cardinality(request.rows) <= Target
    /\ \A s \in walk.steady : After(s) =>
         \/ s \in request.rows
         \/ /\ Cardinality(request.rows) = Target
            /\ \A r \in request.rows : Before(r, s)

\* What is listed comes before the next cursor, or is its row.
ListedOK ==
  walk.next # NoCursor =>
    \A i \in DOMAIN walk.pages : \A a \in walk.pages[i] :
      a = walk.next.key \/ Before(a, walk.next.key)

WalkInv ==
  /\ WalkTyped
  /\ WalkOK
  /\ RequestOK
  /\ OlderOK
  /\ ReplyOK
  /\ ListedOK
  /\ WalkGoesForward
  /\ NothingIsSkipped

Listed == UNION {walk.pages[i] : i \in DOMAIN walk.pages}

LEMMA SkippedNone ==
  NothingIsSkipped <=>
    \A s \in walk.steady :
      walk.ended \/ (walk.next # NoCursor /\ ~Before(walk.next.key, s)) => s \in Listed
BY DEF NothingIsSkipped, Listed

LEMMA Domains ==
  ASSUME WalkTyped
  PROVE  /\ request.limit \in Nat /\ request.limit >= 1 /\ Target = request.limit + 1
         /\ request.rows \in SUBSET Slots /\ request.filter \in SUBSET Slots
         /\ Cardinality(request.rows) \in Nat
         /\ request.cursor # NoCursor => request.cursor.key \in Slots
         /\ walk.next # NoCursor => walk.next.key \in Slots
         /\ walk.pages \in Seq(SUBSET Slots) /\ walk.steady \in SUBSET Slots
<1>1. /\ request.limit \in Nat \ {0} /\ request.rows \in SUBSET Slots
      /\ request.filter \in SUBSET Slots
      /\ request.cursor \in Cursors \union {NoCursor} /\ walk.next \in Cursors \union {NoCursor}
      /\ walk.pages \in Seq(SUBSET Slots) /\ walk.steady \in SUBSET Slots
  <2>1. request \in Requests /\ walk \in Walks
    BY DEF WalkTyped
  <2>2. /\ request.limit \in Limits \union {1} /\ request.filter \in Filters \union {{}}
        /\ request.rows \in SUBSET Slots /\ request.cursor \in Cursors \union {NoCursor}
    BY <2>1 DEF Requests
  <2>3. Limits \union {1} \subseteq Nat \ {0} /\ Filters \union {{}} \subseteq SUBSET Slots
    BY PaginationAssumption
  <2>4. QED
    BY <2>1, <2>2, <2>3 DEF Walks
<1>2. \A c \in Cursors : c.key \in Slots
  BY DEF Cursors
<1>3. QED
  BY <1>1, <1>2, Parts DEF Target

LEMMA NoRequestTyped == NoRequest \in Requests /\ NoRequest.pc = "none"
BY DEF NoRequest, Requests

LEMMA InitWalk == Init => WalkInv
<1> SUFFICES ASSUME Init
             PROVE  WalkInv
  OBVIOUS
<1>1. request = NoRequest /\ walk = NoWalk
  BY DEF Init, PaginationInit
<1>2. /\ NoWalk \in Walks /\ NoWalk.pages = <<>> /\ NoWalk.next = NoCursor
      /\ NoWalk.steady = {}
  BY DEF NoWalk, Walks
<1>3. WalkTyped
  BY <1>1, <1>2, NoRequestTyped DEF WalkTyped
<1>4. WalkOK /\ RequestOK /\ OlderOK /\ ReplyOK /\ ListedOK
  BY <1>1, <1>2, NoRequestTyped DEF WalkOK, RequestOK, OlderOK, ReplyOK, ListedOK
<1>5. WalkGoesForward /\ NothingIsSkipped
  BY <1>1, <1>2, SkippedNone DEF WalkGoesForward
<1>6. QED
  BY <1>3, <1>4, <1>5 DEF WalkInv

-----------------------------------------------------------------------------
(* One lemma per action                                                    *)

LEMMA StartStep ==
  ASSUME WalkInv, NEW filter \in Filters, NEW limit \in Limits, Start(filter, limit),
         UNCHANGED factVars
  PROVE  WalkInv'
<1>1. /\ filter \in SUBSET Slots /\ limit \in Limits
      /\ request' = [NoRequest EXCEPT !.pc = "query", !.filter = filter, !.limit = limit]
      /\ walk' = [NoWalk EXCEPT !.filter = filter, !.steady = Matching(filter)]
      /\ UNCHANGED facts
  BY PaginationAssumption DEF Start, factVars
<1>2. Matching(filter) \in SUBSET Slots
      /\ \A s \in Matching(filter) : s \in filter /\ facts[s] > 0
  BY <1>1 DEF Matching, Stored
<1>3. /\ request'.pc = "query" /\ request'.filter = filter /\ request'.cursor = NoCursor
      /\ request'.rows = {} /\ request' \in Requests
  BY <1>1 DEF NoRequest, Requests
<1>4. /\ walk'.filter = filter /\ walk'.steady = Matching(filter) /\ walk'.pages = <<>>
      /\ walk'.next = NoCursor /\ walk'.ended = FALSE /\ walk' \in Walks
  <2>1. walk' = [filter |-> filter, pages |-> <<>>, next |-> NoCursor, ended |-> FALSE,
                 steady |-> Matching(filter)]
    BY <1>1 DEF NoWalk
  <2>2. /\ walk'.filter = filter /\ walk'.steady = Matching(filter) /\ walk'.pages = <<>>
        /\ walk'.next = NoCursor /\ walk'.ended = FALSE
    BY <2>1
  <2>3. NoWalk \in Walks
    BY DEF NoWalk, Walks
  <2>4. walk' \in Walks
    <3>1. Matching(filter) \in SUBSET Slots /\ filter \in SUBSET Slots
      BY <1>1, <1>2
    <3>2. QED
      BY <1>1, <2>3, <3>1 DEF Walks
  <2>5. QED
    BY <2>2, <2>4
<1>5. WalkTyped' /\ WalkOK' /\ RequestOK' /\ OlderOK' /\ ReplyOK' /\ ListedOK'
  BY <1>1, <1>2, <1>3, <1>4 DEF WalkTyped, WalkOK, RequestOK, OlderOK, ReplyOK, ListedOK
<1>6. WalkGoesForward' /\ NothingIsSkipped'
  BY <1>4 DEF WalkGoesForward, NothingIsSkipped
<1>7. QED
  BY <1>5, <1>6 DEF WalkInv

\* The walk does not change and no request goes on.
LEMMA NoRequestStep ==
  ASSUME WalkInv, request' = NoRequest, UNCHANGED <<walk, facts>>
  PROVE  WalkInv'
<1>1. request'.pc = "none" /\ request' \in Requests
  BY NoRequestTyped
<1>2. WalkTyped' /\ WalkOK' /\ RequestOK' /\ OlderOK' /\ ReplyOK' /\ ListedOK'
  BY <1>1 DEF WalkInv, WalkTyped, WalkOK, RequestOK, OlderOK, ReplyOK, ListedOK
<1>3. WalkGoesForward' /\ NothingIsSkipped'
  BY DEF WalkInv, WalkGoesForward, NothingIsSkipped
<1>4. QED
  BY <1>2, <1>3 DEF WalkInv

LEMMA ContinueStep ==
  ASSUME WalkInv, NEW filter \in Filters, NEW limit \in Limits, Continue(filter, limit),
         UNCHANGED factVars
  PROVE  WalkInv'
<1>1. UNCHANGED <<walk, facts>> /\ walk.next # NoCursor
  BY DEF Continue, factVars
<1>2. CASE ~Accepts(walk.next, filter)
  BY <1>1, <1>2, NoRequestStep DEF Continue
<1>3. CASE Accepts(walk.next, filter)
  <2>1. /\ request' = [pc |-> "query", filter |-> filter, cursor |-> walk.next,
                       limit |-> limit, rows |-> {}]
        /\ walk.next.fingerprint = filter
    BY <1>1, <1>3 DEF Continue, Accepts
  <2>2. filter = walk.filter /\ filter \in SUBSET Slots /\ limit \in Limits
    BY <1>1, <2>1, PaginationAssumption DEF WalkInv, WalkOK
  <2>3. request' \in Requests
    BY <2>1, <2>2 DEF WalkInv, WalkTyped, Walks, Requests
  <2>4. WalkTyped' /\ WalkOK' /\ RequestOK' /\ OlderOK' /\ ReplyOK' /\ ListedOK'
    BY <1>1, <2>1, <2>2, <2>3
    DEF WalkInv, WalkTyped, WalkOK, RequestOK, OlderOK, ReplyOK, ListedOK
  <2>5. WalkGoesForward' /\ NothingIsSkipped'
    BY <1>1 DEF WalkInv, WalkGoesForward, NothingIsSkipped
  <2>6. QED
    BY <2>4, <2>5 DEF WalkInv
<1>4. QED
  BY <1>2, <1>3

\* A query finds every steady row of its filter.
LEMMA SteadyMatches ==
  ASSUME WalkInv, request.pc # "none"
  PROVE  walk.steady \subseteq Matching(request.filter)
         /\ Matching(request.filter) \in SUBSET Slots
<1>1. \A s \in walk.steady : s \in request.filter /\ s \in Slots /\ facts[s] > 0
  BY Domains DEF WalkInv, WalkOK, RequestOK
<1>2. QED
  BY <1>1 DEF Matching, Stored

\* A row after the key is of its date, or older.
LEMMA SameOrOlder ==
  ASSUME NEW s \in Slots, NEW key \in Slots
  PROVE  /\ Before(key, s) <=> Follows(s, key) \/ Older(s, key)
         /\ Follows(s, key) => DateOf(s) = DateOf(key)
         /\ Older(s, key) => DateOf(s) < DateOf(key)
         /\ DateOf(s) \in Nat
BY SlotsTyped DEF Before, Follows, Older, DateOf

\* One row is before another when its date is later.
LEMMA LaterFirst ==
  ASSUME NEW r \in Slots, NEW s \in Slots, DateOf(s) < DateOf(r)
  PROVE  Before(r, s)
BY SlotsTyped DEF Before, DateOf

LEMMA AnswerStep ==
  ASSUME WalkInv, UNCHANGED <<walk, facts>>, request.pc # "none",
         NEW pc \in {"older", "reply"}, NEW rows \in SUBSET Slots,
         request' = [request EXCEPT !.pc = pc, !.rows = rows],
         \A r \in rows : After(r),
         pc = "older" =>
           /\ request.cursor # NoCursor /\ Cardinality(rows) < Target
           /\ \A r \in rows : DateOf(r) = DateOf(request.cursor.key)
           /\ \A s \in walk.steady : Follows(s, request.cursor.key) => s \in rows,
         pc = "reply" =>
           /\ Cardinality(rows) <= Target
           /\ \A s \in walk.steady : After(s) =>
                s \in rows \/ (Cardinality(rows) = Target /\ \A r \in rows : Before(r, s))
  PROVE  WalkInv'
<1>1. /\ request'.pc = pc /\ request'.rows = rows /\ request' \in Requests
      /\ UNCHANGED <<request.filter, request.cursor, request.limit>>
  BY DEF WalkInv, WalkTyped, Requests
<1>2. Target' = Target /\ \A s : After(s)' <=> After(s)
  BY <1>1 DEF Target, After
<1>3. WalkTyped' /\ WalkOK' /\ ListedOK'
  BY <1>1 DEF WalkInv, WalkTyped, WalkOK, ListedOK
<1>4. RequestOK'
  BY <1>1, <1>2 DEF WalkInv, RequestOK
<1>5. OlderOK'
  BY <1>1, <1>2 DEF OlderOK
<1>6. ReplyOK'
  BY <1>1, <1>2 DEF ReplyOK
<1>7. WalkGoesForward' /\ NothingIsSkipped'
  BY DEF WalkInv, WalkGoesForward, NothingIsSkipped
<1>8. QED
  BY <1>3, <1>4, <1>5, <1>6, <1>7 DEF WalkInv

LEMMA QueryStep ==
  ASSUME WalkInv, Query, UNCHANGED factVars
  PROVE  WalkInv'
<1> DEFINE matching == Matching(request.filter)
           key == request.cursor.key
           following == {r \in matching : Follows(r, key)}
           same == First(following, Target)
<1>1. /\ request.pc = "query" /\ UNCHANGED <<walk, facts>> /\ WalkTyped
      /\ walk.steady \subseteq matching /\ matching \in SUBSET Slots
      /\ Target \in Nat
  BY SteadyMatches, Domains DEF WalkInv, Query, factVars
<1>2. CASE request.cursor = NoCursor
  <2>1. request' = [request EXCEPT !.pc = "reply", !.rows = First(matching, Target)]
    BY <1>2 DEF Query, Answered
  <2>2. /\ First(matching, Target) \in SUBSET matching
        /\ Cardinality(First(matching, Target)) <= Target
        /\ \A s \in matching \ First(matching, Target) :
             /\ Cardinality(First(matching, Target)) = Target
             /\ \A r \in First(matching, Target) : Before(r, s)
    BY <1>1, FirstIs
  <2>3. \A r \in First(matching, Target) : After(r)
    BY <1>2 DEF After
  <2> HIDE DEF matching
  <2>4. QED
    BY <1>1, <2>1, <2>2, <2>3, AnswerStep
<1>3. CASE request.cursor # NoCursor
  <2>0. key \in Slots /\ following \in SUBSET Slots
    BY <1>1, <1>3, Domains
  <2>1. /\ same \in SUBSET following /\ Cardinality(same) \in Nat
        /\ Cardinality(same) <= Target
        /\ \A s \in following \ same : /\ Cardinality(same) = Target
                                       /\ \A r \in same : Before(r, s)
    <3> HIDE DEF following
    <3>1. QED
      BY <1>1, <2>0, FirstIs
  <2>2. same \in SUBSET Slots /\ \A r \in same : DateOf(r) = DateOf(key) /\ After(r)
    <3>1. \A r \in same : r \in Slots /\ Follows(r, key)
      BY <1>1, <2>0, <2>1
    <3>2. QED
      BY <2>0, <3>1, SameOrOlder DEF After
  <2>3. CASE Cardinality(same) = Target
    <3>1. request' = [request EXCEPT !.pc = "reply", !.rows = same]
      BY <1>3, <2>3 DEF Query, Answered
    <3>2. ASSUME NEW s \in walk.steady, After(s), s \notin same
          PROVE  \A r \in same : Before(r, s)
      <4>1. s \in matching /\ s \in Slots
        BY <1>1
      <4>2. CASE Follows(s, key)
        BY <2>1, <3>2, <4>1, <4>2
      <4>3. CASE Older(s, key)
        <5>1. \A r \in same : r \in Slots /\ DateOf(s) < DateOf(r)
          BY <2>0, <2>2, <4>1, <4>3, SameOrOlder
        <5>2. QED
          BY <4>1, <5>1, LaterFirst
      <4>4. QED
        BY <1>3, <2>0, <3>2, <4>1, <4>2, <4>3, SameOrOlder DEF After
    <3> HIDE DEF same
    <3>3. QED
      BY <1>1, <2>1, <2>2, <2>3, <3>1, <3>2, AnswerStep
  <2>4. CASE Cardinality(same) # Target
    <3>1. request' = [request EXCEPT !.pc = "older", !.rows = same]
      BY <1>3, <2>4 DEF Query, Answered
    <3>2. Cardinality(same) < Target
      BY <1>1, <2>1, <2>4
    <3>3. \A s \in walk.steady : Follows(s, key) => s \in same
      BY <1>1, <2>1, <2>4
    <3> HIDE DEF same
    <3>4. QED
      BY <1>1, <1>3, <2>2, <3>1, <3>2, <3>3, AnswerStep
  <2>5. QED
    BY <2>3, <2>4
<1>4. QED
  BY <1>2, <1>3

LEMMA QueryOlderStep ==
  ASSUME WalkInv, QueryOlder, UNCHANGED factVars
  PROVE  WalkInv'
<1> DEFINE key == request.cursor.key
           same == request.rows
           older == {r \in Matching(request.filter) : Older(r, key)}
           more == First(older, Remaining)
<1>1. /\ request.pc = "older" /\ UNCHANGED <<walk, facts>> /\ WalkTyped
      /\ walk.steady \subseteq Matching(request.filter)
      /\ Matching(request.filter) \in SUBSET Slots
      /\ Target \in Nat /\ same \in SUBSET Slots /\ Cardinality(same) \in Nat
      /\ request.cursor # NoCursor /\ key \in Slots /\ Cardinality(same) < Target
      /\ Remaining = Target - Cardinality(same) /\ Remaining \in Nat
      /\ request' = [request EXCEPT !.pc = "reply", !.rows = same \union more]
  <2>1. WalkTyped /\ request.pc = "older" /\ OlderOK
    BY DEF WalkInv, QueryOlder
  <2>2. /\ Target \in Nat /\ same \in SUBSET Slots /\ Cardinality(same) \in Nat
        /\ request.cursor # NoCursor /\ key \in Slots /\ Cardinality(same) < Target
    BY <2>1, Domains DEF OlderOK
  <2>3. QED
    BY <2>1, <2>2, SteadyMatches DEF QueryOlder, Answered, Remaining, factVars
<1>2. older \in SUBSET Slots /\ \A r \in older : r \in Slots /\ Older(r, key)
  BY <1>1
<1>3. /\ more \in SUBSET older /\ Cardinality(more) \in Nat /\ Cardinality(more) <= Remaining
      /\ \A s \in older \ more : /\ Cardinality(more) = Remaining
                                 /\ \A r \in more : Before(r, s)
  <2> HIDE DEF older
  <2>1. QED
    BY <1>1, <1>2, FirstIs
<1>4. \A r \in same : r \in Slots /\ DateOf(r) = DateOf(key)
  BY <1>1 DEF WalkInv, OlderOK
<1>5. \A r \in older : DateOf(r) < DateOf(key)
  BY <1>1, <1>2, SameOrOlder
<1>6. DateOf(key) \in Nat
  BY <1>1, SameOrOlder
<1> HIDE DEF older, more
<1>7. Cardinality(same \union more) = Cardinality(same) + Cardinality(more)
  <2>1. same \intersect more = {}
    BY <1>3, <1>4, <1>5, <1>6
  <2>2. IsFiniteSet(same) /\ IsFiniteSet(more)
    BY <1>1, <1>2, <1>3, Parts
  <2>3. Cardinality(same \union more) = Cardinality(same) + Cardinality(more) - Cardinality({})
    BY <2>1, <2>2, FS_Union
  <2>4. QED
    BY <1>1, <1>3, <2>3, FS_EmptySet
<1>8. \A r \in same \union more : After(r)
  <2>1. \A r \in more : After(r)
    BY <1>1, <1>2, <1>3, SameOrOlder DEF After
  <2>2. QED
    BY <1>1, <2>1 DEF WalkInv, RequestOK
<1>9. ASSUME NEW s \in walk.steady, After(s), s \notin same \union more
      PROVE  /\ Cardinality(same \union more) = Target
             /\ \A r \in same \union more : Before(r, s)
  <2>1. s \in Matching(request.filter) /\ s \in Slots
    BY <1>1
  <2>2. ~Follows(s, key)
    BY <1>1, <1>9 DEF WalkInv, OlderOK
  <2>3. Older(s, key)
    BY <1>1, <1>9, <2>1, <2>2, SameOrOlder DEF After
  <2>4. s \in older \ more
    BY <1>9, <2>1, <2>3 DEF older
  <2>5. Cardinality(same \union more) = Target
    BY <1>1, <1>3, <1>7, <2>4
  <2>6. \A r \in same : Before(r, s)
    BY <1>4, <1>5, <2>1, <2>4, LaterFirst
  <2>7. QED
    BY <1>3, <2>4, <2>5, <2>6
<1>10. same \union more \in SUBSET Slots /\ Cardinality(same \union more) <= Target
  BY <1>1, <1>2, <1>3, <1>7
<1>11. QED
  BY <1>1, <1>8, <1>9, <1>10, AnswerStep

LEMMA ReplyStep ==
  ASSUME WalkInv, Reply, UNCHANGED factVars
  PROVE  WalkInv'
<1> DEFINE rows == request.rows
           key == request.cursor.key
           items == First(rows, request.limit)
           more == HasMore(rows, request.limit)
           nextKey == Last(items)
           cursor == IF more /\ items # {}
                     THEN [key |-> nextKey, fingerprint |-> request.filter] ELSE NoCursor
<1>1. /\ WalkTyped /\ request.pc = "reply" /\ UNCHANGED facts /\ request' = NoRequest
      /\ walk' = [walk EXCEPT !.pages = Append(@, items), !.ended = ~more, !.next = cursor]
  BY DEF WalkInv, Reply, factVars
<1>2. /\ rows \in SUBSET Slots /\ Cardinality(rows) \in Nat
      /\ request.limit \in Nat /\ Target = request.limit + 1
      /\ more \in BOOLEAN /\ (more <=> Cardinality(rows) > request.limit)
      /\ request.cursor # NoCursor => key \in Slots
      /\ walk.pages \in Seq(SUBSET Slots) /\ walk.steady \in SUBSET Slots
  BY <1>1, Domains DEF HasMore
<1>3. /\ items \in SUBSET rows /\ items \in SUBSET Slots
      /\ Cardinality(items) \in Nat
      /\ items # rows => Cardinality(items) = request.limit
      /\ \A q \in items, r \in rows \ items : Before(q, r)
  BY <1>2, FirstIs
<1>4. items # {} => nextKey \in items /\ nextKey \in Slots
                    /\ \A q \in items \ {nextKey} : Before(q, nextKey)
  BY <1>3, LastExists
<1>5. ~more => items = rows
  <2>1. CASE items # rows
    BY <1>2, <1>3, <2>1, Parts
  <2>2. QED
    BY <2>1
<1>6. /\ request.filter \in Filters
      /\ request.filter = walk.filter /\ request.cursor = walk.next
      /\ request.cursor = NoCursor => walk.pages = <<>> /\ ~walk.ended
      /\ request.cursor # NoCursor => ~walk.ended
      /\ \A r \in rows : After(r)
  BY <1>1 DEF WalkInv, RequestOK, WalkOK
<1> HIDE DEF items, nextKey, more
<1>7. cursor \in Cursors \union {NoCursor}
  <2>1. CASE more /\ items # {}
    <3>1. nextKey \in Slots
      BY <1>4, <2>1
    <3>2. QED
      BY <1>6, <2>1, <3>1 DEF Cursors
  <2>2. CASE ~(more /\ items # {})
    BY <2>2
  <2>3. QED
    BY <2>1, <2>2
<1>8. /\ walk'.pages = Append(walk.pages, items) /\ walk'.ended = ~more /\ walk'.next = cursor
      /\ more => walk'.ended = FALSE
      /\ ~more => walk'.ended = TRUE
      /\ UNCHANGED <<walk.filter, walk.steady>>
      /\ walk' \in Walks
  <2>1. walk \in Walks /\ Append(walk.pages, items) \in Seq(SUBSET Slots)
    BY <1>1, <1>2, <1>3 DEF WalkTyped
  <2>2. (~more) \in BOOLEAN
    OBVIOUS
  <2>3. (more => (~more) = FALSE) /\ (~more => (~more) = TRUE)
    OBVIOUS
  <2> DEFINE ended == ~more
  <2> HIDE DEF cursor, ended
  <2>4. walk' = [walk EXCEPT !.pages = Append(@, items), !.ended = ended, !.next = cursor]
    BY <1>1 DEF ended
  <2>5. ended \in BOOLEAN /\ (more => ended = FALSE) /\ (~more => ended = TRUE)
    BY <2>2, <2>3 DEF ended
  <2>6. /\ walk'.pages = Append(walk.pages, items) /\ walk'.ended = ended /\ walk'.next = cursor
        /\ UNCHANGED <<walk.filter, walk.steady>>
        /\ walk' \in Walks
    BY <1>7, <2>1, <2>4, <2>5 DEF Walks
  <2>7. QED
    BY <2>5, <2>6 DEF ended
<1>9. /\ Len(walk.pages) \in Nat /\ Len(walk'.pages) = Len(walk.pages) + 1
      /\ DOMAIN walk.pages = 1..Len(walk.pages)
      /\ DOMAIN walk'.pages = 1..(Len(walk.pages) + 1)
      /\ \A i \in 1..Len(walk.pages) : /\ walk'.pages[i] = walk.pages[i]
                                       /\ walk.pages[i] \in SUBSET Slots
      /\ walk'.pages[Len(walk.pages) + 1] = items
  BY <1>2, <1>3, <1>8
\* Earlier pages end before the rows of this one.
<1>10. ASSUME NEW i \in 1..Len(walk.pages), NEW a \in walk.pages[i], NEW b \in rows
       PROVE  Before(a, b) /\ a \in Slots /\ b \in Slots
  <2>1. request.cursor # NoCursor
    BY <1>2, <1>6, <1>9
  <2>2. a \in Slots /\ b \in Slots /\ key \in Slots /\ Before(key, b)
    BY <1>2, <1>6, <1>9, <2>1 DEF After
  <2>3. a = key \/ Before(a, key)
    BY <1>6, <1>9, <2>1 DEF WalkInv, ListedOK
  <2>4. QED
    BY <2>2, <2>3, BeforeOrders
<1>11. WalkTyped' /\ RequestOK' /\ OlderOK' /\ ReplyOK'
  BY <1>1, <1>8, NoRequestTyped DEF WalkTyped, RequestOK, OlderOK, ReplyOK
<1>12. WalkOK'
  <2>1. \A s \in walk'.steady : s \in walk'.filter /\ facts'[s] > 0
    BY <1>1, <1>8 DEF WalkInv, WalkOK
  <2>2. ASSUME walk'.next # NoCursor
        PROVE  walk'.next.fingerprint = walk'.filter /\ ~walk'.ended
    BY <1>6, <1>8, <2>2
  <2>3. QED
    BY <2>1, <2>2 DEF WalkOK
<1>13. ListedOK'
  <2> SUFFICES ASSUME walk'.next # NoCursor, NEW i \in 1..(Len(walk.pages) + 1),
                      NEW a \in walk'.pages[i]
               PROVE  a = walk'.next.key \/ Before(a, walk'.next.key)
    BY <1>9 DEF ListedOK
  <2>1. items # {} /\ walk'.next.key = nextKey
    BY <1>8
  <2>2. CASE i = Len(walk.pages) + 1
    BY <1>4, <1>9, <2>1, <2>2
  <2>3. CASE i # Len(walk.pages) + 1
    <3>1. i \in 1..Len(walk.pages) /\ a \in walk.pages[i]
      BY <1>9, <2>3
    <3>2. nextKey \in rows
      BY <1>3, <1>4, <2>1
    <3>3. QED
      BY <1>10, <2>1, <3>1, <3>2
  <2>4. QED
    BY <2>2, <2>3
<1>14. WalkGoesForward'
  <2> SUFFICES ASSUME NEW i \in 1..(Len(walk.pages) + 1), NEW j \in 1..(Len(walk.pages) + 1),
                      i < j, NEW a \in walk'.pages[i], NEW b \in walk'.pages[j]
               PROVE  Before(a, b)
    BY <1>9 DEF WalkGoesForward
  <2>1. i \in 1..Len(walk.pages) /\ a \in walk.pages[i]
    BY <1>9
  <2>2. CASE j = Len(walk.pages) + 1
    <3>1. b \in rows
      BY <1>3, <1>9, <2>2
    <3>2. QED
      BY <1>10, <2>1, <3>1
  <2>3. CASE j # Len(walk.pages) + 1
    <3>1. j \in 1..Len(walk.pages) /\ b \in walk.pages[j]
      BY <1>9, <2>3
    <3>2. QED
      BY <1>9, <2>1, <3>1 DEF WalkInv, WalkGoesForward
  <2>4. QED
    BY <2>2, <2>3
<1>15. NothingIsSkipped'
  <2> DEFINE passed(s) == walk'.ended \/ (walk'.next # NoCursor /\ ~Before(walk'.next.key, s))
             listed == UNION {walk'.pages[i] : i \in DOMAIN walk'.pages}
  <2>1. items \subseteq listed /\ Listed \subseteq listed
    BY <1>9 DEF Listed
  <2>2. ASSUME NEW s \in walk.steady, passed(s), ~After(s)
        PROVE  s \in Listed
    <3>1. walk.next # NoCursor /\ ~Before(walk.next.key, s)
      BY <1>6, <2>2 DEF After
    <3>2. NothingIsSkipped
      BY DEF WalkInv
    <3>3. QED
      BY <3>1, <3>2, SkippedNone
  <2>3. ASSUME NEW s \in walk.steady, passed(s), After(s)
        PROVE  s \in items
    <3>1. \/ s \in rows
          \/ Cardinality(rows) = Target /\ \A r \in rows : Before(r, s)
      BY <1>1, <2>3 DEF WalkInv, ReplyOK
    <3>2. CASE ~more
      BY <1>2, <1>5, <3>1, <3>2
    <3>3. CASE more
      <4>1. items # {} /\ walk'.next.key = nextKey /\ ~Before(nextKey, s)
        BY <1>8, <2>3, <3>3
      <4>2. nextKey \in items /\ nextKey \in rows
        BY <1>3, <1>4, <4>1
      <4>3. QED
        BY <1>3, <3>1, <4>1, <4>2
    <3>4. QED
      BY <1>2, <3>2, <3>3
  <2>4. \A s \in walk'.steady : passed(s) => s \in listed
    BY <1>8, <2>1, <2>2, <2>3
  <2>5. QED
    BY <2>4 DEF NothingIsSkipped
<1>16. QED
  BY <1>11, <1>12, <1>13, <1>14, <1>15 DEF WalkInv

\* A refresh may take steady rows away, and adds none.
LEMMA RefreshKeepsWalk ==
  ASSUME WalkInv, Refresh
  PROVE  WalkInv'
<1>1. /\ WalkTyped /\ request' = request
      /\ walk' = [walk EXCEPT !.steady = {s \in @ : facts'[s] > 0}]
  BY DEF WalkInv, Refresh, WalkSeesRefresh
<1>2. /\ walk' \in Walks /\ walk'.steady = {s \in walk.steady : facts'[s] > 0}
      /\ UNCHANGED <<walk.filter, walk.pages, walk.next, walk.ended>>
  BY <1>1 DEF WalkTyped, Walks
<1>3. Target' = Target /\ \A s : After(s)' <=> After(s)
  BY <1>1 DEF Target, After
<1>4. WalkTyped' /\ WalkOK' /\ ListedOK'
  BY <1>1, <1>2 DEF WalkInv, WalkTyped, WalkOK, ListedOK
<1>5. RequestOK' /\ OlderOK' /\ ReplyOK'
  BY <1>1, <1>2, <1>3 DEF WalkInv, RequestOK, OlderOK, ReplyOK
<1>6. WalkGoesForward'
  BY <1>2 DEF WalkInv, WalkGoesForward
<1>7. NothingIsSkipped'
  BY <1>2 DEF WalkInv, NothingIsSkipped
<1>8. QED
  BY <1>4, <1>5, <1>6, <1>7 DEF WalkInv

-----------------------------------------------------------------------------
(* Theorems about walks                                                    *)

LEMMA WalkStep == WalkInv /\ [Next]_vars => WalkInv'
<1> SUFFICES ASSUME WalkInv, [Next]_vars
             PROVE  WalkInv'
  OBVIOUS
<1>1. CASE RequestStep /\ UNCHANGED <<factVars, exportVars>>
  <2>1. UNCHANGED factVars
    BY <1>1
  <2>2. CASE RequestFails
    <3>1. request' = NoRequest /\ UNCHANGED <<walk, facts>>
      BY <2>1, <2>2 DEF RequestFails, factVars
    <3>2. QED
      BY <3>1, NoRequestStep
  <2>3. QED
    BY <1>1, <2>1, <2>2, StartStep, ContinueStep, QueryStep, QueryOlderStep, ReplyStep
    DEF RequestStep
<1>2. CASE UNCHANGED <<factVars, paginationVars>>
  <2>1. UNCHANGED <<facts, request, walk>>
    BY <1>2 DEF factVars, paginationVars
  <2>2. Target' = Target /\ \A s : After(s)' <=> After(s)
    BY <2>1 DEF Target, After
  <2>3. QED
    BY <2>1, <2>2 DEF WalkInv, WalkTyped, WalkOK, RequestOK, OlderOK, ReplyOK, ListedOK,
      WalkGoesForward, NothingIsSkipped
<1>3. QED
  BY <1>1, <1>2, RefreshKeepsWalk DEF Next, vars

LEMMA WalkInvariant == Spec => []WalkInv
<1>1. QED
  BY InitWalk, WalkStep, PTL DEF Spec

\* Requests and walks are well typed.
THEOREM PaginationTyped == Spec => []PaginationTypeOK
<1>1. WalkInv => PaginationTypeOK
  BY DEF WalkInv, WalkTyped, Requests, Walks, WalkOK, PaginationTypeOK
<1>2. QED
  BY <1>1, WalkInvariant, PTL

\* A walk never lists a row twice or out of order, whatever refreshes commit
\* between its pages and between the two queries of a page.
THEOREM WalksGoForward == Spec => []WalkGoesForward
<1>1. WalkInv => WalkGoesForward
  BY DEF WalkInv
<1>2. QED
  BY <1>1, WalkInvariant, PTL

\* Rows that stay are never skipped, at any page size.
THEOREM WalksSkipNothing == Spec => []NothingIsSkipped
<1>1. WalkInv => NothingIsSkipped
  BY DEF WalkInv
<1>2. QED
  BY <1>1, WalkInvariant, PTL

-----------------------------------------------------------------------------
(***************************************************************************)
(* The export.                                                             *)
(***************************************************************************)
(* What a run knows at each place on its way                               *)

ReportsSet == [facts : [Slots -> 0..MaxCount], incidents : Nat]

ExportStates ==
  {"idle", "daily", "others", "write", "swap", "swapIn", "check", "incoming",
   "moveAside", "moveIn", "clean"}

JobType ==
  job \in [pc : ExportStates, result : {"none", "ok", "failed"}, since : Nat,
           snapshot : ReportsSet, read : ReportsSet, staging : {job.staging},
           aside : {job.aside}, incoming : {job.incoming}, backup : {job.backup}]

RunTyped ==
  /\ facts \in [Slots -> 0..MaxCount]
  /\ generation \in Nat
  /\ JobType

\* The reports of a run are those of one commit, not older than its beginning; it
\* has no result while it is under way.
SnapshotOK ==
  /\ job.pc # "idle" => job.result = "none"
  /\ job.since <= generation
  /\ job.pc \notin {"idle", "daily"} => job.since <= job.snapshot.incidents
  /\ job.pc = "others" => job.read.facts = job.snapshot.facts
  /\ job.pc \notin {"idle", "daily", "others"} => job.read = job.snapshot

\* The first files of FileOrder.
Begun == {{}, {"daily_reliability"}, {"daily_reliability", "incidents"},
          {"daily_reliability", "incidents", "agent_performance"}}

Written == [f \in DOMAIN job.staging |-> Bundle(job.read)[f]]

\* Staging holds the first files of the bundle, and all of them when it is swapped.
StagingOK ==
  /\ job.pc \in {"idle", "daily", "others"} => job.staging = Empty
  /\ job.pc = "write" => DOMAIN job.staging \in Begun /\ job.staging = Written
  /\ job.pc \in {"swap", "swapIn", "check", "incoming", "moveAside", "moveIn", "clean"}
       => job.staging = Bundle(job.read)

\* Where the run's directories are.
PlacesOK ==
  /\ job.pc \in {"check", "incoming"} => next = {job.staging}
  /\ job.pc \in {"moveAside", "moveIn"} => job.incoming = {job.staging}
  /\ job.pc \notin {"moveIn", "clean"} => job.backup = {}
  /\ job.pc = "moveIn" => output = {}
  /\ job.pc = "clean" => /\ output = {job.staging}
                         /\ published = {[bundle |-> job.staging, of |-> job.snapshot]}

\* A directory that is, or may be put back, in place.
Whole(dir) == dir = Empty \/ \E p \in published : dir = p.bundle /\ dir = Bundle(p.of)

\* What MoveInFails would put back is as good as what was in place.
BackupWhole == job.pc = "moveIn" => \A dir \in job.backup : Whole(dir)

RunInv ==
  /\ RunTyped
  /\ SnapshotOK
  /\ StagingOK
  /\ PlacesOK
  /\ BackupWhole
  /\ OutputIsOneSnapshot
  /\ PublishedSurvives
  /\ SuccessIsFresh

-----------------------------------------------------------------------------
LEMMA NoReportsTyped == NoReports \in ReportsSet /\ IdleJob.snapshot = NoReports
BY FactsAssumption DEF NoReports, ReportsSet, IdleJob

LEMMA BundleOf ==
  ASSUME NEW r
  PROVE  Bundle(r)["incidents"] = r.incidents /\ DOMAIN Bundle(r) = Files
BY DEF Bundle, Files, FileOrder

LEMMA InitRun == Init => RunInv
<1> SUFFICES ASSUME Init
             PROVE  RunInv
  OBVIOUS
<1>1. /\ facts \in [Slots -> 0..MaxCount] /\ generation = 1
      /\ output = {} /\ job = IdleJob /\ published = {}
  BY DEF Init, FactsInit, ExportInit
<1>2. RunTyped
  BY <1>1, NoReportsTyped DEF RunTyped, JobType, IdleJob, ExportStates
<1>3. /\ job.pc = "idle" /\ job.since = 0 /\ job.backup = {} /\ job.result = "none"
      /\ job.staging = Empty
  BY <1>1 DEF IdleJob
<1>4. QED
  BY <1>1, <1>2, <1>3 DEF RunInv, SnapshotOK, StagingOK, PlacesOK, BackupWhole,
    OutputIsOneSnapshot, PublishedSurvives, SuccessIsFresh

-----------------------------------------------------------------------------
(* One lemma per action                                                    *)

LEMMA BeginStep ==
  ASSUME RunInv, Begin, UNCHANGED factVars
  PROVE  RunInv'
<1>1. /\ job.pc = "idle" /\ job.backup = {}
      /\ output' = (IF output = {} THEN {Empty} ELSE output)
      /\ job' = [IdleJob EXCEPT !.pc = "daily", !.since = generation]
      /\ UNCHANGED <<next, backups, published, facts, generation>>
  BY DEF RunInv, PlacesOK, Begin, factVars
<1>2. /\ job'.pc = "daily" /\ job'.since = generation /\ job'.result = "none"
      /\ job'.staging = Empty /\ job'.backup = {}
  BY <1>1 DEF IdleJob
<1>3. RunTyped'
  BY <1>1, NoReportsTyped DEF RunInv, RunTyped, JobType, IdleJob, ExportStates
<1>4. SnapshotOK' /\ StagingOK' /\ PlacesOK' /\ BackupWhole'
  BY <1>1, <1>2, <1>3 DEF RunTyped, SnapshotOK, StagingOK, PlacesOK, BackupWhole
<1>5. OutputIsOneSnapshot'
  BY <1>1 DEF RunInv, OutputIsOneSnapshot
<1>6. PublishedSurvives' /\ SuccessIsFresh'
  BY <1>1, <1>2 DEF RunInv, PublishedSurvives, SuccessIsFresh
<1>7. QED
  BY <1>3, <1>4, <1>5, <1>6 DEF RunInv

LEMMA ReadStep ==
  ASSUME RunInv, ReadDaily \/ ReadOthers, UNCHANGED factVars
  PROVE  RunInv'
<1>1. RunTyped /\ UNCHANGED <<output, next, backups, published, facts, generation>>
  BY DEF RunInv, ReadDaily, ReadOthers, factVars
<1>2. CASE ReadDaily
  <2>1. /\ job.pc = "daily"
        /\ job' = [job EXCEPT !.pc = "others", !.snapshot = Now, !.read.facts = facts]
    BY <1>2 DEF ReadDaily
  <2>2. /\ Now \in ReportsSet /\ Now.facts = facts /\ Now.incidents = generation
        /\ [job.read EXCEPT !.facts = facts] \in ReportsSet
        /\ [job.read EXCEPT !.facts = facts].facts = facts
    BY <1>1 DEF RunTyped, JobType, Now, ReportsSet
  <2>3. /\ job'.pc = "others" /\ job'.snapshot = Now /\ job'.read.facts = facts
        /\ UNCHANGED <<job.since, job.result, job.staging, job.backup>>
    BY <1>1, <2>1, <2>2 DEF RunTyped, JobType
  <2>4. JobType'
    BY <1>1, <2>1, <2>2 DEF RunTyped, JobType, ExportStates
  <2>5. RunTyped'
    BY <1>1, <2>4 DEF RunTyped
  <2>6. SnapshotOK' /\ StagingOK' /\ PlacesOK' /\ BackupWhole'
    BY <1>1, <2>1, <2>2, <2>3 DEF RunInv, SnapshotOK, StagingOK, PlacesOK, BackupWhole
  <2>7. OutputIsOneSnapshot' /\ PublishedSurvives' /\ SuccessIsFresh'
    BY <1>1, <2>3 DEF RunInv, OutputIsOneSnapshot, PublishedSurvives, SuccessIsFresh
  <2>8. QED
    BY <2>5, <2>6, <2>7 DEF RunInv
<1>3. CASE ReadOthers
  <2>1. /\ job.pc = "others"
        /\ job' = [job EXCEPT !.pc = "write", !.read.incidents = job.snapshot.incidents]
    BY <1>3 DEF ReadOthers, Visible
  <2>2. /\ job.read \in ReportsSet /\ job.snapshot \in ReportsSet
        /\ job.read.facts = job.snapshot.facts
        /\ [job.read EXCEPT !.incidents = job.snapshot.incidents] = job.snapshot
    BY <1>1, <2>1 DEF RunInv, RunTyped, JobType, SnapshotOK, ReportsSet
  <2>3. /\ job'.pc = "write" /\ job'.read = job.snapshot
        /\ UNCHANGED <<job.snapshot, job.since, job.result, job.staging, job.backup>>
    BY <1>1, <2>1, <2>2 DEF RunTyped, JobType
  <2>4. JobType'
    BY <1>1, <2>1, <2>2 DEF RunTyped, JobType, ExportStates
  <2>5. RunTyped'
    BY <1>1, <2>4 DEF RunTyped
  <2>6. SnapshotOK' /\ PlacesOK' /\ BackupWhole'
    BY <1>1, <2>1, <2>3 DEF RunInv, SnapshotOK, PlacesOK, BackupWhole
  <2>7. StagingOK'
    <3>1. job'.staging = Empty
      BY <2>1, <2>3 DEF RunInv, StagingOK
    <3>2. DOMAIN Empty = {} /\ Empty = [f \in DOMAIN Empty |-> Bundle(job.read)'[f]]
      BY DEF Empty
    <3>3. Written' = [f \in DOMAIN job'.staging |-> Bundle(job.read)'[f]]
      BY DEF Written
    <3>4. QED
      BY <2>3, <3>1, <3>2, <3>3 DEF StagingOK, Begun
  <2>8. OutputIsOneSnapshot' /\ PublishedSurvives' /\ SuccessIsFresh'
    BY <1>1, <2>3 DEF RunInv, OutputIsOneSnapshot, PublishedSurvives, SuccessIsFresh
  <2>9. QED
    BY <2>5, <2>6, <2>7, <2>8 DEF RunInv
<1>4. QED
  BY <1>2, <1>3

\* Files are written in the order of FileOrder.
LEMMA NextFile ==
  ASSUME NEW written \in Begun
  PROVE  LET file == FileOrder[Cardinality(written) + 1] IN
         /\ written \union {file} \in Begun \union {Files}
         /\ file \in Files
<1> DEFINE a == "daily_reliability" b == "incidents" c == "agent_performance"
           d == "pipeline_health"
<1>1. Cardinality({}) = 0 /\ IsFiniteSet({})
  BY FS_EmptySet
<1>2. Cardinality({a}) = 1 /\ IsFiniteSet({a})
  BY FS_Singleton
<1>3. Cardinality({a, b}) = 2 /\ IsFiniteSet({a, b})
  <2>1. {a, b} = {a} \union {b} /\ b \notin {a}
    OBVIOUS
  <2>2. QED
    BY <1>2, <2>1, FS_AddElement
<1>4. Cardinality({a, b, c}) = 3
  <2>1. {a, b, c} = {a, b} \union {c} /\ c \notin {a, b}
    OBVIOUS
  <2>2. QED
    BY <1>3, <2>1, FS_AddElement
<1>5. FileOrder[1] = a /\ FileOrder[2] = b /\ FileOrder[3] = c /\ FileOrder[4] = d
  BY DEF FileOrder
<1>6. Files = {a, b, c, d}
  <2>1. DOMAIN FileOrder = 1..4
    BY DEF FileOrder
  <2>2. DOMAIN FileOrder = {1, 2, 3, 4}
    BY <2>1
  <2>3. QED
    BY <1>5, <2>2 DEF Files
<1>7. written \in {{}, {a}, {a, b}, {a, b, c}}
  BY DEF Begun
<1>8. QED
  BY <1>1, <1>2, <1>3, <1>4, <1>5, <1>6, <1>7 DEF Begun

LEMMA WriteStep ==
  ASSUME RunInv, WriteFile, UNCHANGED factVars
  PROVE  RunInv'
<1> DEFINE written == DOMAIN job.staging
           file == FileOrder[Cardinality(written) + 1]
           staging == [f \in written \union {file} |-> Bundle(job.read)[f]]
           pc == IF written \union {file} = Files THEN "swap" ELSE "write"
<1>1. /\ RunTyped /\ job.pc = "write" /\ written \in Begun
      /\ job' = [job EXCEPT !.staging = staging, !.pc = pc]
      /\ UNCHANGED <<output, next, backups, published, facts, generation>>
  BY DEF RunInv, StagingOK, WriteFile, factVars
<1>2. written \union {file} \in Begun \union {Files}
  BY <1>1, NextFile
<1> HIDE DEF written, file
<1>3. /\ job'.pc = pc /\ job'.staging = staging /\ pc \in {"swap", "write"}
      /\ UNCHANGED <<job.snapshot, job.read, job.since, job.result, job.backup>>
  BY <1>1 DEF RunTyped, JobType
<1>4. RunTyped'
  <2>1. JobType'
    BY <1>1, <1>3 DEF RunTyped, JobType, ExportStates
  <2>2. QED
    BY <1>1, <2>1 DEF RunTyped
<1>5. SnapshotOK' /\ PlacesOK' /\ BackupWhole'
  BY <1>1, <1>3 DEF RunInv, SnapshotOK, PlacesOK, BackupWhole
<1>6. StagingOK'
  <2>1. DOMAIN staging = written \union {file}
    OBVIOUS
  <2>2. Bundle(job.read)' = Bundle(job.read)
    BY <1>3
  <2>3. CASE pc = "write"
    <3>1. DOMAIN staging \in Begun
      BY <1>2, <2>1, <2>3
    <3>2. Written' = staging
      BY <1>3, <2>1, <2>2 DEF Written
    <3>3. QED
      BY <1>3, <2>3, <3>1, <3>2 DEF StagingOK
  <2>4. CASE pc = "swap"
    <3>1. staging = [f \in Files |-> Bundle(job.read)[f]]
      BY <2>4
    <3>2. staging = Bundle(job.read)
      BY <3>1 DEF Bundle
    <3>3. QED
      BY <1>3, <2>2, <2>4, <3>2 DEF StagingOK
  <2>5. QED
    BY <2>3, <2>4
<1>7. OutputIsOneSnapshot' /\ PublishedSurvives' /\ SuccessIsFresh'
  <2>1. job.result' = job.result /\ job.result # "ok" => job'.result # "ok"
    BY <1>3
  <2>2. QED
    BY <1>1, <1>3, <2>1 DEF RunInv, OutputIsOneSnapshot, PublishedSurvives, SuccessIsFresh
<1>8. QED
  BY <1>4, <1>5, <1>6, <1>7 DEF RunInv

LEMMA SwapStep ==
  ASSUME RunInv, SwapAside \/ SwapIn, UNCHANGED factVars
  PROVE  RunInv'
<1>1. RunTyped /\ UNCHANGED <<output, backups, published, facts, generation>>
  BY DEF RunInv, SwapAside, SwapIn, factVars
<1>2. /\ job.pc \in {"swap", "swapIn"} /\ job'.pc \in {"swapIn", "check"}
      /\ job'.pc = "check" => next' = {job.staging}
      /\ UNCHANGED <<job.staging, job.read, job.snapshot, job.since, job.result, job.backup>>
      /\ JobType'
  <2>1. CASE SwapAside
    BY <1>1, <2>1 DEF SwapAside, RunTyped, JobType, ExportStates
  <2>2. CASE SwapIn
    BY <1>1, <2>2 DEF SwapIn, RunTyped, JobType, ExportStates
  <2>3. QED
    BY <2>1, <2>2
<1>3. RunTyped'
  BY <1>1, <1>2 DEF RunTyped
<1>4. SnapshotOK' /\ PlacesOK' /\ BackupWhole'
  BY <1>1, <1>2 DEF RunInv, SnapshotOK, PlacesOK, BackupWhole
<1>5. StagingOK'
  <2>1. Bundle(job.read)' = Bundle(job.read)
    BY <1>2
  <2>2. QED
    BY <1>2, <2>1 DEF RunInv, StagingOK
<1>6. OutputIsOneSnapshot' /\ PublishedSurvives' /\ SuccessIsFresh'
  BY <1>1, <1>2 DEF RunInv, OutputIsOneSnapshot, PublishedSurvives, SuccessIsFresh
<1>7. QED
  BY <1>3, <1>4, <1>5, <1>6 DEF RunInv

\* A run that ends without success leaves what was published where it is, or has
\* put it back.
LEMMA EndsEarly ==
  ASSUME RunInv, UNCHANGED <<backups, published, facts, generation>>,
         job' = AfterFailure,
         \/ job.pc \notin {"moveIn", "clean"} /\ output' = output
         \/ job.pc = "moveIn" /\ output' = job.backup
  PROVE  RunInv'
<1>1. /\ job'.pc = "idle" /\ job'.result = "failed" /\ job'.since = 0 /\ job'.backup = {}
      /\ job'.staging = Empty /\ JobType'
  BY NoReportsTyped DEF AfterFailure, IdleJob, JobType, ExportStates
<1>2. RunTyped'
  BY <1>1 DEF RunInv, RunTyped
<1>3. SnapshotOK' /\ StagingOK' /\ PlacesOK' /\ BackupWhole' /\ SuccessIsFresh'
  BY <1>1 DEF RunInv, RunTyped, SnapshotOK, StagingOK, PlacesOK, BackupWhole, SuccessIsFresh
<1>4. OutputIsOneSnapshot'
  BY DEF RunInv, OutputIsOneSnapshot, BackupWhole, Whole
<1>5. PublishedSurvives'
  BY DEF RunInv, PlacesOK, PublishedSurvives
<1>6. QED
  BY <1>2, <1>3, <1>4, <1>5 DEF RunInv

LEMMA FailStep ==
  ASSUME RunInv, ExportFails \/ PromotionFails \/ MoveInFails, UNCHANGED factVars
  PROVE  RunInv'
<1>1. /\ job' = AfterFailure /\ UNCHANGED <<backups, published, facts, generation>>
      /\ \/ job.pc \notin {"moveIn", "clean"} /\ output' = output
         \/ job.pc = "moveIn" /\ output' = job.backup
  BY DEF ExportFails, PromotionFails, MoveInFails, Restore, factVars
<1>2. QED
  BY <1>1, EndsEarly

LEMMA CheckStep ==
  ASSUME RunInv, Check, UNCHANGED factVars
  PROVE  RunInv'
<1>1. /\ RunTyped /\ job.pc = "check" /\ UNCHANGED <<output, next, backups, published, facts, generation>>
      /\ job' = [job EXCEPT !.pc = "incoming"] \/ job' = AfterFailure
  BY DEF RunInv, Check, factVars
<1>2. CASE job' = AfterFailure
  BY <1>1, <1>2, EndsEarly
<1>3. CASE job' = [job EXCEPT !.pc = "incoming"]
  <2>1. /\ job'.pc = "incoming" /\ JobType'
        /\ UNCHANGED <<job.staging, job.read, job.snapshot, job.since, job.result, job.backup>>
    BY <1>1, <1>3 DEF RunTyped, JobType, ExportStates
  <2>2. Bundle(job.read)' = Bundle(job.read)
    BY <2>1
  <2>3. RunTyped' /\ SnapshotOK' /\ PlacesOK' /\ BackupWhole'
    BY <1>1, <2>1 DEF RunInv, RunTyped, SnapshotOK, PlacesOK, BackupWhole
  <2>4. StagingOK'
    BY <1>1, <2>1, <2>2 DEF RunInv, StagingOK
  <2>5. OutputIsOneSnapshot' /\ PublishedSurvives' /\ SuccessIsFresh'
    BY <1>1, <2>1 DEF RunInv, OutputIsOneSnapshot, PublishedSurvives, SuccessIsFresh
  <2>6. QED
    BY <2>3, <2>4, <2>5 DEF RunInv
<1>4. QED
  BY <1>1, <1>2, <1>3

\* incoming and the output leave their places.
LEMMA AsideStep ==
  ASSUME RunInv, TakeIncoming \/ MoveAside, UNCHANGED factVars
  PROVE  RunInv'
<1>1. RunTyped /\ UNCHANGED <<backups, published, facts, generation>>
  BY DEF RunInv, TakeIncoming, MoveAside, factVars
<1>2. /\ job.pc \in {"incoming", "moveAside"} /\ job'.pc \in {"moveAside", "moveIn"}
      /\ job'.incoming = {job.staging} /\ JobType'
      /\ UNCHANGED <<job.staging, job.read, job.snapshot, job.since, job.result>>
      /\ \/ job'.pc = "moveAside" /\ output' = output /\ job'.backup = job.backup
         \/ job'.pc = "moveIn" /\ output' = {} /\ job'.backup = output
      /\ job.result # "ok"
  <2>1. job.result # "ok" /\ job.backup = {} /\ job.pc \in {"incoming", "moveAside"}
    BY DEF RunInv, SnapshotOK, PlacesOK, TakeIncoming, MoveAside
  <2>2. CASE TakeIncoming
    BY <1>1, <2>1, <2>2 DEF RunInv, PlacesOK, TakeIncoming, RunTyped, JobType, ExportStates
  <2>3. CASE MoveAside
    BY <1>1, <2>1, <2>3 DEF RunInv, PlacesOK, MoveAside, RunTyped, JobType, ExportStates
  <2>4. QED
    BY <2>2, <2>3
<1>3. RunTyped' /\ SnapshotOK' /\ PlacesOK'
  BY <1>1, <1>2 DEF RunInv, RunTyped, SnapshotOK, PlacesOK
<1>4. StagingOK'
  <2>1. Bundle(job.read)' = Bundle(job.read)
    BY <1>2
  <2>2. QED
    BY <1>2, <2>1 DEF RunInv, StagingOK
<1>5. BackupWhole' /\ OutputIsOneSnapshot'
  BY <1>1, <1>2 DEF RunInv, BackupWhole, OutputIsOneSnapshot, Whole
<1>6. PublishedSurvives' /\ SuccessIsFresh'
  BY <1>1, <1>2 DEF RunInv, PlacesOK, PublishedSurvives, SuccessIsFresh
<1>7. QED
  BY <1>3, <1>4, <1>5, <1>6 DEF RunInv

LEMMA MoveInStep ==
  ASSUME RunInv, MoveIn, UNCHANGED factVars
  PROVE  RunInv'
<1> DEFINE p == [bundle |-> job.staging, of |-> job.snapshot]
<1>1. /\ RunTyped /\ job.pc = "moveIn" /\ job.incoming = {job.staging} /\ job.result = "none"
      /\ job.staging = Bundle(job.read) /\ job.read = job.snapshot
      /\ UNCHANGED <<next, backups, facts, generation>>
  BY DEF RunInv, SnapshotOK, StagingOK, PlacesOK, MoveIn, factVars
<1>2. output' = {job.staging} /\ published' = {p}
  BY <1>1 DEF MoveIn
<1>3. /\ job'.pc = "clean" /\ JobType'
      /\ UNCHANGED <<job.staging, job.read, job.snapshot, job.since, job.result, job.backup>>
  BY <1>1 DEF MoveIn, RunTyped, JobType, ExportStates
<1>4. RunTyped' /\ SnapshotOK' /\ PlacesOK' /\ BackupWhole'
  BY <1>1, <1>2, <1>3 DEF RunInv, RunTyped, SnapshotOK, PlacesOK, BackupWhole
<1>5. StagingOK'
  <2>1. Bundle(job.read)' = Bundle(job.read)
    BY <1>3
  <2>2. QED
    BY <1>1, <1>3, <2>1 DEF StagingOK
<1>6. OutputIsOneSnapshot'
  <2>1. p.bundle = job.staging /\ Bundle(p.of) = job.staging
    BY <1>1
  <2>2. OutputIsOneSnapshot' <=>
          \A dir \in output' : dir = Empty \/ \E r \in published' : dir = r.bundle /\ dir = Bundle(r.of)
    BY DEF OutputIsOneSnapshot, Empty
  <2>3. QED
    BY <1>2, <2>1, <2>2
<1>7. PublishedSurvives' /\ SuccessIsFresh'
  BY <1>1, <1>2, <1>3 DEF PublishedSurvives, SuccessIsFresh
<1>8. QED
  BY <1>4, <1>5, <1>6, <1>7 DEF RunInv

\* The incidents of a bundle are those of the reports it was made of.
LEMMA CleanStep ==
  ASSUME RunInv, Clean, UNCHANGED factVars
  PROVE  RunInv'
<1> DEFINE p == [bundle |-> job.staging, of |-> job.snapshot]
<1>1. /\ RunTyped /\ job.pc = "clean" /\ output = {job.staging} /\ published = {p}
      /\ job.staging = Bundle(job.snapshot) /\ job.since <= job.snapshot.incidents
      /\ job.since \in Nat /\ job.since <= generation
      /\ UNCHANGED <<output, next, backups, published, facts, generation>>
  BY DEF RunInv, RunTyped, JobType, SnapshotOK, StagingOK, PlacesOK, Clean, factVars
<1>2. job' = [IdleJob EXCEPT !.result = "ok", !.since = job.since]
  BY DEF Clean
<1>3. /\ job'.pc = "idle" /\ job'.result = "ok" /\ job'.since = job.since /\ job'.backup = {}
      /\ job'.staging = Empty
  BY <1>2 DEF IdleJob
<1>4. RunTyped'
  BY <1>1, <1>2, NoReportsTyped DEF RunTyped, JobType, IdleJob, ExportStates
<1>5. SnapshotOK' /\ StagingOK' /\ PlacesOK' /\ BackupWhole'
  BY <1>1, <1>3 DEF SnapshotOK, StagingOK, PlacesOK, BackupWhole
<1>6. OutputIsOneSnapshot'
  BY <1>1 DEF RunInv, OutputIsOneSnapshot
<1>7. PublishedSurvives'
  BY <1>1 DEF PublishedSurvives
<1>8. SuccessIsFresh'
  <2>1. p.bundle = job.staging /\ p.bundle["incidents"] = job.snapshot.incidents
    BY <1>1, BundleOf
  <2>2. QED
    BY <1>1, <1>3, <2>1 DEF SuccessIsFresh
<1>9. QED
  BY <1>4, <1>5, <1>6, <1>7, <1>8 DEF RunInv

LEMMA KilledStep ==
  ASSUME RunInv, Killed, UNCHANGED factVars
  PROVE  RunInv'
<1>1. /\ backups' = (IF job.pc = "clean" THEN backups ELSE backups \union job.backup)
      /\ job' = IdleJob
      /\ UNCHANGED <<output, next, published, facts, generation>>
  BY DEF Killed, factVars
<1>2. /\ job'.pc = "idle" /\ job'.result = "none" /\ job'.since = 0 /\ job'.backup = {}
      /\ job'.staging = Empty
  BY <1>1 DEF IdleJob
<1>3. RunTyped'
  BY <1>1, NoReportsTyped DEF RunInv, RunTyped, JobType, IdleJob, ExportStates
<1>4. SnapshotOK' /\ StagingOK' /\ PlacesOK' /\ BackupWhole' /\ SuccessIsFresh'
  BY <1>1, <1>2 DEF RunInv, RunTyped, SnapshotOK, StagingOK, PlacesOK, BackupWhole, SuccessIsFresh
<1>5. OutputIsOneSnapshot'
  BY <1>1 DEF RunInv, OutputIsOneSnapshot
<1>6. PublishedSurvives'
  <2>1. CASE job.pc = "clean"
    <3>1. \A p \in published : p.bundle \in output
      BY <2>1 DEF RunInv, PlacesOK
    <3>2. QED
      BY <1>1, <3>1 DEF PublishedSurvives
  <2>2. CASE job.pc # "clean"
    BY <1>1, <2>2 DEF RunInv, PublishedSurvives
  <2>3. QED
    BY <2>1, <2>2
<1>7. QED
  BY <1>3, <1>4, <1>5, <1>6 DEF RunInv

\* A refresh changes what later runs read, and nothing that this run has read.
LEMMA RefreshKeepsRun ==
  ASSUME RunInv, RefreshCommits, UNCHANGED exportVars
  PROVE  RunInv'
<1>1. /\ facts' \in [Slots -> 0..MaxCount] /\ generation' = generation + 1
      /\ UNCHANGED <<output, next, backups, job, published>>
  BY DEF RefreshCommits, exportVars
<1>2. RunTyped /\ generation \in Nat /\ job.since \in Nat /\ job.since <= generation
  BY DEF RunInv, RunTyped, JobType, SnapshotOK
<1>3. RunTyped'
  BY <1>1, <1>2 DEF RunTyped, JobType
<1>4. SnapshotOK'
  BY <1>1, <1>2 DEF RunInv, SnapshotOK
<1>5. StagingOK'
  BY <1>1 DEF RunInv, StagingOK, Written
<1>6. PlacesOK' /\ BackupWhole'
  BY <1>1 DEF RunInv, PlacesOK, BackupWhole, Whole
<1>7. OutputIsOneSnapshot' /\ PublishedSurvives' /\ SuccessIsFresh'
  BY <1>1 DEF RunInv, OutputIsOneSnapshot, PublishedSurvives, SuccessIsFresh
<1>8. QED
  BY <1>3, <1>4, <1>5, <1>6, <1>7 DEF RunInv

-----------------------------------------------------------------------------
(* The invariant of a run                                                  *)

LEMMA RunStep == RunInv /\ [Next]_vars => RunInv'
<1> SUFFICES ASSUME RunInv, [Next]_vars
             PROVE  RunInv'
  OBVIOUS
<1>1. CASE Refresh
  BY <1>1, RefreshKeepsRun DEF Refresh
<1>2. CASE ExportStep /\ UNCHANGED <<factVars, paginationVars>>
  BY <1>2, BeginStep, ReadStep, WriteStep, SwapStep, FailStep, CheckStep, AsideStep,
    MoveInStep, CleanStep, KilledStep DEF ExportStep
<1>3. CASE UNCHANGED <<factVars, exportVars>>
  <2>1. UNCHANGED <<facts, generation, output, next, backups, job, published>>
    BY <1>3 DEF factVars, exportVars
  <2>2. QED
    BY <2>1 DEF RunInv, RunTyped, JobType, SnapshotOK, StagingOK, Written, PlacesOK, BackupWhole,
      Whole, OutputIsOneSnapshot, PublishedSurvives, SuccessIsFresh
<1>4. QED
  BY <1>1, <1>2, <1>3 DEF Next, vars

LEMMA RunInvariant == Spec => []RunInv
<1>1. QED
  BY InitRun, RunStep, PTL DEF Spec

-----------------------------------------------------------------------------
(* Directories                                                             *)

AtMostOne(S) == \A a, b \in S : a = b

DirsOK ==
  /\ \A dir \in output \union next \union backups \union job.aside \union job.incoming
              \union job.backup : DOMAIN dir \subseteq Files
  /\ AtMostOne(output) /\ AtMostOne(next) /\ AtMostOne(job.aside)
  /\ AtMostOne(job.incoming) /\ AtMostOne(job.backup)
  /\ job.aside # {} => next = {}
  /\ job.pc # "swapIn" => job.aside = {}

LEMMA StagingFiles ==
  ASSUME RunInv
  PROVE  DOMAIN job.staging \subseteq Files /\ DOMAIN Empty \subseteq Files
<1>1. DOMAIN Empty \subseteq Files
  BY DEF Empty
<1>2. \A S \in Begun : S \subseteq Files
  <2>1. /\ FileOrder[1] = "daily_reliability" /\ FileOrder[2] = "incidents"
        /\ FileOrder[3] = "agent_performance" /\ DOMAIN FileOrder = 1..4
    BY DEF FileOrder
  <2>2. {"daily_reliability", "incidents", "agent_performance"} \subseteq Files
    BY <2>1 DEF Files
  <2>3. QED
    BY <2>2 DEF Begun
<1>3. DOMAIN Bundle(job.read) = Files
  BY BundleOf
<1>4. job.pc \in ExportStates
  BY DEF RunInv, RunTyped, JobType
<1>5. QED
  BY <1>1, <1>2, <1>3, <1>4 DEF RunInv, StagingOK, ExportStates

LEMMA DirsStep ==
  ASSUME RunInv, DirsOK, [Next]_vars
  PROVE  DirsOK'
<1>0. /\ RunTyped /\ DOMAIN job.staging \subseteq Files /\ DOMAIN Empty \subseteq Files
      /\ IdleJob.aside = {} /\ IdleJob.incoming = {} /\ IdleJob.backup = {}
      /\ IdleJob.pc = "idle"
  BY StagingFiles DEF RunInv, IdleJob
<1>1. CASE UNCHANGED exportVars
  BY <1>1 DEF exportVars, DirsOK, AtMostOne
<1>2. CASE Begin
  <2>1. job'.aside = {} /\ job'.incoming = {} /\ job'.backup = {}
    BY <1>2 DEF Begin, IdleJob
  <2>2. QED
    BY <1>0, <1>2, <2>1 DEF Begin, DirsOK, AtMostOne
<1>3. CASE ReadDaily \/ ReadOthers \/ WriteFile
  <2>1. /\ UNCHANGED <<output, next, backups, job.aside, job.incoming, job.backup>>
        /\ job.pc # "swapIn"
    BY <1>0, <1>3 DEF ReadDaily, ReadOthers, WriteFile, RunTyped, JobType
  <2>2. QED
    BY <2>1 DEF DirsOK, AtMostOne
<1>4. CASE SwapAside \/ SwapIn
  <2>1. /\ UNCHANGED <<output, backups, job.incoming, job.backup>>
        /\ \/ next' = {} /\ job'.aside = next /\ job'.pc = "swapIn"
           \/ next' = {job.staging} /\ job'.aside = {}
    BY <1>0, <1>4 DEF SwapAside, SwapIn, RunTyped, JobType
  <2>2. QED
    BY <1>0, <2>1 DEF DirsOK, AtMostOne
<1>5. CASE ExportFails \/ PromotionFails \/ MoveInFails
  <2>1. /\ job' = AfterFailure /\ UNCHANGED backups
        /\ output' \in {output, job.backup} /\ next' \in {next, next \union job.aside}
    BY <1>5 DEF ExportFails, PromotionFails, MoveInFails, Restore
  <2>2. job'.aside = {} /\ job'.incoming = {} /\ job'.backup = {}
    BY <2>1 DEF AfterFailure, IdleJob
  <2>3. AtMostOne(next')
    BY <2>1 DEF DirsOK, AtMostOne
  <2>4. AtMostOne(output')
    BY <2>1 DEF DirsOK
  <2>5. QED
    BY <2>1, <2>2, <2>3, <2>4 DEF DirsOK, AtMostOne
<1>6. CASE Check
  <2>1. UNCHANGED <<output, next, backups>> /\ job.pc = "check"
        /\ (job' = [job EXCEPT !.pc = "incoming"] \/ job' = AfterFailure)
    BY <1>6 DEF Check
  <2>2. CASE job' = AfterFailure
    <3>1. job'.aside = {} /\ job'.incoming = {} /\ job'.backup = {}
      BY <2>2 DEF AfterFailure, IdleJob
    <3>2. QED
      BY <2>1, <3>1 DEF DirsOK, AtMostOne
  <2>3. CASE job' = [job EXCEPT !.pc = "incoming"]
    <3>1. UNCHANGED <<job.aside, job.incoming, job.backup>>
      BY <1>0, <2>3 DEF RunTyped, JobType
    <3>2. QED
      BY <2>1, <3>1 DEF DirsOK, AtMostOne
  <2>4. QED
    BY <2>1, <2>2, <2>3
<1>7. CASE TakeIncoming \/ MoveAside
  <2>1. /\ UNCHANGED <<backups, job.aside>> /\ job.pc # "swapIn"
        /\ \/ /\ next' = {} /\ job'.incoming = next
              /\ UNCHANGED <<output, job.backup>>
           \/ /\ output' = {} /\ job'.backup = output
              /\ UNCHANGED <<next, job.incoming>>
    BY <1>0, <1>7 DEF TakeIncoming, MoveAside, RunTyped, JobType
  <2>2. QED
    BY <2>1 DEF DirsOK, AtMostOne
<1>8. CASE MoveIn
  <2>1. /\ output' = job.incoming /\ job.pc # "swapIn"
        /\ UNCHANGED <<next, backups, job.aside, job.incoming, job.backup>>
    BY <1>0, <1>8 DEF MoveIn, RunTyped, JobType
  <2>2. QED
    BY <2>1 DEF DirsOK, AtMostOne
<1>9. CASE Clean \/ Killed
  <2>1. job'.aside = {} /\ job'.incoming = {} /\ job'.backup = {}
    <3>1. CASE Clean
      BY <3>1 DEF Clean, IdleJob
    <3>2. CASE Killed
      BY <3>2 DEF Killed, IdleJob
    <3>3. QED
      BY <1>9, <3>1, <3>2
  <2>2. UNCHANGED <<output, next>> /\ backups' \in {backups, backups \union job.backup}
    BY <1>9 DEF Clean, Killed
  <2>3. QED
    BY <2>1, <2>2 DEF DirsOK, AtMostOne
<1>10. QED
  BY <1>1, <1>2, <1>3, <1>4, <1>5, <1>6, <1>7, <1>8, <1>9
  DEF Next, Refresh, ExportStep, vars, exportVars

LEMMA AtMostOneCounts ==
  ASSUME NEW S, AtMostOne(S)
  PROVE  Cardinality(S) <= 1
<1>1. CASE S = {}
  BY <1>1, FS_EmptySet
<1>2. CASE S # {}
  <2>1. PICK a \in S : S = {a}
    BY <1>2 DEF AtMostOne
  <2>2. Cardinality({a}) = 1
    BY FS_Singleton
  <2>3. QED
    BY <2>1, <2>2
<1>3. QED
  BY <1>1, <1>2

\* Directories hold files of a bundle only, and there is at most one at each place.
THEOREM ExportTyped == Spec => []ExportTypeOK
<1>1. Init => DirsOK
  <2> SUFFICES ASSUME Init
               PROVE  DirsOK
    OBVIOUS
  <2>1. job.aside = {} /\ job.incoming = {} /\ job.backup = {}
    BY DEF Init, ExportInit, IdleJob
  <2>2. QED
    BY <2>1 DEF Init, ExportInit, DirsOK, AtMostOne
<1>2. RunInv /\ DirsOK => ExportTypeOK
  <2> SUFFICES ASSUME RunInv, DirsOK
               PROVE  ExportTypeOK
    OBVIOUS
  <2>1. Cardinality(output) <= 1 /\ Cardinality(next) <= 1
    BY AtMostOneCounts DEF DirsOK
  <2>2. /\ facts \in [Slots -> 0..MaxCount] /\ generation \in Nat
        /\ {job.snapshot, job.read} \subseteq ReportsSet
        /\ job.result \in {"none", "ok", "failed"}
    BY DEF RunInv, RunTyped, JobType
  <2>3. QED
    BY <2>1, <2>2, StagingFiles DEF DirsOK, ExportTypeOK, ReportsSet
<1>3. RunInv /\ DirsOK /\ [Next]_vars => DirsOK'
  BY DirsStep
<1>4. QED
  BY <1>1, <1>2, <1>3, RunInvariant, PTL DEF Spec

-----------------------------------------------------------------------------
(* Theorems about exports                                                  *)

\* A reader of the output finds no directory, or one that was never filled, or
\* the whole bundle of one commit's reports.
THEOREM OneSnapshot == Spec => []OutputIsOneSnapshot
<1>1. RunInv => OutputIsOneSnapshot
  BY DEF RunInv
<1>2. QED
  BY <1>1, RunInvariant, PTL

\* The last published bundle is in place, or in a backup, whatever is killed and
\* whichever rename fails.
THEOREM BundlesSurvive == Spec => []PublishedSurvives
<1>1. RunInv => PublishedSurvives
  BY DEF RunInv
<1>2. QED
  BY <1>1, RunInvariant, PTL

\* A run that reports success has published reports that are not older than its
\* beginning.
THEOREM SuccessesAreFresh == Spec => []SuccessIsFresh
<1>1. RunInv => SuccessIsFresh
  BY DEF RunInv
<1>2. QED
  BY <1>1, RunInvariant, PTL
=============================================================================
