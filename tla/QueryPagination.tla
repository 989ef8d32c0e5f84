--------------------------- MODULE QueryPagination ---------------------------
(***************************************************************************)
(* The query API (services/query-api): a client walks the daily facts page *)
(* by page.  The server keeps nothing between requests: the cursor holds   *)
(* the key of the last row and a fingerprint of the filters.  The two      *)
(* queries of a page each see the facts committed when they run.           *)
(***************************************************************************)
EXTENDS DailyFacts, Sequences

CONSTANTS
  Filters,   \* a filter is the set of the slots that it matches
  Limits,    \* page sizes
  NoCursor

ASSUME PaginationAssumption ==
  /\ Filters \subseteq SUBSET Slots
  /\ Limits \subseteq 1..200

VARIABLES
  request,   \* the request that the server handles
  walk       \* the client's: what it has listed, and its next_cursor

paginationVars == <<request, walk>>

Cursors == [key : Slots, fingerprint : Filters]

NoRequest == [pc |-> "none", filter |-> {}, cursor |-> NoCursor, limit |-> 1, rows |-> {}]

\* steady: rows that match and have been there ever since the walk began.
NoWalk == [filter |-> {}, pages |-> <<>>, next |-> NoCursor, ended |-> FALSE, steady |-> {}]

PaginationInit ==
  /\ request = NoRequest
  /\ walk = NoWalk

-----------------------------------------------------------------------------
(* The order of the rows                                                   *)

KeyBefore(a, b) == a[2] < b[2] \/ (a[2] = b[2] /\ a[3] < b[3])

\* Mutant: the row of the cursor belongs to the next page as well.
FollowsOrIs(b, a) == a[1] = b[1] /\ (KeyBefore(a, b) \/ a = b)

\* _SAME_DATE_CURSOR_SQL
Follows(b, a) == a[1] = b[1] /\ KeyBefore(a, b)

\* _ORDER_BY: the latest date first.
Before(a, b) == a[1] > b[1] \/ (a[1] = b[1] /\ KeyBefore(a, b))

\* ... ORDER BY ... LIMIT n
First(rows, n) == {r \in rows : Cardinality({q \in rows : Before(q, r)}) < n}

Last(rows) == CHOOSE r \in rows : \A q \in rows \ {r} : Before(q, r)

Matching(filter) == filter \intersect Stored

-----------------------------------------------------------------------------
(* Requests                                                                *)

\* decode_cursor
Accepts(cursor, filter) == cursor = NoCursor \/ cursor.fingerprint = filter

\* GET without a cursor: a new walk.
Start(filter, limit) ==
  /\ request.pc = "none"
  /\ Spend("requests")
  /\ request' = [NoRequest EXCEPT !.pc = "query", !.filter = filter, !.limit = limit]
  /\ walk' = [NoWalk EXCEPT !.filter = filter, !.steady = Matching(filter)]

\* GET with the next_cursor of the page before; 422 if the filters have changed.
Continue(filter, limit) ==
  /\ request.pc = "none"
  /\ walk.next # NoCursor
  /\ Spend("requests")
  /\ request' = IF Accepts(walk.next, filter)
                THEN [pc |-> "query", filter |-> filter, cursor |-> walk.next,
                      limit |-> limit, rows |-> {}]
                ELSE NoRequest
  /\ UNCHANGED walk

Target == request.limit + 1

Answered(rows) == request' = [request EXCEPT !.pc = "reply", !.rows = rows]

\* The rows from the beginning, or those of the cursor's date after its key.
Query ==
  /\ request.pc = "query"
  /\ IF request.cursor = NoCursor
     THEN Answered(First(Matching(request.filter), Target))
     ELSE LET same == First({r \in Matching(request.filter) : Follows(r, request.cursor.key)},
                            Target)
          IN  IF Cardinality(same) = Target
              THEN Answered(same)
              ELSE request' = [request EXCEPT !.pc = "older", !.rows = same]
  /\ UNCHANGED <<walk, left>>

\* _OLDER_DATE_CURSOR_SQL
Older(r, key) == DateOf(r) < DateOf(key)

Remaining == Target - Cardinality(request.rows)

\* The remaining rows, from earlier dates.
QueryOlder ==
  /\ request.pc = "older"
  /\ LET older == {r \in Matching(request.filter) : Older(r, request.cursor.key)}
     IN  Answered(request.rows \union First(older, Remaining))
  /\ UNCHANGED <<walk, left>>

\* Mutant: a full page counts as the last one.
HasMoreThanNext(rows, limit) == Cardinality(rows) > limit + 1

\* One row more than the page tells that there is another page.
HasMore(rows, limit) == Cardinality(rows) > limit

\* 200: the client adds the page to its listing.
Reply ==
  /\ request.pc = "reply"
  /\ LET items == First(request.rows, request.limit)
         more == HasMore(request.rows, request.limit)
     IN  walk' = [walk EXCEPT !.pages = Append(@, items),
                              !.ended = ~more,
                              !.next = IF more /\ items # {}
                                       THEN [key |-> Last(items), fingerprint |-> request.filter]
                                       ELSE NoCursor]
  /\ request' = NoRequest
  /\ UNCHANGED left

\* 503 or 500, or an answer that is lost; the client may send its cursor again.
RequestFails ==
  /\ request.pc # "none"
  /\ Spend("faults")
  /\ request' = NoRequest
  /\ UNCHANGED walk

RequestStep ==
  \/ \E filter \in Filters, limit \in Limits : Start(filter, limit) \/ Continue(filter, limit)
  \/ Query \/ QueryOlder \/ Reply \/ RequestFails

\* The walk's history when the facts change.
WalkSeesRefresh == walk' = [walk EXCEPT !.steady = {s \in @ : facts'[s] > 0}]

-----------------------------------------------------------------------------
(* Properties                                                              *)

\* Requests and walks are well typed; a cursor names a row of the fact table.
PaginationTypeOK ==
  /\ request \in [pc : {"none", "query", "older", "reply"}, filter : Filters \union {{}},
                  cursor : Cursors \union {NoCursor}, limit : Limits \union {1},
                  rows : SUBSET Slots]
  /\ walk.pages \in Seq(SUBSET Slots)
  /\ walk.next \in Cursors \union {NoCursor}
  /\ walk.steady \subseteq walk.filter

\* A walk never lists a row twice or out of order, whatever refreshes commit
\* between its pages and between the two queries of a page (query-api
\* repository.py 97-120).
WalkGoesForward ==
  \A i, j \in DOMAIN walk.pages : i < j =>
    \A a \in walk.pages[i], b \in walk.pages[j] : Before(a, b)

\* Rows that stay are never skipped: those up to the cursor have been listed, and
\* all of them when there is no further page (api.py 181-188).
NothingIsSkipped ==
  LET listed == UNION {walk.pages[i] : i \in DOMAIN walk.pages}
      passed == IF walk.ended THEN walk.steady
                ELSE {s \in walk.steady : /\ walk.next # NoCursor
                                          /\ ~Before(walk.next.key, s)}
  IN  passed \subseteq listed
=============================================================================
