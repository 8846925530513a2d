--------------------------- MODULE ListSnapshots ---------------------------
(***************************************************************************)
(* How a list is read page by page while its rows change.                  *)
(*                                                                         *)
(* The lists of posts and of metrics are frozen: the first page writes all *)
(* rows of the moment into a snapshot (services/post_service.py,           *)
(* services/metrics_service.py, repositories/snapshots.py), the pages that *)
(* follow read the snapshot by a signed cursor, and every first page also  *)
(* deletes snapshots that are too old.  The lists of sessions, campaigns   *)
(* and memories are live: each page is a query for the rows that come      *)
(* after the last one shown (services/session_service.py,                  *)
(* services/campaign_service.py, services/memory_service.py).              *)
(*                                                                         *)
(* A row is its id and the key it is sorted by; key 0 means that there is  *)
(* no such row.                                                            *)
(***************************************************************************)
EXTENDS Integers, Sequences, FiniteSets, SequencesExt

CONSTANTS Readers,       \* marketers, each reading one list at a time
          Rows,          \* ids of the rows
          Start,         \* the keys the rows have in the beginning
          Orders,        \* the orders a request may ask for
          Limits,        \* the page sizes a request may ask for
          Ttl,           \* LIST_SNAPSHOT_TTL_SECONDS, in clock ticks
          CleanupLimit,  \* LIST_SNAPSHOT_CLEANUP_LIMIT
          MaxKey,        \* bound on the keys
          MaxChanges,    \* bound on the changes of rows
          MaxLists,      \* bound on the snapshots made
          MaxClock       \* bound on the clock

VARIABLES key,       \* the table: the sort key of every row
          clock,     \* the wall clock
          lists,     \* the snapshots that are stored, by id
          request,   \* the request a reader waits for
          walk,      \* what a reader has been shown since the first page
          changes,   \* number of changes so far
          made       \* number of snapshots made so far
vars == <<key, clock, lists, request, walk, changes, made>>

\* A frozen and a live list share nothing but the table: the readers of one
\* behaviour read the same kind.
Kinds == {"frozen", "live"}
NoCursor == [list |-> 0]
Idle == [pc |-> "idle"]

---------------------------------------------------------------------------
(* The order of a list, and its pages. *)

\* sort and order of a frozen list; a live list is always the newest first.
ASSUME OrdersAssumption == Orders \subseteq {"newest", "oldest", "most_seen", "least_seen"}
\* Ids are ordered, a table is finite, and a page is asked for with a row at least.
ASSUME RowsAssumption ==
    /\ Rows \subseteq Int /\ IsFiniteSet(Rows)
    /\ Start \in [Rows -> Nat]
    /\ Limits \subseteq Nat \ {0}

Descending(a, b) == a.key > b.key \/ (a.key = b.key /\ a.row > b.row)
Measured(i) == i.key > 1

\* By time, or by the number of views; then by id.  A post without a measured
\* number, key 1, comes last in both orders, the newest of them first.
Before(order, a, b) ==
    \/ order \in {"newest", "most_seen"} /\ Descending(a, b)
    \/ order = "oldest" /\ Descending(b, a)
    \/ order = "least_seen" /\ Measured(a) /\ (~Measured(b) \/ Descending(b, a))
    \/ order = "least_seen" /\ ~Measured(a) /\ ~Measured(b) /\ a.row > b.row

Items(view) == {[row |-> x, key |-> view[x]] : x \in {y \in Rows : view[y] > 0}}

\* The n-th of a list is the one that n - 1 others come before.
Rank(items, order, i) == Cardinality({j \in items : Before(order, j, i)}) + 1

Sorted(items, order) ==
    [n \in 1..Cardinality(items) |-> CHOOSE i \in items : Rank(items, order, i) = n]

\* The query of a page asks for one row more than it shows.
Shown(rows, limit) == SubSeq(rows, 1, IF Len(rows) < limit THEN Len(rows) ELSE limit)
More(rows, limit) == Len(rows) > limit

\* The items from a position on, limit + 1 at most; none when they were deleted.
From(id, position, limit) ==
    IF id \notin DOMAIN lists THEN <<>>
    ELSE Shown(SubSeq(lists[id].items, position + 1, Len(lists[id].items)), limit + 1)

Cursor(id, position, order) == [list |-> id, position |-> position, order |-> order]

Walk(kind, order, view, rows, limit, cursor) ==
    [kind |-> kind, order |-> order, begun |-> view, changed |-> {},
     shown |-> Shown(rows, limit),
     state |-> IF More(rows, limit) THEN "reading" ELSE "whole",
     cursor |-> IF More(rows, limit) THEN cursor ELSE NoCursor]

NoWalk(kind) == [Walk(kind, "newest", [x \in Rows |-> 0], <<>>, 1, NoCursor)
                   EXCEPT !.state = "none"]

Init == /\ key = Start
        /\ clock = 0
        /\ lists = <<>>
        /\ request = [r \in Readers |-> Idle]
        /\ \E kind \in Kinds : walk = [r \in Readers |-> NoWalk(kind)]
        /\ changes = 0
        /\ made = 0

---------------------------------------------------------------------------
(* The first page of a frozen list: one transaction of isolation level     *)
(* REPEATABLE READ, whose view of the data is taken by its first statement *)
(* and which fails when a row it deletes was deleted meanwhile.            *)

Expired(now) == {id \in DOMAIN lists : lists[id].expires <= now}

\* The oldest ones first, CleanupLimit at most; ties are resolved by a random id.
MayClean(now, ids) ==
    /\ ids \subseteq Expired(now)
    /\ \/ ids = Expired(now)
       \/ Cardinality(ids) = CleanupLimit
    /\ Cardinality(ids) <= CleanupLimit
    /\ \A i \in ids, j \in Expired(now) \ ids : lists[i].expires <= lists[j].expires

FreezeList(r) ==
    /\ request[r].pc = "idle"
    /\ walk[r].kind = "frozen"
    /\ made < MaxLists
    /\ \E old \in SUBSET DOMAIN lists :
         /\ MayClean(clock, old)
         /\ request' = [request EXCEPT ![r] =
              [pc |-> "commit", now |-> clock, view |-> key, old |-> old]]
    /\ UNCHANGED <<key, clock, lists, walk, changes, made>>

\* What is asked for is chosen here: nothing before depends on it.
CommitList(r, order, limit) ==
    LET q == request[r]
        id == made + 1
        rows == Sorted(Items(q.view), order)
    IN  /\ q.pc = "commit"
        /\ made < MaxLists
        /\ q.old \subseteq DOMAIN lists
        /\ made' = id
        /\ lists' = [i \in (DOMAIN lists \ q.old) \cup {id} |->
             IF i = id
             THEN [owner |-> r, order |-> order, items |-> rows, expires |-> q.now + Ttl]
             ELSE lists[i]]
        /\ request' = [request EXCEPT ![r] = Idle]
        /\ \/ walk' = [walk EXCEPT ![r] =
                Walk("frozen", order, q.view, rows, limit, Cursor(id, limit, order))]
           \/ walk' = walk                                    \* the answer is lost
        /\ UNCHANGED <<key, clock, changes>>

\* A row to be deleted is gone: the transaction is rolled back and answers 500.
CommitConflicts(r) ==
    /\ request[r].pc = "commit"
    /\ ~(request[r].old \subseteq DOMAIN lists)
    /\ request' = [request EXCEPT ![r] = Idle]
    /\ UNCHANGED <<key, clock, lists, walk, changes, made>>

\* The campaign of the filter does not exist, the database fails, the answer
\* of a page that follows is lost: nothing is changed, the reader has no page.
Fail(r) ==
    /\ request[r].pc # "idle"
    /\ request' = [request EXCEPT ![r] = Idle]
    /\ UNCHANGED <<key, clock, lists, walk, changes, made>>

---------------------------------------------------------------------------
(* A page that follows: the cursor is checked, the snapshot is looked up,  *)
(* and its items are read by a second query with a view of its own.        *)

Refused(r) == walk' = [walk EXCEPT ![r].state = "refused", ![r].cursor = NoCursor]

\* The conditions of a request are those of its cursor.
SameConditions(cursor, order) == cursor.order = order

Found(r, cursor) ==
    /\ cursor.list \in DOMAIN lists
    /\ lists[cursor.list].owner = r
    /\ lists[cursor.list].order = cursor.order
    /\ lists[cursor.list].expires > clock

\* A request with the cursor of the reader's list, or of somebody else's.
AskNext(r, holder, order) ==
    LET cursor == walk[holder].cursor
    IN  /\ request[r].pc = "idle"
        /\ walk[r].kind = "frozen" /\ walk[r].state = "reading"
        /\ cursor # NoCursor
        /\ IF SameConditions(cursor, order) /\ Found(r, cursor)
           THEN /\ request' = [request EXCEPT ![r] = [pc |-> "items", cursor |-> cursor]]
                /\ walk' = walk
           ELSE /\ Refused(r)
                /\ request' = request
        /\ UNCHANGED <<key, clock, lists, changes, made>>

\* Mutant: items that are gone are taken for the end of the list.
ItemsThereAlways(rows) == TRUE

\* `not rows or rows[0][0] != position`
ItemsThere(rows) == rows # <<>>

ReadItems(r, limit) ==
    LET q == request[r]
        rows == From(q.cursor.list, q.cursor.position, limit)
    IN  /\ q.pc = "items"
        /\ IF ItemsThere(rows)
           THEN walk' = [walk EXCEPT
                  ![r].shown = @ \o Shown(rows, limit),
                  ![r].state = IF More(rows, limit) THEN "reading" ELSE "whole",
                  ![r].cursor =
                     IF More(rows, limit)
                     THEN Cursor(q.cursor.list, q.cursor.position + limit, q.cursor.order)
                     ELSE NoCursor]
           ELSE Refused(r)
        /\ request' = [request EXCEPT ![r] = Idle]
        /\ UNCHANGED <<key, clock, lists, changes, made>>

---------------------------------------------------------------------------
(* A live list, newest first; the cursor is the last row that was shown.   *)

OpenLive(r, limit) ==
    LET rows == Sorted(Items(key), "newest")
        last == Shown(rows, limit)[limit]
    IN  /\ request[r].pc = "idle"
        /\ walk[r].kind = "live" /\ walk[r].state = "none"
        /\ walk' = [walk EXCEPT ![r] =
             Walk("live", "newest", key, rows, limit,
                  IF More(rows, limit) THEN [list |-> -1, after |-> last] ELSE NoCursor)]
        /\ UNCHANGED <<key, clock, lists, request, changes, made>>

\* Mutant: the id does not take part in the comparison.
IsAfterByKey(cursor, item) == item.key < cursor.after.key

\* Mutant: the last row of the page comes again on the next one.
IsAfterOrSame(cursor, item) == item.key <= cursor.after.key

\* WHERE (updated_at, id) < (cursor)
IsAfter(cursor, item) == Before("newest", cursor.after, item)

NextLive(r, limit) ==
    LET rows == Sorted({i \in Items(key) : IsAfter(walk[r].cursor, i)}, "newest")
    IN  /\ request[r].pc = "idle"
        /\ walk[r].kind = "live" /\ walk[r].state = "reading"
        /\ walk' = [walk EXCEPT
             ![r].shown = @ \o Shown(rows, limit),
             ![r].state = IF More(rows, limit) THEN "reading" ELSE "whole",
             ![r].cursor = IF More(rows, limit)
                           THEN [list |-> -1, after |-> Shown(rows, limit)[limit]]
                           ELSE NoCursor]
        /\ UNCHANGED <<key, clock, lists, request, changes, made>>

---------------------------------------------------------------------------
(* The world. *)

\* A row is added, deleted, or gets another key: a new message moves a session
\* to the front, or further back when its clock was read before it waited.
Change(x, k) ==
    /\ changes < MaxChanges
    /\ key[x] # k
    /\ key' = [key EXCEPT ![x] = k]
    /\ changes' = changes + 1
    /\ walk' = [r \in Readers |-> [walk[r] EXCEPT !.changed = @ \cup {x}]]
    /\ UNCHANGED <<clock, lists, request, made>>

Tick == /\ clock < MaxClock
        /\ clock' = clock + 1
        /\ UNCHANGED <<key, lists, request, walk, changes, made>>

Next == \/ \E r \in Readers : FreezeList(r) \/ CommitConflicts(r) \/ Fail(r)
        \/ \E r \in Readers, order \in Orders, limit \in Limits : CommitList(r, order, limit)
        \/ \E r, holder \in Readers, order \in Orders : AskNext(r, holder, order)
        \/ \E r \in Readers, limit \in Limits :
              ReadItems(r, limit) \/ OpenLive(r, limit) \/ NextLive(r, limit)
        \/ \E x \in Rows, k \in 0..MaxKey : Change(x, k)
        \/ Tick

Spec == Init /\ [][Next]_vars

---------------------------------------------------------------------------
(* Properties. *)

\* The pages a reader has seen of a frozen list are the beginning of the list
\* of one moment, and when no cursor follows they are all of it: although rows
\* change, the snapshot expires, is deleted between the two queries of a page
\* (snapshots.py:101), pages differ in size, requests are repeated and cursors
\* of other readers or orders are sent.
FrozenWalkIsWhole ==
    \A r \in Readers : walk[r].kind = "frozen" /\ walk[r].state # "none" =>
        LET all == Sorted(Items(walk[r].begun), walk[r].order)
        IN  /\ IsPrefix(walk[r].shown, all)
            /\ walk[r].state = "whole" => walk[r].shown = all

\* A live list shows each row that does not change while it is read exactly
\* once, whatever is added, deleted or moved around it; a row that changes may
\* be missed or shown twice (session_service.py:64, campaign_service.py:111).
LiveWalkIsSteady ==
    \A r \in Readers : walk[r].kind = "live" /\ walk[r].state # "none" =>
        \A x \in Rows \ walk[r].changed :
            LET times == Cardinality({i \in DOMAIN walk[r].shown : walk[r].shown[i].row = x})
            IN  /\ times <= IF walk[r].begun[x] > 0 THEN 1 ELSE 0
                /\ walk[r].state = "whole" /\ walk[r].begun[x] > 0 => times = 1

\* The pages of a live list, one after the other, are in order, so that no row
\* is shown twice as it was: whatever changes meanwhile, one that comes again
\* has moved behind the last row of a page (memory_service.py:57).
LiveWalkDescends ==
    \A r \in Readers : walk[r].kind = "live" =>
        \A i, j \in DOMAIN walk[r].shown :
            i < j => Before("newest", walk[r].shown[i], walk[r].shown[j])
=============================================================================
