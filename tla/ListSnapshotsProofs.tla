------------------------- MODULE ListSnapshotsProofs -------------------------
(***************************************************************************)
(* Proofs about ListSnapshots for any readers, rows, page sizes and        *)
(* bounds: what sorting the rows of a list gives, that the pages of a      *)
(* frozen list are those of one moment, and that a live list shows its     *)
(* steady rows once and all its rows in order.                             *)
(***************************************************************************)
EXTENDS ListSnapshots, FiniteSetTheorems, SequenceTheorems, TLAPS

AllOrders == {"newest", "oldest", "most_seen", "least_seen"}
Item == [row : Rows, key : Nat \ {0}]
View == [Rows -> Nat]
FrozenCursor == [list : Nat \ {0}, position : Nat, order : AllOrders]
LiveCursor == [list : {-1}, after : Item]

Request == {Idle}
  \cup [pc : {"commit"}, now : Nat, view : View, old : SUBSET Nat]
  \cup [pc : {"items"}, cursor : FrozenCursor]
AnyWalk == [kind : Kinds, order : AllOrders, begun : View, changed : SUBSET Rows,
            shown : Seq(Item), state : {"none", "reading", "whole", "refused"},
            cursor : {NoCursor} \cup FrozenCursor \cup LiveCursor]

Types ==
  /\ key \in View
  /\ clock \in Nat
  /\ made \in Nat
  /\ request \in [Readers -> Request]
  /\ walk \in [Readers -> AnyWalk]

\* A snapshot has a number that was given before, and items.
ListsInv ==
  /\ DOMAIN lists \subseteq 1 .. made
  /\ \A id \in DOMAIN lists : lists[id].items \in Seq(Item)

\* The list of a frozen walk, whether its snapshot is still there or not.
Whole(w) == Sorted(Items(w.begun), w.order)

\* What was shown of a frozen list is its beginning, and the cursor points behind
\* that into a snapshot that is the reader's own and the whole list, or is gone.
FrozenInv(r) ==
  LET w == walk[r] IN
  w.kind = "frozen" =>
    /\ w.state # "none" => IsPrefix(w.shown, Whole(w))
    /\ w.state = "whole" => w.shown = Whole(w)
    /\ w.state # "reading" => w.cursor = NoCursor
    /\ w.state = "reading" =>
         /\ w.cursor = Cursor(w.cursor.list, Len(w.shown), w.order)
         /\ w.cursor.list \in 1 .. made
         /\ w.cursor.list \in DOMAIN lists =>
              lists[w.cursor.list].owner = r /\ lists[w.cursor.list].items = Whole(w)
    /\ request[r].pc = "items" => w.state = "reading" /\ request[r].cursor = w.cursor

Descends(s) == \A i, j \in DOMAIN s : i < j => Before("newest", s[i], s[j])

ItemOf(x) == [row |-> x, key |-> key[x]]
IsShown(s, i) == \E n \in DOMAIN s : s[n] = i

\* A row that has not changed is shown if and only if the walk is past it.
SteadyRow(w, x) ==
  /\ w.begun[x] = key[x]
  /\ \A n \in DOMAIN w.shown : w.shown[n].row = x => w.shown[n] = ItemOf(x)
  /\ IsShown(w.shown, ItemOf(x)) <=>
       key[x] > 0 /\ (w.state = "reading" => ~IsAfter(w.cursor, ItemOf(x)))

LiveInv(r) ==
  LET w == walk[r] IN
  w.kind = "live" =>
    /\ request[r] = Idle
    /\ w.state # "refused"
    /\ w.state = "none" => w.shown = <<>>
    /\ IF w.state = "reading" THEN w.cursor \in LiveCursor ELSE w.cursor = NoCursor
    /\ Descends(w.shown)
    /\ w.state = "reading" =>
         \A n \in DOMAIN w.shown : ~IsAfter(w.cursor, w.shown[n])
    /\ w.state # "none" => \A x \in Rows \ w.changed : SteadyRow(w, x)

IInv == Types /\ ListsInv /\ \A r \in Readers : FrozenInv(r) /\ LiveInv(r)

-----------------------------------------------------------------------------
(* The order of a list, and what sorting gives.                            *)
LEMMA Rows_ == Rows \subseteq Int /\ IsFiniteSet(Rows)
BY RowsAssumption

LEMMA SameItem ==
  ASSUME NEW a \in Item, NEW b \in Item, a.row = b.row, a.key = b.key
  PROVE  a = b
BY DEF Item

LEMMA DescendingOrder ==
  ASSUME NEW a \in Item, NEW b \in Item, NEW c \in Item
  PROVE  /\ ~Descending(a, a)
         /\ a # b => Descending(a, b) \/ Descending(b, a)
         /\ Descending(a, b) /\ Descending(b, c) => Descending(a, c)
<1>1. /\ a.key \in Nat /\ b.key \in Nat /\ c.key \in Nat
      /\ a.row \in Int /\ b.row \in Int /\ c.row \in Int
  BY Rows_ DEF Item
<1>. QED
  BY <1>1, SameItem DEF Descending

\* Before is a strict total order of the items, whatever order is asked for.
LEMMA TotalOrder ==
  ASSUME NEW order \in AllOrders, NEW a \in Item, NEW b \in Item, NEW c \in Item
  PROVE  /\ ~Before(order, a, a)
         /\ a # b => Before(order, a, b) \/ Before(order, b, a)
         /\ Before(order, a, b) /\ Before(order, b, c) => Before(order, a, c)
<1>1. /\ a.key \in Nat \ {0} /\ b.key \in Nat \ {0} /\ c.key \in Nat \ {0}
      /\ a.row \in Int /\ b.row \in Int /\ c.row \in Int
      /\ a # b => a.row # b.row \/ a.key # b.key
  BY Rows_, SameItem DEF Item
<1>2. CASE order \in {"newest", "most_seen"}
  BY <1>2, DescendingOrder DEF Before
<1>3. CASE order = "oldest"
  BY <1>3, DescendingOrder DEF Before
<1>4. CASE order = "least_seen"
  BY <1>1, <1>4 DEF Before, Measured, Descending
<1>. QED
  BY <1>2, <1>3, <1>4 DEF AllOrders

LEMMA ItemsType ==
  ASSUME NEW view \in View
  PROVE  /\ Items(view) \subseteq Item
         /\ IsFiniteSet(Items(view))
         /\ \A i \in Items(view) : i.key = view[i.row]
         /\ \A x \in Rows : view[x] > 0 <=> [row |-> x, key |-> view[x]] \in Items(view)
<1>1. Items(view) \subseteq Item /\ \A i \in Items(view) : i.key = view[i.row]
  BY DEF Items, Item, View
<1>2. \A x \in Rows : view[x] > 0 <=> [row |-> x, key |-> view[x]] \in Items(view)
  BY DEF Items, View
<1>3. IsFiniteSet(Items(view))
  <2>. DEFINE f == [i \in Items(view) |-> i.row]
  <2>1. f \in Injection(Items(view), Rows)
    BY <1>1, SameItem DEF Injection, IsInjective, Item
  <2>. QED
    BY <2>1, Rows_, FS_Injection
<1>. QED
  BY <1>1, <1>2, <1>3

LEMMA Ranks ==
  ASSUME NEW order \in AllOrders, NEW items \in SUBSET Item, IsFiniteSet(items),
         NEW a \in items, NEW b \in items
  PROVE  /\ Rank(items, order, a) \in 1 .. Cardinality(items)
         /\ Before(order, a, b) => Rank(items, order, a) < Rank(items, order, b)
<1>. DEFINE below(i) == {j \in items : Before(order, j, i)}
<1>1. ASSUME NEW i \in items
      PROVE  /\ IsFiniteSet(below(i)) /\ Cardinality(below(i)) \in Nat
             /\ Cardinality(below(i)) < Cardinality(items)
             /\ Cardinality(items) \in Nat
  <2>1. below(i) \in SUBSET items /\ below(i) # items
    BY TotalOrder
  <2>. QED
    BY <2>1, FS_Subset, FS_CardinalityType
<1>2. ASSUME Before(order, a, b)
      PROVE  Cardinality(below(a)) < Cardinality(below(b))
  <2>1. below(a) \in SUBSET below(b) /\ a \in below(b) /\ a \notin below(a)
    BY <1>2, TotalOrder
  <2>2. IsFiniteSet(below(b))
    BY <1>1
  <2>3. Cardinality(below(a)) <= Cardinality(below(b))
        /\ Cardinality(below(a)) # Cardinality(below(b))
    BY <2>1, <2>2, FS_Subset
  <2>4. Cardinality(below(a)) \in Nat /\ Cardinality(below(b)) \in Nat
    BY <1>1
  <2>. QED
    BY <2>3, <2>4
<1>3. /\ Cardinality(below(a)) \in Nat /\ Cardinality(below(b)) \in Nat
      /\ Cardinality(below(a)) < Cardinality(items) /\ Cardinality(items) \in Nat
  BY <1>1
<1>4. Rank(items, order, a) = Cardinality(below(a)) + 1
      /\ Rank(items, order, b) = Cardinality(below(b)) + 1
  BY DEF Rank
<1>. HIDE DEF below
<1>. QED
  BY <1>2, <1>3, <1>4

\* A sorted list has every item once, in the order asked for.
LEMMA SortedList ==
  ASSUME NEW order \in AllOrders, NEW items \in SUBSET Item, IsFiniteSet(items)
  PROVE  LET s == Sorted(items, order) IN
         /\ s \in Seq(items)
         /\ \A i, j \in 1 .. Len(s) : i < j => Before(order, s[i], s[j])
         /\ \A x \in items : \E n \in 1 .. Len(s) : s[n] = x
<1>. DEFINE n == Cardinality(items)
            f == [i \in items |-> Rank(items, order, i)]
            s == Sorted(items, order)
<1>1. n \in Nat /\ IsFiniteSet(1 .. n) /\ Cardinality(1 .. n) = n
  BY FS_CardinalityType, FS_Interval
<1>2. \A a, b \in items : Rank(items, order, a) = Rank(items, order, b) => a = b
  <2>. SUFFICES ASSUME NEW a \in items, NEW b \in items, a # b,
                       Rank(items, order, a) = Rank(items, order, b)
                PROVE  FALSE
    OBVIOUS
  <2>1. Before(order, a, b) \/ Before(order, b, a)
    BY TotalOrder
  <2>. QED
    BY <2>1, <1>1, Ranks
<1>3. f \in Surjection(items, 1 .. n)
  <2>1. f \in Injection(items, 1 .. n)
    BY <1>2, Ranks DEF Injection, IsInjective
  <2>. QED
    BY <2>1, <1>1, FS_Injection
<1>4. \A k \in 1 .. n : \E i \in items : Rank(items, order, i) = k
  BY <1>3 DEF Surjection
<1>5. \A k \in 1 .. n : s[k] \in items /\ Rank(items, order, s[k]) = k
  BY <1>4 DEF Sorted
<1>6. s \in Seq(items) /\ Len(s) = n
  BY <1>1, <1>5 DEF Sorted
<1>7. ASSUME NEW i \in 1 .. n, NEW j \in 1 .. n, i < j
      PROVE  Before(order, s[i], s[j])
  <2>1. s[i] # s[j]
    BY <1>5, <1>7
  <2>2. ~Before(order, s[j], s[i])
    BY <1>5, <1>7, Ranks
  <2>. QED
    BY <2>1, <2>2, <1>5, TotalOrder
<1>8. \A x \in items : \E k \in 1 .. n : s[k] = x
  BY <1>2, <1>5, Ranks
<1>. QED
  BY <1>6, <1>7, <1>8

-----------------------------------------------------------------------------
(* Pages.                                                                  *)
LEMMA Page ==
  ASSUME NEW S, NEW rows \in Seq(S), NEW limit \in Nat \ {0}
  PROVE  LET p == Shown(rows, limit) IN
         /\ p \in Seq(S)
         /\ Len(p) = IF More(rows, limit) THEN limit ELSE Len(rows)
         /\ \A i \in 1 .. Len(p) : p[i] = rows[i]
         /\ ~More(rows, limit) => p = rows
<1>. DEFINE n == IF Len(rows) < limit THEN Len(rows) ELSE limit
<1>1. n \in Nat /\ n <= Len(rows) /\ Len(rows) \in Nat
  BY LenProperties
<1>2. \A i \in 1 .. n : rows[i] \in S
  BY <1>1, ElementOfSeq
<1>3. /\ SubSeq(rows, 1, n) \in Seq(S)
      /\ Len(SubSeq(rows, 1, n)) = n
      /\ \A i \in 1 .. n : SubSeq(rows, 1, n)[i] = rows[i]
  BY <1>1, <1>2, SubSeqProperties
<1>4. n = Len(rows) => SubSeq(rows, 1, n) = rows
  BY SubSeqFull
<1>. QED
  BY <1>1, <1>3, <1>4 DEF Shown, More

LEMMA Prefix ==
  ASSUME NEW S, NEW s \in Seq(S), NEW t \in Seq(S)
  PROVE  IsPrefix(s, t) <=> Len(s) <= Len(t) /\ \A i \in 1 .. Len(s) : s[i] = t[i]
<1>1. Len(s) \in Nat /\ Len(t) \in Nat /\ SubSeq(s, 1, Len(s)) = s
  BY LenProperties, SubSeqFull
<1>2. ASSUME Len(s) <= Len(t)
      PROVE  /\ SubSeq(t, 1, Len(s)) \in Seq(S)
             /\ Len(SubSeq(t, 1, Len(s))) = Len(s)
             /\ \A i \in 1 .. Len(s) : SubSeq(t, 1, Len(s))[i] = t[i]
  <2>1. \A i \in 1 .. Len(s) : t[i] \in S
    BY <1>1, <1>2, ElementOfSeq
  <2>. QED
    BY <1>1, <2>1, SubSeqProperties
<1>3. ASSUME Len(s) <= Len(t), \A i \in 1 .. Len(s) : s[i] = t[i]
      PROVE  s = SubSeq(t, 1, Len(s))
  BY <1>2, <1>3, SeqEqual
<1>. QED
  BY <1>1, <1>2, <1>3 DEF IsPrefix

\* The page behind a beginning of a list makes a longer beginning, all of it at last.
LEMMA NextPage ==
  ASSUME NEW all \in Seq(Item), NEW shown \in Seq(Item), IsPrefix(shown, all),
         NEW limit \in Nat \ {0}
  PROVE  LET rows == Shown(SubSeq(all, Len(shown) + 1, Len(all)), limit + 1)
             seen == shown \o Shown(rows, limit)
         IN  /\ rows \in Seq(Item)
             /\ seen \in Seq(Item) /\ IsPrefix(seen, all)
             /\ IF More(rows, limit) THEN Len(seen) = Len(shown) + limit ELSE seen = all
<1>. DEFINE rest == SubSeq(all, Len(shown) + 1, Len(all))
            rows == Shown(rest, limit + 1)
            page == Shown(rows, limit)
            seen == shown \o page
<1>1. /\ Len(shown) \in Nat /\ Len(all) \in Nat /\ Len(shown) <= Len(all)
      /\ \A i \in 1 .. Len(shown) : shown[i] = all[i]
  BY Prefix, LenProperties
<1>2. /\ rest \in Seq(Item) /\ Len(rest) = Len(all) - Len(shown)
      /\ \A i \in 1 .. Len(rest) : rest[i] = all[Len(shown) + i]
  <2>1. \A i \in Len(shown) + 1 .. Len(all) : all[i] \in Item
    BY <1>1, ElementOfSeq
  <2>. QED
    BY <1>1, <2>1, SubSeqProperties
<1>3. /\ rows \in Seq(Item)
      /\ Len(rows) = IF Len(rest) > limit + 1 THEN limit + 1 ELSE Len(rest)
      /\ \A i \in 1 .. Len(rows) : rows[i] = rest[i]
  <2>1. limit + 1 \in Nat \ {0} /\ Len(rest) \in Nat
    BY <1>1, <1>2
  <2>. HIDE DEF rest
  <2>. QED
    BY <2>1, <1>2, Page DEF More
<1>4. /\ page \in Seq(Item)
      /\ Len(page) = IF Len(rows) > limit THEN limit ELSE Len(rows)
      /\ \A i \in 1 .. Len(page) : page[i] = rows[i]
  BY <1>3, Page DEF More
<1>5. /\ seen \in Seq(Item) /\ Len(seen) = Len(shown) + Len(page)
      /\ \A i \in 1 .. Len(seen) :
            seen[i] = IF i <= Len(shown) THEN shown[i] ELSE page[i - Len(shown)]
  BY <1>4, ConcatProperties
<1>. HIDE DEF rest, rows, page, seen
<1>6. Len(seen) <= Len(all)
  BY <1>1, <1>2, <1>3, <1>4, <1>5
<1>7. ASSUME NEW i \in 1 .. Len(seen) PROVE seen[i] = all[i]
  <2>1. CASE i <= Len(shown)
    BY <1>1, <1>5, <2>1
  <2>2. CASE i > Len(shown)
    <3>1. i - Len(shown) \in 1 .. Len(page)
      BY <1>1, <1>2, <1>3, <1>4, <1>5, <2>2
    <3>2. i - Len(shown) \in 1 .. Len(rows) /\ i - Len(shown) \in 1 .. Len(rest)
      BY <3>1, <1>1, <1>2, <1>3, <1>4
    <3>3. seen[i] = page[i - Len(shown)]
      BY <1>1, <1>5, <2>2
    <3>4. Len(shown) + (i - Len(shown)) = i
      BY <1>1
    <3>5. page[i - Len(shown)] = all[Len(shown) + (i - Len(shown))]
      BY <3>1, <3>2, <1>2, <1>3, <1>4
    <3>. QED
      BY <3>3, <3>4, <3>5
  <2>. QED
    BY <1>1, <1>5, <2>1, <2>2
<1>8. IsPrefix(seen, all)
  BY <1>5, <1>6, <1>7, Prefix
<1>9. IF More(rows, limit) THEN Len(seen) = Len(shown) + limit ELSE seen = all
  <2>1. CASE More(rows, limit)
    BY <2>1, <1>3, <1>4, <1>5 DEF More
  <2>2. CASE ~More(rows, limit)
    <3>1. Len(seen) = Len(all)
      BY <2>2, <1>1, <1>2, <1>3, <1>4, <1>5 DEF More
    <3>. QED
      BY <2>2, <3>1, <1>5, <1>7, SeqEqual
  <2>. QED
    BY <2>1, <2>2
<1>. QED
  BY <1>3, <1>5, <1>8, <1>9 DEF rest, rows, page, seen

-----------------------------------------------------------------------------
(* Types, and what a step changes.                                         *)
LEMMA Constants ==
  /\ Orders \subseteq AllOrders
  /\ \A limit \in Limits : limit \in Nat \ {0}
  /\ Start \in View
BY OrdersAssumption, RowsAssumption DEF AllOrders, View

LEMMA SortedType ==
  ASSUME NEW order \in AllOrders, NEW items \in SUBSET Item, IsFiniteSet(items)
  PROVE  Sorted(items, order) \in Seq(Item)
BY SortedList, SeqMonotonic

LEMMA AfterType ==
  ASSUME NEW view \in View, NEW cursor
  PROVE  LET items == {i \in Items(view) : IsAfter(cursor, i)} IN
         /\ items \in SUBSET Item /\ IsFiniteSet(items)
<1>1. Items(view) \subseteq Item /\ IsFiniteSet(Items(view))
  BY ItemsType
<1>. QED
  BY <1>1, FS_Subset

\* Only reader r does something; nothing happens to the table.
Acts(r) ==
  /\ UNCHANGED <<key, clock>>
  /\ \A q \in Readers \ {r} : walk'[q] = walk[q] /\ request'[q] = request[q]

\* Snapshots are added under new numbers and deleted.
Grows ==
  /\ made' \in Nat /\ made <= made'
  /\ \A id \in DOMAIN lists' :
       \/ id \in DOMAIN lists /\ lists'[id] = lists[id]
       \/ id = made + 1 /\ id <= made' /\ lists'[id].items \in Seq(Item)

LEMMA Initially == Init => IInv
<1>. SUFFICES ASSUME Init PROVE IInv
  OBVIOUS
<1>1. PICK kind \in Kinds : walk = [r \in Readers |-> NoWalk(kind)]
  BY DEF Init
<1>. DEFINE view == [x \in Rows |-> 0]
            w == Walk(kind, "newest", view, <<>>, 1, NoCursor)
<1>2. /\ <<>> \in Seq(Item) /\ Len(<<>>) = 0 /\ view \in View /\ "newest" \in AllOrders
      /\ ~More(<<>>, 1)
  BY DEF View, AllOrders, More
<1>3. /\ w \in AnyWalk /\ w.kind = kind /\ w.shown = <<>> /\ w.cursor = NoCursor
  <2>. HIDE DEF view
  <2>1. 1 \in Nat \ {0}
    OBVIOUS
  <2>2. Shown(<<>>, 1) = <<>>
    BY <2>1, <1>2, Page
  <2>. QED
    BY <1>1, <1>2, <2>2 DEF Walk, AnyWalk
<1>4. NoWalk(kind) = [w EXCEPT !.state = "none"]
  BY DEF NoWalk
<1>. HIDE DEF w
<1>5. \A r \in Readers : /\ walk[r] \in AnyWalk /\ walk[r].state = "none"
                         /\ walk[r].shown = <<>> /\ walk[r].cursor = NoCursor
  BY <1>1, <1>3, <1>4 DEF AnyWalk
<1>6. Types
  BY <1>1, <1>5, Constants DEF Init, Types, Request
<1>7. ListsInv
  BY DEF Init, ListsInv
<1>8. \A r \in Readers : FrozenInv(r)
  BY <1>5 DEF Init, FrozenInv, Idle
<1>9. \A r \in Readers : LiveInv(r)
  BY <1>5 DEF Init, LiveInv, Descends
<1>. QED
  BY <1>6, <1>7, <1>8, <1>9 DEF IInv

-----------------------------------------------------------------------------
(* What a step leaves to the readers that do not take it.                  *)
LEMMA OthersFrozen ==
  ASSUME IInv, Grows, NEW q \in Readers, walk'[q] = walk[q], request'[q] = request[q]
  PROVE  FrozenInv(q)'
<1>1. FrozenInv(q) /\ made \in Nat
  BY DEF IInv, Types
<1>2. \A id \in 1 .. made : /\ id \in 1 .. made'
                            /\ id \in DOMAIN lists' => id \in DOMAIN lists /\ lists'[id] = lists[id]
  BY <1>1 DEF Grows
<1>. QED
  BY <1>1, <1>2 DEF FrozenInv, Whole

LEMMA OthersLive ==
  ASSUME IInv, NEW q \in Readers, walk'[q] = walk[q], request'[q] = request[q], key' = key
  PROVE  LiveInv(q)'
BY DEF IInv, LiveInv, Descends, SteadyRow, IsShown, ItemOf, IsAfter

LEMMA ListsStep ==
  ASSUME IInv, Grows
  PROVE  ListsInv'
BY DEF IInv, Types, ListsInv, Grows

LEMMA ReaderStep ==
  ASSUME IInv, NEW r \in Readers, Acts(r), Grows, Types', FrozenInv(r)', LiveInv(r)'
  PROVE  IInv'
<1>1. ASSUME NEW q \in Readers \ {r} PROVE FrozenInv(q)' /\ LiveInv(q)'
  BY <1>1, OthersFrozen, OthersLive DEF Acts
<1>. QED
  BY <1>1, ListsStep DEF IInv

LEMMA ListsSame ==
  ASSUME IInv, UNCHANGED <<lists, made>>
  PROVE  Grows
BY DEF IInv, Types, Grows

LEMMA RequestType ==
  ASSUME IInv, NEW r \in Readers
  PROVE  /\ request[r].pc = "commit" =>
              request[r].now \in Nat /\ request[r].view \in View
         /\ request[r].pc = "items" => request[r].cursor \in FrozenCursor
         /\ Idle.pc = "idle" /\ Idle \in Request
         /\ request[r] # Idle => walk[r].kind = "frozen"
<1>1. request[r] \in Request /\ walk[r].kind \in Kinds /\ LiveInv(r)
  BY DEF IInv, Types, AnyWalk
<1>. QED
  BY <1>1 DEF Request, Idle, LiveInv, Kinds

-----------------------------------------------------------------------------
(* Frozen lists.                                                           *)
LEMMA FreezeStep ==
  ASSUME IInv, NEW r \in Readers, FreezeList(r)
  PROVE  IInv'
<1>1. PICK old \in SUBSET DOMAIN lists : request' = [request EXCEPT ![r] =
              [pc |-> "commit", now |-> clock, view |-> key, old |-> old]]
  BY DEF FreezeList
<1>2. old \in SUBSET Nat
  BY DEF IInv, Types, ListsInv
<1>3. Types'
  BY <1>1, <1>2 DEF FreezeList, IInv, Types, Request
<1>4. request'[r].pc = "commit"
  BY <1>1 DEF IInv, Types
<1>5. FrozenInv(r)'
  BY <1>4 DEF FreezeList, IInv, FrozenInv, Whole
<1>6. LiveInv(r)'
  BY DEF FreezeList, LiveInv
<1>7. Acts(r) /\ Grows
  BY <1>1, ListsSame DEF FreezeList, Acts, IInv, Types
<1>. QED
  BY <1>3, <1>5, <1>6, <1>7, ReaderStep

LEMMA GiveUpStep ==
  ASSUME IInv, NEW r \in Readers, CommitConflicts(r) \/ Fail(r)
  PROVE  IInv'
<1>1. /\ request[r].pc # "idle" /\ request' = [request EXCEPT ![r] = Idle]
      /\ UNCHANGED <<key, clock, lists, walk, changes, made>>
  BY DEF CommitConflicts, Fail
<1>2. Types' /\ request'[r] = Idle
  BY <1>1, RequestType DEF IInv, Types
<1>3. FrozenInv(r)'
  BY <1>1, <1>2, RequestType DEF IInv, FrozenInv, Whole
<1>4. LiveInv(r)'
  BY <1>1, <1>2, RequestType DEF LiveInv
<1>5. Acts(r) /\ Grows
  BY <1>1, ListsSame DEF Acts, IInv, Types
<1>. QED
  BY <1>2, <1>3, <1>4, <1>5, ReaderStep

LEMMA CommitStep ==
  ASSUME IInv, NEW r \in Readers, NEW order \in Orders, NEW limit \in Limits,
         CommitList(r, order, limit)
  PROVE  IInv'
<1>. DEFINE view == request[r].view
            rows == Sorted(Items(view), order)
            id == made + 1
            w == Walk("frozen", order, view, rows, limit, Cursor(id, limit, order))
<1>1. /\ view \in View /\ order \in AllOrders /\ limit \in Nat \ {0} /\ made \in Nat
      /\ request[r].now \in Nat /\ walk[r].kind = "frozen"
      /\ request' = [request EXCEPT ![r] = Idle] /\ request'[r] = Idle
  BY RequestType, Constants DEF CommitList, IInv, Types
<1>2. rows \in Seq(Item)
  BY <1>1, ItemsType, SortedType
<1>3. /\ w \in AnyWalk
      /\ w.kind = "frozen" /\ w.order = order /\ w.begun = view
      /\ w.shown = Shown(rows, limit)
      /\ w.state = IF More(rows, limit) THEN "reading" ELSE "whole"
      /\ w.cursor = IF More(rows, limit) THEN Cursor(id, limit, order) ELSE NoCursor
  <2>. HIDE DEF rows, view
  <2>1. Cursor(id, limit, order) \in FrozenCursor /\ Shown(rows, limit) \in Seq(Item)
    BY <1>1, <1>2, Page DEF Cursor, FrozenCursor
  <2>. QED
    BY <2>1, <1>1 DEF Walk, AnyWalk, Kinds
<1>4. /\ made' = id
      /\ DOMAIN lists' = (DOMAIN lists \ request[r].old) \cup {id}
      /\ \A i \in DOMAIN lists' : i # id => lists'[i] = lists[i]
      /\ lists'[id].owner = r /\ lists'[id].items = rows
  BY DEF CommitList
<1>5. walk' = walk \/ walk' = [walk EXCEPT ![r] = w]
  BY DEF CommitList
<1>. HIDE DEF w, rows, view
<1>6. Types'
  <2>1. walk' \in [Readers -> AnyWalk]
    BY <1>3, <1>5 DEF IInv, Types
  <2>2. key' = key /\ clock' = clock
    BY DEF CommitList
  <2>3. request' \in [Readers -> Request]
    BY <1>1, RequestType DEF IInv, Types
  <2>. QED
    BY <2>1, <2>2, <2>3, <1>1, <1>4 DEF IInv, Types
<1>7. Grows
  BY <1>1, <1>2, <1>4 DEF Grows
<1>8. FrozenInv(r)'
  <2>1. CASE walk' = walk
    <3>1. \A i \in 1 .. made : /\ i \in 1 .. made'
                               /\ i \in DOMAIN lists' => i \in DOMAIN lists /\ lists'[i] = lists[i]
      BY <1>1, <1>7 DEF Grows
    <3>. QED
      BY <2>1, <3>1, <1>1, RequestType DEF IInv, FrozenInv, Whole
  <2>2. CASE walk' = [walk EXCEPT ![r] = w]
    <3>1. walk'[r] = w
      BY <2>2 DEF IInv, Types
    <3>2. Whole(w) = rows
      BY <1>3 DEF Whole, rows
    <3>3. IsPrefix(w.shown, rows) /\ Len(w.shown) = IF More(rows, limit) THEN limit ELSE Len(rows)
      <4>1. /\ Shown(rows, limit) \in Seq(Item)
            /\ Len(Shown(rows, limit)) = IF More(rows, limit) THEN limit ELSE Len(rows)
            /\ \A i \in 1 .. Len(Shown(rows, limit)) : Shown(rows, limit)[i] = rows[i]
        BY <1>1, <1>2, Page
      <4>2. Len(rows) \in Nat /\ More(rows, limit) => limit <= Len(rows)
        BY <1>1, <1>2, LenProperties DEF More
      <4>. QED
        BY <4>1, <4>2, <1>1, <1>2, <1>3, Prefix
    <3>4. ~More(rows, limit) => w.shown = rows
      BY <1>1, <1>2, <1>3, Page
    <3>5. More(rows, limit) => /\ w.cursor = Cursor(id, Len(w.shown), w.order)
                               /\ w.cursor.list = id /\ id \in 1 .. made'
      BY <1>1, <1>3, <1>4, <3>3 DEF Cursor
    <3>. QED
      BY <1>1, <1>3, <1>4, <3>1, <3>2, <3>3, <3>4, <3>5, RequestType DEF FrozenInv, Whole
  <2>. QED
    BY <1>5, <2>1, <2>2
<1>9. LiveInv(r)'
  <2>1. walk'[r].kind = "frozen"
    BY <1>1, <1>3, <1>5 DEF IInv, Types
  <2>. QED
    BY <2>1 DEF LiveInv
<1>10. Acts(r)
  BY <1>1, <1>5 DEF CommitList, Acts, IInv, Types
<1>. QED
  BY <1>6, <1>7, <1>8, <1>9, <1>10, ReaderStep

\* A cursor is one of the reader's own list or of another one, which is not found.
LEMMA OwnCursor ==
  ASSUME IInv, NEW r \in Readers, NEW holder \in Readers,
         walk[holder].cursor # NoCursor, Found(r, walk[holder].cursor)
  PROVE  holder = r
<1>1. /\ walk[holder].kind \in Kinds /\ FrozenInv(holder) /\ LiveInv(holder)
      /\ DOMAIN lists \subseteq 1 .. made /\ made \in Nat
  BY DEF IInv, Types, AnyWalk, ListsInv
<1>2. walk[holder].kind # "live"
  <2>1. walk[holder].cursor \notin LiveCursor
    BY <1>1 DEF Found, LiveCursor
  <2>. QED
    BY <1>1, <2>1 DEF LiveInv
<1>. QED
  BY <1>1, <1>2 DEF Found, FrozenInv, Kinds

LEMMA RefusedStep ==
  ASSUME IInv, NEW r \in Readers, Refused(r), walk[r].kind = "frozen", walk[r].state = "reading",
         request'[r].pc = "idle"
  PROVE  /\ walk' \in [Readers -> AnyWalk] /\ walk'[r].kind = "frozen"
         /\ FrozenInv(r)'
         /\ \A q \in Readers \ {r} : walk'[q] = walk[q]
<1>1. /\ walk \in [Readers -> AnyWalk] /\ FrozenInv(r)
  BY DEF IInv, Types
<1>2. /\ walk' = [walk EXCEPT ![r] = [walk[r] EXCEPT !.state = "refused", !.cursor = NoCursor]]
  BY DEF Refused
<1>3. /\ [walk[r] EXCEPT !.state = "refused", !.cursor = NoCursor] \in AnyWalk
  BY <1>1 DEF AnyWalk
<1>4. /\ walk'[r].kind = "frozen" /\ walk'[r].state = "refused" /\ walk'[r].cursor = NoCursor
      /\ walk'[r].shown = walk[r].shown /\ walk'[r].begun = walk[r].begun
      /\ walk'[r].order = walk[r].order
  BY <1>1, <1>2 DEF AnyWalk
<1>5. FrozenInv(r)'
  BY <1>1, <1>4 DEF FrozenInv, Whole
<1>. QED
  BY <1>1, <1>2, <1>3, <1>4, <1>5

LEMMA AskStep ==
  ASSUME IInv, NEW r \in Readers, NEW holder \in Readers, NEW order \in Orders,
         AskNext(r, holder, order)
  PROVE  IInv'
<1>1. /\ request[r].pc = "idle" /\ walk[r].kind = "frozen" /\ walk[r].state = "reading"
      /\ walk[holder].cursor # NoCursor
      /\ UNCHANGED <<key, clock, lists, changes, made>>
  BY DEF AskNext
<1>2. Grows
  BY <1>1, ListsSame
<1>3. CASE SameConditions(walk[holder].cursor, order) /\ Found(r, walk[holder].cursor)
  <2>1. /\ request' = [request EXCEPT ![r] = [pc |-> "items", cursor |-> walk[r].cursor]]
        /\ walk' = walk
    BY <1>1, <1>3, OwnCursor DEF AskNext
  <2>2. walk[r].cursor \in FrozenCursor
    <3>1. holder = r /\ walk[r] \in AnyWalk /\ FrozenInv(r) /\ made \in Nat
      BY <1>1, <1>3, OwnCursor DEF IInv, Types
    <3>. QED
      BY <1>1, <3>1 DEF FrozenInv, AnyWalk, LiveCursor
  <2>3. Types'
    BY <1>1, <2>1, <2>2 DEF IInv, Types, Request
  <2>4. request'[r] = [pc |-> "items", cursor |-> walk[r].cursor]
    BY <2>1 DEF IInv, Types
  <2>5. FrozenInv(r)'
    BY <1>1, <2>1, <2>4 DEF IInv, FrozenInv, Whole
  <2>6. LiveInv(r)'
    BY <1>1, <2>1 DEF LiveInv
  <2>7. Acts(r)
    BY <1>1, <2>1 DEF Acts, IInv, Types
  <2>. QED
    BY <1>2, <2>3, <2>5, <2>6, <2>7, ReaderStep
<1>4. CASE ~(SameConditions(walk[holder].cursor, order) /\ Found(r, walk[holder].cursor))
  <2>1. Refused(r) /\ request' = request
    BY <1>4 DEF AskNext
  <2>2. Types' /\ Acts(r) /\ FrozenInv(r)' /\ walk'[r].kind = "frozen"
    BY <1>1, <2>1, RefusedStep DEF IInv, Types, Acts
  <2>3. LiveInv(r)'
    BY <2>2 DEF LiveInv
  <2>. QED
    BY <1>2, <2>2, <2>3, ReaderStep
<1>. QED
  BY <1>3, <1>4

LEMMA ReadStep ==
  ASSUME IInv, NEW r \in Readers, NEW limit \in Limits, ReadItems(r, limit)
  PROVE  IInv'
<1>. DEFINE w == walk[r]
            all == Whole(w)
            id == w.cursor.list
            rows == From(request[r].cursor.list, request[r].cursor.position, limit)
<1>1. /\ request[r].pc = "items" /\ request[r] # Idle /\ limit \in Nat \ {0}
      /\ UNCHANGED <<key, clock, lists, changes, made>>
      /\ request' = [request EXCEPT ![r] = Idle] /\ request'[r] = Idle
  BY Constants DEF ReadItems, IInv, Types, Idle
<1>2. /\ w \in AnyWalk /\ w.kind = "frozen" /\ w.state = "reading"
      /\ request[r].cursor = w.cursor
      /\ w.cursor = Cursor(id, Len(w.shown), w.order)
      /\ IsPrefix(w.shown, all) /\ id \in 1 .. made /\ made \in Nat
      /\ id \in DOMAIN lists => lists[id].owner = r /\ lists[id].items = all
  BY <1>1, RequestType DEF IInv, Types, FrozenInv
<1>3. all \in Seq(Item) /\ w.shown \in Seq(Item) /\ w.order \in AllOrders
  BY <1>2, ItemsType, SortedType DEF AnyWalk, Whole
<1>4. Grows /\ request' \in [Readers -> Request]
  BY <1>1, ListsSame, RequestType DEF IInv, Types
<1>5. CASE ItemsThere(rows)
  <2>1. id \in DOMAIN lists
    BY <1>2, <1>5 DEF ItemsThere, From
  <2>2. rows = Shown(SubSeq(all, Len(w.shown) + 1, Len(all)), limit + 1)
    BY <1>2, <2>1 DEF From, Cursor
  <2>. DEFINE seen == w.shown \o Shown(rows, limit)
              next == Cursor(id, Len(w.shown) + limit, w.order)
              v == [w EXCEPT !.shown = seen,
                             !.state = IF More(rows, limit) THEN "reading" ELSE "whole",
                             !.cursor = IF More(rows, limit) THEN next ELSE NoCursor]
  <2>3. walk' = [walk EXCEPT ![r] = v]
    <3>1. /\ request[r].cursor.list = id /\ request[r].cursor.position = Len(w.shown)
          /\ request[r].cursor.order = w.order
      BY <1>2 DEF Cursor
    <3>2. Cursor(request[r].cursor.list, request[r].cursor.position + limit,
                 request[r].cursor.order) = next
      BY <3>1
    <3>3. walk' = [walk EXCEPT ![r].shown = seen,
                               ![r].state = IF More(rows, limit) THEN "reading" ELSE "whole",
                               ![r].cursor = IF More(rows, limit) THEN next ELSE NoCursor]
      <4>. HIDE DEF next
      <4>. QED
        BY <3>2, <1>5 DEF ReadItems
    <3>. HIDE DEF seen, next, rows
    <3>. QED
      BY <3>3
  <2>. HIDE DEF rows, all
  <2>4. /\ seen \in Seq(Item) /\ IsPrefix(seen, all)
        /\ IF More(rows, limit) THEN Len(seen) = Len(w.shown) + limit ELSE seen = all
    BY <1>1, <1>2, <1>3, <2>2, NextPage
  <2>5. Len(w.shown) \in Nat /\ next \in FrozenCursor /\ next.list = id
    <3>1. Len(w.shown) \in Nat
      BY <1>3, LenProperties
    <3>. QED
      BY <3>1, <1>1, <1>2, <1>3 DEF Cursor, FrozenCursor
  <2>. HIDE DEF seen, next
  <2>6. /\ v \in AnyWalk /\ v.kind = "frozen" /\ v.begun = w.begun /\ v.order = w.order
        /\ v.shown = seen
        /\ v.state = IF More(rows, limit) THEN "reading" ELSE "whole"
        /\ v.cursor = IF More(rows, limit) THEN next ELSE NoCursor
    BY <1>2, <2>4, <2>5 DEF AnyWalk
  <2>. HIDE DEF v
  <2>7. walk' \in [Readers -> AnyWalk] /\ walk'[r] = v
    BY <2>3, <2>6 DEF IInv, Types
  <2>8. Types' /\ Acts(r)
    BY <1>1, <1>4, <2>3, <2>7 DEF IInv, Types, Acts
  <2>9. Whole(v) = all
    BY <2>6 DEF Whole, all
  <2>10. More(rows, limit) => v.cursor = Cursor(v.cursor.list, Len(v.shown), v.order)
    BY <2>4, <2>5, <2>6 DEF next
  <2>11. FrozenInv(r)'
    BY <1>1, <1>2, <2>1, <2>4, <2>5, <2>6, <2>7, <2>9, <2>10, RequestType DEF FrozenInv, Whole
  <2>12. LiveInv(r)'
    BY <2>6, <2>7 DEF LiveInv
  <2>. QED
    BY <1>4, <2>8, <2>11, <2>12, ReaderStep
<1>6. CASE ~ItemsThere(rows)
  <2>1. Refused(r)
    BY <1>6 DEF ReadItems
  <2>2. Types' /\ Acts(r) /\ FrozenInv(r)' /\ walk'[r].kind = "frozen"
    BY <1>1, <1>2, <1>4, <2>1, RefusedStep, RequestType DEF IInv, Types, Acts
  <2>3. LiveInv(r)'
    BY <2>2 DEF LiveInv
  <2>. QED
    BY <1>4, <2>2, <2>3, ReaderStep
<1>. QED
  BY <1>5, <1>6

-----------------------------------------------------------------------------
(* Live lists.                                                             *)
\* A page of items that all come after what was shown goes on where that ended:
\* up to its last row everything is shown, and nothing behind it.
LEMMA LivePage ==
  ASSUME NEW s \in Seq(Item), NEW items \in SUBSET Item, IsFiniteSet(items),
         NEW limit \in Nat \ {0}, Descends(s),
         \A n \in DOMAIN s, i \in items : Before("newest", s[n], i)
  PROVE  LET rows == Sorted(items, "newest")
             seen == s \o Shown(rows, limit)
             last == Shown(rows, limit)[limit]
         IN  /\ rows \in Seq(Item) /\ seen \in Seq(Item) /\ Descends(seen)
             /\ \A n \in DOMAIN seen : IsShown(s, seen[n]) \/ seen[n] \in items
             /\ \A n \in DOMAIN s : IsShown(seen, s[n])
             /\ ~More(rows, limit) => \A i \in items : IsShown(seen, i)
             /\ More(rows, limit) =>
                  /\ last \in items
                  /\ \A n \in DOMAIN seen : ~Before("newest", last, seen[n])
                  /\ \A i \in items : ~Before("newest", last, i) => IsShown(seen, i)
<1>. DEFINE rows == Sorted(items, "newest")
            page == Shown(rows, limit)
            seen == s \o page
            last == page[limit]
<1>0. "newest" \in AllOrders
  BY DEF AllOrders
<1>1. /\ rows \in Seq(items) /\ rows \in Seq(Item)
      /\ \A i, j \in 1 .. Len(rows) : i < j => Before("newest", rows[i], rows[j])
      /\ \A x \in items : \E n \in 1 .. Len(rows) : rows[n] = x
  BY <1>0, SortedList, SortedType
<1>. HIDE DEF rows
<1>2. /\ page \in Seq(Item) /\ Len(page) = IF More(rows, limit) THEN limit ELSE Len(rows)
      /\ \A i \in 1 .. Len(page) : page[i] = rows[i]
  BY <1>1, Page
<1>3. Len(s) \in Nat /\ Len(page) \in Nat /\ Len(rows) \in Nat /\ Len(page) <= Len(rows)
  BY <1>1, <1>2, LenProperties DEF More
<1>. HIDE DEF page
<1>4. /\ seen \in Seq(Item) /\ Len(seen) = Len(s) + Len(page)
      /\ \A n \in 1 .. Len(seen) : seen[n] = IF n <= Len(s) THEN s[n] ELSE page[n - Len(s)]
  <2>1. page \in Seq(Item)
    BY <1>2
  <2>. QED
    BY <2>1, ConcatProperties
<1>5. DOMAIN s = 1 .. Len(s) /\ DOMAIN seen = 1 .. Len(seen)
  BY <1>4, LenProperties
<1>. HIDE DEF seen
<1>6. ASSUME NEW n \in 1 .. Len(seen), n > Len(s)
      PROVE  /\ n - Len(s) \in 1 .. Len(page) /\ n - Len(s) \in 1 .. Len(rows)
             /\ seen[n] = rows[n - Len(s)] /\ seen[n] \in items
  <2>1. n - Len(s) \in 1 .. Len(page) /\ n - Len(s) \in 1 .. Len(rows)
    BY <1>3, <1>4, <1>6
  <2>2. seen[n] = page[n - Len(s)]
    BY <1>3, <1>4, <1>6
  <2>3. rows[n - Len(s)] \in items
    BY <1>1, <2>1, ElementOfSeq
  <2>. QED
    BY <1>2, <2>1, <2>2, <2>3
<1>7. \A n \in 1 .. Len(s) : n \in 1 .. Len(seen) /\ seen[n] = s[n]
  BY <1>3, <1>4
<1>8. \A k \in 1 .. Len(page) : /\ Len(s) + k \in 1 .. Len(seen)
                                /\ seen[Len(s) + k] = rows[k]
  <2>. SUFFICES ASSUME NEW k \in 1 .. Len(page)
                PROVE  Len(s) + k \in 1 .. Len(seen) /\ seen[Len(s) + k] = rows[k]
    OBVIOUS
  <2>1. Len(s) + k \in 1 .. Len(seen) /\ Len(s) + k > Len(s) /\ Len(s) + k - Len(s) = k
    BY <1>3, <1>4
  <2>. QED
    BY <2>1, <1>6
<1>9. ASSUME NEW i \in 1 .. Len(seen), NEW j \in 1 .. Len(seen), i < j
      PROVE  Before("newest", seen[i], seen[j])
  <2>1. CASE j <= Len(s)
    BY <2>1, <1>3, <1>5, <1>7, <1>9 DEF Descends
  <2>2. CASE i <= Len(s) /\ j > Len(s)
    <3>1. i \in DOMAIN s /\ seen[i] = s[i]
      BY <2>2, <1>3, <1>5, <1>7
    <3>2. seen[j] \in items
      BY <2>2, <1>6
    <3>. QED
      BY <3>1, <3>2
  <2>3. CASE i > Len(s)
    <3>1. i - Len(s) < j - Len(s) /\ j > Len(s)
      BY <2>3, <1>3, <1>9
    <3>. QED
      BY <2>3, <3>1, <1>1, <1>6
  <2>. QED
    BY <2>1, <2>2, <2>3, <1>3
<1>10. \A n \in DOMAIN seen : IsShown(s, seen[n]) \/ seen[n] \in items
  BY <1>3, <1>5, <1>6, <1>7 DEF IsShown
<1>11. \A n \in DOMAIN s : IsShown(seen, s[n])
  BY <1>5, <1>7 DEF IsShown
<1>12. ASSUME ~More(rows, limit), NEW i \in items
       PROVE  IsShown(seen, i)
  BY <1>1, <1>2, <1>5, <1>8, <1>12 DEF IsShown
<1>13. ASSUME More(rows, limit)
       PROVE  /\ last \in items
              /\ \A n \in DOMAIN seen : ~Before("newest", last, seen[n])
              /\ \A i \in items : ~Before("newest", last, i) => IsShown(seen, i)
  <2>1. /\ limit \in 1 .. Len(page) /\ limit \in 1 .. Len(rows) /\ Len(page) = limit
        /\ last = rows[limit]
    BY <1>2, <1>3, <1>13
  <2>2. last \in items
    BY <1>1, <2>1, ElementOfSeq
  <2>3. ASSUME NEW n \in DOMAIN seen PROVE ~Before("newest", last, seen[n])
    <3>1. /\ Len(s) + limit \in 1 .. Len(seen) /\ seen[Len(s) + limit] = last
          /\ n \in 1 .. Len(seen) /\ n <= Len(s) + limit
      BY <1>3, <1>4, <1>5, <1>8, <2>1
    <3>2. n = Len(s) + limit \/ Before("newest", seen[n], last)
      BY <3>1, <1>3, <1>9
    <3>3. seen[n] \in Item /\ last \in Item
      BY <1>4, <3>1, ElementOfSeq
    <3>. QED
      BY <3>1, <3>2, <3>3, <1>0, TotalOrder
  <2>4. ASSUME NEW i \in items, ~Before("newest", last, i) PROVE IsShown(seen, i)
    <3>1. PICK k \in 1 .. Len(rows) : rows[k] = i
      BY <1>1
    <3>2. k \in 1 .. Len(page)
      <4>1. ~(limit < k)
        BY <1>1, <2>1, <2>4, <3>1
      <4>. QED
        BY <4>1, <2>1, <1>3
    <3>. QED
      BY <3>1, <3>2, <1>5, <1>8 DEF IsShown
  <2>. QED
    BY <2>2, <2>3, <2>4
<1>. QED
  BY <1>1, <1>4, <1>5, <1>9, <1>10, <1>11, <1>12, <1>13 DEF Descends, rows, page, seen, last

\* What a live walk is after a page, from what it was before: s was shown, the
\* page is one of items, and of a row that has not changed exactly one of both.
LEMMA LiveWalk ==
  ASSUME Types, NEW s \in Seq(Item), NEW items \in SUBSET Items(key),
         NEW limit \in Nat \ {0}, NEW w \in AnyWalk, Descends(s),
         \A n \in DOMAIN s, i \in items : Before("newest", s[n], i),
         \A x \in Rows \ w.changed :
           /\ w.begun[x] = key[x]
           /\ \A n \in DOMAIN s : s[n].row = x => s[n] = ItemOf(x)
           /\ key[x] > 0 => (IsShown(s, ItemOf(x)) <=> ItemOf(x) \notin items),
         LET rows == Sorted(items, "newest") IN
           /\ w.shown = s \o Shown(rows, limit)
           /\ w.state = IF More(rows, limit) THEN "reading" ELSE "whole"
           /\ w.cursor = IF More(rows, limit)
                         THEN [list |-> -1, after |-> Shown(rows, limit)[limit]] ELSE NoCursor
  PROVE  /\ w.state # "refused" /\ w.state # "none"
         /\ IF w.state = "reading" THEN w.cursor \in LiveCursor ELSE w.cursor = NoCursor
         /\ Descends(w.shown)
         /\ w.state = "reading" => \A n \in DOMAIN w.shown : ~IsAfter(w.cursor, w.shown[n])
         /\ \A x \in Rows \ w.changed : SteadyRow(w, x)
<1>. DEFINE rows == Sorted(items, "newest")
            last == Shown(rows, limit)[limit]
<1>1. /\ items \in SUBSET Item /\ IsFiniteSet(items)
      /\ \A i \in items : i = ItemOf(i.row)
      /\ \A x \in Rows : ItemOf(x) \in Item => key[x] > 0
  <2>1. /\ Items(key) \subseteq Item /\ IsFiniteSet(Items(key))
        /\ \A i \in Items(key) : i.key = key[i.row]
    BY ItemsType DEF Types
  <2>2. IsFiniteSet(items)
    BY <2>1, FS_Subset
  <2>. QED
    BY <2>1, <2>2 DEF Item, ItemOf
<1>2. /\ w.shown \in Seq(Item) /\ Descends(w.shown)
      /\ \A n \in DOMAIN w.shown : IsShown(s, w.shown[n]) \/ w.shown[n] \in items
      /\ \A n \in DOMAIN s : IsShown(w.shown, s[n])
      /\ ~More(rows, limit) => \A i \in items : IsShown(w.shown, i)
      /\ More(rows, limit) =>
           /\ last \in items
           /\ \A n \in DOMAIN w.shown : ~Before("newest", last, w.shown[n])
           /\ \A i \in items : ~Before("newest", last, i) => IsShown(w.shown, i)
  <2>. DEFINE seen == s \o Shown(rows, limit)
  <2>1. w.shown = seen
    OBVIOUS
  <2>2. /\ seen \in Seq(Item) /\ Descends(seen)
        /\ \A n \in DOMAIN seen : IsShown(s, seen[n]) \/ seen[n] \in items
        /\ \A n \in DOMAIN s : IsShown(seen, s[n])
        /\ ~More(rows, limit) => \A i \in items : IsShown(seen, i)
        /\ More(rows, limit) =>
             /\ last \in items
             /\ \A n \in DOMAIN seen : ~Before("newest", last, seen[n])
             /\ \A i \in items : ~Before("newest", last, i) => IsShown(seen, i)
    BY <1>1, LivePage
  <2>. HIDE DEF seen, rows, last
  <2>. QED
    BY <2>1, <2>2
<1>. HIDE DEF rows, last
<1>3. /\ w.state = IF More(rows, limit) THEN "reading" ELSE "whole"
      /\ w.cursor = IF More(rows, limit) THEN [list |-> -1, after |-> last] ELSE NoCursor
  BY DEF rows, last
<1>4. w.state # "refused" /\ w.state # "none"
  BY <1>3
<1>5. IF w.state = "reading" THEN w.cursor \in LiveCursor ELSE w.cursor = NoCursor
  BY <1>1, <1>2, <1>3 DEF LiveCursor
<1>6. w.state = "reading" =>
        /\ last \in items
        /\ \A i : IsAfter(w.cursor, i) <=> Before("newest", last, i)
  BY <1>2, <1>3 DEF IsAfter
<1>7. w.state = "reading" => \A n \in DOMAIN w.shown : ~IsAfter(w.cursor, w.shown[n])
  BY <1>2, <1>3, <1>6
<1>8. ASSUME NEW x \in Rows \ w.changed
      PROVE  SteadyRow(w, x)
  <2>1. ASSUME NEW n \in DOMAIN w.shown, w.shown[n].row = x
        PROVE  w.shown[n] = ItemOf(x)
    BY <1>1, <1>2, <1>8, <2>1 DEF IsShown
  <2>2. ASSUME IsShown(w.shown, ItemOf(x))
        PROVE  key[x] > 0 /\ (w.state = "reading" => ~IsAfter(w.cursor, ItemOf(x)))
    <3>1. PICK n \in DOMAIN w.shown : w.shown[n] = ItemOf(x)
      BY <2>2 DEF IsShown
    <3>2. ItemOf(x) \in Item
      BY <1>2, <3>1, LenProperties, ElementOfSeq
    <3>. QED
      BY <1>1, <1>7, <3>1, <3>2
  <2>3. ASSUME key[x] > 0, w.state = "reading" => ~IsAfter(w.cursor, ItemOf(x))
        PROVE  IsShown(w.shown, ItemOf(x))
    <3>1. CASE ItemOf(x) \in items
      BY <1>2, <1>3, <1>6, <2>3, <3>1
    <3>2. CASE ItemOf(x) \notin items
      <4>1. IsShown(s, ItemOf(x))
        BY <1>8, <2>3, <3>2
      <4>. QED
        BY <1>2, <4>1 DEF IsShown
    <3>. QED
      BY <3>1, <3>2
  <2>. QED
    BY <1>8, <2>1, <2>2, <2>3 DEF SteadyRow
<1>. QED
  BY <1>2, <1>4, <1>5, <1>7, <1>8

LEMMA OpenLiveStep ==
  ASSUME IInv, NEW r \in Readers, NEW limit \in Limits, OpenLive(r, limit)
  PROVE  IInv'
<1>. DEFINE rows == Sorted(Items(key), "newest")
            cursor == [list |-> -1, after |-> Shown(rows, limit)[limit]]
            w == Walk("live", "newest", key, rows, limit, IF More(rows, limit) THEN cursor ELSE NoCursor)
<1>1. /\ request[r].pc = "idle" /\ walk[r].kind = "live" /\ walk[r].state = "none"
      /\ walk' = [walk EXCEPT ![r] = w]
      /\ UNCHANGED <<key, clock, lists, request, changes, made>>
  BY DEF OpenLive
<1>2. /\ Types /\ key \in View /\ limit \in Nat \ {0} /\ "newest" \in AllOrders
      /\ request[r] = Idle
  BY <1>1, Constants DEF IInv, LiveInv, Types, AllOrders
<1>3. /\ Items(key) \in SUBSET Item /\ IsFiniteSet(Items(key)) /\ rows \in Seq(Item)
      /\ \A x \in Rows : key[x] > 0 => ItemOf(x) \in Items(key)
  BY <1>2, ItemsType, SortedType DEF ItemOf
<1>4. /\ <<>> \in Seq(Item) /\ Descends(<<>>) /\ DOMAIN <<>> = {}
      /\ Shown(rows, limit) \in Seq(Item) /\ <<>> \o Shown(rows, limit) = Shown(rows, limit)
  <2>1. Shown(rows, limit) \in Seq(Item)
    BY <1>2, <1>3, Page
  <2>. HIDE DEF rows
  <2>. QED
    BY <2>1, ConcatEmptySeq, EmptySeq DEF Descends
<1>5. More(rows, limit) => cursor \in LiveCursor
  <2>. HIDE DEF rows
  <2>1. ASSUME More(rows, limit) PROVE limit \in 1 .. Len(Shown(rows, limit))
    BY <2>1, <1>2, <1>3, Page
  <2>. QED
    BY <2>1, <1>4, ElementOfSeq DEF LiveCursor
<1>. HIDE DEF rows
<1>6. /\ w \in AnyWalk /\ w.kind = "live" /\ w.begun = key /\ w.shown = Shown(rows, limit)
      /\ w.state = IF More(rows, limit) THEN "reading" ELSE "whole"
      /\ w.cursor = IF More(rows, limit) THEN cursor ELSE NoCursor
  <2>. HIDE DEF cursor
  <2>. QED
    BY <1>2, <1>4, <1>5 DEF Walk, AnyWalk, Kinds
<1>. HIDE DEF w
<1>7. /\ w.state # "refused" /\ w.state # "none"
      /\ IF w.state = "reading" THEN w.cursor \in LiveCursor ELSE w.cursor = NoCursor
      /\ Descends(w.shown)
      /\ w.state = "reading" => \A n \in DOMAIN w.shown : ~IsAfter(w.cursor, w.shown[n])
      /\ \A x \in Rows \ w.changed : SteadyRow(w, x)
  <2>1. \A x \in Rows \ w.changed :
          /\ w.begun[x] = key[x]
          /\ \A n \in DOMAIN <<>> : <<>>[n].row = x => <<>>[n] = ItemOf(x)
          /\ key[x] > 0 => (IsShown(<<>>, ItemOf(x)) <=> ItemOf(x) \notin Items(key))
    BY <1>3, <1>4, <1>6 DEF IsShown
  <2>2. \A n \in DOMAIN <<>>, i \in Items(key) : Before("newest", <<>>[n], i)
    BY <1>4
  <2>3. w.shown = <<>> \o Shown(rows, limit)
    BY <1>4, <1>6
  <2>. QED
    BY <1>2, <1>3, <1>4, <1>6, <2>1, <2>2, <2>3, LiveWalk DEF rows, cursor
<1>8. walk' \in [Readers -> AnyWalk] /\ walk'[r] = w
  BY <1>1, <1>6 DEF IInv, Types
<1>9. Types' /\ Acts(r) /\ Grows
  BY <1>1, <1>8, ListsSame DEF IInv, Types, Acts
<1>10. FrozenInv(r)'
  BY <1>6, <1>8 DEF FrozenInv
<1>11. LiveInv(r)'
  BY <1>1, <1>2, <1>7, <1>8 DEF LiveInv, SteadyRow, ItemOf, IsShown
<1>. QED
  BY <1>9, <1>10, <1>11, ReaderStep

LEMMA NextLiveStep ==
  ASSUME IInv, NEW r \in Readers, NEW limit \in Limits, NextLive(r, limit)
  PROVE  IInv'
<1>. DEFINE w == walk[r]
            items == {i \in Items(key) : IsAfter(w.cursor, i)}
            rows == Sorted(items, "newest")
            seen == w.shown \o Shown(rows, limit)
            cursor == [list |-> -1, after |-> Shown(rows, limit)[limit]]
            v == [w EXCEPT !.shown = seen,
                           !.state = IF More(rows, limit) THEN "reading" ELSE "whole",
                           !.cursor = IF More(rows, limit) THEN cursor ELSE NoCursor]
<1>1. /\ w.kind = "live" /\ w.state = "reading"
      /\ UNCHANGED <<key, clock, lists, request, changes, made>>
      /\ walk' = [walk EXCEPT ![r].shown = seen,
                              ![r].state = IF More(rows, limit) THEN "reading" ELSE "whole",
                              ![r].cursor = IF More(rows, limit) THEN cursor ELSE NoCursor]
  BY DEF NextLive
<1>2. walk' = [walk EXCEPT ![r] = v]
  <2>. HIDE DEF seen, rows, cursor
  <2>. QED
    BY <1>1
<1>3. /\ Types /\ key \in View /\ limit \in Nat \ {0} /\ "newest" \in AllOrders
      /\ w \in AnyWalk /\ LiveInv(r) /\ w.shown \in Seq(Item)
  BY Constants DEF IInv, Types, AllOrders, AnyWalk
<1>4. /\ request[r] = Idle /\ w.cursor \in LiveCursor /\ Descends(w.shown)
      /\ \A n \in DOMAIN w.shown : ~IsAfter(w.cursor, w.shown[n])
      /\ \A x \in Rows \ w.changed : SteadyRow(w, x)
  BY <1>1, <1>3 DEF LiveInv
<1>5. /\ items \in SUBSET Items(key) /\ items \in SUBSET Item /\ IsFiniteSet(items)
      /\ rows \in Seq(Item)
      /\ \A x \in Rows : key[x] > 0 <=> ItemOf(x) \in Items(key)
  BY <1>3, AfterType, ItemsType, SortedType DEF ItemOf
<1>6. ASSUME NEW n \in DOMAIN w.shown, NEW i \in items
      PROVE  Before("newest", w.shown[n], i)
  <2>1. /\ w.shown[n] \in Item /\ w.cursor.after \in Item /\ i \in Item
        /\ ~Before("newest", w.cursor.after, w.shown[n])
        /\ Before("newest", w.cursor.after, i)
    BY <1>3, <1>4, <1>5, LenProperties, ElementOfSeq DEF IsAfter, LiveCursor
  <2>. HIDE DEF w, items
  <2>2. w.cursor.after = w.shown[n] \/ Before("newest", w.shown[n], w.cursor.after)
    BY <1>3, <2>1, TotalOrder
  <2>. QED
    BY <1>3, <2>1, <2>2, TotalOrder
<1>7. ASSUME NEW x \in Rows \ w.changed
      PROVE  /\ w.begun[x] = key[x]
             /\ \A n \in DOMAIN w.shown : w.shown[n].row = x => w.shown[n] = ItemOf(x)
             /\ key[x] > 0 => (IsShown(w.shown, ItemOf(x)) <=> ItemOf(x) \notin items)
  <2>1. SteadyRow(w, x)
    BY <1>4
  <2>2. key[x] > 0 => (ItemOf(x) \in items <=> IsAfter(w.cursor, ItemOf(x)))
    BY <1>5
  <2>. HIDE DEF items
  <2>. QED
    BY <1>1, <2>1, <2>2 DEF SteadyRow
<1>8. More(rows, limit) => cursor \in LiveCursor
  <2>1. Shown(rows, limit) \in Seq(Item)
    BY <1>3, <1>5, Page
  <2>. HIDE DEF rows
  <2>2. ASSUME More(rows, limit) PROVE limit \in 1 .. Len(Shown(rows, limit))
    BY <2>2, <1>3, <1>5, Page
  <2>. QED
    BY <2>1, <2>2, ElementOfSeq DEF LiveCursor
<1>9. seen \in Seq(Item)
  <2>1. Shown(rows, limit) \in Seq(Item)
    BY <1>3, <1>5, Page
  <2>. HIDE DEF rows
  <2>. QED
    BY <1>3, <2>1, ConcatProperties
<1>. HIDE DEF rows, cursor, seen
<1>10. /\ v \in AnyWalk /\ v.kind = "live" /\ v.begun = w.begun /\ v.changed = w.changed
       /\ v.shown = seen
       /\ v.state = IF More(rows, limit) THEN "reading" ELSE "whole"
       /\ v.cursor = IF More(rows, limit) THEN cursor ELSE NoCursor
  <2>. HIDE DEF items
  <2>. QED
    BY <1>1, <1>3, <1>8, <1>9 DEF AnyWalk
<1>. HIDE DEF v, items
<1>11. /\ v.state # "refused" /\ v.state # "none"
       /\ IF v.state = "reading" THEN v.cursor \in LiveCursor ELSE v.cursor = NoCursor
       /\ Descends(v.shown)
       /\ v.state = "reading" => \A n \in DOMAIN v.shown : ~IsAfter(v.cursor, v.shown[n])
       /\ \A x \in Rows \ v.changed : SteadyRow(v, x)
  <2>1. v.shown = w.shown \o Shown(rows, limit)
    BY <1>10 DEF seen
  <2>2. \A x \in Rows \ v.changed :
          /\ v.begun[x] = key[x]
          /\ \A n \in DOMAIN w.shown : w.shown[n].row = x => w.shown[n] = ItemOf(x)
          /\ key[x] > 0 => (IsShown(w.shown, ItemOf(x)) <=> ItemOf(x) \notin items)
    BY <1>7, <1>10
  <2>. HIDE DEF w
  <2>. QED
    BY <1>3, <1>4, <1>5, <1>6, <1>10, <2>1, <2>2, LiveWalk DEF rows, cursor
<1>12. walk' \in [Readers -> AnyWalk] /\ walk'[r] = v
  BY <1>2, <1>10 DEF IInv, Types
<1>13. Types' /\ Acts(r) /\ Grows
  BY <1>1, <1>2, <1>12, ListsSame DEF IInv, Types, Acts
<1>14. FrozenInv(r)'
  BY <1>10, <1>12 DEF FrozenInv
<1>15. LiveInv(r)'
  <2>. HIDE DEF w
  <2>1. request'[r] = Idle /\ walk'[r] = v /\ key' = key
    BY <1>1, <1>4, <1>12
  <2>. QED
    BY <2>1, <1>10, <1>11 DEF LiveInv, SteadyRow, ItemOf, IsShown
<1>. QED
  BY <1>13, <1>14, <1>15, ReaderStep

-----------------------------------------------------------------------------
(* The world, and all steps together.                                      *)
\* A row that changes is no longer steady in any walk; the others are as before.
LEMMA ChangeStep ==
  ASSUME IInv, NEW x \in Rows, NEW k \in 0 .. MaxKey, Change(x, k)
  PROVE  IInv'
<1>1. /\ key' = [key EXCEPT ![x] = k] /\ key \in View /\ k \in Nat
      /\ walk' = [r \in Readers |-> [walk[r] EXCEPT !.changed = @ \cup {x}]]
      /\ walk \in [Readers -> AnyWalk]
      /\ UNCHANGED <<clock, lists, request, made>>
  BY DEF Change, IInv, Types
<1>2. \A r \in Readers :
        /\ walk'[r] \in AnyWalk /\ walk'[r].changed = walk[r].changed \cup {x}
        /\ walk'[r].kind = walk[r].kind /\ walk'[r].order = walk[r].order
        /\ walk'[r].begun = walk[r].begun /\ walk'[r].shown = walk[r].shown
        /\ walk'[r].state = walk[r].state /\ walk'[r].cursor = walk[r].cursor
  BY <1>1 DEF AnyWalk
<1>3. Types' /\ ListsInv'
  BY <1>1, <1>2 DEF IInv, Types, ListsInv, View
<1>4. ASSUME NEW r \in Readers PROVE FrozenInv(r)'
  <2>1. FrozenInv(r) /\ Whole(walk'[r]) = Whole(walk[r])
    BY <1>2 DEF IInv, Whole
  <2>. QED
    BY <2>1, <1>1, <1>2 DEF FrozenInv
<1>5. ASSUME NEW r \in Readers PROVE LiveInv(r)'
  <2>1. LiveInv(r) /\ Descends(walk[r].shown) = Descends(walk'[r].shown)
    BY <1>2 DEF IInv
  <2>2. ASSUME NEW y \in Rows \ walk'[r].changed, SteadyRow(walk[r], y)
        PROVE  SteadyRow(walk[r], y)'
    <3>1. key'[y] = key[y]
      BY <1>1, <1>2, <2>2 DEF View
    <3>. QED
      BY <3>1, <2>2, <1>2 DEF SteadyRow, ItemOf, IsShown, IsAfter
  <2>. QED
    BY <1>1, <1>2, <2>1, <2>2 DEF LiveInv, Descends, IsAfter
<1>. QED
  BY <1>3, <1>4, <1>5 DEF IInv

LEMMA Step == IInv /\ [Next]_vars => IInv'
<1>. SUFFICES ASSUME IInv, [Next]_vars PROVE IInv'
  OBVIOUS
<1>1. ASSUME NEW r \in Readers, FreezeList(r) \/ CommitConflicts(r) \/ Fail(r) PROVE IInv'
  BY <1>1, FreezeStep, GiveUpStep
<1>2. ASSUME NEW r \in Readers, NEW order \in Orders, NEW limit \in Limits,
             CommitList(r, order, limit)
      PROVE  IInv'
  BY <1>2, CommitStep
<1>3. ASSUME NEW r \in Readers, NEW holder \in Readers, NEW order \in Orders,
             AskNext(r, holder, order)
      PROVE  IInv'
  BY <1>3, AskStep
<1>4. ASSUME NEW r \in Readers, NEW limit \in Limits,
             ReadItems(r, limit) \/ OpenLive(r, limit) \/ NextLive(r, limit)
      PROVE  IInv'
  BY <1>4, ReadStep, OpenLiveStep, NextLiveStep
<1>5. ASSUME NEW x \in Rows, NEW k \in 0 .. MaxKey, Change(x, k) PROVE IInv'
  BY <1>5, ChangeStep
<1>6. ASSUME UNCHANGED <<key, lists, request, walk, made>>, clock' \in Nat PROVE IInv'
  <2>1. Types' /\ ListsInv'
    BY <1>6 DEF IInv, Types, ListsInv
  <2>2. ASSUME NEW r \in Readers PROVE FrozenInv(r)' /\ LiveInv(r)'
    BY <1>6, OthersLive DEF IInv, FrozenInv, Whole
  <2>. QED
    BY <2>1, <2>2 DEF IInv
<1>7. CASE Tick
  BY <1>6, <1>7 DEF Tick, IInv, Types
<1>8. CASE UNCHANGED vars
  BY <1>6, <1>8 DEF vars, IInv, Types
<1>. QED
  BY <1>1, <1>2, <1>3, <1>4, <1>5, <1>7, <1>8 DEF Next

LEMMA Always == Spec => []IInv
BY Initially, Step, PTL DEF Spec

-----------------------------------------------------------------------------
(* What holds of every reachable state.                                    *)

\* Frozen lists: whatever changes, expires or is deleted between two queries,
\* the pages a reader is shown are the beginning of one moment's list, and a walk
\* that ends has shown all of it (repositories/snapshots.py, page and create).
THEOREM FrozenWalks == Spec => []FrozenWalkIsWhole
<1>1. IInv => FrozenWalkIsWhole
  BY DEF IInv, FrozenInv, Whole, FrozenWalkIsWhole
<1>. QED
  BY <1>1, Always, PTL

\* Live lists: each row that does not change while the pages are read is shown
\* once when the walk ends, and never twice (services/session_service.py, list).
THEOREM LiveWalks == Spec => []LiveWalkIsSteady
<1>1. ASSUME IInv, NEW r \in Readers, walk[r].kind = "live", walk[r].state # "none",
             NEW x \in Rows \ walk[r].changed
      PROVE  LET times == Cardinality({i \in DOMAIN walk[r].shown : walk[r].shown[i].row = x})
             IN  /\ times <= IF walk[r].begun[x] > 0 THEN 1 ELSE 0
                 /\ walk[r].state = "whole" /\ walk[r].begun[x] > 0 => times = 1
  <2>. DEFINE s == walk[r].shown
              places == {i \in DOMAIN s : s[i].row = x}
  <2>1. /\ s \in Seq(Item) /\ Descends(s) /\ SteadyRow(walk[r], x)
    BY <1>1 DEF IInv, Types, AnyWalk, LiveInv
  <2>2. ASSUME NEW i \in places, NEW j \in places PROVE i = j
    <3>1. i \in Nat /\ j \in Nat /\ s[i] = ItemOf(x) /\ s[j] = ItemOf(x) /\ s[i] \in Item
      BY <2>1, LenProperties, ElementOfSeq DEF SteadyRow
    <3>2. ~Before("newest", s[i], s[j])
      BY <3>1, TotalOrder DEF AllOrders
    <3>3. ~Before("newest", s[j], s[i])
      BY <3>1, TotalOrder DEF AllOrders
    <3>. QED
      BY <2>1, <3>1, <3>2, <3>3 DEF Descends
  <2>3. places # {} <=> IsShown(s, ItemOf(x))
    BY <2>1 DEF SteadyRow, IsShown, ItemOf
  <2>4. CASE places = {}
    <3>1. Cardinality(places) = 0
      BY <2>4, FS_EmptySet
    <3>. QED
      BY <2>1, <2>3, <2>4, <3>1 DEF SteadyRow
  <2>5. CASE places # {}
    <3>1. PICK i : places = {i}
      BY <2>2, <2>5
    <3>2. Cardinality(places) = 1
      BY <3>1, FS_Singleton
    <3>. QED
      BY <2>1, <2>3, <2>5, <3>2 DEF SteadyRow
  <2>. QED
    BY <2>4, <2>5
<1>2. IInv => LiveWalkIsSteady
  BY <1>1 DEF LiveWalkIsSteady
<1>. QED
  BY <1>2, Always, PTL

\* Live lists: the rows shown, page after page, are in the order of the list, so
\* that a row that comes again has another key than before
\* (services/memory_service.py, list_memories).
THEOREM LiveOrder == Spec => []LiveWalkDescends
<1>1. IInv => LiveWalkDescends
  BY DEF IInv, LiveInv, Descends, LiveWalkDescends
<1>. QED
  BY <1>1, Always, PTL
=============================================================================
