----------------------------- MODULE HeadProofs ------------------------------
(***************************************************************************)
(* Theorems about HeadWatermark, for any number of items, any page size    *)
(* and any number of changes and failures: its types, that the watermark   *)
(* never moves back and that whatever the checkpoint excludes is in the    *)
(* table, for operations with a cursor, and for those with an offset that  *)
(* lose no items.                                                          *)
(***************************************************************************)
EXTENDS HeadWatermark, FiniteSetTheorems, Counting, TLAPS

USE ConstantsAssumption

-----------------------------------------------------------------------------
(* The order of the items, and the pages.                                   *)

LEMMA ListedFinite == \A S \in SUBSET Items : IsFiniteSet(S)
<1>1. 1 \in Int /\ NumItems \in Int
  OBVIOUS
<1>2. IsFiniteSet(Items)
  BY <1>1, FS_Interval DEF Items
<1> QED
  BY <1>2, FS_Subset

LEMMA ItemNumbers ==
    ASSUME TypeOK
    PROVE  \A i \in Items : i \in Nat /\ i <= NumItems /\ mark[i] \in Nat /\ mark[i] <= MaxMark
<1>1. mark \in [Items -> Marks]
  BY DEF TypeOK
<1> QED
  BY <1>1 DEF Marks, Items

\* A non-empty set of items has a first and a last one.
LEMMA FirstAndLast ==
    ASSUME TypeOK, NEW S \in SUBSET Items, S # {}
    PROVE  /\ \E i \in S : \A j \in S : i = j \/ Before(mark[i], i, mark[j], j)
           /\ \E i \in S : \A j \in S : i = j \/ Before(mark[j], j, mark[i], i)
<1> DEFINE M == {mark[i] : i \in S}
<1>t. \A i \in Items : mark[i] \in Nat /\ mark[i] <= MaxMark /\ i \in Nat /\ i <= NumItems
  BY ItemNumbers
<1>1. M \in SUBSET Nat /\ M # {} /\ \A m \in M : m <= MaxMark
  BY <1>t
<1>2. PICK m \in M : \A n \in M : n <= m
  <2> HIDE DEF M
  <2> QED
    BY <1>1, LargestNat
<1>3. PICK n \in M : \A m1 \in M : n <= m1
  <2> HIDE DEF M
  <2> QED
    BY <1>1, SmallestNat
<1> DEFINE F == {i \in S : mark[i] = m}
           L == {i \in S : mark[i] = n}
<1>4. F \in SUBSET Nat /\ F # {}
  BY <1>t, <1>2
<1>5. L \in SUBSET Nat /\ L # {} /\ \A i \in L : i <= NumItems
  BY <1>t, <1>3
<1>6. PICK i \in F : \A j \in F : i <= j
  <2> HIDE DEF F
  <2> QED
    BY <1>4, SmallestNat
<1>7. PICK l \in L : \A j \in L : j <= l
  <2> HIDE DEF L
  <2> QED
    BY <1>5, LargestNat
<1>8. \A j \in S : i = j \/ Before(mark[i], i, mark[j], j)
  BY <1>t, <1>2, <1>6 DEF Before
<1>9. \A j \in S : l = j \/ Before(mark[j], j, mark[l], l)
  BY <1>t, <1>3, <1>7 DEF Before
<1> QED
  BY <1>6, <1>7, <1>8, <1>9

LEMMA PageType == TypeOK => \A p : After(p) \subseteq Listed /\ Page(p) \subseteq After(p)
  BY DEF After, Page

\* A page holds the first items after its place.
LEMMA PageIsFirst ==
    ASSUME TypeOK, NEW p, NEW j \in Page(p), NEW i \in After(p),
           Before(mark[i], i, mark[j], j)
    PROVE  i \in Page(p)
<1> DEFINE A == After(p)
           B(x) == {y \in A : Before(mark[y], y, mark[x], x)}
<1>1. A \subseteq Items /\ j \in A
  BY PageType DEF Listed, Page
<1>2. \A x \in Items : mark[x] \in Nat /\ x \in Nat
  BY ItemNumbers
<1>3. B(i) \subseteq B(j)
  BY <1>1, <1>2 DEF Before
<1>4. IsFiniteSet(B(i)) /\ IsFiniteSet(B(j))
  BY <1>1, ListedFinite
<1> HIDE DEF B
<1>5. Cardinality(B(i)) <= Cardinality(B(j))
  BY <1>3, <1>4, FS_Subset
<1>6. Cardinality(B(i)) \in Nat /\ Cardinality(B(j)) \in Nat
  BY <1>4, FS_CardinalityType
<1>7. Cardinality(B(j)) < PageSize
  BY DEF B, Page
<1>8. Cardinality(B(i)) < PageSize
  BY <1>5, <1>6, <1>7
<1> QED
  BY <1>8 DEF B, Page

\* A page is empty only when nothing is left.
LEMMA EmptyPage ==
    ASSUME TypeOK, NEW p, Page(p) = {}
    PROVE  After(p) = {}
<1> SUFFICES ASSUME After(p) # {} PROVE FALSE
  OBVIOUS
<1>1. After(p) \in SUBSET Items
  BY PageType DEF Listed
<1>2. PICK i \in After(p) : \A j \in After(p) : i = j \/ Before(mark[i], i, mark[j], j)
  BY <1>1, FirstAndLast
<1>3. \A j \in After(p) : ~Before(mark[j], j, mark[i], i)
  BY <1>1, <1>2, ItemNumbers DEF Before
<1>4. {j \in After(p) : Before(mark[j], j, mark[i], i)} = {}
  BY <1>3
<1>5. Cardinality({j \in After(p) : Before(mark[j], j, mark[i], i)}) < PageSize
  BY <1>4, FS_EmptySet
<1> QED
  BY <1>5 DEF Page

LEMMA LastOfPage ==
    ASSUME TypeOK, NEW p, Page(p) # {}
    PROVE  /\ LastOf(Page(p)) \in Page(p)
           /\ \A j \in Page(p) : LastOf(Page(p)) = j
                 \/ Before(mark[j], j, mark[LastOf(Page(p))], LastOf(Page(p)))
<1>1. Page(p) \in SUBSET Items
  BY PageType DEF Listed
<1>2. \E i \in Page(p) : \A j \in Page(p) : i = j \/ Before(mark[j], j, mark[i], i)
  BY <1>1, FirstAndLast
<1> QED
  BY <1>2 DEF LastOf

\* What a page tells about the head: its largest watermark, or the one before.
LEMMA ObserveMax ==
    ASSUME TypeOK, NEW page \in SUBSET Items
    PROVE  /\ Observe(page).watermark \in {cycleState.watermark} \cup {mark[i] : i \in page}
           /\ cycleState.watermark <= Observe(page).watermark
           /\ \A i \in page : mark[i] <= Observe(page).watermark
           /\ Observe(page).keys =
                 {i \in page : mark[i] = Observe(page).watermark}
                 \cup (IF Observe(page).watermark = cycleState.watermark
                       THEN cycleState.keys ELSE {})
           /\ Observe(page) \in Boundaries
<1> DEFINE marks == {cycleState.watermark} \cup {mark[i] : i \in page}
           top   == CHOOSE m \in marks : \A n \in marks : n <= m
<1>1. marks \in SUBSET Nat /\ marks # {} /\ (\A m \in marks : m <= MaxMark)
      /\ marks \subseteq Marks
  BY DEF TypeOK, Marks, Boundaries
<1>2. \E m \in marks : \A n \in marks : n <= m
  <2> HIDE DEF marks
  <2> QED
    BY <1>1, LargestNat
<1>3. top \in marks /\ \A n \in marks : n <= top
  BY <1>2
<1>4. Observe(page) =
         [watermark |-> top,
          keys |-> {i \in page : mark[i] = top}
                   \cup (IF top = cycleState.watermark THEN cycleState.keys ELSE {})]
  BY DEF Observe
<1>5. cycleState.keys \in SUBSET Items
  BY DEF TypeOK, Boundaries
<1> HIDE DEF top
<1>6. Observe(page) \in Boundaries
  BY <1>1, <1>3, <1>4, <1>5 DEF Boundaries
<1> QED
  BY <1>3, <1>4, <1>6

\* What comes after a page with older items only is older.
LEMMA OlderAfterwards ==
    ASSUME TypeOK, NEW p, AllOlder(Page(p)), NEW i \in After(p), i \notin Page(p)
    PROVE  Excluded(i)
<1>1. PICK j \in Page(p) : mark[j] < checkpoint.watermark
  BY DEF AllOlder, Older
<1>2. i \in Items /\ j \in Items
  BY <1>1, PageType DEF Listed
<1>3. ~Before(mark[i], i, mark[j], j)
  BY <1>1, PageIsFirst
<1>4. checkpoint.watermark \in Nat
  BY DEF TypeOK, Boundaries, Marks
<1> QED
  BY <1>1, <1>2, <1>3, <1>4, ItemNumbers DEF Before, Excluded, Older

-----------------------------------------------------------------------------
(* The types.                                                               *)

Tables == [Items -> Marks]
Places == [offset : Nat, mark : 0..(MaxMark + 1), item : 0..NumItems]
Environments == [changes : 0..MaxChanges, failures : 0..MaxFailures]

LEMMA EmptyTypes ==
    Nothing \in Boundaries /\ NoRows \in Tables /\ Head \in Places
<1>1. Nothing \in Boundaries
  BY DEF Nothing, Boundaries, Marks
<1>2. NoRows \in Tables
  BY DEF NoRows, Tables, Marks
<1>3. Head \in Places
  BY DEF Head, Places
<1> QED
  BY <1>1, <1>2, <1>3

LEMMA TypeInit == Init => TypeOK
<1> SUFFICES ASSUME Init PROVE TypeOK
  OBVIOUS
<1>1. env \in Environments
  BY DEF Init, Environments
<1>2. mark \in Tables /\ stored \in Tables
  BY DEF Init, Tables, Marks
<1> QED
  BY <1>1, <1>2, EmptyTypes DEF Init, TypeOK, Environments, Tables, Places

LEMMA WrittenType ==
    ASSUME TypeOK, NEW items PROVE Written(items) \in Tables
<1>1. rows \in [Items -> Marks] /\ stored \in [Items -> Marks]
  BY DEF TypeOK
<1> QED
  BY <1>1 DEF Written, Tables

LEMMA NextPlaceType ==
    ASSUME TypeOK, Page(place) # {}
    PROVE  NextPlace(Page(place)) \in Places
<1>1. LastOf(Page(place)) \in Items
  BY LastOfPage, PageType DEF Listed
<1>2. place.offset + PageSize \in Nat
  BY DEF TypeOK
<1>3. mark[LastOf(Page(place))] \in 0..(MaxMark + 1)
  BY <1>1, ItemNumbers
<1>4. LastOf(Page(place)) \in 0..NumItems
  BY <1>1, ItemNumbers
<1> QED
  BY <1>2, <1>3, <1>4, EmptyTypes DEF NextPlace, Places, Head

LEMMA TypeStep == TypeOK /\ [Next]_vars => TypeOK'
<1> SUFFICES ASSUME TypeOK, [Next]_vars PROVE TypeOK'
  OBVIOUS
<1> DEFINE Types ==
             /\ operation \in Operations
             /\ mark \in Tables
             /\ clock \in 1..MaxMark
             /\ stored \in Tables
             /\ checkpoint \in Boundaries
             /\ pc \in {"idle", "fetch", "apply", "save"}
             /\ place \in Places
             /\ rows \in Tables
             /\ cycleState \in Boundaries
             /\ pc = "idle" => rows = NoRows /\ cycleState = Nothing
             /\ env \in Environments
<1>t. Types
  BY DEF TypeOK, Tables, Places, Environments
<1>u. Types' => TypeOK'
  BY DEF TypeOK, Tables, Places, Environments
<1> USE DEF api
<1>e. EndCycle => /\ pc' = "idle" /\ place' \in Places /\ rows' = NoRows
                  /\ cycleState' = Nothing /\ rows' \in Tables /\ cycleState' \in Boundaries
  BY EmptyTypes DEF EndCycle
<1>f. Fail => env' \in Environments
  BY <1>t DEF Fail, Environments
<1>1. CASE Start
  BY <1>1, <1>t, <1>u DEF Start
<1>2. CASE FetchPage
  <2>1. Page(place) \in SUBSET Items
    BY PageType DEF Listed
  <2>2. cycleState' \in Boundaries
    BY <1>2, <2>1, ObserveMax DEF FetchPage
  <2>3. rows' \in Tables
    BY <1>2, <1>t DEF FetchPage, Tables
  <2>4. pc' \in {"fetch", "apply"} /\ place' \in Places
    <3>1. CASE LastPage(Page(place))
      BY <1>2, <1>t, <3>1 DEF FetchPage
    <3>2. CASE ~LastPage(Page(place))
      <4>1. Page(place) # {}
        BY <3>2 DEF LastPage
      <4> QED
        BY <1>2, <3>2, <4>1, NextPlaceType DEF FetchPage
    <3> QED
      BY <3>1, <3>2
  <2>5. UNCHANGED <<api, stored, checkpoint, env>>
    BY <1>2 DEF FetchPage
  <2> QED
    BY <1>t, <1>u, <2>2, <2>3, <2>4, <2>5
<1>3. CASE FetchFails
  BY <1>3, <1>t, <1>u, <1>e, <1>f DEF FetchFails
<1>4. CASE Apply
  <2>1. stored' \in Tables
    BY <1>4, WrittenType DEF Apply
  <2> QED
    BY <1>4, <1>t, <1>u, <2>1 DEF Apply
<1>5. CASE ApplyFails
  <2>1. stored' \in Tables
    BY <1>5, WrittenType DEF ApplyFails
  <2> QED
    BY <1>5, <1>t, <1>u, <1>e, <1>f, <2>1 DEF ApplyFails
<1>6. CASE SaveCheckpoints
  <2>1. checkpoint' \in Boundaries
    BY <1>6, <1>t DEF SaveCheckpoints, Pending
  <2> QED
    BY <1>6, <1>t, <1>u, <1>e, <2>1 DEF SaveCheckpoints
<1>7. CASE Crash
  BY <1>7, <1>t, <1>u, <1>e, <1>f DEF Crash
<1>8. ASSUME NEW i \in Items, NEW m \in Marks, Change(i, m) PROVE TypeOK'
  <2>1. mark' \in Tables
    BY <1>8, <1>t DEF Change, Tables
  <2>2. env' \in Environments
    BY <1>8, <1>t DEF Change, Environments
  <2> QED
    BY <1>8, <1>t, <1>u, <2>1, <2>2 DEF Change
<1>9. ASSUME NEW i \in Items, Touch(i) \/ Delete(i) PROVE TypeOK'
  <2>1. clock \in Marks /\ 0 \in Marks
    BY <1>t DEF Marks
  <2> QED
    BY <1>8, <1>9, <2>1 DEF Touch, Delete
<1>10. CASE Tick
  <2>1. clock' \in 1..MaxMark
    BY <1>10, <1>t DEF Tick
  <2> QED
    BY <1>10, <1>t, <1>u, <2>1 DEF Tick
<1>11. CASE UNCHANGED vars
  BY <1>11, <1>t, <1>u DEF vars
<1> QED
  BY <1>1, <1>2, <1>3, <1>4, <1>5, <1>6, <1>7, <1>9, <1>10, <1>11 DEF Next, Cycle

-----------------------------------------------------------------------------
(* What the checkpoint excludes.                                            *)

WithCursor == operation.type = "cursor"

\* No watermark is from the future.
ClockInv ==
    /\ checkpoint.watermark <= clock /\ cycleState.watermark <= clock
    /\ \A i \in Items : mark[i] <= clock /\ stored[i] <= clock /\ rows[i] <= clock

\* The table holds what the checkpoint excludes, and the items it lists even
\* when they have been deleted: they may come back at the same moment.
TableInv ==
    /\ \A i \in Listed : Excluded(i) => stored[i] = mark[i]
    /\ \A i \in checkpoint.keys : stored[i] >= checkpoint.watermark

\* A row kept is of a version that the checkpoint does not exclude and that
\* was listed before the place of the next page, so that no page lists its
\* item again.
RowsInv ==
    /\ \A i \in Items : rows[i] > 0 =>
          /\ rows[i] >= checkpoint.watermark
          /\ mark[i] = 0 \/ mark[i] >= rows[i]
          /\ pc = "fetch" => ~Before(place.mark, place.item, rows[i], i)
    /\ pc = "idle" => place = Head
    /\ pc = "fetch" => place = Head \/ place.mark <= cycleState.watermark
    /\ pc = "save" => \A i \in Items : rows[i] > 0 => stored[i] = rows[i]

\* What the checkpoint of this cycle would exclude.
WouldExclude(i) ==
    \/ mark[i] < cycleState.watermark
    \/ mark[i] = cycleState.watermark /\ i \in cycleState.keys

\* What it would exclude is excluded already, kept, or still to be listed.
SeenInv ==
    /\ pc # "idle" => \A i \in Listed : WouldExclude(i) =>
          Excluded(i) \/ rows[i] = mark[i] \/ (pc = "fetch" /\ i \in After(place))
    /\ \A i \in cycleState.keys :
          \/ rows[i] = cycleState.watermark /\ rows[i] > 0
          \/ cycleState.watermark = checkpoint.watermark /\ i \in checkpoint.keys
          \/ cycleState.watermark < checkpoint.watermark

HeadInv == ClockInv /\ TableInv /\ RowsInv /\ SeenInv

LEMMA Numbers ==
    ASSUME TypeOK
    PROVE  /\ clock \in Nat /\ checkpoint.watermark \in Nat /\ cycleState.watermark \in Nat
           /\ checkpoint.keys \subseteq Items /\ cycleState.keys \subseteq Items
           /\ place.mark \in Nat /\ place.item \in Nat
           /\ \A i \in Items : i \in Nat /\ i > 0 /\ mark[i] \in Nat /\ mark[i] <= MaxMark
                               /\ stored[i] \in Nat /\ rows[i] \in Nat
<1>1. clock \in Nat /\ checkpoint \in Boundaries /\ cycleState \in Boundaries
  BY DEF TypeOK
<1>2. place \in Places
  BY DEF TypeOK, Places
<1>3. mark \in Tables /\ stored \in Tables /\ rows \in Tables
  BY DEF TypeOK, Tables
<1>4. \A i \in Items : i \in Nat /\ i > 0
  BY DEF Items
<1> QED
  BY <1>1, <1>2, <1>3, <1>4 DEF Boundaries, Places, Tables, Marks

LEMMA HeadInit == Init => HeadInv
<1> SUFFICES ASSUME Init PROVE HeadInv
  OBVIOUS
<1>1. /\ \A i \in Items : mark[i] = 0 /\ stored[i] = 0 /\ rows[i] = 0
      /\ checkpoint = Nothing /\ cycleState = Nothing /\ clock = 1 /\ pc = "idle" /\ place = Head
  BY DEF Init, NoRows
<1>2. Listed = {}
  BY <1>1 DEF Listed
<1> QED
  BY <1>1, <1>2 DEF HeadInv, ClockInv, TableInv, RowsInv, SeenInv, Nothing

\* A cycle that ends leaves table and checkpoint to the next one.
LEMMA EndKeeps ==
    ASSUME TypeOK, UNCHANGED <<mark, clock>>, EndCycle,
           ClockInv, TableInv', checkpoint'.watermark <= clock, checkpoint'.watermark \in Nat,
           \A i \in Items : stored'[i] <= clock
    PROVE  HeadInv'
<1>1. /\ pc' = "idle" /\ place' = Head /\ cycleState' = Nothing
      /\ \A i \in Items : rows'[i] = 0
  BY DEF EndCycle, NoRows
<1>2. clock \in Nat /\ \A i \in Items : mark[i] \in Nat
  BY Numbers
<1>3. ClockInv'
  BY <1>1, <1>2 DEF ClockInv, Nothing
<1>4. RowsInv'
  BY <1>1 DEF RowsInv
<1>5. SeenInv'
  BY <1>1 DEF SeenInv, Nothing
<1> QED
  BY <1>3, <1>4, <1>5 DEF HeadInv

\* Writing any of the rows keeps what is excluded in the table.
LEMMA WriteKeeps ==
    ASSUME TypeOK, HeadInv, NEW items, stored' = Written(items),
           UNCHANGED <<mark, clock, checkpoint>>
    PROVE  TableInv' /\ \A i \in Items : stored'[i] <= clock
<1>1. \A i \in Items : stored'[i] \in {stored[i], rows[i]}
                      /\ (stored'[i] # stored[i] => rows[i] > 0 /\ stored'[i] = rows[i])
  BY DEF Written
<1>2. ASSUME NEW i \in Listed, Excluded(i) PROVE stored'[i] = mark[i]
  <2>1. i \in Items /\ mark[i] > 0 /\ mark[i] <= checkpoint.watermark /\ stored[i] = mark[i]
    BY <1>2, Numbers DEF Listed, Excluded, Older, HeadInv, TableInv
  <2>2. rows[i] > 0 => rows[i] = mark[i]
    BY <2>1, Numbers DEF HeadInv, RowsInv
  <2> QED
    BY <1>1, <2>1, <2>2
<1>3. \A i \in checkpoint.keys : stored'[i] >= checkpoint.watermark
  BY <1>1, Numbers DEF HeadInv, TableInv, RowsInv
<1>4. \A i \in Items : stored'[i] <= clock
  BY <1>1, Numbers DEF HeadInv, ClockInv
<1>5. TableInv'
  BY <1>2, <1>3 DEF TableInv, Listed, Excluded, Older
<1> QED
  BY <1>4, <1>5

LEMMA Total ==
    ASSUME TypeOK, NEW i \in Items, NEW j \in Items, i # j, ~Before(mark[i], i, mark[j], j)
    PROVE  Before(mark[j], j, mark[i], i)
  BY ItemNumbers DEF Before

LEMMA CursorAfter ==
    ASSUME WithCursor, TypeOK, NEW p
    PROVE  After(p) = {i \in Listed : Before(p.mark, p.item, mark[i], i)}
  BY DEF After, WithCursor

\* A page lists no item again, and what comes after the last page is excluded.
LEMMA PageFacts ==
    ASSUME WithCursor, TypeOK, HeadInv, pc = "fetch"
    PROVE  /\ \A i \in Page(place) : i \in Listed /\ rows[i] = 0
           /\ LastPage(Page(place)) => \A i \in After(place) \ Page(place) : Excluded(i)
<1>1. ASSUME NEW i \in Page(place) PROVE i \in Listed /\ rows[i] = 0
  <2>1. i \in Listed /\ Before(place.mark, place.item, mark[i], i)
    BY PageType, CursorAfter
  <2>2. i \in Items /\ mark[i] > 0
    BY <2>1 DEF Listed
  <2>3. rows[i] > 0 => mark[i] >= rows[i] /\ ~Before(place.mark, place.item, rows[i], i)
    BY <2>2, Numbers DEF HeadInv, RowsInv
  <2> QED
    BY <2>1, <2>2, <2>3, Numbers DEF Before
<1>2. ASSUME LastPage(Page(place)), NEW i \in After(place), i \notin Page(place)
      PROVE  Excluded(i)
  <2>1. Page(place) # {} /\ Page(place) # After(place)
    BY <1>2, EmptyPage
  <2>2. AllOlder(Page(place))
    BY <1>2, <2>1 DEF LastPage, WithCursor
  <2> QED
    BY <1>2, <2>2, OlderAfterwards
<1> QED
  BY <1>1, <1>2

\* The page after another one begins where that one ends.
LEMMA NextFacts ==
    ASSUME WithCursor, TypeOK, Page(place) # {}
    PROVE  LET L == LastOf(Page(place))
               q == NextPlace(Page(place))
           IN  /\ q.mark = mark[L] /\ q.item = L /\ L \in Page(place)
               /\ \A i \in Page(place) : ~Before(q.mark, q.item, mark[i], i)
               /\ After(place) \ Page(place) \subseteq After(q)
<1> DEFINE L == LastOf(Page(place))
           q == NextPlace(Page(place))
<1>1. L \in Page(place) /\ \A j \in Page(place) : L = j \/ Before(mark[j], j, mark[L], L)
  BY LastOfPage
<1>2. operation.type = "cursor"
  BY DEF WithCursor
<1>3. q.mark = mark[L] /\ q.item = L
  BY <1>2 DEF NextPlace, Head
<1>4. Page(place) \subseteq Items /\ After(place) \subseteq Items
  BY PageType DEF Listed
<1> HIDE DEF L, q
<1>5. ASSUME NEW i \in Page(place) PROVE ~Before(q.mark, q.item, mark[i], i)
  BY <1>1, <1>3, <1>4, <1>5, Numbers DEF Before
<1>6. ASSUME NEW i \in After(place), i \notin Page(place) PROVE i \in After(q)
  <2>1. ~Before(mark[i], i, mark[L], L)
    BY <1>1, <1>6, PageIsFirst
  <2>2. Before(mark[L], L, mark[i], i)
    BY <1>1, <1>4, <1>6, <2>1, Total
  <2>3. i \in Listed
    BY <1>6, PageType
  <2> QED
    BY <1>3, <2>2, <2>3, CursorAfter
<1> QED
  BY <1>1, <1>3, <1>5, <1>6 DEF L, q

LEMMA FetchKeeps ==
    ASSUME WithCursor, TypeOK, HeadInv, FetchPage
    PROVE  HeadInv'
<1> DEFINE page == Page(place)
           W == cycleState.watermark
<1>1. /\ pc = "fetch"
      /\ \A i \in Items : rows'[i] = IF i \in page /\ ~Excluded(i) /\ rows[i] = 0
                                     THEN mark[i] ELSE rows[i]
      /\ cycleState' = Observe(page)
      /\ UNCHANGED <<mark, clock, operation, stored, checkpoint>>
  BY DEF FetchPage, api
<1>2. /\ LastPage(page) => pc' = "apply"
      /\ ~LastPage(page) => pc' = "fetch" /\ place' = NextPlace(page) /\ page # {}
  BY DEF FetchPage, LastPage
<1>3. page \in SUBSET Items /\ page \subseteq After(place)
  BY PageType DEF Listed
<1>4. \A i \in page : i \in Listed /\ rows[i] = 0
  BY <1>1, PageFacts
<1>5. /\ W' \in {W} \cup {mark[i] : i \in page} /\ W <= W' /\ \A i \in page : mark[i] <= W'
      /\ cycleState'.keys = {i \in page : mark[i] = W'}
                            \cup (IF W' = W THEN cycleState.keys ELSE {})
      /\ W' \in Nat
  BY <1>1, <1>3, ObserveMax, Numbers DEF Boundaries, Marks
<1>6. \A i \in page : ~Excluded(i) => rows'[i] = mark[i]
  BY <1>1, <1>3, <1>4
<1>7. \A i \in Items : i \notin page \/ Excluded(i) => rows'[i] = rows[i]
  BY <1>1
<1>8. \A i \in Items : (Excluded(i) <=> Excluded(i)') /\ (i \in Listed <=> i \in Listed')
  BY <1>1 DEF Excluded, Older, Listed
<1>9. ClockInv'
  <2>1. W' <= clock
    BY <1>3, <1>5 DEF HeadInv, ClockInv
  <2>2. \A i \in Items : rows'[i] <= clock
    BY <1>1 DEF HeadInv, ClockInv
  <2> QED
    BY <1>1, <2>1, <2>2 DEF HeadInv, ClockInv
<1>10. TableInv'
  BY <1>1, <1>8 DEF HeadInv, TableInv, Listed
<1>11. /\ ~LastPage(page) => /\ place'.mark <= W'
                            /\ \A i \in page : ~Before(place'.mark, place'.item, mark[i], i)
                            /\ \A j \in Items : rows[j] > 0 =>
                                  ~Before(place'.mark, place'.item, rows[j], j)
  <2> SUFFICES ASSUME ~LastPage(page)
               PROVE  /\ place'.mark <= W'
                      /\ \A i \in page : ~Before(place'.mark, place'.item, mark[i], i)
                      /\ \A i \in Items : rows[i] > 0 =>
                            ~Before(place'.mark, place'.item, rows[i], i)
    OBVIOUS
  <2>1. PICK L \in page : place'.mark = mark[L] /\ place'.item = L
    BY <1>2, NextFacts
  <2>2. \A i \in page : ~Before(place'.mark, place'.item, mark[i], i)
    BY <1>2, NextFacts
  <2>3. Before(place.mark, place.item, mark[L], L)
    BY <1>3, CursorAfter
  <2>4. L \in Items
    BY <1>3
  <2>5. ASSUME NEW i \in Items, rows[i] > 0
        PROVE  ~Before(place'.mark, place'.item, rows[i], i)
    <3>1. ~Before(place.mark, place.item, rows[i], i)
      BY <1>1, <2>5 DEF HeadInv, RowsInv
    <3> QED
      BY <2>1, <2>3, <2>4, <3>1, Numbers DEF Before
  <2> QED
    BY <1>5, <2>1, <2>2, <2>5
<1>12. RowsInv'
  <2>1. ASSUME NEW i \in Items, rows'[i] > 0
        PROVE  /\ rows'[i] >= checkpoint.watermark
               /\ mark[i] = 0 \/ mark[i] >= rows'[i]
               /\ pc' = "fetch" => ~Before(place'.mark, place'.item, rows'[i], i)
    <3>1. CASE i \in page /\ ~Excluded(i)
      <4>1. rows'[i] = mark[i]
        BY <1>6, <3>1
      <4>2. mark[i] >= checkpoint.watermark
        BY <3>1, Numbers DEF Excluded, Older
      <4> QED
        BY <1>2, <1>11, <3>1, <4>1, <4>2, Numbers
    <3>2. CASE ~(i \in page /\ ~Excluded(i))
      <4>1. rows'[i] = rows[i]
        BY <1>7, <3>2
      <4> QED
        BY <1>2, <1>11, <2>1, <4>1 DEF HeadInv, RowsInv
    <3> QED
      BY <3>1, <3>2
  <2>2. pc' = "fetch" => place'.mark <= W'
    BY <1>2, <1>11
  <2>3. pc' \in {"fetch", "apply"}
    BY <1>2
  <2> QED
    BY <1>1, <2>1, <2>2, <2>3 DEF RowsInv
<1>13. ASSUME NEW i \in Listed, WouldExclude(i)'
       PROVE  Excluded(i) \/ rows[i] = mark[i] \/ i \in After(place)
  <2>1. mark'[i] = mark[i] /\ i \in Items
    BY <1>1 DEF Listed
  <2>2. CASE place = Head
    <3>1. Before(place.mark, place.item, mark[i], i)
      BY <2>1, <2>2, Numbers DEF Head, Before
    <3> QED
      BY <1>13, <3>1, CursorAfter
  <2>3. CASE place # Head
    <3>1. place.mark <= W
      BY <1>1, <2>3 DEF HeadInv, RowsInv
    <3>2. \A j \in page : mark[j] <= place.mark
      BY <1>3, CursorAfter, Numbers DEF Before
    <3>3. W' = W
      BY <1>3, <1>5, <3>1, <3>2, Numbers
    <3>4. i \in page \/ WouldExclude(i)
      BY <1>5, <1>13, <2>1, <3>3 DEF WouldExclude
    <3> QED
      BY <1>1, <1>3, <1>13, <3>4 DEF HeadInv, SeenInv
  <2> QED
    BY <2>2, <2>3
<1>14. ASSUME NEW i \in Listed', WouldExclude(i)'
       PROVE  (Excluded(i) \/ rows[i] = mark[i] \/ (pc = "fetch" /\ i \in After(place)))'
  <2>1. i \in Listed /\ i \in Items /\ mark'[i] = mark[i]
    BY <1>1 DEF Listed
  <2>2. CASE Excluded(i)
    BY <1>8, <2>1, <2>2
  <2>3. CASE ~Excluded(i) /\ i \in page
    BY <1>6, <2>1, <2>3
  <2>4. CASE ~Excluded(i) /\ i \notin page /\ rows[i] = mark[i]
    BY <1>7, <2>1, <2>4
  <2>5. CASE ~Excluded(i) /\ i \in After(place) \ page
    <3>1. ~LastPage(page)
      BY <1>1, <2>5, PageFacts
    <3>2. i \in After(NextPlace(page))
      BY <1>2, <2>5, <3>1, NextFacts
    <3>3. After(place)' = After(NextPlace(page))
      BY <1>1, <1>2, <3>1 DEF After, Listed
    <3> QED
      BY <1>2, <3>1, <3>2, <3>3
  <2> QED
    BY <1>13, <1>14, <2>1, <2>2, <2>3, <2>4, <2>5
<1>15. ASSUME NEW i \in cycleState'.keys
       PROVE  \/ rows'[i] = W' /\ rows'[i] > 0
              \/ W' = checkpoint.watermark /\ i \in checkpoint.keys
              \/ W' < checkpoint.watermark
  <2>1. CASE i \in page /\ mark[i] = W'
    <3>1. CASE Excluded(i)
      BY <2>1, <3>1 DEF Excluded, Older
    <3>2. CASE ~Excluded(i)
      BY <1>4, <1>6, <2>1, <3>2 DEF Listed
    <3> QED
      BY <3>1, <3>2
  <2>2. CASE W' = W /\ i \in cycleState.keys
    <3>1. i \in Items
      BY <2>2, Numbers
    <3>2. rows[i] > 0 => rows'[i] = rows[i]
      BY <1>1, <3>1, Numbers
    <3> QED
      BY <2>2, <3>2 DEF HeadInv, SeenInv
  <2> QED
    BY <1>5, <1>15, <2>1, <2>2
<1>16. SeenInv'
  BY <1>1, <1>14, <1>15 DEF SeenInv
<1> QED
  BY <1>9, <1>10, <1>12, <1>16 DEF HeadInv

\* An item that gets the watermark of the moment, although the checkpoint may
\* list it at that watermark, or that is deleted.
LEMMA ChangeKeeps ==
    ASSUME WithCursor, TypeOK, HeadInv,
           NEW j \in Items, NEW m \in {0, clock}, mark[j] < m \/ m = 0, Change(j, m)
    PROVE  HeadInv'
<1>1. /\ mark' = [mark EXCEPT ![j] = m]
      /\ UNCHANGED <<operation, clock, stored, checkpoint, pc, place, rows, cycleState>>
  BY DEF Change
<1>2. mark'[j] = m /\ \A i \in Items : i # j => mark'[i] = mark[i]
  BY <1>1 DEF TypeOK
<1>3. ClockInv'
  BY <1>1, <1>2, Numbers DEF HeadInv, ClockInv
<1>4. ASSUME NEW i \in Listed', i # j
      PROVE  /\ i \in Listed /\ i \in Items /\ (Excluded(i)' <=> Excluded(i))
             /\ (WouldExclude(i)' <=> WouldExclude(i))
             /\ ((i \in After(place))' <=> i \in After(place))
  <2>1. i \in Listed /\ i \in Items /\ mark'[i] = mark[i]
    BY <1>2, <1>4 DEF Listed
  <2>2. i \in After(place) <=> Before(place.mark, place.item, mark[i], i)
    BY <2>1, CursorAfter
  <2>3. (i \in After(place))' <=> Before(place.mark, place.item, mark'[i], i)
    <3>1. operation'.type = "cursor"
      BY <1>1 DEF WithCursor
    <3> QED
      BY <1>1, <1>4, <3>1 DEF After
  <2> QED
    BY <1>1, <2>1, <2>2, <2>3 DEF Excluded, Older, WouldExclude
<1>5. TableInv'
  <2>1. ASSUME NEW i \in Listed', Excluded(i)' PROVE stored'[i] = mark'[i]
    <3>1. CASE i # j
      BY <1>1, <1>2, <1>4, <2>1, <3>1 DEF HeadInv, TableInv
    <3>2. CASE i = j
      <4>1. m = clock /\ clock <= checkpoint.watermark
        BY <1>1, <1>2, <2>1, <3>2, Numbers DEF Listed, Excluded, Older
      <4>2. clock = checkpoint.watermark /\ j \in checkpoint.keys
        BY <1>1, <1>2, <2>1, <3>2, <4>1, Numbers
           DEF Excluded, Older, HeadInv, ClockInv
      <4>3. stored[j] = clock
        BY <4>2, Numbers DEF HeadInv, TableInv, ClockInv
      <4> QED
        BY <1>1, <1>2, <3>2, <4>1, <4>3
    <3> QED
      BY <3>1, <3>2
  <2> QED
    BY <1>1, <2>1 DEF HeadInv, TableInv
<1>6. RowsInv'
  <2>1. \A i \in Items : rows[i] > 0 => mark'[i] = 0 \/ mark'[i] >= rows[i]
    BY <1>2, Numbers DEF HeadInv, RowsInv, ClockInv
  <2> QED
    BY <1>1, <2>1 DEF HeadInv, RowsInv
<1>7. SeenInv'
  <2>1. ASSUME pc # "idle", NEW i \in Listed', WouldExclude(i)'
        PROVE  (Excluded(i) \/ rows[i] = mark[i] \/ (pc = "fetch" /\ i \in After(place)))'
    <3>1. CASE i # j
      BY <1>1, <1>2, <1>4, <2>1, <3>1 DEF HeadInv, SeenInv
    <3>2. CASE i = j
      <4>1. m = clock /\ mark'[i] = clock
        BY <1>2, <2>1, <3>2, Numbers DEF Listed
      <4>2. clock = cycleState.watermark /\ j \in cycleState.keys
        BY <1>1, <2>1, <3>2, <4>1, Numbers DEF WouldExclude, HeadInv, ClockInv
      <4>3. \/ rows[j] = clock
            \/ clock = checkpoint.watermark /\ j \in checkpoint.keys
        BY <4>2, Numbers DEF HeadInv, SeenInv, ClockInv
      <4> QED
        BY <1>1, <3>2, <4>1, <4>3 DEF Excluded
    <3> QED
      BY <3>1, <3>2
  <2> QED
    BY <1>1, <2>1 DEF HeadInv, SeenInv
<1> QED
  BY <1>3, <1>5, <1>6, <1>7 DEF HeadInv

LEMMA SaveKeeps ==
    ASSUME WithCursor, TypeOK, HeadInv, SaveCheckpoints
    PROVE  HeadInv'
<1>1. /\ pc = "save" /\ checkpoint' = Pending /\ EndCycle
      /\ UNCHANGED <<mark, clock, stored>>
  BY DEF SaveCheckpoints, api
<1>2. TableInv' /\ checkpoint'.watermark <= clock /\ checkpoint'.watermark \in Nat
  <2>1. CASE checkpoint' = checkpoint
    BY <1>1, <2>1, Numbers DEF HeadInv, TableInv, ClockInv, Listed, Excluded, Older
  <2>2. CASE checkpoint' # checkpoint
    <3>1. checkpoint' = cycleState /\ cycleState.watermark >= checkpoint.watermark
      BY <1>1, <2>2, Numbers DEF Pending
    <3>2. \A i \in Items : rows[i] > 0 => stored[i] = rows[i]
      BY <1>1 DEF HeadInv, RowsInv
    <3>3. ASSUME NEW i \in Listed, WouldExclude(i) PROVE stored[i] = mark[i]
      <4>1. i \in Items /\ mark[i] > 0 /\ (Excluded(i) \/ rows[i] = mark[i])
        BY <1>1, <3>3 DEF HeadInv, SeenInv, Listed
      <4> QED
        BY <3>2, <3>3, <4>1, Numbers DEF HeadInv, TableInv
    <3>4. ASSUME NEW i \in cycleState.keys PROVE stored[i] >= cycleState.watermark
      <4>1. i \in Items
        BY <3>4, Numbers
      <4> QED
        BY <3>1, <3>2, <3>4, <4>1, Numbers DEF HeadInv, SeenInv, TableInv
    <3>5. TableInv'
      BY <1>1, <3>1, <3>3, <3>4 DEF TableInv, Listed, Excluded, Older, WouldExclude
    <3> QED
      BY <3>1, <3>5, Numbers DEF HeadInv, ClockInv
  <2> QED
    BY <2>1, <2>2
<1>3. \A i \in Items : stored'[i] <= clock
  BY <1>1 DEF HeadInv, ClockInv
<1> QED
  BY <1>1, <1>2, <1>3, EndKeeps DEF HeadInv

LEMMA HeadStep == WithCursor /\ TypeOK /\ HeadInv /\ [Next]_vars => HeadInv'
<1> SUFFICES ASSUME WithCursor, TypeOK, HeadInv, [Next]_vars PROVE HeadInv'
  OBVIOUS
<1> USE DEF api
<1>1. CASE Start
  <2>1. /\ pc = "idle" /\ pc' = "fetch" /\ place = Head /\ cycleState = Nothing
        /\ \A i \in Items : rows[i] = 0
        /\ UNCHANGED <<operation, mark, clock, stored, checkpoint, place, rows, cycleState>>
    BY <1>1 DEF Start, HeadInv, RowsInv, TypeOK, NoRows
  <2>2. ClockInv' /\ TableInv'
    BY <2>1 DEF HeadInv, ClockInv, TableInv, Listed, Excluded, Older
  <2>3. RowsInv'
    BY <2>1 DEF RowsInv
  <2>4. \A i \in Items : mark[i] \in Nat
    BY Numbers
  <2>5. SeenInv'
    BY <2>1, <2>4 DEF SeenInv, WouldExclude, Nothing, Listed
  <2> QED
    BY <2>2, <2>3, <2>5 DEF HeadInv
<1>2. CASE FetchPage
  BY <1>2, FetchKeeps
<1>s. ASSUME UNCHANGED <<mark, stored, checkpoint>> PROVE TableInv'
  BY <1>s DEF HeadInv, TableInv, Listed, Excluded, Older
<1>3. CASE FetchFails \/ Crash
  <2>1. UNCHANGED <<mark, clock, stored, checkpoint>> /\ EndCycle
    BY <1>3 DEF FetchFails, Crash
  <2> QED
    BY <1>s, <2>1, Numbers, EndKeeps DEF HeadInv, ClockInv
<1>4. CASE Apply
  <2>1. /\ pc = "apply" /\ pc' = "save" /\ stored' = Written(Items)
        /\ UNCHANGED <<operation, mark, clock, checkpoint, place, rows, cycleState>>
    BY <1>4 DEF Apply
  <2>2. TableInv' /\ \A i \in Items : stored'[i] <= clock
    BY <2>1, WriteKeeps
  <2>3. \A i \in Items : rows[i] > 0 => stored'[i] = rows[i]
    BY <2>1 DEF Written
  <2>4. ClockInv'
    BY <2>1, <2>2 DEF HeadInv, ClockInv
  <2>5. RowsInv'
    BY <2>1, <2>3 DEF HeadInv, RowsInv
  <2>6. SeenInv'
    BY <2>1 DEF HeadInv, SeenInv, WouldExclude, Excluded, Older, Listed
  <2> QED
    BY <2>2, <2>4, <2>5, <2>6 DEF HeadInv
<1>5. CASE ApplyFails
  <2>1. PICK items : stored' = Written(items)
    BY <1>5 DEF ApplyFails
  <2>2. UNCHANGED <<mark, clock, checkpoint>> /\ EndCycle
    BY <1>5 DEF ApplyFails
  <2> QED
    BY <2>1, <2>2, WriteKeeps, Numbers, EndKeeps DEF HeadInv, ClockInv
<1>6. CASE SaveCheckpoints
  BY <1>6, SaveKeeps
<1>7. ASSUME NEW i \in Items, Touch(i) \/ Delete(i) PROVE HeadInv'
  BY <1>7, ChangeKeeps DEF Touch, Delete
<1>8. CASE Tick
  <2>1. /\ clock' = clock + 1
        /\ UNCHANGED <<operation, mark, stored, checkpoint, pc, place, rows, cycleState>>
    BY <1>8 DEF Tick
  <2>2. ClockInv'
    BY <2>1, Numbers DEF HeadInv, ClockInv
  <2>3. RowsInv' /\ SeenInv'
    BY <2>1 DEF HeadInv, RowsInv, SeenInv, WouldExclude, Excluded, Older, Listed, After
  <2> QED
    BY <1>s, <2>1, <2>2, <2>3 DEF HeadInv
<1>9. CASE UNCHANGED vars
  BY <1>9 DEF vars, HeadInv, ClockInv, TableInv, RowsInv, SeenInv, WouldExclude, Excluded,
              Older, Listed, After
<1> QED
  BY <1>1, <1>2, <1>3, <1>4, <1>5, <1>6, <1>7, <1>8, <1>9 DEF Next, Cycle

-----------------------------------------------------------------------------
(* The same for operations with an offset.  Items only move towards the head *)
(* of the list while nothing is deleted, so that no item comes to stand      *)
(* before an offset that was behind it.                                      *)

OffsetsLoseNothing == \A o \in Operations : o.type = "offset" => ~o.deletes

\* The table has a row for what the checkpoint excludes or lists; what the
\* checkpoint of this cycle would exclude has one, or a row that is kept for
\* it, or it is still to be listed.
OffsetInv ==
    /\ ClockInv
    /\ \A i \in Listed : Excluded(i) => stored[i] > 0
    /\ \A i \in checkpoint.keys : stored[i] > 0
    /\ \A i \in cycleState.keys : rows[i] > 0 \/ stored[i] > 0
    /\ pc # "idle" => \A i \in Listed : WouldExclude(i) =>
          rows[i] > 0 \/ stored[i] > 0 \/ (pc = "fetch" /\ i \in After(place))
    /\ pc = "save" => \A i \in Items : rows[i] > 0 => stored[i] > 0

\* The items before an item; an offset counts them.
ItemsBefore(i) == {j \in Listed : Before(mark[j], j, mark[i], i)}
Rank(i) == Cardinality(ItemsBefore(i))

LEMMA RankType ==
    ASSUME TypeOK
    PROVE  \A i : IsFiniteSet(ItemsBefore(i)) /\ Rank(i) \in Nat
<1> SUFFICES ASSUME NEW i PROVE IsFiniteSet(ItemsBefore(i)) /\ Rank(i) \in Nat
  OBVIOUS
<1>1. ItemsBefore(i) \in SUBSET Items
  BY DEF ItemsBefore, Listed
<1>2. IsFiniteSet(ItemsBefore(i))
  BY <1>1, ListedFinite
<1> QED
  BY <1>2, FS_CardinalityType DEF Rank

LEMMA OffsetAfter ==
    ASSUME TypeOK, ~WithCursor
    PROVE  \A p : After(p) = {i \in Listed : Rank(i) >= p.offset}
  BY DEF After, WithCursor, Rank, ItemsBefore

\* An item stands behind what it comes after.
LEMMA RankGrows ==
    ASSUME TypeOK, NEW i \in Listed, NEW j \in Listed, Before(mark[j], j, mark[i], i)
    PROVE  ItemsBefore(j) \subseteq ItemsBefore(i) /\ Rank(j) <= Rank(i)
<1>1. \A k \in Items : mark[k] \in Nat /\ k \in Nat
  BY ItemNumbers
<1>2. ItemsBefore(j) \subseteq ItemsBefore(i)
  BY <1>1 DEF ItemsBefore, Listed, Before
<1>3. Rank(j) <= Rank(i)
  <2>1. IsFiniteSet(ItemsBefore(i))
    BY RankType
  <2> QED
    BY <1>2, <2>1, FS_Subset DEF Rank
<1> QED
  BY <1>2, <1>3

\* What a page leaves is on the pages that begin after it.
LEMMA NextOffset ==
    ASSUME TypeOK, ~WithCursor, NEW i \in After(place), i \notin Page(place)
    PROVE  i \in After(NextPlace(Page(place)))
<1> DEFINE A == After(place)
           S == {k \in A : Before(mark[k], k, mark[i], i)}
<1>1. A = {k \in Listed : Rank(k) >= place.offset} /\ A \in SUBSET Items
  BY OffsetAfter, PageType DEF Listed
<1>2. \A k \in Items : mark[k] \in Nat /\ k \in Nat
  BY ItemNumbers
<1>3. PICK j \in A : \A k \in A : j = k \/ Before(mark[j], j, mark[k], k)
  BY <1>1, FirstAndLast
<1>4. IsFiniteSet(S) /\ Cardinality(S) \in Nat /\ Cardinality(S) >= PageSize
  <2>1. S \in SUBSET Items
    BY <1>1
  <2>2. IsFiniteSet(S) /\ Cardinality(S) \in Nat
    <3> HIDE DEF S
    <3> QED
      BY <2>1, ListedFinite, FS_CardinalityType
  <2>3. ~(Cardinality(S) < PageSize)
    BY DEF Page
  <2> QED
    BY <2>2, <2>3
<1>5. S \subseteq ItemsBefore(i) /\ ItemsBefore(j) \subseteq ItemsBefore(i)
  <2>1. S \subseteq ItemsBefore(i)
    BY <1>1 DEF ItemsBefore
  <2>2. i \in Listed /\ j \in Listed
    BY <1>1
  <2>3. j = i \/ Before(mark[j], j, mark[i], i)
    BY <1>3
  <2> QED
    BY <2>1, <2>2, <2>3, RankGrows
<1>6. S \cap ItemsBefore(j) = {}
  BY <1>1, <1>2, <1>3 DEF ItemsBefore, Before
<1> HIDE DEF S
<1>7. Cardinality(S \cup ItemsBefore(j)) = Cardinality(S) + Rank(j)
  <2>1. IsFiniteSet(ItemsBefore(j)) /\ Rank(j) \in Nat
    BY RankType
  <2>2. Cardinality(S \cap ItemsBefore(j)) = 0
    BY <1>6, FS_EmptySet
  <2>3. PICK T : T = ItemsBefore(j)
    OBVIOUS
  <2>4. Cardinality(S \cup T) = Cardinality(S) + Cardinality(T) - Cardinality(S \cap T)
    BY <1>4, <2>1, <2>3, FS_Union
  <2>5. Cardinality(T) = Rank(j)
    BY <2>3 DEF Rank
  <2> QED
    BY <1>4, <2>1, <2>2, <2>3, <2>4, <2>5
<1>8. Cardinality(S \cup ItemsBefore(j)) <= Rank(i)
  <2>1. S \cup ItemsBefore(j) \subseteq ItemsBefore(i)
    BY <1>5
  <2>2. IsFiniteSet(ItemsBefore(i))
    BY RankType
  <2> QED
    BY <2>1, <2>2, FS_Subset DEF Rank
<1>9. Rank(i) >= place.offset + PageSize
  <2>1. Rank(j) \in Nat /\ Rank(i) \in Nat /\ place.offset \in Nat
    BY RankType DEF TypeOK
  <2>2. Rank(j) >= place.offset
    BY <1>1
  <2> QED
    BY <1>4, <1>7, <1>8, <2>1, <2>2
<1>10. NextPlace(Page(place)).offset = place.offset + PageSize
  BY DEF NextPlace, Head, WithCursor
<1> QED
  BY <1>1, <1>9, <1>10, OffsetAfter

LEMMA OffsetInit == Init => OffsetInv
<1> SUFFICES ASSUME Init PROVE OffsetInv
  OBVIOUS
<1>1. /\ \A i \in Items : mark[i] = 0 /\ stored[i] = 0 /\ rows[i] = 0
      /\ checkpoint = Nothing /\ cycleState = Nothing /\ clock = 1 /\ pc = "idle"
  BY DEF Init, NoRows
<1>2. Listed = {}
  BY <1>1 DEF Listed
<1> QED
  BY <1>1, <1>2 DEF OffsetInv, ClockInv, Nothing

\* A cycle that ends, with all rows in the table that were there before.
LEMMA OffsetEnd ==
    ASSUME TypeOK, OffsetInv, UNCHANGED <<mark, clock, checkpoint>>, EndCycle,
           \A i \in Items : stored'[i] <= clock /\ (stored[i] > 0 => stored'[i] > 0)
    PROVE  OffsetInv'
<1>1. /\ pc' = "idle" /\ cycleState' = Nothing /\ \A i \in Items : rows'[i] = 0
  BY DEF EndCycle, NoRows
<1>2. ClockInv'
  BY <1>1, Numbers DEF OffsetInv, ClockInv, Nothing
<1>3. \A i \in Listed' : Excluded(i)' => i \in Items /\ i \in Listed /\ Excluded(i)
  BY DEF Listed, Excluded, Older
<1>4. checkpoint.keys \subseteq Items
  BY Numbers
<1> QED
  BY <1>1, <1>2, <1>3, <1>4 DEF OffsetInv, Nothing

LEMMA OffsetWritten ==
    ASSUME TypeOK, OffsetInv, NEW items, stored' = Written(items), UNCHANGED clock
    PROVE  \A i \in Items : stored'[i] <= clock /\ (stored[i] > 0 => stored'[i] > 0)
  BY Numbers DEF Written, OffsetInv, ClockInv

LEMMA OffsetFetch ==
    ASSUME ~WithCursor, TypeOK, OffsetInv, FetchPage
    PROVE  OffsetInv'
<1> DEFINE page == Page(place)
           W == cycleState.watermark
<1>1. /\ pc = "fetch"
      /\ \A i \in Items : rows'[i] = IF i \in page /\ ~Excluded(i) /\ rows[i] = 0
                                     THEN mark[i] ELSE rows[i]
      /\ cycleState' = Observe(page)
      /\ UNCHANGED <<mark, clock, operation, stored, checkpoint>>
  BY DEF FetchPage, api
<1>2. /\ LastPage(page) => pc' = "apply"
      /\ ~LastPage(page) => pc' = "fetch" /\ place' = NextPlace(page)
  BY DEF FetchPage
<1>3. page \in SUBSET Items /\ page \subseteq After(place) /\ After(place) \subseteq Listed
  BY PageType DEF Listed
<1>4. /\ W' \in {W} \cup {mark[i] : i \in page} /\ W <= W' /\ \A i \in page : mark[i] <= W'
      /\ cycleState'.keys = {i \in page : mark[i] = W'}
                            \cup (IF W' = W THEN cycleState.keys ELSE {})
      /\ W' \in Nat
  BY <1>1, <1>3, ObserveMax, Numbers DEF Boundaries, Marks
<1>5. \A i \in Items : (Excluded(i) <=> Excluded(i)') /\ (i \in Listed <=> i \in Listed')
  BY <1>1 DEF Excluded, Older, Listed
<1>6. ClockInv'
  <2>1. W' <= clock
    BY <1>3, <1>4 DEF OffsetInv, ClockInv
  <2>2. \A i \in Items : rows'[i] <= clock
    BY <1>1 DEF OffsetInv, ClockInv
  <2> QED
    BY <1>1, <2>1, <2>2 DEF OffsetInv, ClockInv
<1>7. \A i \in Items : rows[i] > 0 => rows'[i] > 0
  BY <1>1, Numbers
<1>8. ASSUME NEW i \in page PROVE rows'[i] > 0 \/ stored[i] > 0
  <2>1. i \in Items /\ mark[i] > 0 /\ i \in Listed
    BY <1>3 DEF Listed
  <2>2. CASE Excluded(i)
    BY <2>1, <2>2 DEF OffsetInv
  <2>3. CASE ~Excluded(i)
    BY <1>1, <2>1, <2>3, Numbers
  <2> QED
    BY <2>2, <2>3
<1>9. ASSUME NEW i \in Listed, WouldExclude(i)'
      PROVE  rows'[i] > 0 \/ stored[i] > 0 \/ (i \in After(place) /\ i \notin page)
  <2>1. i \in Items /\ mark'[i] = mark[i]
    BY <1>1 DEF Listed
  <2>2. CASE i \in page
    BY <1>8, <2>2
  <2>3. CASE i \notin page /\ WouldExclude(i)
    BY <1>1, <1>7, <2>1, <2>3 DEF OffsetInv
  <2>4. CASE i \notin page /\ ~WouldExclude(i)
    <3>1. W' # W
      BY <1>4, <1>9, <2>1, <2>4 DEF WouldExclude
    <3>2. PICK j \in page : mark[j] = W'
      BY <1>4, <3>1
    <3>3. mark[i] < mark[j]
      BY <1>4, <1>9, <2>1, <2>4, <3>1, <3>2 DEF WouldExclude
    <3>4. j \in Listed /\ Rank(j) >= place.offset
      BY <1>3, OffsetAfter
    <3>5. Rank(j) <= Rank(i)
      BY <3>3, <3>4, RankGrows DEF Before
    <3>6. Rank(i) >= place.offset
      <4>1. Rank(i) \in Nat /\ Rank(j) \in Nat /\ place.offset \in Nat
        BY RankType DEF TypeOK
      <4> QED
        BY <3>4, <3>5, <4>1
    <3> QED
      BY <2>4, <3>6, OffsetAfter
  <2> QED
    BY <2>2, <2>3, <2>4
<1>10. ASSUME NEW i \in Listed', WouldExclude(i)'
       PROVE  rows'[i] > 0 \/ stored'[i] > 0 \/ (pc = "fetch" /\ i \in After(place))'
  <2>1. i \in Listed
    BY <1>1 DEF Listed
  <2>2. CASE rows'[i] > 0 \/ stored[i] > 0
    BY <1>1, <2>2
  <2>3. CASE i \in After(place) /\ i \notin page
    <3>1. CASE LastPage(page)
      <4>1. page # {}
        BY <2>3, EmptyPage
      <4>2. AllOlder(page)
        BY <3>1, <4>1 DEF LastPage, WithCursor
      <4>3. Excluded(i)
        BY <2>3, <4>2, OlderAfterwards
      <4> QED
        BY <1>1, <2>1, <4>3 DEF OffsetInv
    <3>2. CASE ~LastPage(page)
      <4>1. i \in After(NextPlace(page))
        BY <2>3, NextOffset
      <4>2. After(place)' = After(NextPlace(page))
        BY <1>1, <1>2, <3>2 DEF After, Listed
      <4> QED
        BY <1>2, <3>2, <4>1, <4>2
    <3> QED
      BY <3>1, <3>2
  <2> QED
    BY <1>9, <1>10, <2>1, <2>2, <2>3
<1>11. ASSUME NEW i \in cycleState'.keys PROVE rows'[i] > 0 \/ stored'[i] > 0
  <2>1. CASE i \in page
    BY <1>1, <1>8, <2>1
  <2>2. CASE i \in cycleState.keys
    <3>1. i \in Items
      BY <2>2, Numbers
    <3> QED
      BY <1>1, <1>7, <2>2, <3>1 DEF OffsetInv
  <2> QED
    BY <1>4, <1>11, <2>1, <2>2
<1>12. pc' # "save"
  BY <1>2
<1>13. \A i \in Listed' : Excluded(i)' => stored'[i] > 0
  BY <1>1, <1>5 DEF OffsetInv, Listed
<1> QED
  BY <1>1, <1>6, <1>10, <1>11, <1>12, <1>13 DEF OffsetInv

\* An item that is touched moves to the head of the list.
LEMMA RankKept ==
    ASSUME TypeOK, ClockInv, NEW j \in Items, Touch(j), NEW i \in Listed, i # j
    PROVE  ItemsBefore(i) \subseteq ItemsBefore(i)'
<1>1. mark[j] < clock /\ mark' = [mark EXCEPT ![j] = clock]
  BY DEF Touch, Change
<1>2. mark'[j] = clock /\ \A k \in Items : k # j => mark'[k] = mark[k]
  BY <1>1 DEF TypeOK
<1>3. clock \in Nat /\ \A k \in Items : mark[k] \in Nat /\ mark[k] <= clock /\ k \in Nat
  BY Numbers DEF ClockInv
<1> QED
  BY <1>1, <1>2, <1>3 DEF ItemsBefore, Listed, Before

LEMMA OffsetTouch ==
    ASSUME ~WithCursor, TypeOK, OffsetInv, TypeOK', NEW j \in Items, Touch(j)
    PROVE  OffsetInv'
<1>1. /\ mark[j] < clock /\ mark' = [mark EXCEPT ![j] = clock]
      /\ UNCHANGED <<operation, clock, stored, checkpoint, pc, place, rows, cycleState>>
  BY DEF Touch, Change
<1>2. mark'[j] = clock /\ \A i \in Items : i # j => mark'[i] = mark[i]
  BY <1>1 DEF TypeOK
<1>3. ClockInv'
  BY <1>1, <1>2, Numbers DEF OffsetInv, ClockInv
<1>4. ASSUME NEW i \in Listed', i # j
      PROVE  /\ i \in Listed
             /\ (Excluded(i)' <=> Excluded(i)) /\ (WouldExclude(i)' <=> WouldExclude(i))
             /\ i \in After(place) => (i \in After(place))'
  <2>1. i \in Listed /\ i \in Items /\ mark'[i] = mark[i]
    BY <1>2, <1>4 DEF Listed
  <2>2. ASSUME i \in After(place) PROVE (i \in After(place))'
    <3>1. Rank(i) >= place.offset
      BY <2>2, OffsetAfter
    <3>2. IsFiniteSet(ItemsBefore(i)') /\ Rank(i)' \in Nat
      <4>1. ItemsBefore(i)' \in SUBSET Items
        BY DEF ItemsBefore, Listed
      <4>2. PICK S : S = ItemsBefore(i)'
        OBVIOUS
      <4>3. IsFiniteSet(S) /\ Cardinality(S) \in Nat
        BY <4>1, <4>2, ListedFinite, FS_CardinalityType
      <4> QED
        BY <4>2, <4>3 DEF Rank
    <3>3. Rank(i) <= Rank(i)'
      BY <1>4, <2>1, <3>2, RankKept, FS_Subset DEF Rank, OffsetInv
    <3>4. Rank(i)' >= place'.offset
      <4>1. Rank(i) \in Nat /\ place.offset \in Nat
        BY RankType DEF TypeOK
      <4> QED
        BY <1>1, <3>1, <3>2, <3>3, <4>1
    <3>5. operation'.type # "cursor"
      BY <1>1 DEF WithCursor
    <3> QED
      BY <1>4, <3>4, <3>5 DEF After, Rank, ItemsBefore
  <2> QED
    BY <1>1, <2>1, <2>2 DEF Excluded, Older, WouldExclude
<1>5. \A i \in Listed' : Excluded(i)' => stored'[i] > 0
  <2>1. ASSUME Excluded(j)' PROVE stored[j] > 0
    <3>1. clock = checkpoint.watermark /\ j \in checkpoint.keys
      BY <1>1, <1>2, <2>1, Numbers DEF Excluded, Older, OffsetInv, ClockInv
    <3> QED
      BY <3>1 DEF OffsetInv
  <2> QED
    BY <1>1, <1>4, <2>1 DEF OffsetInv
<1>6. ASSUME pc # "idle", NEW i \in Listed', WouldExclude(i)'
      PROVE  (rows[i] > 0 \/ stored[i] > 0 \/ (pc = "fetch" /\ i \in After(place)))'
  <2>1. CASE i # j
    BY <1>1, <1>4, <1>6, <2>1 DEF OffsetInv
  <2>2. CASE i = j
    <3>1. j \in cycleState.keys
      BY <1>1, <1>2, <1>6, <2>2, Numbers DEF WouldExclude, OffsetInv, ClockInv
    <3> QED
      BY <1>1, <2>2, <3>1 DEF OffsetInv
  <2> QED
    BY <2>1, <2>2
<1> QED
  BY <1>1, <1>3, <1>5, <1>6 DEF OffsetInv

LEMMA OffsetSave ==
    ASSUME TypeOK, OffsetInv, SaveCheckpoints
    PROVE  OffsetInv'
<1>1. /\ pc = "save" /\ checkpoint' = Pending /\ EndCycle
      /\ UNCHANGED <<mark, clock, stored>>
  BY DEF SaveCheckpoints, api
<1>2. CASE checkpoint' = checkpoint
  <2>1. \A i \in Items : stored'[i] <= clock /\ (stored[i] > 0 => stored'[i] > 0)
    BY <1>1 DEF OffsetInv, ClockInv
  <2> QED
    BY <1>1, <1>2, <2>1, OffsetEnd
<1>3. CASE checkpoint' = cycleState
  <2>1. /\ pc' = "idle" /\ cycleState' = Nothing /\ \A i \in Items : rows'[i] = 0
    BY <1>1 DEF EndCycle, NoRows
  <2>2. \A i \in Items : rows[i] > 0 => stored[i] > 0
    BY <1>1 DEF OffsetInv
  <2>3. ASSUME NEW i \in Listed', Excluded(i)' PROVE stored'[i] > 0
    <3>1. i \in Listed /\ i \in Items /\ WouldExclude(i)
      BY <1>1, <1>3, <2>3 DEF Listed, Excluded, Older, WouldExclude
    <3> QED
      BY <1>1, <2>2, <3>1 DEF OffsetInv
  <2>4. \A i \in checkpoint'.keys : stored'[i] > 0
    BY <1>1, <1>3, <2>2, Numbers DEF OffsetInv
  <2>5. ClockInv'
    BY <1>1, <1>3, <2>1, Numbers DEF OffsetInv, ClockInv, Nothing
  <2> QED
    BY <2>1, <2>3, <2>4, <2>5 DEF OffsetInv, Nothing
<1> QED
  BY <1>1, <1>2, <1>3 DEF Pending

LEMMA OffsetStep ==
    ASSUME OffsetsLoseNothing, ~WithCursor, TypeOK, TypeOK', OffsetInv, [Next]_vars
    PROVE  OffsetInv'
<1> USE DEF api
<1>a. ~operation.deletes
  BY DEF OffsetsLoseNothing, WithCursor, TypeOK
<1>1. CASE Start
  <2>1. /\ pc' = "fetch" /\ cycleState = Nothing
        /\ UNCHANGED <<operation, mark, clock, stored, checkpoint, place, rows, cycleState>>
    BY <1>1 DEF Start, TypeOK
  <2>2. \A i \in Listed' : ~WouldExclude(i)'
    BY <2>1, Numbers DEF WouldExclude, Nothing, Listed
  <2> QED
    BY <2>1, <2>2 DEF OffsetInv, ClockInv, Listed, Excluded, Older
<1>2. CASE FetchPage
  BY <1>2, OffsetFetch
<1>3. CASE FetchFails \/ Crash
  <2>1. UNCHANGED <<mark, clock, stored, checkpoint>> /\ EndCycle
    BY <1>3 DEF FetchFails, Crash
  <2>2. \A i \in Items : stored'[i] <= clock /\ (stored[i] > 0 => stored'[i] > 0)
    BY <2>1 DEF OffsetInv, ClockInv
  <2> QED
    BY <2>1, <2>2, OffsetEnd
<1>4. CASE Apply
  <2>1. /\ pc = "apply" /\ pc' = "save" /\ stored' = Written(Items)
        /\ UNCHANGED <<operation, mark, clock, checkpoint, place, rows, cycleState>>
    BY <1>4 DEF Apply
  <2>2. \A i \in Items : stored'[i] <= clock /\ (stored[i] > 0 => stored'[i] > 0)
    BY <2>1, OffsetWritten
  <2>3. \A i \in Items : rows[i] > 0 => stored'[i] > 0
    BY <2>1 DEF Written
  <2>4. ClockInv'
    BY <2>1, <2>2 DEF OffsetInv, ClockInv
  <2>5. \A i \in Listed' : /\ i \in Listed /\ i \in Items
                           /\ (Excluded(i)' => Excluded(i)) /\ (WouldExclude(i)' => WouldExclude(i))
    BY <2>1 DEF Listed, Excluded, Older, WouldExclude
  <2> QED
    BY <2>1, <2>2, <2>3, <2>4, <2>5, Numbers DEF OffsetInv
<1>5. CASE ApplyFails
  <2>1. PICK items : stored' = Written(items)
    BY <1>5 DEF ApplyFails
  <2>2. UNCHANGED <<mark, clock, checkpoint>> /\ EndCycle
    BY <1>5 DEF ApplyFails
  <2> QED
    BY <2>1, <2>2, OffsetWritten, OffsetEnd
<1>6. CASE SaveCheckpoints
  BY <1>6, OffsetSave
<1>7. ASSUME NEW i \in Items, Touch(i) \/ Delete(i) PROVE OffsetInv'
  BY <1>a, <1>7, OffsetTouch DEF Delete
<1>8. CASE Tick
  <2>1. /\ clock' = clock + 1
        /\ UNCHANGED <<operation, mark, stored, checkpoint, pc, place, rows, cycleState>>
    BY <1>8 DEF Tick
  <2>2. ClockInv'
    BY <2>1, Numbers DEF OffsetInv, ClockInv
  <2> QED
    BY <2>1, <2>2 DEF OffsetInv, WouldExclude, Excluded, Older, Listed, After
<1>9. CASE UNCHANGED vars
  BY <1>9 DEF vars, OffsetInv, ClockInv, WouldExclude, Excluded, Older, Listed, After
<1> QED
  BY <1>1, <1>2, <1>3, <1>4, <1>5, <1>6, <1>7, <1>8, <1>9 DEF Next, Cycle

-----------------------------------------------------------------------------
(* TypeOK: the checkpoint, the state of the cycle and the rows keep their   *)
(* types, and a cycle that ends leaves nothing but rows and checkpoint.     *)
THEOREM TypeCorrect == Spec => []TypeOK
  BY TypeInit, TypeStep, PTL DEF Spec

(* buildHeadWatermarkCheckpoint: the saved watermark never moves back,      *)
(* whatever pages a cycle sees, with an offset as well as with a cursor.    *)
THEOREM WatermarkAdvances == Spec => WatermarkNeverBack
<1>1. TypeOK /\ [Next]_vars => [checkpoint'.watermark >= checkpoint.watermark]_checkpoint
  <2> SUFFICES ASSUME TypeOK, [Next]_vars, checkpoint' # checkpoint
               PROVE  checkpoint'.watermark >= checkpoint.watermark
    OBVIOUS
  <2>1. SaveCheckpoints
    BY DEF Next, Cycle, Start, FetchPage, FetchFails, Apply, ApplyFails, Crash, Touch, Delete,
           Change, Tick, vars
  <2> QED
    BY <2>1, Numbers DEF SaveCheckpoints, Pending
<1> QED
  BY TypeCorrect, <1>1, PTL DEF Spec, WatermarkNeverBack

(* filterHeadWatermarkPage: every item that the checkpoint makes a cycle    *)
(* leave out is in the table, with a cursor as it is in the API, whatever   *)
(* changes between two pages, fails or crashes; with an offset if nothing   *)
(* is deleted: deletions move items before an offset that has passed them.  *)
THEOREM ExcludedItemsAreStored ==
    ASSUME OffsetsLoseNothing
    PROVE  Spec => []ExcludedIsStored
<1> DEFINE Inv == IF WithCursor THEN HeadInv ELSE OffsetInv
<1>1. TypeOK /\ Inv => ExcludedIsStored
  BY DEF HeadInv, TableInv, OffsetInv, ExcludedIsStored, WithCursor
<1>2. Init => Inv
  BY HeadInit, OffsetInit
<1>3. TypeOK /\ TypeOK' /\ Inv /\ [Next]_vars => Inv'
  <2> SUFFICES ASSUME TypeOK, TypeOK', Inv, [Next]_vars PROVE Inv'
    OBVIOUS
  <2>1. WithCursor' <=> WithCursor
    BY DEF Next, Cycle, Start, FetchPage, FetchFails, Apply, ApplyFails, SaveCheckpoints, Crash,
           Touch, Delete, Change, Tick, vars, api, WithCursor
  <2>2. CASE WithCursor
    BY <2>1, <2>2, HeadStep
  <2>3. CASE ~WithCursor
    BY <2>1, <2>3, OffsetStep
  <2> QED
    BY <2>2, <2>3
<1> HIDE DEF Inv
<1> QED
  BY TypeCorrect, <1>1, <1>2, <1>3, PTL DEF Spec
=============================================================================
