---------------------------- MODULE HeadWatermark ----------------------------
(***************************************************************************)
(* One combination of an incremental operation with the head-watermark     *)
(* strategy (internal/core/service.go): every cycle pages from the head of *)
(* the collection, keeps the items newer than the checkpoint or at its     *)
(* watermark with a key it does not list, and stops past the boundary.     *)
(*                                                                         *)
(* The API lists items in descending order of their watermarks, items with *)
(* the same one in a fixed order.  An item that is created or updated gets *)
(* the watermark of the moment, once per moment: its watermark stands for  *)
(* its contents.  The collection may change between two pages.             *)
(***************************************************************************)
EXTENDS Integers, FiniteSets

CONSTANTS
    NumItems,        \* items are 1..NumItems, also the order among equal watermarks
    Operations,      \* the operations there may be: the type of their pagination
                     \* parameter ("cursor": after the last item served), and
                     \* whether items may be deleted
    PageSize,        \* items of a full page; offset.increment is the same
    MaxMark,         \* bound: watermarks
    MaxChanges,      \* bound: items created, updated or deleted
    MaxFailures      \* bound: requests, applies and saves that fail, crashes

Items == 1..NumItems

ASSUME ConstantsAssumption ==
    /\ NumItems \in Nat
    /\ Operations \subseteq [type : {"cursor", "offset"}, deletes : BOOLEAN]
    /\ PageSize \in Nat \ {0}
    /\ MaxMark \in Nat \ {0}
    /\ MaxChanges \in Nat
    /\ MaxFailures \in Nat

VARIABLES
    operation,   \* the operation, fixed by the specification
    mark,        \* the API: watermark of each item, 0 when there is no such item
    clock,       \* the watermark of the moment
    stored,      \* the table: the watermark each item was written with, 0: no row
    checkpoint,  \* the saved watermark and boundary keys, watermark 0: none
    pc,          \* progress of the cycle
    place,       \* paginationValue: an offset, or the item the cursor comes after
    rows,        \* allInsertOps: the first version kept of each item, 0: none
    cycleState,  \* headWatermarkCycleState: MaxWatermark and BoundaryKeys
    env          \* changes and failures so far, for their bounds

vars == <<operation, mark, clock, stored, checkpoint, pc, place, rows, cycleState, env>>
api == <<operation, mark, clock>>

-----------------------------------------------------------------------------
Nothing == [watermark |-> 0, keys |-> {}]   \* no checkpoint, or nothing observed
NoRows == [i \in Items |-> 0]
Head == [offset |-> 0, mark |-> MaxMark + 1, item |-> 0]

\* The API: the items of the page at a place, and whether more come after it.
Before(m, i, n, j) == m > n \/ (m = n /\ i < j)
Listed == {i \in Items : mark[i] > 0}

After(p) ==
    IF operation.type = "cursor"
    THEN {i \in Listed : Before(p.mark, p.item, mark[i], i)}
    ELSE {i \in Listed :
             Cardinality({j \in Listed : Before(mark[j], j, mark[i], i)}) >= p.offset}

Page(p) ==
    {i \in After(p) :
        Cardinality({j \in After(p) : Before(mark[j], j, mark[i], i)}) < PageSize}

LastOf(page) == CHOOSE i \in page : \A j \in page : i = j \/ Before(mark[j], j, mark[i], i)

\* filterHeadWatermarkPage: what the checkpoint excludes, and an all-older page.
Older(i) == mark[i] < checkpoint.watermark
ExcludedByAge(i) == mark[i] <= checkpoint.watermark   \* mutant: the boundary keys are not consulted
Excluded(i) == Older(i) \/ (mark[i] = checkpoint.watermark /\ i \in checkpoint.keys)

AllOlder(page) == page # {} /\ \A i \in page : Older(i)

\* updateHeadWatermarkCycleState, for every item of the page, kept or not.
Observe(page) ==
    LET marks == {cycleState.watermark} \cup {mark[i] : i \in page}
        top   == CHOOSE m \in marks : \A n \in marks : n <= m
    IN  [watermark |-> top,
         keys |-> {i \in page : mark[i] = top}
                  \cup (IF top = cycleState.watermark THEN cycleState.keys ELSE {})]

-----------------------------------------------------------------------------
Init ==
    /\ operation \in Operations
    /\ mark = [i \in Items |-> 0]
    /\ clock = 1
    /\ stored = [i \in Items |-> 0]
    /\ checkpoint = Nothing
    /\ pc = "idle"
    /\ place = Head
    /\ rows = NoRows
    /\ cycleState = Nothing
    /\ env = [changes |-> 0, failures |-> 0]

EndCycle ==
    /\ pc' = "idle"
    /\ place' = Head
    /\ rows' = NoRows
    /\ cycleState' = Nothing

Fail ==
    /\ env.failures < MaxFailures
    /\ env' = [env EXCEPT !.failures = @ + 1]

Start ==
    /\ pc = "idle"
    /\ pc' = "fetch"
    /\ UNCHANGED <<api, stored, checkpoint, place, rows, cycleState, env>>

\* The loop ends with an empty page, a page past the boundary, or, with a
\* cursor, a page that names no next one.
LastPage(page) ==
    \/ page = {}
    \/ AllOlder(page)
    \/ operation.type = "cursor" /\ After(place) = page

NextPlace(page) ==
    IF operation.type = "cursor"
    THEN [Head EXCEPT !.mark = mark[LastOf(page)], !.item = LastOf(page)]
    ELSE [Head EXCEPT !.offset = place.offset + PageSize]

FetchPage ==
    /\ pc = "fetch"
    /\ LET page == Page(place) IN
          /\ rows' = [i \in Items |-> IF i \in page /\ ~Excluded(i) /\ rows[i] = 0
                                      THEN mark[i] ELSE rows[i]]
          /\ cycleState' = Observe(page)
          /\ IF LastPage(page)
             THEN pc' = "apply" /\ UNCHANGED place
             ELSE place' = NextPlace(page) /\ UNCHANGED pc
    /\ UNCHANGED <<api, stored, checkpoint, env>>

FetchFailsHalfway ==   \* mutant: the pages before the failed one are kept
    /\ pc = "fetch"
    /\ Fail
    /\ pc' = "apply"
    /\ UNCHANGED <<api, stored, checkpoint, place, rows, cycleState>>

\* A request fails for good: no rows, no checkpoint.
FetchFails ==
    /\ pc = "fetch"
    /\ Fail
    /\ EndCycle
    /\ UNCHANGED <<api, stored, checkpoint>>

\* DBTarget.Apply: an insert per item, the first one of a key; later ones of
\* the same plan are dropped (seenInsertKeys).
Written(items) ==
    [i \in Items |-> IF i \in items /\ rows[i] > 0 THEN rows[i] ELSE stored[i]]

Apply ==
    /\ pc = "apply"
    /\ stored' = Written(Items)
    /\ pc' = "save"
    /\ UNCHANGED <<api, checkpoint, place, rows, cycleState, env>>

\* Some of the inserts have taken effect: any of them, although it is a prefix.
ApplyFails ==
    /\ pc = "apply"
    /\ Fail
    /\ \E items \in SUBSET Items : stored' = Written(items)
    /\ EndCycle
    /\ UNCHANGED <<api, checkpoint>>

\* buildHeadWatermarkCheckpoint, unless nothing was observed or the head has
\* moved back; then SaveCheckpoints.
PendingAlways ==   \* mutant: the checkpoint follows the head wherever it is
    IF cycleState.watermark = 0 THEN checkpoint ELSE cycleState

Pending ==
    IF cycleState.watermark = 0 \/ cycleState.watermark < checkpoint.watermark
    THEN checkpoint ELSE cycleState

SaveCheckpoints ==
    /\ pc = "save"
    /\ checkpoint' = Pending
    /\ EndCycle
    /\ UNCHANGED <<api, stored, env>>

Crash ==
    /\ pc # "idle"
    /\ Fail
    /\ EndCycle
    /\ UNCHANGED <<api, stored, checkpoint>>

-----------------------------------------------------------------------------
Change(i, m) ==
    /\ env.changes < MaxChanges
    /\ mark' = [mark EXCEPT ![i] = m]
    /\ env' = [env EXCEPT !.changes = @ + 1]
    /\ UNCHANGED <<operation, clock, stored, checkpoint, pc, place, rows, cycleState>>

\* Created, or updated at a later moment.
Touch(i) == mark[i] < clock /\ Change(i, clock)

Delete(i) == operation.deletes /\ mark[i] > 0 /\ Change(i, 0)

Tick ==
    /\ clock < MaxMark
    /\ clock' = clock + 1
    /\ UNCHANGED <<operation, mark, stored, checkpoint, pc, place, rows, cycleState, env>>

Cycle == Start \/ FetchPage \/ Apply \/ SaveCheckpoints

Next ==
    \/ Cycle \/ FetchFails \/ ApplyFails \/ Crash
    \/ \E i \in Items : Touch(i) \/ Delete(i)
    \/ Tick

Spec == Init /\ [][Next]_vars

\* The process keeps polling.
FairSpec == Spec /\ WF_vars(Cycle)

-----------------------------------------------------------------------------
(* Properties *)

Marks == 0..MaxMark
Boundaries == [watermark : Marks, keys : SUBSET Items]

\* Every variable has its type (headWatermarkCycleState, the parsed
\* checkpoint, the locals of fetchAndBuildHeadWatermarkInsertOps), and nothing
\* of a cycle outlives it but rows and checkpoint.
TypeOK ==
    /\ operation \in Operations
    /\ mark \in [Items -> Marks]
    /\ clock \in 1..MaxMark
    /\ stored \in [Items -> Marks]
    /\ checkpoint \in Boundaries
    /\ pc \in {"idle", "fetch", "apply", "save"}
    /\ place \in [offset : Nat, mark : 0..(MaxMark + 1), item : 0..NumItems]
    /\ rows \in [Items -> Marks]
    /\ cycleState \in Boundaries
    /\ pc = "idle" => rows = NoRows /\ cycleState = Nothing
    /\ env \in [changes : 0..MaxChanges, failures : 0..MaxFailures]

\* Every item that the next cycle leaves out because of the checkpoint is in
\* the table, and with a cursor it is there as it is in the API: nothing that
\* changes between two pages, no request, apply or save that fails and no crash
\* makes an item that was not written look like one already seen.
ExcludedIsStored ==
    \A i \in Listed : Excluded(i) =>
        IF operation.type = "cursor" THEN stored[i] = mark[i] ELSE stored[i] > 0

\* The saved watermark never moves back, although a head may (an item that is
\* deleted).
WatermarkNeverBack == [][checkpoint'.watermark >= checkpoint.watermark]_checkpoint

\* Every item is written in the end, and with a cursor as it is in the API,
\* unless it is changed again or deleted, whatever happened between the pages
\* of earlier cycles.
EventuallyStored ==
    \A i \in Items : \A m \in 1..MaxMark :
        mark[i] = m ~>
            \/ mark[i] # m
            \/ stored[i] = m
            \/ operation.type = "offset" /\ stored[i] > 0
=============================================================================
