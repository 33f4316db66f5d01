--------------------------- MODULE ResumePagination --------------------------
(***************************************************************************)
(* One combination of an incremental operation with resume-pagination      *)
(* (internal/core/service.go): fetchAndBuildInsertOps page by page, the    *)
(* checkpoint it leaves, and the next cycle that resumes from it.          *)
(*                                                                         *)
(* The API's collection grows at its end: rows 1..length.  A pagination    *)
(* value is a record: kind "absent" (the parameter is not sent), "nil" (Go *)
(* nil, sent as the text <nil>) or "value", where field at counts the rows *)
(* before the page.  A cursor of the API is such a count too.              *)
(***************************************************************************)
EXTENDS Integers

CONSTANTS
    Operations,  \* the operations there may be: the type of their pagination
                 \* parameter, what their API makes of the cursor <nil>, and by
                 \* how many rows their collection may grow at once
    PageSize,    \* rows of a full page; offset.increment is the same
    MaxLength,   \* bound: rows of the collection
    MaxFailures  \* bound: requests, applies and saves that fail, pages without rows, crashes

ASSUME ConstantsAssumption ==
    /\ Operations \subseteq [type : {"cursor", "offset"},
                             nilCursor : {"refused", "firstPage"},
                             growth : SUBSET (Nat \ {0})]
    /\ PageSize \in Nat \ {0}
    /\ MaxLength \in Nat
    /\ MaxFailures \in Nat

VARIABLES
    operation,   \* the operation, fixed by the specification
    length,      \* the API: rows 1..length
    stored,      \* the table: rows written
    checkpoint,  \* the saved resume value; kind "none" when there is none
    pc,          \* progress of the cycle
    value,       \* paginationValue and hasPaginationValue
    last,        \* lastRequestedValue
    rows,        \* allInsertOps
    failures     \* history variable

vars == <<operation, length, stored, checkpoint, pc, value, last, rows, failures>>

-----------------------------------------------------------------------------
None   == [kind |-> "none", at |-> 0]
Absent == [kind |-> "absent", at |-> 0]
Nil    == [kind |-> "nil", at |-> 0]
At(n)  == [kind |-> "value", at |-> n]

\* initialPaginationValue; offset.start is row 0.
InitialPaginationValue == IF operation.type = "cursor" THEN Absent ELSE At(0)

\* buildCheckpoint marshals nil as null.
Checkpoint(v) == IF v.kind = "absent" THEN Nil ELSE v

\* parseResumeCheckpointValue: null is a compatible value.
StartValue == IF checkpoint = None THEN InitialPaginationValue ELSE checkpoint

\* The API's page for a pagination value; it refuses a cursor it did not issue.
Refused == value.kind = "nil" /\ operation.nilCursor = "refused"
PageEnd == IF value.at + PageSize < length THEN value.at + PageSize ELSE length
Page    == (value.at + 1)..PageEnd

-----------------------------------------------------------------------------
Init ==
    /\ operation \in Operations
    /\ length = 0
    /\ stored = {}
    /\ checkpoint = None
    /\ pc = "idle"
    /\ value = Absent
    /\ last = Absent
    /\ rows = {}
    /\ failures = 0

EndCycle ==
    /\ pc' = "idle"
    /\ value' = Absent
    /\ last' = Absent
    /\ rows' = {}

Fail ==
    /\ failures < MaxFailures
    /\ failures' = failures + 1

\* LoadCheckpoint, and the value to start from.
StartIgnoresCheckpoint ==   \* mutant: every cycle starts from the first page
    /\ pc = "idle"
    /\ pc' = "fetch"
    /\ value' = InitialPaginationValue
    /\ UNCHANGED <<operation, length, stored, checkpoint, last, rows, failures>>

Start ==
    /\ pc = "idle"
    /\ pc' = "fetch"
    /\ value' = StartValue
    /\ UNCHANGED <<operation, length, stored, checkpoint, last, rows, failures>>

\* After a page: the next value, or the end of the loop.
NextCursor ==
    IF PageEnd < length
    THEN value' = At(value.at + PageSize) /\ UNCHANGED pc
    ELSE pc' = "apply" /\ UNCHANGED value

NextOffset ==
    IF Page # {}
    THEN value' = At(value.at + PageSize) /\ UNCHANGED pc
    ELSE pc' = "apply" /\ UNCHANGED value

NextPageNever ==   \* mutant: the loop ends after the page it starts with
    pc' = "apply" /\ UNCHANGED value

NextPage == IF operation.type = "cursor" THEN NextCursor ELSE NextOffset

FetchPage ==
    /\ pc = "fetch"
    /\ ~Refused
    /\ rows' = rows \cup Page
    /\ last' = value
    /\ NextPage
    /\ UNCHANGED <<operation, length, stored, checkpoint, failures>>

\* A payload that cannot be turned into rows counts as a page without rows,
\* and names no cursor either: the loop ends as if this were the last page.
FetchUnreadable ==
    /\ pc = "fetch"
    /\ ~Refused
    /\ Fail
    /\ last' = value
    /\ pc' = "apply"
    /\ UNCHANGED <<operation, length, stored, checkpoint, value, rows>>

\* A request fails for good: no rows, no checkpoint.
FetchFails ==
    /\ pc = "fetch"
    /\ IF Refused THEN UNCHANGED failures ELSE Fail
    /\ EndCycle
    /\ UNCHANGED <<operation, length, stored, checkpoint>>

\* DBTarget.Apply, an insert per row in the order of the pages.
Apply ==
    /\ pc = "apply"
    /\ stored' = stored \cup rows
    /\ pc' = "save"
    /\ UNCHANGED <<operation, length, checkpoint, value, last, rows, failures>>

ApplyFailsSaves ==   \* mutant: the error of Apply does not stop the cycle
    /\ pc = "apply"
    /\ Fail
    /\ \E n \in 0..length : stored' = stored \cup {r \in rows : r <= n}
    /\ pc' = "save"
    /\ UNCHANGED <<operation, length, checkpoint, value, last, rows>>

ApplyFails ==
    /\ pc = "apply"
    /\ Fail
    /\ \E n \in 0..length : stored' = stored \cup {r \in rows : r <= n}
    /\ EndCycle
    /\ UNCHANGED <<operation, length, checkpoint>>

SaveCheckpoints ==
    /\ pc = "save"
    /\ checkpoint' = Checkpoint(last)
    /\ EndCycle
    /\ UNCHANGED <<operation, length, stored, failures>>

\* The save fails, or the process dies and starts anew.
Crash ==
    /\ pc # "idle"
    /\ Fail
    /\ EndCycle
    /\ UNCHANGED <<operation, length, stored, checkpoint>>

Grow ==
    /\ \E n \in operation.growth : length + n <= MaxLength /\ length' = length + n
    /\ UNCHANGED <<operation, stored, checkpoint, pc, value, last, rows, failures>>

Cycle == Start \/ FetchPage \/ Apply \/ SaveCheckpoints

Next == Cycle \/ FetchUnreadable \/ FetchFails \/ ApplyFails \/ Crash \/ Grow

Spec == Init /\ [][Next]_vars

\* The process keeps polling, after a refused cursor too.
FairSpec == Spec /\ WF_vars(Cycle) /\ WF_vars(Refused /\ FetchFails)

-----------------------------------------------------------------------------
(* Properties *)

Sendable == {Absent, Nil} \cup {At(n) : n \in 0..(MaxLength + PageSize)}

\* Every variable has its type (the locals of fetchAndBuildInsertOps, the
\* saved checkpoint, the tables on both sides).
TypeOK ==
    /\ operation \in Operations
    /\ length \in 0..MaxLength
    /\ stored \in SUBSET (1..MaxLength)
    /\ checkpoint \in {None} \cup (Sendable \ {Absent})
    /\ pc \in {"idle", "fetch", "apply", "save"}
    /\ value \in Sendable
    /\ last \in Sendable
    /\ rows \in SUBSET (1..MaxLength)
    /\ failures \in 0..MaxFailures

\* Every row before the page the next cycle resumes from is in the table: no
\* failing request, apply or save and no crash lets the checkpoint pass a row
\* that was not written.
CheckpointComplete ==
    checkpoint.kind = "value" =>
        \A r \in 1..length : r <= checkpoint.at => r \in stored

\* The saved resume value never moves back.
CheckpointNeverBack ==
    [][checkpoint.kind = "value" =>
          checkpoint'.kind = "value" /\ checkpoint'.at >= checkpoint.at]_checkpoint

\* Every row the API serves is written in the end: cycles that resume from a
\* checkpoint leave nothing out.
EventuallyStored == \A r \in 1..MaxLength : r <= length ~> r \in stored

-----------------------------------------------------------------------------
(* What the documentation says and the code does not do. *)

\* README: "first cycle fetches the full paginated dataset, later cycles
\* resume from the saved cursor or offset".  So a cursor that is sent is one
\* the API has issued.
ResumesFromCursor == pc = "fetch" => value.kind # "nil"
=============================================================================
