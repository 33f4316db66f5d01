------------------------------ MODULE MCResume ------------------------------
(* Operations on which TLC checks ResumePagination. *)
EXTENDS ResumePagination

CursorGrowth == {1, 2}
OffsetGrowth == {PageSize}   \* whole pages

\* A cursor over an API that takes <nil> for no cursor, and offsets over a
\* collection that grows by whole pages.
Regular ==
    {[type |-> "cursor", nilCursor |-> "firstPage", growth |-> CursorGrowth],
     [type |-> "offset", nilCursor |-> "refused", growth |-> OffsetGrowth]}

\* An API that refuses the cursor <nil>.
Refusing == {[type |-> "cursor", nilCursor |-> "refused", growth |-> {1}]}
=============================================================================
