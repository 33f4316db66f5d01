----------------------------- MODULE ResumeProofs -----------------------------
(***************************************************************************)
(* Theorems about ResumePagination, for every page size, every bound and   *)
(* both kinds of pagination.                                               *)
(***************************************************************************)
EXTENDS ResumePagination, TLAPS

USE DEF None, Absent, Nil, At

-----------------------------------------------------------------------------
(* Pagination values *)

LEMMA SendableFields ==
    ASSUME NEW v \in Sendable
    PROVE  /\ v.at \in 0..(MaxLength + PageSize)
           /\ v.kind \in {"absent", "nil", "value"}
           /\ v.kind # "value" => v.at = 0
           /\ v.kind = "absent" => v = Absent
    BY ConstantsAssumption DEF Sendable

LEMMA SendableValues ==
    /\ Absent \in Sendable
    /\ Nil \in Sendable
    /\ \A n \in 0..(MaxLength + PageSize) : At(n) \in Sendable
    BY DEF Sendable

\* What holds of every operation.
LEMMA OperationFields ==
    ASSUME NEW o \in Operations
    PROVE  o.type \in {"cursor", "offset"} /\ o.growth \subseteq Nat \ {0}
    BY ConstantsAssumption

\* What is saved: never a value that was not sent, and otherwise the value.
LEMMA CheckpointFields ==
    ASSUME NEW v \in Sendable
    PROVE  /\ Checkpoint(v) \in Sendable \ {Absent}
           /\ Checkpoint(v).at = v.at
           /\ v.kind = "value" => Checkpoint(v).kind = "value"
    <1>1. CASE v.kind = "absent"
        BY <1>1, SendableFields, SendableValues DEF Checkpoint
    <1>2. CASE v.kind # "absent"
        BY <1>2, SendableFields DEF Checkpoint
    <1> QED BY <1>1, <1>2

\* Where a cycle starts: at the checkpoint, or at the first row.
LEMMA StartFields ==
    ASSUME TypeOK
    PROVE  /\ StartValue \in Sendable
           /\ StartValue.at = checkpoint.at
           /\ checkpoint.kind = "value" => StartValue.kind = "value"
    <1>1. CASE checkpoint = None
        BY <1>1, ConstantsAssumption, SendableValues
           DEF StartValue, InitialPaginationValue, TypeOK
    <1>2. CASE checkpoint # None
        BY <1>2 DEF StartValue, TypeOK
    <1> QED BY <1>1, <1>2

\* The next page starts after a page that has rows.
LEMMA NextFields ==
    ASSUME TypeOK, NextPage
    PROVE  /\ pc' \in {pc, "apply"}
           /\ \/ value' = value
              \/ value' = At(value.at + PageSize) /\ value.at < length
           /\ value' \in Sendable
    <1> DEFINE v == value
    <1>1. v \in Sendable /\ v.at \in Nat /\ length \in 0..MaxLength
        BY SendableFields, ConstantsAssumption DEF TypeOK
    <1>2. CASE value' = At(v.at + PageSize) /\ UNCHANGED pc /\ v.at < length
        <2>1. v.at + PageSize \in 0..(MaxLength + PageSize)
            BY <1>1, <1>2, ConstantsAssumption
        <2> QED BY <1>2, <2>1, SendableValues
    <1>3. CASE pc' = "apply" /\ UNCHANGED value
        BY <1>1, <1>3
    <1>4. Page # {} => v.at < length
        BY <1>1, ConstantsAssumption DEF Page, PageEnd
    <1>5. PageEnd < length => v.at < length
        BY <1>1, ConstantsAssumption DEF PageEnd
    <1> QED BY <1>2, <1>3, <1>4, <1>5 DEF NextPage, NextCursor, NextOffset

-----------------------------------------------------------------------------
(* Types *)

LEMMA TypeInit == Init => TypeOK
    BY ConstantsAssumption, SendableValues DEF Init, TypeOK

LEMMA PageType == TypeOK => Page \in SUBSET (1..MaxLength)
    <1> SUFFICES ASSUME TypeOK PROVE Page \in SUBSET (1..MaxLength)
        OBVIOUS
    <1>1. value.at \in Nat /\ length \in 0..MaxLength
        BY SendableFields DEF TypeOK
    <1> QED BY <1>1, ConstantsAssumption DEF Page, PageEnd

LEMMA TypeStep == TypeOK /\ [Next]_vars => TypeOK'
    <1> SUFFICES ASSUME TypeOK, [Next]_vars PROVE TypeOK'
        OBVIOUS
    <1> USE DEF TypeOK
    <1>1. ASSUME Start PROVE TypeOK'
        BY <1>1, StartFields DEF Start
    <1>2. ASSUME FetchPage PROVE TypeOK'
        <2>1. value' \in Sendable /\ pc' \in {pc, "apply"}
            BY <1>2, NextFields DEF FetchPage
        <2>2. rows' \in SUBSET (1..MaxLength)
            BY <1>2, PageType DEF FetchPage
        <2> QED BY <1>2, <2>1, <2>2 DEF FetchPage
    <1>3. ASSUME FetchUnreadable PROVE TypeOK'
        BY <1>3, ConstantsAssumption DEF FetchUnreadable, Fail
    <1>4. ASSUME FetchFails PROVE TypeOK'
        BY <1>4, ConstantsAssumption, SendableValues DEF FetchFails, Fail, EndCycle
    <1>5. ASSUME Apply PROVE TypeOK'
        BY <1>5 DEF Apply
    <1>6. ASSUME ApplyFails PROVE TypeOK'
        <2>1. PICK n \in 0..length : stored' = stored \cup {r \in rows : r <= n}
            BY <1>6 DEF ApplyFails
        <2>2. stored' \in SUBSET (1..MaxLength)
            BY <2>1
        <2> QED
            BY <1>6, <2>2, ConstantsAssumption, SendableValues DEF ApplyFails, Fail, EndCycle
    <1>7. ASSUME SaveCheckpoints PROVE TypeOK'
        BY <1>7, CheckpointFields, SendableValues DEF SaveCheckpoints, EndCycle
    <1>8. ASSUME Crash PROVE TypeOK'
        BY <1>8, ConstantsAssumption, SendableValues DEF Crash, Fail, EndCycle
    <1>9. ASSUME Grow PROVE TypeOK'
        BY <1>9, ConstantsAssumption DEF Grow
    <1>10. CASE UNCHANGED vars
        BY <1>10 DEF vars
    <1> QED BY <1>1, <1>2, <1>3, <1>4, <1>5, <1>6, <1>7, <1>8, <1>9, <1>10 DEF Next, Cycle

\* Every variable keeps its type.
THEOREM TypeCorrect == Spec => []TypeOK
    BY TypeInit, TypeStep, PTL DEF Spec

-----------------------------------------------------------------------------
(* The checkpoint never moves back *)

\* A cycle starts at the checkpoint and goes on from there.
Forward ==
    checkpoint.kind = "value" =>
        /\ pc \in {"fetch", "apply", "save"} =>
               value.kind = "value" /\ value.at >= checkpoint.at
        /\ pc \in {"apply", "save"} =>
               last.kind = "value" /\ last.at >= checkpoint.at

LEMMA ForwardStep == TypeOK /\ Forward /\ [Next]_vars => Forward'
    <1> SUFFICES ASSUME TypeOK, Forward, [Next]_vars PROVE Forward'
        OBVIOUS
    <1>t. /\ value \in Sendable /\ value.at \in Nat
          /\ last \in Sendable /\ last.at \in Nat
          /\ pc \in {"idle", "fetch", "apply", "save"}
          /\ checkpoint.kind = "value" => checkpoint.at \in Nat
        BY SendableFields DEF TypeOK
    <1> USE DEF Forward
    <1>1. ASSUME Start PROVE Forward'
        BY <1>1, <1>t, StartFields DEF Start
    <1>2. ASSUME FetchPage PROVE Forward'
        <2>1. pc = "fetch" /\ last' = value /\ UNCHANGED checkpoint /\ NextPage
            BY <1>2 DEF FetchPage
        <2>2. value' = value \/ (value' = At(value.at + PageSize) /\ value'.kind = "value")
            BY <2>1, NextFields
        <2> QED BY <2>1, <2>2, <1>t, ConstantsAssumption
    <1>3. ASSUME FetchUnreadable PROVE Forward'
        BY <1>3, <1>t DEF FetchUnreadable
    <1>4. ASSUME Apply PROVE Forward'
        BY <1>4, <1>t DEF Apply
    <1>5. ASSUME FetchFails \/ ApplyFails \/ Crash \/ SaveCheckpoints PROVE Forward'
        BY <1>5 DEF FetchFails, ApplyFails, Crash, SaveCheckpoints, EndCycle
    <1>6. CASE Grow \/ UNCHANGED vars
        BY <1>6 DEF Grow, vars
    <1> QED BY <1>1, <1>2, <1>3, <1>4, <1>5, <1>6 DEF Next, Cycle

LEMMA NeverBackStep ==
    TypeOK /\ Forward /\ [Next]_vars =>
        [checkpoint.kind = "value" =>
            checkpoint'.kind = "value" /\ checkpoint'.at >= checkpoint.at]_checkpoint
    <1> SUFFICES ASSUME TypeOK, Forward, Next, checkpoint' # checkpoint,
                        checkpoint.kind = "value"
                 PROVE  checkpoint'.kind = "value" /\ checkpoint'.at >= checkpoint.at
        BY DEF vars
    <1>1. SaveCheckpoints
        BY DEF Next, Cycle, Start, FetchPage, FetchUnreadable, FetchFails, Apply,
               ApplyFails, Crash, Grow
    <1>2. last.kind = "value" /\ last.at >= checkpoint.at /\ last \in Sendable
        BY <1>1 DEF SaveCheckpoints, Forward, TypeOK
    <1>3. checkpoint' = Checkpoint(last)
        BY <1>1 DEF SaveCheckpoints
    <1> QED BY <1>2, <1>3, CheckpointFields

\* The saved resume value of an operation never moves back, with either kind of
\* pagination and however the collection grows.
THEOREM CheckpointMonotone == Spec => CheckpointNeverBack
    <1>1. Init => Forward
        BY DEF Init, Forward
    <1> QED
        BY <1>1, TypeInit, TypeStep, ForwardStep, NeverBackStep, PTL
           DEF Spec, CheckpointNeverBack

-----------------------------------------------------------------------------
(* The checkpoint covers stored rows only *)

\* Offsets move by whole pages, so the collection must grow by whole pages for
\* them; a cursor may come after any row.
OnBoundary(n) == \E k \in Nat : n = k * PageSize

WholePages ==
    \A o \in Operations : o.type = "cursor" \/ \A n \in o.growth : OnBoundary(n)

\* What holds of the offsets then.
Boundaries ==
    operation.type = "offset" =>
        /\ OnBoundary(length)
        /\ OnBoundary(value.at)
        /\ OnBoundary(last.at)
        /\ OnBoundary(checkpoint.at)

\* The rows before each place: stored, or among those of the cycle.
Covered ==
    /\ \A r \in 1..checkpoint.at : r \in stored
    /\ pc = "idle" => last.at = 0
    /\ pc \in {"fetch", "apply"} => \A r \in 1..value.at : r \in stored \cup rows
    /\ pc \in {"fetch", "apply"} => \A r \in 1..last.at : r \in stored \cup rows
    /\ pc = "save" => \A r \in 1..last.at : r \in stored

LEMMA BoundaryZero == OnBoundary(0)
    BY ConstantsAssumption DEF OnBoundary

LEMMA BoundarySum ==
    ASSUME NEW m \in Nat, NEW n \in Nat, OnBoundary(m), OnBoundary(n)
    PROVE  OnBoundary(m + n)
    <1>1. PICK j \in Nat : m = j * PageSize
        BY DEF OnBoundary
    <1>2. PICK k \in Nat : n = k * PageSize
        BY DEF OnBoundary
    <1>3. m + n = (j + k) * PageSize /\ j + k \in Nat
        BY <1>1, <1>2, ConstantsAssumption
    <1> QED BY <1>3 DEF OnBoundary

LEMMA BoundaryNext ==
    ASSUME NEW m \in Nat, OnBoundary(m)
    PROVE  OnBoundary(m + PageSize)
    <1>1. PageSize = 1 * PageSize
        BY ConstantsAssumption
    <1>2. OnBoundary(PageSize)
        BY <1>1 DEF OnBoundary
    <1> QED BY <1>2, BoundarySum, ConstantsAssumption

\* Between two boundaries there is a whole page.
LEMMA BoundaryGap ==
    ASSUME NEW m \in Nat, NEW n \in Nat, OnBoundary(m), OnBoundary(n), m < n
    PROVE  m + PageSize <= n
    <1>1. PICK j \in Nat : m = j * PageSize
        BY DEF OnBoundary
    <1>2. PICK k \in Nat : n = k * PageSize
        BY DEF OnBoundary
    <1>3. j < k
        <2> SUFFICES ASSUME k <= j PROVE FALSE
            OBVIOUS
        <2>1. k * PageSize <= j * PageSize
            <3>1. (j - k) \in Nat /\ (j - k) * PageSize \in Nat
                BY ConstantsAssumption
            <3>2. (j - k) * PageSize = j * PageSize - k * PageSize
                BY ConstantsAssumption
            <3> QED BY <3>1, <3>2, <1>1, <1>2
        <2> QED BY <1>1, <1>2, <2>1
    <1>4. (k - j - 1) \in Nat /\ (k - j - 1) * PageSize \in Nat
        BY <1>3, ConstantsAssumption
    <1>5. (k - j - 1) * PageSize = k * PageSize - j * PageSize - PageSize
        BY ConstantsAssumption
    <1> QED BY <1>1, <1>2, <1>4, <1>5, ConstantsAssumption

LEMMA BoundariesStep ==
    ASSUME WholePages, TypeOK, Boundaries, [Next]_vars
    PROVE  Boundaries'
    <1>0. UNCHANGED operation
        BY DEF Next, Cycle, Start, FetchPage, FetchUnreadable, FetchFails, Apply,
               ApplyFails, SaveCheckpoints, Crash, Grow, vars
    <1> SUFFICES ASSUME operation.type = "offset"
                 PROVE  /\ OnBoundary(length')
                        /\ OnBoundary(value'.at)
                        /\ OnBoundary(last'.at)
                        /\ OnBoundary(checkpoint'.at)
        BY <1>0 DEF Boundaries, OnBoundary
    <1>t. /\ OnBoundary(length) /\ length \in Nat
          /\ OnBoundary(value.at) /\ value.at \in Nat
          /\ OnBoundary(last.at) /\ OnBoundary(checkpoint.at)
          /\ OnBoundary(Absent.at)
          /\ last \in Sendable
        BY SendableFields, BoundaryZero, ConstantsAssumption DEF TypeOK, Boundaries
    <1>1. CASE Start
        BY <1>1, <1>t, StartFields DEF Start
    <1>2. CASE FetchPage
        <2>1. value'.at = value.at \/ value'.at = value.at + PageSize
            BY <1>2, NextFields DEF FetchPage
        <2> QED BY <1>2, <2>1, <1>t, BoundaryNext DEF FetchPage
    <1>3. CASE FetchUnreadable
        BY <1>3, <1>t DEF FetchUnreadable
    <1>4. CASE Apply
        BY <1>4, <1>t DEF Apply
    <1>5. CASE FetchFails \/ ApplyFails \/ Crash
        BY <1>5, <1>t DEF FetchFails, ApplyFails, Crash, EndCycle
    <1>6. CASE SaveCheckpoints
        BY <1>6, <1>t, CheckpointFields DEF SaveCheckpoints, EndCycle
    <1>7. CASE Grow
        <2>1. PICK n \in operation.growth : length' = length + n
            BY <1>7 DEF Grow
        <2>2. operation \in Operations /\ operation.growth \subseteq Nat \ {0}
            BY OperationFields DEF TypeOK
        <2>3. OnBoundary(n) /\ n \in Nat
            BY <2>2 DEF WholePages
        <2> QED BY <1>7, <2>1, <2>3, <1>t, BoundarySum DEF Grow
    <1>8. CASE UNCHANGED vars
        BY <1>8, <1>t DEF vars
    <1> QED BY <1>1, <1>2, <1>3, <1>4, <1>5, <1>6, <1>7, <1>8 DEF Next, Cycle

\* When the loop goes on, the page it leaves was a full one.
LEMMA FullPage ==
    ASSUME TypeOK, Boundaries, NextPage, value' # value
    PROVE  /\ value'.at = value.at + PageSize
           /\ Page = (value.at + 1)..(value.at + PageSize)
    <1>1. value.at \in Nat /\ length \in Nat
        BY SendableFields, ConstantsAssumption DEF TypeOK
    <1>2. value' = At(value.at + PageSize) /\ value.at < length
        BY NextFields
    <1>3. value.at + PageSize <= length
        <2>1. CASE operation.type = "cursor"
            <3>1. PageEnd < length
                BY <2>1 DEF NextPage, NextCursor
            <3> QED BY <3>1, <1>1, ConstantsAssumption DEF PageEnd
        <2>2. CASE operation.type = "offset"
            BY <2>2, <1>1, <1>2, BoundaryGap DEF Boundaries
        <2>3. operation.type \in {"cursor", "offset"}
            BY OperationFields DEF TypeOK
        <2> QED BY <2>1, <2>2, <2>3
    <1>4. PageEnd = value.at + PageSize
        BY <1>1, <1>3, ConstantsAssumption DEF PageEnd
    <1> QED BY <1>2, <1>4 DEF Page

LEMMA CoveredStep ==
    ASSUME TypeOK, Boundaries, Covered, [Next]_vars
    PROVE  Covered'
    <1>t. /\ value \in Sendable /\ value.at \in Nat
          /\ last \in Sendable /\ last.at \in Nat
          /\ PageSize \in Nat \ {0}
          /\ Absent.at = 0
        BY SendableFields, ConstantsAssumption DEF TypeOK
    <1> USE DEF Covered
    <1>1. CASE Start
        <2>1. pc' = "fetch" /\ value'.at = checkpoint.at /\ last'.at = 0
            BY <1>1, StartFields DEF Start
        <2>2. UNCHANGED <<stored, rows, checkpoint>>
            BY <1>1 DEF Start
        <2> QED BY <2>1, <2>2
    <1>2. CASE FetchPage
        <2>1. /\ pc = "fetch" /\ rows' = rows \cup Page /\ last' = value /\ NextPage
              /\ UNCHANGED <<stored, checkpoint>>
            BY <1>2 DEF FetchPage
        <2>2. \A r \in 1..value'.at : r \in stored' \cup rows'
            <3>1. CASE value' = value
                BY <3>1, <2>1
            <3>2. CASE value' # value
                <4>1. /\ value'.at = value.at + PageSize
                      /\ Page = (value.at + 1)..(value.at + PageSize)
                    BY <3>2, <2>1, FullPage
                <4> SUFFICES ASSUME NEW r \in 1..value'.at PROVE r \in stored \cup rows'
                    BY <2>1
                <4>2. r \in 1..value.at \/ r \in Page
                    BY <4>1, <1>t
                <4> QED BY <4>2, <2>1
            <3> QED BY <3>1, <3>2
        <2>3. pc' \in {"fetch", "apply"}
            BY <2>1, NextFields
        <2> QED BY <2>1, <2>2, <2>3
    <1>3. CASE FetchUnreadable
        BY <1>3 DEF FetchUnreadable
    <1>4. CASE Apply
        <2>1. stored' = stored \cup rows /\ pc = "apply" /\ pc' = "save"
              /\ UNCHANGED <<checkpoint, last>>
            BY <1>4 DEF Apply
        <2> QED BY <2>1
    <1>5. CASE FetchFails \/ ApplyFails \/ Crash
        <2>1. pc' = "idle" /\ last' = Absent /\ UNCHANGED checkpoint
            BY <1>5 DEF FetchFails, ApplyFails, Crash, EndCycle
        <2>2. stored \subseteq stored'
            BY <1>5 DEF FetchFails, ApplyFails, Crash
        <2> QED BY <2>1, <2>2, <1>t
    <1>6. CASE SaveCheckpoints
        <2>1. pc = "save" /\ pc' = "idle" /\ last' = Absent /\ UNCHANGED stored
              /\ checkpoint'.at = last.at
            BY <1>6, <1>t, CheckpointFields DEF SaveCheckpoints, EndCycle
        <2> QED BY <2>1, <1>t
    <1>7. CASE Grow \/ UNCHANGED vars
        BY <1>7 DEF Grow, vars
    <1> QED BY <1>1, <1>2, <1>3, <1>4, <1>5, <1>6, <1>7 DEF Next, Cycle

\* No row before the saved resume value is missing from the table, however
\* requests, applies and saves fail and the process dies, when the collection
\* grows by whole pages or a cursor is used.
THEOREM CheckpointIsComplete ==
    ASSUME WholePages
    PROVE  Spec => []CheckpointComplete
    <1> DEFINE Inv == TypeOK /\ Boundaries /\ Covered
    <1>1. Init => Inv
        BY TypeInit, BoundaryZero DEF Init, Boundaries, Covered
    <1>2. Inv /\ [Next]_vars => Inv'
        BY WholePages, TypeStep, BoundariesStep, CoveredStep
    <1>3. Inv => CheckpointComplete
        <2> SUFFICES ASSUME Covered, TypeOK, checkpoint.kind = "value",
                            NEW r \in 1..length, r <= checkpoint.at
                     PROVE  r \in stored
            BY DEF CheckpointComplete
        <2>1. checkpoint.at \in Nat
            BY SendableFields DEF TypeOK
        <2> QED BY <2>1 DEF Covered, TypeOK
    <1> QED BY <1>1, <1>2, <1>3, PTL DEF Spec

=============================================================================
