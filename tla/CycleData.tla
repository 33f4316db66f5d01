------------------------------ MODULE CycleData -------------------------------
(***************************************************************************)
(* The data of one cycle: the answers of the full-reload operations become *)
(* rows of their tables, and values for the operations further on, until   *)
(* the plan is finished (GenerateCyclePlan of internal/core/service.go).   *)
(* CyclePlanner has the control of the same code.  What an operation makes *)
(* of its schema and of an answer is a parameter here; CycleRecords takes  *)
(* the operators of Extraction for it.                                     *)
(***************************************************************************)
EXTENDS FullSyncPlan

CONSTANTS
    Operations,      \* the operations in order
    Answers,         \* operation -> the answers its requests may get
    MaxAnswers,      \* bound: per operation, its answers, of all pages and combinations
    Creates(_),      \* operation -> the operations that create its tables
    Inserts(_, _),   \* operation, answer -> the operations that insert the rows of the answer
    Publishes(_, _), \* operation, answer -> its values: pairs of id and value
    Relations        \* [table, column, target]: columns that hold keys of the table target

IsSequence(s) == s \in Seq(Range(s))

Created  == UNION {Range(Creates(Operations[i])) : i \in DOMAIN Operations}
Inserted == UNION {UNION {Range(Inserts(Operations[i], a)) : a \in Answers[i]} :
                      i \in DOMAIN Operations}

ASSUME OperationsAssumption ==
    /\ IsSequence(Operations) /\ Operations # <<>>
    /\ \A i \in DOMAIN Operations :
          /\ IsSequence(Creates(Operations[i]))
          /\ \A a \in Answers[i] : IsSequence(Inserts(Operations[i], a))
    /\ \A op \in Created : IsCreate(op) /\ \A c \in op.columns : c.key \in BOOLEAN
    /\ \A op \in Inserted : IsInsert(op) /\ IsSequence(op.rows)

\* prepareSpec: the tables of a full-reload operation have primary keys.
ASSUME OwnedTablesHavePrimaryKeys == \A op \in Created : PrimaryKey(op.columns) # {}

\* buildOperationExtractionPlan asks for one schema of a table only within an
\* operation; two operations that share a table are assumed to create it alike,
\* as those do that refer to one component of the specification in one place.
ASSUME TablesAgree == \A op, other \in Created : op.table = other.table => op.columns = other.columns

\* processRecord: a row stores keys of rows of another table in a relation
\* column, or both keys in a link table; the other table has one key.
KeyColumns(t) == UNION {PrimaryKey(op.columns) : op \in {op \in Created : op.table = t}}

ASSUME RelationsAssumption == \A r \in Relations :
    /\ \E op \in Created : op.table = r.table /\ r.column \in Names(op.columns)
    /\ \E op \in Created : op.table = r.target

References(row, column) ==
    IF row[column].json = "array" THEN Range(row[column].items) ELSE {row[column]}

\* The key v is that of one of the rows of the target, or there is none: null
\* refers to nothing, but not in a link table.
Resolves(v, r, rows) ==
    \/ v = Null /\ r.column \notin KeyColumns(r.table)
    \/ \E x \in rows : \A name \in KeyColumns(r.target) : name \in DOMAIN x /\ x[name] = v

RowsListed(operations, t) ==
    UNION {Range(op.rows) : op \in {op \in Range(operations) : IsInsert(op) /\ op.table = t}}

Closed(operations) ==
    \A r \in Relations : \A row \in RowsListed(operations, r.table) :
        r.column \in DOMAIN row =>
            \A v \in References(row, r.column) : Resolves(v, r, RowsListed(operations, r.target))

\* processRecord inserts the children of a record before it refers to them; so
\* within one answer every reference has its row.
ASSUME AnswersAreClosed ==
    \A i \in DOMAIN Operations : \A a \in Answers[i] : Closed(Inserts(Operations[i], a))

VARIABLES
    turn,     \* the operation being fetched
    ops,      \* fullReloadPlan.Operations
    values,   \* what the answers published: pairs of id and value
    plan,     \* the full-sync plan, once it is built
    pc,       \* progress of the cycle
    received  \* history variable: the answers, with their operations

vars == <<turn, ops, values, plan, pc, received>>

-----------------------------------------------------------------------------
Init ==
    /\ turn = 1
    /\ ops = Creates(Operations[1])
    /\ values = {}
    /\ plan = NoPlan
    /\ pc = "fetch"
    /\ received = <<>>

AnswersOf(i) == SelectSeq(received, LAMBDA r : r.operation = i)

\* buildInsertOpsForPayload and the values of one page.
ReceiveAnswer(answer) ==
    /\ pc = "fetch"
    /\ Len(AnswersOf(turn)) < MaxAnswers[turn]
    /\ ops' = ops \o Inserts(Operations[turn], answer)
    /\ values' = values \cup Publishes(Operations[turn], answer)
    /\ received' = Append(received, [operation |-> turn, answer |-> answer])
    /\ UNCHANGED <<turn, plan, pc>>

NextOperation ==
    /\ pc = "fetch"
    /\ turn < Len(Operations)
    /\ turn' = turn + 1
    /\ ops' = ops \o Creates(Operations[turn'])
    /\ UNCHANGED <<values, plan, pc, received>>

\* GenerateCyclePlan returns an error when the full-sync plan fails.
FinishPlan ==
    /\ pc = "fetch"
    /\ turn = Len(Operations)
    /\ ops' = relaxPlanNullability(ops)
    /\ plan' = buildFullSyncPlan(ops')
    /\ pc' = IF plan'.failed THEN "failed" ELSE "planned"
    /\ UNCHANGED <<turn, values, received>>

Next ==
    \/ \E answer \in Answers[turn] : ReceiveAnswer(answer)
    \/ NextOperation
    \/ FinishPlan

Spec == Init /\ [][Next]_vars

-----------------------------------------------------------------------------
(* Properties *)

Planned == pc = "planned"
Rows(t) == IF t \in DOMAIN plan.tables THEN Range(plan.tables[t].rows) ELSE {}

\* The rows of a plan fit the tables that the plan creates: each has exactly
\* the table's columns, and null only where the column allows it, although
\* rows of other answers are filled up with nulls after the columns were
\* fixed.  (A key that the API answers as null is written as null.)
RowsFitTables ==
    Planned =>
        \A t \in DOMAIN plan.tables : \A row \in Rows(t) :
            /\ DOMAIN row = Names(plan.tables[t].columns)
            /\ \A c \in plan.tables[t].columns : row[c.name] = Null => c.nullable \/ c.key

\* Where operations list the rows of a table: the operation, and the row in it.
Listed(operations, t) ==
    UNION {{i} \X DOMAIN operations[i].rows :
              i \in {i \in DOMAIN operations : IsInsert(operations[i]) /\ operations[i].table = t}}

RowAt(operations, p) == operations[p[1]].rows[p[2]]

Later(p, q) == p[1] > q[1] \/ (p[1] = q[1] /\ p[2] > q[2])

\* The operations that insert the rows of an answer received, and of some.
InsertsOf(r) == Inserts(Operations[r.operation], r.answer)
InsertsIn(answers) == UNION {Range(InsertsOf(r)) : r \in Range(answers)}

\* The rows of a table that the answers list: the answer, the place in it, the row.
Answered(t) ==
    UNION {LET inserts == InsertsOf(received[i])
           IN  {[page |-> i, place |-> p, row |-> RowAt(inserts, p)] : p \in Listed(inserts, t)} :
              i \in DOMAIN received}

Newer(q, s) == q.page > s.page \/ (q.page = s.page /\ Later(q.place, s.place))

\* A full sync reloads every table that an operation creates, also one that no
\* row came for, with one row for each key that some answer of the cycle lists,
\* and this row is the last one listed with the key: on the newest page, across
\* pages and operations, and behind the others of that page.
LastListedStays ==
    Planned =>
        /\ DOMAIN plan.tables = {op.table : op \in Created \cup InsertsIn(received)}
        /\ \A t \in DOMAIN plan.tables :
              LET rows     == plan.tables[t].rows
                  answered == Answered(t)
                  Key(q)   == RowKey(q.row, plan.tables[t].columns)
              IN  /\ DOMAIN rows = {Key(q) : q \in answered}
                  /\ \A key \in DOMAIN rows : \E q \in answered :
                        /\ Key(q) = key
                        /\ rows[key] = NormalizeRow(q.row, plan.tables[t].columns)
                        /\ \A s \in answered : Newer(s, q) => Key(s) # key

\* Every key that a row stores of another row, in a column, in an array or in
\* a link table, is the key of a row that the same plan writes: the merging
\* of pages, operations and equal keys leaves no reference behind.
ReferencesResolve ==
    Planned =>
        \A r \in Relations : \A row \in Rows(r.table) : \A v \in References(row, r.column) :
            Resolves(v, r, Rows(r.target))
=============================================================================
