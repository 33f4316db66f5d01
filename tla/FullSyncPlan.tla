----------------------------- MODULE FullSyncPlan -----------------------------
(***************************************************************************)
(* From the operations of the full-reload plan to the tables and rows that *)
(* a full sync leaves in the database (relaxPlanNullability and            *)
(* buildFullSyncPlan of internal/core/service.go).                         *)
(***************************************************************************)
EXTENDS Integers, Sequences, SequencesExt, PlanOperations

Names(columns)      == {c.name : c \in columns}
PrimaryKey(columns) == {c.name : c \in {c \in columns : c.key}}

-----------------------------------------------------------------------------
(* relaxPlanNullability *)

\* The columns of the last create operation of a table.
TableColumns(ops, table) ==
    LET creates == {i \in DOMAIN ops : IsCreate(ops[i]) /\ ops[i].table = table}
    IN  IF creates = {} THEN {} ELSE ops[Max(creates)].columns

\* Columns that a row has as null, or that it lacks.
NullInRow(row, columns) ==
    {name \in DOMAIN row : row[name] = Null}
    \cup ((Names(columns) \ PrimaryKey(columns)) \ DOMAIN row)

NullColumnsOnly(ops, table) ==   \* mutant: a column that a row lacks is not relaxed
    {name \in Names(TableColumns(ops, table)) : \E op \in Range(ops) :
        IsInsert(op) /\ op.table = table /\ \E row \in Range(op.rows) :
            name \in DOMAIN row /\ row[name] = Null}

NullableColumns(ops, table) ==
    UNION {UNION {NullInRow(row, TableColumns(ops, table)) : row \in Range(op.rows)} :
              op \in {op \in Range(ops) : IsInsert(op) /\ op.table = table}}

\* Primary keys stay as they are.
relaxCreateTableColumns(columns, nullable) ==
    {Column(c.name, c.nullable \/ (~c.key /\ c.name \in nullable), c.key) : c \in columns}

\* The create operation shares its columns with the compiled operation, so that
\* a column once relaxed stays so for later cycles; here a plan is built from
\* the columns of the specification.
relaxPlanNullability(ops) ==
    [i \in DOMAIN ops |->
        IF IsCreate(ops[i])
        THEN CreateOp(ops[i].table,
                      relaxCreateTableColumns(ops[i].columns, NullableColumns(ops, ops[i].table)))
        ELSE ops[i]]

-----------------------------------------------------------------------------
(* buildFullSyncPlan: per table its columns and its rows by key.            *)

\* m[key] = value, for a map.
SetEntry(m, key, value) == [k \in DOMAIN m \cup {key} |-> IF k = key THEN value ELSE m[k]]

\* A row has all columns of its table.
NormalizeRow(row, columns) ==
    [name \in Names(columns) |-> IF name \in DOMAIN row THEN row[name] ELSE Null]

RowKey(row, columns) == [name \in PrimaryKey(columns) |-> row[name]]

HasKey(row, columns) == PrimaryKey(columns) \subseteq DOMAIN row

AddRowOnce(table, row) ==   \* mutant: the first row of a key wins
    IF RowKey(row, table.columns) \in DOMAIN table.rows THEN table
    ELSE [table EXCEPT !.rows =
             SetEntry(@, RowKey(row, table.columns), NormalizeRow(row, table.columns))]

\* Of the rows with one key the last one stays, also across operations.
AddRow(table, row) ==
    [columns |-> table.columns,
     rows    |-> SetEntry(table.rows, RowKey(row, table.columns), NormalizeRow(row, table.columns))]

addFullSyncRows(table, rows) ==
    LET after[i \in 0..Len(rows)] == IF i = 0 THEN table ELSE AddRow(after[i - 1], rows[i])
    IN  after[Len(rows)]

NoRows == [key \in {} |-> Null]

EnsureTableAnew(tables, name) ==   \* mutant: creating a table again forgets its rows
    [columns |-> IF name \in DOMAIN tables THEN tables[name].columns ELSE {}, rows |-> NoRows]

EnsureTable(tables, name) ==
    IF name \in DOMAIN tables THEN tables[name] ELSE [columns |-> {}, rows |-> NoRows]

\* The rows of an operation need a primary key, and each row a value for it.
Addable(table, rows) ==
    PrimaryKey(table.columns) # {} /\ \A row \in Range(rows) : HasKey(row, table.columns)

\* The first operation that cannot be added fails the plan.
AddOperation(plan, op) ==
    LET table == EnsureTable(plan.tables, op.table)
        added == IF IsCreate(op) THEN [columns |-> op.columns, rows |-> table.rows]
                 ELSE addFullSyncRows(table, op.rows)
    IN  IF plan.failed THEN plan
        ELSE IF IsInsert(op) /\ ~Addable(table, op.rows)
             THEN [tables |-> plan.tables, failed |-> TRUE]
             ELSE [tables |-> SetEntry(plan.tables, op.table, added), failed |-> FALSE]

NoPlan == [tables |-> [t \in {} |-> Null], failed |-> FALSE]

\* So does a table without primary key.
buildFullSyncPlan(ops) ==
    LET after[i \in 0..Len(ops)] == IF i = 0 THEN NoPlan ELSE AddOperation(after[i - 1], ops[i])
        plan == after[Len(ops)]
    IN  [tables |-> plan.tables,
         failed |-> plan.failed \/ \E t \in DOMAIN plan.tables :
                                      PrimaryKey(plan.tables[t].columns) = {}]
=============================================================================
