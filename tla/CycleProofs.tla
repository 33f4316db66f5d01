----------------------------- MODULE CycleProofs ------------------------------
(***************************************************************************)
(* Theorems about CycleData, for every list of operations, whatever they   *)
(* make of their answers: what a full-sync plan has in its tables.  The    *)
(* recursive functions of FullSyncPlan are unrolled into the states they   *)
(* go through, which are there for every number of steps, and an invariant *)
(* is carried along them.                                                  *)
(***************************************************************************)
EXTENDS CycleData, Counting, TLAPS

-----------------------------------------------------------------------------
(* addFullSyncRows.                                                         *)

\* The states of a table while the first n rows are added.
Adding(table, rows, n, t) ==
    /\ t = [i \in 0..n |-> t[i]]
    /\ t[0] = table
    /\ \A i \in 1..n : t[i] = AddRow(t[i - 1], rows[i])

LEMMA AddingExists ==
    ASSUME NEW table, NEW rows
    PROVE  \A n \in Nat : \E t : Adding(table, rows, n, t)
<1> DEFINE S == {n \in Nat : \E t : Adding(table, rows, n, t)}
<1>1. 0 \in S
  <2>1. Adding(table, rows, 0, [i \in 0..0 |-> table])
    BY DEF Adding
  <2> QED
    BY <2>1
<1>2. ASSUME NEW n \in S PROVE n + 1 \in S
  <2>1. PICK t : Adding(table, rows, n, t)
    OBVIOUS
  <2> DEFINE u == [i \in 0..(n + 1) |-> IF i = n + 1 THEN AddRow(t[n], rows[n + 1]) ELSE t[i]]
  <2>2. u = [i \in 0..(n + 1) |-> u[i]] /\ u[0] = table
    BY <2>1 DEF Adding
  <2>3. ASSUME NEW i \in 1..(n + 1) PROVE u[i] = AddRow(u[i - 1], rows[i])
    <3>1. CASE i = n + 1
      <4>1. u[i] = AddRow(t[n], rows[n + 1]) /\ u[i - 1] = t[n]
        BY <3>1
      <4> QED
        BY <3>1, <4>1
    <3>2. CASE i # n + 1
      <4>1. i \in 1..n /\ u[i] = t[i] /\ u[i - 1] = t[i - 1]
        BY <3>2
      <4> QED
        BY <2>1, <4>1 DEF Adding
    <3> QED
      BY <3>1, <3>2
  <2>4. Adding(table, rows, n + 1, u)
    <3> HIDE DEF u
    <3> QED
      BY <2>2, <2>3 DEF Adding
  <2> QED
    BY <2>4
<1>3. S = Nat
  <2> HIDE DEF S
  <2>1. S \in SUBSET Nat
    BY DEF S
  <2> QED
    BY <1>1, <1>2, <2>1, CountUp
<1> QED
  BY <1>3

(* addFullSyncRows adds the rows one by one.                                *)
LEMMA AddedOneByOne ==
    ASSUME NEW table, NEW rows, Len(rows) \in Nat
    PROVE  \E t : Adding(table, rows, Len(rows), t) /\ addFullSyncRows(table, rows) = t[Len(rows)]
<1> DEFINE after == CHOOSE t : t = [i \in 0..Len(rows) |->
                        IF i = 0 THEN table ELSE AddRow(t[i - 1], rows[i])]
<1>1. PICK t : Adding(table, rows, Len(rows), t)
  BY AddingExists
<1>2. \A i \in 0..Len(rows) : t[i] = IF i = 0 THEN table ELSE AddRow(t[i - 1], rows[i])
  BY <1>1 DEF Adding
<1>3. t = [i \in 0..Len(rows) |-> IF i = 0 THEN table ELSE AddRow(t[i - 1], rows[i])]
  BY <1>1, <1>2 DEF Adding
<1>4. after = [i \in 0..Len(rows) |-> IF i = 0 THEN table ELSE AddRow(after[i - 1], rows[i])]
  BY <1>3
<1>5. addFullSyncRows(table, rows) = after[Len(rows)]
  BY DEF addFullSyncRows
<1> HIDE DEF after
<1>6. Adding(table, rows, Len(rows), after)
  BY <1>4 DEF Adding
<1> QED
  BY <1>5, <1>6

\* What the first n of some rows leave in a table: one row for each key, the
\* last one with this key, and the row of the table before if none has it.
AddedRows(table, rows, n, result) ==
    LET columns == table.columns
    IN  /\ result.columns = columns
        /\ DOMAIN result.rows = DOMAIN table.rows \cup {RowKey(rows[i], columns) : i \in 1..n}
        /\ \A key \in DOMAIN result.rows :
              \/ \E i \in 1..n :
                    /\ RowKey(rows[i], columns) = key
                    /\ result.rows[key] = NormalizeRow(rows[i], columns)
                    /\ \A j \in (i + 1)..n : RowKey(rows[j], columns) # key
              \/ /\ key \in DOMAIN table.rows
                 /\ result.rows[key] = table.rows[key]
                 /\ \A j \in 1..n : RowKey(rows[j], columns) # key

LEMMA EntryDomain == \A m, a, v : DOMAIN SetEntry(m, a, v) = DOMAIN m \cup {a}
  BY DEF SetEntry

LEMMA EntryIsSet == \A m, a, v : SetEntry(m, a, v)[a] = v
  BY DEF SetEntry

LEMMA EntriesKept == \A m, a, v : \A x \in DOMAIN m : x # a => SetEntry(m, a, v)[x] = m[x]
  BY DEF SetEntry

LEMMA OneMoreRow ==
    ASSUME NEW table, NEW rows, NEW n \in Nat, NEW before, AddedRows(table, rows, n, before)
    PROVE  AddedRows(table, rows, n + 1, AddRow(before, rows[n + 1]))
<1> DEFINE columns == table.columns
           K(i) == RowKey(rows[i], columns)
           V(i) == NormalizeRow(rows[i], columns)
           result == AddRow(before, rows[n + 1])
<1>1. /\ before.columns = columns
      /\ DOMAIN before.rows = DOMAIN table.rows \cup {K(i) : i \in 1..n}
      /\ \A key \in DOMAIN before.rows :
            \/ \E i \in 1..n : K(i) = key /\ before.rows[key] = V(i) /\ \A j \in (i + 1)..n : K(j) # key
            \/ /\ key \in DOMAIN table.rows
               /\ before.rows[key] = table.rows[key]
               /\ \A j \in 1..n : K(j) # key
  BY DEF AddedRows
<1>2. result.columns = columns /\ result.rows = SetEntry(before.rows, K(n + 1), V(n + 1))
  BY <1>1 DEF AddRow
<1> HIDE DEF result, K, V, columns
<1>3. /\ DOMAIN result.rows = DOMAIN before.rows \cup {K(n + 1)}
      /\ result.rows[K(n + 1)] = V(n + 1)
      /\ \A x \in DOMAIN before.rows : x # K(n + 1) => result.rows[x] = before.rows[x]
  <2>1. PICK k, v, old : k = K(n + 1) /\ v = V(n + 1) /\ old = before.rows
    OBVIOUS
  <2> DEFINE new == SetEntry(old, k, v)
  <2>2. /\ DOMAIN new = DOMAIN old \cup {k}
        /\ new[k] = v
        /\ \A x \in DOMAIN old : x # k => new[x] = old[x]
    <3>1. DOMAIN new = DOMAIN old \cup {k}
      BY EntryDomain
    <3>2. new[k] = v
      BY EntryIsSet
    <3>3. ASSUME NEW x \in DOMAIN old, x # k PROVE new[x] = old[x]
      BY <3>3, EntriesKept
    <3> QED
      BY <3>1, <3>2, <3>3
  <2>3. result.rows = new
    BY <1>2, <2>1
  <2> QED
    BY <2>1, <2>2, <2>3
<1>4. 1..(n + 1) = (1..n) \cup {n + 1}
  OBVIOUS
<1>5. DOMAIN result.rows = DOMAIN table.rows \cup {K(i) : i \in 1..(n + 1)}
  BY <1>1, <1>3, <1>4
<1>6. ASSUME NEW key \in DOMAIN result.rows
      PROVE  \/ \E i \in 1..(n + 1) :
                   K(i) = key /\ result.rows[key] = V(i) /\ \A j \in (i + 1)..(n + 1) : K(j) # key
             \/ /\ key \in DOMAIN table.rows
                /\ result.rows[key] = table.rows[key]
                /\ \A j \in 1..(n + 1) : K(j) # key
  <2>1. CASE key = K(n + 1)
    <3>1. n + 1 \in 1..(n + 1) /\ ((n + 1) + 1)..(n + 1) = {}
      OBVIOUS
    <3> QED
      BY <1>3, <2>1, <3>1
  <2>2. CASE key # K(n + 1)
    <3>1. key \in DOMAIN before.rows /\ result.rows[key] = before.rows[key]
      BY <1>3, <2>2
    <3>2. CASE \E i \in 1..n : K(i) = key /\ before.rows[key] = V(i) /\ \A j \in (i + 1)..n : K(j) # key
      <4>1. PICK i \in 1..n : K(i) = key /\ before.rows[key] = V(i) /\ \A j \in (i + 1)..n : K(j) # key
        BY <3>2
      <4>2. \A j \in (i + 1)..(n + 1) : j \in (i + 1)..n \/ j = n + 1
        OBVIOUS
      <4>3. \A j \in (i + 1)..(n + 1) : K(j) # key
        BY <2>2, <4>1, <4>2
      <4> QED
        BY <1>4, <3>1, <4>1, <4>3
    <3>3. CASE /\ key \in DOMAIN table.rows
               /\ before.rows[key] = table.rows[key]
               /\ \A j \in 1..n : K(j) # key
      BY <1>4, <2>2, <3>1, <3>3
    <3> QED
      BY <1>1, <3>1, <3>2, <3>3
  <2> QED
    BY <2>1, <2>2
<1> QED
  BY <1>2, <1>5, <1>6 DEF AddedRows, K, V, columns, result

LEMMA RowsAdded ==
    ASSUME NEW table, NEW rows, Len(rows) \in Nat
    PROVE  AddedRows(table, rows, Len(rows), addFullSyncRows(table, rows))
<1>1. PICK t : Adding(table, rows, Len(rows), t) /\ addFullSyncRows(table, rows) = t[Len(rows)]
  BY AddedOneByOne
<1> DEFINE S == {n \in Nat : n <= Len(rows) => AddedRows(table, rows, n, t[n])}
<1>2. 0 \in S
  <2>1. t[0] = table
    BY <1>1 DEF Adding
  <2>2. AddedRows(table, rows, 0, table)
    BY DEF AddedRows
  <2> QED
    BY <2>1, <2>2
<1>3. ASSUME NEW n \in S PROVE n + 1 \in S
  <2> SUFFICES ASSUME n + 1 <= Len(rows) PROVE AddedRows(table, rows, n + 1, t[n + 1])
    OBVIOUS
  <2>1. n + 1 \in 1..Len(rows) /\ (n + 1) - 1 = n
    OBVIOUS
  <2>2. t[n + 1] = AddRow(t[n], rows[n + 1])
    BY <1>1, <2>1 DEF Adding
  <2>3. AddedRows(table, rows, n, t[n])
    OBVIOUS
  <2> QED
    BY <2>2, <2>3, OneMoreRow
<1>4. S = Nat
  <2> HIDE DEF S
  <2>1. S \in SUBSET Nat
    BY DEF S
  <2> QED
    BY <1>2, <1>3, <2>1, CountUp
<1> QED
  BY <1>1, <1>4

-----------------------------------------------------------------------------
(* buildFullSyncPlan.                                                       *)

\* The plans while the first n operations are added.
Building(operations, n, p) ==
    /\ p = [i \in 0..n |-> p[i]]
    /\ p[0] = NoPlan
    /\ \A i \in 1..n : p[i] = AddOperation(p[i - 1], operations[i])

LEMMA BuildingExists ==
    ASSUME NEW operations
    PROVE  \A n \in Nat : \E p : Building(operations, n, p)
<1> DEFINE S == {n \in Nat : \E p : Building(operations, n, p)}
<1>1. 0 \in S
  <2>1. Building(operations, 0, [i \in 0..0 |-> NoPlan])
    BY DEF Building
  <2> QED
    BY <2>1
<1>2. ASSUME NEW n \in S PROVE n + 1 \in S
  <2>1. PICK p : Building(operations, n, p)
    OBVIOUS
  <2> DEFINE u == [i \in 0..(n + 1) |->
                      IF i = n + 1 THEN AddOperation(p[n], operations[n + 1]) ELSE p[i]]
  <2>2. u = [i \in 0..(n + 1) |-> u[i]] /\ u[0] = NoPlan
    BY <2>1 DEF Building
  <2>3. ASSUME NEW i \in 1..(n + 1) PROVE u[i] = AddOperation(u[i - 1], operations[i])
    <3>1. CASE i = n + 1
      <4>1. u[i] = AddOperation(p[n], operations[n + 1]) /\ u[i - 1] = p[n]
        BY <3>1
      <4> QED
        BY <3>1, <4>1
    <3>2. CASE i # n + 1
      <4>1. i \in 1..n /\ u[i] = p[i] /\ u[i - 1] = p[i - 1]
        BY <3>2
      <4> QED
        BY <2>1, <4>1 DEF Building
    <3> QED
      BY <3>1, <3>2
  <2>4. Building(operations, n + 1, u)
    <3> HIDE DEF u
    <3> QED
      BY <2>2, <2>3 DEF Building
  <2> QED
    BY <2>4
<1>3. S = Nat
  <2> HIDE DEF S
  <2>1. S \in SUBSET Nat
    BY DEF S
  <2> QED
    BY <1>1, <1>2, <2>1, CountUp
<1> QED
  BY <1>3

\* buildFullSyncPlan with the check of the last step left to do.
Finished(p) ==
    [tables |-> p.tables,
     failed |-> p.failed \/ \E t \in DOMAIN p.tables : PrimaryKey(p.tables[t].columns) = {}]

LEMMA BuiltOneByOne ==
    ASSUME NEW operations, Len(operations) \in Nat
    PROVE  \E p : /\ Building(operations, Len(operations), p)
                  /\ buildFullSyncPlan(operations) = Finished(p[Len(operations)])
<1> DEFINE after == CHOOSE p : p = [i \in 0..Len(operations) |->
                        IF i = 0 THEN NoPlan ELSE AddOperation(p[i - 1], operations[i])]
<1>1. PICK p : Building(operations, Len(operations), p)
  BY BuildingExists
<1>2. \A i \in 0..Len(operations) :
         p[i] = IF i = 0 THEN NoPlan ELSE AddOperation(p[i - 1], operations[i])
  BY <1>1 DEF Building
<1>3. p = [i \in 0..Len(operations) |->
              IF i = 0 THEN NoPlan ELSE AddOperation(p[i - 1], operations[i])]
  BY <1>1, <1>2 DEF Building
<1>4. after = [i \in 0..Len(operations) |->
                  IF i = 0 THEN NoPlan ELSE AddOperation(after[i - 1], operations[i])]
  BY <1>3
<1>5. buildFullSyncPlan(operations) = Finished(after[Len(operations)])
  BY DEF buildFullSyncPlan, Finished
<1> HIDE DEF after
<1>6. Building(operations, Len(operations), after)
  BY <1>4 DEF Building
<1> QED
  BY <1>5, <1>6

\* Creates and inserts, and the creates of a table all with the same columns.
WellFormed(operations) ==
    /\ Len(operations) \in Nat /\ DOMAIN operations = 1..Len(operations)
    /\ \A i \in DOMAIN operations :
          \/ IsCreate(operations[i])
          \/ /\ IsInsert(operations[i])
             /\ Len(operations[i].rows) \in Nat
             /\ DOMAIN operations[i].rows = 1..Len(operations[i].rows)
    /\ \A i, j \in DOMAIN operations :
          IsCreate(operations[i]) /\ IsCreate(operations[j]) /\ operations[i].table = operations[j].table
              => operations[i].columns = operations[j].columns

\* The rows of a table that the first n operations list.
ListedUpTo(operations, t, n) == {p \in Listed(operations, t) : p[1] <= n}

\* What a table of the plan is after n operations that have not failed.
BuiltColumns(operations, t, n, columns) ==
    \/ columns = {} /\ ListedUpTo(operations, t, n) = {}
    \/ \E i \in 1..n : /\ IsCreate(operations[i]) /\ operations[i].table = t
                       /\ columns = operations[i].columns

BuiltRows(operations, t, n, table) ==
    LET listed == ListedUpTo(operations, t, n)
        Key(p) == RowKey(RowAt(operations, p), table.columns)
    IN  /\ \A p \in listed : HasKey(RowAt(operations, p), table.columns)
        /\ DOMAIN table.rows = {Key(p) : p \in listed}
        /\ \A key \in DOMAIN table.rows : \E p \in listed :
              /\ Key(p) = key
              /\ table.rows[key] = NormalizeRow(RowAt(operations, p), table.columns)
              /\ \A q \in listed : Later(q, p) => Key(q) # key

Built(operations, n, p) ==
    \/ p.failed = TRUE
    \/ /\ p.failed = FALSE
       /\ DOMAIN p.tables = {operations[i].table : i \in 1..n}
       /\ \A t \in DOMAIN p.tables :
             /\ BuiltColumns(operations, t, n, p.tables[t].columns)
             /\ BuiltRows(operations, t, n, p.tables[t])

LEMMA ListedPairs ==
    ASSUME NEW operations, WellFormed(operations), NEW t, NEW n
    PROVE  \A p : p \in ListedUpTo(operations, t, n) <=>
              \E i \in DOMAIN operations : \E j \in DOMAIN operations[i].rows :
                  /\ p = <<i, j>> /\ i <= n
                  /\ IsInsert(operations[i]) /\ operations[i].table = t
<1>1. \A p : p \in Listed(operations, t) <=>
         \E i \in DOMAIN operations : \E j \in DOMAIN operations[i].rows :
             p = <<i, j>> /\ IsInsert(operations[i]) /\ operations[i].table = t
  BY DEF Listed
<1> QED
  BY <1>1 DEF ListedUpTo

\* An operation that does not insert into a table lists no rows of it.
LEMMA ListedBefore ==
    ASSUME NEW operations, WellFormed(operations), NEW t, NEW n \in Nat, n + 1 \in DOMAIN operations,
           ~(IsInsert(operations[n + 1]) /\ operations[n + 1].table = t)
    PROVE  ListedUpTo(operations, t, n + 1) = ListedUpTo(operations, t, n)
<1>1. ASSUME NEW i \in DOMAIN operations, IsInsert(operations[i]), operations[i].table = t
      PROVE  i <= n + 1 <=> i <= n
  <2>1. i \in Nat /\ i # n + 1
    BY <1>1 DEF WellFormed
  <2> QED
    BY <2>1
<1>2. \A p : p \in ListedUpTo(operations, t, n + 1) <=> p \in ListedUpTo(operations, t, n)
  BY <1>1, ListedPairs
<1> QED
  BY <1>2

LEMMA ListedNow ==
    ASSUME NEW operations, WellFormed(operations), NEW n \in Nat, n + 1 \in DOMAIN operations,
           IsInsert(operations[n + 1])
    PROVE  ListedUpTo(operations, operations[n + 1].table, n + 1)
              = ListedUpTo(operations, operations[n + 1].table, n)
                  \cup {<<n + 1, j>> : j \in DOMAIN operations[n + 1].rows}
<1> DEFINE t == operations[n + 1].table
<1>1. ASSUME NEW i \in DOMAIN operations PROVE i <= n + 1 <=> i <= n \/ i = n + 1
  <2>1. i \in Nat
    BY DEF WellFormed
  <2> QED
    BY <2>1
<1>2. \A p : p \in ListedUpTo(operations, t, n + 1) <=>
         \/ p \in ListedUpTo(operations, t, n)
         \/ \E j \in DOMAIN operations[n + 1].rows : p = <<n + 1, j>>
  BY <1>1, ListedPairs
<1> QED
  BY <1>2

LEMMA ColumnsKept ==
    ASSUME NEW operations, WellFormed(operations), NEW t, NEW n \in Nat, n + 1 \in DOMAIN operations,
           ~(IsInsert(operations[n + 1]) /\ operations[n + 1].table = t),
           NEW columns, BuiltColumns(operations, t, n, columns)
    PROVE  BuiltColumns(operations, t, n + 1, columns)
<1>1. \A i \in 1..n : i \in 1..(n + 1)
  OBVIOUS
<1> QED
  BY <1>1, ListedBefore DEF BuiltColumns

LEMMA RowsKept ==
    ASSUME NEW operations, WellFormed(operations), NEW t, NEW n \in Nat, n + 1 \in DOMAIN operations,
           ~(IsInsert(operations[n + 1]) /\ operations[n + 1].table = t),
           NEW table, BuiltRows(operations, t, n, table)
    PROVE  BuiltRows(operations, t, n + 1, table)
<1>1. ListedUpTo(operations, t, n + 1) = ListedUpTo(operations, t, n)
  BY ListedBefore
<1> QED
  BY <1>1 DEF BuiltRows

\* Creating a table again changes none of its columns, and keeps its rows.
LEMMA CreatedTable ==
    ASSUME NEW operations, WellFormed(operations), NEW n \in Nat, n + 1 \in DOMAIN operations,
           IsCreate(operations[n + 1]),
           NEW p, p.failed = FALSE, Built(operations, n, p)
    PROVE  LET op    == operations[n + 1]
               table == EnsureTable(p.tables, op.table)
               added == [columns |-> op.columns, rows |-> table.rows]
           IN  /\ BuiltColumns(operations, op.table, n + 1, added.columns)
               /\ BuiltRows(operations, op.table, n + 1, added)
<1> DEFINE op == operations[n + 1]
           t == op.table
           table == EnsureTable(p.tables, t)
           added == [columns |-> op.columns, rows |-> table.rows]
           listed == ListedUpTo(operations, t, n)
<1>1. ~IsInsert(op)
  BY DEF IsCreate, IsInsert
<1>2. added.columns = op.columns /\ added.rows = table.rows
  OBVIOUS
<1>3. BuiltColumns(operations, t, n + 1, added.columns)
  <2>1. n + 1 \in 1..(n + 1)
    OBVIOUS
  <2> QED
    BY <1>2, <2>1 DEF BuiltColumns
<1>4. ASSUME listed = {}, DOMAIN table.rows = {} PROVE BuiltRows(operations, t, n, added)
  <2> HIDE DEF added, table, listed
  <2>1. ListedUpTo(operations, t, n) = {}
    BY <1>4 DEF listed
  <2> QED
    BY <1>2, <1>4, <2>1 DEF BuiltRows
<1>5. BuiltRows(operations, t, n, added)
  <2>1. CASE t \notin DOMAIN p.tables
    <3>1. DOMAIN table.rows = {}
      BY <2>1 DEF EnsureTable, NoRows
    <3>2. listed = {}
      <4>1. \A i \in 1..n : operations[i].table # t
        BY <2>1 DEF Built
      <4>2. \A i \in DOMAIN operations : i <= n => i \in 1..n
        BY DEF WellFormed
      <4> QED
        BY <4>1, <4>2, ListedPairs
    <3> QED
      BY <1>4, <3>1, <3>2
  <2>2. CASE t \in DOMAIN p.tables
    <3>1. /\ table = p.tables[t]
          /\ BuiltColumns(operations, t, n, table.columns)
          /\ BuiltRows(operations, t, n, table)
      BY <2>2 DEF Built, EnsureTable
    <3>2. CASE table.columns = {} /\ listed = {}
      <4>1. DOMAIN table.rows = {}
        <5> HIDE DEF table, listed
        <5>1. ListedUpTo(operations, t, n) = {}
          BY <3>2 DEF listed
        <5> QED
          BY <3>1, <5>1 DEF BuiltRows
      <4> QED
        BY <1>4, <3>2, <4>1
    <3>3. CASE \E i \in 1..n : /\ IsCreate(operations[i]) /\ operations[i].table = t
                               /\ table.columns = operations[i].columns
      <4>1. \A i \in 1..n : i \in DOMAIN operations
        BY DEF WellFormed
      <4>2. table.columns = op.columns
        BY <3>3, <4>1 DEF WellFormed
      <4> HIDE DEF added, table
      <4> QED
        BY <1>2, <3>1, <4>2 DEF BuiltRows
    <3> QED
      BY <3>1, <3>2, <3>3 DEF BuiltColumns
  <2> QED
    BY <2>1, <2>2
<1>6. BuiltRows(operations, t, n + 1, added)
  BY <1>1, <1>5, RowsKept
<1> QED
  BY <1>3, <1>6

\* Rows go only into tables with columns, and after the rows before them.
LEMMA FilledTable ==
    ASSUME NEW operations, WellFormed(operations), NEW n \in Nat, n + 1 \in DOMAIN operations,
           IsInsert(operations[n + 1]),
           NEW p, p.failed = FALSE, Built(operations, n, p),
           Addable(EnsureTable(p.tables, operations[n + 1].table), operations[n + 1].rows)
    PROVE  LET op    == operations[n + 1]
               added == addFullSyncRows(EnsureTable(p.tables, op.table), op.rows)
           IN  /\ BuiltColumns(operations, op.table, n + 1, added.columns)
               /\ BuiltRows(operations, op.table, n + 1, added)
<1> DEFINE op == operations[n + 1]
           t == op.table
           table == EnsureTable(p.tables, t)
           rows == op.rows
           added == addFullSyncRows(table, rows)
           columns == table.columns
           Before == ListedUpTo(operations, t, n)
           Now == ListedUpTo(operations, t, n + 1)
           Row(q) == RowAt(operations, q)
           Key(q) == RowKey(Row(q), columns)
<1>1. Len(rows) \in Nat /\ DOMAIN rows = 1..Len(rows)
  BY DEF WellFormed, IsCreate, IsInsert
<1>2. columns # {}
  BY DEF Addable, PrimaryKey
<1>3. /\ table = p.tables[t]
      /\ BuiltColumns(operations, t, n, columns)
      /\ BuiltRows(operations, t, n, table)
  <2>1. t \in DOMAIN p.tables
    BY <1>2 DEF EnsureTable
  <2> QED
    BY <2>1 DEF Built, EnsureTable
<1>4. AddedRows(table, rows, Len(rows), added)
  BY <1>1, RowsAdded
<1>5. added.columns = columns
  BY <1>4 DEF AddedRows
<1>6. BuiltColumns(operations, t, n + 1, added.columns)
  <2>1. \A i \in 1..n : i \in 1..(n + 1)
    OBVIOUS
  <2> QED
    BY <1>2, <1>3, <1>5, <2>1 DEF BuiltColumns
<1>7. Now = Before \cup {<<n + 1, j>> : j \in 1..Len(rows)}
  BY <1>1, ListedNow
<1>8. \A j \in 1..Len(rows) : Row(<<n + 1, j>>) = rows[j]
  BY DEF RowAt
<1>9. /\ \A q \in Before : HasKey(Row(q), columns)
      /\ DOMAIN table.rows = {Key(q) : q \in Before}
      /\ \A key \in DOMAIN table.rows : \E q \in Before :
            /\ Key(q) = key
            /\ table.rows[key] = NormalizeRow(Row(q), columns)
            /\ \A r \in Before : Later(r, q) => Key(r) # key
  BY <1>3 DEF BuiltRows
<1>10. /\ DOMAIN added.rows = DOMAIN table.rows \cup {RowKey(rows[i], columns) : i \in 1..Len(rows)}
       /\ \A key \in DOMAIN added.rows :
             \/ \E i \in 1..Len(rows) :
                   /\ RowKey(rows[i], columns) = key
                   /\ added.rows[key] = NormalizeRow(rows[i], columns)
                   /\ \A j \in (i + 1)..Len(rows) : RowKey(rows[j], columns) # key
             \/ /\ key \in DOMAIN table.rows
                /\ added.rows[key] = table.rows[key]
                /\ \A j \in 1..Len(rows) : RowKey(rows[j], columns) # key
  BY <1>4 DEF AddedRows
<1>11. \A j \in 1..Len(rows) : HasKey(rows[j], columns)
  <2>1. \A j \in 1..Len(rows) : rows[j] \in Range(rows)
    BY <1>1 DEF Range
  <2> QED
    BY <2>1 DEF Addable
<1>12. ASSUME NEW q \in Before PROVE q[1] \in Nat /\ q[1] <= n
  <2>1. PICK i \in DOMAIN operations : i <= n /\ \E j \in DOMAIN operations[i].rows : q = <<i, j>>
    BY ListedPairs
  <2> QED
    BY <2>1 DEF WellFormed
<1> HIDE DEF op, t, table, rows, added, columns, Before, Now, Row, Key
<1>13. \A q \in Now : HasKey(Row(q), columns)
  BY <1>7, <1>8, <1>9, <1>11
<1>14. DOMAIN added.rows = {Key(q) : q \in Now}
  <2>1. \A i \in 1..Len(rows) : <<n + 1, i>> \in Now /\ Key(<<n + 1, i>>) = RowKey(rows[i], columns)
    BY <1>7, <1>8 DEF Key
  <2>2. ASSUME NEW key \in DOMAIN added.rows PROVE \E q \in Now : Key(q) = key
    <3>1. CASE key \in DOMAIN table.rows
      BY <1>7, <1>9, <3>1
    <3>2. CASE \E i \in 1..Len(rows) : key = RowKey(rows[i], columns)
      BY <2>1, <3>2
    <3> QED
      BY <1>10, <3>1, <3>2
  <2>3. ASSUME NEW q \in Now PROVE Key(q) \in DOMAIN added.rows
    <3>1. CASE q \in Before
      BY <1>9, <1>10, <3>1
    <3>2. CASE \E i \in 1..Len(rows) : q = <<n + 1, i>>
      BY <1>10, <2>1, <3>2
    <3> QED
      BY <1>7, <3>1, <3>2
  <2> HIDE DEF Key
  <2> QED
    BY <2>2, <2>3
<1>15. ASSUME NEW key \in DOMAIN added.rows
       PROVE  \E q \in Now :
                 /\ Key(q) = key
                 /\ added.rows[key] = NormalizeRow(Row(q), columns)
                 /\ \A r \in Now : Later(r, q) => Key(r) # key
  <2>1. CASE \E i \in 1..Len(rows) :
                /\ RowKey(rows[i], columns) = key
                /\ added.rows[key] = NormalizeRow(rows[i], columns)
                /\ \A j \in (i + 1)..Len(rows) : RowKey(rows[j], columns) # key
    <3>1. PICK i \in 1..Len(rows) :
                /\ RowKey(rows[i], columns) = key
                /\ added.rows[key] = NormalizeRow(rows[i], columns)
                /\ \A j \in (i + 1)..Len(rows) : RowKey(rows[j], columns) # key
      BY <2>1
    <3> DEFINE q == <<n + 1, i>>
    <3>2. q \in Now /\ Key(q) = key /\ added.rows[key] = NormalizeRow(Row(q), columns)
      BY <1>7, <1>8, <3>1 DEF Key
    <3>3. ASSUME NEW r \in Now, Later(r, q) PROVE Key(r) # key
      <4>1. r \notin Before
        BY <1>12, <3>3 DEF Later
      <4>2. PICK j \in 1..Len(rows) : r = <<n + 1, j>>
        BY <1>7, <4>1
      <4>3. j \in (i + 1)..Len(rows)
        BY <1>1, <3>3, <4>2 DEF Later
      <4> QED
        BY <1>8, <3>1, <4>2, <4>3 DEF Key
    <3> QED
      BY <3>2, <3>3
  <2>2. CASE /\ key \in DOMAIN table.rows
             /\ added.rows[key] = table.rows[key]
             /\ \A j \in 1..Len(rows) : RowKey(rows[j], columns) # key
    <3>1. PICK q \in Before :
             /\ Key(q) = key
             /\ table.rows[key] = NormalizeRow(Row(q), columns)
             /\ \A r \in Before : Later(r, q) => Key(r) # key
      BY <1>9, <2>2
    <3>2. ASSUME NEW r \in Now, Later(r, q) PROVE Key(r) # key
      BY <1>7, <1>8, <2>2, <3>1, <3>2 DEF Key
    <3> QED
      BY <1>7, <2>2, <3>1, <3>2
  <2> QED
    BY <1>10, <2>1, <2>2
<1>16. BuiltRows(operations, t, n + 1, added)
  BY <1>5, <1>13, <1>14, <1>15 DEF BuiltRows, Now, Row, Key
<1> QED
  BY <1>6, <1>16 DEF op, t, table, rows, added

LEMMA BuiltStep ==
    ASSUME NEW operations, WellFormed(operations), NEW n \in Nat, n + 1 \in DOMAIN operations,
           NEW p, Built(operations, n, p)
    PROVE  Built(operations, n + 1, AddOperation(p, operations[n + 1]))
<1> DEFINE op == operations[n + 1]
           table == EnsureTable(p.tables, op.table)
           added == IF IsCreate(op) THEN [columns |-> op.columns, rows |-> table.rows]
                    ELSE addFullSyncRows(table, op.rows)
           next == AddOperation(p, op)
<1>1. CASE p.failed = TRUE
  BY <1>1 DEF Built, AddOperation
<1>2. CASE p.failed = FALSE /\ IsInsert(op) /\ ~Addable(table, op.rows)
  <2>1. next.failed = TRUE
    BY <1>2 DEF AddOperation
  <2> QED
    BY <2>1 DEF Built
<1>3. CASE p.failed = FALSE /\ ~(IsInsert(op) /\ ~Addable(table, op.rows))
  <2>1. next.failed = FALSE /\ next.tables = SetEntry(p.tables, op.table, added)
    BY <1>3 DEF AddOperation
  <2>a. DOMAIN next.tables = DOMAIN p.tables \cup {op.table}
    <3>1. PICK m, t, v : m = p.tables /\ t = op.table /\ v = added
      OBVIOUS
    <3>2. DOMAIN SetEntry(m, t, v) = DOMAIN m \cup {t}
      BY EntryDomain
    <3>3. next.tables = SetEntry(m, t, v)
      BY <2>1, <3>1
    <3> QED
      BY <3>1, <3>2, <3>3
  <2>2. /\ BuiltColumns(operations, op.table, n + 1, added.columns)
        /\ BuiltRows(operations, op.table, n + 1, added)
    <3>1. CASE IsCreate(op)
      BY <1>3, <3>1, CreatedTable
    <3>2. CASE ~IsCreate(op)
      <4>1. IsInsert(op)
        BY <3>2 DEF WellFormed
      <4>2. added = addFullSyncRows(table, op.rows)
        BY <3>2
      <4> HIDE DEF added
      <4>3. /\ BuiltColumns(operations, op.table, n + 1, addFullSyncRows(table, op.rows).columns)
            /\ BuiltRows(operations, op.table, n + 1, addFullSyncRows(table, op.rows))
        BY <1>3, <4>1, FilledTable
      <4> QED
        BY <4>2, <4>3
    <3> QED
      BY <3>1, <3>2
  <2>3. DOMAIN p.tables = {operations[i].table : i \in 1..n}
        /\ \A t \in DOMAIN p.tables : /\ BuiltColumns(operations, t, n, p.tables[t].columns)
                                      /\ BuiltRows(operations, t, n, p.tables[t])
    BY <1>3 DEF Built
  <2>4. DOMAIN next.tables = {operations[i].table : i \in 1..(n + 1)}
    <3>2. 1..(n + 1) = (1..n) \cup {n + 1}
      OBVIOUS
    <3> QED
      BY <2>3, <2>a, <3>2
  <2>5. next.tables[op.table] = added
    BY <2>1, EntryIsSet
  <2>6. ASSUME NEW t \in DOMAIN p.tables, t # op.table
        PROVE  /\ BuiltColumns(operations, t, n + 1, next.tables[t].columns)
               /\ BuiltRows(operations, t, n + 1, next.tables[t])
    <3>1. next.tables[t] = p.tables[t]
      BY <2>1, <2>6, EntriesKept
    <3> QED
      BY <2>3, <2>6, <3>1, ColumnsKept, RowsKept
  <2>7. \A t \in DOMAIN next.tables : t = op.table \/ t \in DOMAIN p.tables
    BY <2>a
  <2> HIDE DEF next, added
  <2>8. ASSUME NEW t \in DOMAIN next.tables
        PROVE  /\ BuiltColumns(operations, t, n + 1, next.tables[t].columns)
               /\ BuiltRows(operations, t, n + 1, next.tables[t])
    BY <2>2, <2>5, <2>6, <2>7
  <2> QED
    BY <2>1, <2>4, <2>8 DEF Built, next
<1>4. p.failed = TRUE \/ p.failed = FALSE
  BY DEF Built
<1> QED
  BY <1>1, <1>2, <1>3, <1>4

\* The plan, when it has not failed.
BuiltPlan(operations, p) ==
    /\ Built(operations, Len(operations), p)
    /\ \A t \in DOMAIN p.tables : PrimaryKey(p.tables[t].columns) # {}

LEMMA PlanBuilt ==
    ASSUME NEW operations, WellFormed(operations)
    PROVE  LET p == buildFullSyncPlan(operations)
           IN  p.failed \in BOOLEAN /\ (~p.failed => BuiltPlan(operations, p))
<1>1. Len(operations) \in Nat
  BY DEF WellFormed
<1>2. PICK s : /\ Building(operations, Len(operations), s)
               /\ buildFullSyncPlan(operations) = Finished(s[Len(operations)])
  BY <1>1, BuiltOneByOne
<1> DEFINE S == {n \in Nat : n <= Len(operations) => Built(operations, n, s[n])}
<1>3. 0 \in S
  <2>1. s[0] = NoPlan
    BY <1>2 DEF Building
  <2>2. NoPlan.failed = FALSE /\ DOMAIN NoPlan.tables = {}
    BY DEF NoPlan
  <2>3. Built(operations, 0, NoPlan)
    BY <2>2 DEF Built
  <2> QED
    BY <2>1, <2>3
<1>4. ASSUME NEW n \in S PROVE n + 1 \in S
  <2> SUFFICES ASSUME n + 1 <= Len(operations) PROVE Built(operations, n + 1, s[n + 1])
    OBVIOUS
  <2>1. n + 1 \in 1..Len(operations) /\ (n + 1) - 1 = n /\ n \in Nat
    BY <1>1
  <2>2. s[n + 1] = AddOperation(s[n], operations[n + 1])
    BY <1>2, <2>1 DEF Building
  <2>3. Built(operations, n, s[n])
    BY <1>1
  <2>4. n + 1 \in DOMAIN operations
    BY <2>1 DEF WellFormed
  <2> HIDE DEF S
  <2> QED
    BY <2>1, <2>2, <2>3, <2>4, BuiltStep
<1>5. S = Nat
  <2> HIDE DEF S
  <2>1. S \in SUBSET Nat
    BY DEF S
  <2> QED
    BY <1>3, <1>4, <2>1, CountUp
<1>6. Built(operations, Len(operations), s[Len(operations)])
  BY <1>1, <1>5
<1> HIDE DEF S
<1> DEFINE last == s[Len(operations)]
           p == buildFullSyncPlan(operations)
<1>7. p.tables = last.tables
      /\ p.failed = (last.failed \/ \E t \in DOMAIN last.tables : PrimaryKey(last.tables[t].columns) = {})
  BY <1>2 DEF Finished
<1> HIDE DEF p, last
<1>8. last.failed \in BOOLEAN
  BY <1>6 DEF Built, last
<1>9. ASSUME ~p.failed PROVE BuiltPlan(operations, p)
  <2>1. ~last.failed /\ \A t \in DOMAIN last.tables : PrimaryKey(last.tables[t].columns) # {}
    BY <1>7, <1>9
  <2>2. /\ DOMAIN last.tables = {operations[i].table : i \in 1..Len(operations)}
        /\ \A t \in DOMAIN last.tables :
              /\ BuiltColumns(operations, t, Len(operations), last.tables[t].columns)
              /\ BuiltRows(operations, t, Len(operations), last.tables[t])
    BY <1>6, <2>1 DEF Built, last
  <2>3. p.failed = FALSE
    BY <1>7, <1>9
  <2> QED
    BY <1>7, <2>1, <2>2, <2>3 DEF Built, BuiltPlan
<1> QED
  BY <1>7, <1>8, <1>9 DEF p

-----------------------------------------------------------------------------
(* relaxPlanNullability.                                                    *)

LEMMA RelaxedOperations ==
    ASSUME NEW operations, WellFormed(operations)
    PROVE  LET relaxed == relaxPlanNullability(operations)
           IN  /\ DOMAIN relaxed = DOMAIN operations /\ Len(relaxed) = Len(operations)
               /\ \A i \in DOMAIN operations :
                     /\ IsCreate(operations[i]) =>
                           relaxed[i] = CreateOp(operations[i].table,
                                           relaxCreateTableColumns(operations[i].columns,
                                               NullableColumns(operations, operations[i].table)))
                     /\ IsInsert(operations[i]) => relaxed[i] = operations[i]
<1> DEFINE relaxed == relaxPlanNullability(operations)
<1>1. /\ DOMAIN relaxed = DOMAIN operations
      /\ \A i \in DOMAIN operations : relaxed[i] =
            IF IsCreate(operations[i])
            THEN CreateOp(operations[i].table,
                          relaxCreateTableColumns(operations[i].columns,
                                                  NullableColumns(operations, operations[i].table)))
            ELSE operations[i]
  BY DEF relaxPlanNullability
<1>2. Len(relaxed) = Len(operations)
  <2>1. DOMAIN operations = 1..Len(operations) /\ Len(operations) \in Nat
    BY DEF WellFormed
  <2>2. relaxed = [i \in 1..Len(operations) |-> relaxed[i]]
    BY <2>1 DEF relaxPlanNullability
  <2> HIDE DEF relaxed
  <2> QED
    BY <2>1, <2>2
<1>3. \A i \in DOMAIN operations : IsInsert(operations[i]) => ~IsCreate(operations[i])
  BY DEF IsInsert, IsCreate
<1> HIDE DEF relaxed
<1>4. \A i \in DOMAIN operations : IsInsert(operations[i]) => relaxed[i] = operations[i]
  BY <1>1, <1>3
<1> QED
  BY <1>1, <1>2, <1>4 DEF relaxed

LEMMA RelaxedKinds ==
    ASSUME NEW operations, WellFormed(operations), NEW i \in DOMAIN operations
    PROVE  LET relaxed == relaxPlanNullability(operations)
           IN  /\ relaxed[i].table = operations[i].table
               /\ IsCreate(relaxed[i]) <=> IsCreate(operations[i])
               /\ IsInsert(relaxed[i]) <=> IsInsert(operations[i])
<1> DEFINE relaxed == relaxPlanNullability(operations)
<1>1. CASE IsCreate(operations[i])
  <2>1. PICK columns : relaxed[i] = CreateOp(operations[i].table, columns)
    BY <1>1, RelaxedOperations
  <2>2. relaxed[i].table = operations[i].table /\ relaxed[i].op = "create"
    BY <2>1 DEF CreateOp
  <2> HIDE DEF relaxed
  <2>3. IsCreate(relaxed[i]) /\ ~IsInsert(relaxed[i]) /\ ~IsInsert(operations[i])
    BY <1>1, <2>2 DEF IsCreate, IsInsert
  <2> QED
    BY <1>1, <2>2, <2>3 DEF relaxed
<1>2. CASE ~IsCreate(operations[i])
  <2>1. relaxed[i] = operations[i]
    BY <1>2, RelaxedOperations DEF WellFormed
  <2> QED
    BY <2>1
<1> QED
  BY <1>1, <1>2

LEMMA RelaxedWellFormed ==
    ASSUME NEW operations, WellFormed(operations)
    PROVE  WellFormed(relaxPlanNullability(operations))
<1> DEFINE relaxed == relaxPlanNullability(operations)
           Relaxed(i) == relaxCreateTableColumns(operations[i].columns,
                                                 NullableColumns(operations, operations[i].table))
<1>1. Len(relaxed) \in Nat /\ DOMAIN relaxed = 1..Len(relaxed)
  BY RelaxedOperations DEF WellFormed
<1>2. DOMAIN relaxed = DOMAIN operations
  BY RelaxedOperations
<1>3. ASSUME NEW i \in DOMAIN operations, ~IsCreate(relaxed[i])
      PROVE  /\ IsInsert(relaxed[i])
             /\ Len(relaxed[i].rows) \in Nat /\ DOMAIN relaxed[i].rows = 1..Len(relaxed[i].rows)
  <2>1. IsInsert(operations[i]) /\ ~IsCreate(operations[i])
    BY <1>3, RelaxedKinds DEF WellFormed
  <2>2. relaxed[i] = operations[i]
    BY <2>1, RelaxedOperations
  <2> QED
    BY <2>1, <2>2 DEF WellFormed
<1>4. ASSUME NEW i \in DOMAIN operations, NEW j \in DOMAIN operations,
             IsCreate(relaxed[i]), IsCreate(relaxed[j]), relaxed[i].table = relaxed[j].table
      PROVE  relaxed[i].columns = relaxed[j].columns
  <2>1. IsCreate(operations[i]) /\ IsCreate(operations[j]) /\ operations[i].table = operations[j].table
    BY <1>4, RelaxedKinds
  <2>2. operations[i].columns = operations[j].columns
    BY <2>1 DEF WellFormed
  <2>3. relaxed[i].columns = Relaxed(i) /\ relaxed[j].columns = Relaxed(j)
    <3>1. relaxed[i] = CreateOp(operations[i].table, Relaxed(i))
      BY <2>1, RelaxedOperations
    <3>2. relaxed[j] = CreateOp(operations[j].table, Relaxed(j))
      BY <2>1, RelaxedOperations
    <3> HIDE DEF relaxed, Relaxed
    <3> QED
      BY <3>1, <3>2 DEF CreateOp
  <2> QED
    BY <2>1, <2>2, <2>3
<1> HIDE DEF relaxed
<1>5. WellFormed(relaxed)
  BY <1>1, <1>2, <1>3, <1>4 DEF WellFormed
<1> QED
  BY <1>5 DEF relaxed

\* The columns that rows are compared with are those of any create operation.
LEMMA ColumnsOfTable ==
    ASSUME NEW operations, WellFormed(operations),
           NEW i \in DOMAIN operations, IsCreate(operations[i])
    PROVE  TableColumns(operations, operations[i].table) = operations[i].columns
<1> DEFINE t == operations[i].table
           creates == {j \in DOMAIN operations : IsCreate(operations[j]) /\ operations[j].table = t}
<1>1. i \in creates /\ creates \in SUBSET Nat /\ \A j \in creates : j <= Len(operations)
  BY DEF WellFormed
<1>2. PICK n \in creates : \A m \in creates : m <= n
  <2> HIDE DEF creates
  <2>1. Len(operations) \in Nat /\ creates # {}
    BY <1>1 DEF WellFormed
  <2> QED
    BY <1>1, <2>1, LargestNat
<1>3. Max(creates) \in creates
  <2> HIDE DEF creates
  <2>1. \A m \in creates : n >= m
    BY <1>1, <1>2
  <2> QED
    BY <2>1 DEF Max
<1>4. TableColumns(operations, t) = operations[Max(creates)].columns
  BY <1>1 DEF TableColumns
<1>5. operations[Max(creates)].columns = operations[i].columns
  BY <1>3 DEF WellFormed
<1> QED
  BY <1>4, <1>5

-----------------------------------------------------------------------------
(* The plan of well-formed operations.                                      *)

LEMMA WholeListed ==
    ASSUME NEW operations, WellFormed(operations), NEW t
    PROVE  ListedUpTo(operations, t, Len(operations)) = Listed(operations, t)
<1>1. ASSUME NEW p \in Listed(operations, t) PROVE p[1] <= Len(operations)
  <2>1. PICK i \in DOMAIN operations : \E j \in DOMAIN operations[i].rows : p = <<i, j>>
    BY DEF Listed
  <2> QED
    BY <2>1 DEF WellFormed
<1> QED
  BY <1>1 DEF ListedUpTo

\* What the plan of operations has in its tables.
KeepsLast(operations, p) ==
    /\ DOMAIN p.tables = {op.table : op \in Range(operations)}
    /\ \A t \in DOMAIN p.tables :
          LET columns == p.tables[t].columns
              rows    == p.tables[t].rows
          IN  /\ DOMAIN rows = {RowKey(RowAt(operations, q), columns) : q \in Listed(operations, t)}
              /\ \A key \in DOMAIN rows : \E q \in Listed(operations, t) :
                    /\ RowKey(RowAt(operations, q), columns) = key
                    /\ rows[key] = NormalizeRow(RowAt(operations, q), columns)
                    /\ \A r \in Listed(operations, t) :
                          Later(r, q) => RowKey(RowAt(operations, r), columns) # key

LEMMA BuiltKeepsLast ==
    ASSUME NEW operations, WellFormed(operations), NEW p, p.failed = FALSE, BuiltPlan(operations, p)
    PROVE  KeepsLast(operations, p)
<1>1. /\ DOMAIN p.tables = {operations[i].table : i \in 1..Len(operations)}
      /\ \A t \in DOMAIN p.tables : BuiltRows(operations, t, Len(operations), p.tables[t])
  BY DEF BuiltPlan, Built
<1>2. DOMAIN p.tables = {op.table : op \in Range(operations)}
  BY <1>1 DEF Range, WellFormed
<1>3. \A t \in DOMAIN p.tables :
         LET columns == p.tables[t].columns
             rows    == p.tables[t].rows
         IN  /\ DOMAIN rows = {RowKey(RowAt(operations, q), columns) : q \in Listed(operations, t)}
             /\ \A key \in DOMAIN rows : \E q \in Listed(operations, t) :
                   /\ RowKey(RowAt(operations, q), columns) = key
                   /\ rows[key] = NormalizeRow(RowAt(operations, q), columns)
                   /\ \A r \in Listed(operations, t) :
                         Later(r, q) => RowKey(RowAt(operations, r), columns) # key
  BY <1>1, WholeListed DEF BuiltRows
<1> QED
  BY <1>2, <1>3 DEF KeepsLast

\* Rows have the columns of their table, and null only where these allow it.
Fits(p) ==
    \A t \in DOMAIN p.tables : \A row \in Range(p.tables[t].rows) :
        /\ DOMAIN row = Names(p.tables[t].columns)
        /\ \A c \in p.tables[t].columns : row[c.name] = Null => c.nullable \/ c.key

\* A column is relaxed for every null that its rows have or are filled up with.
LEMMA NullIsAllowed ==
    ASSUME NEW operations, WellFormed(operations),
           NEW i \in DOMAIN operations, IsCreate(operations[i]),
           NEW k \in DOMAIN operations, IsInsert(operations[k]),
           operations[k].table = operations[i].table,
           NEW row \in Range(operations[k].rows),
           NEW c \in operations[i].columns, c.key = FALSE,
           HasKey(row, operations[i].columns),
           c.name \in DOMAIN row => row[c.name] = Null
    PROVE  c.name \in NullableColumns(operations, operations[i].table)
<1> DEFINE t == operations[i].table
           columns == TableColumns(operations, t)
<1>1. columns = operations[i].columns
  BY ColumnsOfTable
<1>2. c.name \in NullInRow(row, columns)
  <2>1. CASE c.name \in DOMAIN row
    BY <2>1 DEF NullInRow
  <2>2. CASE c.name \notin DOMAIN row
    <3>1. c.name \in Names(columns)
      BY <1>1 DEF Names
    <3>2. c.name \notin PrimaryKey(columns)
      BY <1>1, <2>2 DEF HasKey
    <3> HIDE DEF columns
    <3> QED
      BY <2>2, <3>1, <3>2 DEF NullInRow
  <2> QED
    BY <2>1, <2>2
<1>3. operations[k] \in {op \in Range(operations) : IsInsert(op) /\ op.table = t}
  BY DEF Range
<1> QED
  BY <1>2, <1>3 DEF NullableColumns

LEMMA RelaxedKeys ==
    ASSUME NEW columns, NEW nullable
    PROVE  PrimaryKey(relaxCreateTableColumns(columns, nullable)) = PrimaryKey(columns)
<1> DEFINE relaxed == relaxCreateTableColumns(columns, nullable)
<1>1. ASSUME NEW c \in columns
      PROVE  \E r \in relaxed : r.name = c.name /\ r.key = c.key
  <2> DEFINE r == Column(c.name, c.nullable \/ (~c.key /\ c.name \in nullable), c.key)
  <2>1. r \in relaxed
    BY DEF relaxCreateTableColumns
  <2>2. r.name = c.name /\ r.key = c.key
    BY DEF Column
  <2> HIDE DEF r, relaxed
  <2> QED
    BY <2>1, <2>2
<1>2. ASSUME NEW r \in relaxed
      PROVE  \E c \in columns : r.name = c.name /\ r.key = c.key
  BY DEF relaxCreateTableColumns, Column
<1> HIDE DEF relaxed
<1>3. PrimaryKey(relaxed) = PrimaryKey(columns)
  BY <1>1, <1>2 DEF PrimaryKey
<1> QED
  BY <1>3 DEF relaxed

LEMMA BuiltFits ==
    ASSUME NEW operations, WellFormed(operations),
           \A i \in DOMAIN operations :
               IsCreate(operations[i]) => \A c \in operations[i].columns : c.key \in BOOLEAN,
           NEW p, p.failed = FALSE, BuiltPlan(relaxPlanNullability(operations), p)
    PROVE  Fits(p)
<1> DEFINE relaxed == relaxPlanNullability(operations)
<1>1. WellFormed(relaxed)
  BY RelaxedWellFormed
<1>2. DOMAIN relaxed = DOMAIN operations /\ Len(relaxed) = Len(operations)
  BY RelaxedOperations
<1> SUFFICES ASSUME NEW t \in DOMAIN p.tables, NEW row \in Range(p.tables[t].rows)
             PROVE  /\ DOMAIN row = Names(p.tables[t].columns)
                    /\ \A c \in p.tables[t].columns : row[c.name] = Null => c.nullable \/ c.key
  BY DEF Fits
<1> DEFINE columns == p.tables[t].columns
<1>3. /\ BuiltColumns(relaxed, t, Len(relaxed), columns)
      /\ BuiltRows(relaxed, t, Len(relaxed), p.tables[t])
      /\ PrimaryKey(columns) # {}
  BY DEF BuiltPlan, Built
<1>4. columns # {}
  BY <1>3 DEF PrimaryKey
<1>5. PICK i \in 1..Len(relaxed) :
         IsCreate(relaxed[i]) /\ relaxed[i].table = t /\ columns = relaxed[i].columns
  BY <1>3, <1>4 DEF BuiltColumns
<1>6. i \in DOMAIN operations
  BY <1>1, <1>2 DEF WellFormed
<1>7. IsCreate(operations[i]) /\ operations[i].table = t
  BY <1>5, <1>6, RelaxedKinds
<1> DEFINE old == operations[i].columns
           nullable == NullableColumns(operations, t)
<1>8. columns = relaxCreateTableColumns(old, nullable)
  <2>1. relaxed[i] = CreateOp(operations[i].table, relaxCreateTableColumns(old, NullableColumns(operations, operations[i].table)))
    BY <1>6, <1>7, RelaxedOperations
  <2> HIDE DEF relaxed
  <2> QED
    BY <1>5, <1>7, <2>1 DEF CreateOp
<1>9. PICK q \in ListedUpTo(relaxed, t, Len(relaxed)) : row = NormalizeRow(RowAt(relaxed, q), columns)
  BY <1>3 DEF BuiltRows, Range
<1>10. HasKey(RowAt(relaxed, q), columns)
  BY <1>3 DEF BuiltRows
<1>11. PICK k \in DOMAIN relaxed : \E j \in DOMAIN relaxed[k].rows :
          q = <<k, j>> /\ IsInsert(relaxed[k]) /\ relaxed[k].table = t
  BY <1>1, ListedPairs
<1>12. /\ k \in DOMAIN operations /\ IsInsert(operations[k])
       /\ relaxed[k] = operations[k] /\ operations[k].table = t
  BY <1>2, <1>11, RelaxedKinds, RelaxedOperations
<1> DEFINE listed == RowAt(relaxed, q)
<1>13. listed \in Range(operations[k].rows)
  BY <1>11, <1>12 DEF RowAt, Range
<1>14. DOMAIN row = Names(columns)
  BY <1>9 DEF NormalizeRow
<1>15. HasKey(listed, old)
  <2>1. PrimaryKey(columns) = PrimaryKey(old)
    BY <1>8, RelaxedKeys
  <2> QED
    BY <1>10, <2>1 DEF HasKey
<1>16. ASSUME NEW c \in columns, row[c.name] = Null PROVE c.nullable \/ c.key
  <2>1. PICK b \in old : c = Column(b.name, b.nullable \/ (~b.key /\ b.name \in nullable), b.key)
    BY <1>8 DEF relaxCreateTableColumns
  <2>2. /\ c.name = b.name /\ c.key = b.key
        /\ c.nullable = (b.nullable \/ (~b.key /\ b.name \in nullable))
    BY <2>1 DEF Column
  <2>3. b.key \in BOOLEAN
    BY <1>6, <1>7
  <2>4. CASE b.key = TRUE
    BY <2>2, <2>4
  <2>5. CASE b.key = FALSE
    <3>1. c.name \in Names(columns)
      BY DEF Names
    <3>2. row[c.name] = IF c.name \in DOMAIN listed THEN listed[c.name] ELSE Null
      BY <1>9, <3>1 DEF NormalizeRow
    <3>3. b.name \in DOMAIN listed => listed[b.name] = Null
      BY <1>16, <2>2, <3>2
    <3> HIDE DEF listed, old, nullable, columns
    <3>4. b.name \in NullableColumns(operations, operations[i].table)
      BY <1>6, <1>7, <1>12, <1>13, <1>15, <2>5, <3>3, NullIsAllowed DEF old
    <3>5. b.name \in nullable
      BY <1>7, <3>4 DEF nullable
    <3> QED
      BY <2>2, <2>5, <3>5
  <2> QED
    BY <2>3, <2>4, <2>5
<1> QED
  BY <1>14, <1>16

-----------------------------------------------------------------------------
(* References.  What the inserts of one answer refer to, they insert; so the *)
(* operations of all answers are closed, and the plan keeps a row for every  *)
(* key they list.                                                            *)

LEMMA ListedRows ==
    ASSUME NEW operations, NEW t
    PROVE  \A x : x \in RowsListed(operations, t) <=>
              \E k \in DOMAIN operations : /\ IsInsert(operations[k]) /\ operations[k].table = t
                                           /\ x \in Range(operations[k].rows)
  BY DEF RowsListed, Range

\* Longer lists of operations resolve more.
LEMMA ResolvesMore ==
    ASSUME NEW v, NEW r, NEW rows, NEW more, rows \subseteq more, Resolves(v, r, rows)
    PROVE  Resolves(v, r, more)
  BY DEF Resolves

LEMMA RangeOfBoth ==
    ASSUME NEW S, NEW a \in Seq(S), NEW b \in Seq(S)
    PROVE  Range(a \o b) = Range(a) \cup Range(b)
<1> DEFINE c == a \o b
<1>1. /\ Len(a) \in Nat /\ Len(b) \in Nat
      /\ DOMAIN a = 1..Len(a) /\ DOMAIN b = 1..Len(b) /\ DOMAIN c = 1..(Len(a) + Len(b))
      /\ \A i \in 1..Len(a) : c[i] = a[i]
      /\ \A i \in 1..Len(b) : c[Len(a) + i] = b[i]
  OBVIOUS
<1> HIDE DEF c
<1>2. ASSUME NEW i \in DOMAIN c PROVE c[i] \in Range(a) \cup Range(b)
  <2>1. CASE i <= Len(a)
    BY <1>1, <2>1 DEF Range
  <2>2. CASE i > Len(a)
    <3>1. i - Len(a) \in 1..Len(b) /\ i = Len(a) + (i - Len(a))
      BY <1>1, <2>2
    <3> QED
      BY <1>1, <3>1 DEF Range
  <2> QED
    BY <1>1, <2>1, <2>2
<1>3. ASSUME NEW i \in DOMAIN a PROVE a[i] \in Range(c)
  <2>1. i \in DOMAIN c /\ c[i] = a[i]
    BY <1>1
  <2> QED
    BY <2>1 DEF Range
<1>4. ASSUME NEW i \in DOMAIN b PROVE b[i] \in Range(c)
  <2>1. Len(a) + i \in DOMAIN c /\ c[Len(a) + i] = b[i]
    BY <1>1
  <2> QED
    BY <2>1 DEF Range
<1>5. Range(c) = Range(a) \cup Range(b)
  BY <1>2, <1>3, <1>4 DEF Range
<1> QED
  BY <1>5 DEF c

LEMMA RowsOfBoth ==
    ASSUME NEW S, NEW a \in Seq(S), NEW b \in Seq(S), NEW t
    PROVE  RowsListed(a \o b, t) = RowsListed(a, t) \cup RowsListed(b, t)
  BY RangeOfBoth DEF RowsListed

LEMMA ClosedTogether ==
    ASSUME NEW S, NEW a \in Seq(S), NEW b \in Seq(S), Closed(a), Closed(b)
    PROVE  Closed(a \o b)
<1> SUFFICES ASSUME NEW r \in Relations, NEW row \in RowsListed(a \o b, r.table),
                    r.column \in DOMAIN row, NEW v \in References(row, r.column)
             PROVE  Resolves(v, r, RowsListed(a \o b, r.target))
  BY DEF Closed
<1>1. /\ RowsListed(a \o b, r.table) = RowsListed(a, r.table) \cup RowsListed(b, r.table)
      /\ RowsListed(a \o b, r.target) = RowsListed(a, r.target) \cup RowsListed(b, r.target)
  BY RowsOfBoth
<1>2. Resolves(v, r, RowsListed(a, r.target)) \/ Resolves(v, r, RowsListed(b, r.target))
  BY <1>1 DEF Closed
<1> QED
  BY <1>1, <1>2, ResolvesMore

LEMMA CreatesAreClosed ==
    ASSUME NEW i \in DOMAIN Operations
    PROVE  Closed(Creates(Operations[i]))
<1>1. \A op \in Range(Creates(Operations[i])) : IsCreate(op)
  BY OperationsAssumption DEF Created
<1>2. \A t : RowsListed(Creates(Operations[i]), t) = {}
  BY <1>1 DEF RowsListed, IsCreate, IsInsert
<1> QED
  BY <1>2 DEF Closed

\* Relaxing columns changes no row.
LEMMA RelaxedRows ==
    ASSUME NEW operations, WellFormed(operations), NEW t
    PROVE  RowsListed(relaxPlanNullability(operations), t) = RowsListed(operations, t)
<1> DEFINE relaxed == relaxPlanNullability(operations)
<1>1. DOMAIN relaxed = DOMAIN operations
  BY RelaxedOperations
<1>2. ASSUME NEW k \in DOMAIN operations
      PROVE  /\ IsInsert(relaxed[k]) <=> IsInsert(operations[k])
             /\ IsInsert(operations[k]) => relaxed[k] = operations[k]
  BY RelaxedKinds, RelaxedOperations
<1> HIDE DEF relaxed
<1>3. \A x : x \in RowsListed(relaxed, t) <=> x \in RowsListed(operations, t)
  BY <1>1, <1>2, ListedRows
<1> QED
  BY <1>3 DEF relaxed

LEMMA ClosedWhenRelaxed ==
    ASSUME NEW operations, WellFormed(operations), Closed(operations)
    PROVE  Closed(relaxPlanNullability(operations))
<1> DEFINE relaxed == relaxPlanNullability(operations)
<1>1. \A t : RowsListed(relaxed, t) = RowsListed(operations, t)
  BY RelaxedRows
<1> HIDE DEF relaxed
<1>2. Closed(relaxed)
  BY <1>1 DEF Closed
<1> QED
  BY <1>2 DEF relaxed

LEMMA RelaxedNames ==
    ASSUME NEW columns, NEW nullable
    PROVE  Names(relaxCreateTableColumns(columns, nullable)) = Names(columns)
<1> DEFINE relaxed == relaxCreateTableColumns(columns, nullable)
<1>1. ASSUME NEW c \in columns PROVE \E r \in relaxed : r.name = c.name
  <2> DEFINE r == Column(c.name, c.nullable \/ (~c.key /\ c.name \in nullable), c.key)
  <2>1. r \in relaxed
    BY DEF relaxCreateTableColumns
  <2>2. r.name = c.name
    BY DEF Column
  <2> HIDE DEF r, relaxed
  <2> QED
    BY <2>1, <2>2
<1>2. ASSUME NEW r \in relaxed PROVE \E c \in columns : r.name = c.name
  BY DEF relaxCreateTableColumns, Column
<1> HIDE DEF relaxed
<1>3. Names(relaxed) = Names(columns)
  BY <1>1, <1>2 DEF Names
<1> QED
  BY <1>3 DEF relaxed

\* The columns of a table of the plan are those that operations create it with.
LEMMA ColumnsOfPlan ==
    ASSUME NEW operations, WellFormed(operations), Range(operations) \subseteq Created \cup Inserted,
           NEW p, p.failed = FALSE, BuiltPlan(relaxPlanNullability(operations), p),
           NEW t \in DOMAIN p.tables
    PROVE  /\ PrimaryKey(p.tables[t].columns) = KeyColumns(t)
           /\ \A op \in Created : op.table = t => Names(op.columns) = Names(p.tables[t].columns)
<1> DEFINE relaxed == relaxPlanNullability(operations)
           columns == p.tables[t].columns
<1>1. WellFormed(relaxed) /\ DOMAIN relaxed = DOMAIN operations
  BY RelaxedWellFormed, RelaxedOperations
<1>2. BuiltColumns(relaxed, t, Len(relaxed), columns) /\ PrimaryKey(columns) # {}
  BY DEF BuiltPlan, Built
<1>3. columns # {}
  BY <1>2 DEF PrimaryKey
<1>4. PICK i \in 1..Len(relaxed) :
         IsCreate(relaxed[i]) /\ relaxed[i].table = t /\ columns = relaxed[i].columns
  BY <1>2, <1>3 DEF BuiltColumns
<1>5. i \in DOMAIN operations
  BY <1>1 DEF WellFormed
<1>6. IsCreate(operations[i]) /\ operations[i].table = t
  BY <1>4, <1>5, RelaxedKinds
<1> DEFINE own == operations[i]
<1>7. own \in Created
  <2>1. own \in Created \cup Inserted
    BY <1>5 DEF Range
  <2>2. own \notin Inserted
    BY <1>6, OperationsAssumption DEF IsCreate, IsInsert
  <2> QED
    BY <2>1, <2>2
<1>8. \A op \in Created : op.table = t => op.columns = own.columns
  BY <1>6, <1>7, TablesAgree
<1>9. PICK nullable : columns = relaxCreateTableColumns(own.columns, nullable)
  <2>1. PICK nullable : relaxed[i] = CreateOp(own.table, relaxCreateTableColumns(own.columns, nullable))
    BY <1>5, <1>6, RelaxedOperations
  <2>2. relaxed[i].columns = relaxCreateTableColumns(own.columns, nullable)
    BY <2>1 DEF CreateOp
  <2> HIDE DEF relaxed, own
  <2> QED
    BY <1>4, <2>2
<1> HIDE DEF relaxed, columns
<1>10. PrimaryKey(columns) = PrimaryKey(own.columns) /\ Names(columns) = Names(own.columns)
  BY <1>9, RelaxedKeys, RelaxedNames
<1>11. KeyColumns(t) = PrimaryKey(own.columns)
  BY <1>6, <1>7, <1>8 DEF KeyColumns
<1>12. \A op \in Created : op.table = t => Names(op.columns) = Names(own.columns)
  BY <1>8
<1> QED
  BY <1>10, <1>11, <1>12 DEF columns

RowsIn(p, t) == IF t \in DOMAIN p.tables THEN Range(p.tables[t].rows) ELSE {}

Resolved(p) ==
    \A r \in Relations : \A row \in RowsIn(p, r.table) : \A v \in References(row, r.column) :
        Resolves(v, r, RowsIn(p, r.target))

ComesFrom(row, rows, columns) ==
    \E x \in rows : HasKey(x, columns) /\ row = NormalizeRow(x, columns)

\* A row of the plan is one that an operation lists, with its key.
LEMMA RowIsListed ==
    ASSUME NEW operations, WellFormed(operations), NEW p, p.failed = FALSE, BuiltPlan(operations, p),
           NEW t \in DOMAIN p.tables
    PROVE  \A row \in Range(p.tables[t].rows) :
              ComesFrom(row, RowsListed(operations, t), p.tables[t].columns)
<1> DEFINE columns == p.tables[t].columns
           rows    == p.tables[t].rows
           listed  == ListedUpTo(operations, t, Len(operations))
           K(q)    == RowKey(RowAt(operations, q), columns)
<1>1. /\ \A q \in listed : HasKey(RowAt(operations, q), columns)
      /\ DOMAIN rows = {K(q) : q \in listed}
      /\ \A key \in DOMAIN rows : \E q \in listed :
            K(q) = key /\ rows[key] = NormalizeRow(RowAt(operations, q), columns)
  BY DEF BuiltPlan, Built, BuiltRows
<1>2. ASSUME NEW q \in listed PROVE RowAt(operations, q) \in RowsListed(operations, t)
  <2>1. PICK k \in DOMAIN operations : \E j \in DOMAIN operations[k].rows :
           q = <<k, j>> /\ IsInsert(operations[k]) /\ operations[k].table = t
    BY ListedPairs
  <2>2. RowAt(operations, q) \in Range(operations[k].rows)
    BY <2>1 DEF RowAt, Range
  <2> QED
    BY <2>1, <2>2, ListedRows
<1> HIDE DEF listed, rows, columns
<1>3. ASSUME NEW row \in Range(rows)
      PROVE  \E x \in RowsListed(operations, t) : HasKey(x, columns) /\ row = NormalizeRow(x, columns)
  <2>1. PICK key \in DOMAIN rows : row = rows[key]
    BY DEF Range
  <2> QED
    BY <1>1, <1>2, <2>1
<1>4. \A row \in Range(rows) : ComesFrom(row, RowsListed(operations, t), columns)
  BY <1>3 DEF ComesFrom
<1> QED
  BY <1>4 DEF columns, rows

\* For each row that an operation lists, the plan has one with its key.
LEMMA KeyIsKept ==
    ASSUME NEW operations, WellFormed(operations), NEW p, p.failed = FALSE, BuiltPlan(operations, p),
           NEW t \in DOMAIN p.tables
    PROVE  \A x \in RowsListed(operations, t) :
              /\ HasKey(x, p.tables[t].columns)
              /\ \E y \in RowsListed(operations, t) :
                    /\ NormalizeRow(y, p.tables[t].columns) \in Range(p.tables[t].rows)
                    /\ HasKey(y, p.tables[t].columns)
                    /\ RowKey(y, p.tables[t].columns) = RowKey(x, p.tables[t].columns)
<1> DEFINE columns == p.tables[t].columns
           rows    == p.tables[t].rows
           listed  == ListedUpTo(operations, t, Len(operations))
           K(q)    == RowKey(RowAt(operations, q), columns)
<1>1. /\ \A q \in listed : HasKey(RowAt(operations, q), columns)
      /\ DOMAIN rows = {K(q) : q \in listed}
      /\ \A key \in DOMAIN rows : \E q \in listed :
            K(q) = key /\ rows[key] = NormalizeRow(RowAt(operations, q), columns)
  BY DEF BuiltPlan, Built, BuiltRows
<1>2. ASSUME NEW q \in listed PROVE RowAt(operations, q) \in RowsListed(operations, t)
  <2>1. PICK k \in DOMAIN operations : \E j \in DOMAIN operations[k].rows :
           q = <<k, j>> /\ IsInsert(operations[k]) /\ operations[k].table = t
    BY ListedPairs
  <2>2. RowAt(operations, q) \in Range(operations[k].rows)
    BY <2>1 DEF RowAt, Range
  <2> QED
    BY <2>1, <2>2, ListedRows
<1>3. ASSUME NEW x \in RowsListed(operations, t) PROVE \E q \in listed : RowAt(operations, q) = x
  <2>1. PICK k \in DOMAIN operations : /\ IsInsert(operations[k]) /\ operations[k].table = t
                                       /\ x \in Range(operations[k].rows)
    BY ListedRows
  <2>2. PICK j \in DOMAIN operations[k].rows : x = operations[k].rows[j]
    BY <2>1 DEF Range
  <2>3. k <= Len(operations)
    BY DEF WellFormed
  <2>4. <<k, j>> \in listed
    BY <2>1, <2>3, ListedPairs
  <2>5. RowAt(operations, <<k, j>>) = x
    BY <2>2 DEF RowAt
  <2> QED
    BY <2>4, <2>5
<1> HIDE DEF listed, rows, columns
<1>4. ASSUME NEW x \in RowsListed(operations, t)
      PROVE  /\ HasKey(x, columns)
             /\ \E y \in RowsListed(operations, t) :
                   /\ NormalizeRow(y, columns) \in Range(rows)
                   /\ HasKey(y, columns) /\ RowKey(y, columns) = RowKey(x, columns)
  <2>1. PICK q \in listed : RowAt(operations, q) = x
    BY <1>3
  <2>2. K(q) \in DOMAIN rows /\ HasKey(x, columns)
    BY <1>1, <2>1
  <2>3. PICK s \in listed : K(s) = K(q) /\ rows[K(q)] = NormalizeRow(RowAt(operations, s), columns)
    BY <1>1, <2>2
  <2>4. rows[K(q)] \in Range(rows)
    BY <2>2 DEF Range
  <2>5. HasKey(RowAt(operations, s), columns)
    BY <1>1
  <2> QED
    BY <1>2, <2>1, <2>2, <2>3, <2>4, <2>5
<1> QED
  BY <1>4 DEF columns, rows

LEMMA BuiltResolves ==
    ASSUME NEW operations, WellFormed(operations), Range(operations) \subseteq Created \cup Inserted,
           Closed(operations),
           NEW p, p.failed = FALSE, BuiltPlan(relaxPlanNullability(operations), p)
    PROVE  Resolved(p)
<1> DEFINE relaxed == relaxPlanNullability(operations)
<1>1. WellFormed(relaxed) /\ Closed(relaxed)
  BY RelaxedWellFormed, ClosedWhenRelaxed
<1>2. \A t \in DOMAIN p.tables :
         /\ PrimaryKey(p.tables[t].columns) = KeyColumns(t)
         /\ \A op \in Created : op.table = t => Names(op.columns) = Names(p.tables[t].columns)
  BY ColumnsOfPlan
<1>3. BuiltPlan(relaxed, p)
  OBVIOUS
<1> HIDE DEF relaxed
<1> SUFFICES ASSUME NEW r \in Relations, NEW row \in RowsIn(p, r.table),
                    NEW v \in References(row, r.column),
                    ~(v = Null /\ r.column \notin KeyColumns(r.table))
             PROVE  \E y \in RowsIn(p, r.target) :
                       \A name \in KeyColumns(r.target) : name \in DOMAIN y /\ y[name] = v
  BY DEF Resolved, Resolves
<1> DEFINE columns == p.tables[r.table].columns
<1>4. r.table \in DOMAIN p.tables /\ row \in Range(p.tables[r.table].rows)
  BY DEF RowsIn
<1>5. r.column \in Names(columns) /\ PrimaryKey(columns) = KeyColumns(r.table)
  BY <1>2, <1>4, RelationsAssumption
<1>6. PICK x \in RowsListed(relaxed, r.table) : HasKey(x, columns) /\ row = NormalizeRow(x, columns)
  <2>1. ComesFrom(row, RowsListed(relaxed, r.table), columns)
    BY <1>1, <1>3, <1>4, RowIsListed
  <2> QED
    BY <2>1 DEF ComesFrom
<1>7. row[r.column] = IF r.column \in DOMAIN x THEN x[r.column] ELSE Null
  BY <1>5, <1>6 DEF NormalizeRow
<1>8. r.column \in DOMAIN x
  <2> SUFFICES ASSUME r.column \notin DOMAIN x PROVE FALSE
    OBVIOUS
  <2>1. row[r.column] = Null
    BY <1>7
  <2>2. r.column \notin KeyColumns(r.table)
    BY <1>5, <1>6 DEF HasKey
  <2>3. Null.json # "array"
    BY DEF Null
  <2>4. References(row, r.column) = {Null}
    BY <2>1, <2>3 DEF References
  <2> QED
    BY <2>2, <2>4
<1>9. v \in References(x, r.column)
  BY <1>7, <1>8 DEF References
<1>10. Resolves(v, r, RowsListed(relaxed, r.target))
  BY <1>1, <1>8, <1>9 DEF Closed
<1>11. PICK z \in RowsListed(relaxed, r.target) :
          \A name \in KeyColumns(r.target) : name \in DOMAIN z /\ z[name] = v
  BY <1>10 DEF Resolves
<1>12. r.target \in DOMAIN p.tables
  <2>1. PICK k \in DOMAIN relaxed : relaxed[k].table = r.target
    BY <1>11, ListedRows
  <2>2. k \in 1..Len(relaxed)
    BY <1>1 DEF WellFormed
  <2> QED
    BY <1>3, <2>1, <2>2 DEF BuiltPlan, Built
<1> DEFINE others == p.tables[r.target].columns
<1>13. PrimaryKey(others) = KeyColumns(r.target)
  BY <1>2, <1>12
<1>14. PICK y \in RowsListed(relaxed, r.target) :
          /\ NormalizeRow(y, others) \in Range(p.tables[r.target].rows)
          /\ HasKey(y, others) /\ RowKey(y, others) = RowKey(z, others)
  BY <1>1, <1>3, <1>11, <1>12, KeyIsKept
<1> HIDE DEF columns, others
<1>15. ASSUME NEW name \in KeyColumns(r.target)
       PROVE  name \in DOMAIN NormalizeRow(y, others) /\ NormalizeRow(y, others)[name] = v
  <2>1. name \in PrimaryKey(others) /\ name \in Names(others)
    BY <1>13 DEF PrimaryKey, Names
  <2>2. RowKey(y, others)[name] = y[name] /\ RowKey(z, others)[name] = z[name]
    BY <2>1 DEF RowKey
  <2>3. y[name] = v
    BY <1>11, <1>14, <2>2
  <2>4. name \in DOMAIN y
    BY <1>14, <2>1 DEF HasKey
  <2> QED
    BY <2>1, <2>3, <2>4 DEF NormalizeRow
<1>16. NormalizeRow(y, others) \in RowsIn(p, r.target)
  BY <1>12, <1>14 DEF RowsIn, others
<1> QED
  BY <1>15, <1>16

-----------------------------------------------------------------------------
(* The order of the answers.  The inserts of an answer stand together among  *)
(* the operations of the plan, behind those of the answers before it.        *)

\* The parts of a list of operations, each after its start; every insert is in one.
Placed(operations, parts, start) ==
    /\ start \in [DOMAIN parts -> Nat]
    /\ \A i \in DOMAIN parts :
          /\ start[i] + Len(parts[i]) <= Len(operations)
          /\ \A j \in DOMAIN parts[i] : operations[start[i] + j] = parts[i][j]
          /\ \A h \in DOMAIN parts : h < i => start[h] + Len(parts[h]) <= start[i]
    /\ \A n \in DOMAIN operations : IsInsert(operations[n]) =>
          \E i \in DOMAIN parts : \E j \in DOMAIN parts[i] : n = start[i] + j

LEMMA PlacedNext ==
    ASSUME NEW S, NEW operations \in Seq(S), NEW parts \in Seq(Seq(S)), NEW part \in Seq(S),
           NEW start, Placed(operations, parts, start)
    PROVE  \E s : Placed(operations \o part, Append(parts, part), s)
<1> DEFINE all == operations \o part
           more == Append(parts, part)
           s == [i \in DOMAIN more |-> IF i \in DOMAIN parts THEN start[i] ELSE Len(operations)]
<1>1. /\ Len(operations) \in Nat /\ Len(part) \in Nat /\ Len(parts) \in Nat
      /\ DOMAIN operations = 1..Len(operations) /\ DOMAIN part = 1..Len(part)
      /\ DOMAIN parts = 1..Len(parts) /\ DOMAIN more = 1..(Len(parts) + 1)
      /\ \A i \in 1..Len(parts) : more[i] = parts[i] /\ parts[i] \in Seq(S)
      /\ more[Len(parts) + 1] = part
  OBVIOUS
<1>2. /\ Len(all) = Len(operations) + Len(part) /\ DOMAIN all = 1..(Len(operations) + Len(part))
      /\ \A n \in 1..Len(operations) : all[n] = operations[n]
      /\ \A n \in 1..Len(part) : all[Len(operations) + n] = part[n]
  OBVIOUS
<1>3. \A i \in DOMAIN parts : Len(parts[i]) \in Nat /\ DOMAIN parts[i] = 1..Len(parts[i])
  BY <1>1
<1> HIDE DEF all, more
<1>4. /\ DOMAIN s = DOMAIN more
      /\ \A i \in DOMAIN parts : s[i] = start[i] /\ start[i] \in Nat
      /\ s[Len(parts) + 1] = Len(operations)
  BY <1>1 DEF Placed
<1>5. s \in [DOMAIN more -> Nat]
  BY <1>1 DEF Placed
<1> HIDE DEF s
<1>6. \A i \in DOMAIN more : i \in DOMAIN parts \/ i = Len(parts) + 1
  BY <1>1
<1>7. ASSUME NEW i \in DOMAIN parts
      PROVE  /\ s[i] + Len(more[i]) <= Len(all)
             /\ \A j \in DOMAIN more[i] : all[s[i] + j] = more[i][j]
             /\ \A h \in DOMAIN more : h < i => s[h] + Len(more[h]) <= s[i]
  <2>1. more[i] = parts[i] /\ s[i] = start[i] /\ start[i] \in Nat /\ i \in 1..Len(parts)
    BY <1>1, <1>4
  <2>2. start[i] + Len(parts[i]) <= Len(operations)
    BY DEF Placed
  <2>3. ASSUME NEW j \in DOMAIN parts[i] PROVE all[start[i] + j] = parts[i][j]
    <3>1. start[i] + j \in 1..Len(operations)
      BY <1>1, <1>3, <2>1, <2>2
    <3> QED
      BY <1>2, <3>1 DEF Placed
  <2>4. ASSUME NEW h \in DOMAIN more, h < i PROVE s[h] + Len(more[h]) <= s[i]
    <3>1. h \in DOMAIN parts
      BY <1>1, <2>1, <2>4
    <3>2. more[h] = parts[h] /\ s[h] = start[h]
      BY <1>1, <1>4, <3>1
    <3> QED
      BY <2>1, <2>4, <3>1, <3>2 DEF Placed
  <2> QED
    BY <1>1, <1>2, <1>3, <2>1, <2>2, <2>3, <2>4
<1>8. ASSUME NEW i, i = Len(parts) + 1
      PROVE  /\ s[i] + Len(more[i]) <= Len(all)
             /\ \A j \in DOMAIN more[i] : all[s[i] + j] = more[i][j]
             /\ \A h \in DOMAIN more : h < i => s[h] + Len(more[h]) <= s[i]
  <2>1. more[i] = part /\ s[i] = Len(operations)
    BY <1>1, <1>4, <1>8
  <2>2. ASSUME NEW h \in DOMAIN more, h < i PROVE s[h] + Len(more[h]) <= s[i]
    <3>1. h \in DOMAIN parts
      BY <1>1, <1>8, <2>2
    <3>2. more[h] = parts[h] /\ s[h] = start[h]
      BY <1>1, <1>4, <3>1
    <3> QED
      BY <2>1, <3>1, <3>2 DEF Placed
  <2>3. s[i] + Len(more[i]) <= Len(all)
    BY <1>1, <1>2, <2>1
  <2>4. \A j \in DOMAIN part : all[Len(operations) + j] = part[j]
    BY <1>1, <1>2
  <2> QED
    BY <2>1, <2>2, <2>3, <2>4
<1>9. ASSUME NEW n \in DOMAIN all, IsInsert(all[n])
      PROVE  \E i \in DOMAIN more : \E j \in DOMAIN more[i] : n = s[i] + j
  <2>1. CASE n <= Len(operations)
    <3>1. n \in DOMAIN operations /\ all[n] = operations[n]
      BY <1>1, <1>2, <2>1
    <3>2. PICK i \in DOMAIN parts : \E j \in DOMAIN parts[i] : n = start[i] + j
      BY <1>9, <3>1 DEF Placed
    <3>3. i \in DOMAIN more /\ more[i] = parts[i] /\ s[i] = start[i]
      BY <1>1, <1>4
    <3> QED
      BY <3>2, <3>3
  <2>2. CASE n > Len(operations)
    <3> DEFINE last == Len(parts) + 1
    <3>1. n - Len(operations) \in DOMAIN part /\ n = Len(operations) + (n - Len(operations))
      BY <1>1, <1>2, <2>2
    <3>2. last \in DOMAIN more /\ more[last] = part /\ s[last] = Len(operations)
      BY <1>1, <1>4
    <3> HIDE DEF last
    <3> QED
      BY <3>1, <3>2
  <2> QED
    BY <1>1, <1>2, <2>1, <2>2
<1>10. Placed(all, more, s)
  BY <1>5, <1>6, <1>7, <1>8, <1>9 DEF Placed
<1> QED
  BY <1>10 DEF all, more

\* Operations that insert nothing change no place.
LEMMA PlacedBefore ==
    ASSUME NEW S, NEW operations \in Seq(S), NEW creates \in Seq(S), NEW parts \in Seq(Seq(S)),
           \A op \in Range(creates) : ~IsInsert(op),
           NEW start, Placed(operations, parts, start)
    PROVE  Placed(operations \o creates, parts, start)
<1> DEFINE all == operations \o creates
<1>1. /\ Len(operations) \in Nat /\ Len(creates) \in Nat
      /\ DOMAIN operations = 1..Len(operations) /\ DOMAIN creates = 1..Len(creates)
      /\ Len(all) = Len(operations) + Len(creates)
      /\ DOMAIN all = 1..(Len(operations) + Len(creates))
      /\ \A n \in 1..Len(operations) : all[n] = operations[n]
      /\ \A n \in 1..Len(creates) : all[Len(operations) + n] = creates[n]
  OBVIOUS
<1>2. \A i \in DOMAIN parts : Len(parts[i]) \in Nat /\ DOMAIN parts[i] = 1..Len(parts[i])
  <2>1. \A i \in DOMAIN parts : parts[i] \in Seq(S)
    OBVIOUS
  <2> QED
    BY <2>1
<1> HIDE DEF all
<1>3. ASSUME NEW i \in DOMAIN parts
      PROVE  /\ start[i] + Len(parts[i]) <= Len(all)
             /\ \A j \in DOMAIN parts[i] : all[start[i] + j] = parts[i][j]
  <2>1. start[i] \in Nat /\ start[i] + Len(parts[i]) <= Len(operations)
    BY DEF Placed
  <2>2. ASSUME NEW j \in DOMAIN parts[i] PROVE all[start[i] + j] = parts[i][j]
    <3>1. start[i] + j \in 1..Len(operations)
      BY <1>1, <1>2, <2>1
    <3> QED
      BY <1>1, <3>1 DEF Placed
  <2> QED
    BY <1>1, <1>2, <2>1, <2>2
<1>4. ASSUME NEW n \in DOMAIN all, IsInsert(all[n])
      PROVE  \E i \in DOMAIN parts : \E j \in DOMAIN parts[i] : n = start[i] + j
  <2>1. n \in DOMAIN operations
    <3>1. SUFFICES ASSUME n > Len(operations) PROVE FALSE
      BY <1>1
    <3>2. n - Len(operations) \in DOMAIN creates /\ all[n] = creates[n - Len(operations)]
      BY <1>1, <3>1
    <3> QED
      BY <1>4, <3>2 DEF Range
  <2> QED
    BY <1>1, <1>4, <2>1 DEF Placed
<1>5. Placed(all, parts, start)
  BY <1>3, <1>4 DEF Placed
<1> QED
  BY <1>5 DEF all

\* Relaxing columns changes no insert, and none of its places.
LEMMA PlacedWhenRelaxed ==
    ASSUME NEW operations, WellFormed(operations), NEW parts, NEW start,
           Placed(operations, parts, start),
           \A i \in DOMAIN parts : /\ Len(parts[i]) \in Nat /\ DOMAIN parts[i] = 1..Len(parts[i])
                                   /\ \A j \in DOMAIN parts[i] : IsInsert(parts[i][j])
    PROVE  Placed(relaxPlanNullability(operations), parts, start)
<1> DEFINE relaxed == relaxPlanNullability(operations)
<1>1. DOMAIN relaxed = DOMAIN operations /\ Len(relaxed) = Len(operations)
  BY RelaxedOperations
<1>2. ASSUME NEW n \in DOMAIN operations
      PROVE  /\ IsInsert(relaxed[n]) <=> IsInsert(operations[n])
             /\ IsInsert(operations[n]) => relaxed[n] = operations[n]
  BY RelaxedKinds, RelaxedOperations
<1> HIDE DEF relaxed
<1>3. ASSUME NEW i \in DOMAIN parts, NEW j \in DOMAIN parts[i]
      PROVE  relaxed[start[i] + j] = parts[i][j]
  <2>1. start[i] \in Nat /\ start[i] + Len(parts[i]) <= Len(operations)
        /\ operations[start[i] + j] = parts[i][j]
    BY DEF Placed
  <2>2. start[i] + j \in DOMAIN operations
    BY <2>1 DEF WellFormed
  <2> QED
    BY <1>2, <2>1, <2>2
<1>4. Placed(relaxed, parts, start)
  BY <1>1, <1>2, <1>3 DEF Placed
<1> QED
  BY <1>4 DEF relaxed

-----------------------------------------------------------------------------
(* The invariant: while the operations are fetched, the plan has operations *)
(* that create their tables and insert their rows; then it is what they     *)
(* make it.                                                                 *)

OperationsInv ==
    /\ turn \in DOMAIN Operations
    /\ ops \in Seq(Created \cup Inserted)
    /\ Closed(ops)

Inv ==
    \/ pc = "fetch" /\ OperationsInv
    \/ pc = "planned" /\ Fits(plan) /\ KeepsLast(ops, plan) /\ Resolved(plan)
    \/ pc = "failed"

LEMMA OperationsInOrder ==
    DOMAIN Operations = 1..Len(Operations) /\ Len(Operations) \in Nat /\ 1 \in DOMAIN Operations
<1>1. Operations \in Seq(Range(Operations)) /\ Operations # <<>>
  BY OperationsAssumption DEF IsSequence
<1> DEFINE T == Range(Operations)
<1> HIDE DEF T
<1>2. Operations \in Seq(T)
  BY <1>1 DEF T
<1> QED
  BY <1>1, <1>2

LEMMA Wider ==
    ASSUME NEW S, NEW T, S \subseteq T, NEW s \in Seq(S)
    PROVE  s \in Seq(T)
  OBVIOUS

LEMMA CreatesInCreated ==
    ASSUME NEW i \in DOMAIN Operations
    PROVE  Creates(Operations[i]) \in Seq(Created \cup Inserted)
<1> DEFINE s == Creates(Operations[i])
<1>1. s \in Seq(Range(s))
  BY OperationsAssumption DEF IsSequence
<1>2. Range(s) \subseteq Created \cup Inserted
  BY DEF Created
<1> HIDE DEF s
<1> QED
  BY <1>1, <1>2, Wider DEF s

LEMMA InsertsInInserted ==
    ASSUME NEW i \in DOMAIN Operations, NEW a \in Answers[i]
    PROVE  Inserts(Operations[i], a) \in Seq(Created \cup Inserted)
<1> DEFINE s == Inserts(Operations[i], a)
<1>1. s \in Seq(Range(s))
  BY OperationsAssumption DEF IsSequence
<1>2. Range(s) \subseteq Created \cup Inserted
  BY DEF Inserted
<1> HIDE DEF s
<1> QED
  BY <1>1, <1>2, Wider DEF s

LEMMA OperationsWellFormed ==
    ASSUME NEW s \in Seq(Created \cup Inserted)
    PROVE  /\ WellFormed(s)
           /\ \A i \in DOMAIN s : IsCreate(s[i]) => \A c \in s[i].columns : c.key \in BOOLEAN
<1>1. /\ Len(s) \in Nat /\ DOMAIN s = 1..Len(s)
      /\ \A i \in DOMAIN s : s[i] \in Created \cup Inserted
  OBVIOUS
<1>2. \A op \in Created : IsCreate(op) /\ \A c \in op.columns : c.key \in BOOLEAN
  BY OperationsAssumption
<1>3. ASSUME NEW op \in Inserted
      PROVE  /\ IsInsert(op) /\ ~IsCreate(op)
             /\ Len(op.rows) \in Nat /\ DOMAIN op.rows = 1..Len(op.rows)
  <2>1. IsInsert(op) /\ op.rows \in Seq(Range(op.rows))
    BY OperationsAssumption DEF IsSequence
  <2>2. ~IsCreate(op)
    BY <2>1 DEF IsCreate, IsInsert
  <2> DEFINE T == Range(op.rows)
             rows == op.rows
  <2> HIDE DEF T, rows
  <2>3. rows \in Seq(T)
    BY <2>1 DEF T, rows
  <2>4. Len(rows) \in Nat /\ DOMAIN rows = 1..Len(rows)
    BY <2>3
  <2> QED
    BY <2>1, <2>2, <2>4 DEF rows
<1>4. \A i \in DOMAIN s : IsCreate(s[i]) => s[i] \in Created
  BY <1>1, <1>3
<1>5. \A i, j \in DOMAIN s :
         IsCreate(s[i]) /\ IsCreate(s[j]) /\ s[i].table = s[j].table => s[i].columns = s[j].columns
  BY <1>4, TablesAgree
<1>6. \A i \in DOMAIN s :
         \/ IsCreate(s[i])
         \/ /\ IsInsert(s[i])
            /\ Len(s[i].rows) \in Nat /\ DOMAIN s[i].rows = 1..Len(s[i].rows)
  BY <1>1, <1>2, <1>3
<1>7. WellFormed(s)
  BY <1>1, <1>5, <1>6 DEF WellFormed
<1> QED
  BY <1>2, <1>4, <1>7

LEMMA InvInit == Init => Inv
<1> SUFFICES ASSUME Init PROVE Inv
  OBVIOUS
<1>1. pc = "fetch" /\ turn = 1 /\ ops = Creates(Operations[1])
  BY DEF Init
<1> QED
  BY <1>1, OperationsInOrder, CreatesInCreated, CreatesAreClosed DEF Inv, OperationsInv

LEMMA FinishedPlan == OperationsInv /\ FinishPlan => Inv'
<1> SUFFICES ASSUME OperationsInv, FinishPlan PROVE Inv'
  OBVIOUS
<1>1. /\ ops' = relaxPlanNullability(ops)
      /\ plan' = buildFullSyncPlan(ops')
      /\ pc' = IF plan'.failed THEN "failed" ELSE "planned"
  BY DEF FinishPlan
<1>2. WellFormed(ops) /\ WellFormed(ops')
      /\ \A i \in DOMAIN ops : IsCreate(ops[i]) => \A c \in ops[i].columns : c.key \in BOOLEAN
  BY <1>1, OperationsWellFormed, RelaxedWellFormed DEF OperationsInv
<1>3. plan'.failed \in BOOLEAN /\ (~plan'.failed => BuiltPlan(ops', plan'))
  BY <1>1, <1>2, PlanBuilt
<1>4. CASE plan'.failed = TRUE
  BY <1>1, <1>4 DEF Inv
<1>5. CASE plan'.failed = FALSE
  <2>1. BuiltPlan(ops', plan')
    BY <1>3, <1>5
  <2>2. Fits(plan')
    BY <1>1, <1>2, <1>5, <2>1, BuiltFits
  <2>3. KeepsLast(ops', plan')
    BY <1>2, <1>5, <2>1, BuiltKeepsLast
  <2>4. Resolved(plan')
    <3>1. Range(ops) \subseteq Created \cup Inserted
      BY DEF OperationsInv, Range
    <3> QED
      BY <1>1, <1>2, <1>5, <2>1, <3>1, BuiltResolves DEF OperationsInv
  <2>5. Fits(plan)' /\ KeepsLast(ops, plan)' /\ Resolved(plan)'
    BY <2>2, <2>3, <2>4 DEF Fits, KeepsLast, Resolved, RowsIn
  <2> QED
    BY <1>1, <1>5, <2>5 DEF Inv
<1> QED
  BY <1>3, <1>4, <1>5

LEMMA InvStep == Inv /\ [Next]_vars => Inv'
<1> SUFFICES ASSUME Inv, [Next]_vars PROVE Inv'
  OBVIOUS
<1>1. ASSUME NEW answer \in Answers[turn], ReceiveAnswer(answer) PROVE Inv'
  <2>1. OperationsInv
    BY <1>1 DEF ReceiveAnswer, Inv
  <2>2. Inserts(Operations[turn], answer) \in Seq(Created \cup Inserted)
    BY <2>1, InsertsInInserted DEF OperationsInv
  <2>3. ops' \in Seq(Created \cup Inserted) /\ turn' = turn /\ pc' = "fetch"
    BY <1>1, <2>1, <2>2 DEF ReceiveAnswer, OperationsInv
  <2>5. Closed(ops')
    <3>1. Closed(Inserts(Operations[turn], answer))
      BY <2>1, AnswersAreClosed DEF OperationsInv
    <3> QED
      BY <1>1, <2>1, <2>2, <3>1, ClosedTogether DEF ReceiveAnswer, OperationsInv
  <2>6. Closed(ops)'
    BY <2>5 DEF Closed
  <2>4. (Created \cup Inserted)' = Created \cup Inserted
    BY DEF Created, Inserted
  <2> QED
    BY <2>1, <2>3, <2>4, <2>6 DEF Inv, OperationsInv
<1>2. CASE NextOperation
  <2>1. OperationsInv
    BY <1>2 DEF NextOperation, Inv
  <2>2. turn' \in DOMAIN Operations /\ pc' = "fetch"
    BY <1>2, <2>1, OperationsInOrder DEF NextOperation, OperationsInv
  <2>3. Creates(Operations[turn']) \in Seq(Created \cup Inserted)
    BY <2>2, CreatesInCreated
  <2>4. ops' \in Seq(Created \cup Inserted)
    BY <1>2, <2>1, <2>3 DEF NextOperation, OperationsInv
  <2>5. Closed(ops')
    BY <1>2, <2>1, <2>2, <2>3, CreatesAreClosed, ClosedTogether DEF NextOperation, OperationsInv
  <2> QED
    BY <2>2, <2>4, <2>5 DEF Inv, OperationsInv, Closed
<1>3. CASE FinishPlan
  BY <1>3, FinishedPlan DEF FinishPlan, Inv
<1>4. CASE UNCHANGED vars
  BY <1>4 DEF vars, Inv, OperationsInv, Fits, KeepsLast, Resolved, RowsIn
<1> QED
  BY <1>1, <1>2, <1>3, <1>4 DEF Next

-----------------------------------------------------------------------------
(* The answers received, and where the plan has their inserts.              *)

AnswerRecords == UNION {{[operation |-> i, answer |-> a] : a \in Answers[i]} : i \in DOMAIN Operations}

PartsOf(answers) == [i \in DOMAIN answers |-> InsertsOf(answers[i])]

CreatesUpTo(n) == UNION {Range(Creates(Operations[i])) : i \in 1..n}

TablesOf(operations) == {op.table : op \in operations}

\* While the operations are fetched, the plan has the creates of those so far
\* and the inserts of their answers; the finished plan has their tables.
OrderInv ==
    /\ WellFormed(ops)
    /\ received \in Seq(AnswerRecords)
    /\ \E start : Placed(ops, PartsOf(received), start)
    /\ IF pc = "fetch"
       THEN Range(ops) = CreatesUpTo(turn) \cup InsertsIn(received)
       ELSE TablesOf(Range(ops)) = TablesOf(Created \cup InsertsIn(received))

LEMMA SameRecords == AnswerRecords' = AnswerRecords /\ Created' = Created
  BY DEF AnswerRecords, Created

LEMMA InsertsOfAnswer ==
    ASSUME NEW r \in AnswerRecords
    PROVE  /\ InsertsOf(r) \in Seq(Created \cup Inserted)
           /\ \A j \in DOMAIN InsertsOf(r) : IsInsert(InsertsOf(r)[j])
<1>1. PICK i \in DOMAIN Operations : \E a \in Answers[i] : r = [operation |-> i, answer |-> a]
  BY DEF AnswerRecords
<1>2. PICK a \in Answers[i] : r = [operation |-> i, answer |-> a]
  BY <1>1
<1>3. InsertsOf(r) = Inserts(Operations[i], a)
  BY <1>2 DEF InsertsOf
<1>4. \A op \in Range(Inserts(Operations[i], a)) : IsInsert(op)
  BY OperationsAssumption DEF Inserted
<1> QED
  BY <1>3, <1>4, InsertsInInserted DEF Range

LEMMA PartsAreInserts ==
    ASSUME NEW answers \in Seq(AnswerRecords)
    PROVE  /\ PartsOf(answers) \in Seq(Seq(Created \cup Inserted))
           /\ \A i \in DOMAIN PartsOf(answers) :
                 /\ Len(PartsOf(answers)[i]) \in Nat
                 /\ DOMAIN PartsOf(answers)[i] = 1..Len(PartsOf(answers)[i])
                 /\ \A j \in DOMAIN PartsOf(answers)[i] : IsInsert(PartsOf(answers)[i][j])
<1> DEFINE parts == PartsOf(answers)
           S == Created \cup Inserted
<1>1. DOMAIN answers = 1..Len(answers) /\ Len(answers) \in Nat
      /\ \A i \in DOMAIN answers : answers[i] \in AnswerRecords
  OBVIOUS
<1>2. DOMAIN parts = 1..Len(answers) /\ \A i \in DOMAIN parts : parts[i] = InsertsOf(answers[i])
  BY <1>1 DEF PartsOf
<1>3. \A i \in DOMAIN parts : parts[i] \in Seq(S) /\ \A j \in DOMAIN parts[i] : IsInsert(parts[i][j])
  BY <1>1, <1>2, InsertsOfAnswer
<1>4. parts = [i \in 1..Len(answers) |-> parts[i]]
  BY <1>1 DEF PartsOf
<1> HIDE DEF parts, S
<1>5. parts \in Seq(Seq(S))
  BY <1>1, <1>2, <1>3, <1>4
<1>6. \A i \in DOMAIN parts : Len(parts[i]) \in Nat /\ DOMAIN parts[i] = 1..Len(parts[i])
  BY <1>3
<1> QED
  BY <1>3, <1>5, <1>6 DEF parts, S

LEMMA AppendFacts ==
    ASSUME NEW S, NEW s \in Seq(S), NEW e \in S
    PROVE  /\ Len(s) \in Nat /\ DOMAIN s = 1..Len(s)
           /\ DOMAIN Append(s, e) = 1..(Len(s) + 1)
           /\ Append(s, e)[Len(s) + 1] = e
           /\ \A i \in 1..Len(s) : Append(s, e)[i] = s[i]
           /\ Append(s, e) = [i \in 1..(Len(s) + 1) |-> Append(s, e)[i]]
           /\ Range(Append(s, e)) = Range(s) \cup {e}
<1>1. /\ Len(s) \in Nat /\ DOMAIN s = 1..Len(s)
      /\ DOMAIN Append(s, e) = 1..(Len(s) + 1)
      /\ Append(s, e)[Len(s) + 1] = e
      /\ \A i \in 1..Len(s) : Append(s, e)[i] = s[i]
  OBVIOUS
<1>2. Append(s, e) \in Seq(S)
  OBVIOUS
<1>3. Append(s, e) = [i \in 1..(Len(s) + 1) |-> Append(s, e)[i]]
  <2> DEFINE m == Append(s, e)
  <2>1. m \in Seq(S) /\ DOMAIN m = 1..(Len(s) + 1)
    BY <1>1, <1>2
  <2> HIDE DEF m
  <2>2. m = [i \in 1..(Len(s) + 1) |-> m[i]]
    BY <2>1
  <2> QED
    BY <2>2 DEF m
<1>4. Range(Append(s, e)) = Range(s) \cup {e}
  <2>1. 1..(Len(s) + 1) = DOMAIN s \cup {Len(s) + 1}
    BY <1>1
  <2> QED
    BY <1>1, <2>1 DEF Range
<1> QED
  BY <1>1, <1>3, <1>4

LEMMA PartsOfMore ==
    ASSUME NEW answers \in Seq(AnswerRecords), NEW r \in AnswerRecords
    PROVE  PartsOf(Append(answers, r)) = Append(PartsOf(answers), InsertsOf(r))
<1> DEFINE more == Append(answers, r)
           parts == PartsOf(answers)
           one == InsertsOf(r)
           n == Len(answers)
           S == Seq(Created \cup Inserted)
<1>1. /\ n \in Nat /\ DOMAIN answers = 1..n /\ DOMAIN more = 1..(n + 1)
      /\ more[n + 1] = r /\ \A i \in 1..n : more[i] = answers[i]
  BY AppendFacts
<1>2. one \in S /\ parts \in Seq(S)
  BY InsertsOfAnswer, PartsAreInserts
<1>3. DOMAIN parts = 1..n /\ \A i \in 1..n : parts[i] = InsertsOf(answers[i])
  BY <1>1 DEF PartsOf
<1>4. PartsOf(more) = [i \in 1..(n + 1) |-> InsertsOf(more[i])]
  BY <1>1 DEF PartsOf
<1>o. one = InsertsOf(r)
  OBVIOUS
<1> HIDE DEF parts, one, more, S, n
<1>5. Len(parts) = n
  <2>1. Len(parts) \in Nat /\ DOMAIN parts = 1..Len(parts)
    BY <1>2
  <2> QED
    BY <1>1, <1>3, <2>1
<1> DEFINE longer == Append(parts, one)
<1>6. /\ longer[n + 1] = one /\ \A i \in 1..n : longer[i] = parts[i]
      /\ longer = [i \in 1..(n + 1) |-> longer[i]]
  BY <1>2, <1>5, AppendFacts
<1> HIDE DEF longer
<1>7. ASSUME NEW i \in 1..(n + 1) PROVE InsertsOf(more[i]) = longer[i]
  <2>1. CASE i = n + 1
    BY <1>1, <1>6, <1>o, <2>1
  <2>2. CASE i # n + 1
    <3>1. i \in 1..n
      BY <1>1, <2>2
    <3>2. more[i] = answers[i] /\ longer[i] = InsertsOf(answers[i])
      BY <1>1, <1>3, <1>6, <3>1
    <3> QED
      BY <3>2
  <2> QED
    BY <2>1, <2>2
<1>8. PartsOf(more) = longer
  BY <1>4, <1>6, <1>7
<1> QED
  BY <1>8 DEF more, parts, one, longer

LEMMA OrderInit == Init => OrderInv
<1> SUFFICES ASSUME Init PROVE OrderInv
  OBVIOUS
<1>1. pc = "fetch" /\ turn = 1 /\ ops = Creates(Operations[1]) /\ received = <<>>
  BY DEF Init
<1>2. 1 \in DOMAIN Operations
  BY OperationsInOrder
<1>3. WellFormed(ops)
  BY <1>1, <1>2, CreatesInCreated, OperationsWellFormed
<1>4. received \in Seq(AnswerRecords) /\ Range(received) = {}
  BY <1>1 DEF Range
<1>5. \A n \in DOMAIN ops : ~IsInsert(ops[n])
  <2>1. \A op \in Range(Creates(Operations[1])) : IsCreate(op)
    BY <1>2, OperationsAssumption DEF Created
  <2> QED
    BY <1>1, <2>1 DEF Range, IsCreate, IsInsert
<1>6. DOMAIN PartsOf(received) = {}
  BY <1>1 DEF PartsOf
<1>7. Placed(ops, PartsOf(received), [i \in {} |-> 0])
  BY <1>5, <1>6 DEF Placed
<1>8. 1..1 = {1}
  OBVIOUS
<1>9. Range(ops) = CreatesUpTo(turn) \cup InsertsIn(received)
  BY <1>1, <1>4, <1>8 DEF CreatesUpTo, InsertsIn
<1> QED
  BY <1>1, <1>3, <1>4, <1>7, <1>9 DEF OrderInv

\* An answer's inserts go behind all operations so far.
LEMMA OrderReceived ==
    ASSUME OperationsInv, OrderInv, NEW answer \in Answers[turn], ReceiveAnswer(answer)
    PROVE  OrderInv'
<1> DEFINE r == [operation |-> turn, answer |-> answer]
           S == Created \cup Inserted
<1>1. /\ pc = "fetch" /\ pc' = pc /\ turn' = turn
      /\ ops' = ops \o InsertsOf(r) /\ received' = Append(received, r)
  BY DEF ReceiveAnswer, InsertsOf
<1>2. r \in AnswerRecords
  BY DEF AnswerRecords, OperationsInv
<1> HIDE DEF r
<1>3. /\ ops \in Seq(S) /\ received \in Seq(AnswerRecords)
      /\ InsertsOf(r) \in Seq(S) /\ PartsOf(received) \in Seq(Seq(S))
  BY <1>2, InsertsOfAnswer, PartsAreInserts DEF OperationsInv, OrderInv
<1> HIDE DEF S
<1>4. received' \in Seq(AnswerRecords) /\ ops' \in Seq(S)
  BY <1>1, <1>2, <1>3
<1>5. WellFormed(ops')
  BY <1>4, OperationsWellFormed DEF S
<1>6. \E start : Placed(ops', PartsOf(received'), start)
  <2>1. PICK start : Placed(ops, PartsOf(received), start)
    BY DEF OrderInv
  <2>2. \E s : Placed(ops \o InsertsOf(r), Append(PartsOf(received), InsertsOf(r)), s)
    BY <1>3, <2>1, PlacedNext
  <2>3. PartsOf(received') = Append(PartsOf(received), InsertsOf(r))
    BY <1>1, <1>2, <1>3, PartsOfMore
  <2> QED
    BY <1>1, <2>2, <2>3
<1>7. Range(ops') = CreatesUpTo(turn') \cup InsertsIn(received')
  <2>1. Range(ops') = Range(ops) \cup Range(InsertsOf(r))
    BY <1>1, <1>3, RangeOfBoth
  <2>2. Range(received') = Range(received) \cup {r}
    BY <1>1, <1>2, <1>3, AppendFacts
  <2>3. InsertsIn(received') = InsertsIn(received) \cup Range(InsertsOf(r))
    BY <2>2 DEF InsertsIn
  <2>4. Range(ops) = CreatesUpTo(turn) \cup InsertsIn(received)
    BY <1>1 DEF OrderInv
  <2> QED
    BY <1>1, <2>1, <2>3, <2>4
<1> QED
  BY <1>1, <1>4, <1>5, <1>6, <1>7, SameRecords DEF OrderInv

\* The creates of the next operation move no insert.
LEMMA OrderNext ==
    ASSUME OperationsInv, OrderInv, NextOperation
    PROVE  OrderInv'
<1> DEFINE creates == Creates(Operations[turn + 1])
           S == Created \cup Inserted
<1>1. /\ pc = "fetch" /\ pc' = pc /\ turn' = turn + 1 /\ turn < Len(Operations)
      /\ ops' = ops \o creates /\ received' = received
  BY DEF NextOperation
<1>2. turn \in Nat /\ turn + 1 \in DOMAIN Operations
  BY <1>1, OperationsInOrder DEF OperationsInv
<1>3. \A op \in Range(creates) : ~IsInsert(op)
  BY <1>2, OperationsAssumption DEF Created, IsCreate, IsInsert
<1>4. creates \in Seq(S)
  BY <1>2, CreatesInCreated
<1> HIDE DEF creates
<1>5. ops \in Seq(S) /\ received \in Seq(AnswerRecords) /\ PartsOf(received) \in Seq(Seq(S))
  BY PartsAreInserts DEF OperationsInv, OrderInv
<1> HIDE DEF S
<1>6. ops' \in Seq(S)
  BY <1>1, <1>4, <1>5
<1>7. WellFormed(ops')
  BY <1>6, OperationsWellFormed DEF S
<1>8. \E start : Placed(ops', PartsOf(received), start)
  <2>1. PICK start : Placed(ops, PartsOf(received), start)
    BY DEF OrderInv
  <2> QED
    BY <1>1, <1>3, <1>4, <1>5, <2>1, PlacedBefore
<1>9. Range(ops') = CreatesUpTo(turn') \cup InsertsIn(received)
  <2>1. Range(ops') = Range(ops) \cup Range(creates)
    BY <1>1, <1>4, <1>5, RangeOfBoth
  <2>2. 1..turn' = (1..turn) \cup {turn + 1}
    BY <1>1, <1>2
  <2>3. CreatesUpTo(turn') = CreatesUpTo(turn) \cup Range(creates)
    BY <2>2 DEF CreatesUpTo, creates
  <2>4. Range(ops) = CreatesUpTo(turn) \cup InsertsIn(received)
    BY <1>1 DEF OrderInv
  <2> QED
    BY <2>1, <2>3, <2>4
<1> QED
  BY <1>1, <1>5, <1>7, <1>8, <1>9, SameRecords DEF OrderInv

\* Finishing the plan moves nothing and leaves out no table.
LEMMA OrderFinished ==
    ASSUME OperationsInv, OrderInv, FinishPlan
    PROVE  OrderInv'
<1>1. /\ pc = "fetch" /\ pc' # "fetch" /\ turn = Len(Operations)
      /\ ops' = relaxPlanNullability(ops) /\ received' = received
  BY DEF FinishPlan
<1>2. WellFormed(ops) /\ WellFormed(ops') /\ received \in Seq(AnswerRecords)
  BY <1>1, RelaxedWellFormed DEF OrderInv
<1>3. \E start : Placed(ops', PartsOf(received), start)
  <2>1. PICK start : Placed(ops, PartsOf(received), start)
    BY DEF OrderInv
  <2> QED
    BY <1>1, <1>2, <2>1, PartsAreInserts, PlacedWhenRelaxed
<1>4. TablesOf(Range(ops')) = TablesOf(Range(ops))
  <2>1. DOMAIN ops' = DOMAIN ops
    BY <1>1, <1>2, RelaxedOperations
  <2>2. \A i \in DOMAIN ops : ops'[i].table = ops[i].table
    BY <1>1, <1>2, RelaxedKinds
  <2> QED
    BY <2>1, <2>2 DEF TablesOf, Range
<1>5. Range(ops) = Created \cup InsertsIn(received)
  <2>1. 1..turn = DOMAIN Operations
    BY <1>1, OperationsInOrder
  <2>2. CreatesUpTo(turn) = Created
    BY <2>1 DEF CreatesUpTo, Created
  <2> QED
    BY <1>1, <2>2 DEF OrderInv
<1>6. TablesOf(Range(ops')) = TablesOf(Created \cup InsertsIn(received'))
  BY <1>1, <1>4, <1>5
<1> QED
  BY <1>1, <1>2, <1>3, <1>6, SameRecords DEF OrderInv

LEMMA OrderStep == Inv /\ OrderInv /\ [Next]_vars => OrderInv'
<1> SUFFICES ASSUME Inv, OrderInv, [Next]_vars PROVE OrderInv'
  OBVIOUS
<1>1. ASSUME NEW answer \in Answers[turn], ReceiveAnswer(answer) PROVE OrderInv'
  BY <1>1, OrderReceived DEF Inv, ReceiveAnswer
<1>2. CASE NextOperation
  BY <1>2, OrderNext DEF Inv, NextOperation
<1>3. CASE FinishPlan
  BY <1>3, OrderFinished DEF Inv, FinishPlan
<1>4. CASE UNCHANGED vars
  BY <1>4, SameRecords DEF vars, OrderInv
<1> QED
  BY <1>1, <1>2, <1>3, <1>4 DEF Next

\* The place of an answered row among the rows that the plan's operations list.
PlaceOf(start, q) == <<start[q.page] + q.place[1], q.place[2]>>

LEMMA AnsweredRows ==
    ASSUME NEW t
    PROVE  \A q : q \in Answered(t) <=>
              \E i \in DOMAIN received : \E j \in DOMAIN InsertsOf(received[i]) :
                 \E k \in DOMAIN InsertsOf(received[i])[j].rows :
                    /\ IsInsert(InsertsOf(received[i])[j]) /\ InsertsOf(received[i])[j].table = t
                    /\ q = [page |-> i, place |-> <<j, k>>,
                            row |-> InsertsOf(received[i])[j].rows[k]]
<1>1. ASSUME NEW i \in DOMAIN received
      PROVE  \A p : p \in Listed(InsertsOf(received[i]), t) <=>
                \E j \in DOMAIN InsertsOf(received[i]) :
                   \E k \in DOMAIN InsertsOf(received[i])[j].rows :
                      /\ IsInsert(InsertsOf(received[i])[j]) /\ InsertsOf(received[i])[j].table = t
                      /\ p = <<j, k>>
  BY DEF Listed
<1>2. \A q : q \in Answered(t) <=>
         \E i \in DOMAIN received : \E p \in Listed(InsertsOf(received[i]), t) :
             q = [page |-> i, place |-> p, row |-> RowAt(InsertsOf(received[i]), p)]
  BY DEF Answered
<1>3. \A i, j, k : RowAt(InsertsOf(received[i]), <<j, k>>) = InsertsOf(received[i])[j].rows[k]
  BY DEF RowAt
<1> QED
  BY <1>1, <1>2, <1>3

LEMMA AnsweredIsListed ==
    ASSUME OrderInv, NEW start, Placed(ops, PartsOf(received), start), NEW t,
           NEW q \in Answered(t)
    PROVE  PlaceOf(start, q) \in Listed(ops, t) /\ RowAt(ops, PlaceOf(start, q)) = q.row
<1>1. PICK i \in DOMAIN received : \E j \in DOMAIN InsertsOf(received[i]) :
         \E k \in DOMAIN InsertsOf(received[i])[j].rows :
            /\ IsInsert(InsertsOf(received[i])[j]) /\ InsertsOf(received[i])[j].table = t
            /\ q = [page |-> i, place |-> <<j, k>>, row |-> InsertsOf(received[i])[j].rows[k]]
  BY AnsweredRows
<1>2. PICK part : part = InsertsOf(received[i])
  OBVIOUS
<1>3. PICK j \in DOMAIN part : \E k \in DOMAIN part[j].rows :
         /\ IsInsert(part[j]) /\ part[j].table = t
         /\ q = [page |-> i, place |-> <<j, k>>, row |-> part[j].rows[k]]
  BY <1>1, <1>2
<1>4. PICK k \in DOMAIN part[j].rows :
         /\ IsInsert(part[j]) /\ part[j].table = t
         /\ q = [page |-> i, place |-> <<j, k>>, row |-> part[j].rows[k]]
  BY <1>3
<1>5. i \in DOMAIN PartsOf(received) /\ PartsOf(received)[i] = part
  BY <1>2 DEF PartsOf
<1>6. Len(part) \in Nat /\ DOMAIN part = 1..Len(part)
  BY <1>5, PartsAreInserts DEF OrderInv
<1>7. /\ start[i] \in Nat /\ start[i] + Len(part) <= Len(ops)
      /\ ops[start[i] + j] = part[j]
  BY <1>5 DEF Placed
<1>8. start[i] + j \in DOMAIN ops
  BY <1>6, <1>7 DEF OrderInv, WellFormed
<1>9. PlaceOf(start, q) = <<start[i] + j, k>> /\ q.row = part[j].rows[k]
  BY <1>4 DEF PlaceOf
<1>10. PlaceOf(start, q) \in Listed(ops, t)
  BY <1>4, <1>7, <1>8, <1>9 DEF Listed
<1> QED
  BY <1>7, <1>9, <1>10 DEF RowAt

LEMMA ListedIsAnswered ==
    ASSUME OrderInv, NEW start, Placed(ops, PartsOf(received), start), NEW t,
           NEW p \in Listed(ops, t)
    PROVE  \E q \in Answered(t) : PlaceOf(start, q) = p
<1>1. PICK n \in DOMAIN ops : \E k \in DOMAIN ops[n].rows :
         p = <<n, k>> /\ IsInsert(ops[n]) /\ ops[n].table = t
  BY DEF Listed
<1>2. PICK k \in DOMAIN ops[n].rows : p = <<n, k>> /\ IsInsert(ops[n]) /\ ops[n].table = t
  BY <1>1
<1>3. PICK i \in DOMAIN PartsOf(received) : \E j \in DOMAIN PartsOf(received)[i] : n = start[i] + j
  BY <1>2 DEF Placed
<1>4. PICK part : part = InsertsOf(received[i])
  OBVIOUS
<1>5. i \in DOMAIN received /\ PartsOf(received)[i] = part
  BY <1>4 DEF PartsOf
<1>6. PICK j \in DOMAIN part : n = start[i] + j
  BY <1>3, <1>5
<1>7. ops[n] = part[j]
  BY <1>5, <1>6 DEF Placed
<1> DEFINE q == [page |-> i, place |-> <<j, k>>, row |-> part[j].rows[k]]
<1>8. q \in Answered(t)
  BY <1>2, <1>4, <1>5, <1>7, AnsweredRows
<1>9. PlaceOf(start, q) = p
  BY <1>2, <1>6 DEF PlaceOf
<1> QED
  BY <1>8, <1>9

\* A newer answer's row has a later place.
LEMMA NewerIsLater ==
    ASSUME OrderInv, NEW start, Placed(ops, PartsOf(received), start), NEW t,
           NEW q \in Answered(t), NEW s \in Answered(t), Newer(s, q)
    PROVE  Later(PlaceOf(start, s), PlaceOf(start, q))
<1> DEFINE Part(x) == PartsOf(received)[x.page]
<1>1. ASSUME NEW x \in Answered(t)
      PROVE  /\ x.page \in DOMAIN PartsOf(received) /\ x.page \in Nat
             /\ x.place[1] \in 1..Len(Part(x)) /\ Len(Part(x)) \in Nat
             /\ start[x.page] \in Nat
             /\ PlaceOf(start, x)[1] = start[x.page] + x.place[1]
             /\ PlaceOf(start, x)[2] = x.place[2]
  <2>1. PICK i \in DOMAIN received : \E j \in DOMAIN InsertsOf(received[i]) :
           x.page = i /\ x.place[1] = j
    BY AnsweredRows
  <2>2. x.page \in DOMAIN received /\ x.place[1] \in DOMAIN InsertsOf(received[x.page])
    BY <2>1
  <2>3. x.page \in DOMAIN PartsOf(received) /\ Part(x) = InsertsOf(received[x.page])
    BY <2>2 DEF PartsOf
  <2>4. Len(Part(x)) \in Nat /\ DOMAIN Part(x) = 1..Len(Part(x))
    BY <2>3, PartsAreInserts DEF OrderInv
  <2>5. x.page \in Nat
    BY <2>2 DEF OrderInv
  <2>6. start[x.page] \in Nat
    BY <2>3 DEF Placed
  <2> QED
    BY <2>2, <2>3, <2>4, <2>5, <2>6 DEF PlaceOf
<1>2. CASE s.page > q.page
  <2>1. start[q.page] + Len(Part(q)) <= start[s.page]
    BY <1>1, <1>2 DEF Placed
  <2>2. PICK a, b, c, d, m : /\ a = start[q.page] /\ b = start[s.page] /\ c = q.place[1]
                             /\ d = s.place[1] /\ m = Len(Part(q))
    OBVIOUS
  <2>3. a \in Nat /\ b \in Nat /\ m \in Nat /\ c \in 1..m /\ d \in Nat /\ d >= 1
    BY <1>1, <2>2
  <2>4. a + m <= b
    BY <2>1, <2>2
  <2>5. b + d > a + c
    BY <2>3, <2>4
  <2> QED
    BY <1>1, <2>2, <2>5 DEF Later
<1>3. CASE s.page = q.page /\ Later(s.place, q.place)
  <2>1. start[s.page] = start[q.page]
    BY <1>3
  <2>2. CASE s.place[1] > q.place[1]
    <3>1. PICK a, c, d : a = start[q.page] /\ c = q.place[1] /\ d = s.place[1]
      OBVIOUS
    <3>2. a \in Nat /\ c \in Nat /\ d \in Nat
      BY <1>1, <3>1
    <3>3. a + d > a + c
      BY <2>2, <3>1, <3>2
    <3> QED
      BY <1>1, <2>1, <3>1, <3>3 DEF Later
  <2>3. CASE s.place[1] = q.place[1] /\ s.place[2] > q.place[2]
    BY <1>1, <2>1, <2>3 DEF Later
  <2> QED
    BY <1>3, <2>2, <2>3 DEF Later
<1> QED
  BY <1>2, <1>3 DEF Newer

\* What the operations of the plan list last is what the newest answer lists last.
LEMMA NewestStays == Inv /\ OrderInv => LastListedStays
<1> SUFFICES ASSUME Inv, OrderInv, Planned PROVE LastListedStays
  BY DEF LastListedStays
<1>1. KeepsLast(ops, plan)
  BY DEF Inv, Planned
<1>2. DOMAIN plan.tables = {op.table : op \in Created \cup InsertsIn(received)}
  <2>1. DOMAIN plan.tables = TablesOf(Range(ops))
    BY <1>1 DEF KeepsLast, TablesOf
  <2>2. TablesOf(Range(ops)) = TablesOf(Created \cup InsertsIn(received))
    BY DEF OrderInv, Planned
  <2> QED
    BY <2>1, <2>2 DEF TablesOf
<1>3. PICK start : Placed(ops, PartsOf(received), start)
  BY DEF OrderInv
<1>4. ASSUME NEW t \in DOMAIN plan.tables
      PROVE  LET rows     == plan.tables[t].rows
                 answered == Answered(t)
                 Key(q)   == RowKey(q.row, plan.tables[t].columns)
             IN  /\ DOMAIN rows = {Key(q) : q \in answered}
                 /\ \A key \in DOMAIN rows : \E q \in answered :
                       /\ Key(q) = key
                       /\ rows[key] = NormalizeRow(q.row, plan.tables[t].columns)
                       /\ \A s \in answered : Newer(s, q) => Key(s) # key
  <2> DEFINE columns == plan.tables[t].columns
             rows == plan.tables[t].rows
  <2>1. /\ DOMAIN rows = {RowKey(RowAt(ops, p), columns) : p \in Listed(ops, t)}
        /\ \A key \in DOMAIN rows : \E p \in Listed(ops, t) :
              /\ RowKey(RowAt(ops, p), columns) = key
              /\ rows[key] = NormalizeRow(RowAt(ops, p), columns)
              /\ \A r \in Listed(ops, t) : Later(r, p) => RowKey(RowAt(ops, r), columns) # key
    BY <1>1 DEF KeepsLast
  <2> HIDE DEF columns, rows
  <2>2. \A q \in Answered(t) : /\ PlaceOf(start, q) \in Listed(ops, t)
                               /\ RowAt(ops, PlaceOf(start, q)) = q.row
    BY <1>3, AnsweredIsListed
  <2>3. \A p \in Listed(ops, t) : \E q \in Answered(t) : PlaceOf(start, q) = p
    BY <1>3, ListedIsAnswered
  <2>4. DOMAIN rows = {RowKey(q.row, columns) : q \in Answered(t)}
    <3>1. ASSUME NEW p \in Listed(ops, t) PROVE \E q \in Answered(t) : q.row = RowAt(ops, p)
      BY <2>2, <2>3
    <3>2. {RowKey(RowAt(ops, p), columns) : p \in Listed(ops, t)}
             = {RowKey(q.row, columns) : q \in Answered(t)}
      BY <2>2, <3>1
    <3> QED
      BY <2>1, <3>2
  <2>5. ASSUME NEW key \in DOMAIN rows
        PROVE  \E q \in Answered(t) :
                  /\ RowKey(q.row, columns) = key
                  /\ rows[key] = NormalizeRow(q.row, columns)
                  /\ \A s \in Answered(t) : Newer(s, q) => RowKey(s.row, columns) # key
    <3>1. PICK p \in Listed(ops, t) :
             /\ RowKey(RowAt(ops, p), columns) = key
             /\ rows[key] = NormalizeRow(RowAt(ops, p), columns)
             /\ \A r \in Listed(ops, t) : Later(r, p) => RowKey(RowAt(ops, r), columns) # key
      BY <2>1
    <3>2. PICK q \in Answered(t) : PlaceOf(start, q) = p
      BY <2>3
    <3>3. q.row = RowAt(ops, p)
      BY <2>2, <3>2
    <3>4. ASSUME NEW s \in Answered(t), Newer(s, q) PROVE RowKey(s.row, columns) # key
      <4>1. Later(PlaceOf(start, s), p)
        BY <1>3, <3>2, <3>4, NewerIsLater
      <4> QED
        BY <2>2, <3>1, <4>1
    <3> QED
      BY <3>1, <3>3, <3>4
  <2> QED
    BY <2>4, <2>5 DEF columns, rows
<1> QED
  BY <1>2, <1>4 DEF LastListedStays

-----------------------------------------------------------------------------
THEOREM Invariance == Spec => []Inv
  BY InvInit, InvStep, PTL DEF Spec

(* buildFullSyncPlan, relaxPlanNullability: whatever the operations answer,  *)
(* the rows of a plan that is built have exactly the columns of their table, *)
(* and null only where the table that the plan creates allows it.            *)
THEOREM RowsFit == Spec => []RowsFitTables
<1>1. Inv => RowsFitTables
  BY DEF Inv, Fits, RowsFitTables, Planned, Rows
<1> QED
  BY Invariance, <1>1, PTL

(* buildFullSyncPlan: a plan that is built reloads every table that an       *)
(* operation creates, with one row for each key that an answer of the cycle  *)
(* lists, and this is the last one of the newest answer that lists the key.  *)
THEOREM LastListed == Spec => []LastListedStays
<1>1. Spec => []OrderInv
  <2>1. Inv /\ OrderInv /\ [Next]_vars => OrderInv'
    BY OrderStep
  <2> QED
    BY Invariance, OrderInit, <2>1, PTL DEF Spec
<1> QED
  BY Invariance, <1>1, NewestStays, PTL

(* processRecord, buildFullSyncPlan: whatever pages and operations a plan    *)
(* merges, a row of it stores no key of another row that the plan does not   *)
(* write; what an answer refers to, the same answer has (AnswersAreClosed).  *)
THEOREM ReferencesHold == Spec => []ReferencesResolve
<1>1. Inv => ReferencesResolve
  BY DEF Inv, Resolved, RowsIn, ReferencesResolve, Planned, Rows
<1> QED
  BY Invariance, <1>1, PTL
=============================================================================
