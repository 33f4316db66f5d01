----------------------------- MODULE CycleRecords -----------------------------
(***************************************************************************)
(* CycleData with the operators of Extraction: what the documents that the *)
(* API answers contain, and what of it is in the plan.                     *)
(***************************************************************************)
EXTENDS CycleData, Extraction

\* An operation is [schema, table]; table is used where nothing is marked.
Unmarked(o) == ExtractionPlan(o.schema) = <<>>

\* The schema of an operation, its records marked if nothing is.
TableSchema(o) ==
    IF ~Unmarked(o) THEN o.schema
    ELSE LET marked == ObjectSchema(o.table[1], ItemSchema(o.schema).props)
         IN  IF o.schema.type = "array" THEN ArraySchema(marked) ELSE marked

NodesOf(o) == Range(ExtractionPlan(TableSchema(o)))
AllNodes   == UNION {NodesOf(o) : o \in Range(Operations)}

\* buildOperationExtractionPlan: a marked schema has one key, and a table one
\* schema; the code asks the second only within an operation.
ASSUME MarkedSchemas ==
    /\ \A n \in AllNodes : \E p \in Keys(n.schema) : Keys(n.schema) = {p}
    /\ \A m, n \in AllNodes : m.table = n.table => m.schema = n.schema

\* What this module's properties need beyond that, and the code does not ask:
\* between two marked schemas, and above the first, there is no unmarked array
\* (ResolveByPath does not enter one), and between two no unmarked object (the
\* child is looked up in it by the property of the outermost).
RECURSIVE Direct(_, _)
Direct(schema, above) ==
    CASE schema.type = "object" ->
            /\ schema.table = "" /\ above = "marked" => ExtractionPlan(schema) = <<>>
            /\ \A p \in Range(schema.props) :
                  Direct(p.schema, IF IsMarked(schema) THEN "marked" ELSE above)
      [] schema.type = "array" ->
            IF IsMarked(schema.items) THEN Direct(schema.items, above)
            ELSE ExtractionPlan(schema) = <<>>
      [] OTHER -> TRUE

ASSUME MarkedDirectly == \A o \in Range(Operations) : Direct(o.schema, "nothing")

\* The relations of an operation: the columns that hold keys of other tables.
RelationsOf(o) ==
    LET nodes == ExtractionPlan(o.schema)
        Parent(i) == nodes[nodes[i].parent].table
        Relation(table, column, target) == [table |-> table, column |-> column, target |-> target]
    IN  UNION {IF IsLink(nodes, i)
               THEN {Relation(LinkTable(nodes, i), "parent", Parent(i)),
                     Relation(LinkTable(nodes, i), "child", nodes[i].table)}
               ELSE {Relation(Parent(i), nodes[i].prop, nodes[i].table)} :
                  i \in {i \in DOMAIN nodes : nodes[i].parent # 0}}

AllRelations == UNION {RelationsOf(o) : o \in Range(Operations)}

-----------------------------------------------------------------------------
(* What the documents contain, read off the schemas without the plan.       *)

RECURSIVE Records(_, _, _)

\* The records at the marked places: their schema, and whether an array holds them.
Records(schema, value, inArray) ==
    CASE schema.type = "array" /\ value.json = "array" ->
            UNION {Records(schema.items, v, TRUE) : v \in Range(value.items)}
      [] schema.type = "array" /\ value.json # "array" /\ IsMarked(schema.items) ->
            Records(schema.items, value, TRUE)
      [] schema.type = "object" /\ IsObject(value) ->
            (IF IsMarked(schema)
             THEN {[schema |-> schema, fields |-> value.fields, inArray |-> inArray]} ELSE {})
            \cup UNION {Records(p.schema, value.fields[p.name], FALSE) :
                           p \in {p \in Range(schema.props) : p.name \in DOMAIN value.fields}}
      [] OTHER -> {}

RecordsOf(r) == Records(TableSchema(Operations[r.operation]), r.answer, FALSE)
Keyed(r)     == KeyOf(r.schema) \in DOMAIN r.fields
Key(r)       == r.fields[KeyOf(r.schema)]
TableOf(r)   == <<r.schema.table>>
AllRecords   == UNION {RecordsOf(r) : r \in Range(received)}

\* The records below a record, in its arrays of marked objects.
Below(r) ==
    UNION {Records(p.schema, r.fields[p.name], FALSE) :
              p \in {p \in Range(r.schema.props) : p.schema.type = "array" /\ p.name \in DOMAIN r.fields}}

Linked == {<<r, c>> \in AllRecords \X AllRecords :
              r.inArray /\ c \in Below(r) /\ Keyed(r) /\ Keyed(c) /\ Key(c) # Null}

-----------------------------------------------------------------------------
(* Properties *)

KeyColumn(t) == CHOOSE name \in PrimaryKey(plan.tables[t].columns) : TRUE
RowKeys(t)   == {row[KeyColumn(t)] : row \in Rows(t)}
Expected(t)  == {Key(r) : r \in {r \in AllRecords : TableOf(r) = t /\ Keyed(r)}}

\* Nothing is lost between the answers and the plan: a table has one row for
\* each key that a record of its schema has anywhere in any answer, a link
\* table has each pair of a record and a record below it, and both have no
\* others.  The values that keys publish to the operations further on are keys
\* of such rows.  One record without its key fails the whole plan, but only
\* where nothing is marked.
KeylessUnmarked ==
    \E r \in Range(received) :
        /\ Unmarked(Operations[r.operation])
        /\ \E x \in RecordsOf(r) : ~Keyed(x) /\ \E p \in Range(x.schema.props) :
                                                   p.name \in DOMAIN x.fields

EveryRecordKept ==
    /\ pc = "failed" => KeylessUnmarked
    /\ Planned =>
        /\ ~KeylessUnmarked
        /\ \A n \in AllNodes : RowKeys(n.table) = Expected(n.table)
        /\ \A t \in DOMAIN plan.tables : Len(t) = 2 =>
              Rows(t) = {[parent |-> Key(l[1]), child |-> Key(l[2])] :
                            l \in {l \in Linked : TableOf(l[1]) \o TableOf(l[2]) = t}}
        /\ \A n \in AllNodes : \A p \in Keys(n.schema) : p.schema.publishes # "" =>
              {v[2] : v \in {v \in values : v[1] = p.schema.publishes}} \subseteq
                  UNION {RowKeys(m.table) : m \in AllNodes}

\* A full sync leaves in a row what the last page that lists its key says,
\* also when an earlier page or another operation says something else.
Scalars(r) ==
    [name \in {p.name : p \in ScalarProps(r.schema)} |->
        IF name \in DOMAIN r.fields THEN r.fields[name] ELSE Null]

ListedIn(i, t, key) ==
    {r \in RecordsOf(received[i]) : TableOf(r) = t /\ Keyed(r) /\ Key(r) = key}

LastPageWins ==
    Planned =>
        \A n \in AllNodes : \A row \in Rows(n.table) :
            LET key    == row[KeyColumn(n.table)]
                pages  == {i \in DOMAIN received : ListedIn(i, n.table, key) # {}}
                newest == CHOOSE i \in pages : \A j \in pages : j <= i
            IN  \E r \in ListedIn(newest, n.table, key) :
                    Scalars(r) = [name \in DOMAIN Scalars(r) |-> row[name]]
=============================================================================
