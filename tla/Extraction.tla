------------------------------ MODULE Extraction ------------------------------
(***************************************************************************)
(* From an answer of the API to the operations of a plan: which tables an  *)
(* operation owns, which rows an answer has for them, and which values it  *)
(* publishes (buildOperationExtractionPlan, buildInsertOpsForPayload and   *)
(* extractResponseDataFrom... of internal/core/service.go).                *)
(*                                                                         *)
(* The schema of an answer is a tree.  A schema with a table is marked by  *)
(* x-table-name; what is below it relates to it.  A table is named by a    *)
(* sequence: <<t>>, or <<t, u>> for the table that links t and u.          *)
(***************************************************************************)
EXTENDS Integers, Sequences, SequencesExt, PlanOperations

-----------------------------------------------------------------------------
(* Schemas. props is in the order of the names; publishes is the id of an   *)
(* x-response-data extension or "".                                         *)

ScalarSchema(publishes)    == [type |-> "scalar", pk |-> FALSE, publishes |-> publishes]
KeySchema(publishes)       == [type |-> "scalar", pk |-> TRUE, publishes |-> publishes]
ObjectSchema(table, props) == [type |-> "object", table |-> table, props |-> props, publishes |-> ""]
ArraySchema(items)         == [type |-> "array", items |-> items, publishes |-> ""]
Prop(name, required, schema) == [name |-> name, required |-> required, schema |-> schema]

IsMarked(schema) == schema.type = "object" /\ schema.table # ""
Keys(schema) == {p \in Range(schema.props) : p.schema.type = "scalar" /\ p.schema.pk}
ScalarProps(schema) == {p \in Range(schema.props) : p.schema.type = "scalar"}

\* getSinglePK: a specification is accepted only if there is exactly one.
KeyOf(schema) == (CHOOSE p \in Keys(schema) : TRUE).name

-----------------------------------------------------------------------------
(* buildOperationExtractionPlan: the marked schemas, in the order in which  *)
(* they are met; parent is the place of the marked schema around, or 0.     *)

Node(schema, kind, access, parent, prop) ==
    [schema |-> schema, table |-> <<schema.table>>, kind |-> kind, access |-> access,
     parent |-> parent, prop |-> prop]

RECURSIVE Walk(_, _, _, _, _)

\* Below an unmarked object the property of the parent stays the outermost one.
WalkProps(nodes, schema, access, parent, prop) ==
    FoldLeft(LAMBDA ns, p : Walk(ns, p.schema, Append(access, p.name), parent,
                                 IF IsMarked(schema) THEN p.name ELSE prop),
             nodes, schema.props)

Walk(nodes, schema, access, parent, prop) ==
    LET Register(s, kind) ==
            WalkProps(Append(nodes, Node(s, kind, access, parent, prop)), s, access,
                      Len(nodes) + 1, prop)
    IN  CASE IsMarked(schema) -> Register(schema, "object")
          [] schema.type = "object" /\ ~IsMarked(schema) ->
                WalkProps(nodes, schema, access, parent, prop)
          [] schema.type = "array" ->
                IF IsMarked(schema.items) THEN Register(schema.items, "array")
                ELSE Walk(nodes, schema.items, access, parent, prop)
          [] OTHER -> nodes

ExtractionPlan(schema) == Walk(<<>>, schema, <<>>, 0, "")

Places(nodes) == [i \in DOMAIN nodes |-> i]
Children(nodes, n) == SelectSeq(Places(nodes), LAMBDA i : nodes[i].parent = n)

\* Arrays in arrays get a table of their own; the parent refers to other children.
IsLink(nodes, i) ==
    /\ nodes[i].parent # 0
    /\ nodes[i].kind = "array" /\ nodes[nodes[i].parent].kind = "array"

LinkTable(nodes, i) == nodes[nodes[i].parent].table \o nodes[i].table

-----------------------------------------------------------------------------
(* buildOperationCreateOps: the operation's tables and their columns.       *)

\* A relation column for each child that is not linked.
CreateNodeTable(nodes, n) ==
    CreateOp(nodes[n].table,
             {Column(p.name, ~p.required, p.schema.pk) : p \in ScalarProps(nodes[n].schema)}
             \cup {Column(nodes[i].prop, TRUE, FALSE) :
                      i \in {i \in Range(Children(nodes, n)) : ~IsLink(nodes, i)}})

CreateLinkTable(nodes, i) ==
    CreateOp(LinkTable(nodes, i), {Column("parent", FALSE, TRUE), Column("child", FALSE, TRUE)})

CreateClassicTable(schema, table) ==
    CreateOp(table, {Column(p.name, ~p.required, p \in Keys(schema)) : p \in Range(schema.props)})

ItemSchema(schema) == IF schema.type = "array" THEN schema.items ELSE schema

\* The first schema of a table stands for all; the name of the response schema
\* is the table when nothing is marked.
CreateOps(operation) ==
    LET nodes == ExtractionPlan(operation.schema)
        own   == SelectSeq(Places(nodes), LAMBDA i : \A j \in 1..(i - 1) :
                                nodes[j].table # nodes[i].table)
        links == SelectSeq(Places(nodes), LAMBDA i : IsLink(nodes, i) /\
                                \A j \in 1..(i - 1) : IsLink(nodes, j) =>
                                    LinkTable(nodes, j) # LinkTable(nodes, i))
    IN  IF nodes = <<>>
        THEN <<CreateClassicTable(ItemSchema(operation.schema), operation.table)>>
        ELSE [k \in DOMAIN own |-> CreateNodeTable(nodes, own[k])]
             \o [k \in DOMAIN links |-> CreateLinkTable(nodes, links[k])]

-----------------------------------------------------------------------------
(* buildInsertOpsFromMarkedPlan. The context ctx remembers the keys of the  *)
(* rows inserted from this answer, those of the link rows, and the inserts. *)

uniqueValues(s) == FoldLeft(LAMBDA seen, v : IF Contains(seen, v) THEN seen ELSE Append(seen, v),
                            <<>>, s)

ResolveByPath(value, path) ==
    FoldLeft(LAMBDA v, step : IF IsObject(v) /\ step \in DOMAIN v.fields THEN v.fields[step]
                              ELSE Null,
             value, path)

recordInsertedRow(ctx, table, key) == <<table, key>> \in ctx.inserted

InsertRow(ctx, table, key, row) ==
    IF recordInsertedRow(ctx, table, key) THEN ctx
    ELSE [ctx EXCEPT !.inserted = @ \cup {<<table, key>>},
                     !.ops = IF DOMAIN row = {} THEN @ ELSE Append(@, InsertOp(table, <<row>>))]

InsertLinkOfChild(ctx, table, key, child) ==   \* mutant: a child is linked to one parent only
    IF \E l \in ctx.linked : l[1] = table /\ l[3] = child THEN ctx
    ELSE [ctx EXCEPT !.linked = @ \cup {<<table, key, child>>},
                     !.ops = Append(@, InsertOp(table, <<[parent |-> key, child |-> child]>>))]

InsertLink(ctx, table, key, child) ==
    IF <<table, key, child>> \in ctx.linked THEN ctx
    ELSE [ctx EXCEPT !.linked = @ \cup {<<table, key, child>>},
                     !.ops = Append(@, InsertOp(table, <<[parent |-> key, child |-> child]>>))]

Found(ctx, keys) == [ctx |-> ctx, keys |-> keys]

RECURSIVE processNode(_, _, _, _)

\* One child: its own rows first; its keys go into the row, or are linked after it.
ProcessChild(nodes, record, acc, c) ==
    LET prop  == nodes[c].prop
        found == IF prop \in DOMAIN record THEN processNode(nodes, c, record[prop], acc.ctx)
                 ELSE Found(acc.ctx, <<>>)
        ref   == IF nodes[c].kind = "array" THEN Array(found.keys) ELSE Head(found.keys)
    IN  CASE found.keys = <<>> -> [acc EXCEPT !.ctx = found.ctx]
          [] found.keys # <<>> /\ IsLink(nodes, c) ->
                [acc EXCEPT !.ctx = found.ctx, !.links = Append(@, <<c, found.keys>>)]
          [] OTHER -> [acc EXCEPT !.ctx = found.ctx, !.row = (prop :> ref) @@ @]

\* A record without its key is left out, though its children are not; a null
\* key is inserted, and not referred to.
processRecord(nodes, n, record, ctx) ==
    LET scalars  == {p.name : p \in ScalarProps(nodes[n].schema)}
        row      == [name \in scalars \cap DOMAIN record |-> record[name]]
        done     == FoldLeft(LAMBDA acc, c : ProcessChild(nodes, record, acc, c),
                             [ctx |-> ctx, row |-> row, links |-> <<>>], Children(nodes, n))
        key      == record[KeyOf(nodes[n].schema)]
        inserted == InsertRow(done.ctx, nodes[n].table, key, done.row)
        linked   == FoldLeft(LAMBDA cx, l : FoldLeft(LAMBDA cy, child :
                                 InsertLink(cy, LinkTable(nodes, l[1]), key, child), cx, l[2]),
                             inserted, done.links)
    IN  IF KeyOf(nodes[n].schema) \notin DOMAIN record THEN Found(done.ctx, <<>>)
        ELSE Found(linked, IF key = Null THEN <<>> ELSE <<key>>)

ObjectItems(raw) == SelectSeq(IF raw.json = "array" THEN raw.items ELSE <<raw>>, IsObject)

\* A single object is accepted in place of an array, not the other way round.
processNode(nodes, n, raw, ctx) ==
    LET items == IF nodes[n].kind = "object" /\ ~IsObject(raw) THEN <<>> ELSE ObjectItems(raw)
        found == FoldLeft(LAMBDA f, item : LET g == processRecord(nodes, n, item.fields, f.ctx)
                                           IN  Found(g.ctx, f.keys \o g.keys),
                          Found(ctx, <<>>), items)
    IN  Found(found.ctx, uniqueValues(found.keys))

MarkedInsertOps(nodes, answer) ==
    FoldLeft(LAMBDA ctx, n : processNode(nodes, n, ResolveByPath(answer, nodes[n].access), ctx).ctx,
             [inserted |-> {}, linked |-> {}, ops |-> <<>>], Children(nodes, 0)).ops

-----------------------------------------------------------------------------
(* Answers of an operation without marks: one table, its columns only.      *)

parseJSONRecords(answer) ==
    CASE IsObject(answer) -> <<answer>>
      [] answer.json = "array" /\ \A v \in Range(answer.items) : IsObject(v) \/ v = Null ->
            SelectSeq(answer.items, IsObject)
      [] OTHER -> <<>>

ClassicInsertOps(schema, table, answer) ==
    LET names == {p.name : p \in Range(ItemSchema(schema).props)}
        Row(record) == [name \in names \cap DOMAIN record.fields |-> record.fields[name]]
        records == SelectSeq(parseJSONRecords(answer), LAMBDA r : DOMAIN Row(r) # {})
    IN  IF records = <<>> THEN <<>>
        ELSE <<InsertOp(table, [i \in DOMAIN records |-> Row(records[i])])>>

InsertOps(operation, answer) ==
    LET nodes == ExtractionPlan(operation.schema)
    IN  IF nodes = <<>> THEN ClassicInsertOps(operation.schema, operation.table, answer)
        ELSE MarkedInsertOps(nodes, answer)

-----------------------------------------------------------------------------
(* extractResponseDataFromData, ...FromMarkedData: published <<id, value>>. *)

PublishedBy(props, fields) ==
    {<<p.schema.publishes, fields[p.name]>> :
        p \in {p \in Range(props) : p.name \in DOMAIN fields /\ p.schema.publishes # ""}}

RECURSIVE MarkedPublished(_, _)
MarkedPublished(schema, value) ==
    CASE schema.type = "array" /\ value.json = "array" ->
            UNION {MarkedPublished(schema.items, v) : v \in Range(value.items)}
      [] schema.type = "object" /\ IsObject(value) ->
            PublishedBy(schema.props, value.fields)
            \cup UNION {MarkedPublished(p.schema, value.fields[p.name]) :
                           p \in {p \in Range(schema.props) : p.name \in DOMAIN value.fields}}
      [] OTHER -> {}

\* Both are applied, whether anything is marked or not.
Published(operation, answer) ==
    UNION {PublishedBy(ItemSchema(operation.schema).props, r.fields) :
              r \in Range(parseJSONRecords(answer))}
    \cup MarkedPublished(operation.schema, answer)
=============================================================================
