---------------------------- MODULE PlanOperations ----------------------------
(***************************************************************************)
(* What plans are made of: JSON values, and the operations that create     *)
(* tables and insert rows.  A row is a function from some of the columns   *)
(* to values.                                                              *)
(***************************************************************************)

(* JSON values. A text is abstract, and prints as itself. *)

Null      == [json |-> "null"]
Scalar(v) == [json |-> "scalar", value |-> v]
Array(s)  == [json |-> "array", items |-> s]
Object(f) == [json |-> "object", fields |-> f]

IsObject(v) == v.json = "object"

(* Operations. *)

Column(name, nullable, key) == [name |-> name, nullable |-> nullable, key |-> key]
CreateOp(table, columns)    == [op |-> "create", table |-> table, columns |-> columns]
InsertOp(table, rows)       == [op |-> "insert", table |-> table, rows |-> rows]

IsCreate(op) == op.op = "create"
IsInsert(op) == op.op = "insert"
=============================================================================
