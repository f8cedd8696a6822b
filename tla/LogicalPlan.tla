---------------------------- MODULE LogicalPlan -----------------------------
(***************************************************************************)
(* Logical plans (planner/logical_plan/): trees of records.  A limit that  *)
(* is not given is Null.                                                   *)
(***************************************************************************)
EXTENDS Expressions

TableScan(table, schema)  == [op |-> "TableScan", table |-> table, schema |-> schema]
Filter(predicate, input)  == [op |-> "Filter", predicate |-> predicate, input |-> input]
Limit(limit, offset, input) ==
  [op |-> "Limit", limit |-> limit, offset |-> offset, input |-> input]
Sort(keys, limit, input)  == [op |-> "Sort", keys |-> keys, limit |-> limit, input |-> input]
Values(rows, schema)      == [op |-> "Values", rows |-> rows, schema |-> schema]
EmptyRelation(one, schema) == [op |-> "EmptyRelation", one |-> one, schema |-> schema]
Project(exprs, schema, input) ==
  [op |-> "Project", exprs |-> exprs, schema |-> schema, input |-> input]
Join(kind, condition, schema, left, right) ==
  [op |-> "Join", kind |-> kind, condition |-> condition, schema |-> schema,
   left |-> left, right |-> right]
Aggregate(groups, aggs, schema, input) ==
  [op |-> "Aggregate", groups |-> groups, aggs |-> aggs, schema |-> schema, input |-> input]

RECURSIVE SchemaOf(_)
SchemaOf(plan) ==
  IF plan.op \in {"Filter", "Limit", "Sort"} THEN SchemaOf(plan.input) ELSE plan.schema

Inputs(plan) ==
  IF plan.op \in {"Filter", "Limit", "Project", "Sort", "Aggregate"} THEN <<plan.input>>
  ELSE IF plan.op = "Join" THEN <<plan.left, plan.right>>
  ELSE <<>>

(* The right input of a join becomes the first of the new inputs too. *)
WithNewInputs(plan, inputs) ==
  IF plan.op = "Join" THEN [plan EXCEPT !.left = Head(inputs), !.right = Head(inputs)]
  ELSE IF inputs = <<>> THEN plan
  ELSE [plan EXCEPT !.input = Head(inputs)]

(* The columns of both sides; only their nullability depends on the kind. *)
BuildJoinSchema(left, right) == left \o right
=============================================================================
