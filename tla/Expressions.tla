---------------------------- MODULE Expressions -----------------------------
(***************************************************************************)
(* Bound expressions (expression/) and the schemas they are resolved in    *)
(* (catalog/schema.rs).  A schema is the sequence of its columns, a tuple  *)
(* the sequence of its values; the schema of a tuple is that of the plan   *)
(* that made it.  The name of a table, qualified or not, is the sequence   *)
(* of its parts.  Whether a column is nullable plays no part in queries    *)
(* and is left out.                                                        *)
(***************************************************************************)
EXTENDS Scalars, Sequences, SequencesExt

Column(rel, name, type) == [rel |-> rel, name |-> name, type |-> type]

(***************************************************************************)
(* Schemas.                                                                *)
(***************************************************************************)

(* The parts that both names have are equal, from the table backwards. *)
ResolvedEq(r, s) ==
  \A i \in 0..(IF Len(r) < Len(s) THEN Len(r) ELSE Len(s)) - 1 :
    r[Len(r) - i] = s[Len(s) - i]

(* The place of the first column that matches, or 0. *)
IndexOf(schema, rel, name) ==
  SelectInSeq(schema, LAMBDA c :
    c.name = name /\ (rel # Null => c.rel # Null /\ ResolvedEq(rel, c.rel)))

(* Schema::new panics on two columns of one name. *)
NewSchema(cols) ==
  IF \E i, j \in DOMAIN cols :
       /\ i < j /\ cols[i].name = cols[j].name
       /\ \/ cols[i].rel = Null /\ cols[j].rel = Null
          \/ cols[i].rel # Null /\ cols[j].rel # Null /\ ResolvedEq(cols[i].rel, cols[j].rel)
  THEN Err ELSE cols

(* A tuple of NULLs. *)
EmptyTuple(schema) == [i \in DOMAIN schema |-> Scalar(TypeOf(schema[i].type), Null)]

(***************************************************************************)
(* Expressions.                                                            *)
(***************************************************************************)

ColumnExpr(rel, name) == [expr |-> "Column", rel |-> rel, name |-> name]
Literal(v)            == [expr |-> "Literal", value |-> v]
Binary(op, l, r)      == [expr |-> "Binary", op |-> op, left |-> l, right |-> r]
Alias(e, name)        == [expr |-> "Alias", of |-> e, name |-> name]
AggregateFunction(kind, args, distinct) ==
  [expr |-> "Aggregate", kind |-> kind, args |-> args, distinct |-> distinct]

IsAggregate(e) == e.expr = "Aggregate"

(* A sequence of results, or an error if one of them is. *)
Collect(results) == IF Err \in ToSet(results) THEN Err ELSE results

Comparisons == {"Gt", "Lt", "GtEq", "LtEq", "Eq", "NotEq"}

(* The other operators cannot be evaluated yet. *)
EvaluateBinary(op, l, r) ==
  IF Err \in {l, r} THEN Err
  ELSE IF op = "And" THEN And(l, r)
  ELSE IF op \in Comparisons THEN Compare(op, l, r) ELSE Err

RECURSIVE Evaluate(_, _, _)
Evaluate(e, schema, tuple) ==
  CASE e.expr = "Column" ->
         LET i == IndexOf(schema, e.rel, e.name) IN IF i \in DOMAIN tuple THEN tuple[i] ELSE Err
    [] e.expr = "Literal" -> e.value
    [] e.expr = "Alias" -> Evaluate(e.of, schema, tuple)
    [] e.expr = "Aggregate" ->
         IF e.args = <<>> THEN Err ELSE Evaluate(e.args[1], schema, tuple)
    [] e.expr = "Binary" ->
         EvaluateBinary(e.op, Evaluate(e.left, schema, tuple), Evaluate(e.right, schema, tuple))

EvaluateAll(exprs, schema, tuple) ==
  Collect([i \in DOMAIN exprs |-> Evaluate(exprs[i], schema, tuple)])

(* The type of a value of the expression.  The arithmetic operators panic. *)
RECURSIVE ExprType(_, _)
ExprType(e, schema) ==
  CASE e.expr = "Column" ->
         LET i == IndexOf(schema, e.rel, e.name) IN IF i = 0 THEN Err ELSE schema[i].type
    [] e.expr = "Literal" -> e.value.type
    [] e.expr = "Alias" -> ExprType(e.of, schema)
    [] e.expr = "Aggregate" -> IF e.kind = "Count" THEN "Int64" ELSE "Float64"
    [] e.expr = "Binary" ->
         IF Err \in {ExprType(e.left, schema), ExprType(e.right, schema)} THEN Err
         ELSE IF e.op \in Comparisons \cup {"And", "Or"} THEN "Boolean" ELSE Err

(* The text of an expression; an aggregate shows its function alone. *)
Display(e) ==
  CASE e.expr = "Aggregate" -> e.kind
    [] e.expr \in {"Column", "Alias"} -> e.name
    [] OTHER -> ToString(e)

ToColumn(e, schema) ==
  LET t == ExprType(e, schema)
  IN  IF t = Err THEN Err
      ELSE Column(IF e.expr # "Column" THEN Null
                  ELSE IF e.rel # Null THEN e.rel
                  ELSE schema[IndexOf(schema, Null, e.name)].rel,
                  Display(e), t)

(* The schema that expressions over a schema have. *)
ToSchema(exprs, schema) ==
  LET cols == Collect([i \in DOMAIN exprs |-> ToColumn(exprs[i], schema)])
  IN  IF cols = Err THEN Err ELSE NewSchema(cols)

(* An expression that the input already computes becomes a column of it. *)
RECURSIVE ColumnizeExpr(_, _)
ColumnizeExpr(e, schema) ==
  CASE e.expr = "Column" -> e
    [] e.expr = "Alias" ->
         LET inner == ColumnizeExpr(e.of, schema)
         IN  IF inner = Err THEN Err ELSE Alias(inner, e.name)
    [] OTHER ->
         LET i == IndexOf(schema, Null, Display(e))
         IN  IF i = 0 THEN Err ELSE ColumnExpr(schema[i].rel, Display(e))
=============================================================================
