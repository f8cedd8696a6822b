--------------------------- MODULE LogicalPlanner ---------------------------
(***************************************************************************)
(* From syntax trees to logical plans (planner/logical_planner/): SELECT.  *)
(* The parser is a library; a syntax tree is a record of what the planner  *)
(* reads of it.  A catalog is a function from <<schema, table>> to tables. *)
(* Panics of the planner count as errors.                                  *)
(***************************************************************************)
EXTENDS LogicalPlan, Folds

DefaultSchema == "public"

(***************************************************************************)
(* Names and expressions.                                                  *)
(***************************************************************************)

TableReference(parts) == IF Len(parts) \in 1..3 THEN parts ELSE Err

(* Where the catalog looks for a table: it does not ask for the catalog's  *)
(* name.                                                                   *)
CatalogKey(ref) ==
  <<IF Len(ref) = 1 THEN DefaultSchema ELSE ref[Len(ref) - 1], ref[Len(ref)]>>

(* A number is an i64 if it parses as one, else an f64 (a number carries   *)
(* the first of the two types that its text parses as); NULL is an Int8.   *)
BindValue(sql) ==
  CASE sql.of = "Number" ->
         IF sql.parses = Err THEN Err ELSE Literal(Scalar(sql.parses, sql.value))
    [] sql.of = "Boolean" -> Literal(Scalar("Boolean", sql.value))
    [] sql.of = "Null"    -> Literal(Scalar("Int8", Null))
    [] sql.of = "SingleQuotedString" -> Literal(Scalar("Varchar", sql.value))
    [] OTHER -> Err

RECURSIVE BindExpr(_)
BindExpr(sql) ==
  CASE sql.sql = "Identifier" ->
         LET n == Len(sql.parts)
         IN  IF n \notin 1..4 THEN Err
             ELSE ColumnExpr(IF n = 1 THEN Null ELSE SubSeq(sql.parts, 1, n - 1), sql.parts[n])
    [] sql.sql = "Value" -> BindValue(sql)
    [] sql.sql = "BinaryOp" ->
         LET l == BindExpr(sql.left)
             r == BindExpr(sql.right)
         IN  IF Err \in {l, r} THEN Err ELSE Binary(sql.op, l, r)
    [] sql.sql = "Function" ->
         LET args == Collect([i \in DOMAIN sql.args |-> BindExpr(sql.args[i])])
         IN  IF sql.name \notin {"Count", "Avg"} \/ args = Err THEN Err
             ELSE AggregateFunction(sql.name, args, sql.distinct)
    [] OTHER -> Err

BindAll(sqls) == Collect([i \in DOMAIN sqls |-> BindExpr(sqls[i])])

BindOrderByExpr(o) ==
  LET e == BindExpr(o.of) IN IF e = Err THEN Err ELSE [of |-> e, asc |-> o.asc]

(* One expression for an item, or all columns for a wildcard. *)
BindSelectItem(item, schema) ==
  IF item.item = "Wildcard"
  THEN [i \in DOMAIN schema |-> ColumnExpr(schema[i].rel, schema[i].name)]
  ELSE LET e == BindExpr(item.of)
       IN  IF e = Err THEN Err
           ELSE <<IF item.item = "Alias" THEN Alias(e, item.name) ELSE e>>

BindSelectItems(items, schema) ==
  LET bound == Collect([i \in DOMAIN items |-> BindSelectItem(items[i], schema)])
  IN  IF bound = Err THEN Err ELSE FlattenSeq(bound)

(***************************************************************************)
(* SELECT.                                                                 *)
(***************************************************************************)

PlanCrossJoin(left, right) ==
  IF Err \in {left, right} THEN Err
  ELSE Join("Cross", Null, BuildJoinSchema(SchemaOf(left), SchemaOf(right)), left, right)

PlanJoin(left, right, on, kind) ==
  LET e == IF on = Null THEN Err ELSE BindExpr(on)
  IN  IF Err \in {left, right, e} THEN Err
      ELSE Join(kind, e, BuildJoinSchema(SchemaOf(left), SchemaOf(right)), left, right)

PlanSelection(input, where) ==
  IF input = Err \/ where = Null THEN input
  ELSE LET e == BindExpr(where) IN IF e = Err THEN Err ELSE Filter(e, input)

(* Aggregates inside of an alias are not looked for. *)
PlanAggregate(input, select) ==
  IF input = Err THEN Err
  ELSE LET exprs  == BindSelectItems(select.items, SchemaOf(input))
           groups == BindAll(select.group)
       IN  IF Err \in {exprs, groups} THEN Err
           ELSE LET aggs   == SelectSeq(exprs, IsAggregate)
                    schema == ToSchema(aggs \o groups, SchemaOf(input))
                IN  IF aggs = <<>> /\ groups = <<>> THEN input
                    ELSE IF schema = Err THEN Err ELSE Aggregate(groups, aggs, schema, input)

PlanProject(input, select) ==
  IF input = Err THEN Err
  ELSE LET exprs == BindSelectItems(select.items, SchemaOf(input))
       IN  IF exprs = Err THEN Err
           ELSE LET cols == [i \in DOMAIN exprs |->
                               LET c == ColumnizeExpr(exprs[i], SchemaOf(input))
                               IN  IF c = Err THEN exprs[i] ELSE c]
                    schema == ToSchema(cols, SchemaOf(input))
                IN  IF schema = Err THEN Err ELSE Project(cols, schema, input)

PlanOrderBy(input, order) ==
  IF input = Err \/ order = <<>> THEN input
  ELSE LET keys == Collect([i \in DOMAIN order |-> BindOrderByExpr(order[i])])
       IN  IF keys = Err THEN Err ELSE Sort(keys, Null, input)

(* The number in LIMIT and OFFSET: a literal that is not negative. *)
Count(sql) ==
  LET e == BindExpr(sql)
  IN  IF e = Err THEN Err
      ELSE IF e.expr # "Literal" THEN Err
      ELSE IF e.value.type # "Int64" THEN Err
      ELSE IF e.value.v < 0 THEN Err ELSE e.value.v

PlanLimit(input, limit, offset) ==
  IF input = Err \/ (limit = Null /\ offset = Null) THEN input
  ELSE LET n == IF limit = Null THEN Null ELSE Count(limit)
           k == IF offset = Null THEN 0 ELSE Count(offset)
       IN  IF n = Err \/ k = Err THEN Err ELSE Limit(n, k, input)

RECURSIVE PlanQuery(_, _)

(* A table, a join in parentheses, or a subquery. *)
RECURSIVE PlanTableWithJoins(_, _)
PlanRelation(rel, catalog) ==
  CASE rel.rel = "Table" ->
         LET ref == TableReference(rel.parts)
         IN  IF ref = Err THEN Err
             ELSE IF CatalogKey(ref) \notin DOMAIN catalog THEN Err
             ELSE TableScan(ref, catalog[CatalogKey(ref)].schema)
    [] rel.rel = "NestedJoin" -> PlanTableWithJoins(rel.of, catalog)
    [] rel.rel = "Derived" -> PlanQuery(rel.of, catalog)
    [] OTHER -> Err

PlanRelationJoin(left, join, catalog) ==
  LET right == PlanRelation(join.rel, catalog)
  IN  CASE join.kind \in {"Inner", "LeftOuter", "RightOuter", "FullOuter"} ->
             PlanJoin(left, right, join.on, join.kind)
        [] join.kind = "Cross" -> PlanCrossJoin(left, right)
        [] OTHER -> Err

PlanTableWithJoins(t, catalog) ==
  FoldLeft(LAMBDA left, join : PlanRelationJoin(left, join, catalog),
           PlanRelation(t.of, catalog), t.joins)

PlanFromTables(from, catalog) ==
  IF from = <<>> THEN EmptyRelation(TRUE, <<>>)
  ELSE FoldLeft(LAMBDA left, t : PlanCrossJoin(left, PlanTableWithJoins(t, catalog)),
                PlanTableWithJoins(Head(from), catalog), Tail(from))

PlanSelect(select, catalog) ==
  PlanProject(PlanAggregate(PlanSelection(PlanFromTables(select.from, catalog), select.where),
                            select), select)

(* The schema of VALUES is replaced by INSERT; on its own it has none. *)
PlanValues(rows) ==
  LET bound == Collect([i \in DOMAIN rows |-> BindAll(rows[i])])
  IN  IF bound = Err THEN Err ELSE Values(bound, <<>>)

PlanSetExpr(body, catalog) ==
  CASE body.body = "Select" -> PlanSelect(body, catalog)
    [] body.body = "Values" -> PlanValues(body.rows)
    [] OTHER -> Err

PlanQuery(query, catalog) ==
  PlanLimit(PlanOrderBy(PlanSetExpr(query.body, catalog), query.order),
            query.limit, query.offset)
=============================================================================
