------------------------------- MODULE Query --------------------------------
(***************************************************************************)
(* A query from its syntax tree to its rows (Database::run): planning, the *)
(* rules of the optimizer one by one, the executors, and the engine that   *)
(* calls next until the end or the first error.  The plan may then be used *)
(* again, as the tests of the executors do: next is called behind the end, *)
(* and init starts the plan anew.                                          *)
(***************************************************************************)
EXTENDS Executors, LogicalOptimizer

CONSTANTS
  Contexts,  \* what the database may hold, see Executors
  Queries,   \* syntax trees to run
  Plans,     \* logical plans to run that no syntax tree has
  Workers,   \* the values of set_parallelism
  MaxRuns,   \* bound: runs of one plan
  MaxCalls   \* bound: calls of next behind the end

VARIABLES
  c, workers,      \* the database and its parallelism
  query,           \* the syntax tree, or Null
  plan, original,  \* the logical plan, now and as it was planned
  rule,            \* the next rule, counted over all passes
  node,            \* the physical plan
  rows, result,    \* the rows so far; "running", "ok" or "error"
  runs, calls,     \* runs of the plan, calls behind the end
  phase            \* "plan", "optimize", "execute" or "done"

vars == <<c, workers, query, plan, original, rule, node, rows, result, runs, calls, phase>>

Init ==
  /\ c \in Contexts /\ workers \in Workers
  /\ (c.cyclic => workers > 1)
  /\ \/ query \in Queries /\ plan = Null /\ phase = "plan"
     \/ plan \in Plans /\ query = Null /\ phase = "optimize"
  /\ original = plan /\ rule = 1 /\ node = Null
  /\ rows = <<>> /\ result = "running" /\ runs = 0 /\ calls = 0

Plan ==
  /\ phase = "plan"
  /\ plan' = PlanQuery(query, c.tables) /\ original' = plan'
  /\ IF plan' = Err THEN phase' = "done" /\ result' = "error"
     ELSE phase' = "optimize" /\ UNCHANGED result
  /\ UNCHANGED <<c, workers, query, rule, node, rows, runs, calls>>

(* optimize: every pass tries the rules in their order. *)
Optimize ==
  /\ phase = "optimize" /\ rule <= MaxPasses * Len(Rules)
  /\ plan' = ApplyRule(Rules[((rule - 1) % Len(Rules)) + 1], plan)
  /\ rule' = rule + 1
  /\ UNCHANGED <<c, workers, query, original, node, rows, result, runs, calls, phase>>

Start(n) ==
  /\ node' = Open(n)
  /\ rows' = <<>> /\ result' = "running" /\ runs' = runs + 1 /\ calls' = 0 /\ phase' = "execute"
  /\ UNCHANGED <<c, workers, query, plan, original, rule>>

CreatePhysicalPlan ==
  /\ phase = "optimize" /\ rule > MaxPasses * Len(Rules)
  /\ Start(BuildPlan(plan, workers, c))

Execute ==
  /\ phase = "execute"
  /\ \E r \in {Next(node, c)} :
       /\ node' = r.node
       /\ CASE r.out = Err -> result' = "error" /\ phase' = "done" /\ UNCHANGED rows
            [] r.out = Eof -> result' = "ok" /\ phase' = "done" /\ UNCHANGED rows
            [] OTHER -> rows' = Append(rows, r.out) /\ UNCHANGED <<result, phase>>
  /\ UNCHANGED <<c, workers, query, plan, original, rule, runs, calls>>

(* next is called once more behind the end: a row would be one too many. *)
CallAgain ==
  /\ phase = "done" /\ result = "ok" /\ calls < MaxCalls
  /\ \E r \in {Next(node, c)} :
       /\ node' = r.node
       /\ rows' = IF r.out = Eof THEN rows ELSE Append(rows, r.out)
  /\ calls' = calls + 1
  /\ UNCHANGED <<c, workers, query, plan, original, rule, result, runs, phase>>

RunAgain == phase = "done" /\ node # Null /\ runs < MaxRuns /\ Start(node)

Done ==
  /\ phase = "done" /\ (node = Null \/ runs = MaxRuns) /\ (result = "ok" => calls = MaxCalls)
  /\ UNCHANGED vars

QueryNext ==
  Plan \/ Optimize \/ CreatePhysicalPlan \/ Execute \/ CallAgain \/ RunAgain \/ Done

Spec == Init /\ [][QueryNext]_vars
-----------------------------------------------------------------------------
(***************************************************************************)
(* The reference: what a logical plan means, as the sequence of its rows   *)
(* up to the first error.                                                  *)
(***************************************************************************)

Cut(s) == LET k == SelectInSeq(s, LAMBDA x : x = Err) IN IF k = 0 THEN s ELSE SubSeq(s, 1, k)

Fails(s) == s # <<>> /\ Last(s) = Err

(* All of a stream, or its error alone. *)
Whole(s) == IF Fails(s) THEN <<Err>> ELSE s

RECURSIVE Chain(_, _)
Chain(p, seen) ==
  IF p = InvalidPage THEN <<>>
  ELSE IF p \in seen \/ ~c.pages[p].readable THEN <<Err>>
  ELSE c.pages[p].rows \o Chain(c.pages[p].next, seen \cup {p})

TableStream(t) ==
  IF t.index = Null THEN Cut(Chain(t.first, {}))
  ELSE Cut([i \in DOMAIN t.index |->
              LET page == c.pages[t.index[i][1]]
              IN  IF page.readable THEN page.rows[t.index[i][2]] ELSE Err])

(* A condition holds, does not, or is an error; unknown is what NULL is. *)
Holds(e, schema, tuple, unknown) ==
  LET v == Evaluate(e, schema, tuple)
  IN  IF v = Err THEN Err ELSE IF v.type # "Boolean" THEN Err
      ELSE IF v.v = Null THEN unknown ELSE v.v

FilterStream(s, e, schema) ==
  LET Item(x) == IF x = Err THEN <<Err>>
                 ELSE LET h == Holds(e, schema, x, Err)
                      IN  IF h = Err THEN <<Err>> ELSE IF h THEN <<x>> ELSE <<>>
  IN  Cut(FlattenSeq([i \in DOMAIN s |-> Item(s[i])]))

ProjectStream(s, exprs, schema) ==
  Cut([i \in DOMAIN s |-> IF s[i] = Err THEN Err ELSE EvaluateAll(exprs, schema, s[i])])

LimitStream(s, limit, offset) ==
  IF limit = 0 THEN <<>>
  ELSE IF Len(s) <= offset THEN (IF Fails(s) THEN <<Err>> ELSE <<>>)
  ELSE SubSeq(s, offset + 1,
              IF limit = Null \/ offset + limit > Len(s) THEN Len(s) ELSE offset + limit)

(* Every row at the place that the rows before it leave it. *)
SortStream(s, keys, schema) ==
  LET O(i, j) == SortTuples(keys, schema, s[i], s[j])
      Rank(i) == Cardinality({j \in DOMAIN s : O(j, i) = "Less" \/ (O(j, i) = "Equal" /\ j <= i)})
  IN  IF Fails(s) \/ \E i, j \in DOMAIN s : i < j /\ O(i, j) = Err THEN <<Err>>
      ELSE [k \in DOMAIN s |-> s[CHOOSE i \in DOMAIN s : Rank(i) = k]]

(* One row for every key, from all the rows that have it. *)
AggregateStream(s, p) ==
  LET in == SchemaOf(p.input)
      keys == [i \in DOMAIN s |-> EvaluateAll(p.groups, in, s[i])]
      args == [i \in DOMAIN s |-> EvaluateAll(p.aggs, in, s[i])]
      all  == IF p.groups = <<>> THEN {<<>>} ELSE ToSet(keys)
      Rows(key, a) == {i \in DOMAIN s : keys[i] = key /\ args[i][a].v # Null}
      Sum(R, a) == FoldSet(LAMBDA i, t : t + args[i][a].v, 0, R)
      Value(key, a) ==
        LET R == Rows(key, a)
        IN  IF p.aggs[a].kind = "Count" THEN Scalar("Int64", Cardinality(R))
            ELSE Scalar("Float64", IF R = {} THEN Null ELSE <<Sum(R, a), Cardinality(R)>>)
      refused == \E a \in DOMAIN p.aggs :
        \/ p.aggs[a].distinct
        \/ p.aggs[a].kind = "Avg"
             /\ \E i \in DOMAIN s : args[i][a].v # Null /\ CastTo(args[i][a], "Float64") = Err
  IN  IF Fails(s) THEN <<Err>>
      ELSE IF Err \in ToSet(keys) \/ Err \in ToSet(args) THEN <<Err>>
      ELSE IF refused /\ all # {} THEN <<Err>>
      ELSE SetToSeq({[a \in DOMAIN p.aggs |-> Value(key, a)] \o key : key \in all})

(* Every pair in the order of the left and then the right stream, the left *)
(* rows without a partner in their place, the right ones at the end.       *)
JoinStream(l, r, p) ==
  LET Nulls(q) == [i \in DOMAIN SchemaOf(q) |-> Scalar(SchemaOf(q)[i].type, Null)]
      Hit(x, y) == IF p.condition = Null THEN TRUE
                   ELSE Holds(p.condition, p.schema, x \o y, FALSE)
      Pair(x, y) == IF y = Err THEN <<Err>>
                    ELSE IF Hit(x, y) = Err THEN <<Err>>
                    ELSE IF Hit(x, y) THEN <<x \o y>> ELSE <<>>
      Pairs(x) == FlattenSeq([j \in DOMAIN r |-> Pair(x, r[j])])
      OfLeft(x) == IF x = Err THEN <<Err>>
                   ELSE IF Pairs(x) = <<>> /\ p.kind \in {"LeftOuter", "FullOuter"}
                   THEN <<x \o Nulls(p.right)>> ELSE Pairs(x)
      Alone(y) == y = Err \/ \A i \in DOMAIN l : Hit(l[i], y) = FALSE
      OfRight(y) == IF y = Err THEN Err ELSE Nulls(p.left) \o y
      lefts == Cut(FlattenSeq([i \in DOMAIN l |-> OfLeft(l[i])]))
      alone == SelectSeq(r, Alone)
  IN  IF Fails(lefts) \/ p.kind \notin {"RightOuter", "FullOuter"} THEN lefts
      ELSE lefts \o [j \in DOMAIN alone |-> OfRight(alone[j])]

RECURSIVE Stream(_)
Stream(p) ==
  CASE p.op = "TableScan" -> TableStream(c.tables[CatalogKey(p.table)])
    [] p.op = "EmptyRelation" -> IF p.one THEN <<(<<>>)>> ELSE <<>>
    [] p.op = "Values" ->
         Cut([i \in DOMAIN p.rows |->
                LET row == EvaluateAll(p.rows[i], <<>>, <<>>)
                IN  IF row = Err THEN Err
                    ELSE Collect([k \in DOMAIN p.schema |-> CastTo(row[k], p.schema[k].type)])])
    [] p.op = "Filter"  -> FilterStream(Stream(p.input), p.predicate, SchemaOf(p.input))
    [] p.op = "Project" -> ProjectStream(Stream(p.input), p.exprs, SchemaOf(p.input))
    [] p.op = "Limit"   -> LimitStream(Stream(p.input), p.limit, p.offset)
    [] p.op = "Sort" ->
         LimitStream(SortStream(Stream(p.input), p.keys, SchemaOf(p.input)), p.limit, 0)
    [] p.op = "Aggregate" -> AggregateStream(Stream(p.input), p)
    [] p.op = "Join" -> JoinStream(Stream(p.left), Stream(p.right), p)

(* Groups come in any order, unless they are sorted afterwards. *)
RECURSIVE Unordered(_)
Unordered(p) ==
  p.op # "Sort" /\ (\/ p.op = "Aggregate" /\ p.groups # <<>>
                    \/ \E i \in DOMAIN Inputs(p) : Unordered(Inputs(p)[i]))
-----------------------------------------------------------------------------
(* A serial scan takes a row that does not decode for the end of the table *)
(* (README, section 5); such tables are left to the other scans.           *)
SeesAllRows == workers > 1 \/ ~c.undecodable

(* Each rule keeps the rows that the plan means (logical_optimizer.rs:     *)
(* "computes the same results"); a plan that needs fewer rows may end      *)
(* before the row at which the other one failed.                           *)
OptimizerSound ==
  phase = "optimize" /\ plan # original =>
    \E s \in {Stream(original)}, r \in {Stream(plan)} :
      r = s \/ (Fails(s) /\ IsPrefix(r, Front(s)))

(* Whatever the parallelism, a finished query has all the rows of its plan *)
(* in their order, or fails exactly when the rows that it consumes end in  *)
(* an error or a thread cannot be started; and so does every further run   *)
(* of the plan, with no row behind the end.                                *)
ResultExact ==
  phase = "done" /\ node # Null /\ SeesAllRows =>
    \E s \in {Stream(plan)} :
      \/ result = "error" /\ (Fails(s) \/ (workers > 1 /\ ~c.threads))
      \/ /\ result = "ok" /\ ~Fails(s)
         /\ IF Unordered(plan) THEN ToBag(rows) = ToBag(s) ELSE rows = s

RECURSIVE Bounded(_)
Bounded(n) ==
  /\ n.op \in {"Filter", "Project", "Join"} => Len(n.pending) < BATCH_SIZE
  /\ n.op = "SeqScan" => Len(n.pending) < PAGE_BATCH * c.pageRows
  /\ n.op = "Join" => Bounded(n.leftInput) /\ Bounded(n.rightInput)
  /\ "input" \in DOMAIN n => Bounded(n.input)

(* Reading ahead is bounded: no queue outgrows one batch, or the rows of   *)
(* one batch of pages, however the executors are stacked.                  *)
QueuesBounded == node # Null => Bounded(node)
=============================================================================
