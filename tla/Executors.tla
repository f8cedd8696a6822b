----------------------------- MODULE Executors ------------------------------
(***************************************************************************)
(* The executors of a query (execution/physical_plan/) and the planner     *)
(* that builds them.  An executor is a record with its parameters, state   *)
(* and inputs; Open is its init and Next its next: Next answers with the   *)
(* executor afterwards and with a tuple, Eof (Ok(None)) or Err.            *)
(*                                                                         *)
(* The context c has the catalog (tables: schema, first page, and the row  *)
(* ids of an index if there is one), the pages (rows; a row that does not  *)
(* decode is Err) and says whether threads can be started.  The threads    *)
(* below ordered_map are in module ParallelFilter.                         *)
(***************************************************************************)
EXTENDS LogicalPlanner

CONSTANTS
  BATCH_SIZE,   \* 1024
  PAGE_BATCH,   \* 16
  Eof           \* Ok(None)

InvalidPage == 0

Answer(n, out) == [node |-> n, out |-> out]

RECURSIVE Next(_, _), Open(_)

(* The outputs, one for each input, of contiguous partitions are gathered  *)
(* in input order.  Threads are only started for two or more of them.      *)
OrderedMap(outputs, workers, c) ==
  IF workers > 1 /\ Len(outputs) > 1 /\ ~c.threads THEN Err ELSE outputs

(* A mutant of Pull: the batch is full one tuple too late. *)
RECURSIVE PullPast(_, _, _)
PullPast(n, c, k) ==
  IF k < 0 THEN [node |-> n, rows |-> <<>>, end |-> Null]
  ELSE LET r == Next(n, c)
       IN  IF r.out \in {Eof, Err} THEN [node |-> r.node, rows |-> <<>>, end |-> r.out]
           ELSE LET rest == PullPast(r.node, c, k - 1)
                IN  [rest EXCEPT !.rows = <<r.out>> \o @]

(* Up to k tuples of an input; end is Eof or Err if that ended them. *)
RECURSIVE Pull(_, _, _)
Pull(n, c, k) ==
  IF k = 0 THEN [node |-> n, rows |-> <<>>, end |-> Null]
  ELSE LET r == Next(n, c)
       IN  IF r.out \in {Eof, Err} THEN [node |-> r.node, rows |-> <<>>, end |-> r.out]
           ELSE LET rest == Pull(r.node, c, k - 1)
                IN  [rest EXCEPT !.rows = <<r.out>> \o @]

(* An error of the input goes behind what was pulled before it. *)
Behind(rows, end) == IF end = Err THEN Append(rows, Err) ELSE rows

(***************************************************************************)
(* Scans.                                                                  *)
(***************************************************************************)

(* TableIterator over the whole table: an unreadable page is an error, a   *)
(* row that does not decode ends the rows.                                 *)
SerialNext(n, c) ==
  LET Row(rid) == Answer([n EXCEPT !.cursor = rid, !.started = TRUE],
                         LET row == c.pages[rid[1]].rows[rid[2]]
                         IN  IF row = Err THEN Eof ELSE row)
      Failed == Answer([n EXCEPT !.started = TRUE], Err)
      Over   == Answer([n EXCEPT !.started = TRUE, !.ended = @ \/ ~n.started], Eof)
      First(p) ==
        IF p = InvalidPage THEN Over
        ELSE IF ~c.pages[p].readable THEN Failed
        ELSE IF c.pages[p].rows = <<>> THEN Over ELSE Row(<<p, 1>>)
  IN  IF n.ended THEN Over
      ELSE IF ~n.started THEN First(c.tables[n.table].first)
      ELSE LET page == c.pages[n.cursor[1]]
           IN  IF n.cursor[2] < Len(page.rows) THEN Row(<<n.cursor[1], n.cursor[2] + 1>>)
               ELSE First(page.next)

(* Up to k pages of the chain, in order; a page seen before, or one that   *)
(* cannot be read, ends the chain with an error.                           *)
RECURSIVE FetchPages(_, _, _, _)
FetchPages(p, visited, c, k) ==
  IF k = 0 \/ p = InvalidPage
  THEN [pages |-> <<>>, next |-> p, visited |-> visited, end |-> Null]
  ELSE IF p \in visited \/ ~c.pages[p].readable
  THEN [pages |-> <<>>, next |-> InvalidPage, visited |-> visited \cup {p}, end |-> Err]
  ELSE LET rest == FetchPages(c.pages[p].next, visited \cup {p}, c, k - 1)
       IN  [rest EXCEPT !.pages = <<c.pages[p].rows>> \o @]

(* The rows of a page, up to the first one that does not decode. *)
Decode(rows) ==
  LET bad == SelectInSeq(rows, LAMBDA row : row = Err)
  IN  IF bad = 0 THEN rows ELSE SubSeq(rows, 1, bad)

RECURSIVE ParallelNext(_, _)
ParallelNext(n, c) ==
  IF n.pending # <<>> THEN Answer([n EXCEPT !.pending = Tail(@)], Head(n.pending))
  ELSE IF n.next = InvalidPage THEN Answer(n, Eof)
  ELSE LET f == FetchPages(n.next, n.visited, c, PAGE_BATCH)
           decoded == OrderedMap([i \in DOMAIN f.pages |-> Decode(f.pages[i])], n.workers, c)
       IN  IF decoded = Err THEN Answer([n EXCEPT !.next = InvalidPage, !.visited = f.visited], Err)
           ELSE ParallelNext([n EXCEPT !.next = f.next, !.visited = f.visited,
                                       !.pending = Behind(FlattenSeq(decoded), f.end)], c)

SeqScanNext(n, c) == IF n.workers > 1 THEN ParallelNext(n, c) ELSE SerialNext(n, c)

(* The rows of an index, by row id; a row that does not decode is an error. *)
IndexScanNext(n, c) ==
  LET ids == c.tables[n.table].index
      rid == ids[n.at]
  IN  IF n.at > Len(ids) THEN Answer(n, Eof)
      ELSE Answer([n EXCEPT !.at = @ + 1],
                  IF c.pages[rid[1]].readable THEN c.pages[rid[1]].rows[rid[2]] ELSE Err)

ValuesNext(n) ==
  LET row == EvaluateAll(n.rows[n.cursor], <<>>, <<>>)
  IN  Answer([n EXCEPT !.cursor = @ + 1],
             IF n.cursor > Len(n.rows) THEN Eof
             ELSE IF row = Err THEN Err
             ELSE Collect([i \in DOMAIN n.schema |-> CastTo(row[i], n.schema[i].type)]))

EmptyNext(n) ==
  Answer([n EXCEPT !.count = @ + 1], IF n.count < n.produce THEN <<>> ELSE Eof)

(***************************************************************************)
(* Filter, projection and limit.                                           *)
(***************************************************************************)

(* A condition that is NULL, or not a Boolean, is an error. *)
Matches(n, tuple) ==
  LET v == Evaluate(n.predicate, n.input.schema, tuple)
  IN  IF v = Err THEN Err
      ELSE IF v.type # "Boolean" \/ v.v = Null THEN Err ELSE v.v

RECURSIVE FilterSerial(_, _)
FilterSerial(n, c) ==
  LET r == Next(n.input, c)
      m == [n EXCEPT !.input = r.node]
  IN  IF r.out \in {Eof, Err} THEN Answer(m, r.out)
      ELSE LET ok == Matches(n, r.out)
           IN  IF ok = Err THEN Answer(m, Err)
               ELSE IF ok THEN Answer(m, r.out) ELSE FilterSerial(m, c)

(* What a batch leaves: the tuples that match, and the errors. *)
Kept(rows, decisions) ==
  LET Item(i) == IF decisions[i] = Err THEN <<Err>>
                 ELSE IF decisions[i] THEN <<rows[i]>> ELSE <<>>
  IN  FlattenSeq([i \in DOMAIN rows |-> Item(i)])

RECURSIVE FilterParallel(_, _)
FilterParallel(n, c) ==
  IF n.pending # <<>> THEN Answer([n EXCEPT !.pending = Tail(@)], Head(n.pending))
  ELSE IF n.exhausted THEN Answer(n, Eof)
  ELSE LET b == Pull(n.input, c, BATCH_SIZE)
           decisions == OrderedMap([i \in DOMAIN b.rows |-> Matches(n, b.rows[i])], n.workers, c)
           m == [n EXCEPT !.input = b.node, !.exhausted = b.end # Null]
       IN  IF decisions = Err THEN Answer([m EXCEPT !.exhausted = TRUE], Err)
           ELSE FilterParallel([m EXCEPT !.pending = Behind(Kept(b.rows, decisions), b.end)], c)

FilterNext(n, c) == IF n.workers = 1 THEN FilterSerial(n, c) ELSE FilterParallel(n, c)

ProjectTuple(n, tuple) == EvaluateAll(n.exprs, n.input.schema, tuple)

ProjectSerial(n, c) ==
  LET r == Next(n.input, c)
  IN  Answer([n EXCEPT !.input = r.node],
             IF r.out \in {Eof, Err} THEN r.out ELSE ProjectTuple(n, r.out))

(* An empty queue is filled once; if it stays empty the answer is Eof. *)
ProjectParallel(n, c) ==
  LET b == Pull(n.input, c, BATCH_SIZE)
      rows == OrderedMap([i \in DOMAIN b.rows |-> ProjectTuple(n, b.rows[i])], n.workers, c)
      Pop(m) == IF m.pending = <<>> THEN Answer(m, Eof)
                ELSE Answer([m EXCEPT !.pending = Tail(@)], Head(m.pending))
  IN  IF n.pending # <<>> \/ n.exhausted THEN Pop(n)
      ELSE IF rows = Err THEN Answer([n EXCEPT !.input = b.node, !.exhausted = TRUE], Err)
      ELSE Pop([n EXCEPT !.input = b.node, !.exhausted = b.end # Null,
                         !.pending = Behind(rows, b.end)])

ProjectNext(n, c) == IF n.workers = 1 THEN ProjectSerial(n, c) ELSE ProjectParallel(n, c)

RECURSIVE LimitNext(_, _)
LimitNext(n, c) ==
  LET r == Next(n.input, c)
      m == [n EXCEPT !.input = r.node]
  IN  IF n.exhausted \/ n.remaining = 0 THEN Answer(n, Eof)
      ELSE IF r.out = Err THEN Answer(m, Err)
      ELSE IF r.out = Eof THEN Answer([m EXCEPT !.exhausted = TRUE], Eof)
      ELSE IF n.toSkip > 0 THEN LimitNext([m EXCEPT !.toSkip = @ - 1], c)
      ELSE Answer([m EXCEPT !.remaining = IF @ = Null THEN Null ELSE @ - 1], r.out)

(***************************************************************************)
(* Sorting.                                                                *)
(***************************************************************************)

(* The order of two tuples by the first key that tells them apart. *)
RECURSIVE SortTuples(_, _, _, _)
SortTuples(keys, schema, a, b) ==
  IF keys = <<>> THEN "Equal"
  ELSE LET x == Evaluate(Head(keys).of, schema, a)
           y == Evaluate(Head(keys).of, schema, b)
           o == IF x = Err \/ y = Err THEN Err
                ELSE IF Head(keys).asc THEN PartialCmp(x, y) ELSE PartialCmp(y, x)
       IN  IF o = "Equal" THEN SortTuples(Tail(keys), schema, a, b) ELSE o

(* A stable sort: a tuple goes behind those that are not greater. *)
Sorted(keys, schema, rows) ==
  LET Insert(done, t) ==
        LET k == SelectInSeq(done, LAMBDA u : SortTuples(keys, schema, t, u) = "Less")
        IN  IF k = 0 THEN Append(done, t) ELSE InsertAt(done, k, t)
  IN  FoldLeft(Insert, <<>>, rows)

Incomparable(keys, schema, rows) ==
  \E i, j \in DOMAIN rows : i < j /\ SortTuples(keys, schema, rows[i], rows[j]) = Err

RECURSIVE PullAll(_, _)
PullAll(n, c) ==
  LET b == Pull(n, c, BATCH_SIZE)
      rest == PullAll(b.node, c)
  IN  IF b.end # Null THEN b ELSE [rest EXCEPT !.rows = b.rows \o @]

(* Everything is loaded when nothing is there yet. *)
SortNext(n, c) ==
  LET b == PullAll(n.input, c)
      m == [n EXCEPT !.input = b.node]
      Pop(x) == Answer([x EXCEPT !.cursor = @ + 1],
                       IF x.cursor \in DOMAIN x.all THEN x.all[x.cursor] ELSE Eof)
  IN  IF n.all # <<>> THEN Pop(n)
      ELSE IF b.end = Err \/ Incomparable(n.keys, n.schema, b.rows) THEN Answer(m, Err)
      ELSE Pop([m EXCEPT !.all = Sorted(n.keys, n.schema, b.rows)])

(***************************************************************************)
(* Aggregation: accumulators of partitions are merged.  A sum is Null      *)
(* before the first value, and a mean the pair of its sum and count.       *)
(***************************************************************************)

NewAccumulator == [sum |-> Null, count |-> 0]

(* The counts are 64 bits wide: no query here reaches checked_add's error. *)
Merge(x, y) ==
  [sum |-> IF y.sum = Null THEN x.sum ELSE IF x.sum = Null THEN y.sum ELSE x.sum + y.sum,
   count |-> x.count + y.count]

(* COUNT counts the values that are not NULL, AVG adds them up as well. *)
UpdateValue(kind, acc, value) ==
  LET f == CastTo(value, "Float64")
  IN  IF value.v = Null THEN acc
      ELSE IF kind = "Count" THEN Merge(acc, [sum |-> Null, count |-> 1])
      ELSE IF f = Err THEN Err ELSE Merge(acc, [sum |-> f.v, count |-> 1])

FinalValue(kind, acc) ==
  IF kind = "Count" THEN Scalar("Int64", acc.count)
  ELSE Scalar("Float64", IF acc.sum = Null THEN Null ELSE <<acc.sum, acc.count>>)

BuildAccumulators(n) ==
  IF \E i \in DOMAIN n.aggs : n.aggs[i].distinct THEN Err
  ELSE [i \in DOMAIN n.aggs |-> NewAccumulator]

NoGroups == [key \in {} |-> <<>>]

SetGroup(groups, key, accs) ==
  IF accs = Err THEN Err
  ELSE [k \in DOMAIN groups \cup {key} |-> IF k = key THEN accs ELSE groups[k]]

UpdateAccumulators(n, accs, args) ==
  IF accs = Err THEN Err
  ELSE Collect([i \in DOMAIN n.aggs |-> UpdateValue(n.aggs[i].kind, accs[i], args[i])])

(* A new group gets new accumulators. *)
UpdateGroup(n, groups, key, args) ==
  IF Err \in {key, args} THEN Err
  ELSE SetGroup(groups, key,
         UpdateAccumulators(n, IF key \in DOMAIN groups THEN groups[key] ELSE BuildAccumulators(n),
                            args))

(* The groups of a partition of the rows, tuple by tuple. *)
Accumulate(n, rows) ==
  LET Step(groups, tuple) ==
        IF groups = Err THEN Err
        ELSE UpdateGroup(n, groups, EvaluateAll(n.groups, n.input.schema, tuple),
                         EvaluateAll(n.aggs, n.input.schema, tuple))
  IN  FoldLeft(Step, NoGroups, rows)

(* Contiguous partitions, as many as there are workers or fewer. *)
Chunks(rows, workers) ==
  LET size == (Len(rows) + workers - 1) \div workers
  IN  [i \in 1..(Len(rows) + size - 1) \div size |->
         SubSeq(rows, (i - 1) * size + 1, IF i * size < Len(rows) THEN i * size ELSE Len(rows))]

MergeGroups(groups, partial) ==
  [key \in DOMAIN groups \cup DOMAIN partial |->
     IF key \notin DOMAIN partial THEN groups[key]
     ELSE IF key \notin DOMAIN groups THEN partial[key]
     ELSE [i \in DOMAIN groups[key] |-> Merge(groups[key][i], partial[key][i])]]

(* The groups with those of all the partitions merged into them. *)
MergePartials(groups, partials) ==
  IF partials = Err THEN Err
  ELSE IF Err \in ToSet(partials) THEN Err ELSE FoldLeft(MergeGroups, groups, partials)

AggregateBatch(n, c, groups, chunks) ==
  MergePartials(groups,
    OrderedMap([i \in DOMAIN chunks |-> Accumulate(n, chunks[i])], n.workers, c))

(* Batch by batch until one is empty: [node, groups], groups an error if   *)
(* the input, a thread or an expression fails.                             *)
RECURSIVE AggregateInput(_, _, _)
AggregateInput(n, c, groups) ==
  LET b == Pull(n.input, c, BATCH_SIZE)
      m == [n EXCEPT !.input = b.node]
  IN  IF groups = Err THEN [node |-> n, groups |-> Err]
      ELSE IF b.end = Err THEN [node |-> m, groups |-> Err]
      ELSE IF b.rows = <<>> THEN [node |-> m, groups |-> groups]
      ELSE AggregateInput(m, c, AggregateBatch(n, c, groups, Chunks(b.rows, n.workers)))

(* The groups come in the order of a hash map: here an arbitrary one. *)
GroupRows(n, groups) ==
  LET Row(key) == [i \in DOMAIN n.aggs |-> FinalValue(n.aggs[i].kind, groups[key][i])] \o key
  IN  SetToSeq({Row(key) : key \in DOMAIN groups})

PopGroup(n) ==
  IF n.out = <<>> THEN Answer(n, Eof) ELSE Answer([n EXCEPT !.out = Tail(@)], Head(n.out))

FinishAggregate(n, groups) ==
  IF groups = Err THEN Answer([n EXCEPT !.built = TRUE], Err)
  ELSE PopGroup([n EXCEPT !.built = TRUE, !.out = GroupRows(n, groups)])

(* Without GROUP BY there is one group, even for no rows at all. *)
StartGroups(n) ==
  IF n.groups # <<>> THEN NoGroups ELSE SetGroup(NoGroups, <<>>, BuildAccumulators(n))

AggregateNext(n, c) ==
  LET done == AggregateInput(n, c, StartGroups(n))
  IN  IF n.built THEN PopGroup(n) ELSE FinishAggregate(done.node, done.groups)

(***************************************************************************)
(* The nested loop join.                                                   *)
(***************************************************************************)

(* A missing side is filled with NULLs. *)
Combine(n, l, r) ==
  (IF l = Null THEN EmptyTuple(n.leftInput.schema) ELSE l)
    \o (IF r = Null THEN EmptyTuple(n.rightInput.schema) ELSE r)

(* The combined tuple, Null if it does not match, or an error. *)
JoinTuples(n, l, r) ==
  LET v == Evaluate(n.condition, n.schema, Combine(n, l, r))
  IN  IF n.condition = Null THEN Combine(n, l, r)
      ELSE IF v = Err THEN Err
      ELSE IF v.type # "Boolean" THEN Err
      ELSE IF v.v = TRUE THEN Combine(n, l, r) ELSE Null

PreservesLeft(n)  == n.kind \in {"LeftOuter", "FullOuter"}
PreservesRight(n) == n.kind \in {"RightOuter", "FullOuter"}

RECURSIVE JoinNext(_, _)

(* Right tuples that no left tuple matched, known by their ordinals. *)
EmitUnmatchedRight(n, c) ==
  LET r == Next(n.rightInput, c)
      m == [n EXCEPT !.rightInput = r.node]
  IN  IF r.out \in {Eof, Err} THEN Answer([m EXCEPT !.exhausted = TRUE], r.out)
      ELSE LET next == [m EXCEPT !.rightOrdinal = @ + 1]
           IN  IF n.rightOrdinal \in n.matchedRight THEN JoinNext(next, c)
               ELSE Answer(next, Combine(n, Null, r.out))

(* A mutant of FinishRight: the right input is not started again. *)
FinishRightOnce(n) ==
  [n EXCEPT !.left = Null, !.leftMatched = FALSE, !.rightOrdinal = 0, !.rightFinished = FALSE,
            !.pending = IF PreservesLeft(n) /\ ~n.leftMatched
                        THEN <<Combine(n, n.left, Null)>> ELSE <<>>]

(* The right input is at its end: on with the next left tuple. *)
FinishRight(n) ==
  [n EXCEPT !.left = Null, !.leftMatched = FALSE, !.rightOrdinal = 0, !.rightFinished = FALSE,
            !.rightInput = Open(@),
            !.pending = IF PreservesLeft(n) /\ ~n.leftMatched
                        THEN <<Combine(n, n.left, Null)>> ELSE <<>>]

NextLeft(n, c) ==
  LET r == Next(n.leftInput, c)
      m == [n EXCEPT !.leftInput = r.node]
  IN  IF r.out = Err THEN Answer(m, Err)
      ELSE IF r.out # Eof THEN JoinNext([m EXCEPT !.left = r.out], c)
      ELSE IF PreservesRight(n)
      THEN JoinNext([m EXCEPT !.rightInput = Open(@), !.emitting = TRUE, !.rightOrdinal = 0], c)
      ELSE Answer([m EXCEPT !.exhausted = TRUE], Eof)

(* One left tuple against a batch of right tuples. *)
JoinBatch(n, c) ==
  LET b == Pull(n.rightInput, c, IF n.workers > 1 THEN BATCH_SIZE ELSE 1)
      rows == OrderedMap([i \in DOMAIN b.rows |-> JoinTuples(n, n.left, b.rows[i])], n.workers, c)
      m == [n EXCEPT !.rightInput = b.node, !.rightOrdinal = @ + Len(b.rows),
                     !.rightFinished = b.end = Eof, !.exhausted = b.end = Err]
      hits == {i \in DOMAIN rows : rows[i] \notin {Null, Err}}
  IN  IF rows = Err THEN Answer([m EXCEPT !.exhausted = TRUE], Err)
      ELSE JoinNext([m EXCEPT
             !.leftMatched = @ \/ hits # {},
             !.matchedRight = @ \cup {n.rightOrdinal + i - 1 : i \in hits},
             !.pending = Behind(SelectSeq(rows, LAMBDA row : row # Null), b.end)], c)

JoinNext(n, c) ==
  IF n.pending # <<>> THEN Answer([n EXCEPT !.pending = Tail(@)], Head(n.pending))
  ELSE IF n.exhausted THEN Answer(n, Eof)
  ELSE IF n.emitting THEN EmitUnmatchedRight(n, c)
  ELSE IF n.rightFinished THEN JoinNext(FinishRight(n), c)
  ELSE IF n.left = Null THEN NextLeft(n, c)
  ELSE JoinBatch(n, c)

(***************************************************************************)
(* Plans.                                                                  *)
(***************************************************************************)

Next(n, c) ==
  CASE n.op = "SeqScan"   -> SeqScanNext(n, c)
    [] n.op = "IndexScan" -> IndexScanNext(n, c)
    [] n.op = "Values"    -> ValuesNext(n)
    [] n.op = "Empty"     -> EmptyNext(n)
    [] n.op = "Filter"    -> FilterNext(n, c)
    [] n.op = "Project"   -> ProjectNext(n, c)
    [] n.op = "Limit"     -> LimitNext(n, c)
    [] n.op = "Sort"      -> SortNext(n, c)
    [] n.op = "Aggregate" -> AggregateNext(n, c)
    [] n.op = "Join"      -> JoinNext(n, c)

(* The state that init gives an executor, and its inputs with it. *)
Fresh(n) ==
  CASE n.op = "SeqScan" ->
         [started |-> FALSE, ended |-> FALSE, cursor |-> Null,
          next |-> n.first, visited |-> {}, pending |-> <<>>]
    [] n.op = "IndexScan" -> [at |-> 1]
    [] n.op = "Values"    -> [cursor |-> 1]
    [] n.op = "Empty"     -> [count |-> 0]
    [] n.op \in {"Filter", "Project"} -> [pending |-> <<>>, exhausted |-> FALSE]
    [] n.op = "Limit" -> [toSkip |-> n.offset, remaining |-> n.limit, exhausted |-> FALSE]
    [] n.op = "Sort"  -> [all |-> <<>>, cursor |-> 1]
    [] n.op = "Aggregate" -> [out |-> <<>>, built |-> FALSE]
    [] n.op = "Join" ->
         [left |-> Null, rightFinished |-> FALSE, exhausted |-> FALSE, leftMatched |-> FALSE,
          rightOrdinal |-> 0, matchedRight |-> {}, emitting |-> FALSE, pending |-> <<>>]

Open(n) ==
  LET m == Fresh(n) @@ n
  IN  IF "input" \in DOMAIN n THEN [m EXCEPT !.input = Open(@)]
      ELSE IF n.op = "Join" THEN [m EXCEPT !.leftInput = Open(@), !.rightInput = Open(@)]
      ELSE m

(* A table with an index is scanned through it. *)
ScanPlan(plan, workers, c) ==
  LET key == CatalogKey(plan.table)
  IN  IF c.tables[key].index # Null
      THEN [op |-> "IndexScan", table |-> key, schema |-> plan.schema]
      ELSE [op |-> "SeqScan", table |-> key, schema |-> plan.schema,
            first |-> c.tables[key].first, workers |-> workers]

(* The limit of a sort is dropped. *)
RECURSIVE BuildPlan(_, _, _)
BuildPlan(plan, workers, c) ==
  LET Input == BuildPlan(plan.input, workers, c)
      With(r) == r @@ [op |-> plan.op, schema |-> SchemaOf(plan)]
  IN  CASE plan.op = "TableScan" -> ScanPlan(plan, workers, c)
        [] plan.op = "Values" -> With([rows |-> plan.rows])
        [] plan.op = "EmptyRelation" ->
             [op |-> "Empty", produce |-> IF plan.one THEN 1 ELSE 0, schema |-> plan.schema]
        [] plan.op = "Filter" ->
             With([predicate |-> plan.predicate, workers |-> workers, input |-> Input])
        [] plan.op = "Project" ->
             With([exprs |-> plan.exprs, workers |-> workers, input |-> Input])
        [] plan.op = "Limit" ->
             With([limit |-> plan.limit, offset |-> plan.offset, input |-> Input])
        [] plan.op = "Sort" -> With([keys |-> plan.keys, input |-> Input])
        [] plan.op = "Aggregate" ->
             With([groups |-> plan.groups, aggs |-> plan.aggs, workers |-> workers,
                   input |-> Input])
        [] plan.op = "Join" ->
             With([kind |-> plan.kind, condition |-> plan.condition, workers |-> workers,
                   leftInput  |-> BuildPlan(plan.left, workers, c),
                   rightInput |-> BuildPlan(plan.right, workers, c)])
=============================================================================
