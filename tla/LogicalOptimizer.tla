-------------------------- MODULE LogicalOptimizer --------------------------
(***************************************************************************)
(* The rewriting of logical plans (optimizer/).  A rule that leaves a plan *)
(* alone answers None.                                                     *)
(***************************************************************************)
EXTENDS LogicalPlan

CONSTANT None

Rules     == <<"EliminateLimit", "MergeLimit", "PushDownLimit">>
MaxPasses == 3

Or(x, y) == IF x = None THEN y ELSE x

Smaller(x, y) == IF x < y THEN x ELSE y

RECURSIVE EliminateLimit(_)
EliminateLimit(plan) ==
  IF plan.op # "Limit" THEN None
  ELSE IF plan.limit = 0 THEN EmptyRelation(FALSE, SchemaOf(plan.input))
  ELSE IF plan.limit = Null /\ plan.offset = 0 THEN Or(EliminateLimit(plan.input), plan.input)
  ELSE None

(* A mutant of MergedLimit: the rows that the outer limit skips are not    *)
(* taken off the inner limit.                                              *)
MergedLimitUnshifted(parent, child) ==
  IF parent.limit = Null THEN child.limit
  ELSE IF child.limit = Null THEN parent.limit ELSE Smaller(parent.limit, child.limit)

MergedLimit(parent, child) ==
  LET left == IF child.limit = Null THEN Null
              ELSE IF child.limit > parent.offset THEN child.limit - parent.offset ELSE 0
  IN  IF parent.limit = Null THEN left
      ELSE IF left = Null THEN parent.limit ELSE Smaller(parent.limit, left)

RECURSIVE MergeLimit(_)
MergeLimit(plan) ==
  IF plan.op # "Limit" THEN None
  ELSE IF plan.input.op # "Limit" THEN None
  ELSE LET child == plan.input
           merged == Limit(MergedLimit(plan, child), child.offset + plan.offset, child.input)
       IN  Or(MergeLimit(merged), merged)

PushDownLimit(plan) ==
  IF plan.op # "Limit" THEN None
  ELSE IF plan.limit = Null \/ plan.input.op # "Sort" THEN None
  ELSE LET sort == plan.input
           n == plan.offset + plan.limit
           new == IF sort.limit = Null THEN n ELSE Smaller(sort.limit, n)
       IN  IF new = sort.limit THEN None
           ELSE WithNewInputs(plan, <<[sort EXCEPT !.limit = new]>>)

TryOptimize(rule, plan) ==
  CASE rule = "EliminateLimit" -> EliminateLimit(plan)
    [] rule = "MergeLimit"     -> MergeLimit(plan)
    [] rule = "PushDownLimit"  -> PushDownLimit(plan)

BottomUp(rule) == rule = "EliminateLimit"

RECURSIVE OptimizeRecursively(_, _)
OptimizeInputs(rule, plan) ==
  LET inputs == Inputs(plan)
      new == [i \in DOMAIN inputs |-> OptimizeRecursively(rule, inputs[i])]
  IN  IF \A i \in DOMAIN new : new[i] = None THEN None
      ELSE WithNewInputs(plan, [i \in DOMAIN new |-> Or(new[i], inputs[i])])

OptimizeRecursively(rule, plan) ==
  IF BottomUp(rule)
  THEN LET inner == OptimizeInputs(rule, plan)
       IN  Or(TryOptimize(rule, Or(inner, plan)), inner)
  ELSE LET self == TryOptimize(rule, plan)
       IN  Or(OptimizeInputs(rule, Or(self, plan)), self)

(* The plan after one rule of a pass. *)
ApplyRule(rule, plan) == Or(OptimizeRecursively(rule, plan), plan)
=============================================================================
